---------------------------- MODULE AgentSession ----------------------------
(***************************************************************************)
(* The agent service (apps/agent-service) and its frame decoder            *)
(* (packages/protocol): a peer writes length-prefixed frames to a pipe,    *)
(* which delivers them in chunks of any size.  A chunk is decoded as a     *)
(* whole, with the limit in force when it arrives, before any frame of it  *)
(* is served; the first bad frame ends the session and takes the frames    *)
(* decoded before it along.                                                *)
(*                                                                         *)
(* Of the bytes in the buffer it matters which frames are complete and     *)
(* whether the header of the next one is there.  A frame has a size; the   *)
(* answer to it repeats parts of it and has a size too (`reply`).          *)
(***************************************************************************)
EXTENDS Naturals, Sequences

CONSTANTS
  Frames,        \* the frames a peer may send
  MinLimit,      \* the limit before the handshake, 1024 bytes
  DefaultMax,    \* DEFAULT_MAX_FRAME_BYTES
  MaxFrames      \* bounds what the peer sends

ASSUME SessionAssumption ==
  /\ Frames \subseteq [kind : {"handshake", "ping", "other"}, size : Nat, wanted : Nat,
                       payload : BOOLEAN, valid : BOOLEAN, reply : Nat]
  /\ MinLimit \in Nat /\ DefaultMax \in Nat /\ MinLimit <= DefaultMax
  /\ MaxFrames \in Nat

VARIABLES
  sent,                  \* all frames the peer has written
  conforming,            \* the peer has kept to the protocol
  complete, header,      \* frames that have arrived, the header of the next has
  decoderLimit,          \* FrameDecoder's #maxBytes
  batch,                 \* frames of the last chunk that are still to be served
  handshaken, maxFrameBytes,   \* the session
  replies,
  open                   \* stdin has not been destroyed

pipe == <<sent, conforming>>
decoder == <<complete, header, decoderLimit>>
session == <<handshaken, maxFrameBytes>>
vars == <<pipe, decoder, batch, session, replies, open>>

Compatible(f) == f.kind = "handshake" /\ f.payload /\ f.wanted >= MinLimit

Smaller(m, n) == IF m <= n THEN m ELSE n

(* What the peer may send: small frames, until it has read the answer to   *)
(* its handshake; and only what can be answered within the limit.          *)
PeerLimit ==
  IF \E i \in 1..Len(replies) : replies[i] = "handshake.ok" THEN maxFrameBytes ELSE MinLimit

Conforms(f) == f.valid /\ f.payload /\ f.size <= PeerLimit /\ f.reply <= PeerLimit

Init ==
  /\ sent = <<>> /\ conforming = TRUE
  /\ complete = 0 /\ header = FALSE /\ decoderLimit = MinLimit
  /\ batch = <<>>
  /\ handshaken = FALSE /\ maxFrameBytes = DefaultMax
  /\ replies = <<>>
  /\ open = TRUE

PeerSends(f) ==
  /\ Len(sent) < MaxFrames
  /\ sent' = Append(sent, f)
  /\ conforming' = (conforming /\ Conforms(f))
  /\ UNCHANGED <<decoder, batch, session, replies, open>>

Oversize(f) == f.size > decoderLimit

(* A chunk completes all frames up to n, and holds the header of the next  *)
(* one if `next`.                                                          *)
Chunk(n, next) ==
  /\ open
  /\ batch = <<>>
  /\ n > complete \/ (next /\ ~ header)
  /\ next => n < Len(sent)

(* Variant with a defect: only the first of the frames is returned.        *)
DecodeFirst(n, next) ==
  /\ Chunk(n, next)
  /\ \A i \in (complete + 1)..n : ~ Oversize(sent[i]) /\ sent[i].valid
  /\ next => ~ Oversize(sent[n + 1])
  /\ complete' = n
  /\ header' = next
  /\ batch' = IF n > complete THEN <<sent[complete + 1]>> ELSE <<>>
  /\ UNCHANGED <<pipe, decoderLimit, session, replies, open>>

(* FrameDecoder.push returns the complete frames.                          *)
Decode(n, next) ==
  /\ Chunk(n, next)
  /\ \A i \in (complete + 1)..n : ~ Oversize(sent[i]) /\ sent[i].valid
  /\ next => ~ Oversize(sent[n + 1])
  /\ complete' = n
  /\ header' = next
  /\ batch' = SubSeq(sent, complete + 1, n)
  /\ UNCHANGED <<pipe, decoderLimit, session, replies, open>>

(* It throws: the frames it has decoded are lost.                          *)
Reject(n, next) ==
  /\ Chunk(n, next)
  /\ \/ \E i \in (complete + 1)..n : Oversize(sent[i]) \/ ~ sent[i].valid
     \/ next /\ Oversize(sent[n + 1])
  /\ open' = FALSE
  /\ UNCHANGED <<pipe, decoder, batch, session, replies>>

(* Variant with a defect: a second handshake is taken for a first one.     *)
AnswerAgain(f) ==
  IF f.kind = "handshake"
  THEN IF Compatible(f) THEN "handshake.ok" ELSE "INCOMPATIBLE_PROTOCOL"
  ELSE IF ~ handshaken THEN "HANDSHAKE_REQUIRED"
  ELSE IF f.kind = "ping" THEN "pong" ELSE "UNKNOWN_FRAME_KIND"

(* AgentServiceSession.handle.                                             *)
Answer(f) ==
  IF ~ handshaken /\ f.kind # "handshake" THEN "HANDSHAKE_REQUIRED"
  ELSE IF f.kind = "handshake"
       THEN IF handshaken THEN "ALREADY_HANDSHAKEN"
            ELSE IF Compatible(f) THEN "handshake.ok" ELSE "INCOMPATIBLE_PROTOCOL"
       ELSE IF f.kind = "ping" THEN "pong" ELSE "UNKNOWN_FRAME_KIND"

(* Variant with a defect: a peer gets any limit it asks for.               *)
LimitAfterAsWanted(f) ==
  IF Answer(f) = "handshake.ok" THEN f.wanted ELSE maxFrameBytes

(* The limit of the session once f has been handled.                       *)
LimitAfter(f) ==
  IF Answer(f) = "handshake.ok" THEN Smaller(f.wanted, DefaultMax) ELSE maxFrameBytes

(* handle throws if it looks for a member of a payload that is not there;  *)
(* encodeFrame throws if the answer is too long for the limit.             *)
Throws(f) ==
  \/ f.kind = "handshake" /\ ~ handshaken /\ ~ f.payload
  \/ f.reply > LimitAfter(f)

(* Variant with a defect: the decoder is not told of the new limit.        *)
ServeWithOldLimit ==
  LET f == Head(batch)
  IN  /\ batch # <<>>
      /\ handshaken' = (handshaken \/ Answer(f) = "handshake.ok")
      /\ maxFrameBytes' = LimitAfter(f)
      /\ IF Throws(f)
         THEN open' = FALSE /\ batch' = <<>> /\ UNCHANGED replies
         ELSE /\ replies' = Append(replies, Answer(f))
              /\ batch' = Tail(batch)
              /\ UNCHANGED open
      /\ UNCHANGED <<pipe, complete, header, decoderLimit>>

(* One turn of the loop over the decoded frames.  If it throws, the rest of*)
(* the batch is lost.                                                      *)
Serve ==
  LET f == Head(batch)
      agreed == Answer(f) = "handshake.ok"
  IN  /\ batch # <<>>
      /\ handshaken' = (handshaken \/ agreed)
      /\ maxFrameBytes' = LimitAfter(f)
      /\ decoderLimit' = IF agreed THEN LimitAfter(f) ELSE decoderLimit
      /\ IF Throws(f)
         THEN open' = FALSE /\ batch' = <<>> /\ UNCHANGED replies
         ELSE /\ replies' = Append(replies, Answer(f))
              /\ batch' = Tail(batch)
              /\ UNCHANGED open
      /\ UNCHANGED <<pipe, complete, header>>

Deliver == \E n \in complete..Len(sent), next \in BOOLEAN : Decode(n, next) \/ Reject(n, next)

Next == (\E f \in Frames : PeerSends(f)) \/ Deliver \/ Serve

(* The pipe delivers what was written, and the event loop goes on.         *)
Fairness == WF_vars(Deliver) /\ WF_vars(Serve)

Spec == Init /\ [][Next]_vars /\ Fairness
----------------------------------------------------------------------------
(* The variables have their types; both limits stay between the minimum    *)
(* and the default, whatever a handshake asks for (server.ts:50-56).       *)
TypeOK ==
  /\ sent \in Seq(Frames) /\ Len(sent) <= MaxFrames
  /\ conforming \in BOOLEAN
  /\ complete \in 0..Len(sent) /\ header \in BOOLEAN
  /\ decoderLimit \in MinLimit..DefaultMax /\ maxFrameBytes \in MinLimit..DefaultMax
  /\ batch \in Seq(Frames)
  /\ handshaken \in BOOLEAN
  /\ replies \in Seq({"HANDSHAKE_REQUIRED", "ALREADY_HANDSHAKEN", "INCOMPATIBLE_PROTOCOL",
                      "handshake.ok", "pong", "UNKNOWN_FRAME_KIND"})
  /\ open \in BOOLEAN

(* Requests are answered one by one and in order, whatever the chunks: the *)
(* answers, and the limits that each request and each answer must keep to, *)
(* depend on the requests before it and not on how they were delivered.    *)
Promise == INSTANCE AgentProtocol WITH requests <- sent, answers <- replies, serving <- open
ImplementsAgentProtocol == Promise!Spec

(* A peer that keeps to the protocol (main.ts:4, "only after negotiation  *)
(* may either peer send larger frames") is never cut off, however its      *)
(* frames are cut into chunks and however many it sends at a time.         *)
ConformingPeerIsServed == conforming => open

(* Every frame of such a peer is answered in the end.                      *)
EveryFrameAnswered ==
  \A n \in 1..MaxFrames :
    (conforming /\ Len(sent) >= n) ~> (~ conforming \/ Len(replies) >= n)
=============================================================================
