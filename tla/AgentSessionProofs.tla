------------------------- MODULE AgentSessionProofs -------------------------
(***************************************************************************)
(* The properties of AgentSession, for frames of any size and number, cut  *)
(* into any chunks, and for any limits.                                    *)
(*                                                                         *)
(* The argument: the frames in the batch are the next ones to be answered  *)
(* (Queued), so that the state of the session is what the answered frames  *)
(* make of it (Agreed), and the decoder's limit, by which they were judged *)
(* when they arrived, has not fallen since (Judged).                       *)
(***************************************************************************)
EXTENDS AgentSession, SequenceTheorems, TLAPS

Replies == {"HANDSHAKE_REQUIRED", "ALREADY_HANDSHAKEN", "INCOMPATIBLE_PROTOCOL",
            "handshake.ok", "pong", "UNKNOWN_FRAME_KIND"}

(* The batch holds the frames that follow the answered ones.               *)
Queued ==
  /\ Len(replies) <= complete
  /\ open => complete = Len(replies) + Len(batch)
  /\ ~ open => batch = <<>>
  /\ \A i \in 1..Len(batch) : batch[i] = sent[Len(replies) + i]

Judged == \A i \in 1..Len(batch) : batch[i].valid /\ batch[i].size <= decoderLimit

(* The handshake that counts is the first one that fits.                   *)
First(k) == Compatible(sent[k]) /\ \A j \in 1..(k - 1) : ~ Compatible(sent[j])

SettledLimit(k) == Smaller(sent[k].wanted, DefaultMax)

Agreed ==
  open =>
    IF handshaken
    THEN \E k \in 1..Len(replies) :
           First(k) /\ maxFrameBytes = SettledLimit(k) /\ decoderLimit = maxFrameBytes
    ELSE /\ \A i \in 1..Len(replies) : ~ Compatible(sent[i]) /\ replies[i] # "handshake.ok"
         /\ maxFrameBytes = DefaultMax /\ decoderLimit = MinLimit

(* A peer that conforms has nothing in the pipe that could be refused.     *)
Acceptable ==
  conforming =>
    /\ open
    /\ \A i \in (Len(replies) + 1)..Len(sent) :
         /\ sent[i].valid /\ sent[i].payload
         /\ sent[i].size <= decoderLimit /\ sent[i].reply <= decoderLimit

SessionInv == TypeOK /\ Queued /\ Judged /\ Agreed /\ Acceptable

-----------------------------------------------------------------------------

LEMMA FrameTypes ==
  ASSUME NEW f \in Frames
  PROVE  /\ f.kind \in {"handshake", "ping", "other"}
         /\ f.size \in Nat /\ f.wanted \in Nat /\ f.reply \in Nat
         /\ f.payload \in BOOLEAN /\ f.valid \in BOOLEAN
BY SessionAssumption

(* What is known of the lengths.                                           *)
LEMMA Lengths ==
  ASSUME TypeOK, Queued
  PROVE  /\ Len(sent) \in Nat /\ Len(replies) \in Nat /\ Len(batch) \in Nat /\ complete \in Nat
         /\ complete <= Len(sent) /\ Len(replies) <= complete
         /\ open => Len(replies) + Len(batch) = complete
BY DEF TypeOK, Queued

(* An answer is one of the six, and a new limit lies between the old one   *)
(* of the decoder and the default.                                         *)
LEMMA AnswerTypes ==
  ASSUME SessionInv, open, NEW f \in Frames
  PROVE  /\ Answer(f) \in Replies
         /\ LimitAfter(f) \in MinLimit..DefaultMax
         /\ decoderLimit <= LimitAfter(f)
         /\ Answer(f) = "handshake.ok" <=> ~ handshaken /\ Compatible(f)
<1>1. /\ MinLimit \in Nat /\ DefaultMax \in Nat /\ MinLimit <= DefaultMax
      /\ maxFrameBytes \in MinLimit..DefaultMax /\ decoderLimit \in MinLimit..DefaultMax
      /\ handshaken \in BOOLEAN
  BY SessionAssumption DEF SessionInv, TypeOK
<1>2. f.kind \in {"handshake", "ping", "other"} /\ f.wanted \in Nat
  BY FrameTypes
<1>3. Answer(f) \in Replies
  BY <1>2 DEF Answer, Replies
<1>4. Answer(f) = "handshake.ok" <=> ~ handshaken /\ Compatible(f)
  <2>1. CASE handshaken
    BY <1>2, <2>1 DEF Answer
  <2>2. CASE ~ handshaken /\ f.kind = "handshake" /\ Compatible(f)
    BY <2>2 DEF Answer
  <2>3. CASE ~ handshaken /\ f.kind = "handshake" /\ ~ Compatible(f)
    BY <2>3 DEF Answer
  <2>4. CASE ~ handshaken /\ f.kind # "handshake"
    BY <2>4 DEF Answer, Compatible
  <2> QED BY <2>1, <2>2, <2>3, <2>4
<1>5. handshaken => decoderLimit = maxFrameBytes
  BY DEF SessionInv, Agreed
<1>6. ~ handshaken => decoderLimit = MinLimit /\ maxFrameBytes = DefaultMax
  BY DEF SessionInv, Agreed
<1>7. CASE Answer(f) = "handshake.ok"
  <2>1. f.wanted >= MinLimit /\ ~ handshaken
    BY <1>4, <1>7 DEF Compatible
  <2>2. LimitAfter(f) = Smaller(f.wanted, DefaultMax)
    BY <1>7 DEF LimitAfter
  <2> QED BY <1>1, <1>2, <1>3, <1>4, <1>6, <2>1, <2>2 DEF Smaller
<1>8. CASE Answer(f) # "handshake.ok"
  <2>1. LimitAfter(f) = maxFrameBytes
    BY <1>8 DEF LimitAfter
  <2> QED BY <1>1, <1>3, <1>4, <1>5, <1>6, <2>1
<1> QED BY <1>7, <1>8

(* The next frame of the batch is the next one to be answered.             *)
LEMMA HeadIsNext ==
  ASSUME SessionInv, batch # <<>>
  PROVE  /\ open
         /\ Len(replies) + 1 \in 1..Len(sent) /\ Len(replies) + 1 <= complete
         /\ Head(batch) = sent[Len(replies) + 1] /\ Head(batch) \in Frames
         /\ Head(batch).valid /\ Head(batch).size <= decoderLimit
         /\ Tail(batch) \in Seq(Frames) /\ Len(Tail(batch)) = Len(batch) - 1
         /\ \A i \in 1..Len(Tail(batch)) : Tail(batch)[i] = batch[i + 1]
<1>1. batch \in Seq(Frames) /\ open
  BY DEF SessionInv, TypeOK, Queued
<1>2. Len(batch) \in Nat \ {0} /\ Head(batch) = batch[1] /\ 1 \in 1..Len(batch)
  BY <1>1
<1>3. /\ Head(batch) \in Frames /\ Tail(batch) \in Seq(Frames)
      /\ Len(Tail(batch)) = Len(batch) - 1
      /\ \A i \in 1..Len(Tail(batch)) : Tail(batch)[i] = batch[i + 1]
  BY <1>1, HeadTailProperties
<1>4. Head(batch) = sent[Len(replies) + 1]
  BY <1>2 DEF SessionInv, Queued
<1>5. Head(batch).valid /\ Head(batch).size <= decoderLimit
  BY <1>2 DEF SessionInv, Judged
<1>6. Len(replies) + 1 \in 1..Len(sent) /\ Len(replies) + 1 <= complete
  BY <1>1, <1>2, Lengths DEF SessionInv
<1> QED BY <1>1, <1>3, <1>4, <1>5, <1>6

LEMMA SessionInit ==
  ASSUME Init
  PROVE  SessionInv
<1>1. /\ sent = <<>> /\ conforming = TRUE /\ complete = 0 /\ header = FALSE
      /\ decoderLimit = MinLimit /\ batch = <<>> /\ handshaken = FALSE
      /\ maxFrameBytes = DefaultMax /\ replies = <<>> /\ open = TRUE
  BY DEF Init
<1>2. MinLimit \in MinLimit..DefaultMax /\ DefaultMax \in MinLimit..DefaultMax /\ MaxFrames \in Nat
  BY SessionAssumption
<1>3. TypeOK
  <2>1. Len(sent) = 0 /\ sent \in Seq(Frames) /\ batch \in Seq(Frames)
    BY <1>1
  <2>2. Len(sent) <= MaxFrames /\ complete \in 0..Len(sent)
    BY <1>1, <1>2, <2>1
  <2>3. replies \in Seq({"HANDSHAKE_REQUIRED", "ALREADY_HANDSHAKEN", "INCOMPATIBLE_PROTOCOL",
                      "handshake.ok", "pong", "UNKNOWN_FRAME_KIND"})
    BY <1>1
  <2> QED BY <1>1, <1>2, <2>1, <2>2, <2>3 DEF TypeOK
<1>4. Queued /\ Judged /\ Agreed /\ Acceptable
  BY <1>1 DEF Queued, Judged, Agreed, Acceptable
<1> QED BY <1>3, <1>4 DEF SessionInv

(* A frame is written behind all others; a conforming peer writes what will*)
(* be accepted, since it knows of no limit that the decoder does not.      *)
LEMMA SendStep ==
  ASSUME SessionInv, NEW f \in Frames, PeerSends(f)
  PROVE  /\ SessionInv'
         /\ Len(sent') = Len(sent) + 1 /\ \A i \in 1..Len(sent) : sent'[i] = sent[i]
<1>1. /\ sent' = Append(sent, f) /\ conforming' = (conforming /\ Conforms(f))
      /\ Len(sent) < MaxFrames
      /\ UNCHANGED <<complete, header, decoderLimit, batch, handshaken, maxFrameBytes,
                     replies, open>>
  BY DEF PeerSends, decoder, session
<1>2. sent \in Seq(Frames) /\ MaxFrames \in Nat
  BY SessionAssumption DEF SessionInv, TypeOK
<1>3. /\ sent' \in Seq(Frames) /\ Len(sent') = Len(sent) + 1 /\ sent'[Len(sent) + 1] = f
      /\ \A i \in 1..Len(sent) : sent'[i] = sent[i]
  BY <1>1, <1>2, AppendProperties
<1>4. /\ Len(sent) \in Nat /\ Len(replies) \in Nat /\ Len(batch) \in Nat /\ complete \in Nat
      /\ complete <= Len(sent) /\ Len(replies) <= complete
      /\ open => Len(replies) + Len(batch) = complete
      /\ ~ open => batch = <<>>
  BY Lengths DEF SessionInv, Queued
<1>5. TypeOK'
  <2>1. conforming' \in BOOLEAN
    BY <1>1
  <2>2. complete \in 0..Len(sent') /\ Len(sent') <= MaxFrames
    BY <1>1, <1>2, <1>3, <1>4
  <2> QED BY <1>1, <1>3, <2>1, <2>2 DEF SessionInv, TypeOK
<1>6. Queued'
  <2>1. ASSUME NEW i \in 1..Len(batch) PROVE batch[i] = sent'[Len(replies) + i]
    <3>1. open /\ Len(replies) + i \in 1..Len(sent)
      <4>1. open
        BY <1>4
      <4> QED BY <1>4, <4>1
    <3> QED BY <1>3, <3>1 DEF SessionInv, Queued
  <2> QED BY <1>1, <2>1 DEF SessionInv, Queued
<1>7. Judged'
  BY <1>1 DEF SessionInv, Judged
<1>8. Agreed'
  <2>1. \A i \in 1..Len(replies) : i \in 1..Len(sent) /\ sent'[i] = sent[i]
    BY <1>3, <1>4
  <2>2. ASSUME NEW k \in 1..Len(replies), First(k)
        PROVE  First(k)' /\ SettledLimit(k)' = SettledLimit(k)
    <3>1. \A j \in 1..(k - 1) : j \in 1..Len(replies)
      BY <1>4
    <3> QED BY <2>1, <2>2, <3>1 DEF First, SettledLimit
  <2> QED BY <1>1, <2>1, <2>2 DEF SessionInv, Agreed
<1>9. Acceptable'
  <2>1. SUFFICES ASSUME conforming, Conforms(f)
                 PROVE  /\ open
                        /\ \A i \in (Len(replies) + 1)..Len(sent') :
                             /\ sent'[i].valid /\ sent'[i].payload
                             /\ sent'[i].size <= decoderLimit /\ sent'[i].reply <= decoderLimit
    BY <1>1 DEF Acceptable
  <2>2. open
    BY <2>1 DEF SessionInv, Acceptable
  <2>3. PeerLimit <= decoderLimit
    <3>1. CASE handshaken
      <4>1. decoderLimit = maxFrameBytes
        BY <2>2, <3>1 DEF SessionInv, Agreed
      <4>2. maxFrameBytes \in Nat /\ MinLimit \in Nat /\ MinLimit <= maxFrameBytes
        BY SessionAssumption DEF SessionInv, TypeOK
      <4> QED BY <4>1, <4>2 DEF PeerLimit
    <3>2. CASE ~ handshaken
      <4>1. /\ \A i \in 1..Len(replies) : replies[i] # "handshake.ok"
            /\ decoderLimit = MinLimit
        BY <2>2, <3>2 DEF SessionInv, Agreed
      <4>2. PeerLimit = MinLimit
        BY <4>1 DEF PeerLimit
      <4> QED BY <4>1, <4>2, SessionAssumption
    <3> QED BY <3>1, <3>2
  <2>4. f.valid /\ f.payload /\ f.size <= decoderLimit /\ f.reply <= decoderLimit
    <3>1. f.size \in Nat /\ f.reply \in Nat /\ PeerLimit \in Nat /\ decoderLimit \in Nat
      BY FrameTypes, SessionAssumption DEF PeerLimit, SessionInv, TypeOK
    <3> QED BY <2>1, <2>3, <3>1 DEF Conforms
  <2>5. \A i \in (Len(replies) + 1)..Len(sent') :
          i = Len(sent) + 1 \/ (i \in (Len(replies) + 1)..Len(sent) /\ i \in 1..Len(sent))
    <3>1. Len(sent') = Len(sent) + 1
      BY <1>3
    <3>2. Len(sent) \in Nat /\ Len(replies) \in Nat
      BY <1>4
    <3> QED BY <3>1, <3>2
  <2> QED BY <1>3, <2>1, <2>2, <2>4, <2>5 DEF SessionInv, Acceptable
<1> QED BY <1>3, <1>5, <1>6, <1>7, <1>8, <1>9 DEF SessionInv

(* A chunk is judged by the limit in force, and becomes the batch.         *)
LEMMA DecodeStep ==
  ASSUME SessionInv, NEW n \in complete..Len(sent), NEW next \in BOOLEAN, Decode(n, next)
  PROVE  SessionInv'
<1>1. /\ open /\ batch = <<>> /\ complete' = n /\ header' = next
      /\ batch' = SubSeq(sent, complete + 1, n)
      /\ \A i \in (complete + 1)..n : ~ (sent[i].size > decoderLimit) /\ sent[i].valid
      /\ UNCHANGED <<sent, conforming, decoderLimit, handshaken, maxFrameBytes, replies, open>>
  BY DEF Decode, Chunk, Oversize, pipe, session
<1>2. /\ Len(sent) \in Nat /\ Len(replies) \in Nat /\ complete \in Nat
      /\ Len(batch) = 0 /\ Len(replies) = complete
  BY <1>1, Lengths DEF SessionInv
<1>3. sent \in Seq(Frames)
  BY DEF SessionInv, TypeOK
<1>4. \A i \in (complete + 1)..n : sent[i] \in Frames
  <2>1. \A i \in (complete + 1)..n : i \in 1..Len(sent)
    BY <1>2
  <2> QED BY <1>3, <2>1
<1>5. /\ batch' \in Seq(Frames) /\ Len(batch') = n - complete
      /\ \A i \in 1..(n - complete) : batch'[i] = sent[complete + i]
  <2>1. complete + 1 \in Int /\ n \in Int
    BY <1>2
  <2>2. /\ batch' \in Seq(Frames)
        /\ Len(batch') = IF complete + 1 <= n THEN n - (complete + 1) + 1 ELSE 0
        /\ \A i \in 1..(n - (complete + 1) + 1) : batch'[i] = sent[(complete + 1) + i - 1]
    BY <1>1, <1>4, <2>1, SubSeqProperties
  <2>3. n - (complete + 1) + 1 = n - complete
        /\ (IF complete + 1 <= n THEN n - (complete + 1) + 1 ELSE 0) = n - complete
    BY <1>2
  <2>4. \A i \in 1..(n - complete) : (complete + 1) + i - 1 = complete + i
    BY <1>2
  <2> QED BY <2>2, <2>3, <2>4
<1>6. TypeOK'
  BY <1>1, <1>2, <1>5 DEF SessionInv, TypeOK
<1>7. Queued'
  BY <1>1, <1>2, <1>5 DEF Queued
<1>8. Judged'
  <2>1. ASSUME NEW i \in 1..Len(batch') PROVE batch'[i].valid /\ batch'[i].size <= decoderLimit
    <3>1. complete + i \in (complete + 1)..n
      BY <1>2, <1>5
    <3>2. sent[complete + i].size \in Nat /\ decoderLimit \in Nat
      BY <1>4, <3>1, FrameTypes, SessionAssumption DEF SessionInv, TypeOK
    <3>3. sent[complete + i].valid /\ ~ (sent[complete + i].size > decoderLimit)
      BY <3>1 DEF Decode, Oversize
    <3>4. batch'[i] = sent[complete + i]
      BY <1>5
    <3> QED BY <3>2, <3>3, <3>4
  <2> QED BY <1>1, <2>1 DEF Judged
<1>9. Agreed' /\ Acceptable'
  BY <1>1 DEF SessionInv, Agreed, Acceptable, First, SettledLimit
<1> QED BY <1>6, <1>7, <1>8, <1>9 DEF SessionInv

(* Nothing a conforming peer has written is refused.                       *)
LEMMA RejectStep ==
  ASSUME SessionInv, NEW n \in complete..Len(sent), NEW next \in BOOLEAN, Reject(n, next)
  PROVE  SessionInv'
<1>1. /\ open /\ batch = <<>> /\ ~ open'
      /\ UNCHANGED <<sent, conforming, complete, header, decoderLimit, batch, handshaken,
                     maxFrameBytes, replies>>
      /\ next => n < Len(sent)
  BY DEF Reject, Chunk, pipe, decoder, session
<1>2. /\ Len(sent) \in Nat /\ Len(replies) \in Nat /\ complete \in Nat
      /\ Len(replies) = complete
  BY <1>1, Lengths DEF SessionInv
<1>3. ~ conforming
  <2>1. PICK i \in (Len(replies) + 1)..Len(sent) : sent[i].size > decoderLimit \/ ~ sent[i].valid
    <3>1. CASE next /\ Oversize(sent[n + 1])
      <4>1. n + 1 \in (Len(replies) + 1)..Len(sent)
        BY <1>1, <1>2, <3>1
      <4> QED BY <3>1, <4>1 DEF Oversize
    <3>2. CASE \E i \in (complete + 1)..n : Oversize(sent[i]) \/ ~ sent[i].valid
      <4>1. PICK i \in (complete + 1)..n : Oversize(sent[i]) \/ ~ sent[i].valid
        BY <3>2
      <4>2. i \in (Len(replies) + 1)..Len(sent)
        BY <1>2
      <4> QED BY <4>1, <4>2 DEF Oversize
    <3> QED BY <3>1, <3>2 DEF Reject
  <2>2. sent[i].size \in Nat /\ decoderLimit \in Nat
    <3>1. sent[i] \in Frames
      BY <1>2 DEF SessionInv, TypeOK
    <3> QED BY <3>1, FrameTypes, SessionAssumption DEF SessionInv, TypeOK
  <2> QED BY <2>1, <2>2 DEF SessionInv, Acceptable
<1>4. TypeOK'
  BY <1>1 DEF SessionInv, TypeOK, Reject
<1>5. Queued' /\ Judged' /\ Agreed' /\ Acceptable'
  BY <1>1, <1>3 DEF SessionInv, Queued, Judged, Agreed, Acceptable
<1> QED BY <1>4, <1>5 DEF SessionInv

(* What a turn of the loop does, with the frame it serves named.           *)
LEMMA ServeFacts ==
  ASSUME SessionInv, Serve, NEW f, f = sent[Len(replies) + 1]
  PROVE  /\ open /\ f \in Frames /\ f.valid /\ f.size <= decoderLimit
         /\ Len(replies) + 1 \in 1..Len(sent) /\ Len(replies) + 1 <= complete
         /\ Tail(batch) \in Seq(Frames) /\ Len(Tail(batch)) = Len(batch) - 1
         /\ \A i \in 1..Len(Tail(batch)) : Tail(batch)[i] = batch[i + 1]
         /\ handshaken' = (handshaken \/ Answer(f) = "handshake.ok")
         /\ maxFrameBytes' = LimitAfter(f)
         /\ decoderLimit' = IF Answer(f) = "handshake.ok" THEN LimitAfter(f) ELSE decoderLimit
         /\ Throws(f) => open' = FALSE /\ batch' = <<>> /\ replies' = replies
         /\ ~ Throws(f) => /\ replies' = Append(replies, Answer(f))
                           /\ batch' = Tail(batch) /\ open' = open
         /\ UNCHANGED <<sent, conforming, complete, header>>
<1>1. batch # <<>>
  BY DEF Serve
<1>2. /\ open /\ Head(batch) = f /\ f \in Frames /\ f.valid /\ f.size <= decoderLimit
      /\ Len(replies) + 1 \in 1..Len(sent) /\ Len(replies) + 1 <= complete
      /\ Tail(batch) \in Seq(Frames) /\ Len(Tail(batch)) = Len(batch) - 1
      /\ \A i \in 1..Len(Tail(batch)) : Tail(batch)[i] = batch[i + 1]
  BY <1>1, HeadIsNext
<1> QED BY <1>2 DEF Serve, pipe

(* The limits once a frame has been handled: they do not fall.             *)
LEMMA ServeLimits ==
  ASSUME SessionInv, Serve, NEW f, f = sent[Len(replies) + 1]
  PROVE  /\ decoderLimit' \in MinLimit..DefaultMax /\ maxFrameBytes' \in MinLimit..DefaultMax
         /\ decoderLimit <= decoderLimit' /\ decoderLimit' <= maxFrameBytes'
         /\ handshaken' \in BOOLEAN /\ (handshaken' => decoderLimit' = maxFrameBytes')
<1>1. open /\ f \in Frames
  BY ServeFacts
<1>2. /\ Answer(f) \in Replies /\ LimitAfter(f) \in MinLimit..DefaultMax
      /\ decoderLimit <= LimitAfter(f)
      /\ Answer(f) = "handshake.ok" <=> ~ handshaken /\ Compatible(f)
  BY <1>1, AnswerTypes
<1>3. /\ handshaken' = (handshaken \/ Answer(f) = "handshake.ok")
      /\ maxFrameBytes' = LimitAfter(f)
      /\ decoderLimit' = IF Answer(f) = "handshake.ok" THEN LimitAfter(f) ELSE decoderLimit
  BY ServeFacts
<1>4. decoderLimit \in MinLimit..DefaultMax /\ handshaken \in BOOLEAN /\ MinLimit \in Nat
      /\ DefaultMax \in Nat
  BY SessionAssumption DEF SessionInv, TypeOK
<1>5. handshaken /\ Answer(f) # "handshake.ok" => decoderLimit = LimitAfter(f)
  BY <1>1 DEF SessionInv, Agreed, LimitAfter
<1>6. handshaken' \in BOOLEAN /\ (handshaken' => decoderLimit' = maxFrameBytes')
  BY <1>3, <1>4, <1>5
<1>7. decoderLimit' \in MinLimit..DefaultMax /\ decoderLimit <= decoderLimit'
      /\ decoderLimit' <= maxFrameBytes' /\ maxFrameBytes' \in MinLimit..DefaultMax
  BY <1>2, <1>3, <1>4
<1> QED BY <1>6, <1>7

(* A turn that throws: the peer has not conformed.                         *)
LEMMA ThrowStep ==
  ASSUME SessionInv, Serve, NEW f, f = sent[Len(replies) + 1], Throws(f)
  PROVE  SessionInv'
<1>1. /\ open /\ f \in Frames /\ Len(replies) + 1 \in 1..Len(sent) /\ Len(replies) + 1 <= complete
      /\ open' = FALSE /\ batch' = <<>> /\ replies' = replies
      /\ maxFrameBytes' = LimitAfter(f)
      /\ UNCHANGED <<sent, conforming, complete, header>>
  BY ServeFacts
<1>2. ~ conforming
  <2>1. Len(replies) + 1 \in (Len(replies) + 1)..Len(sent)
    BY <1>1, Lengths DEF SessionInv
  <2>2. conforming => f.payload /\ f.reply <= decoderLimit
    BY <2>1 DEF SessionInv, Acceptable
  <2>3. decoderLimit <= LimitAfter(f) /\ LimitAfter(f) \in MinLimit..DefaultMax
    BY <1>1, AnswerTypes
  <2>4. f.reply \in Nat /\ decoderLimit \in Nat /\ MinLimit \in Nat /\ DefaultMax \in Nat
    BY <1>1, FrameTypes, SessionAssumption DEF SessionInv, TypeOK
  <2> QED BY <2>2, <2>3, <2>4 DEF Throws
<1>3. /\ decoderLimit' \in MinLimit..DefaultMax /\ maxFrameBytes' \in MinLimit..DefaultMax
      /\ handshaken' \in BOOLEAN
  BY ServeLimits
<1>4. TypeOK'
  <2>1. batch' \in Seq(Frames)
    BY <1>1
  <2> QED BY <1>1, <1>3, <2>1 DEF SessionInv, TypeOK
<1>5. Len(batch') = 0
  BY <1>1
<1>6. Queued' /\ Judged' /\ Agreed' /\ Acceptable'
  BY <1>1, <1>2, <1>5 DEF SessionInv, Queued, Judged, Agreed, Acceptable
<1> QED BY <1>4, <1>6 DEF SessionInv

(* A turn that answers.                                                    *)
LEMMA ReplyStep ==
  ASSUME SessionInv, Serve, NEW f, f = sent[Len(replies) + 1], ~ Throws(f)
  PROVE  SessionInv'
<1>1. /\ open /\ open' = open /\ f \in Frames
      /\ Len(replies) + 1 \in 1..Len(sent) /\ Len(replies) + 1 <= complete
      /\ batch' = Tail(batch)
      /\ Tail(batch) \in Seq(Frames) /\ Len(Tail(batch)) = Len(batch) - 1
      /\ \A i \in 1..Len(Tail(batch)) : Tail(batch)[i] = batch[i + 1]
      /\ replies' = Append(replies, Answer(f))
      /\ handshaken' = (handshaken \/ Answer(f) = "handshake.ok")
      /\ maxFrameBytes' = LimitAfter(f)
      /\ UNCHANGED <<sent, conforming, complete, header>>
  BY ServeFacts
<1>2. /\ decoderLimit' \in MinLimit..DefaultMax /\ maxFrameBytes' \in MinLimit..DefaultMax
      /\ decoderLimit <= decoderLimit' /\ decoderLimit' <= maxFrameBytes'
      /\ handshaken' \in BOOLEAN /\ (handshaken' => decoderLimit' = maxFrameBytes')
  BY ServeLimits
<1>3. /\ Len(sent) \in Nat /\ Len(replies) \in Nat /\ Len(batch) \in Nat /\ complete \in Nat
      /\ complete <= Len(sent) /\ Len(replies) + Len(batch) = complete
      /\ MinLimit \in Nat /\ DefaultMax \in Nat /\ decoderLimit \in Nat
  BY <1>1, Lengths, SessionAssumption DEF SessionInv, TypeOK
<1>4. /\ Answer(f) \in Replies
      /\ Answer(f) = "handshake.ok" <=> ~ handshaken /\ Compatible(f)
  BY <1>1, AnswerTypes
<1>5. /\ replies' \in Seq(Replies) /\ Len(replies') = Len(replies) + 1
      /\ replies'[Len(replies) + 1] = Answer(f)
      /\ \A i \in 1..Len(replies) : replies'[i] = replies[i]
  <2>1. replies \in Seq(Replies)
    BY DEF SessionInv, TypeOK, Replies
  <2> QED BY <1>1, <1>4, <2>1, AppendProperties
<1>6. TypeOK'
  BY <1>1, <1>2, <1>5 DEF SessionInv, TypeOK, Replies
<1>7. \A i \in 1..Len(batch') : i + 1 \in 1..Len(batch) /\ batch'[i] = batch[i + 1]
  BY <1>1, <1>3
<1>8. Queued'
  <2>1. ASSUME NEW i \in 1..Len(batch') PROVE batch'[i] = sent[Len(replies') + i]
    <3>1. batch[i + 1] = sent[Len(replies) + (i + 1)]
      BY <1>7 DEF SessionInv, Queued
    <3>2. Len(replies) + (i + 1) = Len(replies') + i
      BY <1>1, <1>3, <1>5
    <3> QED BY <1>7, <3>1, <3>2
  <2>2. Len(replies') <= complete /\ complete = Len(replies') + Len(batch')
    <3>1. Len(batch') = Len(batch) - 1 /\ Len(replies') = Len(replies) + 1
      BY <1>1, <1>5
    <3>2. Len(replies) + 1 <= complete
      BY <1>1
    <3> QED BY <1>3, <3>1, <3>2
  <2> QED BY <1>1, <2>1, <2>2 DEF Queued
<1>9. Judged'
  <2>1. ASSUME NEW i \in 1..Len(batch') PROVE batch'[i].valid /\ batch'[i].size <= decoderLimit'
    <3>1. batch[i + 1].valid /\ batch[i + 1].size <= decoderLimit
      BY <1>7 DEF SessionInv, Judged
    <3>2. batch[i + 1].size \in Nat
      <4>1. batch[i + 1] \in Frames
        BY <1>7 DEF SessionInv, TypeOK
      <4> QED BY <4>1, FrameTypes
    <3>3. decoderLimit' \in Nat /\ decoderLimit \in Nat /\ decoderLimit <= decoderLimit'
      BY <1>2, <1>3
    <3>4. batch[i + 1].size <= decoderLimit'
      BY <3>1, <3>2, <3>3
    <3> QED BY <1>7, <3>1, <3>4
  <2> QED BY <2>1 DEF Judged
<1>10. Agreed'
  <2>1. \A k \in 1..Len(replies') : First(k)' = First(k) /\ SettledLimit(k)' = SettledLimit(k)
    BY <1>1 DEF First, SettledLimit
  <2>2. CASE handshaken
    <3>1. PICK k \in 1..Len(replies) : First(k) /\ maxFrameBytes = SettledLimit(k)
      BY <1>1, <2>2 DEF SessionInv, Agreed
    <3>2. Answer(f) # "handshake.ok" /\ handshaken'
      BY <1>1, <1>4, <2>2
    <3>3. maxFrameBytes' = maxFrameBytes
      BY <1>1, <3>2 DEF LimitAfter
    <3>4. k \in 1..Len(replies')
      BY <1>3, <1>5
    <3> QED BY <1>2, <2>1, <3>1, <3>2, <3>3, <3>4 DEF Agreed
  <2>3. CASE ~ handshaken /\ Answer(f) = "handshake.ok"
    <3>1. /\ \A j \in 1..((Len(replies) + 1) - 1) : ~ Compatible(sent[j])
          /\ Len(replies) + 1 \in 1..Len(replies')
      <4>1. (Len(replies) + 1) - 1 = Len(replies)
        BY <1>3
      <4> QED BY <1>1, <1>3, <1>5, <2>3, <4>1 DEF SessionInv, Agreed
    <3>2. First(Len(replies) + 1)
      BY <1>4, <2>3, <3>1 DEF First
    <3>3. maxFrameBytes' = SettledLimit(Len(replies) + 1) /\ handshaken'
      BY <1>1, <2>3 DEF LimitAfter, SettledLimit
    <3> QED BY <1>2, <2>1, <3>1, <3>2, <3>3 DEF Agreed
  <2>4. CASE ~ handshaken /\ Answer(f) # "handshake.ok"
    <3>1. /\ \A i \in 1..Len(replies) : ~ Compatible(sent[i]) /\ replies[i] # "handshake.ok"
          /\ maxFrameBytes = DefaultMax /\ decoderLimit = MinLimit
      BY <1>1, <2>4 DEF SessionInv, Agreed
    <3>2. maxFrameBytes' = DefaultMax /\ decoderLimit' = MinLimit /\ ~ handshaken'
      <4>1. decoderLimit' = decoderLimit
        BY <2>4, ServeFacts
      <4> QED BY <1>1, <2>4, <3>1, <4>1 DEF LimitAfter
    <3>3. \A i \in 1..Len(replies') : i \in 1..Len(replies) \/ i = Len(replies) + 1
      BY <1>3, <1>5
    <3>4. \A i \in 1..Len(replies') : ~ Compatible(sent[i]) /\ replies'[i] # "handshake.ok"
      BY <1>4, <1>5, <2>4, <3>1, <3>3
    <3>5. \A i \in 1..Len(replies') : Compatible(sent[i])' = Compatible(sent[i])
      BY <1>1 DEF Compatible
    <3> QED BY <3>2, <3>4, <3>5 DEF Agreed
  <2> QED BY <2>2, <2>3, <2>4
<1>11. Acceptable'
  <2>1. SUFFICES ASSUME conforming, NEW i \in (Len(replies') + 1)..Len(sent)
                 PROVE  /\ sent[i].valid /\ sent[i].payload
                        /\ sent[i].size <= decoderLimit' /\ sent[i].reply <= decoderLimit'
    BY <1>1 DEF Acceptable
  <2>2. i \in (Len(replies) + 1)..Len(sent) /\ i \in 1..Len(sent)
    BY <1>3, <1>5
  <2>3. /\ sent[i].valid /\ sent[i].payload
        /\ sent[i].size <= decoderLimit /\ sent[i].reply <= decoderLimit
    BY <2>1, <2>2 DEF SessionInv, Acceptable
  <2>4. sent[i].size \in Nat /\ sent[i].reply \in Nat
    <3>1. sent[i] \in Frames
      BY <2>2 DEF SessionInv, TypeOK
    <3> QED BY <3>1, FrameTypes
  <2>5. decoderLimit' \in Nat /\ decoderLimit \in Nat /\ decoderLimit <= decoderLimit'
    BY <1>2, <1>3
  <2>6. sent[i].size <= decoderLimit' /\ sent[i].reply <= decoderLimit'
    BY <2>3, <2>4, <2>5
  <2> QED BY <2>3, <2>6
<1> QED BY <1>6, <1>8, <1>9, <1>10, <1>11 DEF SessionInv

LEMMA SessionStep ==
  ASSUME SessionInv, [Next]_vars
  PROVE  SessionInv'
<1>1. CASE \E f \in Frames : PeerSends(f)
  BY <1>1, SendStep
<1>2. CASE Deliver
  BY <1>2, DecodeStep, RejectStep DEF Deliver
<1>3. CASE Serve
  <2>1. PICK f : f = sent[Len(replies) + 1]
    OBVIOUS
  <2>2. CASE Throws(f)
    BY <1>3, <2>1, <2>2, ThrowStep
  <2>3. CASE ~ Throws(f)
    BY <1>3, <2>1, <2>3, ReplyStep
  <2> QED BY <2>2, <2>3
<1>4. CASE UNCHANGED vars
  <2>1. UNCHANGED <<sent, conforming, complete, header, decoderLimit, batch, handshaken,
                    maxFrameBytes, replies, open>>
    BY <1>4 DEF vars, pipe, decoder, session
  <2>2. TypeOK' /\ Queued' /\ Judged'
    BY <2>1 DEF SessionInv, TypeOK, Queued, Judged
  <2>3. Agreed' /\ Acceptable'
    BY <2>1 DEF SessionInv, Agreed, Acceptable, First, SettledLimit, Compatible
  <2> QED BY <2>2, <2>3 DEF SessionInv
<1> QED BY <1>1, <1>2, <1>3, <1>4 DEF Next

LEMMA SessionInvariant == Spec => []SessionInv
<1>1. Init => SessionInv
  BY SessionInit
<1>2. SessionInv /\ [Next]_vars => SessionInv'
  BY SessionStep
<1> QED BY <1>1, <1>2, PTL DEF Spec

(* The variables have their types, and both limits stay between the minimum*)
(* and the default, whatever handshakes ask for (server.ts:50-56).         *)
THEOREM SessionTypes == Spec => []TypeOK
<1>1. SessionInv => TypeOK
  BY DEF SessionInv
<1> QED BY <1>1, SessionInvariant, PTL

(* The service never closes the pipe of a peer that keeps to the limits of *)
(* the protocol, whatever chunks its frames come in (main.ts:12-29).       *)
THEOREM ConformingServed == Spec => []ConformingPeerIsServed
<1>1. SessionInv => ConformingPeerIsServed
  BY DEF SessionInv, Acceptable, ConformingPeerIsServed
<1> QED BY <1>1, SessionInvariant, PTL

-----------------------------------------------------------------------------

(* What the answered requests settle, in the terms of the protocol.        *)
LEMMA SettledBy ==
  ASSUME NEW m \in Nat, NEW k \in 1..m, First(k)
  PROVE  Promise!Settled(m) /\ Promise!Limit(m) = SettledLimit(k)
<1>1. Promise!Settled(m)
  BY DEF First, Promise!Settled, Promise!Compatible, Compatible
<1> DEFINE IsFirst(i) ==
      Promise!Compatible(sent[i]) /\ \A j \in 1..(i - 1) : ~ Promise!Compatible(sent[j])
<1>2. IsFirst(k)
  BY DEF First, Promise!Compatible, Compatible
<1>3. ASSUME NEW i \in 1..m, IsFirst(i) PROVE i = k
  <2>1. ~ (i < k)
    <3>1. i < k => i \in 1..(k - 1)
      OBVIOUS
    <3> QED BY <1>2, <1>3, <3>1
  <2>2. ~ (k < i)
    <3>1. k < i => k \in 1..(i - 1)
      OBVIOUS
    <3> QED BY <1>2, <1>3, <3>1
  <2> QED BY <2>1, <2>2
<1>4. (CHOOSE i \in 1..m : IsFirst(i)) = k
  BY <1>2, <1>3
<1>5. Promise!Limit(m) =
        IF sent[CHOOSE i \in 1..m : IsFirst(i)].wanted <= DefaultMax
        THEN sent[CHOOSE i \in 1..m : IsFirst(i)].wanted ELSE DefaultMax
  BY DEF Promise!Limit
<1> QED BY <1>1, <1>4, <1>5 DEF SettledLimit, Smaller

LEMMA SettledNow ==
  ASSUME SessionInv, open
  PROVE  /\ Promise!Settled(Len(replies)) <=> handshaken
         /\ handshaken => Promise!Limit(Len(replies)) = decoderLimit
         /\ ~ handshaken => decoderLimit = MinLimit
<1>1. Len(replies) \in Nat
  BY DEF SessionInv, TypeOK
<1>2. CASE handshaken
  <2>1. PICK k \in 1..Len(replies) :
          First(k) /\ maxFrameBytes = SettledLimit(k) /\ decoderLimit = maxFrameBytes
    BY <1>2 DEF SessionInv, Agreed
  <2> QED BY <1>1, <1>2, <2>1, SettledBy
<1>3. CASE ~ handshaken
  <2>1. \A i \in 1..Len(replies) : ~ Compatible(sent[i])
    BY <1>3 DEF SessionInv, Agreed
  <2>2. ~ Promise!Settled(Len(replies))
    BY <2>1 DEF Promise!Settled, Promise!Compatible, Compatible
  <2>3. decoderLimit = MinLimit
    BY <1>3 DEF SessionInv, Agreed
  <2> QED BY <1>3, <2>2, <2>3
<1> QED BY <1>2, <1>3

(* After a turn that answers, the same holds with one more request.        *)
LEMMA SettledNext ==
  ASSUME SessionInv, Serve, NEW f, f = sent[Len(replies) + 1], ~ Throws(f)
  PROVE  /\ Promise!Settled(Len(replies) + 1) <=> handshaken'
         /\ handshaken' => Promise!Limit(Len(replies) + 1) = maxFrameBytes'
         /\ ~ handshaken' => maxFrameBytes' = DefaultMax
<1>1. SessionInv'
  BY ReplyStep
<1>2. /\ open /\ open' = open /\ replies' = Append(replies, Answer(f))
      /\ UNCHANGED sent
  BY ServeFacts
<1>3. replies \in Seq(Replies) /\ Len(replies) + 1 \in Nat
  BY DEF SessionInv, TypeOK, Replies
<1>4. Len(replies') = Len(replies) + 1
  BY <1>2, <1>3
<1>5. \A k \in 1..(Len(replies) + 1) : First(k)' = First(k) /\ SettledLimit(k)' = SettledLimit(k)
                                      /\ Compatible(sent[k])' = Compatible(sent[k])
  BY <1>2 DEF First, SettledLimit, Compatible
<1>6. CASE handshaken'
  <2>1. PICK k \in 1..(Len(replies) + 1) : First(k)' /\ maxFrameBytes' = SettledLimit(k)'
    BY <1>1, <1>2, <1>4, <1>6 DEF SessionInv, Agreed
  <2> QED BY <1>3, <1>5, <1>6, <2>1, SettledBy
<1>7. CASE ~ handshaken'
  <2>1. /\ \A i \in 1..(Len(replies) + 1) : ~ Compatible(sent[i])'
        /\ maxFrameBytes' = DefaultMax
    BY <1>1, <1>2, <1>4, <1>7 DEF SessionInv, Agreed
  <2>2. ~ Promise!Settled(Len(replies) + 1)
    BY <1>5, <2>1 DEF Promise!Settled, Promise!Compatible, Compatible
  <2> QED BY <1>7, <2>1, <2>2
<1> QED BY <1>6, <1>7

(* A turn that answers is a reply of the protocol.                         *)
LEMMA ReplyAsPromised ==
  ASSUME SessionInv, Serve, NEW f, f = sent[Len(replies) + 1], ~ Throws(f)
  PROVE  Promise!Reply
<1>1. /\ open /\ open' = open /\ f \in Frames /\ f.valid /\ f.size <= decoderLimit
      /\ Len(replies) + 1 \in 1..Len(sent)
      /\ replies' = Append(replies, Answer(f))
      /\ maxFrameBytes' = LimitAfter(f)
      /\ UNCHANGED sent
  BY ServeFacts
<1>2. /\ Len(replies) \in Nat /\ (Len(replies) + 1) - 1 = Len(replies) /\ open \in BOOLEAN
      /\ handshaken \in BOOLEAN
  BY DEF SessionInv, TypeOK
<1>3. f.reply <= maxFrameBytes' /\ (f.kind = "handshake" /\ ~ handshaken => f.payload)
  <2>1. f.reply \in Nat /\ maxFrameBytes' \in Nat
    BY <1>1, FrameTypes, ServeLimits, SessionAssumption
  <2> QED BY <1>1, <2>1 DEF Throws
<1>4. /\ Promise!Settled(Len(replies)) <=> handshaken
      /\ handshaken => Promise!Limit(Len(replies)) = decoderLimit
      /\ ~ handshaken => decoderLimit = MinLimit
  BY <1>1, SettledNow
<1>5. /\ Promise!Settled(Len(replies) + 1) <=> handshaken'
      /\ handshaken' => Promise!Limit(Len(replies) + 1) = maxFrameBytes'
      /\ ~ handshaken' => maxFrameBytes' = DefaultMax
  BY SettledNext
<1>6. Promise!AnswerTo(Len(replies) + 1) = Answer(f)
  <2>1. f.kind \in {"handshake", "ping", "other"}
    BY <1>1, FrameTypes
  <2>2. Compatible(f) <=> Promise!Compatible(f)
    BY DEF Compatible, Promise!Compatible
  <2>3. Promise!AnswerTo(Len(replies) + 1) =
          IF handshaken
          THEN [handshake |-> "ALREADY_HANDSHAKEN", ping |-> "pong",
                other |-> "UNKNOWN_FRAME_KIND"][f.kind]
          ELSE IF f.kind # "handshake" THEN "HANDSHAKE_REQUIRED"
          ELSE IF Promise!Compatible(f) THEN "handshake.ok" ELSE "INCOMPATIBLE_PROTOCOL"
    BY <1>2, <1>4 DEF Promise!AnswerTo
  <2> QED BY <2>1, <2>2, <2>3 DEF Answer
<1>7. f.size <= (IF Promise!Settled(Len(replies)) THEN Promise!Limit(Len(replies)) ELSE MinLimit)
  BY <1>1, <1>4
<1>8. f.reply <= (IF Promise!Settled(Len(replies) + 1) THEN Promise!Limit(Len(replies) + 1)
                  ELSE DefaultMax)
  BY <1>3, <1>5
<1>9. open = TRUE /\ Len(replies) + 1 <= Len(sent)
  BY <1>1, <1>2
<1> QED BY <1>1, <1>2, <1>3, <1>4, <1>6, <1>7, <1>8, <1>9 DEF Promise!Reply

(* Each step of the session is a step of the protocol, or none.            *)
LEMMA StepAsPromised ==
  ASSUME SessionInv, [Next]_vars
  PROVE  [Promise!Next]_<<sent, replies, open>>
<1>1. ASSUME NEW f \in Frames, PeerSends(f) PROVE Promise!Send
  <2>1. /\ sent' = Append(sent, f) /\ UNCHANGED <<replies, open>>
    BY <1>1 DEF PeerSends
  <2>2. sent \in Seq(Frames) /\ sent' \in Seq(Frames)
    BY <2>1 DEF SessionInv, TypeOK
  <2>3. Len(sent') = Len(sent) + 1 /\ \A i \in 1..Len(sent) : sent'[i] = sent[i]
    BY <1>1, SendStep
  <2>4. SubSeq(sent', 1, Len(sent)) = sent
    BY <2>1, <2>2
  <2> QED BY <2>1, <2>3, <2>4 DEF Promise!Send
<1>2. ASSUME NEW n \in complete..Len(sent), NEW next \in BOOLEAN, Decode(n, next)
      PROVE  UNCHANGED <<sent, replies, open>>
  BY <1>2 DEF Decode, pipe
<1>3. ASSUME NEW n \in complete..Len(sent), NEW next \in BOOLEAN, Reject(n, next)
      PROVE  Promise!GiveUp
  <2>1. open /\ open' = FALSE /\ UNCHANGED <<sent, replies>>
    BY <1>3 DEF Reject, Chunk, pipe
  <2>2. open = TRUE
    BY <2>1 DEF SessionInv, TypeOK
  <2> QED BY <2>1, <2>2 DEF Promise!GiveUp
<1>4. CASE Serve
  <2>1. PICK f : f = sent[Len(replies) + 1]
    OBVIOUS
  <2>2. CASE Throws(f)
    <3>1. open /\ open' = FALSE /\ UNCHANGED <<sent, replies>>
      BY <1>4, <2>1, <2>2, ServeFacts
    <3>2. open = TRUE
      BY <3>1 DEF SessionInv, TypeOK
    <3>3. Promise!GiveUp
      BY <3>1, <3>2 DEF Promise!GiveUp
    <3> QED BY <3>3 DEF Promise!Next
  <2>3. CASE ~ Throws(f)
    BY <1>4, <2>1, <2>3, ReplyAsPromised DEF Promise!Next
  <2> QED BY <2>2, <2>3
<1>5. CASE UNCHANGED vars
  BY <1>5 DEF vars, pipe
<1> QED BY <1>1, <1>2, <1>3, <1>4, <1>5 DEF Next, Deliver, Promise!Next

(* Whatever the chunks, the session answers as AgentProtocol promises: each*)
(* request once, in order, by what the requests before it have settled.    *)
THEOREM AnswersAsPromised == Spec => ImplementsAgentProtocol
<1>1. Init => Promise!Init
  BY DEF Init, Promise!Init
<1>2. SessionInv /\ [Next]_vars => [Promise!Next]_<<sent, replies, open>>
  BY StepAsPromised
<1> QED BY <1>1, <1>2, SessionInvariant, PTL
        DEF Spec, ImplementsAgentProtocol, Promise!Spec, Promise!vars
=============================================================================
