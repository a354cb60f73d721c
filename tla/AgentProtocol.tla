---------------------------- MODULE AgentProtocol ----------------------------
(***************************************************************************)
(* What the agent service promises a peer, without buffers, chunks and     *)
(* batches: requests are answered one by one, in the order in which they   *)
(* were sent, until the service gives up.  What an answer says depends on  *)
(* the requests before it alone: until a handshake is agreed on nothing    *)
(* else is served, and the limit it settles holds from then on, both ways. *)
(***************************************************************************)
EXTENDS Naturals, Sequences

CONSTANTS MinLimit, DefaultMax

VARIABLES requests, answers, serving

vars == <<requests, answers, serving>>

Compatible(f) == f.kind = "handshake" /\ f.payload /\ f.wanted >= MinLimit

(* Whether one of the first n requests has settled the handshake.          *)
Settled(n) == \E i \in 1..n : Compatible(requests[i])

(* The limit it settled, for the first to do so counts.                    *)
Limit(n) ==
  LET first == CHOOSE i \in 1..n :
                 Compatible(requests[i]) /\ \A j \in 1..(i - 1) : ~ Compatible(requests[j])
  IN  IF requests[first].wanted <= DefaultMax THEN requests[first].wanted ELSE DefaultMax

AnswerTo(n) ==
  LET f == requests[n]
      served == [handshake |-> "ALREADY_HANDSHAKEN", ping |-> "pong",
                 other |-> "UNKNOWN_FRAME_KIND"]
  IN  IF Settled(n - 1) THEN served[f.kind]
      ELSE IF f.kind # "handshake" THEN "HANDSHAKE_REQUIRED"
      ELSE IF Compatible(f) THEN "handshake.ok" ELSE "INCOMPATIBLE_PROTOCOL"

Init == requests = <<>> /\ answers = <<>> /\ serving = TRUE

Send ==
  /\ Len(requests') = Len(requests) + 1
  /\ SubSeq(requests', 1, Len(requests)) = requests
  /\ UNCHANGED <<answers, serving>>

(* The next request is answered, if it and its answer keep to the limits.  *)
Reply ==
  LET n == Len(answers) + 1
  IN  /\ serving = TRUE
      /\ n <= Len(requests)
      /\ requests[n].valid
      /\ requests[n].kind = "handshake" /\ ~ Settled(n - 1) => requests[n].payload
      /\ requests[n].size <= (IF Settled(n - 1) THEN Limit(n - 1) ELSE MinLimit)
      /\ requests[n].reply <= (IF Settled(n) THEN Limit(n) ELSE DefaultMax)
      /\ answers' = Append(answers, AnswerTo(n))
      /\ UNCHANGED <<requests, serving>>

GiveUp == serving = TRUE /\ serving' = FALSE /\ UNCHANGED <<requests, answers>>

Next == Send \/ Reply \/ GiveUp

Spec == Init /\ [][Next]_vars
=============================================================================
