--------------------------- MODULE MCAgentSession ---------------------------
(***************************************************************************)
(* Sizes in steps of 1024 bytes, with a default of 3 KiB in place of 1 MiB.*)
(***************************************************************************)
EXTENDS AgentSession

Frame(kind, size, wanted, reply) ==
  [kind |-> kind, size |-> size, wanted |-> wanted, payload |-> TRUE, valid |-> TRUE, reply |-> reply]

(* Handshakes that ask for too little, for the minimum, and for more than  *)
(* there is, with short and long answers; requests of every size, one of   *)
(* them with a long answer; one without a payload, one malformed.          *)
MCFrames ==
  {Frame("handshake", 1, w, 1) : w \in {0, 1, 2, 4}}
  \cup {Frame("handshake", 1, 1, 2), Frame("other", 1, 0, 2)}
  \cup {Frame("ping", s, 0, 1) : s \in 1..4}
  \cup {[Frame("handshake", 1, 1, 1) EXCEPT !.payload = FALSE],
        [Frame("ping", 1, 0, 1) EXCEPT !.valid = FALSE]}
=============================================================================
