--------------------------- MODULE ContentPublication ---------------------------
(***************************************************************************)
(* What delivering an event with attachments promises, without uploads,    *)
(* references, threads or replies: an event is published at most once, in  *)
(* one step, with exactly the bytes its sender attached, and a sender is   *)
(* told of success only after that.                                        *)
(***************************************************************************)
CONSTANTS
  Deliveries,     \* calls of deliver
  Unpublished

VARIABLES
  attached,       \* the bytes of each delivery's attachments, in order
  published,      \* what the receiver can resolve of each published event
  acknowledged    \* deliveries that returned normally

pubVars == <<attached, published, acknowledged>>

PInit ==
  /\ published = [d \in Deliveries |-> Unpublished]
  /\ acknowledged = {}

Publish(d) ==
  /\ published[d] = Unpublished
  /\ published' = [published EXCEPT ![d] = attached[d]]
  /\ UNCHANGED <<attached, acknowledged>>

Acknowledge(d) ==
  /\ published[d] # Unpublished
  /\ acknowledged' = acknowledged \cup {d}
  /\ UNCHANGED <<attached, published>>

PNext == \E d \in Deliveries : Publish(d) \/ Acknowledge(d)

PSpec == PInit /\ [][PNext]_pubVars
=============================================================================
