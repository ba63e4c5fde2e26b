---------------------------- MODULE PortService ----------------------------
(***************************************************************************)
(* What the versions of a server promise together: a port that, once it is *)
(* open, stays open.  Handover implements it, where no version ever looks  *)
(* at another one's state and each acts on messages that may be late.      *)
(***************************************************************************)
CONSTANT Versions

VARIABLE stage      \* of each version: "new", "serving", "retired"

Init == stage = [v \in Versions |-> "new"]

Server(v) == stage[v] = "serving"

\* The first version opens the port.
Open(v) ==
  /\ \A u \in Versions : stage[u] = "new"
  /\ stage' = [stage EXCEPT ![v] = "serving"]

\* A version joins those that serve the port.
Join(v) ==
  /\ stage[v] = "new" /\ \E u \in Versions : Server(u)
  /\ stage' = [stage EXCEPT ![v] = "serving"]

\* A version retires, for good, while another one serves.
Retire(v) ==
  /\ Server(v) /\ \E u \in Versions \ {v} : Server(u)
  /\ stage' = [stage EXCEPT ![v] = "retired"]

Next == \E v \in Versions : Open(v) \/ Join(v) \/ Retire(v)

Spec == Init /\ [][Next]_stage
=============================================================================
