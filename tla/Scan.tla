-------------------------------- MODULE Scan --------------------------------
(***************************************************************************)
(* What a scan promises to who asks for it, with no word on sockets, time  *)
(* or messages: it learns of instances that match the filter, one at a     *)
(* time and each once, and comes back with all it learnt or not at all.    *)
(***************************************************************************)
CONSTANT Matching   \* the instances that match the filter

VARIABLES
  phase,   \* idle, asking, done or failed
  result   \* the instances learnt of

vars == <<phase, result>>

Init == phase = "idle" /\ result = {}

Begin == phase = "idle" /\ phase' \in {"asking", "failed"} /\ UNCHANGED result

Learn ==
  /\ phase = "asking"
  /\ \E id \in Matching \ result : result' = result \cup {id}
  /\ UNCHANGED phase

End == phase = "asking" /\ phase' \in {"done", "failed"} /\ UNCHANGED result

Next == Begin \/ Learn \/ End

(* A scan that has begun ends.                                             *)
Spec == Init /\ [][Next]_vars /\ WF_vars(End)
=============================================================================
