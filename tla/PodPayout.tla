------------------------------ MODULE PodPayout ------------------------------
(***************************************************************************)
(* What a pod promises about its end: every member is paid out once, and   *)
(* with the last of them, at once and for good, the pod is completed.      *)
(***************************************************************************)
CONSTANT People
VARIABLES paid,      \* the people who have been paid out
          completed

vars == <<paid, completed>>

Init == paid = {} /\ completed = FALSE

PayOut(a) ==
  /\ a \notin paid
  /\ paid' = paid \cup {a}
  /\ completed' = (paid' = People)

Next == \E a \in People : PayOut(a)

Spec == Init /\ [][Next]_vars
=============================================================================
