----------------------------- MODULE MCPayouts -----------------------------
(* The end of a pod of two members, watched for requests that overlap.     *)
EXTENDS PayoutsWatched, TLC

CONSTANTS m1, i1, i2, p1

VARIABLE reported \* history: a member has reported a payout

watched == <<vars, overlapped, reported>>

\* The names of intents and members do not matter: the first payout is i1, and
\* it is m1's.
Canonical ==
  /\ stripe[i1] = NewIntent => stripe[i2] = NewIntent
  /\ stripe[i1].member \in {Nobody, m1}

\* A bound of the instance: besides triggers and webhooks, a behaviour has a
\* restart and a member's report, or requests that overlap and a decision of an
\* admin.
BoundedNext ==
  /\ WatchedNext
  /\ Canonical'
  /\ reported' = (reported \/ req'[p1] # Idle)
  /\ LET decided == Cardinality(approved') + Cardinality(withdrawn')
     IN  IF crashes' > 0 \/ reported' THEN ~overlapped' /\ decided = 0 ELSE decided <= 1

BoundedInit == Init /\ overlapped = FALSE /\ reported = FALSE

BoundedSpec == BoundedInit /\ [][BoundedNext]_watched /\ Fairness
=============================================================================
