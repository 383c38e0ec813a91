-------------------------- MODULE MCAccountStatus --------------------------
(* Two accounts, of which a2 is there to be noticed with a1.                *)
EXTENDS AccountStatusWatched

CONSTANTS a1, a2,
          MaxCommands \* bound on the logins and joins, and twice the commands

VARIABLE begun

\* Nothing but notices happens to a2.
Customers == {a1}

\* A bound of the instance: a behaviour has requests that overlap, and at
\* most one command, or a refused notice or a restart.
Budget ==
  /\ Cardinality({i \in 1..3 : <<overlapped, refused, crashes > 0>>[i]}) <= 1
  /\ overlapped => begun <= 3
  /\ refused \/ crashes > 0 => begun <= 2

\* The steps of WatchedNext within the bounds.
BoundedNext ==
  /\ \/ /\ Watch
        /\ \/ (\E a \in Customers : Command(a)) /\ begun' = begun + 2
           \/ /\ \E r \in Requests : Request(r) /\ a2 \notin req'[r].joins
              /\ begun' = begun + 1
        /\ begun' <= MaxCommands
     \/ /\ Watch /\ \E r \in Requests : ProcessAccountInactivity(r)
        /\ UNCHANGED begun
     \/ Continue /\ UNCHANGED begun
  /\ Budget'

BoundedInit == WatchedInit /\ begun = 0

BoundedSpec == BoundedInit /\ [][BoundedNext]_<<watched, begun>> /\ Fairness
=============================================================================
