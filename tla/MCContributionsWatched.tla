----------------------- MODULE MCContributionsWatched -----------------------
(* The pod of MCContributions, watched for requests that overlap.           *)
EXTENDS MCContributions, ContributionsWatched

CONSTANT LastBusyDay \* of behaviours whose requests overlap

\* Requests are cut off, rather than that the last one ends.
CutOff ==
  Crash /\ ~(Debiting \/ Remind \/ \E r \in Requests : Recording(r) \/ WebhookFails(r))

\* A bound of the instance: a behaviour has overlaps, or restarts and payments
\* of more than one member.
BoundedNext ==
  /\ WatchedNext
  /\ overlapped' => /\ day' <= LastBusyDay
                    /\ ~CutOff
                    /\ Cardinality({stripe'[i].member : i \in Intents} \ {Nobody}) <= 1

BoundedInit == Init /\ overlapped = FALSE

BoundedSpec == BoundedInit /\ [][BoundedNext]_<<vars, overlapped>>
=============================================================================
