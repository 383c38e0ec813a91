------------------------ MODULE PodLifecycleWatched ------------------------
(***************************************************************************)
(* PodLifecycle watched for requests that overlap and for restarts: some   *)
(* properties are promised to a quiet life only, in which one request runs *)
(* at a time and none is cut off.                                          *)
(***************************************************************************)
EXTENDS PodLifecycle

VARIABLE disturbed \* history: two requests have overlapped, or one was cut off

watched == <<vars, disturbed>>

Overlap == \E r, s \in Busy : r # s

\* A request is cut off, rather than that it ends.
CutOff == Crash /\ ~\E r \in Requests : Step(r)

WatchedNext == Next /\ disturbed' = (disturbed \/ Overlap' \/ CutOff)

WatchedInit == Init /\ disturbed = FALSE

WatchedSpec == WatchedInit /\ [][WatchedNext]_watched

\* Fairness, as far as requests that come one at a time need it.
QuietFairness ==
  /\ WF_vars(NextDay)
  /\ SF_vars(\E r \in Refreshers : StartRefresh(r))
  /\ WF_vars(\E r \in Requests : Step(r))

\* Undisturbed, one pod of the plan gathers members at a time and takes no more
\* than the plan allows, no refresh meets a checksum it does not expect, and
\* locked pods are full, bots first.
QuietPodsInOrder ==
  ~disturbed =>
    /\ OneJoinablePod
    /\ NeverOverfull
    /\ JoinableChecksumsIntact
    /\ LockedPodFilledAndOrdered

\* Undisturbed, the code keeps the promise of PodRound: people gather in one
\* pod, and once it is settled neither who is in it nor their turns ever change.
QuietRoundPromise == Round!Init /\ [][disturbed' \/ Round!Next]_(Round!vars)

\* Undisturbed, once in grace a pod is locked and ordered, provided the
\* behaviour lasts long enough for its grace period to end.
QuietGraceLeadsToLock ==
  \A p \in Pods :
    (pod[p].status = "grace" /\ pod[p].graceEndsAt < LastDay)
      ~> (Settled(p) \/ disturbed)
=============================================================================
