----------------------- MODULE MCPodLifecycleWatched -----------------------
(* The plan of MCPodLifecycle, watched: the bounds of the instance.         *)
EXTENDS MCPodLifecycle, PodLifecycleWatched

CONSTANTS a1, a2, a3,
          j2,            \* a joiner that only comes while another request runs
          BusyDays       \* days on which a behaviour may be disturbed

Present ==
  UNION {Gathered(p) : p \in Pods} \cup ({req[r].account : r \in Joiners} \ {Nobody})

\* The names of accounts do not matter: they turn up in this order.
Canonical == Present \in {{}, {a1}, {a1, a2}, {a1, a2, a3}}

\* A bound of the instance: a disturbed behaviour has one account and few days.
BoundedNext ==
  /\ WatchedNext
  /\ req'[j2] # Idle => disturbed'
  /\ Canonical'
  /\ disturbed' => day' \in BusyDays /\ Cardinality(Present') <= 1

BoundedFairSpec == WatchedInit /\ [][BoundedNext]_watched /\ QuietFairness
=============================================================================
