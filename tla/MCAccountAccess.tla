-------------------------- MODULE MCAccountAccess --------------------------
(* Two accounts that have the same address one after the other.             *)
EXTENDS AccountAccessWatched, TLC

CONSTANTS a1, a2, p1, s1, s2,
          MaxRequests, \* bound on the requests of a behaviour
          MaxEvents    \* and on what else happens in it

VARIABLES begun, happened

\* A bound of the instance: a behaviour has a restart or requests that overlap.
CrashesApart == crashes = 0 \/ ~overlapped

\* The names of accounts, passwords and links do not matter.
Canonical ==
  /\ accounts[a1] = NewAccount => accounts[a2] = NewAccount
  /\ accounts[a1] = NewAccount => \A r \in Requests : req[r].next \in {p1, Scrambled}
  /\ links[s1] = NewLink => links[s2] = NewLink

\* The steps of WatchedNext within the bounds.
BoundedNext ==
  /\ \/ \E r \in Requests : Request(r) /\ begun' = begun + 1 /\ UNCHANGED happened
     \/ \E r \in Requests : Step(r) /\ UNCHANGED <<begun, happened>>
     \/ Event /\ happened' = happened + 1 /\ UNCHANGED begun
  /\ begun' <= MaxRequests /\ happened' <= MaxEvents
  /\ overlapped' = (overlapped \/ Overlap')
  /\ Canonical' /\ CrashesApart'

BoundedInit == WatchedInit /\ begun = 0 /\ happened = 0

BoundedSpec == BoundedInit /\ [][BoundedNext]_<<watched, begun, happened>>

\* The requests are interchangeable, and the properties are safety properties.
Interchangeable == Permutations(Requests)
=============================================================================
