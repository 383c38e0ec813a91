------------------------ MODULE AdminAccessWatched ------------------------
(***************************************************************************)
(* The back office, watched for requests that overlap: some properties are *)
(* promised only to requests that come one at a time.                      *)
(***************************************************************************)
EXTENDS AdminAccess

VARIABLE disturbed  \* history: requests have overlapped

watched == <<vars, disturbed>>

Busy == {r \in Requests : requests[r] # Idle}

Overlap == \E r, s \in Busy : r # s

\* An admin is created while a request is under way.
Appointment ==
  /\ Busy # {}
  /\ \E a \in Admins, R \in SUBSET Roles, allow, deny \in Grants : CreateAdmin(a, R, allow, deny)

WatchedInit == Init /\ disturbed = FALSE

WatchedNext == Next /\ disturbed' = (disturbed \/ Overlap' \/ Appointment)

WatchedSpec == WatchedInit /\ [][WatchedNext]_watched

\* One request at a time, the first password opens the door once, an admin has
\* one reset link that works and it sets one password, and no role that somebody
\* has disappears.
SerialOfficeInOrder == ~disturbed => KeptInOrder

\* Whatever overlaps, what has been denied stays denied; the rest one at a time.
OfficeInOrder == DeniedMeansDenied /\ SerialOfficeInOrder
=============================================================================
