------------------------ MODULE AccountAccessWatched ------------------------
(* AccountAccess, watched for requests that overlap: some properties are    *)
(* promised only to requests that come one at a time.                       *)
EXTENDS AccountAccess

VARIABLE overlapped \* history: two requests have been under way at once

watched == <<vars, overlapped>>

Busy == {r \in Requests : req[r] # Idle}

Overlap == \E r, s \in Busy : r # s

WatchedInit == Init /\ overlapped = FALSE

WatchedNext == Next /\ overlapped' = (overlapped \/ Overlap')

WatchedSpec == WatchedInit /\ [][WatchedNext]_watched

\* One request at a time, an account has one live link of each kind and takes
\* no more wrong guesses than allowed.
SerialLinksGuarded == ~overlapped => OneLiveLink /\ GuessesBounded
=============================================================================
