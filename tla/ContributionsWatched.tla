------------------------ MODULE ContributionsWatched ------------------------
(* The contributions of a pod, watched for requests that overlap: the ledger *)
(* is promised to requests that come one at a time only.                     *)
EXTENDS Contributions

VARIABLE overlapped \* history: two requests have been under way at once

Overlap == \E r, s \in Busy : r # s

WatchedNext == Next /\ overlapped' = (overlapped \/ Overlap')

WatchedSpec == Init /\ overlapped = FALSE /\ [][WatchedNext]_<<vars, overlapped>>

\* One request at a time, restarts included, payments, transactions and totals
\* agree, and nobody is flagged without a failure.
SerialLedgerAgrees == ~overlapped => LedgerAgrees /\ MissedMeansFailed
=============================================================================
