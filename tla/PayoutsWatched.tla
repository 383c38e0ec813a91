--------------------------- MODULE PayoutsWatched ---------------------------
(* The payouts of a pod, watched for requests that overlap: some properties *)
(* are promised to requests that come one at a time only.                   *)
EXTENDS Payouts

VARIABLE overlapped \* history: two requests have been under way at once

Overlap == \E r, s \in Busy : r # s

WatchedNext == Next /\ overlapped' = (overlapped \/ Overlap')

WatchedSpec == Init /\ overlapped = FALSE /\ [][WatchedNext]_<<vars, overlapped>>

\* One request at a time, and unless an admin says that one of them failed, no
\* member has two payouts in progress.
SerialPayoutInProgress == ~overlapped /\ withdrawn = {} => OnePayoutInProgress

\* As long as requests come one at a time and admins stay out of it, the pod
\* ends as PodPayout promises.
SerialPayoutPromise ==
  Payout!Init /\ [][overlapped' \/ withdrawn' # {} \/ approved' # {} \/ Payout!Next]_(Payout!vars)
=============================================================================
