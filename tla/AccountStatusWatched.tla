------------------------ MODULE AccountStatusWatched ------------------------
(* AccountStatus, watched for requests that overlap with another request or *)
(* with a command.                                                          *)
EXTENDS AccountStatus

VARIABLE overlapped

watched == <<vars, overlapped>>

Busy == {r \in Requests : req[r] # Idle}

\* What begins is noticed while something else is under way.
Watch == overlapped' = (overlapped \/ Busy # {})

\* What goes on or passes begins nothing.
Continue ==
  /\ \/ \E a \in Accounts : Age(a) \/ Rest(a)
     \/ \E r \in Requests : Step(r) \/ NoticeRefused(r)
     \/ Crash
  /\ UNCHANGED overlapped

WatchedInit == Init /\ overlapped = FALSE

WatchedNext ==
  \/ Watch /\ \E a \in Accounts : Command(a)
  \/ Watch /\ \E r \in Requests : Request(r) \/ ProcessAccountInactivity(r)
  \/ Continue

WatchedSpec == WatchedInit /\ [][WatchedNext]_watched

Undisturbed == ~overlapped /\ crashes = 0

\* As long as timer runs, logins, joins and commands take turns and the process
\* lives, the reminder and the closure notice reach an idle account once, also
\* when the mail server refuses one of a run.
SerialNoticedOnce == Undisturbed => NoticedOnce

\* As long as they do, nobody joins pods faster than the limits.
SerialJoinsBounded == Undisturbed => JoinsBounded
=============================================================================
