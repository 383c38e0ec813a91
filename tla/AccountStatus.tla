--------------------------- MODULE AccountStatus ---------------------------
(***************************************************************************)
(* What becomes of an account that has one: the timer and the login that   *)
(* warn and close idle accounts, the flags, the bank account and identity  *)
(* that a pod asks for, and the joins that are counted against it.         *)
(*                                                                         *)
(* As in AccountAccess a request writes the accounts it loaded only while  *)
(* nobody else has written them.  A command that does nothing but load and *)
(* write is one step: it writes the row it knows, or it fails without a    *)
(* trace.  Those that mail or count in between, or write twice, take steps.*)
(***************************************************************************)
EXTENDS FiniteSets, Integers

CONSTANTS Accounts,
          Settled,     \* those of them that are identified and linked to a bank
          Requests,    \* timer runs, logins and joins under way
          WeeklyJoins, \* joins in seven days before the next one is marked
          RapidJoins,  \* joins in three days before an account is marked
          MaxCrashes   \* bound on how often the process dies and restarts

ASSUME StatusAssumption ==
  Settled \subseteq Accounts /\ WeeklyJoins \in Nat /\ RapidJoins \in Nat /\ MaxCrashes \in Nat

\* "review" is requiresFraudReview and missedPaymentFlag, which act alike.
Flags == {"review", "overheat"}

VARIABLES rows,    \* table accounts
          young,   \* memberships of each account not older than three days
          week,    \* those of the four days before
          req,     \* the requests under way
          crashes, \* how often the process has died
          notices, \* history: notices mailed since the account was last active
          cleared, \* history: accounts whose flags an admin has cleared
          refused  \* history: the mail server has refused a notice

memberships == <<young, week>>
history == <<notices, cleared, refused>>
vars == <<rows, memberships, req, crashes, history>>

\* `idle' counts the thresholds of 60 and 90 days passed since lastPodJoinedAt
\* or, while that is null, createdAt; `warned' and `told' say that the reminder
\* and the closure notice are younger than that date.
NewRow == [idle |-> 0, joined |-> FALSE, warned |-> FALSE, told |-> FALSE, active |-> TRUE,
           flags |-> {}, identified |-> FALSE, customer |-> FALSE, bank |-> FALSE,
           method |-> FALSE]

SettledRow == [NewRow EXCEPT !.identified = TRUE, !.customer = TRUE, !.bank = TRUE, !.method = TRUE]

\* `warns' and `closes' are the accounts to write, `unsent' those of them whose
\* notice is not out, `noted' those that are to be written because it is; `joins'
\* is the account that joins a pod.  Others have written those in `stale'.
Idle == [pc |-> "idle", warns |-> {}, closes |-> {}, unsent |-> {}, noted |-> {},
         joins |-> {}, stale |-> {}]

Init ==
  /\ rows = [a \in Accounts |-> IF a \in Settled THEN SettledRow ELSE NewRow]
  /\ young = [a \in Accounts |-> 0]
  /\ week = [a \in Accounts |-> 0]
  /\ req = [r \in Requests |-> Idle]
  /\ crashes = 0
  /\ notices = [a \in Accounts |-> 0]
  /\ cleared = {}
  /\ refused = FALSE

Begin(r, q) ==
  /\ req[r] = Idle
  /\ req' = [req EXCEPT ![r] = q]
  /\ UNCHANGED <<rows, memberships, crashes, history>>

End(r) == req' = [req EXCEPT ![r] = Idle]

\* The accounts that request s has loaded to write.
Held(s) == req[s].warns \cup req[s].closes \cup req[s].joins

\* What a flush of request r writes.
Written(r) == req[r].noted \cup req[r].joins

\* Mutant: accounts have no version column.
MutCurrent(r) == TRUE

\* The updates by id and version find their rows.
Current(r) == Written(r) \cap req[r].stale = {}

\* The requests other than r, for which the accounts in `written' are now stale.
Outdated(r, written, q) ==
  [s \in Requests |-> IF s = r THEN q
     ELSE [req[s] EXCEPT !.stale = @ \cup (Held(s) \cap written)]]

\* r, which goes on as q, writes what it has changed.
Flush(r, new, q) ==
  /\ Current(r)
  /\ rows' = [a \in Accounts |-> IF a \in Written(r) THEN new[a] ELSE rows[a]]
  /\ req' = Outdated(r, Written(r), q)

\* A command that loads and writes account a.
Write(a, row) ==
  /\ rows' = [rows EXCEPT ![a] = row]
  /\ req' = [s \in Requests |-> [req[s] EXCEPT !.stale = @ \cup (Held(s) \cap {a})]]

Conflict(r) ==
  /\ \/ req[r].pc \in {"mark", "join", "markRapid"}
     \/ req[r].pc = "notify" /\ req[r].unsent = {}
  /\ ~Current(r)
  /\ End(r)
  /\ UNCHANGED <<rows, memberships, crashes, history>>

(***************************************************************************)
(* Inactivity                                                              *)
(***************************************************************************)
ToWarn == {a \in Accounts : rows[a].idle = 1 /\ ~rows[a].warned}

\* Mutant: an account that an admin has deactivated is passed over.
MutToClose == {a \in Accounts : rows[a].idle = 2 /\ ~rows[a].told /\ rows[a].active}

ToClose == {a \in Accounts : rows[a].idle = 2 /\ ~rows[a].told}

\* The timer, some seconds after the start and then at intervals, loads all
\* accounts past 60 days at once.
ProcessAccountInactivity(r) ==
  /\ ToWarn \cup ToClose # {}
  /\ Begin(r, [Idle EXCEPT !.pc = "notify", !.warns = ToWarn, !.closes = ToClose,
                           !.unsent = ToWarn \cup ToClose])

\* A login past 60 days reminds; one past 90 days closes the account and fails,
\* and closes it again when an admin has activated it.
LoginIdle(r) ==
  \E a \in Accounts :
    \/ /\ a \in ToWarn
       /\ Begin(r, [Idle EXCEPT !.pc = "notify", !.warns = {a}, !.unsent = {a}])
    \/ /\ rows[a].idle = 2
       /\ a \in ToClose \/ rows[a].active
       /\ Begin(r, [Idle EXCEPT !.pc = "notify", !.closes = {a}, !.unsent = {a} \cap ToClose,
                           !.noted = {a} \ ToClose])

\* processSixtyDayInactivity
Warned(row) == [row EXCEPT !.warned = TRUE]

\* Mutant: the closure notice is not recorded.
MutClosed(row) == [row EXCEPT !.active = FALSE]

\* Mutant: the notice counts as a threshold passed.
MutShut(row) == [row EXCEPT !.told = TRUE, !.active = FALSE, !.idle = @ + 1]

\* processNinetyDayInactivity
Closed(row) == [row EXCEPT !.told = TRUE, !.active = FALSE]

Noticed(r) ==
  [a \in Held(r) |-> IF a \in req[r].warns THEN Warned(rows[a]) ELSE Closed(rows[a])]

Without(q, accounts) ==
  [q EXCEPT !.warns = @ \ accounts, !.closes = @ \ accounts, !.noted = @ \ accounts]

\* The mail service looks the next account up and logs the mail, which flushes
\* the accounts noted so far.  It goes on without when that fails.
NextNotice(r, q) ==
  /\ req[r].pc = "notify" /\ req[r].unsent # {}
  /\ \/ Flush(r, Noticed(r), Without(q, Written(r)))
     \/ ~Current(r) /\ rows' = rows /\ req' = [req EXCEPT ![r] = q]

\* The notices go out one after the other.  A bound: they are counted to two.
Notify(r) ==
  /\ \E a \in req[r].unsent :
       /\ NextNotice(r, [req[r] EXCEPT !.unsent = @ \ {a}, !.noted = @ \cup {a}])
       /\ notices' = [notices EXCEPT ![a] = IF @ < 2 THEN @ + 1 ELSE @]
  /\ UNCHANGED <<memberships, crashes, cleared, refused>>

\* The first notice that the mail server refuses ends the request.  A bound: it
\* refuses once.
NoticeRefused(r) ==
  /\ ~refused
  /\ NextNotice(r, Idle)
  /\ refused' = TRUE
  /\ UNCHANGED <<memberships, crashes, notices, cleared>>

FlushInactivity(r) ==
  /\ req[r].pc = "notify" /\ req[r].unsent = {}
  /\ Flush(r, Noticed(r), Idle)
  /\ UNCHANGED <<memberships, crashes, history>>

(***************************************************************************)
(* What admins decide                                                      *)
(***************************************************************************)
\* account.activate(): the date of the last join is set when there is none.
Activated(row) ==
  IF row.joined THEN [row EXCEPT !.active = TRUE]
  ELSE [row EXCEPT !.active = TRUE, !.joined = TRUE, !.idle = 0, !.warned = FALSE, !.told = FALSE]

\* account.deactivate()
Deactivated(row) == [row EXCEPT !.active = FALSE]

UpdateAccountStatus(a) ==
  /\ \E on \in BOOLEAN : Write(a, IF on THEN Activated(rows[a]) ELSE Deactivated(rows[a]))
  /\ notices' = IF rows'[a].idle # rows[a].idle THEN [notices EXCEPT ![a] = 0] ELSE notices
  /\ UNCHANGED <<memberships, crashes, cleared, refused>>

\* Some flags are raised and others cleared; a failed debit raises one.
UpdateAccountFlags(a) ==
  \E raised, lowered \in SUBSET Flags :
    /\ raised \cap lowered = {} /\ raised \cup lowered # {}
    /\ Write(a, [rows[a] EXCEPT !.flags = (@ \cup raised) \ lowered])
    /\ cleared' = IF lowered = {} THEN cleared ELSE cleared \cup {a}
    /\ UNCHANGED <<memberships, crashes, notices, refused>>

\* The payment method stays.
RemoveAccountBank(a) ==
  /\ Write(a, [rows[a] EXCEPT !.bank = FALSE])
  /\ UNCHANGED <<memberships, crashes, history>>

(***************************************************************************)
(* What owners record                                                      *)
(***************************************************************************)
\* Whatever its outcome.
RecordIdentityVerification(a) ==
  /\ \E completed \in BOOLEAN : Write(a, [rows[a] EXCEPT !.identified = completed])
  /\ UNCHANGED <<memberships, crashes, history>>

UpsertStripeCustomer(a) ==
  /\ Write(a, [rows[a] EXCEPT !.customer = TRUE])
  /\ UNCHANGED <<memberships, crashes, history>>

\* The holder's name is not the owner's.
NameMismatch == BOOLEAN

\* Of the customer on record, with or without a payment method.
UpsertStripeBankAccount(a) ==
  /\ \E method \in BOOLEAN, mismatch \in NameMismatch :
       Write(a, [rows[a] EXCEPT !.bank = TRUE, !.method = method,
                                !.flags = IF mismatch THEN @ \cup {"review"} ELSE @])
  /\ UNCHANGED <<memberships, crashes, history>>

\* Only the version moves on.
UpdateAvatar(a) == Write(a, rows[a]) /\ UNCHANGED <<memberships, crashes, history>>

UpdateNotificationPreferences(a) == UpdateAvatar(a)

(***************************************************************************)
(* Joining a pod                                                           *)
(***************************************************************************)
\* ensureAccountEligible
Eligible(row) == row.bank /\ row.flags = {}

\* "Complete Stripe verification before joining a pod."  Whether the account is
\* active is not asked.
StartJoin(r) ==
  \E a \in Accounts :
    /\ rows[a].identified /\ Eligible(rows[a])
    /\ Begin(r, [Idle EXCEPT !.pc = "count", !.joins = {a}])

\* CreateCustomPod and AcceptCustomPodInvite ask the same, but count nothing.
StartCustomJoin(r) ==
  \E a \in Accounts :
    /\ rows[a].identified /\ Eligible(rows[a])
    /\ Begin(r, [Idle EXCEPT !.pc = "join", !.joins = {a}])

\* As many joins in the last seven days as go unmarked.
TooMany(a) == young[a] + week[a] >= WeeklyJoins

CountJoins(r) ==
  /\ req[r].pc = "count"
  /\ req' = [req EXCEPT ![r] =
       [@ EXCEPT !.pc = IF \E a \in req[r].joins : TooMany(a) THEN "mark" ELSE "join"]]
  /\ UNCHANGED <<rows, memberships, crashes, history>>

Overheated(row) == [row EXCEPT !.flags = @ \cup {"overheat"}]

\* The notification is flushed with the flag, and the join goes on.
MarkJoiner(r) ==
  LET q == req[r]
  IN  /\ q.pc = "mark"
      /\ Flush(r, [a \in q.joins |-> Overheated(rows[a])], [q EXCEPT !.pc = "join"])
      /\ UNCHANGED <<memberships, crashes, history>>

\* account.markPodJoined()
PodJoined(row) ==
  [row EXCEPT !.active = TRUE, !.joined = TRUE, !.idle = 0, !.warned = FALSE, !.told = FALSE]

\* The membership and the account in one flush; the pod may turn it down.
CommitJoin(r) ==
  LET q == req[r]
  IN  /\ q.pc = "join"
      /\ Flush(r, [a \in q.joins |-> PodJoined(rows[a])], [q EXCEPT !.pc = "rapid"])
      /\ young' = [a \in Accounts |-> IF a \in q.joins THEN young[a] + 1 ELSE young[a]]
      /\ notices' = [a \in Accounts |-> IF a \in q.joins THEN 0 ELSE notices[a]]
      /\ UNCHANGED <<week, crashes, cleared, refused>>

JoinRefused(r) ==
  /\ req[r].pc = "join" /\ End(r)
  /\ UNCHANGED <<rows, memberships, crashes, history>>

\* Mutant: one join more goes unmarked.
MutRapid(a) == young[a] > RapidJoins + 1

Rapid(a) == young[a] > RapidJoins

\* evaluateRapidJoins counts the memberships there are by now.
EvaluateRapidJoins(r) ==
  /\ req[r].pc = "rapid"
  /\ req' = [req EXCEPT ![r] =
       IF \E a \in req[r].joins : Rapid(a) /\ "overheat" \notin rows[a].flags
       THEN [@ EXCEPT !.pc = "markRapid"] ELSE Idle]
  /\ UNCHANGED <<rows, memberships, crashes, history>>

MarkRapidJoiner(r) ==
  /\ req[r].pc = "markRapid"
  /\ Flush(r, [a \in req[r].joins |-> Overheated(rows[a])], Idle)
  /\ UNCHANGED <<memberships, crashes, history>>

(***************************************************************************)
(* Time, the process and the debit                                         *)
(***************************************************************************)
\* No request of the account is under way: a request does not take days.
Quiet(a) == \A r \in Requests : a \notin Held(r)

\* A membership gets three days old, or seven.
Age(a) ==
  /\ Quiet(a)
  /\ \/ young[a] > 0 /\ young' = [young EXCEPT ![a] = @ - 1] /\ week' = [week EXCEPT ![a] = @ + 1]
     \/ week[a] > 0 /\ week' = [week EXCEPT ![a] = @ - 1] /\ UNCHANGED young
  /\ UNCHANGED <<rows, req, crashes, history>>

\* 60 days without a join pass, or 90.
Rest(a) ==
  /\ Quiet(a) /\ young[a] = 0 /\ week[a] = 0 /\ rows[a].idle < 2
  /\ rows' = [rows EXCEPT ![a].idle = @ + 1]
  /\ notices' = IF rows[a].idle = 1 THEN [notices EXCEPT ![a] = 0] ELSE notices
  /\ UNCHANGED <<memberships, req, crashes, cleared, refused>>

\* The process dies with every request under way; the tables stay.
Crash ==
  /\ crashes < MaxCrashes
  /\ \E r \in Requests : req[r] # Idle
  /\ crashes' = crashes + 1
  /\ req' = [r \in Requests |-> Idle]
  /\ UNCHANGED <<rows, memberships, history>>

\* The accounts that the debit run sends to Stripe.
Chargeable(a) == rows[a].customer /\ rows[a].method

\* PATCH admin/accounts/:accountId/status and /flags, DELETE .../bank-account.
AdminCommand(a) == UpdateAccountStatus(a) \/ UpdateAccountFlags(a) \/ RemoveAccountBank(a)

\* POST auth/identity-verification, auth/customer and auth/bank-account.
OwnerCommand(a) ==
  RecordIdentityVerification(a) \/ UpsertStripeCustomer(a) \/ UpsertStripeBankAccount(a)

\* PATCH auth/profile/avatar and auth/profile/notifications.
ProfileCommand(a) == UpdateAvatar(a) \/ UpdateNotificationPreferences(a)

Command(a) == AdminCommand(a) \/ OwnerCommand(a) \/ ProfileCommand(a)

Request(r) == LoginIdle(r) \/ StartJoin(r) \/ StartCustomJoin(r)

Step(r) ==
  \/ Notify(r) \/ FlushInactivity(r) \/ Conflict(r) \/ CountJoins(r) \/ MarkJoiner(r)
  \/ CommitJoin(r) \/ JoinRefused(r) \/ EvaluateRapidJoins(r) \/ MarkRapidJoiner(r)

Next ==
  \/ \E a \in Accounts : Command(a) \/ Age(a) \/ Rest(a)
  \/ \E r \in Requests : ProcessAccountInactivity(r) \/ Request(r) \/ Step(r) \/ NoticeRefused(r)
  \/ Crash

\* The timer runs for ever, and what it began goes on.
Fairness == WF_vars(\E r \in Requests : ProcessAccountInactivity(r) \/ Step(r))

Spec == Init /\ [][Next]_vars /\ Fairness

(***************************************************************************)
(* Properties                                                              *)
(***************************************************************************)
TypeOK ==
  /\ rows \in [Accounts -> [idle : 0..2, joined : BOOLEAN, warned : BOOLEAN, told : BOOLEAN,
                            active : BOOLEAN, flags : SUBSET Flags, identified : BOOLEAN,
                            customer : BOOLEAN, bank : BOOLEAN, method : BOOLEAN]]
  /\ young \in [Accounts -> Nat] /\ week \in [Accounts -> Nat]
  /\ req \in [Requests -> [
       pc : {"idle", "notify", "count", "mark", "join", "rapid", "markRapid"},
       warns : SUBSET Accounts, closes : SUBSET Accounts, unsent : SUBSET Accounts,
       noted : SUBSET Accounts, joins : SUBSET Accounts, stale : SUBSET Accounts]]
  /\ crashes \in Nat
  /\ notices \in [Accounts -> Nat] /\ cleared \subseteq Accounts /\ refused \in BOOLEAN

\* What was decided on the loaded row still holds when the row is written: who
\* is closed has not joined or been activated since, and who joins has not lost
\* the bank account or been flagged while the join was mailing and counting.
DecisionsFitTheRow ==
  [][\A r \in Requests, a \in Accounts :
       /\ a \in req[r].noted /\ a \notin req'[r].noted /\ rows'[a] # rows[a] =>
            rows[a].idle = IF a \in req[r].closes THEN 2 ELSE 1
       /\ CommitJoin(r) /\ a \in req[r].joins =>
            rows[a].identified /\ rows[a].bank /\ rows[a].flags \subseteq {"overheat"}]_vars

\* A reminder and a closure notice are mailed once.
NoticedOnce == \A a \in Accounts : notices[a] <= 1

\* Nobody joins pods faster than the limits, unless an admin has cleared flags.
JoinsBounded ==
  \A a \in Accounts \ cleared : young[a] <= RapidJoins + 1

\* An account idle for 90 days is told so, also when a notice was refused, a
\* run failed or the process died.
IdleAccountsAreTold == \A a \in Accounts : rows[a].idle = 2 ~> rows[a].told \/ rows[a].idle < 2

\* Nothing is collected by a payment method of which the bank account has been
\* removed.
ChargeableMeansLinked == \A a \in Accounts : Chargeable(a) => rows[a].bank
=============================================================================
