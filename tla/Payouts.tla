------------------------------ MODULE Payouts ------------------------------
(***************************************************************************)
(* The payouts of one active pod and its completion: an admin's trigger    *)
(* (InitiatePayout), Stripe's webhook (handlePayoutIntent), the client's   *)
(* POST /payouts and the admin's manual payout (both RecordPayout), the    *)
(* admin's UpdatePayoutStatus, and CompleteMembership behind the webhook.  *)
(*                                                                         *)
(* Nothing but the unique stripeReference of payouts orders them.  Each    *)
(* works on the rows it loaded and writes the columns it changed.          *)
(***************************************************************************)
EXTENDS FiniteSets, Integers

CONSTANTS Members,      \* memberships with an account
          Intents,      \* stripeReferences, Stripe's and manual ones
          Triggers,     \* POST admin/pods/:podId/payouts/trigger
          Webhooks,     \* deliveries of events under way
          Posts,        \* POST /payouts
          Admins,       \* manual payouts and status updates
          Nobody, NoIntent,
          Concurrency,  \* bound on the requests under way at once
          MaxCrashes    \* bound on how often the process dies and restarts

ASSUME PayoutsAssumption ==
  /\ IsFiniteSet(Members) /\ Members # {} /\ IsFiniteSet(Intents)
  /\ Nobody \notin Members /\ NoIntent \notin Intents
  /\ Triggers \cap (Webhooks \cup Posts \cup Admins) = {}
  /\ Webhooks \cap (Posts \cup Admins) = {} /\ Posts \cap Admins = {}
  /\ Concurrency \in Nat /\ MaxCrashes \in Nat

Requests == Triggers \cup Webhooks \cup Posts \cup Admins

VARIABLES podStatus, \* pod.status
          paidOut,   \* membership.paidOut
          stripe,    \* the payouts as Stripe knows them
          events,    \* the statuses of each that Stripe has an event of
          payouts,   \* table payouts: the status of each reference's row
          txns,      \* table transactions: how many rows a reference has
          req,       \* the requests under way
          crashes,   \* how often the process has died
          approved,  \* history: payouts an admin has declared successful
          withdrawn  \* history: members an admin has declared unpaid

tables == <<podStatus, paidOut, payouts, txns>>
history == <<approved, withdrawn>>
vars == <<tables, stripe, events, req, crashes, history>>

\* Statuses that Stripe sends an event of.
Final == {"succeeded", "requires_payment_method", "canceled"}

NewIntent == [status |-> "none", member |-> Nobody]

\* `found' and `paid' are the columns as the request loaded them,
\* `status' is what it is going to write, `decides' whether it also sets
\* paidOut, `all' what it saw of the other members.
Idle == [pc |-> "idle", member |-> Nobody, intent |-> NoIntent, status |-> "none",
         found |-> "none", paid |-> FALSE, decides |-> FALSE, all |-> FALSE]

Init ==
  /\ podStatus = "active"
  /\ paidOut = [m \in Members |-> FALSE]
  /\ stripe = [i \in Intents |-> NewIntent]
  /\ events = [i \in Intents |-> {}]
  /\ payouts = [i \in Intents |-> "none"]
  /\ txns = [i \in Intents |-> 0]
  /\ req = [r \in Requests |-> Idle]
  /\ crashes = 0
  /\ approved = {}
  /\ withdrawn = {}

Busy == {r \in Requests : req[r].pc # "idle"}

CanStart(r) == req[r].pc = "idle" /\ Cardinality(Busy) < Concurrency

(***************************************************************************)
(* InitiatePayout                                                          *)
(***************************************************************************)
\* Mutant: only what has arrived is regarded.
MutActive(status) == status = "succeeded"

\* Statuses that stand in the way of another payout: all but the failures.
Active(status) == status \notin {"none", "failed", "canceled"}

\* "Payout already in progress or completed for this membership."  A trigger
\* that is turned down leaves no trace.
StartTrigger(r, m) ==
  /\ CanStart(r)
  /\ \A i \in Intents : stripe[i].member = m => ~Active(payouts[i])
  /\ req' = [req EXCEPT ![r] = [Idle EXCEPT !.pc = "create", !.member = m]]
  /\ UNCHANGED <<tables, stripe, events, crashes, history>>

\* outboundPayments.create, which may also be refused.
CreatePayment(r) ==
  /\ req[r].pc = "create"
  /\ \/ \E i \in Intents :
          /\ stripe[i] = NewIntent
          /\ stripe' = [stripe EXCEPT ![i] =
               [status |-> "processing", member |-> req[r].member]]
          /\ req' = [req EXCEPT ![r] =
               [@ EXCEPT !.pc = "insert", !.intent = i, !.status = "processing"]]
     \/ req' = [req EXCEPT ![r] = Idle] /\ UNCHANGED stripe
  /\ UNCHANGED <<tables, events, crashes, history>>

(***************************************************************************)
(* The insert of a payout and its transaction, in one flush                *)
(***************************************************************************)
Recorded(i) == payouts[i] # "none"

\* Mutant: the reference is not unique.
MutTaken(i) == FALSE

\* The unique key of payouts.stripeReference.
Taken(i) == Recorded(i)

\* Mutant: the flag is read the wrong way round.
MutMustComplete(r, q) == r \in Webhooks /\ q.status = "succeeded" /\ q.paid

\* Mutant: any event completes the membership.
MutCompleteAnyway(r, q) == r \in Webhooks /\ ~q.paid

\* The webhook goes on to CompleteMembership after a success, unless it loaded
\* the membership as paid out.
MustComplete(r, q) == r \in Webhooks /\ q.status = "succeeded" /\ ~q.paid

\* Where a request goes when the payout is on record.
Onward(r, q) ==
  IF MustComplete(r, q) THEN [Idle EXCEPT !.pc = "complete", !.member = q.member] ELSE Idle

Insert(r) ==
  LET q == req[r]
  IN  /\ q.pc = "insert"
      /\ IF Taken(q.intent)
         THEN /\ req' = [req EXCEPT ![r] = Idle]
              /\ UNCHANGED <<payouts, txns>>
         ELSE /\ payouts' = [payouts EXCEPT ![q.intent] = q.status]
              /\ txns' = [txns EXCEPT ![q.intent] = @ + 1]
              /\ req' = [req EXCEPT ![r] = Onward(r, q)]
      /\ UNCHANGED <<podStatus, paidOut, stripe, events, crashes, history>>

(***************************************************************************)
(* RecordPayout                                                            *)
(***************************************************************************)
\* "Payout already recorded for this Stripe reference."; then the membership
\* is read.
RecordPayout(r) ==
  LET q == req[r]
  IN  /\ q.pc = "record"
      /\ req' = [req EXCEPT ![r] =
           IF Recorded(q.intent) THEN Idle
           ELSE [q EXCEPT !.pc = "insert", !.paid = paidOut[q.member]]]
      /\ UNCHANGED <<tables, stripe, events, crashes, history>>

\* A member reports a payout of theirs, with a status of their choice.
StartPost(r, i, s) ==
  /\ CanStart(r)
  /\ stripe[i].status \notin {"none", "manual"}
  /\ req' = [req EXCEPT ![r] = [Idle EXCEPT !.pc = "record", !.intent = i,
                                !.member = stripe[i].member, !.status = s]]
  /\ UNCHANGED <<tables, stripe, events, crashes, history>>

\* POST admin/pods/:podId/payouts: the membership is read ...
StartMark(r, m) ==
  /\ CanStart(r)
  /\ req' = [req EXCEPT ![r] =
       [Idle EXCEPT !.pc = "mark", !.member = m, !.paid = paidOut[m]]]
  /\ UNCHANGED <<tables, stripe, events, crashes, history>>

\* What a flush makes of paidOut that a request loaded as `loaded' and sets.
Written(now, loaded, value) == IF value = loaded THEN now ELSE value

\* ... and marked as not yet paid out (MarkPodMembershipPaid), and a payout
\* with a reference of its own is recorded.  (With every id of Intents in use
\* the manual payout is dropped: a bound of the model.)
MarkPaid(r) ==
  LET q == req[r]
  IN  /\ q.pc = "mark"
      /\ paidOut' = [paidOut EXCEPT ![q.member] = Written(@, q.paid, FALSE)]
      /\ withdrawn' = withdrawn \cup {q.member}
      /\ \/ \E i \in Intents :
              /\ stripe[i] = NewIntent
              /\ stripe' = [stripe EXCEPT ![i] = [status |-> "manual", member |-> q.member]]
              /\ req' = [req EXCEPT ![r] =
                   [Idle EXCEPT !.pc = "record", !.member = q.member, !.intent = i,
                                !.status = "processing"]]
         \/ /\ \A i \in Intents : stripe[i] # NewIntent
            /\ req' = [req EXCEPT ![r] = Idle]
            /\ UNCHANGED stripe
      /\ UNCHANGED <<podStatus, payouts, txns, events, crashes, approved>>

(***************************************************************************)
(* Changes of a recorded payout: the webhook and UpdatePayoutStatus        *)
(***************************************************************************)
\* An event is delivered, for the first time or again, in whatever order.
StartWebhook(r, i, s) ==
  /\ CanStart(r)
  /\ s \in events[i]
  /\ req' = [req EXCEPT ![r] =
       [Idle EXCEPT !.pc = IF Recorded(i) THEN "write" ELSE "record", !.intent = i,
                    !.member = stripe[i].member, !.status = s, !.found = payouts[i],
                    !.paid = Recorded(i) /\ paidOut[stripe[i].member]]]
  /\ UNCHANGED <<tables, stripe, events, crashes, history>>

\* Mutant: the admin's word is written as it is.
MutResolveStatus(choice) == choice

\* resolveStatus; "other" stands for a custom status.
resolveStatus(choice) ==
  CASE choice = "success" -> "succeeded"
    [] choice = "failed"  -> "failed"
    [] choice = "other"   -> "processing"

StartUpdate(r, i, choice) ==
  /\ CanStart(r)
  /\ Recorded(i)
  /\ req' = [req EXCEPT ![r] =
       [Idle EXCEPT !.pc = "write", !.intent = i, !.member = stripe[i].member,
                    !.status = resolveStatus(choice), !.found = payouts[i],
                    !.paid = paidOut[stripe[i].member], !.decides = choice # "other"]]
  /\ UNCHANGED <<tables, stripe, events, crashes, history>>

\* Both write what differs from what they loaded, to the transaction as to the
\* payout; an admin also decides whether the member has been paid out, without
\* completing anything.
WriteStatus(r) ==
  LET q == req[r]
      i == q.intent
      paid == q.status = "succeeded"
  IN  /\ q.pc = "write"
      /\ payouts' = [payouts EXCEPT ![i] = IF q.found = q.status THEN @ ELSE q.status]
      /\ paidOut' = IF q.decides THEN [paidOut EXCEPT ![q.member] = Written(@, q.paid, paid)]
                    ELSE paidOut
      /\ approved' = IF q.decides /\ paid THEN approved \cup {i} ELSE approved
      /\ withdrawn' = IF q.decides /\ ~paid THEN withdrawn \cup {q.member} ELSE withdrawn
      /\ req' = [req EXCEPT ![r] = Onward(r, q)]
      /\ UNCHANGED <<podStatus, txns, stripe, events, crashes>>

(***************************************************************************)
(* CompleteMembership                                                      *)
(***************************************************************************)
\* Mutant: the one being completed is looked up as well, still unpaid.
MutAllPaid(m) == \A n \in Members : paidOut[n]

\* Mutant: another paid member is enough.
MutSomePaid(m) == \E n \in Members : n = m \/ paidOut[n]

\* Every member other than the one being completed has been paid out.
AllPaid(m) == \A n \in Members \ {m} : paidOut[n]

\* The membership is paid out in memory, and the others of the pod are read.
FindMemberships(r) ==
  LET q == req[r]
  IN  /\ q.pc = "complete"
      /\ req' = [req EXCEPT ![r] = [q EXCEPT !.pc = "finish", !.all = AllPaid(q.member)]]
      /\ UNCHANGED <<tables, stripe, events, crashes, history>>

CompleteMembership(r) ==
  LET q == req[r]
  IN  /\ q.pc = "finish"
      /\ paidOut' = [paidOut EXCEPT ![q.member] = TRUE]
      /\ podStatus' = IF q.all THEN "completed" ELSE podStatus
      /\ req' = [req EXCEPT ![r] = Idle]
      /\ UNCHANGED <<stripe, events, payouts, txns, crashes, history>>

(***************************************************************************)
(* Environment                                                             *)
(***************************************************************************)
\* A payout arrives, is returned (and may be given up after that) or given up.
Settle(i) ==
  /\ \E s \in Final :
       /\ \/ stripe[i].status = "processing"
          \/ stripe[i].status = "requires_payment_method" /\ s = "canceled"
       /\ stripe' = [stripe EXCEPT ![i].status = s]
       /\ events' = [events EXCEPT ![i] = @ \cup {s}]
  /\ UNCHANGED <<tables, req, crashes, history>>

\* The process dies: requests under way are gone, what was flushed stays.
Crash ==
  /\ crashes < MaxCrashes
  /\ Busy # {}
  /\ crashes' = crashes + 1
  /\ req' = [r \in Requests |-> Idle]
  /\ UNCHANGED <<tables, stripe, events, history>>

Step(r) ==
  \/ CreatePayment(r) \/ Insert(r) \/ RecordPayout(r) \/ MarkPaid(r)
  \/ WriteStatus(r) \/ FindMemberships(r) \/ CompleteMembership(r)

Next ==
  \/ \E r \in Triggers, m \in Members : StartTrigger(r, m)
  \/ \E r \in Posts, i \in Intents, s \in {"processing", "succeeded", "failed"} : StartPost(r, i, s)
  \/ \E r \in Admins, m \in Members : StartMark(r, m)
  \/ \E r \in Admins, i \in Intents, c \in {"success", "failed", "other"} : StartUpdate(r, i, c)
  \/ \E r \in Webhooks, i \in Intents, s \in Final : StartWebhook(r, i, s)
  \/ \E r \in Requests : Step(r)
  \/ \E i \in Intents : Settle(i)
  \/ Crash

Spec == Init /\ [][Next]_vars

\* Requests that have begun go on, and Stripe delivers the event of a success
\* until it is answered with success, which is when the member is paid out.
Fairness ==
  /\ \A r \in Requests : WF_vars(Step(r))
  /\ \A i \in Intents : SF_vars(\E r \in Webhooks :
       StartWebhook(r, i, "succeeded") /\ ~paidOut[stripe[i].member])

FairSpec == Spec /\ Fairness

-----------------------------------------------------------------------------
(***************************************************************************)
(* Properties                                                              *)
(***************************************************************************)
RowStatus == {"none", "processing", "failed"} \cup Final
Pc == {"idle", "create", "insert", "record", "mark", "write", "complete", "finish"}
StripePayout == [status : {"none", "processing", "manual"} \cup Final,
                 member : Members \cup {Nobody}]
Request == [pc : Pc, member : Members \cup {Nobody}, intent : Intents \cup {NoIntent},
            status : RowStatus, found : RowStatus, paid : BOOLEAN, decides : BOOLEAN,
            all : BOOLEAN]

TypeOK ==
  /\ podStatus \in {"active", "completed"}
  /\ paidOut \in [Members -> BOOLEAN]
  /\ stripe \in [Intents -> StripePayout]
  /\ events \in [Intents -> SUBSET Final]
  /\ payouts \in [Intents -> RowStatus]
  /\ txns \in [Intents -> Nat]
  /\ req \in [Requests -> Request]
  /\ crashes \in 0..MaxCrashes
  /\ approved \subseteq Intents
  /\ withdrawn \subseteq Members

\* Whichever of the trigger, its webhook and the member's own report comes
\* first, and whatever is delivered again, a payout is booked in the ledger
\* exactly once.
BookedOnce ==
  \A i \in Intents : txns[i] = IF Recorded(i) THEN 1 ELSE 0

\* Nobody is shown as paid out unless Stripe delivered a payout of theirs or an
\* admin said so.
PaidMeansDelivered ==
  \A m \in Members : paidOut[m] =>
    \E i \in Intents : stripe[i].member = m /\ (stripe[i].status = "succeeded" \/ i \in approved)

\* A completed pod owes nobody a payout: however completions interleave, each
\* decides on the others it has read, and only an admin takes a payout back.
CompletedMeansAllPaid ==
  podStatus = "completed" => \A m \in Members : paidOut[m] \/ m \in withdrawn

\* "Payout already in progress or completed for this membership."
\* (initiate-payout.handler.ts:81): one request at a time, and unless the
\* process died, the pool is not paid out twice to a member.
OnePayoutInProgress ==
  crashes = 0 =>
    \A i, j \in Intents :
      /\ stripe[i].status \in {"processing", "succeeded"}
      /\ stripe[j].status \in {"processing", "succeeded"}
      /\ stripe[i].member = stripe[j].member
      => i = j

\* The pod as its members see it.
Payout == INSTANCE PodPayout WITH
  People <- Members, paid <- {m \in Members : paidOut[m]}, completed <- podStatus = "completed"

\* A payout that has arrived shows in the end, although the trigger may not have
\* recorded it when the event comes, may fail because of it, or may be cut off.
PaidInTheEnd ==
  \A i \in Intents : \A m \in Members :
    stripe[i] = [status |-> "succeeded", member |-> m] ~> paidOut[m] \/ m \in withdrawn
=============================================================================
