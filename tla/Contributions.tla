--------------------------- MODULE Contributions ---------------------------
(***************************************************************************)
(* The contributions of one active pod whose members are still to be paid  *)
(* out: the daily debit run (contribution-debit.scheduler.ts), Stripe's    *)
(* webhook (internal-stripe-webhook.controller.ts), the clients'           *)
(* POST /payments, RecordPayment behind all three, and the reminder run    *)
(* (process-contribution-notifications.handler.ts).                        *)
(*                                                                         *)
(* They meet in the rows of the pod, its memberships and its payments.     *)
(* Each request works on the rows it loaded; a step below is the code      *)
(* between two round trips to the database or to Stripe.                   *)
(***************************************************************************)
EXTENDS PodCalendar, FiniteSets

CONSTANTS Members,      \* memberships with an account
          Intents,      \* ids of Stripe payment intents
          Webhooks,     \* deliveries of webhook events under way
          Posts,        \* POST /payments requests under way
          Debit,        \* the run of the debit timer
          Reminder,     \* the run of the reminder timer
          Nobody, NoIntent,
          cadence,      \* of the pod
          startDate,    \* of the pod, and its first nextContributionDate
          LastDay,      \* of a behaviour
          Concurrency,  \* bound on the requests under way at once
          Crashes       \* whether the process may die and restart

ASSUME ContributionsAssumption ==
  /\ IsFiniteSet(Members) /\ IsFiniteSet(Intents)
  /\ Nobody \notin Members /\ NoIntent \notin Intents
  /\ Webhooks \cap Posts = {} /\ Debit # Reminder
  /\ {Debit, Reminder} \cap (Webhooks \cup Posts) = {}
  /\ cadence \in Cadence
  /\ startDate \in Day /\ LastDay \in Day /\ startDate <= LastDay
  /\ Concurrency \in Nat /\ Crashes \in BOOLEAN

Requests == Webhooks \cup Posts \cup {Debit, Reminder}

VARIABLES day,     \* today
          next,    \* pod.nextContributionDate
          total,   \* membership.totalContributed, in contributions
          missed,  \* account.missedPaymentFlag
          ran,     \* the last day the debit timer fired
          stripe,  \* the payment intents
          pay,     \* table payments, by its unique stripeReference
          txns,    \* rows of table transactions with that stripeReference
          req      \* the requests under way

vars == <<day, next, total, missed, ran, stripe, pay, txns, req>>

NoPayment == [status |-> "none", day |-> 0]

NewIntent == [status |-> "none", member |-> Nobody, by |-> "none", day |-> 0]

Idle == [pc |-> "idle", member |-> Nobody, intent |-> NoIntent, now |-> startDate,
         next |-> startDate, total |-> 0, found |-> "none", queue |-> {}, dirty |-> FALSE]

Init ==
  /\ day = startDate
  /\ next = startDate
  /\ total = [m \in Members |-> 0]
  /\ missed = [m \in Members |-> FALSE]
  /\ ran = startDate - 1
  /\ stripe = [i \in Intents |-> NewIntent]
  /\ pay = [i \in Intents |-> NoPayment]
  /\ txns = [i \in Intents |-> 0]
  /\ req = [r \in Requests |-> Idle]

Busy == {r \in Requests : req[r].pc # "idle"}

\* A request that is not under way may begin.
CanStart(r) == req[r].pc = "idle" /\ Cardinality(Busy) < Concurrency

\* pod.nextContributionDate after the window of `current'.
Advanced(current) == nextContributionWindowStart(current, cadence)

\* isSuccessfulPaymentStatus of a payment row created on one of `days'.
PaidOn(m, days) ==
  \E i \in Intents : stripe[i].member = m /\ pay[i].status = "succeeded" /\ pay[i].day \in days

\* Mutant: like the look for a success, it only regards today.
MutPendingOfToday(m) ==
  \E i \in Intents :
    stripe[i].member = m /\ pay[i].status = "processing" /\ pay[i].day = day

Pending(m) == \E i \in Intents : stripe[i].member = m /\ pay[i].status = "processing"

(***************************************************************************)
(* The debit run                                                           *)
(***************************************************************************)
\* The timer fires at 10:00 UTC and the next run is only scheduled when the
\* run is over.  All memberships are loaded, and with them the pod.
StartDebit ==
  /\ CanStart(Debit)
  /\ ran < day
  /\ ran' = day
  /\ req' = [req EXCEPT ![Debit] =
       [Idle EXCEPT !.pc = "pick", !.now = day, !.next = next, !.queue = Members]]
  /\ UNCHANGED <<day, next, total, missed, stripe, pay, txns>>

\* The contribution is collected on the very day nextContributionDate names.
DueOn(date, today) == date = today /\ isWithinContributionWindow(date, cadence)

\* The loop goes on with the next membership.
NextMember(q) ==
  [Idle EXCEPT !.pc = "pick", !.now = q.now, !.next = q.next, !.queue = q.queue]

Pick ==
  LET q == req[Debit]
  IN  /\ q.pc = "pick"
      /\ IF q.queue = {}
         THEN req' = [req EXCEPT ![Debit] = Idle]
         ELSE \E m \in q.queue :
                req' = [req EXCEPT ![Debit] =
                  IF DueOn(q.next, q.now) /\ ~PaidOn(m, {q.now}) /\ ~Pending(m)
                  THEN [q EXCEPT !.pc = "charge", !.member = m, !.queue = @ \ {m}]
                  ELSE [q EXCEPT !.queue = @ \ {m}]]
      /\ UNCHANGED <<day, next, total, missed, ran, stripe, pay, txns>>

\* What chargeMembership does with Stripe's answer.
AnswerOf(status) ==
  IF status = "succeeded" THEN "record"
  ELSE IF status = "processing" THEN "pending" ELSE "flag"

\* paymentIntents.create.  "refused": the call, or the look-up of the payment
\* method before it, failed without an intent.
Charge ==
  /\ req[Debit].pc = "charge"
  /\ \E i \in Intents, s \in {"processing", "succeeded", "failed", "refused"} :
       /\ stripe[i] = NewIntent
       /\ stripe' = [stripe EXCEPT ![i] = [status |-> s, member |-> req[Debit].member,
                                           by |-> "debit", day |-> day]]
       /\ req' = [req EXCEPT ![Debit] = [@ EXCEPT !.pc = AnswerOf(s), !.intent = i]]
  /\ UNCHANGED <<day, next, total, missed, ran, pay, txns>>

\* A bound of the model: with every id of Intents in use the run is dropped.
IntentsExhausted ==
  /\ req[Debit].pc = "charge"
  /\ \A i \in Intents : stripe[i] # NewIntent
  /\ req' = [req EXCEPT ![Debit] = Idle]
  /\ UNCHANGED <<day, next, total, missed, ran, stripe, pay, txns>>

\* recordPendingPayment looks for a row of the intent ...
FindPending ==
  /\ req[Debit].pc = "pending"
  /\ req' = [req EXCEPT ![Debit] = [@ EXCEPT !.pc = "hold", !.found = pay[req[Debit].intent].status]]
  /\ UNCHANGED <<day, next, total, missed, ran, stripe, pay, txns>>

\* ... and gives it, or a new row, the status the intent was created with.  The
\* insert fails on the unique key if another request has inserted meanwhile.
recordPendingPayment ==
  LET q == req[Debit]
      i == q.intent
      taken == q.found = "none" /\ pay[i] # NoPayment
  IN  /\ q.pc = "hold"
      /\ pay' = IF taken THEN pay
                ELSE [pay EXCEPT ![i] = [status |-> "processing",
                                         day |-> IF @ = NoPayment THEN day ELSE @.day]]
      /\ req' = [req EXCEPT ![Debit] =
           IF taken THEN [@ EXCEPT !.pc = "flag"] ELSE NextMember(@)]
      /\ UNCHANGED <<day, next, total, missed, ran, stripe, txns>>

\* Any failure flags the account.  The flush also writes what a RecordPayment
\* that failed at its own flush left changed in the EntityManager.
FlagMissed ==
  LET q == req[Debit]
  IN  /\ q.pc = "flag"
      /\ missed' = [missed EXCEPT ![q.member] = TRUE]
      /\ total' = IF q.dirty THEN [total EXCEPT ![q.member] = q.total + 1] ELSE total
      /\ req' = [req EXCEPT ![Debit] = NextMember(@)]
      /\ UNCHANGED <<day, next, ran, stripe, pay, txns>>

(***************************************************************************)
(* Requests from outside that record a payment                             *)
(***************************************************************************)
Final == {"succeeded", "failed"}

\* handlePaymentIntent: amount_received is zero unless the intent succeeded.
WebhookBranch(status) == IF status = "succeeded" THEN "record" ELSE "fail"

\* An event of an intent that reached a final status is delivered, for the
\* first time or again; the membership and the pod are loaded.
StartWebhook(r, i) ==
  /\ CanStart(r)
  /\ stripe[i].status \in Final
  /\ req' = [req EXCEPT ![r] =
       [Idle EXCEPT !.pc = WebhookBranch(stripe[i].status), !.now = day, !.next = next,
                    !.member = stripe[i].member, !.intent = i]]
  /\ UNCHANGED <<day, next, total, missed, ran, stripe, pay, txns>>

\* The account is flagged and the pod's next contribution is tomorrow.
WebhookFails(r) ==
  LET q == req[r]
      tomorrow == addDays(q.now, 1)
  IN  /\ q.pc = "fail"
      /\ missed' = [missed EXCEPT ![q.member] = TRUE]
      /\ next' = IF tomorrow = q.next THEN next ELSE tomorrow
      /\ req' = [req EXCEPT ![r] = Idle]
      /\ UNCHANGED <<day, total, ran, stripe, pay, txns>>

\* A member reports an intent of their own, whatever Stripe says of it.
StartPost(r, i) ==
  /\ CanStart(r)
  /\ stripe[i].by = "member"
  /\ req' = [req EXCEPT ![r] =
       [Idle EXCEPT !.pc = "record", !.now = day, !.member = stripe[i].member, !.intent = i]]
  /\ UNCHANGED <<day, next, total, missed, ran, stripe, pay, txns>>

(***************************************************************************)
(* RecordPayment                                                           *)
(***************************************************************************)
\* Where a request goes when RecordPayment throws.
Rejected(r, dirty) ==
  IF r = Debit THEN [req[r] EXCEPT !.pc = "flag", !.dirty = dirty] ELSE Idle

\* Mutant: no look for an earlier record.
MutNeverRecorded(status) == FALSE

\* Mutant: a pending payment counts as recorded.
MutPendingIsRecorded(status) == status # "none"

\* "Payment already recorded for this Stripe reference."
AlreadyRecorded(status) == status \notin {"none", "processing"}

FindPayment(r) ==
  LET found == pay[req[r].intent].status
  IN  /\ req[r].pc = "record"
      /\ req' = [req EXCEPT ![r] =
           IF AlreadyRecorded(found) THEN Rejected(r, FALSE)
           ELSE [@ EXCEPT !.pc = "verify", !.found = found]]
      /\ UNCHANGED <<day, next, total, missed, ran, stripe, pay, txns>>

\* Mutant: any intent Stripe knows of will do.
MutVerifiedIfCreated(i) == stripe[i].status # "none"

\* verifyStripePayment: the amount received is the pod's amount.
Verified(i) == stripe[i].status = "succeeded"

\* The membership is read, then the intent is verified.
FindMembership(r) ==
  LET q == req[r]
  IN  /\ q.pc = "verify"
      /\ req' = [req EXCEPT ![r] =
           IF Verified(q.intent)
           THEN [@ EXCEPT !.pc = "store", !.total = total[q.member]]
           ELSE Rejected(r, FALSE)]
      /\ UNCHANGED <<day, next, total, missed, ran, stripe, pay, txns>>

\* Mutant: the contribution is subtracted.
MutDebited(q) == q.total - 1

\* The total the membership is given.
Credited(q) == q.total + 1

\* One flush: payment, transaction and total.  The insert of a payment that
\* another request has inserted meanwhile fails on its unique key.
Store(r) ==
  LET q == req[r]
      i == q.intent
  IN  /\ q.pc = "store"
      /\ IF q.found = "none" /\ pay[i] # NoPayment
         THEN /\ req' = [req EXCEPT ![r] = Rejected(r, TRUE)]
              /\ UNCHANGED <<total, pay, txns>>
         ELSE /\ pay' = [pay EXCEPT ![i] =
                   [status |-> "succeeded", day |-> IF @ = NoPayment THEN day ELSE @.day]]
              /\ txns' = [txns EXCEPT ![i] = @ + 1]
              /\ total' = [total EXCEPT ![q.member] = Credited(q)]
              /\ req' = [req EXCEPT ![r] =
                   IF r \in Posts THEN Idle ELSE [@ EXCEPT !.pc = "award"]]
      /\ UNCHANGED <<day, next, missed, ran, stripe>>

\* The achievements query reads the payments with their pods again.
Award(r) ==
  /\ req[r].pc = "award"
  /\ req' = [req EXCEPT ![r] = [@ EXCEPT !.pc = "advance", !.next = next]]
  /\ UNCHANGED <<day, next, total, missed, ran, stripe, pay, txns>>

\* RecordPayment advances the pod in memory (a POST never flushes it); its
\* caller, the debit run or the webhook, advances it once more and flushes.
advanceNextContributionDate(r) ==
  LET after == Advanced(Advanced(req[r].next))
  IN  /\ req[r].pc = "advance"
      /\ next' = IF after = req[r].next THEN next ELSE after
      /\ req' = [req EXCEPT ![r] =
           IF r = Debit THEN NextMember([@ EXCEPT !.next = after]) ELSE Idle]
      /\ UNCHANGED <<day, total, missed, ran, stripe, pay, txns>>

(***************************************************************************)
(* The reminder run, every six hours                                       *)
(***************************************************************************)
WindowDays(today) ==
  LET first == resolveContributionWindowStart(today, cadence)
  IN  first .. addDays(first, 2)

\* Members and the payments of the window are read.  The pod is moved to today
\* if a member has not paid and its date has passed.
StartReminder ==
  /\ CanStart(Reminder)
  /\ isWithinContributionWindow(day, cadence)
  /\ startDate <= resolveContributionWindowStart(day, cadence)
  /\ next < day
  /\ \E m \in Members : ~PaidOn(m, WindowDays(day))
  /\ req' = [req EXCEPT ![Reminder] = [Idle EXCEPT !.pc = "remind", !.now = day]]
  /\ UNCHANGED <<day, next, total, missed, ran, stripe, pay, txns>>

Remind ==
  /\ req[Reminder].pc = "remind"
  /\ next' = req[Reminder].now
  /\ req' = [req EXCEPT ![Reminder] = Idle]
  /\ UNCHANGED <<day, total, missed, ran, stripe, pay, txns>>

(***************************************************************************)
(* Environment                                                             *)
(***************************************************************************)
\* A member pays with an intent of their own, which Stripe settles sooner or
\* later.
MemberPays(m) ==
  /\ \E i \in Intents :
       /\ stripe[i] = NewIntent
       /\ stripe' = [stripe EXCEPT ![i] =
            [status |-> "processing", member |-> m, by |-> "member", day |-> day]]
  /\ UNCHANGED <<day, next, total, missed, ran, pay, txns, req>>

\* The bank clears or returns a debit.
Settle(i) ==
  /\ stripe[i].status = "processing"
  /\ \E s \in Final : stripe' = [stripe EXCEPT ![i].status = s]
  /\ UNCHANGED <<day, next, total, missed, ran, pay, txns, req>>

\* Midnight: the debit timer has fired, unless the process was down.
NextDay ==
  /\ day < LastDay
  /\ ran = day \/ Crashes
  /\ \A r \in Busy : req[r].now = day
  /\ day' = day + 1
  /\ UNCHANGED <<next, total, missed, ran, stripe, pay, txns, req>>

\* The process dies; so do, more often, single requests whose flush fails.
Crash ==
  /\ Crashes
  /\ Busy # {}
  /\ req' = [r \in Requests |-> Idle]
  /\ UNCHANGED <<day, next, total, missed, ran, stripe, pay, txns>>

Recording(r) ==
  FindPayment(r) \/ FindMembership(r) \/ Store(r) \/ Award(r) \/ advanceNextContributionDate(r)

Debiting == Pick \/ Charge \/ IntentsExhausted \/ FindPending \/ recordPendingPayment \/ FlagMissed

\* A step of the process while it is up.
Working ==
  \/ StartDebit \/ Debiting
  \/ StartReminder \/ Remind
  \/ \E r \in Webhooks, i \in Intents : StartWebhook(r, i)
  \/ \E r \in Webhooks : WebhookFails(r)
  \/ \E r \in Posts, i \in Intents : StartPost(r, i)
  \/ \E r \in Requests : Recording(r)
  \/ \E m \in Members : MemberPays(m)
  \/ \E i \in Intents : Settle(i)
  \/ NextDay

Next == Working \/ Crash

Spec == Init /\ [][Next]_vars

\* Every request that has begun is carried through, and Stripe delivers the
\* event of a succeeded intent until it is answered with success, which the
\* webhook does only once the payment is recorded. The process stays up.
Fairness ==
  /\ \A r \in Requests : WF_vars(Recording(r))
  /\ \A r \in Webhooks : WF_vars(WebhookFails(r))
  /\ WF_vars(Debiting) /\ WF_vars(Remind)
  /\ \A i \in Intents : SF_vars(\E r \in Webhooks :
                              pay[i].status # "succeeded" /\ StartWebhook(r, i))

FairSpec == Init /\ [][Working]_vars /\ Fairness

-----------------------------------------------------------------------------
(***************************************************************************)
(* Properties                                                              *)
(***************************************************************************)
Pc == {"idle", "pick", "charge", "pending", "hold", "flag", "record", "verify", "store",
       "award", "advance", "fail", "remind"}
PayStatus == {"none", "processing", "succeeded"}

TypeOK ==
  /\ day \in startDate..LastDay
  /\ next \in Int
  /\ total \in [Members -> Nat]
  /\ missed \in [Members -> BOOLEAN]
  /\ ran \in (startDate - 1) .. LastDay
  /\ stripe \in [Intents -> [status : {"none", "processing", "refused"} \cup Final,
                             member : Members \cup {Nobody},
                             by : {"none", "debit", "member"}, day : Int]]
  /\ pay \in [Intents -> [status : PayStatus, day : Int]]
  /\ txns \in [Intents -> Nat]
  /\ req \in [Requests -> [pc : Pc, member : Members \cup {Nobody},
                           intent : Intents \cup {NoIntent}, now : Int, next : Int,
                           total : Nat, found : PayStatus, queue : SUBSET Members,
                           dirty : BOOLEAN]]

\* The money is there: whoever reports a payment and whatever status they claim,
\* the tables only ever show as paid what Stripe has collected.
PaidMeansCollected ==
  \A i \in Intents :
    pay[i].status = "succeeded" \/ txns[i] > 0 => stripe[i].status = "succeeded"

\* However long the bank takes and whatever else records payments meanwhile, the
\* debit run never has two debits of one member in flight.
OneDebitInFlight ==
  \A i, j \in Intents :
    /\ stripe[i].by = "debit" /\ stripe[i].status = "processing"
    /\ stripe[j].by = "debit" /\ stripe[j].status = "processing"
    /\ stripe[i].member = stripe[j].member
    => i = j

\* "Total amount contributed by the member so far." (swagger.json:1872).
TotalIsSumOfPayments ==
  \A m \in Members :
    total[m] = Cardinality({i \in Intents : stripe[i].member = m /\ pay[i].status = "succeeded"})

\* Payments, transactions and totals tell the same story: a reference is booked
\* at most once ("Payment already recorded for this Stripe reference.",
\* record-payment.handler.ts:60) and counted once.
LedgerAgrees ==
  /\ \A i \in Intents : txns[i] = IF pay[i].status = "succeeded" THEN 1 ELSE 0
  /\ TotalIsSumOfPayments

\* "We couldn't process your contribution" (mail.service.ts:678): an account is
\* only flagged if one of its payments did fail.
MissedMeansFailed ==
  \A m \in Members :
    missed[m] => \E i \in Intents :
                   stripe[i].member = m /\ stripe[i].status \in {"failed", "refused"}

IntentsLeft == \E i \in Intents : stripe[i] = NewIntent

\* "Contribution amount each member must pay per cycle." (swagger.json:1931): the
\* debit run charges nobody whose payment of this window is recorded (in
\* behaviours that have not run out of intents).
OnceAWindow ==
  req[Debit].pc = "charge" /\ IntentsLeft => ~PaidOn(req[Debit].member, WindowDays(req[Debit].now))

\* "Koajo auto drafts on the 1st and 16th."
\* (in-app-notification.messages.ts:13): when a window closes, every member has
\* been charged in it (in behaviours that have not run out of intents).
EveryoneDrafted ==
  [][/\ day' # day
     /\ isWithinContributionWindow(day, cadence) /\ ~isWithinContributionWindow(day', cadence)
     /\ IntentsLeft
     => \A m \in Members : \E i \in Intents :
          stripe[i].member = m /\ stripe[i].day \in WindowDays(day)]_vars

\* A debit that Stripe has collected is recorded in the end, although the
\* request that made it may fail and events may come early, late or twice.
CollectedIsRecorded ==
  \A i \in Intents :
    stripe[i].by = "debit" /\ stripe[i].status = "succeeded" ~> pay[i].status = "succeeded"
=============================================================================
