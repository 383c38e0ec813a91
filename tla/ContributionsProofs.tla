------------------------ MODULE ContributionsProofs ------------------------
(***************************************************************************)
(* What holds of the contributions of a pod for any number of members,     *)
(* intents and requests, any number of them under way at once: nothing is  *)
(* shown as paid that Stripe has not collected, and, as long as the        *)
(* process does not die, no member has two debits in flight.  And for      *)
(* requests that come one at a time: payments, transactions and totals     *)
(* agree, and nobody is flagged without a failed debit.                    *)
(***************************************************************************)
EXTENDS ContributionsWatched, FiniteSetTheorems, TLAPS

\* The shape of the variables, as far as the arguments below need it.
Fields == {"pc", "member", "intent", "now", "next", "total", "found", "queue", "dirty"}
IsIntent(x) ==
  /\ DOMAIN x = {"status", "member", "by", "day"}
  /\ x.status \in {"none", "processing", "refused"} \cup Final
PaymentRows == [status : PayStatus, day : Int]

\* A request that is about to record a payment has an intent.
IsRequest(q) ==
  /\ DOMAIN q = Fields
  /\ q.pc \in Pc
  /\ q.pc \in {"record", "verify", "store", "pending", "hold"} => q.intent \in Intents

Shape ==
  /\ day \in Int
  /\ DOMAIN stripe = Intents
  /\ \A i \in Intents : IsIntent(stripe[i])
  /\ pay \in [Intents -> PaymentRows]
  /\ txns \in [Intents -> Nat]
  /\ DOMAIN req = Requests
  /\ \A r \in Requests : IsRequest(req[r])

\* Whoever is at the flush of RecordPayment holds an intent that Stripe has
\* collected, which is final.
StoresCollected ==
  \A r \in Requests : req[r].pc = "store" => stripe[req[r].intent].status = "succeeded"

IInv == Shape /\ PaidMeansCollected /\ StoresCollected

-----------------------------------------------------------------------------
LEMMA Idles == IsRequest(Idle) /\ Idle.pc = "idle"
  BY DEF IsRequest, Fields, Idle, Pc

LEMMA DebitIsARequest ==
  Debit \in Requests /\ Reminder \in Requests /\ Debit # Reminder
    /\ Debit \notin Webhooks \cup Posts /\ Reminder \notin Webhooks \cup Posts
  BY ContributionsAssumption DEF Requests

\* One request moves on, and the others stay where they are.
LEMMA OneMoves ==
  ASSUME DOMAIN req = Requests, NEW r \in Requests, NEW q,
         req' = [req EXCEPT ![r] = q]
  PROVE  /\ DOMAIN req' = Requests
         /\ req'[r] = q
         /\ \A s \in Requests \ {r} : req'[s] = req[s]
  OBVIOUS

\* A step that leaves Stripe and the tables alone keeps the invariant if the
\* request it moves is in order.
LEMMA QuietStep ==
  ASSUME IInv, NEW r \in Requests, NEW q, IsRequest(q),
         q.pc = "store" => stripe[q.intent].status = "succeeded",
         req' = [req EXCEPT ![r] = q],
         stripe' = stripe, pay' = pay, txns' = txns, day' \in Int
  PROVE  IInv'
<1>1. DOMAIN req' = Requests /\ req'[r] = q /\ \A s \in Requests \ {r} : req'[s] = req[s]
  BY OneMoves DEF IInv, Shape
<1>2. \A s \in Requests : IsRequest(req'[s])
  BY <1>1 DEF IInv, Shape
<1>3. Shape'
  BY <1>1, <1>2 DEF IInv, Shape, IsRequest
<1>4. PaidMeansCollected'
  BY DEF IInv, PaidMeansCollected
<1>5. StoresCollected'
  BY <1>1 DEF IInv, StoresCollected
<1>. QED
  BY <1>3, <1>4, <1>5 DEF IInv

-----------------------------------------------------------------------------
(***************************************************************************)
(* Paid means collected                                                    *)
(***************************************************************************)
LEMMA InitSound == ASSUME Init PROVE IInv
<1>1. startDate \in Int
  BY ContributionsAssumption DEF Day
<1>2. IsIntent(NewIntent) /\ NoPayment \in PaymentRows /\ NoPayment.status = "none"
  BY DEF NewIntent, IsIntent, NoPayment, PaymentRows, PayStatus
<1>3. Shape
  BY <1>1, <1>2, Idles DEF Init, Shape
<1>4. PaidMeansCollected
  BY <1>2 DEF Init, PaidMeansCollected
<1>5. StoresCollected
  BY Idles DEF Init, StoresCollected
<1>. QED
  BY <1>3, <1>4, <1>5 DEF IInv

LEMMA StartDebitSound == ASSUME IInv, StartDebit PROVE IInv'
<1>. DEFINE q == [Idle EXCEPT !.pc = "pick", !.now = day, !.next = next, !.queue = Members]
<1>1. IsRequest(q) /\ q.pc = "pick"
  BY DEF IsRequest, Fields, Idle, Pc
<1>2. req' = [req EXCEPT ![Debit] = q] /\ UNCHANGED <<stripe, pay, txns, day>>
  BY DEF StartDebit
<1>3. day' \in Int
  BY <1>2 DEF IInv, Shape
<1>. HIDE DEF q
<1>. QED
  BY <1>1, <1>2, <1>3, QuietStep, DebitIsARequest

\* The next membership is as fresh a start as an idle request.
LEMMA NextMemberFacts ==
  ASSUME NEW q PROVE IsRequest(NextMember(q)) /\ NextMember(q).pc = "pick"
  BY DEF IsRequest, Fields, Idle, Pc, NextMember

LEMMA PickSound == ASSUME IInv, Pick PROVE IInv'
<1>1. UNCHANGED <<stripe, pay, txns, day>> /\ req[Debit].pc = "pick" /\ day' \in Int
  BY DEF Pick, IInv, Shape
<1>2. CASE req[Debit].queue = {}
  <2>1. req' = [req EXCEPT ![Debit] = Idle]
    BY <1>2 DEF Pick
  <2>. QED
    BY <1>1, <2>1, Idles, QuietStep, DebitIsARequest
<1>3. CASE req[Debit].queue # {}
  <2>0. IsRequest(req[Debit])
    BY DebitIsARequest DEF IInv, Shape
  <2>1. PICK m \in req[Debit].queue :
          req' = [req EXCEPT ![Debit] =
            IF /\ DueOn(req[Debit].next, req[Debit].now)
               /\ ~PaidOn(m, {req[Debit].now}) /\ ~Pending(m)
            THEN [req[Debit] EXCEPT !.pc = "charge", !.member = m, !.queue = @ \ {m}]
            ELSE [req[Debit] EXCEPT !.queue = @ \ {m}]]
    BY <1>3 DEF Pick
  <2>. DEFINE q1 == [req[Debit] EXCEPT !.pc = "charge", !.member = m, !.queue = @ \ {m}]
              q2 == [req[Debit] EXCEPT !.queue = @ \ {m}]
  <2>2. IsRequest(q1) /\ q1.pc = "charge"
    BY <2>0 DEF IsRequest, Fields, Pc
  <2>3. IsRequest(q2) /\ q2.pc = "pick"
    BY <2>0, <1>1 DEF IsRequest, Fields, Pc
  <2>. DEFINE due == /\ DueOn(req[Debit].next, req[Debit].now)
                     /\ ~PaidOn(m, {req[Debit].now}) /\ ~Pending(m)
  <2>4. req' = [req EXCEPT ![Debit] = IF due THEN q1 ELSE q2]
    BY <2>1 DEF due, q1, q2
  <2>. HIDE DEF due
  <2>. HIDE DEF q1, q2
  <2>. QED
    BY <1>1, <2>2, <2>3, <2>4, QuietStep, DebitIsARequest
<1>. QED
  BY <1>2, <1>3

LEMMA ChargeSound == ASSUME IInv, Charge PROVE IInv'
<1>0. IsRequest(req[Debit]) /\ req[Debit].pc = "charge" /\ day \in Int
  BY DebitIsARequest DEF IInv, Shape, Charge
<1>1. PICK i \in Intents, s \in {"processing", "succeeded", "failed", "refused"} :
        /\ stripe[i] = NewIntent
        /\ stripe' = [stripe EXCEPT ![i] = [status |-> s, member |-> req[Debit].member,
                                            by |-> "debit", day |-> day]]
        /\ req' = [req EXCEPT ![Debit] = [@ EXCEPT !.pc = AnswerOf(s), !.intent = i]]
  BY DEF Charge
<1>. DEFINE q == [req[Debit] EXCEPT !.pc = AnswerOf(s), !.intent = i]
<1>2. IsRequest(q) /\ q.pc # "store" /\ q.intent = i
  BY <1>0 DEF IsRequest, Fields, Pc, AnswerOf
<1>3. DOMAIN req' = Requests /\ req'[Debit] = q
        /\ \A r \in Requests \ {Debit} : req'[r] = req[r]
  BY <1>1, OneMoves, DebitIsARequest DEF IInv, Shape
<1>. HIDE DEF q
<1>4. UNCHANGED <<pay, txns, day>>
  BY DEF Charge
<1>5. stripe[i].status = "none" /\ stripe'[i].status = s
        /\ \A j \in Intents \ {i} : stripe'[j] = stripe[j]
  BY <1>1 DEF NewIntent, IInv, Shape
<1>6. DOMAIN stripe' = Intents /\ IsIntent(stripe'[i])
  BY <1>1 DEF IInv, Shape, IsIntent, Final
<1>7. Shape'
  BY <1>2, <1>3, <1>4, <1>5, <1>6 DEF IInv, Shape, IsIntent, IsRequest
<1>8. PaidMeansCollected'
  BY <1>4, <1>5 DEF IInv, PaidMeansCollected
<1>9. StoresCollected'
  BY <1>2, <1>3, <1>5 DEF IInv, StoresCollected, Shape, IsRequest
<1>. QED
  BY <1>7, <1>8, <1>9 DEF IInv

LEMMA IntentsExhaustedSound == ASSUME IInv, IntentsExhausted PROVE IInv'
  BY Idles, QuietStep, DebitIsARequest DEF IntentsExhausted, IInv, Shape

LEMMA FindPendingSound == ASSUME IInv, FindPending PROVE IInv'
<1>. DEFINE q == [req[Debit] EXCEPT !.pc = "hold", !.found = pay[req[Debit].intent].status]
<1>1. IsRequest(req[Debit]) /\ req[Debit].pc = "pending"
  BY DebitIsARequest DEF IInv, Shape, FindPending
<1>2. IsRequest(q) /\ q.pc = "hold"
  BY <1>1 DEF IsRequest, Fields, Pc
<1>3. req' = [req EXCEPT ![Debit] = q] /\ UNCHANGED <<stripe, pay, txns, day>>
  BY DEF FindPending
<1>4. day' \in Int
  BY <1>3 DEF IInv, Shape
<1>. HIDE DEF q
<1>. QED
  BY <1>2, <1>3, <1>4, QuietStep, DebitIsARequest

\* A row of table payments changes, to "processing" or to what was collected.
LEMMA PayStep ==
  ASSUME IInv, NEW r \in Requests, NEW q, IsRequest(q), q.pc # "store",
         req' = [req EXCEPT ![r] = q], NEW i \in Intents, NEW row \in PaymentRows,
         pay' = [pay EXCEPT ![i] = row], txns' \in [Intents -> Nat],
         \A j \in Intents \ {i} : txns'[j] = txns[j],
         \/ row.status # "succeeded" /\ txns' = txns
         \/ stripe[i].status = "succeeded",
         stripe' = stripe, day' \in Int
  PROVE  IInv'
<1>1. DOMAIN req' = Requests /\ req'[r] = q /\ \A s \in Requests \ {r} : req'[s] = req[s]
  BY OneMoves DEF IInv, Shape
<1>2. \A s \in Requests : IsRequest(req'[s])
  BY <1>1 DEF IInv, Shape
<1>3. pay'[i] = row /\ \A j \in Intents \ {i} : pay'[j] = pay[j]
  BY DEF IInv, Shape
<1>4. Shape'
  BY <1>1, <1>2 DEF IInv, Shape, IsRequest, IsIntent
<1>5. PaidMeansCollected'
  BY <1>3 DEF IInv, PaidMeansCollected
<1>6. StoresCollected'
  BY <1>1 DEF IInv, StoresCollected
<1>. QED
  BY <1>4, <1>5, <1>6 DEF IInv

LEMMA PendingSound == ASSUME IInv, recordPendingPayment PROVE IInv'
<1>. DEFINE i == req[Debit].intent
            taken == req[Debit].found = "none" /\ pay[i] # NoPayment
            q == [req[Debit] EXCEPT !.pc = "flag"]
            row == [status |-> "processing", day |-> IF pay[i] = NoPayment THEN day ELSE pay[i].day]
<1>1. IsRequest(req[Debit]) /\ req[Debit].pc = "hold" /\ i \in Intents /\ day \in Int
  BY DebitIsARequest DEF IInv, Shape, recordPendingPayment, IsRequest
<1>2. UNCHANGED <<stripe, txns, day>>
  BY DEF recordPendingPayment
<1>3. CASE taken
  <2>1. IsRequest(q) /\ q.pc = "flag"
    BY <1>1 DEF IsRequest, Fields, Pc
  <2>2. req' = [req EXCEPT ![Debit] = q] /\ pay' = pay
    BY <1>3 DEF recordPendingPayment
  <2>. HIDE DEF q
  <2>. QED
    BY <1>1, <1>2, <2>1, <2>2, QuietStep, DebitIsARequest
<1>4. CASE ~taken
  <2>1. req' = [req EXCEPT ![Debit] = NextMember(req[Debit])]
    BY <1>4 DEF recordPendingPayment
  <2>2. pay' = [pay EXCEPT ![i] = row]
    BY <1>4 DEF recordPendingPayment
  <2>3. pay[i].day \in Int
    BY <1>1 DEF IInv, Shape, PaymentRows
  <2>4. row \in PaymentRows /\ row.status # "succeeded"
    BY <1>1, <2>3 DEF PaymentRows, PayStatus
  <2>5. txns \in [Intents -> Nat]
    BY DEF IInv, Shape
  <2>. HIDE DEF i, row
  <2>. QED
    BY <1>1, <1>2, <2>1, <2>2, <2>4, <2>5, NextMemberFacts, PayStep, DebitIsARequest
<1>. QED
  BY <1>3, <1>4

LEMMA FlagMissedSound == ASSUME IInv, FlagMissed PROVE IInv'
<1>1. req' = [req EXCEPT ![Debit] = NextMember(req[Debit])]
        /\ UNCHANGED <<stripe, pay, txns, day>>
  BY DEF FlagMissed
<1>2. day' \in Int
  BY <1>1 DEF IInv, Shape
<1>. QED
  BY <1>1, <1>2, NextMemberFacts, QuietStep, DebitIsARequest

LEMMA StartWebhookSound ==
  ASSUME IInv, NEW r \in Webhooks, NEW i \in Intents, StartWebhook(r, i) PROVE IInv'
<1>. DEFINE q == [Idle EXCEPT !.pc = WebhookBranch(stripe[i].status), !.now = day,
                              !.next = next, !.member = stripe[i].member, !.intent = i]
<1>1. IsRequest(q) /\ q.pc # "store"
  BY DEF IsRequest, Fields, Idle, Pc, WebhookBranch
<1>2. req' = [req EXCEPT ![r] = q] /\ UNCHANGED <<stripe, pay, txns, day>>
  BY DEF StartWebhook
<1>3. day' \in Int /\ r \in Requests
  BY <1>2 DEF IInv, Shape, Requests
<1>. HIDE DEF q
<1>. QED
  BY <1>1, <1>2, <1>3, QuietStep

LEMMA WebhookFailsSound == ASSUME IInv, NEW r \in Webhooks, WebhookFails(r) PROVE IInv'
<1>1. req' = [req EXCEPT ![r] = Idle] /\ UNCHANGED <<stripe, pay, txns, day>>
  BY DEF WebhookFails
<1>2. day' \in Int /\ r \in Requests
  BY <1>1 DEF IInv, Shape, Requests
<1>. QED
  BY <1>1, <1>2, Idles, QuietStep

LEMMA StartPostSound ==
  ASSUME IInv, NEW r \in Posts, NEW i \in Intents, StartPost(r, i) PROVE IInv'
<1>. DEFINE q == [Idle EXCEPT !.pc = "record", !.now = day, !.member = stripe[i].member,
                              !.intent = i]
<1>1. IsRequest(q) /\ q.pc # "store"
  BY DEF IsRequest, Fields, Idle, Pc
<1>2. req' = [req EXCEPT ![r] = q] /\ UNCHANGED <<stripe, pay, txns, day>>
  BY DEF StartPost
<1>3. day' \in Int /\ r \in Requests
  BY <1>2 DEF IInv, Shape, Requests
<1>. HIDE DEF q
<1>. QED
  BY <1>1, <1>2, <1>3, QuietStep

\* Wherever RecordPayment fails, its request is in order afterwards.
LEMMA RejectedFacts ==
  ASSUME NEW r \in Requests, IsRequest(req[r]), NEW d
  PROVE  IsRequest(Rejected(r, d)) /\ Rejected(r, d).pc \in {"idle", "flag"}
  BY Idles DEF Rejected, IsRequest, Fields, Pc

LEMMA FindPaymentSound == ASSUME IInv, NEW r \in Requests, FindPayment(r) PROVE IInv'
<1>. DEFINE found == pay[req[r].intent].status
            q == [req[r] EXCEPT !.pc = "verify", !.found = found]
<1>1. IsRequest(req[r]) /\ req[r].pc = "record"
  BY DEF IInv, Shape, FindPayment
<1>2. IsRequest(q) /\ q.pc = "verify"
  BY <1>1 DEF IsRequest, Fields, Pc
<1>3. UNCHANGED <<stripe, pay, txns, day>> /\ day' \in Int
  BY DEF FindPayment, IInv, Shape
<1>4. \/ req' = [req EXCEPT ![r] = q]
      \/ req' = [req EXCEPT ![r] = Rejected(r, FALSE)]
  BY DEF FindPayment
<1>. HIDE DEF q
<1>. QED
  BY <1>1, <1>2, <1>3, <1>4, RejectedFacts, QuietStep

LEMMA FindMembershipSound == ASSUME IInv, NEW r \in Requests, FindMembership(r) PROVE IInv'
<1>. DEFINE q == [req[r] EXCEPT !.pc = "store", !.total = total[req[r].member]]
<1>1. IsRequest(req[r]) /\ req[r].pc = "verify"
  BY DEF IInv, Shape, FindMembership
<1>2. IsRequest(q) /\ q.intent = req[r].intent
  BY <1>1 DEF IsRequest, Fields, Pc
<1>3. UNCHANGED <<stripe, pay, txns, day>> /\ day' \in Int
  BY DEF FindMembership, IInv, Shape
<1>4. \/ req' = [req EXCEPT ![r] = q] /\ stripe[req[r].intent].status = "succeeded"
      \/ req' = [req EXCEPT ![r] = Rejected(r, FALSE)]
  BY DEF FindMembership, Verified
<1>. HIDE DEF q
<1>. QED
  BY <1>1, <1>2, <1>3, <1>4, RejectedFacts, QuietStep

LEMMA StoreSound == ASSUME IInv, NEW r \in Requests, Store(r) PROVE IInv'
<1>. DEFINE i == req[r].intent
            taken == req[r].found = "none" /\ pay[i] # NoPayment
            q == [req[r] EXCEPT !.pc = "award"]
            row == [status |-> "succeeded", day |-> IF pay[i] = NoPayment THEN day ELSE pay[i].day]
<1>1. IsRequest(req[r]) /\ req[r].pc = "store" /\ i \in Intents /\ day \in Int
  BY DEF IInv, Shape, Store, IsRequest
<1>2. UNCHANGED <<stripe, day>> /\ stripe[i].status = "succeeded"
  BY DEF Store, IInv, StoresCollected
<1>3. CASE taken
  <2>1. req' = [req EXCEPT ![r] = Rejected(r, TRUE)] /\ UNCHANGED <<pay, txns>>
    BY <1>3 DEF Store
  <2>. QED
    BY <1>1, <1>2, <2>1, RejectedFacts, QuietStep
<1>4. CASE ~taken
  <2>1. req' = [req EXCEPT ![r] = Idle] \/ req' = [req EXCEPT ![r] = q]
    BY <1>4 DEF Store
  <2>2. pay' = [pay EXCEPT ![i] = row] /\ txns' = [txns EXCEPT ![i] = @ + 1]
    BY <1>4 DEF Store
  <2>3. pay[i].day \in Int
    BY <1>1 DEF IInv, Shape, PaymentRows
  <2>4. row \in PaymentRows
    BY <1>1, <2>3 DEF PaymentRows, PayStatus
  <2>5. txns' \in [Intents -> Nat] /\ \A j \in Intents \ {i} : txns'[j] = txns[j]
    BY <1>1, <2>2 DEF IInv, Shape
  <2>6. IsRequest(q) /\ q.pc = "award"
    BY <1>1 DEF IsRequest, Fields, Pc
  <2>. HIDE DEF i, row, q
  <2>. QED
    BY <1>1, <1>2, <2>1, <2>2, <2>4, <2>5, <2>6, Idles, PayStep
<1>. QED
  BY <1>3, <1>4

LEMMA AwardSound == ASSUME IInv, NEW r \in Requests, Award(r) PROVE IInv'
<1>. DEFINE q == [req[r] EXCEPT !.pc = "advance", !.next = next]
<1>1. IsRequest(req[r])
  BY DEF IInv, Shape
<1>2. IsRequest(q) /\ q.pc = "advance"
  BY <1>1 DEF IsRequest, Fields, Pc
<1>3. req' = [req EXCEPT ![r] = q] /\ UNCHANGED <<stripe, pay, txns, day>> /\ day' \in Int
  BY DEF Award, IInv, Shape
<1>. HIDE DEF q
<1>. QED
  BY <1>2, <1>3, QuietStep

LEMMA AdvanceSound ==
  ASSUME IInv, NEW r \in Requests, advanceNextContributionDate(r) PROVE IInv'
<1>. DEFINE after == Advanced(Advanced(req[r].next))
            q == NextMember([req[r] EXCEPT !.next = after])
<1>1. UNCHANGED <<stripe, pay, txns, day>> /\ day' \in Int
  BY DEF advanceNextContributionDate, IInv, Shape
<1>2. req' = [req EXCEPT ![r] = q] \/ req' = [req EXCEPT ![r] = Idle]
  BY DEF advanceNextContributionDate
<1>3. IsRequest(q) /\ q.pc = "pick"
  BY NextMemberFacts
<1>. HIDE DEF q
<1>. QED
  BY <1>1, <1>2, <1>3, Idles, QuietStep

LEMMA RemindersSound == ASSUME IInv, StartReminder \/ Remind PROVE IInv'
<1>. DEFINE q == [Idle EXCEPT !.pc = "remind", !.now = day]
<1>1. IsRequest(q) /\ q.pc = "remind"
  BY DEF IsRequest, Fields, Idle, Pc
<1>2. UNCHANGED <<stripe, pay, txns, day>> /\ day' \in Int
  BY DEF StartReminder, Remind, IInv, Shape
<1>3. req' = [req EXCEPT ![Reminder] = q] \/ req' = [req EXCEPT ![Reminder] = Idle]
  BY DEF StartReminder, Remind
<1>. HIDE DEF q
<1>. QED
  BY <1>1, <1>2, <1>3, Idles, DebitIsARequest, QuietStep

\* Stripe changes one intent that has not succeeded; nothing else does.
LEMMA StripeStep ==
  ASSUME IInv, NEW i \in Intents, stripe[i].status # "succeeded", NEW x, IsIntent(x),
         stripe' = [stripe EXCEPT ![i] = x], UNCHANGED <<pay, txns, req, day>>
  PROVE  IInv'
<1>1. stripe'[i] = x /\ DOMAIN stripe' = Intents
        /\ \A j \in Intents \ {i} : stripe'[j] = stripe[j]
  BY DEF IInv, Shape
<1>2. Shape'
  BY <1>1 DEF IInv, Shape, IsIntent, IsRequest
<1>3. PaidMeansCollected'
  BY <1>1 DEF IInv, PaidMeansCollected
<1>4. StoresCollected'
  <2>. SUFFICES ASSUME NEW r \in Requests, req[r].pc = "store"
                PROVE  stripe'[req[r].intent].status = "succeeded"
    BY DEF StoresCollected
  <2>1. req[r].intent \in Intents /\ stripe[req[r].intent].status = "succeeded"
    BY DEF IInv, StoresCollected, Shape, IsRequest
  <2>. QED
    BY <1>1, <2>1
<1>. QED
  BY <1>2, <1>3, <1>4 DEF IInv

LEMMA MemberPaysSound == ASSUME IInv, NEW m \in Members, MemberPays(m) PROVE IInv'
<1>1. PICK i \in Intents :
        /\ stripe[i] = NewIntent
        /\ stripe' = [stripe EXCEPT ![i] =
             [status |-> "processing", member |-> m, by |-> "member", day |-> day]]
  BY DEF MemberPays
<1>2. IsIntent([status |-> "processing", member |-> m, by |-> "member", day |-> day])
  BY DEF IsIntent
<1>3. stripe[i].status # "succeeded" /\ UNCHANGED <<pay, txns, req, day>>
  BY <1>1 DEF NewIntent, MemberPays
<1>. QED
  BY <1>1, <1>2, <1>3, StripeStep

LEMMA SettleSound == ASSUME IInv, NEW i \in Intents, Settle(i) PROVE IInv'
<1>1. PICK s \in Final : stripe' = [stripe EXCEPT ![i].status = s]
  BY DEF Settle
<1>. DEFINE x == [stripe[i] EXCEPT !.status = s]
<1>2. IsIntent(x)
  BY DEF IInv, Shape, IsIntent
<1>3. stripe' = [stripe EXCEPT ![i] = x]
  BY <1>1
<1>4. stripe[i].status # "succeeded" /\ UNCHANGED <<pay, txns, req, day>>
  BY DEF Settle
<1>. HIDE DEF x
<1>. QED
  BY <1>2, <1>3, <1>4, StripeStep

LEMMA NextDaySound == ASSUME IInv, NextDay PROVE IInv'
  BY DEF IInv, NextDay, Shape, PaidMeansCollected, StoresCollected, IsIntent, IsRequest

LEMMA CrashSound == ASSUME IInv, Crash PROVE IInv'
<1>1. UNCHANGED <<stripe, pay, txns, day>> /\ req' = [r \in Requests |-> Idle]
  BY DEF Crash
<1>2. Shape'
  BY <1>1, Idles DEF IInv, Shape, IsIntent, IsRequest
<1>3. PaidMeansCollected' /\ StoresCollected'
  BY <1>1, Idles DEF IInv, PaidMeansCollected, StoresCollected
<1>. QED
  BY <1>2, <1>3 DEF IInv

LEMMA StutterSound == ASSUME IInv, UNCHANGED vars PROVE IInv'
  BY DEF IInv, vars, Shape, PaidMeansCollected, StoresCollected, IsIntent, IsRequest

LEMMA StepSound == ASSUME IInv, [Next]_vars PROVE IInv'
<1>1. CASE StartDebit \/ Debiting
  BY <1>1, StartDebitSound, PickSound, ChargeSound, IntentsExhaustedSound, FindPendingSound,
     PendingSound, FlagMissedSound DEF Debiting
<1>2. CASE StartReminder \/ Remind
  BY <1>2, RemindersSound
<1>3. CASE \/ \E r \in Webhooks, i \in Intents : StartWebhook(r, i)
           \/ \E r \in Webhooks : WebhookFails(r)
           \/ \E r \in Posts, i \in Intents : StartPost(r, i)
  BY <1>3, StartWebhookSound, WebhookFailsSound, StartPostSound
<1>4. CASE \E r \in Requests : Recording(r)
  BY <1>4, FindPaymentSound, FindMembershipSound, StoreSound, AwardSound, AdvanceSound
     DEF Recording
<1>5. CASE (\E m \in Members : MemberPays(m)) \/ (\E i \in Intents : Settle(i))
  BY <1>5, MemberPaysSound, SettleSound
<1>6. CASE NextDay \/ Crash
  BY <1>6, NextDaySound, CrashSound
<1>7. CASE UNCHANGED vars
  BY <1>7, StutterSound
<1>. QED
  BY <1>1, <1>2, <1>3, <1>4, <1>5, <1>6, <1>7 DEF Next, Working

\* The tables only show as paid what Stripe has collected, whoever reports it.
THEOREM PaidIsCollected == Spec => []PaidMeansCollected
<1>1. IInv => PaidMeansCollected
  BY DEF IInv
<1>. QED
  BY InitSound, StepSound, <1>1, PTL DEF Spec

-----------------------------------------------------------------------------
(***************************************************************************)
(* One debit in flight                                                     *)
(***************************************************************************)
\* A debit of the timer that the bank has not settled.
InFlight(i) == stripe[i].by = "debit" /\ stripe[i].status = "processing"

\* Each debit in flight is on record as pending, or just about to be.
Watched ==
  \A i \in Intents : InFlight(i) =>
    \/ pay[i].status = "processing"
    \/ req[Debit].pc \in {"pending", "hold"} /\ req[Debit].intent = i

\* A member about to be charged has no debit in flight.
Cleared ==
  req[Debit].pc = "charge" =>
    \A i \in Intents : InFlight(i) => stripe[i].member # req[Debit].member

\* Every row of table payments has a status.
RowsHaveStatus == \A i \in Intents : pay[i].status = "none" => pay[i] = NoPayment

DInv == IInv /\ Watched /\ Cleared /\ RowsHaveStatus /\ OneDebitInFlight

LEMMA InitWatched == ASSUME Init PROVE DInv
<1>1. NewIntent.status = "none"
  BY DEF NewIntent
<1>2. \A i \in Intents : ~InFlight(i)
  BY <1>1 DEF Init, InFlight
<1>3. OneDebitInFlight
  BY <1>1 DEF Init, OneDebitInFlight
<1>4. Watched /\ Cleared /\ RowsHaveStatus
  BY <1>2 DEF Init, Watched, Cleared, RowsHaveStatus
<1>. QED
  BY <1>3, <1>4, InitSound DEF DInv

\* Steps of anyone but the debit run.
LEMMA OthersStep ==
  ASSUME DInv, IInv', stripe' = stripe, pay' = pay, req'[Debit] = req[Debit]
  PROVE  DInv'
<1>1. \A i \in Intents : InFlight(i)' <=> InFlight(i)
  BY DEF InFlight
<1>2. Watched' /\ Cleared' /\ RowsHaveStatus'
  BY <1>1 DEF DInv, Watched, Cleared, RowsHaveStatus
<1>3. OneDebitInFlight'
  BY DEF DInv, OneDebitInFlight
<1>. QED
  BY <1>2, <1>3 DEF DInv

\* Steps of the debit run that have nothing to do with debits in flight.
LEMMA PlainStep ==
  ASSUME DInv, IInv', stripe' = stripe, pay' = pay,
         req[Debit].pc \notin {"pending", "hold"}, req'[Debit].pc # "charge"
  PROVE  DInv'
<1>1. \A i \in Intents : InFlight(i)' <=> InFlight(i)
  BY DEF InFlight
<1>2. Watched' /\ Cleared' /\ RowsHaveStatus'
  BY <1>1 DEF DInv, Watched, Cleared, RowsHaveStatus
<1>3. OneDebitInFlight'
  BY DEF DInv, OneDebitInFlight
<1>. QED
  BY <1>2, <1>3 DEF DInv

\* Stripe's answers: an intent that is not a debit in flight afterwards.
LEMMA SettledStep ==
  ASSUME DInv, IInv', pay' = pay, req' = req,
         \A i \in Intents : InFlight(i)' => InFlight(i) /\ stripe'[i].member = stripe[i].member
  PROVE  DInv'
<1>1. Watched' /\ Cleared' /\ RowsHaveStatus'
  BY DEF DInv, Watched, Cleared, RowsHaveStatus
<1>2. OneDebitInFlight'
  BY DEF DInv, OneDebitInFlight, InFlight
<1>. QED
  BY <1>1, <1>2 DEF DInv

LEMMA DebitMoves ==
  ASSUME IInv, NEW q, req' = [req EXCEPT ![Debit] = q] PROVE req'[Debit] = q
  BY OneMoves, DebitIsARequest DEF IInv, Shape

LEMMA StartDebitWatched == ASSUME DInv, StartDebit PROVE DInv'
<1>. DEFINE q == [Idle EXCEPT !.pc = "pick", !.now = day, !.next = next, !.queue = Members]
<1>1. q.pc = "pick"
  BY DEF Idle
<1>2. req' = [req EXCEPT ![Debit] = q] /\ UNCHANGED <<stripe, pay>> /\ req[Debit].pc = "idle"
  BY DEF StartDebit, CanStart
<1>. HIDE DEF q
<1>3. req'[Debit] = q
  BY <1>2, DebitMoves DEF DInv
<1>. QED
  BY <1>1, <1>2, <1>3, StartDebitSound, PlainStep DEF DInv

LEMMA PickWatched == ASSUME DInv, Pick PROVE DInv'
<1>1. UNCHANGED <<stripe, pay>> /\ req[Debit].pc = "pick" /\ IInv'
  BY PickSound DEF Pick, DInv
<1>2. CASE req'[Debit].pc # "charge"
  BY <1>1, <1>2, PlainStep
<1>3. CASE req'[Debit].pc = "charge"
  <2>1. req[Debit].queue # {}
    <3>. SUFFICES ASSUME req[Debit].queue = {} PROVE FALSE
      OBVIOUS
    <3>1. req' = [req EXCEPT ![Debit] = Idle]
      BY DEF Pick
    <3>. QED
      BY <1>3, <3>1, DebitMoves, Idles DEF DInv
  <2>2. PICK m \in req[Debit].queue :
          req' = [req EXCEPT ![Debit] =
            IF /\ DueOn(req[Debit].next, req[Debit].now)
               /\ ~PaidOn(m, {req[Debit].now}) /\ ~Pending(m)
            THEN [req[Debit] EXCEPT !.pc = "charge", !.member = m, !.queue = @ \ {m}]
            ELSE [req[Debit] EXCEPT !.queue = @ \ {m}]]
    BY <2>1 DEF Pick
  <2>. DEFINE q1 == [req[Debit] EXCEPT !.pc = "charge", !.member = m, !.queue = @ \ {m}]
              q2 == [req[Debit] EXCEPT !.queue = @ \ {m}]
  <2>3. IsRequest(req[Debit])
    BY DebitIsARequest DEF DInv, IInv, Shape
  <2>4. q1.member = m /\ q2.pc = "pick"
    BY <2>3, <1>1 DEF IsRequest, Fields
  <2>. DEFINE due == /\ DueOn(req[Debit].next, req[Debit].now)
                     /\ ~PaidOn(m, {req[Debit].now}) /\ ~Pending(m)
  <2>5. req' = [req EXCEPT ![Debit] = IF due THEN q1 ELSE q2]
    BY <2>2
  <2>6. due => ~Pending(m)
    OBVIOUS
  <2>. HIDE DEF due, q1, q2
  <2>7. req'[Debit] = IF due THEN q1 ELSE q2
    BY <2>5, DebitMoves DEF DInv
  <2>8. req'[Debit].member = m /\ ~Pending(m)
    BY <1>3, <2>4, <2>6, <2>7
  <2>9. \A i \in Intents : InFlight(i) => stripe[i].member # m
    BY <1>1, <2>8 DEF DInv, Watched, Pending
  <2>10. \A i \in Intents : InFlight(i)' <=> InFlight(i)
    BY <1>1 DEF InFlight
  <2>11. Watched' /\ Cleared' /\ RowsHaveStatus'
    BY <1>1, <2>8, <2>9, <2>10 DEF DInv, Watched, Cleared, RowsHaveStatus
  <2>12. OneDebitInFlight'
    BY <1>1 DEF DInv, OneDebitInFlight
  <2>. QED
    BY <1>1, <2>11, <2>12 DEF DInv
<1>. QED
  BY <1>2, <1>3

LEMMA ChargeWatched == ASSUME DInv, Charge PROVE DInv'
<1>0. IsRequest(req[Debit]) /\ req[Debit].pc = "charge" /\ pay' = pay /\ IInv'
  BY DebitIsARequest, ChargeSound DEF DInv, IInv, Shape, Charge
<1>1. PICK i \in Intents, s \in {"processing", "succeeded", "failed", "refused"} :
        /\ stripe[i] = NewIntent
        /\ stripe' = [stripe EXCEPT ![i] = [status |-> s, member |-> req[Debit].member,
                                            by |-> "debit", day |-> day]]
        /\ req' = [req EXCEPT ![Debit] = [@ EXCEPT !.pc = AnswerOf(s), !.intent = i]]
  BY DEF Charge
<1>. DEFINE q == [req[Debit] EXCEPT !.pc = AnswerOf(s), !.intent = i]
<1>2. q.pc = AnswerOf(s) /\ q.intent = i
  BY <1>0 DEF IsRequest, Fields
<1>3. req' = [req EXCEPT ![Debit] = q]
  BY <1>1
<1>. HIDE DEF q
<1>4. req'[Debit].pc = AnswerOf(s) /\ req'[Debit].intent = i
  BY <1>2, <1>3, DebitMoves DEF DInv
<1>5. stripe'[i].status = s /\ stripe'[i].member = req[Debit].member
        /\ \A j \in Intents \ {i} : stripe'[j] = stripe[j]
  BY <1>1 DEF DInv, IInv, Shape
<1>6. AnswerOf(s) # "charge" /\ (s = "processing" => AnswerOf(s) = "pending")
  BY DEF AnswerOf
<1>7. Watched'
  BY <1>0, <1>4, <1>5, <1>6 DEF DInv, Watched, InFlight
<1>8. Cleared' /\ RowsHaveStatus'
  BY <1>0, <1>4, <1>6 DEF DInv, Cleared, RowsHaveStatus
<1>9. \A j \in Intents \ {i} : InFlight(j) => stripe[j].member # req[Debit].member
  BY <1>0 DEF DInv, Cleared
<1>10. OneDebitInFlight'
  BY <1>5, <1>9 DEF DInv, OneDebitInFlight, InFlight
<1>. QED
  BY <1>0, <1>7, <1>8, <1>10 DEF DInv

LEMMA FindPendingWatched == ASSUME DInv, FindPending PROVE DInv'
<1>. DEFINE q == [req[Debit] EXCEPT !.pc = "hold", !.found = pay[req[Debit].intent].status]
<1>1. IsRequest(req[Debit]) /\ IInv' /\ UNCHANGED <<stripe, pay>>
  BY DebitIsARequest, FindPendingSound DEF DInv, IInv, Shape, FindPending
<1>2. q.pc = "hold" /\ q.intent = req[Debit].intent
  BY <1>1 DEF IsRequest, Fields
<1>3. req' = [req EXCEPT ![Debit] = q]
  BY DEF FindPending
<1>. HIDE DEF q
<1>4. req'[Debit].pc = "hold" /\ req'[Debit].intent = req[Debit].intent
  BY <1>2, <1>3, DebitMoves DEF DInv
<1>5. \A i \in Intents : InFlight(i)' <=> InFlight(i)
  BY <1>1 DEF InFlight
<1>6. Watched' /\ Cleared' /\ RowsHaveStatus'
  BY <1>1, <1>4, <1>5 DEF DInv, Watched, Cleared, RowsHaveStatus
<1>7. OneDebitInFlight'
  BY <1>1 DEF DInv, OneDebitInFlight
<1>. QED
  BY <1>1, <1>6, <1>7 DEF DInv

\* A debit in flight that has a row at all has it pending.
LEMMA RowInFlight ==
  ASSUME DInv, NEW i \in Intents, InFlight(i), pay[i] # NoPayment
  PROVE  pay[i].status = "processing"
<1>1. pay[i].status \in PayStatus
  BY DEF DInv, IInv, Shape, PaymentRows
<1>2. pay[i].status # "succeeded"
  BY DEF DInv, IInv, PaidMeansCollected, InFlight
<1>. QED
  BY <1>1, <1>2 DEF PayStatus, DInv, RowsHaveStatus

LEMMA PendingWatched == ASSUME DInv, recordPendingPayment PROVE DInv'
<1>. DEFINE i == req[Debit].intent
            taken == req[Debit].found = "none" /\ pay[i] # NoPayment
            q == [req[Debit] EXCEPT !.pc = "flag"]
            row == [status |-> "processing", day |-> IF pay[i] = NoPayment THEN day ELSE pay[i].day]
<1>1. IsRequest(req[Debit]) /\ req[Debit].pc = "hold" /\ i \in Intents /\ stripe' = stripe /\ IInv'
  BY DebitIsARequest, PendingSound
     DEF DInv, IInv, Shape, recordPendingPayment, IsRequest
<1>2. \A j \in Intents : InFlight(j)' <=> InFlight(j)
  BY <1>1 DEF InFlight
<1>3. OneDebitInFlight'
  BY <1>1 DEF DInv, OneDebitInFlight
<1>4. CASE taken
  <2>1. req' = [req EXCEPT ![Debit] = q] /\ pay' = pay /\ q.pc = "flag"
    BY <1>1, <1>4 DEF recordPendingPayment, IsRequest, Fields
  <2>. HIDE DEF q
  <2>2. req'[Debit].pc = "flag"
    BY <2>1, DebitMoves DEF DInv
  <2>3. InFlight(i) => pay[i].status = "processing"
    BY <1>1, <1>4, RowInFlight
  <2>4. Watched'
    BY <1>2, <2>1, <2>3 DEF DInv, Watched
  <2>5. Cleared' /\ RowsHaveStatus'
    BY <2>1, <2>2 DEF DInv, Cleared, RowsHaveStatus
  <2>. QED
    BY <1>1, <1>3, <2>4, <2>5 DEF DInv
<1>5. CASE ~taken
  <2>1. req' = [req EXCEPT ![Debit] = NextMember(req[Debit])] /\ pay' = [pay EXCEPT ![i] = row]
    BY <1>5 DEF recordPendingPayment
  <2>2. req'[Debit].pc = "pick"
    BY <2>1, DebitMoves, NextMemberFacts DEF DInv
  <2>3. pay'[i].status = "processing" /\ \A j \in Intents \ {i} : pay'[j] = pay[j]
    BY <1>1, <2>1 DEF DInv, IInv, Shape
  <2>4. Watched'
    BY <1>2, <2>3 DEF DInv, Watched
  <2>5. Cleared' /\ RowsHaveStatus'
    BY <2>2, <2>3 DEF DInv, Cleared, RowsHaveStatus
  <2>. QED
    BY <1>1, <1>3, <2>4, <2>5 DEF DInv
<1>. QED
  BY <1>4, <1>5

LEMMA OtherDebitingWatched == ASSUME DInv, IntentsExhausted \/ FlagMissed PROVE DInv'
<1>1. IInv' /\ UNCHANGED <<stripe, pay>> /\ req[Debit].pc \in {"charge", "flag"}
  BY IntentsExhaustedSound, FlagMissedSound DEF DInv, IntentsExhausted, FlagMissed
<1>2. \/ req' = [req EXCEPT ![Debit] = Idle]
      \/ req' = [req EXCEPT ![Debit] = NextMember(req[Debit])]
  BY DEF IntentsExhausted, FlagMissed
<1>3. req'[Debit].pc # "charge"
  BY <1>2, DebitMoves, Idles, NextMemberFacts DEF DInv
<1>. QED
  BY <1>1, <1>3, PlainStep

LEMMA OutsideWatched ==
  ASSUME DInv, NEW r \in Webhooks \cup Posts \cup {Reminder},
         StartReminder \/ Remind \/ (r \in Webhooks /\ WebhookFails(r))
           \/ (\E i \in Intents : (r \in Webhooks /\ StartWebhook(r, i))
                                    \/ (r \in Posts /\ StartPost(r, i)))
  PROVE  DInv'
<1>1. IInv'
  BY RemindersSound, WebhookFailsSound, StartWebhookSound, StartPostSound DEF DInv
<1>2. UNCHANGED <<stripe, pay>>
  BY DEF StartReminder, Remind, WebhookFails, StartWebhook, StartPost
<1>3. req'[Debit] = req[Debit]
  <2>1. r # Debit /\ Reminder # Debit /\ r \in Requests /\ Reminder \in Requests
    BY DebitIsARequest DEF Requests
  <2>2. CASE \E q : req' = [req EXCEPT ![r] = q]
    BY <2>1, <2>2, OneMoves, DebitIsARequest DEF DInv, IInv, Shape
  <2>3. CASE \E q : req' = [req EXCEPT ![Reminder] = q]
    BY <2>1, <2>3, OneMoves, DebitIsARequest DEF DInv, IInv, Shape
  <2>4. CASE StartReminder \/ Remind
    BY <2>3, <2>4 DEF StartReminder, Remind
  <2>5. CASE WebhookFails(r)
    BY <2>2, <2>5 DEF WebhookFails
  <2>6. CASE \E i \in Intents : StartWebhook(r, i) \/ StartPost(r, i)
    BY <2>2, <2>6 DEF StartWebhook, StartPost
  <2>. QED
    BY <2>4, <2>5, <2>6
<1>. QED
  BY <1>1, <1>2, <1>3, OthersStep

\* Of RecordPayment, only Store writes a row, and one that was collected.
LEMMA RecordingWatched == ASSUME DInv, NEW r \in Requests, Recording(r) PROVE DInv'
<1>1. IInv' /\ stripe' = stripe
  BY FindPaymentSound, FindMembershipSound, StoreSound, AwardSound, AdvanceSound
     DEF DInv, Recording, FindPayment, FindMembership, Store, Award,
         advanceNextContributionDate
<1>2. IsRequest(req[r]) /\ req[r].pc \in {"record", "verify", "store", "award", "advance"}
  BY DEF DInv, IInv, Shape, Recording, FindPayment, FindMembership, Store, Award,
         advanceNextContributionDate
<1>3. PICK q : req' = [req EXCEPT ![r] = q] /\ q.pc # "charge"
  <2>1. CASE FindPayment(r)
    <3>. DEFINE q == [req[r] EXCEPT !.pc = "verify", !.found = pay[req[r].intent].status]
    <3>1. q.pc = "verify"
      BY <1>2 DEF IsRequest, Fields
    <3>2. req' = [req EXCEPT ![r] = q] \/ req' = [req EXCEPT ![r] = Rejected(r, FALSE)]
      BY <2>1 DEF FindPayment
    <3>. HIDE DEF q
    <3>. QED
      BY <1>2, <3>1, <3>2, RejectedFacts
  <2>2. CASE FindMembership(r)
    <3>. DEFINE q == [req[r] EXCEPT !.pc = "store", !.total = total[req[r].member]]
    <3>1. q.pc = "store"
      BY <1>2 DEF IsRequest, Fields
    <3>2. req' = [req EXCEPT ![r] = q] \/ req' = [req EXCEPT ![r] = Rejected(r, FALSE)]
      BY <2>2 DEF FindMembership
    <3>. HIDE DEF q
    <3>. QED
      BY <1>2, <3>1, <3>2, RejectedFacts
  <2>3. CASE Store(r)
    <3>. DEFINE q == [req[r] EXCEPT !.pc = "award"]
    <3>1. q.pc = "award"
      BY <1>2 DEF IsRequest, Fields
    <3>2. \/ req' = [req EXCEPT ![r] = q] \/ req' = [req EXCEPT ![r] = Idle]
          \/ req' = [req EXCEPT ![r] = Rejected(r, TRUE)]
      BY <2>3 DEF Store
    <3>. HIDE DEF q
    <3>. QED
      BY <1>2, <3>1, <3>2, RejectedFacts, Idles
  <2>4. CASE Award(r)
    <3>. DEFINE q == [req[r] EXCEPT !.pc = "advance", !.next = next]
    <3>1. q.pc = "advance" /\ req' = [req EXCEPT ![r] = q]
      BY <1>2, <2>4 DEF IsRequest, Fields, Award
    <3>. QED
      BY <3>1
  <2>5. CASE advanceNextContributionDate(r)
    <3>. DEFINE after == Advanced(Advanced(req[r].next))
                q == NextMember([req[r] EXCEPT !.next = after])
    <3>1. req' = [req EXCEPT ![r] = q] \/ req' = [req EXCEPT ![r] = Idle]
      BY <2>5 DEF advanceNextContributionDate
    <3>2. q.pc = "pick"
      BY NextMemberFacts
    <3>. HIDE DEF q
    <3>. QED
      BY <3>1, <3>2, Idles
  <2>. QED
    BY <2>1, <2>2, <2>3, <2>4, <2>5 DEF Recording
<1>4. req'[r] = q /\ \A s \in Requests \ {r} : req'[s] = req[s]
  BY <1>3, OneMoves DEF DInv, IInv, Shape
<1>5. CASE pay' = pay
  <2>1. CASE r = Debit
    BY <1>1, <1>2, <1>3, <1>4, <1>5, <2>1, PlainStep
  <2>2. CASE r # Debit
    BY <1>1, <1>4, <1>5, <2>2, DebitIsARequest, OthersStep
  <2>. QED
    BY <2>1, <2>2
<1>6. CASE pay' # pay
  <2>. DEFINE i == req[r].intent
              row == [status |-> "succeeded",
                      day |-> IF pay[i] = NoPayment THEN day ELSE pay[i].day]
  <2>1. Store(r)
    BY <1>6 DEF Recording, FindPayment, FindMembership, Award, advanceNextContributionDate
  <2>2. pay' = [pay EXCEPT ![i] = row]
    BY <1>6, <2>1 DEF Store
  <2>3. req[r].pc = "store" /\ i \in Intents
    BY <1>2, <2>1 DEF Store, IsRequest
  <2>4. stripe[i].status = "succeeded"
    BY <2>3 DEF DInv, IInv, StoresCollected
  <2>5. pay'[i].status = "succeeded" /\ \A j \in Intents \ {i} : pay'[j] = pay[j]
    BY <2>2, <2>3 DEF DInv, IInv, Shape
  <2>. HIDE DEF i, row
  <2>6. \A j \in Intents : (InFlight(j)' <=> InFlight(j)) /\ (InFlight(j) => j # i)
    BY <1>1, <2>4 DEF InFlight
  <2>7. RowsHaveStatus'
    BY <2>5 DEF DInv, RowsHaveStatus
  <2>8. OneDebitInFlight'
    BY <1>1 DEF DInv, OneDebitInFlight
  <2>9. CASE r = Debit
    <3>1. Watched'
      BY <1>2, <2>5, <2>6, <2>9 DEF DInv, Watched
    <3>2. Cleared'
      BY <1>3, <1>4, <2>9 DEF Cleared
    <3>. QED
      BY <1>1, <2>7, <2>8, <3>1, <3>2 DEF DInv
  <2>10. CASE r # Debit
    <3>1. req'[Debit] = req[Debit]
      BY <1>4, <2>10, DebitIsARequest
    <3>2. Watched' /\ Cleared'
      BY <1>1, <2>5, <2>6, <3>1 DEF DInv, Watched, Cleared
    <3>. QED
      BY <1>1, <2>7, <2>8, <3>2 DEF DInv
  <2>. QED
    BY <2>9, <2>10
<1>. QED
  BY <1>5, <1>6

LEMMA StripeWatched ==
  ASSUME DInv, (\E m \in Members : MemberPays(m)) \/ (\E i \in Intents : Settle(i))
  PROVE  DInv'
<1>1. IInv' /\ pay' = pay /\ req' = req
  BY MemberPaysSound, SettleSound DEF DInv, MemberPays, Settle
<1>2. \A j \in Intents :
        InFlight(j)' => InFlight(j) /\ stripe'[j].member = stripe[j].member
  <2>1. CASE \E m \in Members : MemberPays(m)
    <3>1. PICK m \in Members, i \in Intents : stripe' = [stripe EXCEPT ![i] =
                 [status |-> "processing", member |-> m, by |-> "member", day |-> day]]
      BY <2>1 DEF MemberPays
    <3>2. stripe'[i].by = "member" /\ \A j \in Intents \ {i} : stripe'[j] = stripe[j]
      BY <3>1 DEF DInv, IInv, Shape
    <3>. QED
      BY <3>2 DEF InFlight
  <2>2. CASE \E i \in Intents : Settle(i)
    <3>1. PICK i \in Intents, s \in Final : stripe' = [stripe EXCEPT ![i].status = s]
      BY <2>2 DEF Settle
    <3>2. stripe'[i].status = s /\ \A j \in Intents \ {i} : stripe'[j] = stripe[j]
      BY <3>1 DEF DInv, IInv, Shape, IsIntent
    <3>. QED
      BY <3>2 DEF InFlight, Final
  <2>. QED
    BY <2>1, <2>2
<1>. QED
  BY <1>1, <1>2, SettledStep

LEMMA StepWatched == ASSUME Crashes = FALSE, DInv, [Next]_vars PROVE DInv'
<1>1. CASE StartDebit \/ Debiting
  BY <1>1, StartDebitWatched, PickWatched, ChargeWatched, FindPendingWatched, PendingWatched,
     OtherDebitingWatched DEF Debiting
<1>2. CASE StartReminder \/ Remind
  BY <1>2, OutsideWatched
<1>3. CASE \/ \E r \in Webhooks, i \in Intents : StartWebhook(r, i)
           \/ \E r \in Webhooks : WebhookFails(r)
           \/ \E r \in Posts, i \in Intents : StartPost(r, i)
  BY <1>3, OutsideWatched
<1>4. CASE \E r \in Requests : Recording(r)
  BY <1>4, RecordingWatched
<1>5. CASE (\E m \in Members : MemberPays(m)) \/ (\E i \in Intents : Settle(i))
  BY <1>5, StripeWatched
<1>6. CASE NextDay
  BY <1>6, NextDaySound, OthersStep DEF DInv, NextDay
<1>7. CASE Crash
  BY <1>7 DEF Crash
<1>8. CASE UNCHANGED vars
  BY <1>8, StutterSound, OthersStep DEF DInv, vars
<1>. QED
  BY <1>1, <1>2, <1>3, <1>4, <1>5, <1>6, <1>7, <1>8 DEF Next, Working

\* As long as the process does not die between a charge and its record, a member
\* never has two debits of the timer in flight.
THEOREM NoSecondDebit == ASSUME Crashes = FALSE PROVE Spec => []OneDebitInFlight
<1>1. DInv => OneDebitInFlight
  BY DEF DInv
<1>2. DInv /\ [Next]_vars => DInv'
  BY StepWatched
<1>. QED
  BY InitWatched, <1>1, <1>2, PTL DEF Spec

-----------------------------------------------------------------------------
(***************************************************************************)
(* One request at a time                                                   *)
(***************************************************************************)
Alone == \A r, s \in Busy : r = s

Failed(m) ==
  \E i \in Intents : stripe[i].member = m /\ stripe[i].status \in {"failed", "refused"}

\* A payment is recorded only of an intent that somebody made.
Accounts ==
  /\ DOMAIN total = Members /\ DOMAIN missed = Members
  /\ \A i \in Intents :
       /\ stripe[i].status = "none" => pay[i].status = "none"
       /\ stripe[i].status # "none" => stripe[i].member \in Members
       /\ pay[i].status = "none" => pay[i] = NoPayment
       /\ stripe[i].by = "member" => stripe[i].status # "none"

\* What the only request under way has read is so, and a debit run that is
\* recording has its intent to itself.
Reads(r, q) ==
  /\ ~q.dirty
  /\ q.queue \subseteq Members
  /\ q.pc = "charge" => q.member \in Members
  /\ q.pc \in {"record", "verify", "store", "pending", "hold", "fail"} =>
       q.intent \in Intents /\ stripe[q.intent].status # "none" /\ stripe[q.intent].member = q.member
  /\ q.pc \in {"verify", "store"} => q.found = pay[q.intent].status /\ q.found # "succeeded"
  /\ q.pc = "store" => q.total = total[q.member]
  /\ q.pc \in {"pending", "hold"} => pay[q.intent].status = "none"
  /\ q.pc = "hold" => q.found = "none"
  /\ q.pc = "flag" => Failed(q.member)
  /\ q.pc = "fail" => stripe[q.intent].status = "failed"
  /\ r = Debit /\ q.pc \in {"record", "verify", "store"} => stripe[q.intent].status = "succeeded"
  /\ r = Debit /\ q.pc = "record" => pay[q.intent].status = "none"

Orderly ==
  /\ Accounts
  /\ \A r \in Requests : Reads(r, req[r])
  /\ LedgerAgrees
  /\ MissedMeansFailed

SerialInv == ~overlapped => Alone /\ Orderly

LEMMA IdleReads == ASSUME NEW r PROVE Reads(r, Idle)
  BY DEF Reads, Idle

LEMMA NextMemberReads ==
  ASSUME NEW r, NEW q, q.queue \subseteq Members PROVE Reads(r, NextMember(q))
  BY DEF Reads, NextMember, Idle

\* What a request has read of an intent is so as long as nothing is recorded,
\* and intents keep their member and, once settled, their status.
Grown ==
  \A i \in Intents : stripe[i].status # "none" =>
    /\ stripe'[i].status # "none"
    /\ stripe'[i].member = stripe[i].member
    /\ stripe[i].status \in {"succeeded", "failed", "refused"} => stripe'[i].status = stripe[i].status

LEMMA FailedStays == ASSUME Grown, NEW m \in Members, Failed(m) PROVE Failed(m)'
  BY DEF Grown, Failed

\* A step that records nothing, but may flag who has failed.
LEMMA NothingRecorded ==
  ASSUME IInv, Orderly, Grown, NEW r \in Requests,
         DOMAIN req' = Requests, \A s \in Requests \ {r} : req'[s] = req[s],
         Reads(r, req[r])',
         UNCHANGED <<total, pay, txns>>,
         missed' = missed \/ \E m : Failed(m) /\ missed' = [missed EXCEPT ![m] = TRUE],
         \A i \in Intents : stripe[i].status = "none" =>
           stripe'[i] = stripe[i] \/ (stripe'[i].status # "none" /\ stripe'[i].member \in Members)
  PROVE  Orderly'
<1>1. ASSUME NEW s \in Requests PROVE Reads(s, req[s])'
  <2>1. CASE s = r
    BY <2>1
  <2>2. CASE s # r
    <3>1. Reads(s, req'[s])
      BY <2>2 DEF Orderly
    <3>2. req'[s].pc = "flag" => Failed(req[s].member)'
      BY <2>2, <3>1 DEF Reads, Grown, Failed
    <3>. QED
      BY <3>1, <3>2 DEF Reads, Grown
  <2>. QED
    BY <2>1, <2>2
<1>2. Accounts'
  BY DEF Orderly, Accounts, Grown
<1>3. \A i \in Intents : pay[i].status = "succeeded" => stripe[i].status # "none"
  BY DEF Orderly, Accounts
<1>4. ASSUME NEW m \in Members
      PROVE  {i \in Intents : stripe'[i].member = m /\ pay'[i].status = "succeeded"}
               = {i \in Intents : stripe[i].member = m /\ pay[i].status = "succeeded"}
  BY <1>3 DEF Grown
<1>5. LedgerAgrees'
  BY <1>4 DEF Orderly, LedgerAgrees, TotalIsSumOfPayments
<1>6. MissedMeansFailed'
  <2>. SUFFICES ASSUME NEW m \in Members, missed'[m] PROVE Failed(m)'
    BY DEF MissedMeansFailed, Failed
  <2>1. Failed(m)
    BY DEF Orderly, MissedMeansFailed, Failed, Accounts
  <2>. QED
    BY <2>1, FailedStays
<1>. QED
  BY <1>1, <1>2, <1>5, <1>6 DEF Orderly

\* One request moves, with what it has read of tables that stay as they are.
LEMMA OneReads ==
  ASSUME IInv, Orderly, NEW r \in Requests, NEW q, req' = [req EXCEPT ![r] = q], Reads(r, q),
         UNCHANGED <<total, pay, txns, stripe>>,
         missed' = missed \/ \E m : Failed(m) /\ missed' = [missed EXCEPT ![m] = TRUE]
  PROVE  Orderly'
<1>1. DOMAIN req' = Requests /\ req'[r] = q /\ \A s \in Requests \ {r} : req'[s] = req[s]
  BY OneMoves DEF IInv, Shape
<1>2. Grown
  BY DEF Grown
<1>3. Reads(r, req'[r])
  BY <1>1
<1>4. Failed(req[r].member)' <=> Failed(req'[r].member)
  BY DEF Failed
<1>5. Reads(r, req[r])'
  BY <1>3, <1>4 DEF Reads
<1>. QED
  BY <1>1, <1>2, <1>5, NothingRecorded

LEMMA DebitReads ==
  ASSUME IInv, Orderly, StartDebit \/ Pick \/ IntentsExhausted \/ FindPending \/ FlagMissed
  PROVE  Orderly'
<1>. DEFINE q == req[Debit]
<1>0. Debit \in Requests /\ IsRequest(q) /\ Reads(Debit, q)
  BY DebitIsARequest DEF IInv, Shape, Orderly
<1>1. CASE StartDebit
  <2>. DEFINE n == [Idle EXCEPT !.pc = "pick", !.now = day, !.next = next, !.queue = Members]
  <2>1. Reads(Debit, n)
    BY DEF Reads, Idle
  <2>2. req' = [req EXCEPT ![Debit] = n] /\ UNCHANGED <<total, pay, txns, stripe, missed>>
    BY <1>1 DEF StartDebit
  <2>. HIDE DEF n
  <2>. QED
    BY <1>0, <2>1, <2>2, OneReads
<1>2. CASE Pick
  <2>1. q.pc = "pick" /\ UNCHANGED <<total, pay, txns, stripe, missed>>
    BY <1>2 DEF Pick
  <2>2. CASE q.queue = {}
    <3>1. req' = [req EXCEPT ![Debit] = Idle]
      BY <1>2, <2>2 DEF Pick
    <3>. QED
      BY <1>0, <2>1, <3>1, IdleReads, OneReads
  <2>3. CASE q.queue # {}
    <3>1. PICK m \in q.queue :
            \/ req' = [req EXCEPT ![Debit] = [q EXCEPT !.pc = "charge", !.member = m, !.queue = @ \ {m}]]
            \/ req' = [req EXCEPT ![Debit] = [q EXCEPT !.queue = @ \ {m}]]
      BY <1>2, <2>3 DEF Pick
    <3>2. Reads(Debit, [q EXCEPT !.pc = "charge", !.member = m, !.queue = @ \ {m}])
      BY <1>0, <3>1 DEF Reads, IsRequest, Fields
    <3>3. Reads(Debit, [q EXCEPT !.queue = @ \ {m}])
      BY <1>0, <2>1, <3>1 DEF Reads, IsRequest, Fields
    <3>. QED
      BY <1>0, <2>1, <3>1, <3>2, <3>3, OneReads
  <2>. QED
    BY <2>2, <2>3
<1>3. CASE IntentsExhausted
  BY <1>0, <1>3, IdleReads, OneReads DEF IntentsExhausted
<1>4. CASE FindPending
  <2>. DEFINE n == [q EXCEPT !.pc = "hold", !.found = pay[q.intent].status]
  <2>1. q.pc = "pending" /\ req' = [req EXCEPT ![Debit] = n]
        /\ UNCHANGED <<total, pay, txns, stripe, missed>>
    BY <1>4 DEF FindPending
  <2>2. Reads(Debit, n)
    BY <1>0, <2>1 DEF Reads, IsRequest, Fields
  <2>. HIDE DEF n
  <2>. QED
    BY <1>0, <2>1, <2>2, OneReads
<1>5. CASE FlagMissed
  <2>1. Failed(q.member) /\ ~q.dirty /\ q.queue \subseteq Members
    BY <1>0, <1>5 DEF FlagMissed, Reads
  <2>2. /\ missed' = [missed EXCEPT ![q.member] = TRUE] /\ total' = total
        /\ req' = [req EXCEPT ![Debit] = NextMember(q)] /\ UNCHANGED <<pay, txns, stripe>>
    BY <1>5, <2>1 DEF FlagMissed
  <2>. HIDE DEF q
  <2>. QED
    BY <1>0, <2>1, <2>2, NextMemberReads, OneReads
<1>. QED
  BY <1>1, <1>2, <1>3, <1>4, <1>5

LEMMA OutsideReads ==
  ASSUME IInv, Orderly,
         \/ StartReminder \/ Remind
         \/ \E r \in Webhooks, i \in Intents : StartWebhook(r, i)
         \/ \E r \in Webhooks : WebhookFails(r)
         \/ \E r \in Posts, i \in Intents : StartPost(r, i)
  PROVE  Orderly'
<1>1. CASE StartReminder \/ Remind
  <2>. DEFINE n == [Idle EXCEPT !.pc = "remind", !.now = day]
  <2>1. Reads(Reminder, n)
    BY DEF Reads, Idle
  <2>2. /\ req' = [req EXCEPT ![Reminder] = n] \/ req' = [req EXCEPT ![Reminder] = Idle]
        /\ UNCHANGED <<total, pay, txns, stripe, missed>>
    BY <1>1 DEF StartReminder, Remind
  <2>. HIDE DEF n
  <2>. QED
    BY <2>1, <2>2, IdleReads, OneReads, DebitIsARequest
<1>2. ASSUME NEW r \in Webhooks, NEW i \in Intents, StartWebhook(r, i) PROVE Orderly'
  <2>. DEFINE n == [Idle EXCEPT !.pc = WebhookBranch(stripe[i].status), !.now = day,
                                !.next = next, !.member = stripe[i].member, !.intent = i]
  <2>1. stripe[i].status \in Final /\ r \in Requests /\ r # Debit
    BY <1>2, DebitIsARequest DEF StartWebhook, Requests
  <2>2. /\ n.pc = WebhookBranch(stripe[i].status) /\ n.intent = i /\ n.member = stripe[i].member
        /\ n.dirty = FALSE /\ n.queue = {}
    BY DEF Idle
  <2>3. req' = [req EXCEPT ![r] = n] /\ UNCHANGED <<total, pay, txns, stripe, missed>>
    BY <1>2 DEF StartWebhook
  <2>. HIDE DEF n
  <2>4. Reads(r, n)
    BY <2>1, <2>2 DEF Reads, WebhookBranch, Final
  <2>. QED
    BY <2>1, <2>3, <2>4, OneReads
<1>3. ASSUME NEW r \in Webhooks, WebhookFails(r) PROVE Orderly'
  <2>. DEFINE q == req[r]
  <2>1. q.pc = "fail" /\ Reads(r, q) /\ r \in Requests
    BY <1>3 DEF WebhookFails, Orderly, Requests
  <2>2. Failed(q.member)
    BY <2>1 DEF Reads, Failed
  <2>3. /\ missed' = [missed EXCEPT ![q.member] = TRUE] /\ req' = [req EXCEPT ![r] = Idle]
        /\ UNCHANGED <<total, pay, txns, stripe>>
    BY <1>3 DEF WebhookFails
  <2>. HIDE DEF q
  <2>. QED
    BY <2>1, <2>2, <2>3, IdleReads, OneReads
<1>4. ASSUME NEW r \in Posts, NEW i \in Intents, StartPost(r, i) PROVE Orderly'
  <2>. DEFINE n == [Idle EXCEPT !.pc = "record", !.now = day, !.member = stripe[i].member,
                                !.intent = i]
  <2>1. r \in Requests /\ r # Debit
    BY DebitIsARequest DEF Requests
  <2>2. n.pc = "record" /\ n.intent = i /\ n.member = stripe[i].member /\ n.dirty = FALSE /\ n.queue = {}
    BY DEF Idle
  <2>3. req' = [req EXCEPT ![r] = n] /\ UNCHANGED <<total, pay, txns, stripe, missed>>
        /\ stripe[i].by = "member"
    BY <1>4 DEF StartPost
  <2>. HIDE DEF n
  <2>4. stripe[i].status # "none"
    BY <2>3 DEF Orderly, Accounts
  <2>5. Reads(r, n)
    BY <2>1, <2>2, <2>4 DEF Reads
  <2>. QED
    BY <2>1, <2>3, <2>5, OneReads
<1>. QED
  BY <1>1, <1>2, <1>3, <1>4

LEMMA RecordingReads ==
  ASSUME IInv, Orderly, NEW r \in Requests,
         FindPayment(r) \/ FindMembership(r) \/ Award(r) \/ advanceNextContributionDate(r)
  PROVE  Orderly'
<1>. DEFINE q == req[r]
<1>0. IsRequest(q) /\ Reads(r, q)
  BY DEF IInv, Shape, Orderly
<1>1. CASE FindPayment(r)
  <2>. DEFINE found == pay[q.intent].status
              n == [q EXCEPT !.pc = "verify", !.found = found]
  <2>1. q.pc = "record" /\ UNCHANGED <<total, pay, txns, stripe, missed>>
        /\ q.intent \in Intents /\ found \in PayStatus
    BY <1>0, <1>1 DEF FindPayment, Reads, IInv, Shape, PaymentRows
  <2>2. CASE AlreadyRecorded(found)
    <3>1. r # Debit
      BY <1>0, <2>1, <2>2 DEF Reads, AlreadyRecorded
    <3>2. req' = [req EXCEPT ![r] = Idle]
      BY <1>1, <2>2, <3>1 DEF FindPayment, Rejected
    <3>. QED
      BY <2>1, <3>2, IdleReads, OneReads
  <2>3. CASE ~AlreadyRecorded(found)
    <3>1. req' = [req EXCEPT ![r] = n]
      BY <1>1, <2>3 DEF FindPayment
    <3>2. found # "succeeded"
      BY <2>3 DEF AlreadyRecorded
    <3>3. Reads(r, n)
      BY <1>0, <2>1, <3>2 DEF Reads, IsRequest, Fields
    <3>. HIDE DEF n
    <3>. QED
      BY <2>1, <3>1, <3>3, OneReads
  <2>. QED
    BY <2>2, <2>3
<1>2. CASE FindMembership(r)
  <2>. DEFINE n == [q EXCEPT !.pc = "store", !.total = total[q.member]]
  <2>1. q.pc = "verify" /\ UNCHANGED <<total, pay, txns, stripe, missed>>
    BY <1>2 DEF FindMembership
  <2>2. CASE Verified(q.intent)
    <3>1. req' = [req EXCEPT ![r] = n]
      BY <1>2, <2>2 DEF FindMembership
    <3>2. Reads(r, n)
      BY <1>0, <2>1 DEF Reads, IsRequest, Fields
    <3>. HIDE DEF n
    <3>. QED
      BY <2>1, <3>1, <3>2, OneReads
  <2>3. CASE ~Verified(q.intent)
    <3>1. r # Debit
      BY <1>0, <2>1, <2>3 DEF Reads, Verified
    <3>2. req' = [req EXCEPT ![r] = Idle]
      BY <1>2, <2>3, <3>1 DEF FindMembership, Rejected
    <3>. QED
      BY <2>1, <3>2, IdleReads, OneReads
  <2>. QED
    BY <2>2, <2>3
<1>3. CASE Award(r)
  <2>. DEFINE n == [q EXCEPT !.pc = "advance", !.next = next]
  <2>1. req' = [req EXCEPT ![r] = n] /\ UNCHANGED <<total, pay, txns, stripe, missed>>
    BY <1>3 DEF Award
  <2>2. Reads(r, n)
    BY <1>0 DEF Reads, IsRequest, Fields
  <2>. HIDE DEF n
  <2>. QED
    BY <2>1, <2>2, OneReads
<1>4. CASE advanceNextContributionDate(r)
  <2>. DEFINE after == Advanced(Advanced(q.next))
              n == NextMember([q EXCEPT !.next = after])
  <2>1. /\ req' = [req EXCEPT ![r] = n] \/ req' = [req EXCEPT ![r] = Idle]
        /\ UNCHANGED <<total, pay, txns, stripe, missed>>
    BY <1>4 DEF advanceNextContributionDate
  <2>2. [q EXCEPT !.next = after].queue \subseteq Members
    BY <1>0 DEF Reads, IsRequest, Fields
  <2>3. Reads(r, n)
    BY <2>2, NextMemberReads
  <2>. HIDE DEF n
  <2>. QED
    BY <2>1, <2>3, IdleReads, OneReads
<1>. QED
  BY <1>1, <1>2, <1>3, <1>4

LEMMA ChargeReads == ASSUME IInv, Orderly, Charge PROVE Orderly'
<1>. DEFINE q == req[Debit]
<1>0. Debit \in Requests /\ IsRequest(q) /\ Reads(Debit, q) /\ q.pc = "charge" /\ q.member \in Members
  BY DebitIsARequest DEF IInv, Shape, Orderly, Charge, Reads
<1>1. PICK i \in Intents, s \in {"processing", "succeeded", "failed", "refused"} :
        /\ stripe[i] = NewIntent
        /\ stripe' = [stripe EXCEPT ![i] = [status |-> s, member |-> q.member,
                                            by |-> "debit", day |-> day]]
        /\ req' = [req EXCEPT ![Debit] = [@ EXCEPT !.pc = AnswerOf(s), !.intent = i]]
  BY DEF Charge
<1>. DEFINE n == [q EXCEPT !.pc = AnswerOf(s), !.intent = i]
<1>2. UNCHANGED <<total, pay, txns, missed>>
  BY DEF Charge
<1>3. /\ stripe[i].status = "none" /\ pay[i].status = "none"
      /\ stripe'[i].status = s /\ stripe'[i].member = q.member
      /\ \A j \in Intents \ {i} : stripe'[j] = stripe[j]
  BY <1>1 DEF NewIntent, IInv, Shape, Orderly, Accounts
<1>4. DOMAIN req' = Requests /\ req'[Debit] = n /\ \A r \in Requests \ {Debit} : req'[r] = req[r]
  BY <1>0, <1>1, OneMoves DEF IInv, Shape
<1>5. Grown
  BY <1>3 DEF Grown
<1>6. /\ n.pc = AnswerOf(s) /\ n.intent = i /\ n.member = q.member /\ n.dirty = q.dirty
      /\ n.queue = q.queue
  BY <1>0 DEF IsRequest, Fields
<1>7. n.pc = "flag" => Failed(req[Debit].member)'
  BY <1>1, <1>3, <1>4, <1>6 DEF Failed, AnswerOf
<1>8. n.pc \in {"record", "pending", "flag"} /\ (n.pc = "record" => s = "succeeded")
  BY <1>6 DEF AnswerOf
<1>. HIDE DEF n, q
<1>9. ~n.dirty /\ n.queue \subseteq Members
  BY <1>0, <1>6 DEF Reads
<1>10. Reads(Debit, req[Debit])'
  BY <1>1, <1>2, <1>3, <1>4, <1>6, <1>7, <1>8, <1>9 DEF Reads
<1>. QED
  BY <1>0, <1>1, <1>2, <1>3, <1>4, <1>5, <1>10, NothingRecorded

\* The bank and the members: intents come and settle.
LEMMA BankReads ==
  ASSUME IInv, Orderly,
         (\E m \in Members : MemberPays(m)) \/ (\E i \in Intents : Settle(i)) \/ NextDay
  PROVE  Orderly'
<1>1. UNCHANGED <<total, pay, txns, missed, req>>
  BY DEF MemberPays, Settle, NextDay
<1>2. /\ Grown
      /\ \A i \in Intents : stripe[i].status = "none" =>
           stripe'[i] = stripe[i] \/ (stripe'[i].status # "none" /\ stripe'[i].member \in Members)
  <2>1. ASSUME NEW m \in Members, MemberPays(m)
        PROVE  /\ Grown
               /\ \A i \in Intents : stripe[i].status = "none" =>
                    stripe'[i] = stripe[i] \/ (stripe'[i].status # "none" /\ stripe'[i].member \in Members)
    <3>1. PICK i \in Intents :
            /\ stripe[i] = NewIntent
            /\ stripe' = [stripe EXCEPT ![i] =
                 [status |-> "processing", member |-> m, by |-> "member", day |-> day]]
      BY <2>1 DEF MemberPays
    <3>2. /\ stripe[i].status = "none" /\ stripe'[i].status = "processing" /\ stripe'[i].member = m
          /\ \A j \in Intents \ {i} : stripe'[j] = stripe[j]
      BY <3>1 DEF NewIntent, IInv, Shape
    <3>. QED
      BY <3>2 DEF Grown
  <2>2. ASSUME NEW i \in Intents, Settle(i)
        PROVE  /\ Grown
               /\ \A j \in Intents : stripe[j].status = "none" => stripe'[j] = stripe[j]
    <3>1. PICK s \in Final : stripe' = [stripe EXCEPT ![i].status = s]
      BY <2>2 DEF Settle
    <3>2. stripe[i].status = "processing"
      BY <2>2 DEF Settle
    <3>3. /\ stripe'[i].status = s /\ stripe'[i].member = stripe[i].member
          /\ \A j \in Intents \ {i} : stripe'[j] = stripe[j]
      BY <3>1 DEF IInv, Shape, IsIntent
    <3>. QED
      BY <3>2, <3>3 DEF Grown, Final
  <2>3. ASSUME NextDay PROVE stripe' = stripe
    BY <2>3 DEF NextDay
  <2>. QED
    BY <2>1, <2>2, <2>3 DEF Grown
<1>3. \A s \in Requests : Reads(s, req[s]) /\ req'[s] = req[s]
  BY <1>1 DEF Orderly
<1>4. ASSUME NEW s \in Requests PROVE Reads(s, req[s])'
  <2>1. req'[s].pc = "flag" => Failed(req[s].member)'
    BY <1>2, <1>3 DEF Reads, Grown, Failed
  <2>. QED
    BY <1>1, <1>2, <1>3, <2>1 DEF Reads, Grown
<1>5. DOMAIN req' = Requests
  BY <1>1 DEF IInv, Shape
<1>6. Debit \in Requests
  BY DebitIsARequest
<1>. QED
  BY <1>1, <1>2, <1>4, <1>5, <1>6, NothingRecorded

-----------------------------------------------------------------------------
\* The only request under way writes a payment.
LEMMA LoneWrite ==
  ASSUME IInv, Orderly, Alone, NEW r \in Requests, req[r].pc # "idle", NEW q,
         req' = [req EXCEPT ![r] = q], q.pc \in {"idle", "pick", "award"},
         ~q.dirty, q.queue \subseteq Members
  PROVE  \A s \in Requests : Reads(s, req[s])'
<1>1. DOMAIN req' = Requests /\ req'[r] = q /\ \A s \in Requests \ {r} : req'[s] = req[s]
  BY OneMoves DEF IInv, Shape
<1>2. \A s \in Requests \ {r} : req[s].pc = "idle" /\ Reads(s, req[s])
  BY DEF Alone, Busy, Orderly
<1>3. ASSUME NEW s \in Requests PROVE Reads(s, req[s])'
  <2>1. ~req'[s].dirty /\ req'[s].queue \subseteq Members
    BY <1>1, <1>2 DEF Reads
  <2>2. req'[s].pc \in {"idle", "pick", "award"}
    BY <1>1, <1>2
  <2>. QED
    BY <2>1, <2>2 DEF Reads
<1>. QED
  BY <1>3

LEMMA PendingReads == ASSUME IInv, Orderly, Alone, recordPendingPayment PROVE Orderly'
<1>. DEFINE q == req[Debit]
            i == q.intent
            row == [status |-> "processing", day |-> IF pay[i] = NoPayment THEN day ELSE pay[i].day]
<1>1. Debit \in Requests /\ q.pc = "hold" /\ Reads(Debit, q)
  BY DebitIsARequest DEF recordPendingPayment, Orderly
<1>2. i \in Intents /\ pay[i] = NoPayment /\ stripe[i].status # "none" /\ q.queue \subseteq Members
  BY <1>1 DEF Reads, Orderly, Accounts
<1>3. /\ pay' = [pay EXCEPT ![i] = row] /\ req' = [req EXCEPT ![Debit] = NextMember(q)]
      /\ UNCHANGED <<day, next, total, missed, ran, stripe, txns>>
  BY <1>2 DEF recordPendingPayment
<1>4. row.status = "processing" /\ pay[i].status = "none"
  BY <1>2 DEF NoPayment
<1>5. NextMember(q).pc = "pick" /\ ~NextMember(q).dirty /\ NextMember(q).queue = q.queue
  BY DEF NextMember, Idle
<1>. HIDE DEF row, i, q
<1>6. \A s \in Requests : Reads(s, req[s])'
  <2>1. req[Debit].pc # "idle"
    BY <1>1 DEF q
  <2>. QED
    BY <1>1, <1>2, <1>3, <1>5, <2>1, LoneWrite
<1>7. pay'[i].status = "processing" /\ \A j \in Intents \ {i} : pay'[j] = pay[j]
  BY <1>2, <1>3, <1>4 DEF IInv, Shape
<1>8. Accounts'
  BY <1>2, <1>3, <1>7 DEF Orderly, Accounts
<1>9. \A j \in Intents : pay'[j].status = "succeeded" <=> pay[j].status = "succeeded"
  BY <1>4, <1>7
<1>10. ASSUME NEW m \in Members
       PROVE  {j \in Intents : stripe'[j].member = m /\ pay'[j].status = "succeeded"}
                = {j \in Intents : stripe[j].member = m /\ pay[j].status = "succeeded"}
  BY <1>3, <1>9
<1>11. LedgerAgrees'
  BY <1>3, <1>9, <1>10 DEF Orderly, LedgerAgrees, TotalIsSumOfPayments
<1>12. MissedMeansFailed'
  BY <1>3 DEF Orderly, MissedMeansFailed
<1>. QED
  BY <1>6, <1>8, <1>11, <1>12 DEF Orderly

\* The flush of RecordPayment adds one payment to the set and one to the sum.
LEMMA StoreReads == ASSUME IInv, Orderly, Alone, NEW r \in Requests, Store(r) PROVE Orderly'
<1>. DEFINE q == req[r]
            i == q.intent
            m == q.member
            row == [status |-> "succeeded", day |-> IF pay[i] = NoPayment THEN day ELSE pay[i].day]
            n == IF r \in Posts THEN Idle ELSE [q EXCEPT !.pc = "award"]
<1>1. q.pc = "store" /\ Reads(r, q) /\ IsRequest(q)
  BY DEF Store, Orderly, IInv, Shape
<1>2. /\ i \in Intents /\ stripe[i].status # "none" /\ stripe[i].member = m /\ m \in Members
      /\ q.found = pay[i].status /\ pay[i].status # "succeeded" /\ q.total = total[m]
      /\ pay[i].status = "none" => pay[i] = NoPayment
      /\ q.queue \subseteq Members /\ ~q.dirty
  BY <1>1 DEF Reads, Orderly, Accounts
<1>3. /\ pay' = [pay EXCEPT ![i] = row]
      /\ txns' = [txns EXCEPT ![i] = @ + 1]
      /\ total' = [total EXCEPT ![m] = q.total + 1]
      /\ req' = [req EXCEPT ![r] = n]
      /\ UNCHANGED <<day, next, missed, ran, stripe>>
  BY <1>2 DEF Store, Credited
<1>4. n.pc \in {"idle", "award"} /\ ~n.dirty /\ n.queue \subseteq Members
  <2>1. CASE r \in Posts
    BY <2>1 DEF Idle
  <2>2. CASE r \notin Posts
    BY <1>1, <1>2, <2>2 DEF IsRequest, Fields
  <2>. QED
    BY <2>1, <2>2
<1>5. row.status = "succeeded"
  OBVIOUS
<1>. HIDE DEF n, row, i, m, q
<1>6. \A s \in Requests : Reads(s, req[s])'
  <2>1. req[r].pc # "idle"
    BY <1>1 DEF q
  <2>. QED
    BY <1>3, <1>4, <2>1, LoneWrite
<1>7. /\ pay'[i].status = "succeeded" /\ \A j \in Intents \ {i} : pay'[j] = pay[j]
      /\ txns'[i] = txns[i] + 1 /\ \A j \in Intents \ {i} : txns'[j] = txns[j]
      /\ txns[i] = 0
  BY <1>2, <1>3, <1>5 DEF IInv, Shape, Orderly, LedgerAgrees
<1>8. /\ DOMAIN total' = Members /\ total'[m] = total[m] + 1
      /\ \A k \in Members \ {m} : total'[k] = total[k]
  BY <1>2, <1>3 DEF Orderly, Accounts
<1>9. Accounts'
  BY <1>2, <1>3, <1>7, <1>8 DEF Orderly, Accounts
<1>10. \A j \in Intents : txns'[j] = IF pay'[j].status = "succeeded" THEN 1 ELSE 0
  BY <1>7 DEF Orderly, LedgerAgrees
<1>. DEFINE paid(k) == {j \in Intents : stripe[j].member = k /\ pay[j].status = "succeeded"}
            paid2(k) == {j \in Intents : stripe'[j].member = k /\ pay'[j].status = "succeeded"}
<1>11. paid2(m) = paid(m) \cup {i} /\ i \notin paid(m) /\ IsFiniteSet(paid(m))
  <2>1. IsFiniteSet(paid(m))
    BY ContributionsAssumption, FS_Subset
  <2>. QED
    BY <1>2, <1>3, <1>7, <2>1
<1>12. \A k \in Members \ {m} : paid2(k) = paid(k)
  BY <1>2, <1>3, <1>7
<1>13. \A k \in Members : total[k] = Cardinality(paid(k))
  BY DEF Orderly, LedgerAgrees, TotalIsSumOfPayments
<1>. HIDE DEF paid, paid2
<1>14. Cardinality(paid2(m)) = Cardinality(paid(m)) + 1
  BY <1>11, FS_AddElement
<1>15. \A k \in Members : total'[k] = Cardinality(paid2(k))
  BY <1>2, <1>8, <1>12, <1>13, <1>14
<1>16. LedgerAgrees'
  BY <1>10, <1>15 DEF LedgerAgrees, TotalIsSumOfPayments, paid2
<1>17. MissedMeansFailed'
  BY <1>3 DEF Orderly, MissedMeansFailed
<1>. QED
  BY <1>6, <1>9, <1>16, <1>17 DEF Orderly

LEMMA CrashReads == ASSUME IInv, Orderly, Crash PROVE Orderly'
<1>1. UNCHANGED <<day, next, total, missed, ran, stripe, pay, txns>> /\ req' = [r \in Requests |-> Idle]
  BY DEF Crash
<1>2. ASSUME NEW s \in Requests PROVE Reads(s, req[s])'
  <2>1. req'[s] = Idle
    BY <1>1
  <2>. QED
    BY <2>1 DEF Reads, Idle
<1>3. Accounts' /\ LedgerAgrees' /\ MissedMeansFailed'
  BY <1>1 DEF Orderly, Accounts, LedgerAgrees, TotalIsSumOfPayments, MissedMeansFailed
<1>. QED
  BY <1>2, <1>3 DEF Orderly

LEMMA SerialStep == IInv /\ SerialInv /\ [WatchedNext]_<<vars, overlapped>> => SerialInv'
<1>. SUFFICES ASSUME IInv, SerialInv, [WatchedNext]_<<vars, overlapped>>, ~overlapped'
              PROVE  Alone' /\ Orderly'
  BY DEF SerialInv
<1>1. CASE UNCHANGED <<vars, overlapped>>
  BY <1>1 DEF SerialInv, Alone, Busy, Orderly, Accounts, Reads, Failed, LedgerAgrees,
     TotalIsSumOfPayments, MissedMeansFailed, vars
<1>2. CASE WatchedNext
  <2>1. Alone' /\ ~overlapped /\ Next
    BY <1>2 DEF WatchedNext, Overlap, Alone
  <2>2. Alone /\ Orderly
    BY <2>1 DEF SerialInv
  <2>3. CASE Crash
    BY <2>1, <2>2, <2>3, CrashReads
  <2>4. CASE Working
    <3>1. CASE StartDebit \/ Debiting
      BY <2>1, <2>2, <3>1, DebitReads, ChargeReads, PendingReads DEF Debiting
    <3>2. CASE \E r \in Requests : Recording(r)
      BY <2>1, <2>2, <3>2, RecordingReads, StoreReads DEF Recording
    <3>3. CASE (\E m \in Members : MemberPays(m)) \/ (\E i \in Intents : Settle(i)) \/ NextDay
      BY <2>1, <2>2, <3>3, BankReads
    <3>. QED
      BY <2>1, <2>2, <2>4, <3>1, <3>2, <3>3, OutsideReads DEF Working
  <2>. QED
    BY <2>1, <2>3, <2>4 DEF Next
<1>. QED
  BY <1>1, <1>2

LEMMA SerialStart == Init => SerialInv
<1>. SUFFICES ASSUME Init PROVE Alone /\ Orderly
  BY DEF SerialInv
<1>1. \A r \in Requests : req[r] = Idle
  BY DEF Init
<1>2. Alone
  BY <1>1 DEF Alone, Busy, Idle
<1>3. \A r \in Requests : Reads(r, req[r])
  BY <1>1, IdleReads
<1>4. \A i \in Intents : stripe[i] = NewIntent /\ pay[i] = NoPayment /\ txns[i] = 0
  BY DEF Init
<1>5. \A i \in Intents : stripe[i].status = "none" /\ stripe[i].by = "none" /\ pay[i].status = "none"
  BY <1>4 DEF NewIntent, NoPayment
<1>6. Accounts /\ MissedMeansFailed
  BY <1>4, <1>5 DEF Init, Accounts, MissedMeansFailed
<1>7. \A m \in Members : {i \in Intents : stripe[i].member = m /\ pay[i].status = "succeeded"} = {}
  BY <1>5
<1>8. LedgerAgrees
  BY <1>4, <1>5, <1>7, FS_EmptySet DEF Init, LedgerAgrees, TotalIsSumOfPayments
<1>. QED
  BY <1>2, <1>3, <1>6, <1>8 DEF Orderly

\* One request at a time, for any number of members and intents and whatever
\* restarts cut off, each collected payment is booked once and counted once in
\* its member's total, and nobody is flagged without a payment that failed.
THEOREM LedgerAgreesOneAtATime == WatchedSpec => []SerialLedgerAgrees
<1>1. Init => IInv
  BY InitSound
<1>2. IInv /\ [WatchedNext]_<<vars, overlapped>> => IInv'
  BY StepSound DEF WatchedNext, vars
<1>3. IInv /\ SerialInv => SerialLedgerAgrees
  BY DEF SerialInv, Orderly, SerialLedgerAgrees
<1>. QED
  BY <1>1, <1>2, <1>3, SerialStart, SerialStep, PTL DEF WatchedSpec
=============================================================================
