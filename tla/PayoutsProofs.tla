--------------------------- MODULE PayoutsProofs ---------------------------
(***************************************************************************)
(* What holds of the end of a pod for any number of members, payouts,      *)
(* requests and restarts, any number of requests under way at once: a      *)
(* payout is booked once, nobody is shown as paid out without a payout     *)
(* that was delivered or approved, and a completed pod owes nobody one.    *)
(* And for requests that come one at a time: no member has two payouts in  *)
(* progress, and the end of the pod implements PodPayout.                  *)
(***************************************************************************)
EXTENDS PayoutsWatched, TLAPS

\* What is known of a payout belongs to a member, and "succeeded" is final.
StripeSound ==
  \A i \in Intents :
    /\ stripe[i].status = "none" =>
         events[i] = {} /\ payouts[i] = "none" /\ stripe[i].member = Nobody
    /\ stripe[i].status # "none" => stripe[i].member \in Members
    /\ "succeeded" \in events[i] => stripe[i].status = "succeeded"

\* What a request holds at each of its steps, given the payouts and their rows:
\* a status to write for a payout of its member, and on the way to completion
\* some payout of the member that was delivered.
RequestSound(r, q, str, rows) ==
  /\ q.pc # "idle" => q.member \in Members
  /\ q.pc \in {"insert", "record", "write"} =>
       /\ q.intent \in Intents
       /\ q.status # "none"
       /\ str[q.intent].status # "none"
       /\ str[q.intent].member = q.member
       /\ r \in Webhooks /\ q.status = "succeeded" => str[q.intent].status = "succeeded"
  /\ q.pc = "write" => rows[q.intent] # "none"
  /\ q.pc \in {"complete", "finish"} =>
       \E i \in Intents : str[i].member = q.member /\ str[i].status = "succeeded"

IInv ==
  /\ TypeOK
  /\ StripeSound
  /\ \A r \in Requests : RequestSound(r, req[r], stripe, payouts)

-----------------------------------------------------------------------------
(***************************************************************************)
(* Requests and steps                                                      *)
(***************************************************************************)
\* Payouts keep their member and, once they have succeeded, their status; rows
\* are never deleted.
Grown(str, str2) ==
  \A i \in Intents : str[i].status # "none" =>
    /\ str2[i].status # "none"
    /\ str2[i].member = str[i].member
    /\ str[i].status = "succeeded" => str2[i].status = "succeeded"

Kept(rows, rows2) == \A i \in Intents : rows[i] # "none" => rows2[i] # "none"

LEMMA StaysSound ==
  ASSUME NEW r, NEW q, NEW str, NEW str2, NEW rows, NEW rows2,
         RequestSound(r, q, str, rows), Grown(str, str2), Kept(rows, rows2)
  PROVE  RequestSound(r, q, str2, rows2)
<1>1. ASSUME q.pc \in {"complete", "finish"}
      PROVE  \E i \in Intents : str2[i].member = q.member /\ str2[i].status = "succeeded"
  <2>1. PICK i \in Intents : str[i].member = q.member /\ str[i].status = "succeeded"
    BY <1>1 DEF RequestSound
  <2>. QED
    BY <2>1 DEF Grown
<1>2. ASSUME q.pc \in {"insert", "record", "write"}
      PROVE  /\ q.intent \in Intents
             /\ q.status # "none"
             /\ str2[q.intent].status # "none"
             /\ str2[q.intent].member = q.member
             /\ r \in Webhooks /\ q.status = "succeeded" => str2[q.intent].status = "succeeded"
  BY <1>2 DEF RequestSound, Grown
<1>3. q.pc = "write" => rows2[q.intent] # "none"
  BY <1>2 DEF RequestSound, Kept
<1>4. q.pc # "idle" => q.member \in Members
  BY DEF RequestSound
<1>. QED
  BY <1>1, <1>2, <1>3, <1>4 DEF RequestSound

LEMMA IdleSound ==
  ASSUME NEW r, NEW str, NEW rows
  PROVE  Idle \in Request /\ RequestSound(r, Idle, str, rows)
  BY DEF Idle, Request, Pc, RowStatus, RequestSound

\* One request moves to a sound state, and what the others hold stays true.
LEMMA OneMoves ==
  ASSUME IInv, NEW r \in Requests, NEW q \in Request,
         req' = [req EXCEPT ![r] = q],
         Grown(stripe, stripe'), Kept(payouts, payouts'),
         RequestSound(r, q, stripe', payouts')
  PROVE  /\ req' \in [Requests -> Request]
         /\ \A s \in Requests : RequestSound(s, req'[s], stripe', payouts')
<1>1. req' \in [Requests -> Request]
  BY DEF IInv, TypeOK
<1>2. ASSUME NEW s \in Requests
      PROVE  RequestSound(s, req'[s], stripe', payouts')
  <2>1. CASE s = r
    BY <2>1 DEF IInv, TypeOK
  <2>2. CASE s # r
    <3>1. req'[s] = req[s]
      BY <2>2 DEF IInv, TypeOK
    <3>2. RequestSound(s, req[s], stripe, payouts)
      BY DEF IInv
    <3>. QED
      BY <3>1, <3>2, StaysSound
  <2>. QED
    BY <2>1, <2>2
<1>. QED
  BY <1>1, <1>2

\* A step that leaves Stripe and the tables as they are.
LEMMA QuietStep ==
  ASSUME IInv, NEW r \in Requests, NEW q \in Request,
         req' = [req EXCEPT ![r] = q],
         RequestSound(r, q, stripe, payouts),
         UNCHANGED <<tables, stripe, events, crashes, history>>
  PROVE  IInv'
<1>1. /\ stripe' = stripe /\ events' = events /\ payouts' = payouts /\ txns' = txns
      /\ podStatus' = podStatus /\ paidOut' = paidOut /\ crashes' = crashes
      /\ approved' = approved /\ withdrawn' = withdrawn
  BY DEF tables, history
<1>2. Grown(stripe, stripe') /\ Kept(payouts, payouts')
  BY <1>1 DEF Grown, Kept
<1>3. /\ req' \in [Requests -> Request]
      /\ \A s \in Requests : RequestSound(s, req'[s], stripe', payouts')
  BY <1>1, <1>2, OneMoves
<1>4. TypeOK'
  BY <1>1, <1>3 DEF IInv, TypeOK
<1>5. StripeSound'
  BY <1>1 DEF IInv, StripeSound
<1>. QED
  BY <1>3, <1>4, <1>5 DEF IInv

LEMMA InitSound == Init => IInv
<1>. SUFFICES ASSUME Init PROVE IInv
  OBVIOUS
<1>1. TypeOK
  BY IdleSound, PayoutsAssumption
     DEF Init, TypeOK, NewIntent, StripePayout, RowStatus, Final
<1>2. StripeSound
  BY DEF Init, StripeSound, NewIntent
<1>3. \A r \in Requests : RequestSound(r, req[r], stripe, payouts)
  BY IdleSound DEF Init
<1>. QED
  BY <1>1, <1>2, <1>3 DEF IInv

-----------------------------------------------------------------------------
(***************************************************************************)
(* Each action keeps the invariant                                         *)
(***************************************************************************)
LEMMA StartTriggerSound ==
  ASSUME IInv, NEW r \in Triggers, NEW m \in Members, StartTrigger(r, m)
  PROVE  IInv'
<1>. DEFINE q == [Idle EXCEPT !.pc = "create", !.member = m]
<1>1. q \in Request /\ RequestSound(r, q, stripe, payouts)
  BY DEF Idle, Request, Pc, RowStatus, RequestSound
<1>2. req' = [req EXCEPT ![r] = q] /\ UNCHANGED <<tables, stripe, events, crashes, history>>
  BY DEF StartTrigger
<1>3. r \in Requests
  BY DEF Requests
<1>. HIDE DEF q
<1>. QED
  BY <1>1, <1>2, <1>3, QuietStep

LEMMA CreatePaymentSound ==
  ASSUME IInv, NEW r \in Requests, CreatePayment(r)
  PROVE  IInv'
<1>1. CASE req' = [req EXCEPT ![r] = Idle] /\ UNCHANGED stripe
  BY <1>1, IdleSound, QuietStep DEF CreatePayment
<1>2. CASE \E i \in Intents :
          /\ stripe[i] = NewIntent
          /\ stripe' = [stripe EXCEPT ![i] =
               [status |-> "processing", member |-> req[r].member]]
          /\ req' = [req EXCEPT ![r] =
               [@ EXCEPT !.pc = "insert", !.intent = i, !.status = "processing"]]
  <2>1. PICK i \in Intents :
          /\ stripe[i] = NewIntent
          /\ stripe' = [stripe EXCEPT ![i] =
               [status |-> "processing", member |-> req[r].member]]
          /\ req' = [req EXCEPT ![r] =
               [@ EXCEPT !.pc = "insert", !.intent = i, !.status = "processing"]]
    BY <1>2
  <2>. DEFINE old == req[r]
              q == [old EXCEPT !.pc = "insert", !.intent = i, !.status = "processing"]
  <2>2. old \in Request /\ old.pc = "create" /\ old.member \in Members
    BY DEF IInv, TypeOK, RequestSound, CreatePayment
  <2>3. /\ q \in Request
        /\ q.pc = "insert" /\ q.intent = i /\ q.status = "processing" /\ q.member = old.member
    BY <2>2 DEF Request, Pc, RowStatus
  <2>4. req' = [req EXCEPT ![r] = q]
    BY <2>1 DEF IInv, TypeOK
  <2>5. /\ events' = events /\ payouts' = payouts /\ txns' = txns
        /\ podStatus' = podStatus /\ paidOut' = paidOut /\ crashes' = crashes
        /\ approved' = approved /\ withdrawn' = withdrawn
    BY DEF CreatePayment, tables, history
  <2>. DEFINE n == [status |-> "processing", member |-> old.member]
  <2>6. n \in StripePayout /\ n.status = "processing" /\ n.member = old.member
    BY <2>2 DEF StripePayout
  <2>7. stripe' = [stripe EXCEPT ![i] = n]
    BY <2>1
  <2>8. stripe \in [Intents -> StripePayout]
    BY DEF IInv, TypeOK
  <2>. HIDE DEF q, n, old
  <2>9. /\ stripe' \in [Intents -> StripePayout] /\ stripe'[i] = n
        /\ \A j \in Intents \ {i} : stripe'[j] = stripe[j]
    BY <2>6, <2>7, <2>8
  <2>10. stripe[i].status = "none"
    BY <2>1 DEF NewIntent
  <2>11. Grown(stripe, stripe') /\ Kept(payouts, payouts')
    BY <2>5, <2>9, <2>10 DEF Grown, Kept
  <2>12. RequestSound(r, q, stripe', payouts')
    BY <2>2, <2>3, <2>6, <2>9 DEF RequestSound
  <2>13. /\ req' \in [Requests -> Request]
         /\ \A s \in Requests : RequestSound(s, req'[s], stripe', payouts')
    BY <2>3, <2>4, <2>11, <2>12, OneMoves
  <2>14. StripeSound'
    BY <2>2, <2>5, <2>6, <2>9, <2>10 DEF IInv, StripeSound
  <2>15. TypeOK'
    BY <2>5, <2>9, <2>13 DEF IInv, TypeOK
  <2>. QED
    BY <2>13, <2>14, <2>15 DEF IInv
<1>. QED
  BY <1>1, <1>2 DEF CreatePayment

\* A step that changes rows of the tables but nothing at Stripe.
LEMMA TableStep ==
  ASSUME IInv, NEW r \in Requests, NEW q \in Request,
         req' = [req EXCEPT ![r] = q],
         RequestSound(r, q, stripe, payouts'),
         Kept(payouts, payouts'),
         \A i \in Intents : stripe[i].status = "none" => payouts'[i] = payouts[i],
         podStatus' \in {"active", "completed"},
         paidOut' \in [Members -> BOOLEAN],
         payouts' \in [Intents -> RowStatus],
         txns' \in [Intents -> Nat],
         approved' \subseteq Intents, withdrawn' \subseteq Members,
         UNCHANGED <<stripe, events, crashes>>
  PROVE  IInv'
<1>1. stripe' = stripe /\ events' = events /\ crashes' = crashes
  OBVIOUS
<1>2. Grown(stripe, stripe')
  BY <1>1 DEF Grown
<1>3. /\ req' \in [Requests -> Request]
      /\ \A s \in Requests : RequestSound(s, req'[s], stripe', payouts')
  BY <1>1, <1>2, OneMoves
<1>4. TypeOK'
  BY <1>1, <1>3 DEF IInv, TypeOK
<1>5. StripeSound'
  BY <1>1 DEF IInv, StripeSound
<1>. QED
  BY <1>3, <1>4, <1>5 DEF IInv

\* A request that has its payout on record ends or goes on to the completion of
\* a member with a payout that was delivered.
LEMMA OnwardSound ==
  ASSUME NEW r \in Requests, NEW q \in Request, NEW str, NEW rows,
         q.pc \in {"insert", "write"}, RequestSound(r, q, str, rows)
  PROVE  /\ Onward(r, q) \in Request
         /\ \A rows2 : RequestSound(r, Onward(r, q), str, rows2)
<1>1. CASE MustComplete(r, q)
  <2>. DEFINE n == [Idle EXCEPT !.pc = "complete", !.member = q.member]
  <2>1. r \in Webhooks /\ q.status = "succeeded"
    BY <1>1 DEF MustComplete
  <2>2. q.member \in Members /\ q.intent \in Intents /\ str[q.intent].member = q.member
        /\ str[q.intent].status = "succeeded"
    BY <2>1 DEF RequestSound
  <2>3. n \in Request /\ n.pc = "complete" /\ n.member = q.member
    BY <2>2 DEF Idle, Request, Pc, RowStatus
  <2>4. Onward(r, q) = n
    BY <1>1 DEF Onward
  <2>. HIDE DEF n
  <2>. QED
    BY <2>2, <2>3, <2>4 DEF RequestSound
<1>2. CASE ~MustComplete(r, q)
  BY <1>2, IdleSound DEF Onward
<1>. QED
  BY <1>1, <1>2

LEMMA InsertSound ==
  ASSUME IInv, NEW r \in Requests, Insert(r)
  PROVE  IInv'
<1>. DEFINE q == req[r]
<1>1. q \in Request /\ q.pc = "insert" /\ RequestSound(r, q, stripe, payouts)
  BY DEF IInv, TypeOK, Insert
<1>2. q.intent \in Intents /\ q.status # "none" /\ stripe[q.intent].status # "none"
      /\ q.status \in RowStatus
  BY <1>1 DEF RequestSound, Request
<1>3. CASE Taken(q.intent)
  <2>1. req' = [req EXCEPT ![r] = Idle] /\ UNCHANGED <<tables, stripe, events, crashes, history>>
    BY <1>3 DEF Insert, tables, history
  <2>. QED
    BY <2>1, IdleSound, QuietStep
<1>4. CASE ~Taken(q.intent)
  <2>. DEFINE o == Onward(r, q)
  <2>1. /\ payouts' = [payouts EXCEPT ![q.intent] = q.status]
        /\ txns' = [txns EXCEPT ![q.intent] = @ + 1]
        /\ req' = [req EXCEPT ![r] = o]
    BY <1>4 DEF Insert
  <2>2. /\ podStatus' = podStatus /\ paidOut' = paidOut
        /\ approved' = approved /\ withdrawn' = withdrawn
        /\ UNCHANGED <<stripe, events, crashes>>
    BY DEF Insert, history
  <2>3. o \in Request /\ RequestSound(r, o, stripe, payouts')
    BY <1>1, OnwardSound
  <2>4. TypeOK
    BY DEF IInv
  <2>. HIDE DEF o, q
  <2>5. payouts' \in [Intents -> RowStatus] /\ txns' \in [Intents -> Nat]
    BY <1>2, <2>1, <2>4 DEF TypeOK
  <2>6. Kept(payouts, payouts')
    BY <1>2, <2>1, <2>4 DEF Kept, TypeOK
  <2>7. \A i \in Intents : stripe[i].status = "none" => payouts'[i] = payouts[i]
    BY <1>2, <2>1, <2>4 DEF TypeOK
  <2>8. /\ podStatus' \in {"active", "completed"} /\ paidOut' \in [Members -> BOOLEAN]
        /\ approved' \subseteq Intents /\ withdrawn' \subseteq Members
    BY <2>2, <2>4 DEF TypeOK
  <2>. QED
    BY <2>1, <2>2, <2>3, <2>5, <2>6, <2>7, <2>8, TableStep
<1>. QED
  BY <1>3, <1>4

LEMMA RecordPayoutSound ==
  ASSUME IInv, NEW r \in Requests, RecordPayout(r)
  PROVE  IInv'
<1>. DEFINE q == req[r]
            n == [q EXCEPT !.pc = "insert", !.paid = paidOut[q.member]]
<1>1. q \in Request /\ q.pc = "record" /\ RequestSound(r, q, stripe, payouts)
  BY DEF IInv, TypeOK, RecordPayout
<1>2. q.member \in Members /\ paidOut[q.member] \in BOOLEAN
  BY <1>1 DEF RequestSound, IInv, TypeOK
<1>3. n \in Request /\ n.pc = "insert" /\ n.intent = q.intent /\ n.member = q.member
      /\ n.status = q.status
  BY <1>1, <1>2 DEF Request, Pc
<1>4. UNCHANGED <<tables, stripe, events, crashes, history>>
      /\ req' = [req EXCEPT ![r] = IF Recorded(q.intent) THEN Idle ELSE n]
  BY DEF RecordPayout
<1>. HIDE DEF n, q
<1>5. RequestSound(r, n, stripe, payouts)
  BY <1>1, <1>2, <1>3 DEF RequestSound
<1>6. CASE Recorded(q.intent)
  BY <1>4, <1>6, IdleSound, QuietStep
<1>7. CASE ~Recorded(q.intent)
  BY <1>3, <1>4, <1>5, <1>7, QuietStep
<1>. QED
  BY <1>6, <1>7

LEMMA StartPostSound ==
  ASSUME IInv, NEW r \in Posts, NEW i \in Intents,
         NEW s \in {"processing", "succeeded", "failed"}, StartPost(r, i, s)
  PROVE  IInv'
<1>. DEFINE n == [Idle EXCEPT !.pc = "record", !.intent = i,
                              !.member = stripe[i].member, !.status = s]
<1>1. stripe[i].status # "none" /\ stripe[i].member \in Members
  BY DEF StartPost, IInv, StripeSound
<1>2. r \in Requests /\ r \notin Webhooks
  BY PayoutsAssumption DEF Requests
<1>3. n \in Request /\ n.pc = "record" /\ n.intent = i /\ n.member = stripe[i].member
      /\ n.status # "none"
  BY <1>1 DEF Idle, Request, Pc, RowStatus, Final
<1>4. req' = [req EXCEPT ![r] = n] /\ UNCHANGED <<tables, stripe, events, crashes, history>>
  BY DEF StartPost
<1>. HIDE DEF n
<1>5. RequestSound(r, n, stripe, payouts)
  BY <1>1, <1>2, <1>3 DEF RequestSound
<1>. QED
  BY <1>2, <1>3, <1>4, <1>5, QuietStep

LEMMA StartMarkSound ==
  ASSUME IInv, NEW r \in Admins, NEW m \in Members, StartMark(r, m)
  PROVE  IInv'
<1>. DEFINE n == [Idle EXCEPT !.pc = "mark", !.member = m, !.paid = paidOut[m]]
<1>1. r \in Requests /\ paidOut[m] \in BOOLEAN
  BY DEF Requests, IInv, TypeOK
<1>2. n \in Request /\ n.pc = "mark" /\ n.member = m
  BY <1>1 DEF Idle, Request, Pc, RowStatus
<1>3. req' = [req EXCEPT ![r] = n] /\ UNCHANGED <<tables, stripe, events, crashes, history>>
  BY DEF StartMark
<1>. HIDE DEF n
<1>4. RequestSound(r, n, stripe, payouts)
  BY <1>2 DEF RequestSound
<1>. QED
  BY <1>1, <1>2, <1>3, <1>4, QuietStep

LEMMA StartWebhookSound ==
  ASSUME IInv, NEW r \in Webhooks, NEW i \in Intents, NEW s \in Final, StartWebhook(r, i, s)
  PROVE  IInv'
<1>. DEFINE n == [Idle EXCEPT !.pc = IF Recorded(i) THEN "write" ELSE "record", !.intent = i,
                              !.member = stripe[i].member, !.status = s, !.found = payouts[i],
                              !.paid = Recorded(i) /\ paidOut[stripe[i].member]]
<1>1. s \in events[i] /\ r \in Requests
  BY DEF StartWebhook, Requests
<1>2. stripe[i].status # "none"
  BY <1>1 DEF IInv, StripeSound
<1>3. stripe[i].member \in Members
  BY <1>2 DEF IInv, StripeSound
<1>4. s = "succeeded" => stripe[i].status = "succeeded"
  BY <1>1 DEF IInv, StripeSound
<1>5. paidOut[stripe[i].member] \in BOOLEAN /\ payouts[i] \in RowStatus
  BY <1>3 DEF IInv, TypeOK
<1>6. Recorded(i) \in BOOLEAN /\ (Recorded(i) /\ paidOut[stripe[i].member]) \in BOOLEAN
  BY <1>5 DEF Recorded
<1>7. s \in RowStatus /\ s # "none"
  BY DEF RowStatus, Final
<1>8. n \in Request /\ n.pc = (IF Recorded(i) THEN "write" ELSE "record") /\ n.intent = i
      /\ n.member = stripe[i].member /\ n.status = s
  BY <1>3, <1>5, <1>6, <1>7 DEF Idle, Request, Pc
<1>9. req' = [req EXCEPT ![r] = n] /\ UNCHANGED <<tables, stripe, events, crashes, history>>
  BY DEF StartWebhook
<1>. HIDE DEF n
<1>10. RequestSound(r, n, stripe, payouts)
  BY <1>2, <1>3, <1>4, <1>7, <1>8 DEF RequestSound, Recorded
<1>. QED
  BY <1>1, <1>8, <1>9, <1>10, QuietStep

LEMMA StartUpdateSound ==
  ASSUME IInv, NEW r \in Admins, NEW i \in Intents,
         NEW c \in {"success", "failed", "other"}, StartUpdate(r, i, c)
  PROVE  IInv'
<1>. DEFINE n == [Idle EXCEPT !.pc = "write", !.intent = i, !.member = stripe[i].member,
                    !.status = resolveStatus(c), !.found = payouts[i],
                    !.paid = paidOut[stripe[i].member], !.decides = c # "other"]
<1>1. payouts[i] # "none"
  BY DEF StartUpdate, Recorded
<1>2. stripe[i].status # "none"
  BY <1>1 DEF IInv, StripeSound
<1>3. stripe[i].member \in Members
  BY <1>2 DEF IInv, StripeSound
<1>4. r \in Requests /\ r \notin Webhooks
  BY PayoutsAssumption DEF Requests
<1>5. resolveStatus(c) \in RowStatus /\ resolveStatus(c) # "none"
  BY DEF resolveStatus, RowStatus, Final
<1>6. paidOut[stripe[i].member] \in BOOLEAN /\ payouts[i] \in RowStatus /\ (c # "other") \in BOOLEAN
  BY <1>3 DEF IInv, TypeOK
<1>7. n \in Request /\ n.pc = "write" /\ n.intent = i /\ n.member = stripe[i].member
      /\ n.status # "none"
  BY <1>3, <1>5, <1>6 DEF Idle, Request, Pc
<1>8. req' = [req EXCEPT ![r] = n] /\ UNCHANGED <<tables, stripe, events, crashes, history>>
  BY DEF StartUpdate
<1>. HIDE DEF n
<1>9. RequestSound(r, n, stripe, payouts)
  BY <1>1, <1>2, <1>3, <1>4, <1>7 DEF RequestSound
<1>. QED
  BY <1>4, <1>7, <1>8, <1>9, QuietStep

LEMMA WriteStatusSound ==
  ASSUME IInv, NEW r \in Requests, WriteStatus(r)
  PROVE  IInv'
<1>. DEFINE q == req[r]
            o == Onward(r, q)
<1>1. q \in Request /\ q.pc = "write" /\ RequestSound(r, q, stripe, payouts)
  BY DEF IInv, TypeOK, WriteStatus
<1>2. /\ q.intent \in Intents /\ q.member \in Members
      /\ q.status \in RowStatus /\ q.status # "none" /\ stripe[q.intent].status # "none"
      /\ q.paid \in BOOLEAN
  BY <1>1 DEF RequestSound, Request
<1>3. /\ payouts' = [payouts EXCEPT ![q.intent] = IF q.found = q.status THEN @ ELSE q.status]
      /\ paidOut' = IF q.decides
                    THEN [paidOut EXCEPT ![q.member] = Written(@, q.paid, q.status = "succeeded")]
                    ELSE paidOut
      /\ approved' = IF q.decides /\ q.status = "succeeded" THEN approved \cup {q.intent} ELSE approved
      /\ withdrawn' = IF q.decides /\ q.status # "succeeded" THEN withdrawn \cup {q.member} ELSE withdrawn
      /\ req' = [req EXCEPT ![r] = o]
      /\ podStatus' = podStatus /\ txns' = txns
      /\ UNCHANGED <<stripe, events, crashes>>
  BY DEF WriteStatus
<1>4. o \in Request /\ RequestSound(r, o, stripe, payouts')
  BY <1>1, OnwardSound
<1>5. TypeOK
  BY DEF IInv
<1>. HIDE DEF q, o
<1>6. payouts' \in [Intents -> RowStatus]
  BY <1>2, <1>3, <1>5 DEF TypeOK
<1>7. Kept(payouts, payouts')
  BY <1>2, <1>3, <1>5 DEF Kept, TypeOK
<1>8. \A i \in Intents : stripe[i].status = "none" => payouts'[i] = payouts[i]
  BY <1>2, <1>3, <1>5 DEF TypeOK
<1>9. paidOut' \in [Members -> BOOLEAN]
  <2>1. paidOut \in [Members -> BOOLEAN]
    BY <1>5 DEF TypeOK
  <2>2. Written(paidOut[q.member], q.paid, q.status = "succeeded") \in BOOLEAN
    BY <2>1, <1>2 DEF Written
  <2>. QED
    BY <2>1, <2>2, <1>3
<1>10. /\ podStatus' \in {"active", "completed"} /\ txns' \in [Intents -> Nat]
       /\ approved' \subseteq Intents /\ withdrawn' \subseteq Members
  BY <1>2, <1>3, <1>5 DEF TypeOK
<1>. QED
  BY <1>3, <1>4, <1>6, <1>7, <1>8, <1>9, <1>10, TableStep

LEMMA FindMembershipsSound ==
  ASSUME IInv, NEW r \in Requests, FindMemberships(r)
  PROVE  IInv'
<1>. DEFINE q == req[r]
            n == [q EXCEPT !.pc = "finish", !.all = AllPaid(q.member)]
<1>1. q \in Request /\ q.pc = "complete" /\ RequestSound(r, q, stripe, payouts)
  BY DEF IInv, TypeOK, FindMemberships
<1>2. AllPaid(q.member) \in BOOLEAN
  BY DEF AllPaid
<1>3. n \in Request /\ n.pc = "finish" /\ n.member = q.member
  BY <1>1, <1>2 DEF Request, Pc
<1>4. req' = [req EXCEPT ![r] = n] /\ UNCHANGED <<tables, stripe, events, crashes, history>>
  BY DEF FindMemberships
<1>. HIDE DEF n, q
<1>5. RequestSound(r, n, stripe, payouts)
  BY <1>1, <1>3 DEF RequestSound
<1>. QED
  BY <1>3, <1>4, <1>5, QuietStep

LEMMA CompleteMembershipSound ==
  ASSUME IInv, NEW r \in Requests, CompleteMembership(r)
  PROVE  IInv'
<1>. DEFINE q == req[r]
<1>1. /\ paidOut' = [paidOut EXCEPT ![q.member] = TRUE]
      /\ podStatus' = (IF q.all THEN "completed" ELSE podStatus)
      /\ req' = [req EXCEPT ![r] = Idle]
      /\ payouts' = payouts /\ txns' = txns /\ approved' = approved /\ withdrawn' = withdrawn
      /\ UNCHANGED <<stripe, events, crashes>>
  BY DEF CompleteMembership, history
<1>2. TypeOK
  BY DEF IInv
<1>. HIDE DEF q
<1>3. /\ podStatus' \in {"active", "completed"} /\ paidOut' \in [Members -> BOOLEAN]
      /\ payouts' \in [Intents -> RowStatus] /\ txns' \in [Intents -> Nat]
      /\ approved' \subseteq Intents /\ withdrawn' \subseteq Members
  BY <1>1, <1>2 DEF TypeOK
<1>4. Kept(payouts, payouts')
  BY <1>1 DEF Kept
<1>. QED
  BY <1>1, <1>3, <1>4, IdleSound, TableStep

LEMMA MarkPaidSound ==
  ASSUME IInv, NEW r \in Requests, MarkPaid(r)
  PROVE  IInv'
<1>. DEFINE q == req[r]
<1>1. q \in Request /\ q.pc = "mark" /\ q.member \in Members /\ q.paid \in BOOLEAN
  BY DEF IInv, TypeOK, RequestSound, MarkPaid, Request
<1>2. /\ paidOut' = [paidOut EXCEPT ![q.member] = Written(@, q.paid, FALSE)]
      /\ withdrawn' = withdrawn \cup {q.member}
      /\ podStatus' = podStatus /\ payouts' = payouts /\ txns' = txns /\ events' = events
      /\ crashes' = crashes /\ approved' = approved
  BY DEF MarkPaid
<1>3. TypeOK
  BY DEF IInv
<1>4. Kept(payouts, payouts')
  BY <1>2 DEF Kept
<1>5. CASE req' = [req EXCEPT ![r] = Idle] /\ UNCHANGED stripe
  <2>1. paidOut' \in [Members -> BOOLEAN] /\ withdrawn' \subseteq Members
    BY <1>1, <1>2, <1>3 DEF TypeOK, Written
  <2>2. /\ podStatus' \in {"active", "completed"} /\ payouts' \in [Intents -> RowStatus]
        /\ txns' \in [Intents -> Nat] /\ approved' \subseteq Intents
    BY <1>2, <1>3 DEF TypeOK
  <2>3. \A i \in Intents : stripe[i].status = "none" => payouts'[i] = payouts[i]
    BY <1>2
  <2>4. UNCHANGED <<stripe, events, crashes>> /\ RequestSound(r, Idle, stripe, payouts')
    BY <1>2, <1>5, IdleSound
  <2>. QED
    BY <1>4, <1>5, <2>1, <2>2, <2>3, <2>4, IdleSound, TableStep
<1>6. CASE \E i \in Intents :
          /\ stripe[i] = NewIntent
          /\ stripe' = [stripe EXCEPT ![i] = [status |-> "manual", member |-> q.member]]
          /\ req' = [req EXCEPT ![r] =
               [Idle EXCEPT !.pc = "record", !.member = q.member, !.intent = i,
                            !.status = "processing"]]
  <2>1. PICK i \in Intents :
          /\ stripe[i] = NewIntent
          /\ stripe' = [stripe EXCEPT ![i] = [status |-> "manual", member |-> q.member]]
          /\ req' = [req EXCEPT ![r] =
               [Idle EXCEPT !.pc = "record", !.member = q.member, !.intent = i,
                            !.status = "processing"]]
    BY <1>6
  <2>. DEFINE n == [Idle EXCEPT !.pc = "record", !.member = q.member, !.intent = i,
                                !.status = "processing"]
              new == [status |-> "manual", member |-> q.member]
  <2>2. /\ n \in Request /\ n.pc = "record" /\ n.member = q.member /\ n.intent = i
        /\ n.status = "processing"
    BY <1>1 DEF Idle, Request, Pc, RowStatus
  <2>3. new \in StripePayout /\ new.status = "manual" /\ new.member = q.member
    BY <1>1 DEF StripePayout
  <2>4. stripe' = [stripe EXCEPT ![i] = new] /\ req' = [req EXCEPT ![r] = n]
        /\ stripe[i].status = "none"
    BY <2>1 DEF NewIntent
  <2>. HIDE DEF n, new, q
  <2>5. /\ stripe' \in [Intents -> StripePayout] /\ stripe'[i] = new
        /\ \A j \in Intents \ {i} : stripe'[j] = stripe[j]
    BY <1>3, <2>3, <2>4 DEF TypeOK
  <2>6. Grown(stripe, stripe')
    BY <2>4, <2>5 DEF Grown
  <2>7. RequestSound(r, n, stripe', payouts')
    BY <1>1, <2>2, <2>3, <2>5 DEF RequestSound
  <2>8. /\ req' \in [Requests -> Request]
        /\ \A s \in Requests : RequestSound(s, req'[s], stripe', payouts')
    BY <1>4, <2>2, <2>4, <2>6, <2>7, OneMoves
  <2>9. StripeSound'
    BY <1>1, <1>2, <2>3, <2>4, <2>5 DEF IInv, StripeSound
  <2>10. paidOut' \in [Members -> BOOLEAN] /\ withdrawn' \subseteq Members
    BY <1>1, <1>2, <1>3 DEF TypeOK, Written
  <2>11. TypeOK'
    BY <1>2, <1>3, <2>5, <2>8, <2>10 DEF TypeOK
  <2>. QED
    BY <2>8, <2>9, <2>11 DEF IInv
<1>. QED
  BY <1>5, <1>6 DEF MarkPaid

LEMMA SettleSound ==
  ASSUME IInv, NEW i \in Intents, Settle(i)
  PROVE  IInv'
<1>1. PICK s \in Final :
        /\ \/ stripe[i].status = "processing"
           \/ stripe[i].status = "requires_payment_method" /\ s = "canceled"
        /\ stripe' = [stripe EXCEPT ![i].status = s]
        /\ events' = [events EXCEPT ![i] = @ \cup {s}]
  BY DEF Settle
<1>2. /\ payouts' = payouts /\ txns' = txns /\ podStatus' = podStatus /\ paidOut' = paidOut
      /\ req' = req /\ crashes' = crashes /\ approved' = approved /\ withdrawn' = withdrawn
  BY DEF Settle, tables, history
<1>. DEFINE old == stripe[i]
            new == [old EXCEPT !.status = s]
<1>3. old \in StripePayout /\ old.status \notin {"none", "succeeded"}
  BY <1>1 DEF IInv, TypeOK
<1>4. new \in StripePayout /\ new.status = s /\ new.member = old.member
  BY <1>3 DEF StripePayout
<1>5. stripe \in [Intents -> StripePayout] /\ events \in [Intents -> SUBSET Final]
  BY DEF IInv, TypeOK
<1>6. stripe' = [stripe EXCEPT ![i] = new]
  BY <1>1, <1>5
<1>. HIDE DEF new
<1>7. /\ stripe' \in [Intents -> StripePayout] /\ stripe'[i] = new
      /\ \A j \in Intents \ {i} : stripe'[j] = stripe[j]
  BY <1>4, <1>5, <1>6
<1>8. /\ events' \in [Intents -> SUBSET Final] /\ events'[i] = events[i] \cup {s}
      /\ \A j \in Intents \ {i} : events'[j] = events[j]
  BY <1>1, <1>5
<1>9. s # "none"
  BY DEF Final
<1>10. Grown(stripe, stripe') /\ Kept(payouts, payouts')
  BY <1>2, <1>3, <1>4, <1>7, <1>9 DEF Grown, Kept
<1>11. \A r \in Requests : RequestSound(r, req'[r], stripe', payouts')
  BY <1>2, <1>10, StaysSound DEF IInv
<1>12. StripeSound'
  BY <1>2, <1>3, <1>4, <1>7, <1>8, <1>9 DEF IInv, StripeSound
<1>13. TypeOK'
  BY <1>2, <1>7, <1>8 DEF IInv, TypeOK
<1>. QED
  BY <1>11, <1>12, <1>13 DEF IInv

LEMMA CrashSound ==
  ASSUME IInv, Crash
  PROVE  IInv'
<1>1. /\ payouts' = payouts /\ txns' = txns /\ podStatus' = podStatus /\ paidOut' = paidOut
      /\ stripe' = stripe /\ events' = events /\ approved' = approved /\ withdrawn' = withdrawn
  BY DEF Crash, tables, history
<1>2. crashes' \in 0..MaxCrashes
  BY PayoutsAssumption DEF Crash, IInv, TypeOK
<1>3. req' = [r \in Requests |-> Idle]
  BY DEF Crash
<1>4. TypeOK'
  BY <1>1, <1>2, <1>3, IdleSound DEF IInv, TypeOK
<1>5. StripeSound'
  BY <1>1 DEF IInv, StripeSound
<1>6. \A r \in Requests : RequestSound(r, req'[r], stripe', payouts')
  BY <1>3, IdleSound
<1>. QED
  BY <1>4, <1>5, <1>6 DEF IInv

LEMMA StutterSound ==
  ASSUME IInv, UNCHANGED vars
  PROVE  IInv'
  BY DEF IInv, TypeOK, StripeSound, vars, tables, history

LEMMA NextSound == IInv /\ [Next]_vars => IInv'
<1>. SUFFICES ASSUME IInv, [Next]_vars PROVE IInv'
  OBVIOUS
<1>1. CASE \E r \in Triggers, m \in Members : StartTrigger(r, m)
  BY <1>1, StartTriggerSound
<1>2. CASE \E r \in Posts, i \in Intents, s \in {"processing", "succeeded", "failed"} :
             StartPost(r, i, s)
  BY <1>2, StartPostSound
<1>3. CASE \E r \in Admins, m \in Members : StartMark(r, m)
  BY <1>3, StartMarkSound
<1>4. CASE \E r \in Admins, i \in Intents, c \in {"success", "failed", "other"} :
             StartUpdate(r, i, c)
  BY <1>4, StartUpdateSound
<1>5. CASE \E r \in Webhooks, i \in Intents, s \in Final : StartWebhook(r, i, s)
  BY <1>5, StartWebhookSound
<1>6. CASE \E r \in Requests : Step(r)
  BY <1>6, CreatePaymentSound, InsertSound, RecordPayoutSound, MarkPaidSound,
     WriteStatusSound, FindMembershipsSound, CompleteMembershipSound DEF Step
<1>7. CASE \E i \in Intents : Settle(i)
  BY <1>7, SettleSound
<1>8. CASE Crash
  BY <1>8, CrashSound
<1>9. CASE UNCHANGED vars
  BY <1>9, StutterSound
<1>. QED
  BY <1>1, <1>2, <1>3, <1>4, <1>5, <1>6, <1>7, <1>8, <1>9 DEF Next

\* Every row, request and flag has its type throughout, the history's included.
THEOREM TypeCorrect == Spec => []TypeOK
<1>1. IInv => TypeOK
  BY DEF IInv
<1>. QED
  BY <1>1, InitSound, NextSound, PTL DEF Spec

-----------------------------------------------------------------------------
(***************************************************************************)
(* Booked once                                                             *)
(***************************************************************************)
\* Only an insert adds to the ledger, and other writes are to rows on record.
LEMMA BookedStep ==
  ASSUME IInv, BookedOnce, [Next]_vars
  PROVE  BookedOnce'
<1>. USE DEF Recorded
<1>1. payouts \in [Intents -> RowStatus] /\ txns \in [Intents -> Nat]
  BY DEF IInv, TypeOK
<1>2. CASE payouts' = payouts /\ txns' = txns
  BY <1>2 DEF BookedOnce
<1>3. ASSUME NEW r \in Requests, Insert(r)
      PROVE  BookedOnce'
  <2>. DEFINE q == req[r]
  <2>1. q.pc = "insert" /\ RequestSound(r, q, stripe, payouts)
    BY <1>3 DEF IInv, Insert
  <2>2. q.intent \in Intents /\ q.status # "none"
    BY <2>1 DEF RequestSound
  <2>3. CASE Taken(q.intent)
    BY <1>2, <1>3, <2>3 DEF Insert
  <2>4. CASE ~Taken(q.intent)
    <3>1. /\ payouts' = [payouts EXCEPT ![q.intent] = q.status]
          /\ txns' = [txns EXCEPT ![q.intent] = @ + 1]
      BY <1>3, <2>4 DEF Insert
    <3>2. txns[q.intent] = 0
      BY <2>2, <2>4 DEF BookedOnce, Taken
    <3>. HIDE DEF q
    <3>. QED
      BY <1>1, <2>2, <3>1, <3>2 DEF BookedOnce
  <2>. QED
    BY <2>3, <2>4
<1>4. ASSUME NEW r \in Requests, WriteStatus(r)
      PROVE  BookedOnce'
  <2>. DEFINE q == req[r]
  <2>1. q.pc = "write" /\ RequestSound(r, q, stripe, payouts)
    BY <1>4 DEF IInv, WriteStatus
  <2>2. q.intent \in Intents /\ q.status # "none" /\ payouts[q.intent] # "none"
    BY <2>1 DEF RequestSound
  <2>3. /\ payouts' = [payouts EXCEPT ![q.intent] = IF q.found = q.status THEN @ ELSE q.status]
        /\ txns' = txns
    BY <1>4 DEF WriteStatus
  <2>. HIDE DEF q
  <2>. QED
    BY <1>1, <2>2, <2>3 DEF BookedOnce
<1>. QED
  BY <1>2, <1>3, <1>4 DEF Next, Step, StartTrigger, StartPost, StartMark, StartUpdate,
     StartWebhook, CreatePayment, RecordPayout, MarkPaid, FindMemberships,
     CompleteMembership, Settle, Crash, vars, tables

\* A payout is booked once, whichever request reports it first and however
\* often Stripe delivers its events.
THEOREM PayoutBookedOnce == Spec => []BookedOnce
<1>1. Init => BookedOnce
  BY DEF Init, BookedOnce, Recorded
<1>2. IInv /\ BookedOnce /\ [Next]_vars => BookedOnce'
  BY BookedStep
<1>. QED
  BY <1>1, <1>2, InitSound, NextSound, PTL DEF Spec

-----------------------------------------------------------------------------
(***************************************************************************)
(* Paid means delivered                                                    *)
(***************************************************************************)
\* What is known at Stripe, and what admins have declared, only grows.
LEMMA Monotone ==
  ASSUME IInv, [Next]_vars
  PROVE  /\ Grown(stripe, stripe')
         /\ approved \subseteq approved'
         /\ withdrawn \subseteq withdrawn'
<1>1. stripe \in [Intents -> StripePayout]
  BY DEF IInv, TypeOK
<1>2. CASE stripe' = stripe
  <2>1. Grown(stripe, stripe')
    BY <1>2 DEF Grown
  <2>2. approved \subseteq approved' /\ withdrawn \subseteq withdrawn'
    BY DEF Next, Step, StartTrigger, StartPost, StartMark, StartUpdate, StartWebhook,
       CreatePayment, Insert, RecordPayout, MarkPaid, WriteStatus, FindMemberships,
       CompleteMembership, Settle, Crash, vars, history
  <2>. QED
    BY <2>1, <2>2
<1>3. ASSUME NEW i \in Intents, NEW n, stripe[i] = NewIntent,
             stripe' = [stripe EXCEPT ![i] = n]
      PROVE  Grown(stripe, stripe')
  BY <1>1, <1>3 DEF Grown, NewIntent
<1>4. ASSUME NEW r \in Requests, CreatePayment(r)
      PROVE  Grown(stripe, stripe') /\ approved' = approved /\ withdrawn' = withdrawn
  <2>1. CASE stripe' = stripe
    BY <1>4, <2>1 DEF Grown, CreatePayment, history
  <2>2. CASE \E i \in Intents :
          /\ stripe[i] = NewIntent
          /\ stripe' = [stripe EXCEPT ![i] = [status |-> "processing", member |-> req[r].member]]
    BY <1>3, <1>4, <2>2 DEF CreatePayment, history
  <2>. QED
    BY <1>4, <2>1, <2>2 DEF CreatePayment
<1>5. ASSUME NEW r \in Requests, MarkPaid(r)
      PROVE  Grown(stripe, stripe') /\ approved' = approved /\ withdrawn \subseteq withdrawn'
  <2>1. CASE stripe' = stripe
    BY <1>5, <2>1 DEF Grown, MarkPaid
  <2>2. CASE \E i \in Intents :
          /\ stripe[i] = NewIntent
          /\ stripe' = [stripe EXCEPT ![i] = [status |-> "manual", member |-> req[r].member]]
    BY <1>3, <1>5, <2>2 DEF MarkPaid
  <2>. QED
    BY <1>5, <2>1, <2>2 DEF MarkPaid
<1>6. ASSUME NEW i \in Intents, Settle(i)
      PROVE  Grown(stripe, stripe') /\ approved' = approved /\ withdrawn' = withdrawn
  <2>1. PICK s \in Final :
          /\ stripe[i].status \in {"processing", "requires_payment_method"}
          /\ stripe' = [stripe EXCEPT ![i].status = s]
    BY <1>6 DEF Settle
  <2>2. stripe[i] \in StripePayout /\ s # "none"
    BY <1>1 DEF Final
  <2>3. /\ stripe'[i].status = s /\ stripe'[i].member = stripe[i].member
        /\ \A j \in Intents \ {i} : stripe'[j] = stripe[j]
    BY <1>1, <2>1, <2>2 DEF StripePayout
  <2>4. Grown(stripe, stripe')
    BY <2>1, <2>2, <2>3 DEF Grown
  <2>. QED
    BY <1>6, <2>4 DEF Settle, history
<1>. QED
  BY <1>2, <1>4, <1>5, <1>6 DEF Next, Step, StartTrigger, StartPost, StartMark, StartUpdate,
     StartWebhook, Insert, RecordPayout, WriteStatus, FindMemberships, CompleteMembership,
     Crash, vars

\* A payout that was delivered or approved.
Delivered(m, str, ok) ==
  \E i \in Intents : str[i].member = m /\ (str[i].status = "succeeded" \/ i \in ok)

LEMMA DeliveredStays ==
  ASSUME IInv, [Next]_vars, NEW m \in Members, Delivered(m, stripe, approved)
  PROVE  Delivered(m, stripe', approved')
<1>1. PICK i \in Intents :
        stripe[i].member = m /\ (stripe[i].status = "succeeded" \/ i \in approved)
  BY DEF Delivered
<1>2. stripe[i].status # "none"
  BY <1>1, PayoutsAssumption DEF IInv, StripeSound
<1>. QED
  BY <1>1, <1>2, Monotone DEF Delivered, Grown

\* A member who becomes paid out does so by a payout.
LEMMA NewlyPaid ==
  ASSUME IInv, [Next]_vars, NEW m \in Members, ~paidOut[m], paidOut'[m]
  PROVE  Delivered(m, stripe', approved')
<1>1. paidOut \in [Members -> BOOLEAN]
  BY DEF IInv, TypeOK
<1>2. paidOut' # paidOut
  OBVIOUS
<1>3. ASSUME NEW r \in Requests, MarkPaid(r)
      PROVE  FALSE
  BY <1>1, <1>3 DEF MarkPaid, Written
<1>4. ASSUME NEW r \in Requests, WriteStatus(r)
      PROVE  Delivered(m, stripe', approved')
  <2>. DEFINE q == req[r]
  <2>1. q.pc = "write" /\ RequestSound(r, q, stripe, payouts)
    BY <1>4 DEF IInv, WriteStatus
  <2>2. q.intent \in Intents /\ stripe[q.intent].member = q.member
    BY <2>1 DEF RequestSound
  <2>3. q.decides /\ q.status = "succeeded" /\ m = q.member
    BY <1>1, <1>2, <1>4 DEF WriteStatus, Written
  <2>4. q.intent \in approved' /\ stripe' = stripe
    BY <1>4, <2>3 DEF WriteStatus
  <2>. QED
    BY <2>2, <2>3, <2>4 DEF Delivered
<1>5. ASSUME NEW r \in Requests, CompleteMembership(r)
      PROVE  Delivered(m, stripe', approved')
  <2>. DEFINE q == req[r]
  <2>1. q.pc = "finish" /\ RequestSound(r, q, stripe, payouts)
    BY <1>5 DEF IInv, CompleteMembership
  <2>2. Delivered(q.member, stripe, approved)
    BY <2>1 DEF RequestSound, Delivered
  <2>3. m = q.member
    BY <1>1, <1>2, <1>5 DEF CompleteMembership
  <2>. QED
    BY <2>2, <2>3, DeliveredStays
<1>. QED
  BY <1>2, <1>3, <1>4, <1>5 DEF Next, Step, StartTrigger, StartPost, StartMark, StartUpdate,
     StartWebhook, CreatePayment, Insert, RecordPayout, FindMemberships, Settle, Crash,
     vars, tables

\* No interleaving of webhooks, reports, manual payouts and updates shows a
\* member as paid out without a payout behind it.
THEOREM PaidOnlyIfDelivered == Spec => []PaidMeansDelivered
<1>1. Init => PaidMeansDelivered
  BY DEF Init, PaidMeansDelivered
<1>2. IInv /\ PaidMeansDelivered /\ [Next]_vars => PaidMeansDelivered'
  <2>. SUFFICES ASSUME IInv, PaidMeansDelivered, [Next]_vars, NEW m \in Members, paidOut'[m]
                PROVE  Delivered(m, stripe', approved')
    BY DEF PaidMeansDelivered, Delivered
  <2>1. CASE paidOut[m]
    <3>1. Delivered(m, stripe, approved)
      BY <2>1 DEF PaidMeansDelivered, Delivered
    <3>. QED
      BY <3>1, DeliveredStays
  <2>2. CASE ~paidOut[m]
    BY <2>2, NewlyPaid
  <2>. QED
    BY <2>1, <2>2
<1>. QED
  BY <1>1, <1>2, InitSound, NextSound, PTL DEF Spec

-----------------------------------------------------------------------------
(***************************************************************************)
(* Completed means all paid                                                *)
(***************************************************************************)
\* Paid out, unless an admin took it back.
Served(m, paid, back) == paid[m] \/ m \in back

\* What a request about to complete the pod has seen of the others still holds.
Seen ==
  \A r \in Requests : req[r].pc = "finish" /\ req[r].all =>
    \A n \in Members \ {req[r].member} : Served(n, paidOut, withdrawn)

\* Only an admin makes a member who is paid out unpaid.
LEMMA ServedStays ==
  ASSUME IInv, [Next]_vars, NEW m \in Members, Served(m, paidOut, withdrawn)
  PROVE  Served(m, paidOut', withdrawn')
<1>1. CASE m \in withdrawn
  BY <1>1, Monotone DEF Served
<1>2. paidOut \in [Members -> BOOLEAN]
  BY DEF IInv, TypeOK
<1>3. CASE paidOut' = paidOut /\ m \notin withdrawn
  BY <1>3 DEF Served
<1>4. ASSUME NEW r \in Requests, MarkPaid(r), m \notin withdrawn
      PROVE  Served(m, paidOut', withdrawn')
  BY <1>2, <1>4 DEF MarkPaid, Served
<1>5. ASSUME NEW r \in Requests, WriteStatus(r), m \notin withdrawn
      PROVE  Served(m, paidOut', withdrawn')
  <2>. DEFINE q == req[r]
  <2>1. paidOut[m]
    BY <1>5 DEF Served
  <2>2. /\ paidOut' = IF q.decides
                      THEN [paidOut EXCEPT ![q.member] = Written(@, q.paid, q.status = "succeeded")]
                      ELSE paidOut
        /\ withdrawn' = IF q.decides /\ q.status # "succeeded"
                        THEN withdrawn \cup {q.member} ELSE withdrawn
    BY <1>5 DEF WriteStatus
  <2>. HIDE DEF q
  <2>3. CASE q.decides /\ q.status # "succeeded"
    BY <1>2, <2>1, <2>2, <2>3 DEF Served
  <2>4. CASE q.decides /\ q.status = "succeeded"
    <3>1. Written(paidOut[m], q.paid, q.status = "succeeded")
      BY <2>1, <2>4 DEF Written
    <3>. QED
      BY <1>2, <2>1, <2>2, <2>4, <3>1 DEF Served
  <2>5. CASE ~q.decides
    BY <2>1, <2>2, <2>5 DEF Served
  <2>. QED
    BY <2>3, <2>4, <2>5
<1>6. ASSUME NEW r \in Requests, CompleteMembership(r), m \notin withdrawn
      PROVE  Served(m, paidOut', withdrawn')
  BY <1>2, <1>6 DEF CompleteMembership, Served
<1>. QED
  BY <1>1, <1>3, <1>4, <1>5, <1>6 DEF Next, Step, StartTrigger, StartPost, StartMark,
     StartUpdate, StartWebhook, CreatePayment, Insert, RecordPayout, FindMemberships, Settle,
     Crash, vars, tables

\* A step moves one request at most, or all to idle, and none but the reading
\* of the memberships leads to the end of a completion.
LEMMA OneFinishes ==
  ASSUME IInv, [Next]_vars, NEW r \in Requests, req'[r].pc = "finish"
  PROVE  \/ req'[r] = req[r]
         \/ FindMemberships(r)
<1>1. req \in [Requests -> Request]
  BY DEF IInv, TypeOK
<1>2. ASSUME NEW s \in Requests, NEW q, req' = [req EXCEPT ![s] = q], q.pc # "finish"
      PROVE  req'[r] = req[r]
  BY <1>1, <1>2
<1>3. CASE req' = req
  BY <1>3
<1>4. ASSUME NEW s \in Requests, CreatePayment(s) \/ MarkPaid(s)
      PROVE  req'[r] = req[r]
  <2>1. Idle.pc # "finish"
    BY DEF Idle
  <2>2. CASE req' = [req EXCEPT ![s] = Idle]
    BY <1>2, <2>1, <2>2
  <2>3. ASSUME CreatePayment(s), req' # [req EXCEPT ![s] = Idle]
        PROVE  req'[r] = req[r]
    <3>. DEFINE old == req[s]
    <3>1. PICK i \in Intents : req' = [req EXCEPT ![s] =
                 [old EXCEPT !.pc = "insert", !.intent = i, !.status = "processing"]]
      BY <1>1, <2>3 DEF CreatePayment
    <3>2. [old EXCEPT !.pc = "insert", !.intent = i, !.status = "processing"].pc # "finish"
      BY <1>1 DEF Request
    <3>. HIDE DEF old
    <3>. QED
      BY <1>2, <3>1, <3>2
  <2>4. ASSUME MarkPaid(s), req' # [req EXCEPT ![s] = Idle]
        PROVE  req'[r] = req[r]
    <3>. DEFINE m == req[s].member
    <3>1. PICK i \in Intents : req' = [req EXCEPT ![s] =
                 [Idle EXCEPT !.pc = "record", !.member = m, !.intent = i,
                              !.status = "processing"]]
      BY <2>4 DEF MarkPaid
    <3>. HIDE DEF m
    <3>. QED
      BY <1>1, <3>1 DEF Idle
  <2>. QED
    BY <1>4, <2>2, <2>3, <2>4
<1>5. ASSUME NEW s \in Requests, Insert(s) \/ WriteStatus(s)
      PROVE  req'[r] = req[r]
  <2>1. Idle.pc # "finish" /\ Onward(s, req[s]).pc # "finish"
    BY DEF Onward, Idle
  <2>. QED
    BY <1>2, <1>5, <2>1 DEF Insert, WriteStatus
<1>6. ASSUME NEW s \in Requests, RecordPayout(s)
      PROVE  req'[r] = req[r]
  BY <1>1, <1>6 DEF RecordPayout, Idle, Request
<1>7. ASSUME NEW s \in Requests, CompleteMembership(s)
      PROVE  req'[r] = req[r]
  BY <1>2, <1>7 DEF CompleteMembership, Idle
<1>8. ASSUME NEW s \in Requests, FindMemberships(s)
      PROVE  req'[r] = req[r] \/ FindMemberships(r)
  BY <1>1, <1>8 DEF FindMemberships
<1>9. ASSUME NEW s \in Requests, NEW m, StartTrigger(s, m) \/ StartMark(s, m)
      PROVE  req'[r] = req[r]
  BY <1>1, <1>9 DEF StartTrigger, StartMark, Idle
<1>10. ASSUME NEW s \in Requests, NEW i, NEW c,
              StartPost(s, i, c) \/ StartUpdate(s, i, c)
       PROVE  req'[r] = req[r]
  BY <1>1, <1>10 DEF StartPost, StartUpdate, Idle
<1>11. ASSUME NEW s \in Requests, NEW i, NEW c, StartWebhook(s, i, c)
       PROVE  req'[r] = req[r]
  BY <1>1, <1>11 DEF StartWebhook, Idle
<1>12. ASSUME Crash
       PROVE  req'[r] = req[r]
  BY <1>12 DEF Crash, Idle
<1>13. Triggers \subseteq Requests /\ Posts \subseteq Requests /\ Admins \subseteq Requests
       /\ Webhooks \subseteq Requests
  BY DEF Requests
<1>. QED
  BY <1>3, <1>4, <1>5, <1>6, <1>7, <1>8, <1>9, <1>10, <1>11, <1>12, <1>13
     DEF Next, Step, Settle, vars

LEMMA SeenStep ==
  ASSUME IInv, Seen, [Next]_vars
  PROVE  Seen'
<1>. SUFFICES ASSUME NEW r \in Requests, req'[r].pc = "finish", req'[r].all,
                     NEW n \in Members \ {req'[r].member}
              PROVE  Served(n, paidOut', withdrawn')
  BY DEF Seen
<1>1. CASE req'[r] = req[r]
  <2>1. Served(n, paidOut, withdrawn)
    BY <1>1 DEF Seen
  <2>. QED
    BY <2>1, ServedStays
<1>2. CASE FindMemberships(r)
  <2>. DEFINE q == req[r]
  <2>1. q \in Request
    BY DEF IInv, TypeOK
  <2>2. req'[r] = [q EXCEPT !.pc = "finish", !.all = AllPaid(q.member)]
    BY <1>2 DEF FindMemberships, IInv, TypeOK
  <2>. HIDE DEF q
  <2>3. req'[r].all = AllPaid(q.member) /\ req'[r].member = q.member
    BY <2>1, <2>2 DEF Request
  <2>4. Served(n, paidOut, withdrawn)
    BY <2>3 DEF AllPaid, Served
  <2>. QED
    BY <2>4, ServedStays
<1>. QED
  BY <1>1, <1>2, OneFinishes

\* However completions interleave with one another and with what admins do, a
\* pod is completed only when everybody has been paid out or was by an admin
\* declared not to be.
THEOREM CompletedOnlyIfAllPaid == Spec => []CompletedMeansAllPaid
<1>1. Init => Seen /\ CompletedMeansAllPaid
  BY DEF Init, Seen, CompletedMeansAllPaid, Idle
<1>2. IInv /\ Seen /\ [Next]_vars => Seen'
  BY SeenStep
<1>3. IInv /\ Seen /\ CompletedMeansAllPaid /\ [Next]_vars => CompletedMeansAllPaid'
  <2>. SUFFICES ASSUME IInv, Seen, CompletedMeansAllPaid, [Next]_vars,
                       podStatus' = "completed", NEW m \in Members
                PROVE  Served(m, paidOut', withdrawn')
    BY DEF CompletedMeansAllPaid, Served
  <2>1. CASE podStatus = "completed"
    <3>1. Served(m, paidOut, withdrawn)
      BY <2>1 DEF CompletedMeansAllPaid, Served
    <3>. QED
      BY <3>1, ServedStays
  <2>2. ASSUME NEW r \in Requests, CompleteMembership(r), req[r].all
        PROVE  Served(m, paidOut', withdrawn')
    <3>1. CASE m = req[r].member
      BY <2>2, <3>1 DEF CompleteMembership, Served, IInv, TypeOK
    <3>2. CASE m # req[r].member
      <4>1. Served(m, paidOut, withdrawn)
        BY <2>2, <3>2 DEF Seen, CompleteMembership
      <4>. QED
        BY <4>1, ServedStays
    <3>. QED
      BY <3>1, <3>2
  <2>3. podStatus = "completed" \/ \E r \in Requests : CompleteMembership(r) /\ req[r].all
    BY DEF Next, Step, StartTrigger, StartPost, StartMark, StartUpdate, StartWebhook,
       CreatePayment, Insert, RecordPayout, MarkPaid, WriteStatus, FindMemberships,
       CompleteMembership, Settle, Crash, vars, tables
  <2>. QED
    BY <2>1, <2>2, <2>3
<1>. QED
  BY <1>1, <1>2, <1>3, InitSound, NextSound, PTL DEF Spec

-----------------------------------------------------------------------------
(***************************************************************************)
(* One request at a time                                                   *)
(***************************************************************************)
Alone == \A r, s \in Busy : r = s

\* A payout that keeps others of its member from being made, or has come to
\* nothing.
Heeded(i) ==
  Active(payouts[i]) \/ (Recorded(i) /\ stripe[i].status = "canceled")

\* What the only request under way has made sure of.
AsksFirst(q) ==
  /\ q.pc = "create" => \A i \in Intents : stripe[i].member = q.member => ~Active(payouts[i])
  /\ q.pc = "insert" => q.status = "processing" /\ payouts[q.intent] = "none"
  /\ q.pc = "record" => Recorded(q.intent)
  /\ q.pc = "write" =>
       /\ q.status = "failed" => q.decides
       /\ q.status = "canceled" => stripe[q.intent].status = "canceled"

InProgress(i) == stripe[i].status \in {"processing", "succeeded"}

OneEach ==
  \A i, j \in Intents :
    InProgress(i) /\ InProgress(j) /\ stripe[i].member = stripe[j].member => i = j

BeingBooked(i) == \E r \in Requests : req[r].pc = "insert" /\ req[r].intent = i

EventsTell ==
  \A i \in Intents :
    /\ events[i] # {} => stripe[i].status \in Final
    /\ "canceled" \in events[i] => stripe[i].status = "canceled"

\* As long as nothing has been lost or withdrawn.
Booking ==
  /\ \A i \in Intents : stripe[i].status \notin {"none", "manual"} => Heeded(i) \/ BeingBooked(i)
  /\ \A r \in Requests : AsksFirst(req[r])
  /\ OneEach
  /\ EventsTell

SerialInv == ~overlapped => Alone /\ (crashes = 0 /\ withdrawn = {} => Booking)

\* The step of a request that is alone before and after it.
LEMMA LoneStep ==
  ASSUME IInv, Alone, Alone', NEW r \in Requests, NEW q,
         req' = [req EXCEPT ![r] = q], req[r].pc # "idle" \/ q.pc # "idle"
  PROVE  /\ req'[r] = q
         /\ \A s \in Requests \ {r} : req[s].pc = "idle" /\ req'[s] = req[s]
<1>1. DOMAIN req = Requests
  BY DEF IInv, TypeOK
<1>2. req'[r] = q /\ \A s \in Requests \ {r} : req'[s] = req[s]
  BY <1>1
<1>3. ASSUME NEW s \in Requests \ {r} PROVE req[s].pc = "idle"
  BY <1>2 DEF Alone, Busy
<1>. QED
  BY <1>2, <1>3

\* Where the books and Stripe stay as they are it is only to be shown that the
\* request knows what it has to, and that it was not about to book a payout.
LEMMA BooksAlone ==
  ASSUME IInv, Alone, Alone', Booking, NEW r \in Requests, NEW q,
         req' = [req EXCEPT ![r] = q], req[r].pc # "idle" \/ q.pc # "idle",
         req[r].pc # "insert", AsksFirst(q),
         payouts' = payouts, stripe' = stripe, events' = events
  PROVE  Booking'
<1>1. req'[r] = q /\ \A s \in Requests \ {r} : req[s].pc = "idle" /\ req'[s] = req[s]
  BY LoneStep
<1>2. \A s \in Requests : AsksFirst(req'[s])
  BY <1>1 DEF Booking
<1>3. \A s \in Requests : AsksFirst(req[s])'
  BY <1>2 DEF AsksFirst, Recorded
<1>4. ASSUME NEW i \in Intents, stripe[i].status \notin {"none", "manual"}
      PROVE  Heeded(i)
  <2>1. ~BeingBooked(i)
    BY <1>1 DEF BeingBooked
  <2>. QED
    BY <1>4, <2>1 DEF Booking
<1>5. \A i \in Intents : Heeded(i) => Heeded(i)'
  BY DEF Heeded, Recorded
<1>6. OneEach' /\ EventsTell'
  BY DEF Booking, OneEach, InProgress, EventsTell
<1>. QED
  BY <1>3, <1>4, <1>5, <1>6 DEF Booking

LEMMA StartsBooking ==
  ASSUME IInv, Alone, Alone', Booking,
         \/ \E r \in Triggers, m \in Members : StartTrigger(r, m)
         \/ \E r \in Posts, i \in Intents, s \in {"processing", "succeeded", "failed"} :
              StartPost(r, i, s)
         \/ \E r \in Admins, m \in Members : StartMark(r, m)
         \/ \E r \in Admins, i \in Intents, c \in {"success", "failed", "other"} :
              StartUpdate(r, i, c)
         \/ \E r \in Webhooks, i \in Intents, s \in Final : StartWebhook(r, i, s)
  PROVE  Booking'
<1>. USE DEF tables
<1>1. ASSUME NEW r \in Requests, NEW q, req' = [req EXCEPT ![r] = q], q.pc # "idle",
             req[r].pc = "idle", AsksFirst(q),
             UNCHANGED <<tables, stripe, events, crashes, history>>
      PROVE  Booking'
  BY <1>1, BooksAlone
<1>2. ASSUME NEW r \in Requests, NEW q, req' = [req EXCEPT ![r] = q], q.pc # "idle",
             req[r].pc = "idle", NEW i \in Intents, stripe[i].status \notin {"none", "manual"}
      PROVE  Recorded(i)
  <2>1. ~BeingBooked(i)
    BY <1>2, LoneStep DEF BeingBooked
  <2>. QED
    BY <1>2, <2>1 DEF Booking, Heeded, Active, Recorded
<1>3. ASSUME NEW r \in Triggers, NEW m \in Members, StartTrigger(r, m) PROVE Booking'
  <2>. DEFINE q == [Idle EXCEPT !.pc = "create", !.member = m]
  <2>1. q.pc = "create" /\ q.member = m
    BY DEF Idle
  <2>2. AsksFirst(q)
    BY <1>3, <2>1 DEF AsksFirst, StartTrigger
  <2>. QED
    BY <1>1, <1>3, <2>1, <2>2 DEF StartTrigger, CanStart, Requests
<1>4. ASSUME NEW r \in Posts, NEW i \in Intents, NEW s, StartPost(r, i, s) PROVE Booking'
  <2>. DEFINE q == [Idle EXCEPT !.pc = "record", !.intent = i, !.member = stripe[i].member,
                                !.status = s]
  <2>1. q.pc = "record" /\ q.intent = i
    BY DEF Idle
  <2>2. req' = [req EXCEPT ![r] = q] /\ req[r].pc = "idle" /\ r \in Requests
        /\ UNCHANGED <<tables, stripe, events, crashes, history>>
        /\ stripe[i].status \notin {"none", "manual"}
    BY <1>4 DEF StartPost, CanStart, Requests
  <2>. HIDE DEF q
  <2>3. Recorded(i)
    BY <1>2, <2>1, <2>2
  <2>4. AsksFirst(q)
    BY <2>1, <2>3 DEF AsksFirst
  <2>. QED
    BY <1>1, <2>1, <2>2, <2>4
<1>5. ASSUME NEW r \in Admins, NEW m \in Members, StartMark(r, m) PROVE Booking'
  <2>. DEFINE q == [Idle EXCEPT !.pc = "mark", !.member = m, !.paid = paidOut[m]]
  <2>1. q.pc = "mark"
    BY DEF Idle
  <2>2. AsksFirst(q)
    BY <2>1 DEF AsksFirst
  <2>. QED
    BY <1>1, <1>5, <2>1, <2>2 DEF StartMark, CanStart, Requests
<1>6. ASSUME NEW r \in Admins, NEW i \in Intents, NEW c \in {"success", "failed", "other"},
             StartUpdate(r, i, c)
      PROVE  Booking'
  <2>. DEFINE q == [Idle EXCEPT !.pc = "write", !.intent = i, !.member = stripe[i].member,
                    !.status = resolveStatus(c), !.found = payouts[i],
                    !.paid = paidOut[stripe[i].member], !.decides = c # "other"]
  <2>1. q.pc = "write" /\ q.status = resolveStatus(c) /\ q.decides = (c # "other")
    BY DEF Idle
  <2>2. resolveStatus(c) # "canceled" /\ (resolveStatus(c) = "failed" => c # "other")
    BY DEF resolveStatus
  <2>3. req' = [req EXCEPT ![r] = q] /\ req[r].pc = "idle" /\ r \in Requests
        /\ UNCHANGED <<tables, stripe, events, crashes, history>>
    BY <1>6 DEF StartUpdate, CanStart, Requests
  <2>. HIDE DEF q
  <2>4. AsksFirst(q)
    BY <2>1, <2>2 DEF AsksFirst
  <2>. QED
    BY <1>1, <2>1, <2>3, <2>4
<1>7. ASSUME NEW r \in Webhooks, NEW i \in Intents, NEW s \in Final, StartWebhook(r, i, s)
      PROVE  Booking'
  <2>. DEFINE q == [Idle EXCEPT !.pc = IF Recorded(i) THEN "write" ELSE "record", !.intent = i,
                    !.member = stripe[i].member, !.status = s, !.found = payouts[i],
                    !.paid = Recorded(i) /\ paidOut[stripe[i].member]]
  <2>1. q.pc = (IF Recorded(i) THEN "write" ELSE "record") /\ q.status = s /\ q.intent = i
    BY DEF Idle
  <2>2. req' = [req EXCEPT ![r] = q] /\ req[r].pc = "idle" /\ r \in Requests
        /\ UNCHANGED <<tables, stripe, events, crashes, history>> /\ s \in events[i]
    BY <1>7 DEF StartWebhook, CanStart, Requests
  <2>. HIDE DEF q
  <2>3. s # "failed" /\ (s = "canceled" => stripe[i].status = "canceled")
    BY <2>2 DEF Booking, EventsTell, Final
  <2>4. ASSUME ~Recorded(i) PROVE FALSE
    <3>1. stripe[i].status \notin {"none", "manual"}
      BY <2>2 DEF Booking, EventsTell, Final
    <3>. QED
      BY <1>2, <2>1, <2>2, <2>4, <3>1
  <2>5. AsksFirst(q)
    BY <2>1, <2>3, <2>4 DEF AsksFirst
  <2>. QED
    BY <1>1, <2>1, <2>2, <2>5
<1>. QED
  BY <1>3, <1>4, <1>5, <1>6, <1>7

LEMMA StepsBooking ==
  ASSUME IInv, Alone, Alone', Booking, NEW r \in Requests, Step(r), withdrawn' = {}
  PROVE  Booking'
<1>. DEFINE q == req[r]
<1>1. q \in Request /\ RequestSound(r, q, stripe, payouts) /\ AsksFirst(q)
  BY DEF IInv, TypeOK, Booking
<1>2. ASSUME NEW n, req' = [req EXCEPT ![r] = n], q.pc \notin {"idle", "insert"}, AsksFirst(n),
             payouts' = payouts, stripe' = stripe, events' = events
      PROVE  Booking'
  BY <1>2, BooksAlone
<1>3. AsksFirst(Idle)
  BY DEF AsksFirst, Idle
<1>4. CASE CreatePayment(r)
  <2>1. CASE req' = [req EXCEPT ![r] = Idle] /\ UNCHANGED stripe
    BY <1>2, <1>3, <1>4, <2>1 DEF CreatePayment, tables
  <2>2. ASSUME NEW i \in Intents, stripe[i] = NewIntent,
               stripe' = [stripe EXCEPT ![i] = [status |-> "processing", member |-> q.member]],
               req' = [req EXCEPT ![r] =
                 [@ EXCEPT !.pc = "insert", !.intent = i, !.status = "processing"]]
        PROVE  Booking'
    <3>. DEFINE n == [q EXCEPT !.pc = "insert", !.intent = i, !.status = "processing"]
    <3>1. n.pc = "insert" /\ n.intent = i /\ n.status = "processing"
      BY <1>1 DEF Request
    <3>2. req' = [req EXCEPT ![r] = n]
      BY <2>2 DEF IInv, TypeOK
    <3>3. q.pc = "create" /\ payouts' = payouts /\ events' = events
      BY <1>4 DEF CreatePayment, tables
    <3>. HIDE DEF n, q
    <3>4. req'[r] = n /\ \A s \in Requests \ {r} : req[s].pc = "idle" /\ req'[s] = req[s]
      BY <3>1, <3>2, LoneStep
    <3>5. /\ stripe'[i] = [status |-> "processing", member |-> q.member]
          /\ \A j \in Intents \ {i} : stripe'[j] = stripe[j]
      BY <2>2 DEF IInv, TypeOK
    <3>6. payouts[i] = "none" /\ events[i] = {}
      BY <2>2 DEF IInv, StripeSound, NewIntent
    <3>7. ASSUME NEW s \in Requests PROVE AsksFirst(req[s])'
      <4>1. CASE s = r
        BY <3>1, <3>3, <3>4, <3>6, <4>1 DEF AsksFirst
      <4>2. CASE s # r
        BY <3>4, <4>2 DEF AsksFirst
      <4>. QED
        BY <4>1, <4>2
    <3>8. ASSUME NEW j \in Intents \ {i}, stripe[j].status \notin {"none", "manual"}
          PROVE  Heeded(j)
      <4>1. ~BeingBooked(j)
        BY <3>3, <3>4 DEF BeingBooked, q
      <4>. QED
        BY <3>8, <4>1 DEF Booking
    <3>9. \A j \in Intents \ {i} : Heeded(j) => Heeded(j)'
      BY <3>3, <3>5 DEF Heeded, Recorded
    <3>10. BeingBooked(i)'
      BY <3>1, <3>4 DEF BeingBooked
    <3>11. \A j \in Intents \ {i} : InProgress(j) => stripe[j].member # q.member
      BY <1>1, <3>3, <3>8 DEF InProgress, Heeded, AsksFirst
    <3>12. OneEach'
      BY <3>5, <3>11 DEF Booking, OneEach, InProgress
    <3>13. EventsTell'
      BY <3>3, <3>5, <3>6 DEF Booking, EventsTell
    <3>. QED
      BY <3>5, <3>7, <3>8, <3>9, <3>10, <3>12, <3>13 DEF Booking
  <2>. QED
    BY <1>4, <2>1, <2>2 DEF CreatePayment
<1>5. CASE Insert(r) \/ WriteStatus(r)
  <2>. DEFINE i == q.intent
              n == req'[r]
  <2>1. q.pc \in {"insert", "write"} /\ i \in Intents
    BY <1>1, <1>5 DEF Insert, WriteStatus, RequestSound
  <2>2. stripe' = stripe /\ events' = events
    BY <1>5 DEF Insert, WriteStatus
  <2>3. Onward(r, q).pc \notin {"create", "insert", "record", "write"}
    BY DEF Onward, Idle
  <2>4. ~Taken(i) \/ q.pc = "write"
    BY <1>1, <2>1 DEF AsksFirst, Taken, Recorded
  <2>5. req' = [req EXCEPT ![r] = Onward(r, q)]
    BY <1>5, <2>4 DEF Insert, WriteStatus
  <2>6. n = Onward(r, q) /\ \A s \in Requests \ {r} : req[s].pc = "idle" /\ req'[s] = req[s]
    BY <2>1, <2>5, LoneStep
  <2>7. ASSUME NEW s \in Requests PROVE AsksFirst(req[s])'
    <3>1. req'[s].pc \notin {"create", "insert", "record", "write"}
      BY <2>3, <2>6
    <3>. QED
      BY <3>1 DEF AsksFirst
  <2>8. payouts' = [payouts EXCEPT ![i] = IF q.pc = "write" /\ q.found = q.status THEN @ ELSE q.status]
    BY <1>5, <2>4 DEF Insert, WriteStatus
  <2>9. q.status # "failed"
    BY <1>1, <1>5 DEF AsksFirst, Insert, WriteStatus
  <2>10. q.status \in RowStatus \ {"none", "failed"}
         /\ (q.status = "canceled" => stripe[i].status = "canceled")
    BY <1>1, <2>1, <2>9 DEF AsksFirst, RequestSound, Request
  <2>. HIDE DEF n, q, i
  <2>11. ASSUME NEW j \in Intents, stripe[j].status \notin {"none", "manual"}
         PROVE  Heeded(j)'
    <3>1. j = i \/ Heeded(j)
      BY <2>6, <2>11 DEF Booking, BeingBooked, q, i
    <3>2. CASE j # i
      BY <2>2, <2>8, <3>1, <3>2 DEF Heeded, Recorded, IInv, TypeOK
    <3>3. CASE j = i /\ payouts'[i] = q.status
      BY <2>2, <2>10, <3>3 DEF Heeded, Recorded, Active, RowStatus
    <3>4. CASE j = i /\ payouts'[i] # q.status
      <4>1. payouts'[i] = payouts[i] /\ q.pc = "write"
        BY <2>1, <2>8, <3>4 DEF IInv, TypeOK
      <4>2. ~BeingBooked(i)
        BY <2>6, <4>1 DEF BeingBooked, q
      <4>3. Heeded(i)
        BY <2>11, <3>4, <4>2 DEF Booking
      <4>. QED
        BY <2>2, <3>4, <4>1, <4>3 DEF Heeded, Recorded
    <3>. QED
      BY <3>2, <3>3, <3>4
  <2>12. OneEach' /\ EventsTell'
    BY <2>2 DEF Booking, OneEach, InProgress, EventsTell
  <2>. QED
    BY <2>2, <2>7, <2>11, <2>12 DEF Booking
<1>6. CASE RecordPayout(r)
  BY <1>1, <1>2, <1>3, <1>6 DEF RecordPayout, AsksFirst, tables
<1>7. CASE MarkPaid(r)
  BY <1>7 DEF MarkPaid
<1>8. CASE FindMemberships(r)
  <2>. DEFINE n == [q EXCEPT !.pc = "finish", !.all = AllPaid(q.member)]
  <2>1. n.pc = "finish"
    BY <1>1 DEF Request
  <2>2. AsksFirst(n)
    BY <2>1 DEF AsksFirst
  <2>. QED
    BY <1>2, <1>8, <2>2 DEF FindMemberships, tables
<1>9. CASE CompleteMembership(r)
  BY <1>2, <1>3, <1>9 DEF CompleteMembership
<1>. QED
  BY <1>4, <1>5, <1>6, <1>7, <1>8, <1>9 DEF Step

LEMMA SettleBooking ==
  ASSUME IInv, Booking, NEW i \in Intents, Settle(i)
  PROVE  Booking'
<1>1. PICK s \in Final :
        /\ \/ stripe[i].status = "processing"
           \/ stripe[i].status = "requires_payment_method" /\ s = "canceled"
        /\ stripe' = [stripe EXCEPT ![i].status = s]
        /\ events' = [events EXCEPT ![i] = @ \cup {s}]
  BY DEF Settle
<1>2. payouts' = payouts /\ req' = req
  BY DEF Settle, tables
<1>3. /\ stripe'[i].status = s /\ stripe'[i].member = stripe[i].member
      /\ \A j \in Intents \ {i} : stripe'[j] = stripe[j]
  BY <1>1 DEF IInv, TypeOK, StripePayout
<1>4. events'[i] = events[i] \cup {s} /\ \A j \in Intents \ {i} : events'[j] = events[j]
  BY <1>1 DEF IInv, TypeOK
<1>5. stripe[i].status # "canceled"
  BY <1>1
<1>6. \A j \in Intents : Heeded(j) => Heeded(j)'
  BY <1>2, <1>3, <1>5 DEF Heeded, Recorded
<1>7. \A j \in Intents : BeingBooked(j)' = BeingBooked(j)
  BY <1>2 DEF BeingBooked
<1>8. \A j \in Intents : stripe'[j].status \notin {"none", "manual"} =>
                           stripe[j].status \notin {"none", "manual"}
  BY <1>1, <1>3
<1>9. \A j \in Intents : /\ InProgress(j)' => InProgress(j)
                         /\ stripe'[j].member = stripe[j].member
                         /\ stripe[j].status = "canceled" => stripe'[j].status = "canceled"
  BY <1>1, <1>3, <1>5 DEF InProgress
<1>10. OneEach'
  BY <1>9 DEF Booking, OneEach
<1>11. EventsTell'
  BY <1>1, <1>3, <1>4 DEF Booking, EventsTell
<1>12. ASSUME NEW r \in Requests PROVE AsksFirst(req[r])'
  <2>1. AsksFirst(req[r])
    BY DEF Booking
  <2>2. RequestSound(r, req[r], stripe, payouts)
    BY DEF IInv
  <2>. QED
    BY <1>2, <1>9, <2>1, <2>2 DEF AsksFirst, Recorded, RequestSound
<1>. QED
  BY <1>6, <1>7, <1>8, <1>10, <1>11, <1>12 DEF Booking

LEMMA AloneFrom == overlapped' = (overlapped \/ Overlap') /\ ~overlapped' => Alone' /\ ~overlapped
  BY DEF Overlap, Alone

LEMMA SerialStep == IInv /\ SerialInv /\ [WatchedNext]_<<vars, overlapped>> => SerialInv'
<1>. SUFFICES ASSUME IInv, SerialInv, [WatchedNext]_<<vars, overlapped>>, ~overlapped'
              PROVE  Alone' /\ (crashes' = 0 /\ withdrawn' = {} => Booking')
  BY DEF SerialInv
<1>1. CASE UNCHANGED <<vars, overlapped>>
  BY <1>1 DEF SerialInv, Alone, Busy, Booking, Heeded, Recorded, BeingBooked, AsksFirst, OneEach,
     InProgress, EventsTell, vars, tables, history
<1>2. CASE WatchedNext
  <2>1. Alone' /\ ~overlapped /\ Next
    BY <1>2, AloneFrom DEF WatchedNext
  <2>. SUFFICES ASSUME crashes' = 0, withdrawn' = {} PROVE Booking'
    BY <2>1
  <2>2. CASE Crash
    BY <2>2, PayoutsAssumption DEF Crash, IInv, TypeOK
  <2>3. CASE ~Crash
    <3>1. withdrawn = {}
      BY <2>1, Monotone
    <3>2. crashes = 0
      BY <2>1, <2>3 DEF Next, Step, StartTrigger, StartPost, StartMark, StartUpdate,
         StartWebhook, CreatePayment, Insert, RecordPayout, MarkPaid, WriteStatus,
         FindMemberships, CompleteMembership, Settle
    <3>3. Alone /\ Booking
      BY <2>1, <3>1, <3>2 DEF SerialInv
    <3>4. CASE \E r \in Requests : Step(r)
      BY <2>1, <3>3, <3>4, StepsBooking
    <3>5. CASE \E i \in Intents : Settle(i)
      BY <3>3, <3>5, SettleBooking
    <3>. QED
      BY <2>1, <2>3, <3>3, <3>4, <3>5, StartsBooking DEF Next
  <2>. QED
    BY <2>2, <2>3
<1>. QED
  BY <1>1, <1>2

LEMMA SerialStart == Init => SerialInv
<1>. SUFFICES ASSUME Init PROVE Alone /\ Booking
  BY DEF SerialInv
<1>1. Alone
  BY DEF Init, Alone, Busy, Idle
<1>2. Booking
  BY DEF Init, Booking, AsksFirst, OneEach, InProgress, EventsTell, Idle, NewIntent
<1>. QED
  BY <1>1, <1>2

LEMMA WatchedIsSpec ==
  /\ Init => IInv
  /\ IInv /\ [WatchedNext]_<<vars, overlapped>> => IInv'
  BY InitSound, NextSound DEF WatchedNext, vars

\* For any number of members, triggers, events and reports that come one at a
\* time, as long as no restart cuts one off and no admin declares a payout to
\* have failed, nobody is paid out twice.
THEOREM OnePayoutAtATime == WatchedSpec => []SerialPayoutInProgress
<1>1. IInv /\ SerialInv => SerialPayoutInProgress
  BY DEF SerialInv, SerialPayoutInProgress, OnePayoutInProgress, Booking, OneEach, InProgress
<1>. QED
  BY <1>1, SerialStart, SerialStep, WatchedIsSpec, PTL DEF WatchedSpec
-----------------------------------------------------------------------------
(***************************************************************************)
(* The end of the pod, one request at a time                               *)
(***************************************************************************)
\* What a request has read of paidOut on its way to a completion is so, and the
\* member it completes has not been paid out.
Knowing(r, q) ==
  /\ q.pc = "create" => r \notin Webhooks
  /\ r \in Webhooks /\ q.pc \in {"insert", "write"} => q.paid = paidOut[q.member]
  /\ q.pc \in {"complete", "finish"} => ~paidOut[q.member]
  /\ q.pc = "finish" => q.all = AllPaid(q.member)

Knows == \A r \in Requests : Knowing(r, req[r])

LoneInv == ~overlapped => Alone /\ (approved = {} /\ withdrawn = {} => Knows)

\* The pod as its members see it stays as it is.
SameForMembers == paidOut' = paidOut /\ podStatus' = podStatus

LEMMA KnowsStays ==
  ASSUME IInv, Knows, NEW r \in Requests, NEW n, req' = [req EXCEPT ![r] = n],
         paidOut' = paidOut, Knowing(r, n)
  PROVE  Knows'
<1>1. req'[r] = n /\ \A s \in Requests \ {r} : req'[s] = req[s]
  BY DEF IInv, TypeOK
<1>2. ASSUME NEW s \in Requests PROVE Knowing(s, req[s])'
  <2>1. Knowing(s, req'[s])
    BY <1>1 DEF Knows
  <2>2. AllPaid(req[s].member)' = AllPaid(req'[s].member)
    BY DEF AllPaid
  <2>. QED
    BY <2>1, <2>2 DEF Knowing
<1>. QED
  BY <1>2 DEF Knows

LEMMA IdleKnows == ASSUME NEW r PROVE Knowing(r, Idle)
  BY DEF Knowing, Idle

LEMMA StartsKnowing ==
  ASSUME IInv, Knows,
         \/ \E r \in Triggers, m \in Members : StartTrigger(r, m)
         \/ \E r \in Posts, i \in Intents, s \in {"processing", "succeeded", "failed"} :
              StartPost(r, i, s)
         \/ \E r \in Admins, m \in Members : StartMark(r, m)
         \/ \E r \in Admins, i \in Intents, c \in {"success", "failed", "other"} :
              StartUpdate(r, i, c)
         \/ \E r \in Webhooks, i \in Intents, s \in Final : StartWebhook(r, i, s)
  PROVE  Knows' /\ SameForMembers
<1>. USE DEF tables, SameForMembers
<1>1. ASSUME NEW r \in Requests, NEW q, req' = [req EXCEPT ![r] = q],
             q.pc \notin {"create", "insert", "write", "complete", "finish"},
             UNCHANGED <<tables, stripe, events, crashes, history>>
      PROVE  Knows' /\ SameForMembers
  <2>1. Knowing(r, q)
    BY <1>1 DEF Knowing
  <2>. QED
    BY <1>1, <2>1, KnowsStays
<1>2. ASSUME NEW r \in Triggers, NEW m \in Members, StartTrigger(r, m)
      PROVE  Knows' /\ SameForMembers
  <2>1. [Idle EXCEPT !.pc = "create", !.member = m].pc = "create"
    BY DEF Idle
  <2>2. r \in Requests /\ r \notin Webhooks
    BY PayoutsAssumption DEF Requests
  <2>3. Knowing(r, [Idle EXCEPT !.pc = "create", !.member = m])
    BY <2>1, <2>2 DEF Knowing
  <2>. QED
    BY <1>2, <2>2, <2>3, KnowsStays DEF StartTrigger
<1>3. ASSUME NEW r \in Posts, NEW i \in Intents, NEW s, StartPost(r, i, s)
      PROVE  Knows' /\ SameForMembers
  <2>1. [Idle EXCEPT !.pc = "record", !.intent = i, !.member = stripe[i].member,
                     !.status = s].pc = "record"
    BY DEF Idle
  <2>. QED
    BY <1>1, <1>3, <2>1 DEF StartPost, Requests
<1>4. ASSUME NEW r \in Admins, NEW m \in Members, StartMark(r, m)
      PROVE  Knows' /\ SameForMembers
  <2>1. [Idle EXCEPT !.pc = "mark", !.member = m, !.paid = paidOut[m]].pc = "mark"
    BY DEF Idle
  <2>. QED
    BY <1>1, <1>4, <2>1 DEF StartMark, Requests
<1>5. ASSUME NEW r \in Admins, NEW i \in Intents, NEW c, StartUpdate(r, i, c)
      PROVE  Knows' /\ SameForMembers
  <2>. DEFINE q == [Idle EXCEPT !.pc = "write", !.intent = i, !.member = stripe[i].member,
                    !.status = resolveStatus(c), !.found = payouts[i],
                    !.paid = paidOut[stripe[i].member], !.decides = c # "other"]
  <2>1. q.pc = "write"
    BY DEF Idle
  <2>2. req' = [req EXCEPT ![r] = q] /\ UNCHANGED <<tables, stripe, events, crashes, history>>
    BY <1>5 DEF StartUpdate
  <2>3. r \in Requests /\ r \notin Webhooks
    BY PayoutsAssumption DEF Requests
  <2>. HIDE DEF q
  <2>4. Knowing(r, q)
    BY <2>1, <2>3 DEF Knowing
  <2>. QED
    BY <2>2, <2>3, <2>4, KnowsStays
<1>6. ASSUME NEW r \in Webhooks, NEW i \in Intents, NEW s \in Final, StartWebhook(r, i, s)
      PROVE  Knows' /\ SameForMembers
  <2>. DEFINE q == [Idle EXCEPT !.pc = IF Recorded(i) THEN "write" ELSE "record", !.intent = i,
                    !.member = stripe[i].member, !.status = s, !.found = payouts[i],
                    !.paid = Recorded(i) /\ paidOut[stripe[i].member]]
  <2>1. /\ q.pc = IF Recorded(i) THEN "write" ELSE "record"
        /\ q.member = stripe[i].member
        /\ q.paid = (Recorded(i) /\ paidOut[stripe[i].member])
    BY DEF Idle
  <2>2. req' = [req EXCEPT ![r] = q] /\ UNCHANGED <<tables, stripe, events, crashes, history>>
    BY <1>6 DEF StartWebhook
  <2>3. r \in Requests
    BY DEF Requests
  <2>. HIDE DEF q
  <2>4. CASE Recorded(i)
    <3>1. stripe[i].member \in Members
      BY <2>4 DEF Recorded, IInv, StripeSound
    <3>2. q.paid = paidOut[q.member]
      BY <2>1, <2>4, <3>1 DEF IInv, TypeOK
    <3>3. Knowing(r, q)
      BY <2>1, <2>4, <3>2 DEF Knowing
    <3>. QED
      BY <2>2, <2>3, <3>3, KnowsStays
  <2>5. CASE ~Recorded(i)
    BY <1>1, <2>1, <2>2, <2>3, <2>5
  <2>. QED
    BY <2>4, <2>5
<1>. QED
  BY <1>2, <1>3, <1>4, <1>5, <1>6

\* A request that has read whether the member has been paid out goes on to
\* complete only a member who has not.
LEMMA OnwardKnows ==
  ASSUME NEW r, NEW q, Knowing(r, q), q.pc \in {"insert", "write"}
  PROVE  Knowing(r, Onward(r, q))
<1>1. CASE MustComplete(r, q)
  <2>. DEFINE n == [Idle EXCEPT !.pc = "complete", !.member = q.member]
  <2>1. n.pc = "complete" /\ n.member = q.member
    BY DEF Idle
  <2>2. Onward(r, q) = n
    BY <1>1 DEF Onward
  <2>3. ~paidOut[q.member]
    BY <1>1 DEF MustComplete, Knowing
  <2>. HIDE DEF n
  <2>. QED
    BY <2>1, <2>2, <2>3 DEF Knowing
<1>2. CASE ~MustComplete(r, q)
  BY <1>2, IdleKnows DEF Onward
<1>. QED
  BY <1>1, <1>2

\* Every step of a request but the last of a completion and an admin's leaves
\* the pod as its members see it.
LEMMA StepsKnowing ==
  ASSUME IInv, Knows, NEW r \in Requests, Step(r), ~CompleteMembership(r),
         withdrawn' = {}, approved' = {}
  PROVE  Knows' /\ SameForMembers
<1>. USE DEF tables, SameForMembers
<1>. DEFINE q == req[r]
<1>1. q \in Request /\ Knowing(r, q)
  BY DEF IInv, TypeOK, Knows
<1>2. ASSUME CreatePayment(r) PROVE Knows' /\ SameForMembers
  <2>1. CASE req' = [req EXCEPT ![r] = Idle]
    BY <1>2, <2>1, IdleKnows, KnowsStays DEF CreatePayment
  <2>2. ASSUME NEW i, req' = [req EXCEPT ![r] =
                 [@ EXCEPT !.pc = "insert", !.intent = i, !.status = "processing"]]
        PROVE  Knows' /\ SameForMembers
    <3>. DEFINE n == [q EXCEPT !.pc = "insert", !.intent = i, !.status = "processing"]
    <3>1. n.pc = "insert"
      BY <1>1 DEF Request
    <3>2. req' = [req EXCEPT ![r] = n]
      BY <2>2 DEF IInv, TypeOK
    <3>3. r \notin Webhooks /\ UNCHANGED <<tables, history>>
      BY <1>1, <1>2 DEF CreatePayment, Knowing
    <3>. HIDE DEF n
    <3>4. Knowing(r, n)
      BY <3>1, <3>3 DEF Knowing
    <3>. QED
      BY <3>2, <3>3, <3>4, KnowsStays
  <2>. QED
    BY <1>2, <2>1, <2>2 DEF CreatePayment
<1>3. ASSUME Insert(r) PROVE Knows' /\ SameForMembers
  BY <1>1, <1>3, OnwardKnows, IdleKnows, KnowsStays DEF Insert
<1>4. ASSUME WriteStatus(r) PROVE Knows' /\ SameForMembers
  <2>1. ~q.decides
    BY <1>4 DEF WriteStatus
  <2>2. req' = [req EXCEPT ![r] = Onward(r, q)] /\ SameForMembers /\ q.pc = "write"
    BY <1>4, <2>1 DEF WriteStatus
  <2>. QED
    BY <1>1, <2>2, OnwardKnows, KnowsStays
<1>5. ASSUME RecordPayout(r) PROVE Knows' /\ SameForMembers
  <2>. DEFINE n == [q EXCEPT !.pc = "insert", !.paid = paidOut[q.member]]
  <2>1. n.pc = "insert" /\ n.paid = paidOut[q.member] /\ n.member = q.member
    BY <1>1 DEF Request
  <2>2. \/ req' = [req EXCEPT ![r] = Idle]
        \/ req' = [req EXCEPT ![r] = n]
    BY <1>5 DEF RecordPayout
  <2>3. SameForMembers
    BY <1>5 DEF RecordPayout
  <2>. HIDE DEF n
  <2>4. Knowing(r, n)
    BY <2>1 DEF Knowing
  <2>. QED
    BY <2>2, <2>3, <2>4, IdleKnows, KnowsStays
<1>6. ASSUME MarkPaid(r) PROVE FALSE
  BY <1>6 DEF MarkPaid
<1>7. ASSUME FindMemberships(r) PROVE Knows' /\ SameForMembers
  <2>. DEFINE n == [q EXCEPT !.pc = "finish", !.all = AllPaid(q.member)]
  <2>1. n.pc = "finish" /\ n.all = AllPaid(q.member) /\ n.member = q.member
    BY <1>1 DEF Request
  <2>2. req' = [req EXCEPT ![r] = n] /\ SameForMembers /\ ~paidOut[q.member]
    BY <1>1, <1>7 DEF FindMemberships, Knowing
  <2>. HIDE DEF n
  <2>3. Knowing(r, n)
    BY <2>1, <2>2 DEF Knowing
  <2>. QED
    BY <2>2, <2>3, KnowsStays
<1>. QED
  BY <1>2, <1>3, <1>4, <1>5, <1>6, <1>7 DEF Step

\* The last step of a completion pays one member out, and completes the pod
\* with the last of them.
LEMMA CompletionPaysOut ==
  ASSUME IInv, Alone, Alone', Knows, NEW r \in Requests, CompleteMembership(r),
         withdrawn = {}, CompletedMeansAllPaid
  PROVE  Knows' /\ Payout!Next
<1>. DEFINE q == req[r]
            m == q.member
<1>1. /\ q.pc = "finish" /\ m \in Members
      /\ paidOut' = [paidOut EXCEPT ![m] = TRUE]
      /\ podStatus' = IF q.all THEN "completed" ELSE podStatus
      /\ req' = [req EXCEPT ![r] = Idle]
  BY DEF CompleteMembership, IInv, RequestSound
<1>2. ~paidOut[m] /\ q.all = AllPaid(m)
  BY <1>1 DEF Knows, Knowing
<1>. HIDE DEF m, q
<1>3. /\ paidOut \in [Members -> BOOLEAN]
      /\ paidOut'[m] /\ \A n \in Members \ {m} : paidOut'[n] = paidOut[n]
  BY <1>1 DEF IInv, TypeOK
<1>4. \A s \in Requests : req'[s].pc = "idle"
  <2>1. req[r].pc # "idle" /\ Idle.pc = "idle"
    BY <1>1 DEF Idle, q
  <2>2. req'[r] = Idle /\ \A s \in Requests \ {r} : req[s].pc = "idle" /\ req'[s] = req[s]
    BY <1>1, <2>1, LoneStep
  <2>. QED
    BY <2>1, <2>2
<1>5. Knows'
  BY <1>4 DEF Knows, Knowing
<1>6. podStatus # "completed"
  BY <1>1, <1>2 DEF CompletedMeansAllPaid
<1>. DEFINE paid == {n \in Members : paidOut[n]}
<1>7. m \notin paid /\ paid' = paid \cup {m}
  BY <1>1, <1>2, <1>3
<1>8. q.all <=> paid' = Members
  BY <1>1, <1>2, <1>3 DEF AllPaid
<1>9. (podStatus = "completed")' = (paid' = Members)
  BY <1>1, <1>6, <1>8
<1>. QED
  BY <1>1, <1>5, <1>7, <1>9 DEF Payout!Next, Payout!PayOut

LEMMA PaysStep ==
  ASSUME IInv, LoneInv, CompletedMeansAllPaid, [WatchedNext]_<<vars, overlapped>>
  PROVE  /\ LoneInv'
         /\ [overlapped' \/ withdrawn' # {} \/ approved' # {} \/ Payout!Next]_(Payout!vars)
<1>1. CASE UNCHANGED <<vars, overlapped>>
  BY <1>1 DEF LoneInv, Alone, Busy, Knows, Knowing, AllPaid, vars, tables, history, Payout!vars
<1>2. CASE WatchedNext
  <2>1. Next /\ (~overlapped' => Alone' /\ ~overlapped)
    BY <1>2, AloneFrom DEF WatchedNext
  <2>2. SUFFICES ASSUME ~overlapped', withdrawn' = {}, approved' = {}
                 PROVE  Knows' /\ (SameForMembers \/ Payout!Next)
    BY <2>1 DEF LoneInv, SameForMembers, Payout!vars
  <2>3. withdrawn = {} /\ approved = {}
    BY <2>1, <2>2, Monotone
  <2>4. Alone /\ Alone' /\ Knows
    BY <2>1, <2>2, <2>3 DEF LoneInv
  <2>5. CASE \E r \in Requests : Step(r)
    BY <2>2, <2>3, <2>4, <2>5, StepsKnowing, CompletionPaysOut
  <2>6. CASE \E i \in Intents : Settle(i)
    BY <2>4, <2>6 DEF Settle, tables, SameForMembers, Knows, Knowing, AllPaid
  <2>7. CASE Crash
    BY <2>7 DEF Crash, tables, SameForMembers, Knows, Knowing, Idle
  <2>. QED
    BY <2>1, <2>4, <2>5, <2>6, <2>7, StartsKnowing DEF Next
<1>. QED
  BY <1>1, <1>2

\* As long as requests come one at a time and admins stay out of it, the pod
\* implements PodPayout, restarts or not: each member is paid out once, and the
\* pod is completed at once and only with the last of them.
THEOREM PayoutPromiseKept == WatchedSpec => SerialPayoutPromise
<1>1. Init => LoneInv /\ Payout!Init
  <2>. SUFFICES ASSUME Init PROVE Alone /\ Knows /\ Payout!Init
    BY DEF LoneInv
  <2>1. \A r \in Requests : req[r].pc = "idle"
    BY DEF Init, Idle
  <2>2. {m \in Members : paidOut[m]} = {} /\ podStatus # "completed"
    BY DEF Init
  <2>. QED
    BY <2>1, <2>2 DEF Alone, Busy, Knows, Knowing, Payout!Init
<1>2. [WatchedNext]_<<vars, overlapped>> => [Next]_vars
  BY DEF WatchedNext, vars
<1>. QED
  BY <1>1, <1>2, PaysStep, WatchedIsSpec, CompletedOnlyIfAllPaid, PTL
     DEF WatchedSpec, Spec, SerialPayoutPromise
=============================================================================
