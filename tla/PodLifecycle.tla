---------------------------- MODULE PodLifecycle ----------------------------
(***************************************************************************)
(* The system pods of one plan: PodDomainHelper (pod-domain.helper.ts) and *)
(* its callers, the scheduled RefreshPods command, the list-open-pods      *)
(* queries and the JoinPod command.                                        *)
(*                                                                         *)
(* Every caller is a request with its own EntityManager.  Requests         *)
(* interleave at their awaits: a step below is the code between two        *)
(* database round trips whose order with other requests matters, and what  *)
(* a request loaded (req[r].view) may be stale when it writes.  A flush    *)
(* writes the columns whose value differs from the loaded one.             *)
(***************************************************************************)
EXTENDS PodCalendar, FiniteSets

CONSTANTS Accounts,      \* accounts that pass the join guard
          Refreshers,    \* requests that only refresh: timer runs, list queries
          Joiners,       \* JoinPod requests
          Pods,          \* ids of system pods of the plan, 1..n
          maxMembers,    \* plan.maxMembers
          FirstDay, LastDay, \* the days of a behaviour
          Concurrency,   \* bound on the requests under way at once
          Crashes,       \* whether the process may die and restart
          NoDate, Bot, Nobody

ASSUME LifecycleAssumption ==
  /\ IsFiniteSet(Pods) /\ Pods \subseteq Nat
  /\ maxMembers \in Nat \ {0}
  /\ FirstDay \in Day /\ LastDay \in Day
  /\ FirstDay <= LastDay /\ LastDay + 1 < MonthStart[LastMonth]
  /\ Concurrency \in Nat \ {0}
  /\ Crashes \in BOOLEAN
  /\ NoDate \notin Int
  /\ Bot \notin Accounts /\ Nobody \notin Accounts
  /\ Refreshers \cap Joiners = {}

Requests == Refreshers \cup Joiners

\* POD_GRACE_PERIOD_DAYS and POD_OPEN_STATUSES.
GracePeriodDays == 2
OpenStatuses == {"open", "grace"}

VARIABLES day,      \* today, startOfDay(new Date())
          pod,      \* the rows of table pods
          members,  \* pod_memberships of each pod, in insertion order
          version,  \* the optimistic-lock version of each account
          req       \* the requests under way

vars == <<day, pod, members, version, req>>

\* The columns of a pod that the checksum covers and this module changes.
Hashed(row) ==
  <<row.status, row.scheduledStartDate, row.startDate, row.graceEndsAt, row.lockedAt>>

applyChecksum(row) == [row EXCEPT !.checksum = Hashed(row)]

NoRow ==
  [status |-> "none", scheduledStartDate |-> NoDate, startDate |-> NoDate,
   graceEndsAt |-> NoDate, lockedAt |-> NoDate, nextContributionDate |-> NoDate,
   checksum |-> <<>>]

Idle ==
  [pc |-> "idle", stage |-> 0, now |-> FirstDay, account |-> Nobody, version |-> 0,
   view |-> [p \in Pods |-> NoRow], target |-> 0, todo |-> {}, seen |-> 0]

Init ==
  /\ day = FirstDay
  /\ pod = [p \in Pods |-> NoRow]
  /\ members = [p \in Pods |-> <<>>]
  /\ version = [a \in Accounts |-> 0]
  /\ req = [r \in Requests |-> Idle]

Joinable == {p \in Pods : pod[p].status \in OpenStatuses}

\* em.flush(): of the columns of `after', those that differ from what the
\* request loaded (`before') are written over the row.
Flush(row, before, after) ==
  [c \in DOMAIN row |-> IF after[c] # before[c] THEN after[c] ELSE row[c]]

(***************************************************************************)
(* Requests begin                                                          *)
(***************************************************************************)
Busy == {r \in Requests : req[r].pc # "idle"}

StartRefresh(r) ==
  /\ req[r].pc = "idle"
  /\ Cardinality(Busy) < Concurrency
  /\ req' = [req EXCEPT ![r] = [Idle EXCEPT !.pc = "find", !.now = day]]
  /\ UNCHANGED <<day, pod, members, version>>

\* JoinPodHandler.execute up to its first ensurePlanLifecycle: the account is
\* loaded with its version and passes the guards.
StartJoin(r, a) ==
  /\ req[r].pc = "idle"
  /\ Cardinality(Busy) < Concurrency
  /\ req' = [req EXCEPT ![r] = [Idle EXCEPT !.pc = "find", !.stage = 1, !.now = day,
                                            !.account = a, !.version = version[a]]]
  /\ UNCHANGED <<day, pod, members, version>>

(***************************************************************************)
(* ensurePlanLifecycle                                                     *)
(***************************************************************************)
\* The pods of the plan are loaded.  The first joinable one in the database's
\* order is `openPod'; other pods in grace are updated after it.
Find(r) ==
  /\ req[r].pc = "find"
  /\ IF Joinable = {}
     THEN req' = [req EXCEPT ![r].pc = "create"]
     ELSE \E p \in Joinable :
            LET others == {q \in Joinable \ {p} : pod[q].status = "grace"}
            IN  req' = [req EXCEPT ![r] =
                  [@ EXCEPT !.pc = "update", !.target = p, !.todo = others,
                            !.view = [q \in Pods |-> IF q \in others \cup {p}
                                                     THEN pod[q] ELSE NoRow]]]
  /\ UNCHANGED <<day, pod, members, version>>

NewPod(now) ==
  applyChecksum([NoRow EXCEPT !.status = "open",
                              !.scheduledStartDate = computeNextStartDate(now)])

createOpenPod(r) ==
  /\ req[r].pc = "create"
  /\ \E p \in Pods :
       /\ pod[p].status = "none"
       /\ \A q \in Pods : q < p => pod[q].status # "none"
       /\ pod' = [pod EXCEPT ![p] = NewPod(req[r].now)]
       /\ req' = [req EXCEPT ![r] =
            [@ EXCEPT !.pc = "update", !.target = p, !.todo = {},
                      !.view[p] = NewPod(req[r].now)]]
  /\ UNCHANGED <<day, members, version>>

\* A bound of the model: with every id of Pods in use the request is dropped.
PodsExhausted(r) ==
  /\ req[r].pc = "create"
  /\ \A p \in Pods : pod[p].status # "none"
  /\ req' = [req EXCEPT ![r] = Idle]
  /\ UNCHANGED <<day, pod, members, version>>

\* Where ensurePlanLifecycle goes when it is done with its target pod, as the
\* next value of the request: the next pod in grace, or back to the caller.
Continue(q) ==
  IF q.todo # {}
  THEN LET p == CHOOSE p \in q.todo : TRUE
       IN  [q EXCEPT !.pc = "update", !.target = p, !.todo = @ \ {p}]
  ELSE IF q.stage \in {1, 2} THEN [q EXCEPT !.pc = "locate"]
  ELSE Idle

\* updatePodLifecycle of a loaded row with `count' memberships on day `now':
\* the row as it leaves the function, before lockPod.
Updated(row, count, now) ==
  IF row.status = "open" /\ now >= row.scheduledStartDate
  THEN IF count = 0
       THEN applyChecksum([row EXCEPT
              !.scheduledStartDate = nextStartWindow(row.scheduledStartDate)])
       ELSE applyChecksum([row EXCEPT
              !.status = "grace",
              !.startDate = row.scheduledStartDate,
              !.graceEndsAt = addDays(row.scheduledStartDate, GracePeriodDays),
              !.nextContributionDate = row.scheduledStartDate])
  ELSE IF row.status = "grace" /\ count = 0
  THEN applyChecksum([row EXCEPT !.status = "open", !.startDate = NoDate,
         !.graceEndsAt = NoDate, !.scheduledStartDate = nextStartWindow(now)])
  ELSE row

\* Mutant: locks on the last day of grace.
MutMustLockOnLastDay(row, count, now) ==
  row.status = "grace" /\ count > 0 /\ now >= row.graceEndsAt

\* Mutant: only full pods lock.
MutMustLockWhenFull(row, count, now) ==
  row.status = "grace" /\ count = maxMembers /\ now > row.graceEndsAt

MustLock(row, count, now) ==
  row.status = "grace" /\ count > 0 /\ now > row.graceEndsAt

\* updatePodLifecycle: memberships are re-read, the checksum of the loaded row
\* is asserted, and the pod opens its grace period, or goes on to lock.
updatePodLifecycle(r) ==
  LET p == req[r].target
      row == req[r].view[p]
      count == Len(members[p])
  IN  /\ req[r].pc = "update"
      /\ IF row.checksum # Hashed(row)
         THEN req' = [req EXCEPT ![r] = Idle] /\ UNCHANGED pod
         ELSE IF MustLock(row, count, req[r].now)
         THEN /\ req' = [req EXCEPT ![r] = [@ EXCEPT !.pc = "bots", !.seen = count]]
              /\ UNCHANGED pod
         ELSE /\ pod' = [pod EXCEPT ![p] = Flush(@, row, Updated(row, count, req[r].now))]
              /\ req' = [req EXCEPT ![r] = Continue(@)]
      /\ UNCHANGED <<day, members, version>>

\* lockPod, first flush: ACTIVE is committed together with the bots that fill
\* the slots missing when the memberships were read.
MissingSlots(seen) == IF seen < maxMembers THEN maxMembers - seen ELSE 0

NewBots(seen) ==
  [i \in 1..MissingSlots(seen) |-> [who |-> Bot, joinOrder |-> seen + i, finalOrder |-> 0]]

lockPodFill(r) ==
  LET p == req[r].target
      row == req[r].view[p]
      locked == [row EXCEPT !.status = "active", !.lockedAt = req[r].now]
  IN  /\ req[r].pc = "bots"
      /\ pod' = [pod EXCEPT ![p] = Flush(@, row, locked)]
      /\ members' = [members EXCEPT ![p] = @ \o NewBots(req[r].seen)]
      /\ req' = [req EXCEPT ![r] =
            [@ EXCEPT !.pc = "order", !.view[p] = locked]]
      /\ UNCHANGED <<day, version>>

\* Mutant: people are paid before bots.
MutFinalOrdersPeopleFirst(rows) ==
  {f \in [DOMAIN rows -> DOMAIN rows] :
     /\ \A i, j \in DOMAIN rows : f[i] = f[j] => i = j
     /\ \A i, j \in DOMAIN rows :
          rows[i].who # Bot /\ rows[j].who = Bot => f[i] < f[j]}

\* The payout orders lockPod can choose: bots first, as they were inserted,
\* then the other members shuffled.
FinalOrders(rows) ==
  LET bots == {i \in DOMAIN rows : rows[i].who = Bot}
      people == DOMAIN rows \ bots
      n == Cardinality(bots)
  IN  {f \in [DOMAIN rows -> DOMAIN rows] :
         /\ \A i, j \in DOMAIN rows : f[i] = f[j] => i = j
         /\ \A i \in bots : f[i] = Cardinality({j \in bots : j <= i})
         /\ \A i \in people : f[i] > n}

\* lockPod, second flush: the payout order, and the checksum of the ACTIVE row.
lockPodOrder(r) ==
  LET p == req[r].target
      row == req[r].view[p]
      start == IF row.nextContributionDate = NoDate
               THEN row.startDate ELSE row.nextContributionDate
      ordered == applyChecksum([row EXCEPT !.nextContributionDate = start])
  IN  /\ req[r].pc = "order"
      /\ \E f \in FinalOrders(members[p]) :
           members' = [members EXCEPT ![p] =
             [i \in DOMAIN @ |-> [@[i] EXCEPT !.finalOrder = f[i]]]]
      /\ pod' = [pod EXCEPT ![p] = Flush(@, row, ordered)]
      /\ req' = [req EXCEPT ![r] = Continue(@)]
      /\ UNCHANGED <<day, version>>

(***************************************************************************)
(* JoinPodHandler.execute after ensurePlanLifecycle                        *)
(***************************************************************************)
HasJoined(a, p) == \E i \in DOMAIN members[p] : members[p][i].who = a

\* Mutant: the capacity is compared with > instead of >=.
MutRejectedOverfull(a, p) == HasJoined(a, p) \/ Len(members[p]) > maxMembers

\* The two rejections that depend on the pod.
Rejected(a, p) == HasJoined(a, p) \/ Len(members[p]) >= maxMembers

\* A joinable pod and its memberships are read.
Locate(r) ==
  /\ req[r].pc = "locate"
  /\ IF Joinable = {}
     THEN req' = [req EXCEPT ![r] = IF req[r].stage = 1
                                    THEN [@ EXCEPT !.pc = "find", !.stage = 2]
                                    ELSE Idle]
     ELSE \E p \in Joinable :
            req' = [req EXCEPT ![r] =
              IF Rejected(req[r].account, p)
              THEN Idle
              ELSE [@ EXCEPT !.pc = "insert", !.target = p, !.seen = Len(members[p])]]
  /\ UNCHANGED <<day, pod, members, version>>

\* Mutant: off by one, and below zero, in an empty pod.
MutNewMemberOrder(a, seen) == [who |-> a, joinOrder |-> seen - 1, finalOrder |-> 0]

NewMember(a, seen) == [who |-> a, joinOrder |-> seen + 1, finalOrder |-> 0]

\* Mutant: the account carries no version.
MutVersionIgnored(r) == TRUE

VersionCurrent(r) == version[req[r].account] = req[r].version

\* The flush of the new membership also updates the account (markPodJoined):
\* an account changed by another request since it was loaded fails the flush.
Insert(r) ==
  LET a == req[r].account
      p == req[r].target
  IN  /\ req[r].pc = "insert"
      /\ IF VersionCurrent(r)
         THEN /\ members' = [members EXCEPT ![p] = Append(@, NewMember(a, req[r].seen))]
              /\ version' = [version EXCEPT ![a] = @ + 1]
              /\ req' = [req EXCEPT ![r] = [@ EXCEPT !.pc = "find", !.stage = 3]]
         ELSE req' = [req EXCEPT ![r] = Idle] /\ UNCHANGED <<members, version>>
      /\ UNCHANGED <<day, pod>>

(***************************************************************************)
(* Environment                                                             *)
(***************************************************************************)
\* Midnight.  No request lasts a whole day, though it may span midnight.
NextDay ==
  /\ day < LastDay
  /\ \A r \in Busy : req[r].now = day
  /\ day' = day + 1
  /\ UNCHANGED <<pod, members, version, req>>

\* The process dies: requests under way are gone, committed rows stay.
Crash ==
  /\ Crashes
  /\ Busy # {}
  /\ req' = [r \in Requests |-> Idle]
  /\ UNCHANGED <<day, pod, members, version>>

Step(r) ==
  \/ Find(r) \/ createOpenPod(r) \/ PodsExhausted(r) \/ updatePodLifecycle(r)
  \/ lockPodFill(r) \/ lockPodOrder(r) \/ Locate(r) \/ Insert(r)

Next ==
  \/ NextDay
  \/ Crash
  \/ \E r \in Refreshers : StartRefresh(r)
  \/ \E r \in Joiners, a \in Accounts : StartJoin(r, a)
  \/ \E r \in Requests : Step(r)

Spec == Init /\ [][Next]_vars

\* The timer keeps firing, started requests are answered and days pass; nobody
\* is obliged to join.  The timer waits for nobody, so that StartRefresh is
\* strongly fair: only the model's bound on Concurrency ever disables it.
Fairness ==
  /\ WF_vars(NextDay)
  /\ \A r \in Refreshers : SF_vars(StartRefresh(r))
  /\ \A r \in Requests : WF_vars(Step(r))

FairSpec == Spec /\ Fairness

-----------------------------------------------------------------------------
(***************************************************************************)
(* Properties                                                              *)
(***************************************************************************)
MaybeDate == Int \cup {NoDate}
Status == {"none", "open", "grace", "active"}
Row == [status : Status, scheduledStartDate : MaybeDate, startDate : MaybeDate,
        graceEndsAt : MaybeDate, lockedAt : MaybeDate,
        nextContributionDate : MaybeDate,
        checksum : {<<>>} \cup (Status \X MaybeDate \X MaybeDate \X MaybeDate \X MaybeDate)]
Membership == [who : Accounts \cup {Bot}, joinOrder : Nat, finalOrder : Nat]
Request == [pc : {"idle", "find", "create", "update", "bots", "order", "locate", "insert"},
            stage : 0..3, now : FirstDay..LastDay, account : Accounts \cup {Nobody}, version : Nat,
            view : [Pods -> Row], target : Pods \cup {0}, todo : SUBSET Pods, seen : Nat]

TypeOK ==
  /\ day \in FirstDay..LastDay
  /\ pod \in [Pods -> Row]
  /\ members \in [Pods -> Seq(Membership)]
  /\ version \in [Accounts -> Nat]
  /\ req \in [Requests -> Request]

\* A request is between the two flushes of lockPod on pod p.
Locking(p) == \E r \in Requests : req[r].pc = "order" /\ req[r].target = p

\* However requests of one account interleave, the account never holds two
\* memberships of a pod: neither the table nor the existence check of
\* JoinPodHandler alone guarantees it.
OneMembershipPerAccount ==
  \A p \in Pods : \A i, j \in DOMAIN members[p] :
    members[p][i].who = members[p][j].who /\ members[p][i].who # Bot => i = j

\* Members can join until the grace period is over: no pod is locked on or
\* before the day its graceEndsAt names, whoever locks it and however stale the
\* row it decided on was.
NoLockDuringGrace ==
  \A p \in Pods : pod[p].status = "active" => pod[p].lockedAt > pod[p].graceEndsAt

\* One plan offers one pod at a time, so that members gather in the same pod.
OneJoinablePod ==
  Cardinality({p \in Pods : pod[p].status \in OpenStatuses}) <= 1

\* A locked pod has exactly maxMembers members, and its payout order is a
\* bijection onto the slots that pays every bot before any person, and the bots
\* in the order of their join numbers.
Ordered(rows) ==
  /\ {rows[i].finalOrder : i \in DOMAIN rows} = 1..maxMembers
  /\ \A i, j \in DOMAIN rows :
       rows[i].who = Bot /\ (rows[j].who # Bot \/ rows[i].joinOrder < rows[j].joinOrder) =>
         rows[i].finalOrder < rows[j].finalOrder

LockedPodFilledAndOrdered ==
  \A p \in Pods : pod[p].status = "active" /\ ~Locking(p) =>
    Len(members[p]) = maxMembers /\ Ordered(members[p])

\* The pods as their members see them.  A pod whose lock has only committed its
\* first flush still gathers.
Gathered(p) == {members[p][i].who : i \in DOMAIN members[p]} \ {Bot}
Settled(p) == pod[p].status = "active" /\ ~Locking(p)

Round == INSTANCE PodRound WITH
  People <- Accounts, Rounds <- Pods, Slots <- maxMembers,
  phase <- [p \in Pods |-> IF pod[p].status = "none" THEN "absent"
                           ELSE IF Settled(p) THEN "settled" ELSE "gathering"],
  roster <- [p \in Pods |-> Gathered(p)],
  turn <- [p \in Pods |-> IF ~Settled(p) THEN <<>>
    ELSE [a \in Gathered(p) |->
            LET i == CHOOSE i \in DOMAIN members[p] : members[p][i].who = a
            IN  members[p][i].finalOrder]]

\* "Pod state checksum mismatch." (pod-domain.helper.ts:349) never stops the
\* refresh of a pod that is still to be refreshed.
JoinableChecksumsIntact ==
  \A p \in Joinable : pod[p].checksum = Hashed(pod[p])

\* "Pod is already full." (join-pod.handler.ts:133): a pod never has more
\* members than its plan allows.
NeverOverfull == \A p \in Pods : Len(members[p]) <= maxMembers
=============================================================================
