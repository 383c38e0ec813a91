------------------------------ MODULE PodPlans ------------------------------
(***************************************************************************)
(* Pod plans: the terms that the super administrator offers, the pods that *)
(* requests open under them, and the list of open pods that the process    *)
(* keeps for a while.  What a pod goes through is PodLifecycle; here it is *)
(* open, in grace, or locked.                                              *)
(***************************************************************************)
EXTENDS Integers, Sequences, FiniteSets

CONSTANTS
  Codes,         \* plan codes
  Defaults,      \* codes of DEFAULT_POD_PLANS
  Sizes,         \* values of maxMembers, for all the terms of a plan
  DefaultSize,
  Ttl,           \* OPEN_PODS_CACHE_TTL_MS
  MaxPods,       \* bound on pods
  MaxTime,       \* bound on the clock
  Requests

VARIABLES
  plans,     \* rows of pod_plans
  pods,      \* rows of system pods, with their numbers of real members
  cache,     \* openPodsCache: when the request that filled it arrived, and with what
  now,
  requests,
  signed,    \* history: the plan as its first real member found it
  changed,   \* history: when a pod's row or members last changed
  served     \* history: the last list of open pods that was answered

rows == <<plans, pods>>
history == <<signed, changed, served>>
vars == <<rows, cache, now, requests, history>>

NoPlan == [exists |-> FALSE, active |-> FALSE, size |-> 0]

Plan(size, active) == [exists |-> TRUE, active |-> active, size |-> size]

NoCache == [at |-> 0 - 1, pods |-> <<>>]

Idle ==
  [pc |-> "idle", kind |-> "join", at |-> 0, plans |-> <<>>, todo |-> {}, pod |-> 0,
   joined |-> FALSE, code |-> "", plan |-> NoPlan, pods |-> <<>>]

Init ==
  /\ plans = [c \in Codes |-> NoPlan]
  /\ pods = <<>>
  /\ cache = NoCache
  /\ now = 0
  /\ requests = [r \in Requests |-> Idle]
  /\ signed = [c \in Codes |-> NoPlan]
  /\ changed = <<>>
  /\ served = NoCache

Go(r, q) == requests' = [requests EXCEPT ![r] = q]

End(r) == Go(r, Idle)

IsOpen(p) == pods[p].phase # "locked"

OpenPods == {p \in DOMAIN pods : IsOpen(p)}

\* What loadOpenPods reads.
OpenRows == [p \in OpenPods |-> pods[p]]

-----------------------------------------------------------------------------
(***************************************************************************)
(* Requests that read plans: joins, the lists of open pods and of plans,   *)
(* and the timer that refreshes all pods.                                  *)
(***************************************************************************)
Arrive(r, kind, code) ==
  /\ requests[r] = Idle
  /\ Go(r, [Idle EXCEPT !.kind = kind, !.code = code, !.at = now,
                        !.pc = IF \E c \in Codes : plans[c].exists THEN "plans" ELSE "seed"])
  /\ UNCHANGED <<rows, cache, now, history>>

RefreshPods(r) == Arrive(r, "refresh", "")

ListOpenPods(r) == Arrive(r, "open", "")

ListOpenPodsForPlan(r, code) == Arrive(r, "plan", code)

ListPodPlans(r) == Arrive(r, "plans", "")

JoinPod(r, code) == Arrive(r, "join", code)

\* Codes are unique: of two requests that found no plan, one fails.
seedPlansIfEmpty(r) ==
  /\ requests[r].pc = "seed"
  /\ IF \E c \in Defaults : plans[c].exists
     THEN End(r) /\ UNCHANGED plans
     ELSE /\ plans' = [c \in Codes |-> IF c \in Defaults THEN Plan(DefaultSize, TRUE) ELSE plans[c]]
          /\ Go(r, [requests[r] EXCEPT !.pc = "plans"])
  /\ UNCHANGED <<pods, cache, now, history>>

Active == {c \in Codes : plans[c].exists /\ plans[c].active}

\* From here on the request goes by what it has loaded.
Loaded(q, S) == [q EXCEPT !.pc = "ensure", !.todo = S, !.plans = [c \in S |-> plans[c].size]]

getActivePlans(r) ==
  /\ requests[r].pc = "plans" /\ requests[r].kind \in {"refresh", "open", "plans"}
  /\ IF requests[r].kind = "plans" THEN End(r) ELSE Go(r, Loaded(requests[r], Active))
  /\ UNCHANGED <<rows, cache, now, history>>

getPlanOrFail(r) ==
  LET q == requests[r]
  IN  /\ q.pc = "plans" /\ q.kind \in {"join", "plan"}
      /\ IF q.code \in Active THEN Go(r, Loaded(q, {q.code})) ELSE End(r)
      /\ UNCHANGED <<rows, cache, now, history>>

-----------------------------------------------------------------------------
(***************************************************************************)
(* ensurePlanLifecycle: every plan has an open pod.                        *)
(***************************************************************************)
\* The calendar decides whether an open pod of the plan is due for the next
\* phase; an empty one never is.
ensurePlanLifecycle(r) ==
  LET q == requests[r]
  IN  /\ q.pc = "ensure"
      /\ \E c \in q.todo :
           LET mine == {p \in OpenPods : pods[p].plan = c}
               next == [q EXCEPT !.todo = @ \ {c}]
           IN  IF mine = {}
               THEN Go(r, [next EXCEPT !.pc = "create", !.code = c]) /\ cache' = NoCache
               ELSE /\ UNCHANGED cache
                    /\ \/ Go(r, next)
                       \/ \E p \in mine : pods[p].members > 0
                                            /\ Go(r, [next EXCEPT !.pc = "advance", !.pod = p])
      /\ UNCHANGED <<rows, now, history>>

createOpenPod(r) ==
  LET q == requests[r]
  IN  /\ q.pc = "create" /\ Len(pods) < MaxPods
      /\ pods' = Append(pods, [plan |-> q.code, size |-> q.plans[q.code], members |-> 0,
                               phase |-> "open"])
      /\ changed' = Append(changed, now)
      /\ Go(r, [q EXCEPT !.pc = "ensure"])
      /\ UNCHANGED <<plans, cache, now, signed, served>>

\* Into grace, or locked; either way the list is dropped after the flush.
updatePodLifecycle(r) ==
  LET q == requests[r]
  IN  /\ q.pc = "advance"
      /\ pods' = [pods EXCEPT ![q.pod].phase = IF @ = "open" THEN "grace" ELSE "locked"]
      /\ changed' = [changed EXCEPT ![q.pod] = now]
      /\ cache' = NoCache
      /\ Go(r, [q EXCEPT !.pc = "ensure"])
      /\ UNCHANGED <<plans, now, signed, served>>

\* Where a request goes when it has been through its plans.
Ensured(r) == requests[r].pc = "ensure" /\ requests[r].todo = {}

EndRefresh(r) ==
  /\ Ensured(r) /\ requests[r].kind = "refresh"
  /\ cache' = NoCache
  /\ End(r)
  /\ UNCHANGED <<rows, now, history>>

-----------------------------------------------------------------------------
(***************************************************************************)
(* The list of open pods.                                                  *)
(***************************************************************************)
\* Mutant: what has been cached is good for ever.
MutFresh(q) == cache # NoCache

Fresh(q) == cache # NoCache /\ q.at - cache.at <= Ttl

Serve(q, list) == served' = [at |-> q.at, pods |-> list]

\* loadOpenPods; the list of all open pods drops the cache first.
loadOpenPods(r) ==
  LET q == requests[r]
  IN  /\ Ensured(r) /\ q.kind \in {"open", "plan"}
      /\ IF q.kind = "plan" /\ Fresh(q)
         THEN /\ Serve(q, cache.pods)
              /\ End(r)
              /\ UNCHANGED cache
         ELSE /\ cache' = IF q.kind = "open" THEN NoCache ELSE cache
              /\ Go(r, [q EXCEPT !.pc = "fill", !.pods = OpenRows])
              /\ UNCHANGED served
      /\ UNCHANGED <<rows, now, signed, changed>>

\* What has been read is cached under the time the request arrived, whatever
\* has been dropped since.
FillCache(r) ==
  LET q == requests[r]
  IN  /\ q.pc = "fill"
      /\ cache' = [at |-> q.at, pods |-> q.pods]
      /\ Serve(q, q.pods)
      /\ End(r)
      /\ UNCHANGED <<rows, now, signed, changed>>

-----------------------------------------------------------------------------
(***************************************************************************)
(* Joining, as far as it reads plans and the list.                         *)
(***************************************************************************)
\* With no open pod the plan is gone through once more.
LocatePod(r) ==
  LET q == requests[r]
      mine == {p \in OpenPods : pods[p].plan = q.code}
  IN  /\ Ensured(r) /\ q.kind = "join" /\ ~q.joined
      /\ IF mine = {} THEN Go(r, [q EXCEPT !.todo = {q.code}]) \/ End(r)
         ELSE \E p \in mine :
                IF pods[p].members < q.plans[q.code]
                THEN Go(r, [q EXCEPT !.pc = "insert", !.pod = p])
                ELSE End(r)
      /\ UNCHANGED <<rows, cache, now, history>>

InsertMembership(r) ==
  LET q == requests[r]
  IN  /\ q.pc = "insert"
      /\ pods' = [pods EXCEPT ![q.pod].members = @ + 1]
      /\ changed' = [changed EXCEPT ![q.pod] = now]
      /\ signed' = [signed EXCEPT ![q.code] = IF @ = NoPlan THEN plans[q.code] ELSE @]
      /\ Go(r, [q EXCEPT !.pc = "ensure", !.joined = TRUE, !.todo = {q.code}])
      /\ UNCHANGED <<plans, cache, now, served>>

\* The pod may have moved on, so that the plan needs another.
EndJoin(r) ==
  /\ Ensured(r) /\ requests[r].joined
  /\ cache' = NoCache
  /\ End(r)
  /\ UNCHANGED <<rows, now, history>>

\* An award or an activity cannot be stored: the membership stays, and so does
\* what is cached.
FailJoin(r) ==
  /\ requests[r].pc = "ensure" /\ requests[r].joined
  /\ End(r)
  /\ UNCHANGED <<rows, cache, now, history>>

-----------------------------------------------------------------------------
(***************************************************************************)
(* The super administrator.                                                *)
(***************************************************************************)
hasPodsWithRealMembers(c) == \E p \in DOMAIN pods : pods[p].plan = c /\ pods[p].members > 0

getUsageMap ==
  [c \in Codes |->
     LET mine == {p \in DOMAIN pods : pods[p].plan = c}
     IN  [totalPods |-> Cardinality(mine),
          podsWithMembers |-> Cardinality({p \in mine : pods[p].members > 0})]]

\* buildSummary: what the list of plans shows as editable and deletable.
CanModify(c) == getUsageMap[c].podsWithMembers = 0

CreatePlan(c, plan) ==
  /\ ~plans[c].exists
  /\ plans' = [plans EXCEPT ![c] = plan]
  /\ UNCHANGED <<pods, cache, now, requests, history>>

\* The members are counted before the row is written.
ChangePlan(r, c, plan) ==
  /\ requests[r] = Idle
  /\ plans[c].exists /\ ~hasPodsWithRealMembers(c)
  /\ Go(r, [Idle EXCEPT !.pc = "commit", !.code = c, !.plan = plan])
  /\ UNCHANGED <<rows, cache, now, history>>

UpdatePlan(r, c, plan) == plan.exists /\ ChangePlan(r, c, plan)

DeletePlan(r, c) == ChangePlan(r, c, NoPlan)

CommitPlan(r) ==
  LET q == requests[r]
  IN  /\ q.pc = "commit"
      /\ plans' = IF plans[q.code].exists THEN [plans EXCEPT ![q.code] = q.plan] ELSE plans
      /\ End(r)
      /\ UNCHANGED <<pods, cache, now, history>>

Tick ==
  /\ now < MaxTime
  /\ now' = now + 1
  /\ UNCHANGED <<rows, cache, requests, history>>

\* The cache dies with the process.
Crash ==
  /\ \E r \in Requests : requests[r] # Idle
  /\ requests' = [r \in Requests |-> Idle]
  /\ cache' = NoCache
  /\ UNCHANGED <<rows, now, history>>

-----------------------------------------------------------------------------
Offers == {Plan(size, active) : size \in Sizes, active \in BOOLEAN}

Request(r) ==
  \/ RefreshPods(r) \/ ListOpenPods(r) \/ ListPodPlans(r)
  \/ \E c \in Codes :
       \/ ListOpenPodsForPlan(r, c) \/ JoinPod(r, c) \/ DeletePlan(r, c)
       \/ \E plan \in Offers : UpdatePlan(r, c, plan)

Step(r) ==
  \/ seedPlansIfEmpty(r) \/ getActivePlans(r) \/ getPlanOrFail(r)
  \/ ensurePlanLifecycle(r) \/ createOpenPod(r) \/ updatePodLifecycle(r) \/ EndRefresh(r)
  \/ loadOpenPods(r) \/ FillCache(r)
  \/ LocatePod(r) \/ InsertMembership(r) \/ EndJoin(r)
  \/ CommitPlan(r)

Failure == \E r \in Requests : FailJoin(r)

Event == (\E c \in Codes, plan \in Offers : CreatePlan(c, plan)) \/ Crash

Next == (\E r \in Requests : Request(r) \/ Step(r)) \/ Failure \/ Event \/ Tick

Spec == Init /\ [][Next]_vars

-----------------------------------------------------------------------------
\* However requests overlap, fail or refill the cache with what they read before
\* it was dropped, a list of open pods misses no member, pod or phase that is
\* older than the cache's time to live.
ListsCatchUp ==
  \A p \in DOMAIN pods : changed[p] + Ttl < served.at =>
    IF IsOpen(p) THEN p \in DOMAIN served.pods /\ served.pods[p] = pods[p]
    ELSE p \notin DOMAIN served.pods

\* "This pod plan cannot be modified because it is used by pods with real
\* members": promised to requests that come one at a time.
PlansOfMembersKept == \A c \in Codes : signed[c] # NoPlan => plans[c] = signed[c]

\* And with nobody under way what is cached is what is open.
CacheIsCurrent ==
  cache = NoCache \/ cache.pods = OpenRows \/ \E r \in Requests : requests[r] # Idle
=============================================================================
