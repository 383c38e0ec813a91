----------------------------- MODULE CustomPod -----------------------------
(***************************************************************************)
(* A custom pod from its creation (CreateCustomPod) to its activation by   *)
(* the last invitee (AcceptCustomPodInvite), and the swaps of turns by an  *)
(* admin (SwapPodPayoutPosition).                                          *)
(*                                                                         *)
(* AcceptCustomPodInvite works on the pod, the invite and the memberships  *)
(* it loaded first.  Its acceptance is flushed by the ORM before the       *)
(* invites are looked up, so that what follows, the awards of the creator  *)
(* and the activation, may fail with the acceptance on record.             *)
(***************************************************************************)
EXTENDS FiniteSets, Integers, Sequences

CONSTANTS Accounts,     \* accounts that pass the guards (verified, not flagged)
          Creator,
          InviteLists,  \* lists of invitees that a client may send
          Accepts,      \* POST /pods/custom/invites/accept
          Swaps,        \* an admin's swap of two turns
          Nobody,
          Concurrency,  \* bound on the requests under way at once
          MaxCrashes    \* bound on how often the process dies and restarts

ASSUME CustomPodAssumption ==
  /\ IsFiniteSet(Accounts) /\ Creator \in Accounts /\ Nobody \notin Accounts
  /\ InviteLists \subseteq Seq(Accounts)
  /\ Accepts \cap Swaps = {}
  /\ Concurrency \in Nat /\ MaxCrashes \in Nat

Requests == Accepts \cup Swaps

VARIABLES status,    \* pod.status, "none" before the pod is created
          invites,   \* the invited accounts, in inviteOrder
          randomize, \* pod.randomizePayoutOrder
          accepted,  \* whose invite has an acceptedAt
          members,   \* rows of pod_memberships of the pod, in insertion order
          version,   \* accounts.version
          awards,    \* achievements of the creator
          req,       \* the requests under way
          crashes,   \* how often the process has died
          overlapped \* history: two requests were under way at once

pod == <<status, invites, randomize>>
vars == <<pod, accepted, members, version, awards, req, crashes, overlapped>>

Codes == {"KOAJO_CONNECTOR", "REFERRAL_MASTER", "POD_LEADER"}

\* `known' is the number of memberships loaded, `own' the request's new one,
\* `all' and `todo' what it is to do after the look at the invites, `turns' the
\* two turns a swap has loaded.
Idle == [pc |-> "idle", account |-> Nobody, version |-> 0, known |-> 0, own |-> 0,
         all |-> FALSE, todo |-> <<>>, first |-> 0, second |-> 0, turns |-> <<0, 0>>]

\* The creator may have earned awards with earlier pods.
Init ==
  /\ status = "none"
  /\ invites = <<>>
  /\ randomize = FALSE
  /\ accepted = {}
  /\ members = <<>>
  /\ version = [a \in Accounts |-> 1]
  /\ awards \in {s \in SUBSET Codes : s # {} => "KOAJO_CONNECTOR" \in s}
  /\ req = [r \in Requests |-> Idle]
  /\ crashes = 0
  /\ overlapped = FALSE

Busy == {r \in Requests : req[r].pc # "idle"}

Start(r, q) ==
  /\ req[r].pc = "idle"
  /\ Cardinality(Busy) < Concurrency
  /\ req' = [req EXCEPT ![r] = q]
  /\ overlapped' = (overlapped \/ Busy # {})

Invited == {invites[i] : i \in DOMAIN invites}
Expected == Len(invites) + 1

(***************************************************************************)
(* CreateCustomPod                                                         *)
(***************************************************************************)
NewMembership(a, order) == [account |-> a, joinOrder |-> order, finalOrder |-> 0]

\* normalizeInvites: nobody twice, and not the creator.
Normalized(list) ==
  \A i, j \in DOMAIN list : list[i] # Creator /\ (list[i] = list[j] => i = j)

CreateCustomPod ==
  /\ status = "none"
  /\ \E list \in InviteLists : Normalized(list) /\ invites' = list
  /\ randomize' \in BOOLEAN
  /\ status' = "pending"
  /\ members' = <<NewMembership(Creator, 1)>>
  /\ UNCHANGED <<accepted, version, awards, req, crashes, overlapped>>

(***************************************************************************)
(* AcceptCustomPodInvite: up to the flush of the acceptance                *)
(***************************************************************************)
IsMember(a) == \E i \in DOMAIN members : members[i].account = a

\* "Invitation has already been accepted.", "Account already joined this pod.",
\* "Pod is already at maximum capacity."
Welcome(a) ==
  /\ a \in Invited
  /\ a \notin accepted
  /\ ~IsMember(a)
  /\ Len(members) < Expected

\* The invite is read with its pod and the memberships.  One that is turned
\* down leaves no trace.
FindInvite(r, a) ==
  /\ Welcome(a)
  /\ Start(r, [Idle EXCEPT !.pc = "account", !.account = a, !.known = Len(members)])
  /\ UNCHANGED <<pod, accepted, members, version, awards, crashes>>

FindAccount(r) ==
  LET q == req[r]
  IN  /\ q.pc = "account"
      /\ req' = [req EXCEPT ![r] = [q EXCEPT !.pc = "flush", !.version = version[q.account]]]
      /\ UNCHANGED <<pod, accepted, members, version, awards, crashes, overlapped>>

\* Mutant: acceptedAt is not among the columns written.
MutWithAccepted(a) == accepted

WithAccepted(a) == accepted \cup {a}

\* Mutant: the count before the new membership.
MutNextJoinOrder(known) == known - 1

NextJoinOrder(known) == known + 1

\* inviteRepository.find flushes what has been persisted: the account, unless
\* it has a newer version, with the acceptance and the membership.
Accept(r) ==
  LET q == req[r]
      a == q.account
  IN  /\ q.pc = "flush"
      /\ IF version[a] # q.version
         THEN /\ req' = [req EXCEPT ![r] = Idle]
              /\ UNCHANGED <<accepted, members, version>>
         ELSE /\ version' = [version EXCEPT ![a] = @ + 1]
              /\ accepted' = WithAccepted(a)
              /\ members' = Append(members, NewMembership(a, NextJoinOrder(q.known)))
              /\ req' = [req EXCEPT ![r] =
                   [q EXCEPT !.pc = "find", !.own = Len(members) + 1]]
      /\ UNCHANGED <<pod, awards, crashes, overlapped>>

(***************************************************************************)
(* AcceptCustomPodInvite: awards and activation                            *)
(***************************************************************************)
\* Mutant: the invites are counted against the members.
MutAllAccepted == Cardinality(accepted) = Expected

\* Mutant: one acceptance is enough.
MutSomeAccepted == accepted # {}

AllAccepted == Invited \subseteq accepted

\* handleCustomPodInviteProgress, in the order of the code.
Earned ==
  LET n == Cardinality(accepted)
  IN  (IF n >= 1 THEN <<"KOAJO_CONNECTOR">> ELSE <<>>)
      \o (IF n >= 3 THEN <<"REFERRAL_MASTER">> ELSE <<>>)
      \o (IF n > 0 /\ n = Len(invites) THEN <<"POD_LEADER">> ELSE <<>>)

\* ... and then reads the invites.
FindInvites(r) ==
  LET q == req[r]
  IN  /\ q.pc = "find"
      /\ req' = [req EXCEPT ![r] = [q EXCEPT !.pc = "award", !.all = AllAccepted, !.todo = Earned]]
      /\ UNCHANGED <<pod, accepted, members, version, awards, crashes, overlapped>>

\* AchievementService.award looks for the award ...
FindAward(r) ==
  LET q == req[r]
  IN  /\ q.pc = "award" /\ q.todo # <<>>
      /\ req' = [req EXCEPT ![r] =
           IF Head(q.todo) \in awards THEN [q EXCEPT !.todo = Tail(q.todo)]
           ELSE [q EXCEPT !.pc = "insert"]]
      /\ UNCHANGED <<pod, accepted, members, version, awards, crashes, overlapped>>

\* ... and inserts it: its unique key ends a request that comes second.
InsertAward(r) ==
  LET q == req[r]
      code == Head(q.todo)
  IN  /\ q.pc = "insert"
      /\ awards' = awards \cup {code}
      /\ req' = [req EXCEPT ![r] =
           IF code \in awards THEN Idle ELSE [q EXCEPT !.pc = "award", !.todo = Tail(q.todo)]]
      /\ UNCHANGED <<pod, accepted, members, version, crashes, overlapped>>

inviteOrder(a) == CHOOSE i \in DOMAIN invites : invites[i] = a

\* Mutant: who joined first is paid out first.
MutPayoutScore(i) == members[i].joinOrder

\* payoutScoreForMember
PayoutScore(i) ==
  IF members[i].account = Creator THEN 0 ELSE inviteOrder(members[i].account)

Precedes(i, j) ==
  PayoutScore(i) < PayoutScore(j) \/ (PayoutScore(i) = PayoutScore(j) /\ i <= j)

\* Mutant: turns counted from the index.
MutTurn(i, view) == Cardinality({j \in view : Precedes(j, i)}) - 1

Turn(i, view) == Cardinality({j \in view : Precedes(j, i)})

\* determinePayoutOrder: the turns of the memberships a request knows of.
PayoutOrders(view) ==
  IF randomize
  THEN {f \in [view -> 1..Cardinality(view)] : \A i, j \in view : f[i] = f[j] => i = j}
  ELSE {[i \in view |-> Turn(i, view)]}

\* What a flush makes of the memberships whose turns it writes.  A turn stands
\* for finalOrder and the payoutDate that goes with it.
WithTurns(turn) ==
  [i \in DOMAIN members |->
    IF i \in DOMAIN turn THEN [members[i] EXCEPT !.finalOrder = turn[i]] ELSE members[i]]

\* The memberships loaded at first and the new one.
View(q) == 1..q.known \cup {q.own}

\* finalizePod with its flush, and the end of every other acceptance.
FinalizePod(r) ==
  LET q == req[r]
  IN  /\ q.pc = "award" /\ q.todo = <<>>
      /\ IF q.all
         THEN /\ status' = "active"
              /\ \E turn \in PayoutOrders(View(q)) : members' = WithTurns(turn)
         ELSE UNCHANGED <<status, members>>
      /\ req' = [req EXCEPT ![r] = Idle]
      /\ UNCHANGED <<invites, randomize, accepted, version, awards, crashes, overlapped>>

(***************************************************************************)
(* SwapPodPayoutPosition                                                   *)
(***************************************************************************)
\* "Both memberships must have assigned payout orders."
FindSwapped(r, i, j) ==
  /\ i # j
  /\ members[i].finalOrder # 0 /\ members[j].finalOrder # 0
  /\ Start(r, [Idle EXCEPT !.pc = "swap", !.first = i, !.second = j,
                           !.turns = <<members[i].finalOrder, members[j].finalOrder>>])
  /\ UNCHANGED <<pod, accepted, members, version, awards, crashes>>

\* Each is written the other's turn, if that is another than its own.
Swap(r) ==
  LET q == req[r]
      i == q.first
      j == q.second
  IN  /\ q.pc = "swap"
      /\ members' =
           IF q.turns[1] = q.turns[2] THEN members
           ELSE WithTurns([k \in {i, j} |-> IF k = i THEN q.turns[2] ELSE q.turns[1]])
      /\ req' = [req EXCEPT ![r] = Idle]
      /\ UNCHANGED <<pod, accepted, version, awards, crashes, overlapped>>

-----------------------------------------------------------------------------
\* The process dies: requests under way are gone, what was flushed stays.
Crash ==
  /\ crashes < MaxCrashes
  /\ Busy # {}
  /\ crashes' = crashes + 1
  /\ req' = [r \in Requests |-> Idle]
  /\ UNCHANGED <<pod, accepted, members, version, awards, overlapped>>

Step(r) ==
  \/ FindAccount(r) \/ Accept(r) \/ FindInvites(r) \/ FindAward(r)
  \/ InsertAward(r) \/ FinalizePod(r) \/ Swap(r)

Next ==
  \/ CreateCustomPod
  \/ \E r \in Accepts, a \in Accounts : FindInvite(r, a)
  \/ \E r \in Swaps : \E i, j \in DOMAIN members : FindSwapped(r, i, j)
  \/ \E r \in Requests : Step(r)
  \/ Crash

Spec == Init /\ [][Next]_vars

\* A request that has begun goes on.
FairSpec == Spec /\ \A r \in Requests : WF_vars(Step(r))

-----------------------------------------------------------------------------
(***************************************************************************)
(* Properties                                                              *)
(***************************************************************************)
Membership == [account : Accounts, joinOrder : Nat \ {0}, finalOrder : Nat]
Pc == {"idle", "account", "flush", "find", "award", "insert", "swap"}
Request == [pc : Pc, account : Accounts \cup {Nobody}, version : Nat, known : Nat, own : Nat,
            all : BOOLEAN, todo : Seq(Codes), first : Nat, second : Nat, turns : Nat \X Nat]

TypeOK ==
  /\ status \in {"none", "pending", "active"}
  /\ invites \in Seq(Accounts)
  /\ randomize \in BOOLEAN
  /\ accepted \subseteq Accounts
  /\ members \in Seq(Membership)
  /\ version \in [Accounts -> Nat]
  /\ awards \subseteq Codes
  /\ req \in [Requests -> Request]
  /\ crashes \in 0..MaxCrashes
  /\ overlapped \in BOOLEAN

\* However acceptances interleave and whatever restarts cut off, a pod is never
\* activated before each invitee has accepted.
ActiveMeansAllAccepted == status = "active" => Invited \subseteq accepted

\* Who sits in the pod beside the creator is who has accepted.
MembersHaveAccepted == \A a \in Accounts \ {Creator} : IsMember(a) <=> a \in accepted

\* One request at a time, nobody is in the pod twice, however often a member
\* accepts and whatever was cut off, nobody is past its capacity, and everybody
\* in an active pod has a turn of their own, also after swaps.
OneSeatAndTurnEach ==
  ~overlapped =>
    /\ \A i, j \in DOMAIN members : members[i].account = members[j].account => i = j
    /\ Len(members) <= Expected
    /\ status = "active" =>
         {members[i].finalOrder : i \in DOMAIN members} = 1..Expected

\* One request at a time, a pod that is not randomized starts with its creator
\* and then follows the order of the invitations, not that of the acceptances.
TurnsFollowInvitations ==
  [][ ~overlapped /\ ~randomize /\ status = "pending" /\ status' = "active" =>
        /\ members'[1].finalOrder = 1
        /\ \A i \in DOMAIN members' : \A k \in DOMAIN invites :
             members'[i].account = invites[k] => members'[i].finalOrder = k + 1 ]_vars

\* One request at a time, a pod everybody has accepted becomes active, unless
\* the process died between the acceptance and the activation.
FullPodIsActivated ==
  (status = "pending" /\ Invited \subseteq accepted) ~> (status = "active" \/ overlapped \/ crashes > 0)
=============================================================================
