-------------------------- MODULE CustomPodProofs --------------------------
(***************************************************************************)
(* What holds of a custom pod for any number of invitees, requests under   *)
(* way at once and restarts: it is activated only when all invitees have   *)
(* accepted, and its members are the creator and those who have accepted.  *)
(* And for requests that come one at a time: everybody in it has one seat  *)
(* and a turn of their own, in the order of the invitations.               *)
(***************************************************************************)
EXTENDS CustomPod, FiniteSetTheorems, TLAPS

Accepting == {"account", "flush", "find", "award", "insert"}

\* What a request holds at each of its steps: indices of memberships that exist,
\* and what it has seen of the invites, which stays true since acceptances are
\* never taken back.
RequestSound(q) ==
  /\ q.pc \in Accepting => q.account \in Accounts /\ q.known \in DOMAIN members
  /\ q.pc \in {"find", "award", "insert"} => q.own \in DOMAIN members
  /\ q.pc \in {"award", "insert"} /\ q.all => Invited \subseteq accepted
  /\ q.pc = "insert" => q.todo # <<>>
  /\ q.pc = "swap" => q.first \in DOMAIN members /\ q.second \in DOMAIN members

IInv ==
  /\ TypeOK
  /\ status = "none" => members = <<>> /\ invites = <<>> /\ \A r \in Requests : req[r].pc = "idle"
  /\ status # "none" => members # <<>>
  /\ \A r \in Requests : RequestSound(req[r])
  /\ ActiveMeansAllAccepted
  /\ MembersHaveAccepted

-----------------------------------------------------------------------------
(***************************************************************************)
(* Requests and steps                                                      *)
(***************************************************************************)
LEMMA IdleTyped == Idle \in Request /\ Idle.pc = "idle"
<1>1. <<0, 0>> \in Nat \X Nat /\ <<>> \in Seq(Codes)
  OBVIOUS
<1>. QED
  BY <1>1 DEF Idle, Request, Pc

\* A step that moves one request and adds at most to what requests rely on.
LEMMA OneMoves ==
  ASSUME IInv, NEW r \in Requests, NEW q \in Request,
         req' = [req EXCEPT ![r] = q],
         invites' = invites, accepted \subseteq accepted',
         DOMAIN members \subseteq DOMAIN members',
         RequestSound(q)'
  PROVE  /\ req' \in [Requests -> Request]
         /\ \A s \in Requests : RequestSound(req[s])'
<1>1. req' \in [Requests -> Request]
  BY DEF IInv, TypeOK
<1>2. ASSUME NEW s \in Requests
      PROVE  RequestSound(req[s])'
  <2>1. CASE s = r
    BY <2>1 DEF IInv, TypeOK, RequestSound, Invited
  <2>2. CASE s # r
    <3>1. req'[s] = req[s]
      BY <2>2 DEF IInv, TypeOK
    <3>2. RequestSound(req[s])
      BY DEF IInv
    <3>. QED
      BY <3>1, <3>2 DEF RequestSound, Invited
  <2>. QED
    BY <2>1, <2>2
<1>. QED
  BY <1>1, <1>2

\* A step that leaves the tables as they are, up to awards.
LEMMA QuietStep ==
  ASSUME IInv, NEW r \in Requests, NEW q \in Request,
         req' = [req EXCEPT ![r] = q],
         status # "none", RequestSound(q),
         awards' \subseteq Codes, overlapped' \in BOOLEAN,
         UNCHANGED <<pod, accepted, members, version, crashes>>
  PROVE  IInv'
<1>1. /\ status' = status /\ invites' = invites /\ randomize' = randomize
      /\ accepted' = accepted /\ members' = members /\ version' = version
      /\ crashes' = crashes
  BY DEF pod
<1>2. RequestSound(q)'
  BY <1>1 DEF RequestSound, Invited
<1>3. /\ req' \in [Requests -> Request]
      /\ \A s \in Requests : RequestSound(req[s])'
  BY <1>1, <1>2, OneMoves
<1>4. TypeOK'
  BY <1>1, <1>3 DEF IInv, TypeOK
<1>5. ActiveMeansAllAccepted' /\ MembersHaveAccepted'
  BY <1>1 DEF IInv, ActiveMeansAllAccepted, MembersHaveAccepted, Invited, IsMember
<1>. QED
  BY <1>1, <1>3, <1>4, <1>5 DEF IInv

LEMMA InitSound == Init => IInv
<1>. SUFFICES ASSUME Init PROVE IInv
  OBVIOUS
<1>1. TypeOK
  <2>1. invites \in Seq(Accounts) /\ members \in Seq(Membership)
    BY DEF Init
  <2>2. req \in [Requests -> Request] /\ version \in [Accounts -> Nat]
    BY IdleTyped DEF Init
  <2>3. crashes \in 0..MaxCrashes
    BY CustomPodAssumption DEF Init
  <2>4. accepted \subseteq Accounts /\ awards \subseteq Codes
    BY DEF Init
  <2>. QED
    BY <2>1, <2>2, <2>3, <2>4 DEF Init, TypeOK
<1>2. \A r \in Requests : req[r].pc = "idle" /\ RequestSound(req[r])
  BY IdleTyped DEF Init, RequestSound, Accepting
<1>3. ActiveMeansAllAccepted /\ MembersHaveAccepted
  BY DEF Init, ActiveMeansAllAccepted, MembersHaveAccepted, IsMember
<1>. QED
  BY <1>1, <1>2, <1>3 DEF IInv, Init

-----------------------------------------------------------------------------
(***************************************************************************)
(* Each action keeps the invariant                                         *)
(***************************************************************************)
LEMMA CreateSound ==
  ASSUME IInv, CreateCustomPod
  PROVE  IInv'
<1>1. PICK list \in InviteLists : invites' = list
  BY DEF CreateCustomPod
<1>2. /\ status = "none" /\ status' = "pending" /\ randomize' \in BOOLEAN
      /\ accepted' = accepted /\ version' = version /\ awards' = awards /\ req' = req
      /\ crashes' = crashes /\ overlapped' = overlapped
  BY DEF CreateCustomPod
<1>. DEFINE first == NewMembership(Creator, 1)
<1>3. first \in Membership /\ first.account = Creator
  BY CustomPodAssumption DEF NewMembership, Membership
<1>4. members' = <<first>>
  BY DEF CreateCustomPod
<1>. HIDE DEF first
<1>5. members' \in Seq(Membership) /\ members' # <<>>
  BY <1>3, <1>4
<1>6. TypeOK'
  BY <1>1, <1>2, <1>5, CustomPodAssumption DEF IInv, TypeOK
<1>7. \A r \in Requests : RequestSound(req[r])'
  BY <1>2 DEF IInv, RequestSound, Accepting
<1>8. ActiveMeansAllAccepted'
  BY <1>2 DEF ActiveMeansAllAccepted
<1>9. MembersHaveAccepted'
  <2>1. \A a \in Accounts \ {Creator} : a \notin accepted
    BY <1>2 DEF IInv, MembersHaveAccepted, IsMember
  <2>2. \A i \in DOMAIN members' : members'[i].account = Creator
    BY <1>3, <1>4
  <2>. QED
    BY <1>2, <2>1, <2>2 DEF MembersHaveAccepted, IsMember
<1>. QED
  BY <1>2, <1>5, <1>6, <1>7, <1>8, <1>9 DEF IInv

LEMMA FindInviteSound ==
  ASSUME IInv, NEW r \in Accepts, NEW a \in Accounts, FindInvite(r, a)
  PROVE  IInv'
<1>. DEFINE q == [Idle EXCEPT !.pc = "account", !.account = a, !.known = Len(members)]
<1>1. status # "none"
  <2>. SUFFICES ASSUME status = "none" PROVE FALSE
    OBVIOUS
  <2>1. a \in Invited
    BY DEF FindInvite, Welcome
  <2>. QED
    BY <2>1 DEF IInv, Invited
<1>2. members \in Seq(Membership) /\ members # <<>>
  BY <1>1 DEF IInv, TypeOK
<1>3. Len(members) \in DOMAIN members /\ Len(members) \in Nat
  BY <1>2
<1>4. q \in Request /\ q.pc = "account" /\ q.account = a /\ q.known = Len(members)
  BY <1>3, IdleTyped DEF Idle, Request, Pc
<1>5. /\ req' = [req EXCEPT ![r] = q]
      /\ overlapped' \in BOOLEAN
      /\ UNCHANGED <<pod, accepted, members, version, awards, crashes>>
  BY DEF FindInvite, Start, IInv, TypeOK
<1>. HIDE DEF q
<1>6. RequestSound(q)
  BY <1>3, <1>4 DEF RequestSound
<1>7. awards' \subseteq Codes /\ r \in Requests
  BY <1>5 DEF IInv, TypeOK, Requests
<1>. QED
  BY <1>1, <1>4, <1>5, <1>6, <1>7, QuietStep

LEMMA FindAccountSound ==
  ASSUME IInv, NEW r \in Requests, FindAccount(r)
  PROVE  IInv'
<1>. DEFINE q == req[r]
            n == [q EXCEPT !.pc = "flush", !.version = version[q.account]]
<1>1. q \in Request /\ RequestSound(q) /\ q.pc = "account"
  BY DEF IInv, TypeOK, FindAccount
<1>2. status # "none"
  BY <1>1 DEF IInv
<1>3. q.account \in Accounts /\ q.known \in DOMAIN members
  BY <1>1 DEF RequestSound, Accepting
<1>4. version[q.account] \in Nat
  BY <1>3 DEF IInv, TypeOK
<1>5. req' = [req EXCEPT ![r] = n] /\ UNCHANGED <<pod, accepted, members, version, awards, crashes, overlapped>>
  BY DEF FindAccount
<1>6. n \in Request /\ n.pc = "flush" /\ n.account = q.account /\ n.known = q.known
  BY <1>1, <1>4 DEF Request, Pc
<1>. HIDE DEF n, q
<1>7. RequestSound(n)
  BY <1>3, <1>6 DEF RequestSound
<1>8. awards' \subseteq Codes /\ overlapped' \in BOOLEAN
  BY <1>5 DEF IInv, TypeOK
<1>. QED
  BY <1>2, <1>5, <1>6, <1>7, <1>8, QuietStep

LEMMA EarnedTyped == Earned \in Seq(Codes)
<1>. DEFINE n == Cardinality(accepted)
            one == IF n >= 1 THEN <<"KOAJO_CONNECTOR">> ELSE <<>>
            two == IF n >= 3 THEN <<"REFERRAL_MASTER">> ELSE <<>>
            three == IF n > 0 /\ n = Len(invites) THEN <<"POD_LEADER">> ELSE <<>>
<1>1. <<"KOAJO_CONNECTOR">> \in Seq(Codes) /\ <<"REFERRAL_MASTER">> \in Seq(Codes)
      /\ <<"POD_LEADER">> \in Seq(Codes) /\ <<>> \in Seq(Codes)
  BY DEF Codes
<1>2. one \in Seq(Codes) /\ two \in Seq(Codes) /\ three \in Seq(Codes)
  BY <1>1
<1>3. Earned = one \o two \o three
  BY DEF Earned
<1>. HIDE DEF one, two, three
<1>. QED
  BY <1>2, <1>3

LEMMA FindInvitesSound ==
  ASSUME IInv, NEW r \in Requests, FindInvites(r)
  PROVE  IInv'
<1>. DEFINE q == req[r]
            n == [q EXCEPT !.pc = "award", !.all = AllAccepted, !.todo = Earned]
<1>1. q \in Request /\ RequestSound(q) /\ q.pc = "find"
  BY DEF IInv, TypeOK, FindInvites
<1>2. status # "none"
  BY <1>1 DEF IInv
<1>3. q.account \in Accounts /\ q.known \in DOMAIN members /\ q.own \in DOMAIN members
  BY <1>1 DEF RequestSound, Accepting
<1>4. req' = [req EXCEPT ![r] = n] /\ UNCHANGED <<pod, accepted, members, version, awards, crashes, overlapped>>
  BY DEF FindInvites
<1>5. AllAccepted \in BOOLEAN
  BY DEF AllAccepted
<1>6. n \in Request
  BY <1>1, <1>5, EarnedTyped DEF Request, Pc
<1>7. /\ n.pc = "award" /\ n.account = q.account /\ n.known = q.known /\ n.own = q.own
      /\ n.all = AllAccepted
  BY <1>1 DEF Request
<1>. HIDE DEF n, q
<1>8. RequestSound(n)
  BY <1>3, <1>7 DEF RequestSound, AllAccepted
<1>9. awards' \subseteq Codes /\ overlapped' \in BOOLEAN
  BY <1>4 DEF IInv, TypeOK
<1>. QED
  BY <1>2, <1>4, <1>6, <1>8, <1>9, QuietStep

LEMMA FindAwardSound ==
  ASSUME IInv, NEW r \in Requests, FindAward(r)
  PROVE  IInv'
<1>. DEFINE q == req[r]
            n == IF Head(q.todo) \in awards THEN [q EXCEPT !.todo = Tail(q.todo)]
                 ELSE [q EXCEPT !.pc = "insert"]
<1>1. q \in Request /\ RequestSound(q) /\ q.pc = "award" /\ q.todo # <<>>
  BY DEF IInv, TypeOK, FindAward
<1>2. status # "none"
  BY <1>1 DEF IInv
<1>3. q.todo \in Seq(Codes) /\ Tail(q.todo) \in Seq(Codes)
  BY <1>1 DEF Request
<1>4. req' = [req EXCEPT ![r] = n] /\ UNCHANGED <<pod, accepted, members, version, awards, crashes, overlapped>>
  BY DEF FindAward
<1>5. n \in Request /\ RequestSound(n)
  <2>1. CASE Head(q.todo) \in awards
    BY <1>1, <1>3, <2>1 DEF Request, RequestSound, Accepting
  <2>2. CASE Head(q.todo) \notin awards
    BY <1>1, <2>2 DEF Request, RequestSound, Accepting, Pc
  <2>. QED
    BY <2>1, <2>2
<1>. HIDE DEF n, q
<1>6. awards' \subseteq Codes /\ overlapped' \in BOOLEAN
  BY <1>4 DEF IInv, TypeOK
<1>. QED
  BY <1>2, <1>4, <1>5, <1>6, QuietStep

LEMMA InsertAwardSound ==
  ASSUME IInv, NEW r \in Requests, InsertAward(r)
  PROVE  IInv'
<1>. DEFINE q == req[r]
            n == IF Head(q.todo) \in awards THEN Idle
                 ELSE [q EXCEPT !.pc = "award", !.todo = Tail(q.todo)]
<1>1. q \in Request /\ RequestSound(q) /\ q.pc = "insert"
  BY DEF IInv, TypeOK, InsertAward
<1>2. status # "none" /\ q.todo # <<>>
  BY <1>1 DEF IInv, RequestSound
<1>3. Head(q.todo) \in Codes /\ Tail(q.todo) \in Seq(Codes)
  BY <1>1, <1>2 DEF Request
<1>4. /\ req' = [req EXCEPT ![r] = n]
      /\ awards' = awards \cup {Head(q.todo)}
      /\ UNCHANGED <<pod, accepted, members, version, crashes, overlapped>>
  BY DEF InsertAward
<1>5. n \in Request /\ RequestSound(n)
  <2>1. CASE Head(q.todo) \in awards
    BY <2>1, IdleTyped DEF RequestSound, Accepting
  <2>2. CASE Head(q.todo) \notin awards
    BY <1>1, <1>3, <2>2 DEF Request, RequestSound, Accepting, Pc
  <2>. QED
    BY <2>1, <2>2
<1>6. awards' \subseteq Codes /\ overlapped' \in BOOLEAN
  BY <1>3, <1>4 DEF IInv, TypeOK
<1>. HIDE DEF n, q
<1>. QED
  BY <1>2, <1>4, <1>5, <1>6, QuietStep

\* The flush of the acceptance, or its failure on a newer account.
LEMMA AcceptSound ==
  ASSUME IInv, NEW r \in Requests, Accept(r)
  PROVE  IInv'
<1>. DEFINE q == req[r]
            a == q.account
            row == NewMembership(a, NextJoinOrder(q.known))
            n == [q EXCEPT !.pc = "find", !.own = Len(members) + 1]
<1>1. q \in Request /\ RequestSound(q) /\ q.pc = "flush"
  BY DEF IInv, TypeOK, Accept
<1>2. status # "none"
  BY <1>1 DEF IInv
<1>3. a \in Accounts /\ q.known \in DOMAIN members
  BY <1>1 DEF RequestSound, Accepting
<1>4. members \in Seq(Membership) /\ Len(members) \in Nat /\ DOMAIN members = 1..Len(members)
  BY DEF IInv, TypeOK
<1>5. /\ UNCHANGED <<pod, awards, crashes, overlapped>>
      /\ \/ req' = [req EXCEPT ![r] = Idle] /\ UNCHANGED <<accepted, members, version>>
         \/ /\ version' = [version EXCEPT ![a] = @ + 1]
            /\ accepted' = accepted \cup {a}
            /\ members' = Append(members, row)
            /\ req' = [req EXCEPT ![r] = n]
  BY DEF Accept, WithAccepted
<1>6. CASE req' = [req EXCEPT ![r] = Idle] /\ UNCHANGED <<accepted, members, version>>
  <2>1. RequestSound(Idle) /\ Idle \in Request
    BY IdleTyped DEF RequestSound, Accepting
  <2>2. awards' \subseteq Codes /\ overlapped' \in BOOLEAN
    BY <1>5 DEF IInv, TypeOK
  <2>. QED
    BY <1>2, <1>5, <1>6, <2>1, <2>2, QuietStep
<1>7. CASE /\ version' = [version EXCEPT ![a] = @ + 1]
           /\ accepted' = accepted \cup {a}
           /\ members' = Append(members, row)
           /\ req' = [req EXCEPT ![r] = n]
  <2>1. /\ status' = status /\ invites' = invites /\ randomize' = randomize
        /\ awards' = awards /\ crashes' = crashes /\ overlapped' = overlapped
    BY <1>5 DEF pod
  <2>2. row \in Membership /\ row.account = a
    BY <1>3, <1>4 DEF NewMembership, NextJoinOrder, Membership
  <2>3. PICK p \in Request : /\ p = n /\ p.pc = "find" /\ p.known \in DOMAIN members
                            /\ p.account \in Accounts /\ p.own = Len(members) + 1
    <3>. DEFINE own == Len(members) + 1
    <3>1. own \in Nat
      BY <1>4
    <3>. HIDE DEF own
    <3>2. [q EXCEPT !.pc = "find", !.own = own] \in Request
      BY <1>1, <3>1 DEF Request, Pc
    <3>. USE DEF own
    <3>. QED
      BY <1>1, <1>3, <3>2 DEF Request
  <2>. HIDE DEF row, n, q, a
  <2>4. /\ members' \in Seq(Membership) /\ DOMAIN members' = 1..(Len(members) + 1)
        /\ \A i \in DOMAIN members : members'[i] = members[i]
        /\ members'[Len(members) + 1] = row
        /\ members' # <<>>
    BY <1>4, <1>7, <2>2
  <2>5. DOMAIN members \subseteq DOMAIN members' /\ Len(members) + 1 \in DOMAIN members'
    BY <1>4, <2>4
  <2>6. RequestSound(p)'
    BY <2>3, <2>5 DEF RequestSound
  <2>7. /\ req' \in [Requests -> Request]
        /\ \A s \in Requests : RequestSound(req[s])'
    BY <1>7, <2>1, <2>3, <2>5, <2>6, OneMoves
  <2>8. version' \in [Accounts -> Nat] /\ accepted' \subseteq Accounts
    BY <1>3, <1>7 DEF IInv, TypeOK
  <2>9. TypeOK'
    BY <2>1, <2>4, <2>7, <2>8 DEF IInv, TypeOK
  <2>10. ActiveMeansAllAccepted'
    BY <1>7, <2>1 DEF IInv, ActiveMeansAllAccepted, Invited
  <2>11. MembersHaveAccepted'
    <3>. SUFFICES ASSUME NEW b \in Accounts \ {Creator}
                  PROVE  IsMember(b)' <=> b \in accepted'
      BY DEF MembersHaveAccepted
    <3>1. IsMember(b) <=> b \in accepted
      BY DEF IInv, MembersHaveAccepted
    <3>2. IsMember(b)' <=> IsMember(b) \/ b = a
      <4>1. IsMember(b) => IsMember(b)'
        BY <2>4, <2>5 DEF IsMember
      <4>2. b = a => IsMember(b)'
        BY <2>2, <2>4, <2>5 DEF IsMember
      <4>3. ASSUME IsMember(b)' PROVE IsMember(b) \/ b = a
        <5>1. PICK i \in DOMAIN members' : members'[i].account = b
          BY <4>3 DEF IsMember
        <5>2. i \in DOMAIN members \/ i = Len(members) + 1
          BY <1>4, <2>4
        <5>. QED
          BY <2>2, <2>4, <5>1, <5>2 DEF IsMember
      <4>. QED
        BY <4>1, <4>2, <4>3
    <3>. QED
      BY <1>7, <3>1, <3>2
  <2>. QED
    BY <1>2, <2>1, <2>4, <2>7, <2>9, <2>10, <2>11 DEF IInv
<1>. QED
  BY <1>5, <1>6, <1>7

\* Turns change nothing but turns.
LEMMA SeatsKept ==
  ASSUME members \in Seq(Membership),
         NEW turn, \A i \in DOMAIN turn : turn[i] \in Nat
  PROVE  /\ WithTurns(turn) \in Seq(Membership)
         /\ DOMAIN WithTurns(turn) = DOMAIN members
         /\ \A i \in DOMAIN members : WithTurns(turn)[i].account = members[i].account
<1>1. Len(members) \in Nat /\ DOMAIN members = 1..Len(members)
  OBVIOUS
<1>2. ASSUME NEW i \in DOMAIN members
      PROVE  WithTurns(turn)[i] \in Membership /\ WithTurns(turn)[i].account = members[i].account
  <2>1. members[i] \in Membership
    OBVIOUS
  <2>2. CASE i \in DOMAIN turn
    <3>1. turn[i] \in Nat
      BY <2>2
    <3>2. WithTurns(turn)[i] = [members[i] EXCEPT !.finalOrder = turn[i]]
      BY <2>2 DEF WithTurns
    <3>. QED
      BY <2>1, <3>1, <3>2 DEF Membership
  <2>3. CASE i \notin DOMAIN turn
    BY <2>1, <2>3 DEF WithTurns
  <2>. QED
    BY <2>2, <2>3
<1>3. DOMAIN WithTurns(turn) = 1..Len(members)
  BY <1>1 DEF WithTurns
<1>4. WithTurns(turn) \in [1..Len(members) -> Membership]
  BY <1>1, <1>2, <1>3 DEF WithTurns
<1>. QED
  BY <1>1, <1>2, <1>3, <1>4

\* A request's end that writes turns, and may activate the pod.
LEMMA TurnsStep ==
  ASSUME IInv, NEW r \in Requests,
         req' = [req EXCEPT ![r] = Idle],
         status # "none",
         status' = status \/ (status' = "active" /\ Invited \subseteq accepted),
         members' \in Seq(Membership), DOMAIN members' = DOMAIN members,
         \A i \in DOMAIN members : members'[i].account = members[i].account,
         UNCHANGED <<invites, randomize, accepted, version, awards, crashes, overlapped>>
  PROVE  IInv'
<1>1. PICK q \in Request : q = Idle /\ q.pc = "idle"
  BY IdleTyped
<1>2. RequestSound(q)'
  BY <1>1 DEF RequestSound, Accepting
<1>3. /\ req' \in [Requests -> Request]
      /\ \A s \in Requests : RequestSound(req[s])'
  BY <1>1, <1>2, OneMoves
<1>4. TypeOK'
  BY <1>3 DEF IInv, TypeOK
<1>5. ActiveMeansAllAccepted'
  BY DEF IInv, ActiveMeansAllAccepted, Invited
<1>6. MembersHaveAccepted'
  BY DEF IInv, MembersHaveAccepted, IsMember
<1>7. status' # "none" /\ members' # <<>>
  BY DEF IInv, TypeOK
<1>. QED
  BY <1>3, <1>4, <1>5, <1>6, <1>7 DEF IInv

LEMMA OrdersAreTurns ==
  ASSUME NEW known \in Nat, NEW own \in Nat,
         NEW turn \in PayoutOrders(1..known \cup {own})
  PROVE  \A i \in DOMAIN turn : turn[i] \in Nat
<1>. DEFINE view == 1..known \cup {own}
<1>1. IsFiniteSet(view)
  <2>1. IsFiniteSet(1..known)
    BY FS_Interval
  <2>. QED
    BY <2>1, FS_AddElement
<1>2. Cardinality(view) \in Nat
  BY <1>1, FS_CardinalityType
<1>3. \A i : Turn(i, view) \in Nat
  <2>. SUFFICES ASSUME NEW i PROVE Turn(i, view) \in Nat
    OBVIOUS
  <2>1. IsFiniteSet({j \in view : Precedes(j, i)})
    BY <1>1, FS_Subset
  <2>. QED
    BY <2>1, FS_CardinalityType DEF Turn
<1>. HIDE DEF view
<1>4. turn \in PayoutOrders(view)
  BY DEF view
<1>5. CASE randomize
  BY <1>2, <1>4, <1>5 DEF PayoutOrders
<1>6. CASE ~randomize
  <2>1. turn = [i \in view |-> Turn(i, view)]
    BY <1>4, <1>6 DEF PayoutOrders
  <2>. QED
    BY <1>3, <2>1
<1>. QED
  BY <1>5, <1>6

LEMMA FinalizePodSound ==
  ASSUME IInv, NEW r \in Requests, FinalizePod(r)
  PROVE  IInv'
<1>1. req[r] \in Request /\ RequestSound(req[r]) /\ req[r].pc = "award" /\ status # "none"
  BY DEF IInv, TypeOK, FinalizePod
<1>2. members \in Seq(Membership)
  BY DEF IInv, TypeOK
<1>3. /\ req' = [req EXCEPT ![r] = Idle]
      /\ UNCHANGED <<invites, randomize, accepted, version, awards, crashes, overlapped>>
  BY DEF FinalizePod
<1>4. CASE req[r].all
  <2>1. PICK turn \in PayoutOrders(View(req[r])) : members' = WithTurns(turn)
    BY <1>4 DEF FinalizePod
  <2>2. status' = "active" /\ Invited \subseteq accepted
    BY <1>1, <1>4 DEF FinalizePod, RequestSound
  <2>3. \A i \in DOMAIN turn : turn[i] \in Nat
    BY <1>1, <2>1, OrdersAreTurns DEF View, Request
  <2>4. /\ members' \in Seq(Membership) /\ DOMAIN members' = DOMAIN members
        /\ \A i \in DOMAIN members : members'[i].account = members[i].account
    BY <1>2, <2>1, <2>3, SeatsKept
  <2>. QED
    BY <1>1, <1>3, <2>2, <2>4, TurnsStep
<1>5. CASE ~req[r].all
  <2>1. status' = status /\ members' = members
    BY <1>5 DEF FinalizePod
  <2>. QED
    BY <1>1, <1>2, <1>3, <2>1, TurnsStep
<1>. QED
  BY <1>4, <1>5

-----------------------------------------------------------------------------
LEMMA FindSwappedSound ==
  ASSUME IInv, NEW r \in Swaps, NEW i \in DOMAIN members, NEW j \in DOMAIN members,
         FindSwapped(r, i, j)
  PROVE  IInv'
<1>. DEFINE two == <<members[i].finalOrder, members[j].finalOrder>>
            q == [Idle EXCEPT !.pc = "swap", !.first = i, !.second = j, !.turns = two]
<1>1. members \in Seq(Membership)
  BY DEF IInv, TypeOK
<1>2. status # "none"
  <2>. SUFFICES ASSUME status = "none" PROVE FALSE
    OBVIOUS
  <2>1. members = <<>>
    BY DEF IInv
  <2>. QED
    BY <2>1
<1>3. i \in Nat /\ j \in Nat /\ two \in Nat \X Nat
  <2>1. members[i] \in Membership /\ members[j] \in Membership
    BY <1>1
  <2>2. i \in Nat /\ j \in Nat
    BY <1>1
  <2>. QED
    BY <2>1, <2>2 DEF Membership
<1>4. /\ req' = [req EXCEPT ![r] = q]
      /\ overlapped' \in BOOLEAN
      /\ UNCHANGED <<pod, accepted, members, version, awards, crashes>>
  BY DEF FindSwapped, Start, IInv, TypeOK
<1>. HIDE DEF two
<1>5. q \in Request /\ q.pc = "swap" /\ q.first = i /\ q.second = j
  BY <1>3, IdleTyped DEF Idle, Request, Pc
<1>. HIDE DEF q
<1>6. RequestSound(q)
  BY <1>5 DEF RequestSound, Accepting
<1>7. awards' \subseteq Codes /\ r \in Requests
  BY <1>4 DEF IInv, TypeOK, Requests
<1>. QED
  BY <1>2, <1>4, <1>5, <1>6, <1>7, QuietStep

LEMMA SwapSound ==
  ASSUME IInv, NEW r \in Requests, Swap(r)
  PROVE  IInv'
<1>. DEFINE q == req[r]
            turn == [k \in {q.first, q.second} |-> IF k = q.first THEN q.turns[2] ELSE q.turns[1]]
<1>1. q \in Request /\ q.pc = "swap" /\ status # "none"
  BY DEF IInv, TypeOK, Swap
<1>2. members \in Seq(Membership)
  BY DEF IInv, TypeOK
<1>3. /\ req' = [req EXCEPT ![r] = Idle] /\ status' = status
      /\ UNCHANGED <<invites, randomize, accepted, version, awards, crashes, overlapped>>
      /\ members' = members \/ members' = WithTurns(turn)
  BY DEF Swap, pod
<1>4. \A k \in DOMAIN turn : turn[k] \in Nat
  BY <1>1 DEF Request
<1>. HIDE DEF turn, q
<1>5. /\ members' \in Seq(Membership) /\ DOMAIN members' = DOMAIN members
      /\ \A i \in DOMAIN members : members'[i].account = members[i].account
  BY <1>2, <1>3, <1>4, SeatsKept
<1>. QED
  BY <1>1, <1>3, <1>5, TurnsStep

LEMMA CrashSound ==
  ASSUME IInv, Crash
  PROVE  IInv'
<1>1. /\ status' = status /\ invites' = invites /\ randomize' = randomize
      /\ accepted' = accepted /\ members' = members /\ version' = version
      /\ awards' = awards /\ overlapped' = overlapped
      /\ crashes' = crashes + 1 /\ crashes < MaxCrashes
      /\ req' = [r \in Requests |-> Idle]
  BY DEF Crash, pod
<1>2. crashes' \in 0..MaxCrashes
  BY <1>1, CustomPodAssumption DEF IInv, TypeOK
<1>3. \A r \in Requests : req'[r].pc = "idle" /\ RequestSound(req[r])'
  BY <1>1, IdleTyped DEF RequestSound, Accepting
<1>4. req' \in [Requests -> Request]
  BY <1>1, IdleTyped
<1>5. TypeOK'
  BY <1>1, <1>2, <1>4 DEF IInv, TypeOK
<1>6. ActiveMeansAllAccepted' /\ MembersHaveAccepted'
  BY <1>1 DEF IInv, ActiveMeansAllAccepted, MembersHaveAccepted, Invited, IsMember
<1>. QED
  BY <1>1, <1>3, <1>5, <1>6 DEF IInv

LEMMA NextSound == IInv /\ [Next]_vars => IInv'
<1>. SUFFICES ASSUME IInv, [Next]_vars PROVE IInv'
  OBVIOUS
<1>1. CASE CreateCustomPod
  BY <1>1, CreateSound
<1>2. CASE \E r \in Accepts, a \in Accounts : FindInvite(r, a)
  BY <1>2, FindInviteSound
<1>3. CASE \E r \in Swaps : \E i, j \in DOMAIN members : FindSwapped(r, i, j)
  BY <1>3, FindSwappedSound
<1>4. CASE \E r \in Requests : Step(r)
  <2>. PICK r \in Requests : Step(r)
    BY <1>4
  <2>. QED
    BY FindAccountSound, AcceptSound, FindInvitesSound, FindAwardSound,
       InsertAwardSound, FinalizePodSound, SwapSound DEF Step
<1>5. CASE Crash
  BY <1>5, CrashSound
<1>6. CASE UNCHANGED vars
  <2>1. /\ status' = status /\ invites' = invites /\ randomize' = randomize
        /\ accepted' = accepted /\ members' = members /\ version' = version
        /\ awards' = awards /\ req' = req /\ crashes' = crashes /\ overlapped' = overlapped
    BY <1>6 DEF vars, pod
  <2>. QED
    BY <2>1 DEF IInv, TypeOK, RequestSound, ActiveMeansAllAccepted, MembersHaveAccepted,
                Invited, IsMember
<1>. QED
  BY <1>1, <1>2, <1>3, <1>4, <1>5, <1>6 DEF Next

-----------------------------------------------------------------------------
(***************************************************************************)
(* Theorems                                                                *)
(***************************************************************************)
\* The tables and the requests under way are well formed: a turn is always a
\* natural number and a request never holds what is not there.
THEOREM TypeCorrect == Spec => []TypeOK
<1>1. IInv => TypeOK
  BY DEF IInv
<1>. QED
  BY InitSound, NextSound, <1>1, PTL DEF Spec

\* However acceptances interleave and whatever restarts cut off, finalizePod
\* never activates a pod before each of its invitees has accepted.
THEOREM ActivatedByTheLast == Spec => []ActiveMeansAllAccepted
<1>1. IInv => ActiveMeansAllAccepted
  BY DEF IInv
<1>. QED
  BY InitSound, NextSound, <1>1, PTL DEF Spec

\* The flush of an acceptance writes the membership and acceptedAt together: no
\* invitee sits in the pod without having accepted, or has accepted without a seat.
THEOREM SeatsOfTheAccepted == Spec => []MembersHaveAccepted
<1>1. IInv => MembersHaveAccepted
  BY DEF IInv
<1>. QED
  BY InitSound, NextSound, <1>1, PTL DEF Spec

-----------------------------------------------------------------------------
(***************************************************************************)
(* One request at a time                                                   *)
(***************************************************************************)
Alone == \A r, s \in Busy : r = s

\* The invitations, and who may sit in the pod.
Seats ==
  /\ Normalized(invites)
  /\ status # "none" => members[1].account = Creator
  /\ \A i, j \in DOMAIN members : members[i].account = members[j].account => i = j
  /\ \A i \in DOMAIN members : members[i].account \in Invited \cup {Creator}

Turns ==
  /\ Len(members) <= Expected
  /\ status = "active" => {members[i].finalOrder : i \in DOMAIN members} = 1..Expected

\* What the only request under way has read is so.
Current(q) ==
  /\ q.pc \in {"account", "flush"} =>
       /\ q.account \in Invited /\ ~IsMember(q.account)
       /\ q.known = Len(members) /\ Len(members) < Expected
  /\ q.pc \in {"find", "award", "insert"} => q.own = Len(members) /\ q.own = q.known + 1
  /\ q.pc \in Accepting => status # "active"
  /\ q.pc = "swap" =>
       q.first # q.second /\ q.turns = <<members[q.first].finalOrder, members[q.second].finalOrder>>

Orderly == Alone /\ Seats /\ Turns /\ \A r \in Requests : Current(req[r])

SerialInv == ~overlapped => Orderly

-----------------------------------------------------------------------------
\* The turns that determinePayoutOrder gives when everybody is in the pod.
\* The place of a membership: its creator's is the first.
Place(i) == PayoutScore(i) + 1

LEMMA InviteOrderIs ==
  ASSUME Normalized(invites), NEW k \in DOMAIN invites
  PROVE  inviteOrder(invites[k]) = k
  BY DEF Normalized, inviteOrder

LEMMA PlaceIs ==
  ASSUME TypeOK, Seats, NEW i \in DOMAIN members
  PROVE  /\ Place(i) \in 1..Expected
         /\ members[i].account = Creator => Place(i) = 1
         /\ \A k \in DOMAIN invites : members[i].account = invites[k] => Place(i) = k + 1
         /\ members[i].account # Creator => \E k \in DOMAIN invites :
              members[i].account = invites[k] /\ Place(i) = k + 1
<1>1. Len(invites) \in Nat /\ DOMAIN invites = 1..Len(invites)
  BY DEF TypeOK
<1>2. \A k \in DOMAIN invites : members[i].account = invites[k] => Place(i) = k + 1
  BY InviteOrderIs DEF Seats, Normalized, Place, PayoutScore
<1>3. members[i].account = Creator => Place(i) = 1
  BY DEF Place, PayoutScore
<1>4. members[i].account # Creator => \E k \in DOMAIN invites : members[i].account = invites[k]
  BY DEF Seats, Invited
<1>. QED
  BY <1>1, <1>2, <1>3, <1>4 DEF Expected

\* With every invitee in the pod, the places are those from the first to the
\* last, each of one membership.
Everybody == status # "none" /\ Invited \subseteq accepted

LEMMA OnePlaceEach ==
  ASSUME IInv, Seats, NEW i \in DOMAIN members, NEW j \in DOMAIN members, Place(i) = Place(j)
  PROVE  i = j
<1>1. TypeOK
  BY DEF IInv
<1>2. Len(invites) \in Nat /\ DOMAIN invites = 1..Len(invites)
  BY <1>1 DEF TypeOK
<1>3. members[i].account = members[j].account
  BY <1>1, <1>2, PlaceIs
<1>. QED
  BY <1>3 DEF Seats

LEMMA EveryPlaceTaken ==
  ASSUME IInv, Seats, Everybody, NEW k \in 1..Expected
  PROVE  \E i \in DOMAIN members : Place(i) = k
<1>1. TypeOK
  BY DEF IInv
<1>2. /\ Len(invites) \in Nat /\ DOMAIN invites = 1..Len(invites) /\ invites \in Seq(Accounts)
      /\ members \in Seq(Membership) /\ members # <<>>
  BY <1>1 DEF TypeOK, IInv, Everybody
<1>3. CASE k = 1
  <2>1. 1 \in DOMAIN members /\ members[1].account = Creator
    BY <1>2 DEF Seats, Everybody
  <2>. QED
    BY <1>1, <1>3, <2>1, PlaceIs
<1>4. CASE k # 1
  <2>1. k - 1 \in DOMAIN invites
    BY <1>2, <1>4 DEF Expected
  <2>2. invites[k - 1] \in Accounts \ {Creator} /\ invites[k - 1] \in accepted
    BY <1>2, <2>1 DEF Seats, Normalized, Everybody, Invited
  <2>3. PICK i \in DOMAIN members : members[i].account = invites[k - 1]
    BY <2>2 DEF IInv, MembersHaveAccepted, IsMember
  <2>4. Place(i) = (k - 1) + 1
    BY <1>1, <2>1, <2>3, PlaceIs
  <2>. QED
    BY <2>4
<1>. QED
  BY <1>3, <1>4

LEMMA PlacesBijective ==
  ASSUME IInv, Seats, Everybody
  PROVE  [i \in DOMAIN members |-> Place(i)] \in Bijection(DOMAIN members, 1..Expected)
<1>. DEFINE f == [i \in DOMAIN members |-> Place(i)]
<1>1. TypeOK
  BY DEF IInv
<1>2. f \in [DOMAIN members -> 1..Expected]
  BY <1>1, PlaceIs
<1>3. \A i, j \in DOMAIN members : f[i] = f[j] => i = j
  BY OnePlaceEach
<1>4. \A k \in 1..Expected : \E i \in DOMAIN members : f[i] = k
  BY EveryPlaceTaken
<1>. HIDE DEF f
<1>. QED
  BY <1>2, <1>3, <1>4 DEF Bijection, Injection, IsInjective, Surjection, f

LEMMA EverybodyIsExpected ==
  ASSUME IInv, Seats, Everybody
  PROVE  Len(members) = Expected /\ DOMAIN members = 1..Expected
<1>1. Len(members) \in Nat /\ DOMAIN members = 1..Len(members) /\ Expected \in Nat
  BY DEF IInv, TypeOK, Expected
<1>2. \A n \in Nat : IsFiniteSet(1..n) /\ Cardinality(1..n) = n
  BY FS_Interval
<1>3. ExistsBijection(1..Len(members), 1..Expected)
  BY <1>1, PlacesBijective DEF ExistsBijection
<1>. QED
  BY <1>1, <1>2, <1>3, FS_Bijection

\* determinePayoutOrder sorts by score: its turns are the places.
LEMMA TurnIsPlace ==
  ASSUME IInv, Seats, Everybody, NEW i \in DOMAIN members
  PROVE  Turn(i, DOMAIN members) = Place(i)
<1>. DEFINE before == {j \in DOMAIN members : Precedes(j, i)}
            f == [j \in before |-> Place(j)]
<1>1. TypeOK
  BY DEF IInv
<1>2. \A j \in DOMAIN members : Place(j) \in 1..Expected /\ j \in Nat
  BY <1>1, PlaceIs DEF TypeOK
<1>3. \A j \in DOMAIN members : PayoutScore(j) \in Int
  <2>. SUFFICES ASSUME NEW j \in DOMAIN members PROVE PayoutScore(j) \in Int
    OBVIOUS
  <2>1. members[j].account # Creator => inviteOrder(members[j].account) \in Int
    <3>. SUFFICES ASSUME members[j].account # Creator
                  PROVE  inviteOrder(members[j].account) \in Int
      OBVIOUS
    <3>1. PICK k \in DOMAIN invites : members[j].account = invites[k]
      BY <1>1, PlaceIs
    <3>2. k \in Int
      BY <1>1 DEF TypeOK
    <3>. QED
      BY <3>1, <3>2, InviteOrderIs DEF Seats
  <2>. QED
    BY <2>1 DEF PayoutScore
<1>4. \A j \in DOMAIN members : Precedes(j, i) <=> Place(j) <= Place(i)
  <2>. SUFFICES ASSUME NEW j \in DOMAIN members
                PROVE  Precedes(j, i) <=> Place(j) <= Place(i)
    OBVIOUS
  <2>1. Place(j) = Place(i) => j = i
    BY OnePlaceEach
  <2>. QED
    BY <1>2, <1>3, <2>1 DEF Precedes, Place
<1>5. f \in [before -> 1..Place(i)]
  BY <1>2, <1>4
<1>6. \A j, k \in before : f[j] = f[k] => j = k
  BY OnePlaceEach
<1>7. ASSUME NEW k \in 1..Place(i) PROVE \E j \in before : f[j] = k
  <2>1. Place(i) \in 1..Expected
    BY <1>2
  <2>2. k \in 1..Expected
    BY <2>1, <1>7 DEF Expected
  <2>3. PICK j \in DOMAIN members : Place(j) = k
    BY <2>2, EveryPlaceTaken
  <2>. QED
    BY <1>4, <1>7, <2>3
<1>. HIDE DEF before, f
<1>8. f \in Bijection(before, 1..Place(i))
  <2>1. DOMAIN f = before
    BY DEF f
  <2>. QED
    BY <1>5, <1>6, <1>7, <2>1 DEF Bijection, Injection, IsInjective, Surjection
<1>9. IsFiniteSet(before)
  <2>1. IsFiniteSet(DOMAIN members)
    BY <1>1, FS_Interval DEF TypeOK
  <2>. QED
    BY <2>1, FS_Subset DEF before
<1>10. Cardinality(1..Place(i)) = Cardinality(before)
  BY <1>8, <1>9, FS_Bijection DEF ExistsBijection
<1>11. Cardinality(1..Place(i)) = Place(i)
  BY <1>2, FS_Interval
<1>. QED
  BY <1>10, <1>11 DEF Turn, before

\* Shuffled or sorted, every turn from the first to the last is somebody's.
LEMMA OrdersGiveEachTurn ==
  ASSUME IInv, Seats, Everybody, NEW turn \in PayoutOrders(DOMAIN members)
  PROVE  /\ DOMAIN turn = DOMAIN members
         /\ {turn[i] : i \in DOMAIN members} = 1..Expected
         /\ ~randomize => \A i \in DOMAIN members : turn[i] = Place(i)
<1>1. /\ DOMAIN members = 1..Expected /\ Expected \in Nat
  BY EverybodyIsExpected DEF Expected, IInv, TypeOK
<1>2. IsFiniteSet(1..Expected) /\ Cardinality(1..Expected) = Expected
  BY <1>1, FS_Interval
<1>3. CASE randomize
  <2>1. turn \in [1..Expected -> 1..Expected] /\ \A i, j \in 1..Expected : turn[i] = turn[j] => i = j
    BY <1>1, <1>2, <1>3 DEF PayoutOrders
  <2>2. turn \in Injection(1..Expected, 1..Expected)
    BY <2>1 DEF Injection, IsInjective
  <2>3. turn \in Surjection(1..Expected, 1..Expected)
    BY <1>2, <2>2, FS_Injection
  <2>4. \A k \in 1..Expected : \E i \in 1..Expected : turn[i] = k
    BY <2>3 DEF Surjection
  <2>. QED
    BY <1>1, <1>3, <2>1, <2>4
<1>4. CASE ~randomize
  <2>1. turn = [i \in DOMAIN members |-> Turn(i, DOMAIN members)]
    BY <1>4 DEF PayoutOrders
  <2>2. DOMAIN turn = DOMAIN members /\ \A i \in DOMAIN members : turn[i] = Place(i)
    BY <2>1, TurnIsPlace
  <2>3. \A i \in DOMAIN members : Place(i) \in 1..Expected
    BY PlaceIs DEF IInv
  <2>4. \A k \in 1..Expected : \E i \in DOMAIN members : Place(i) = k
    BY EveryPlaceTaken
  <2>. QED
    BY <2>2, <2>3, <2>4
<1>. QED
  BY <1>3, <1>4

-----------------------------------------------------------------------------
\* A request that is alone moves.
LEMMA LoneMoves ==
  ASSUME IInv, Alone, NEW r \in Requests, NEW n, req' = [req EXCEPT ![r] = n],
         req[r].pc # "idle" \/ Busy = {}
  PROVE  /\ Alone'
         /\ req'[r] = n
         /\ \A s \in Requests \ {r} : req'[s] = req[s] /\ req[s].pc = "idle"
<1>1. req'[r] = n /\ \A s \in Requests \ {r} : req'[s] = req[s]
  BY DEF IInv, TypeOK
<1>2. \A s \in Requests \ {r} : req[s].pc = "idle"
  BY DEF Alone, Busy
<1>. QED
  BY <1>1, <1>2 DEF Alone, Busy

\* Where the tables stay as they are, only what it has read is to be shown.
LEMMA QuietOrderly ==
  ASSUME IInv, Orderly, NEW r \in Requests, NEW n, req' = [req EXCEPT ![r] = n],
         req[r].pc # "idle" \/ Busy = {}, Current(n),
         UNCHANGED <<pod, accepted, members>>
  PROVE  Orderly'
<1>1. /\ status' = status /\ invites' = invites /\ randomize' = randomize
      /\ accepted' = accepted /\ members' = members
  BY DEF pod
<1>2. Alone' /\ req'[r] = n /\ \A s \in Requests \ {r} : req'[s] = req[s]
  BY LoneMoves DEF Orderly
<1>3. Seats' /\ Turns'
  BY <1>1 DEF Orderly, Seats, Normalized, Invited, Turns, Expected
<1>4. ASSUME NEW s \in Requests PROVE Current(req[s])'
  <2>1. Current(req'[s])
    BY <1>2 DEF Orderly
  <2>. QED
    BY <1>1, <2>1 DEF Current, Invited, IsMember, Expected
<1>. QED
  BY <1>2, <1>3, <1>4 DEF Orderly

LEMMA IdleCurrent == Current(Idle)
  BY IdleTyped DEF Current, Accepting

LEMMA StartsOrderly ==
  ASSUME IInv, Orderly, ~overlapped',
         \/ \E r \in Accepts, a \in Accounts : FindInvite(r, a)
         \/ \E r \in Swaps : \E i, j \in DOMAIN members : FindSwapped(r, i, j)
  PROVE  Orderly'
<1>1. ASSUME NEW r \in Accepts, NEW a \in Accounts, FindInvite(r, a) PROVE Orderly'
  <2>. DEFINE n == [Idle EXCEPT !.pc = "account", !.account = a, !.known = Len(members)]
  <2>1. n.pc = "account" /\ n.account = a /\ n.known = Len(members)
    BY DEF Idle
  <2>2. /\ req' = [req EXCEPT ![r] = n] /\ Busy = {} /\ Welcome(a)
        /\ UNCHANGED <<pod, accepted, members>>
    BY <1>1 DEF FindInvite, Start
  <2>. HIDE DEF n
  <2>3. status # "active"
    BY <2>2 DEF Welcome, IInv, ActiveMeansAllAccepted
  <2>4. Current(n)
    BY <2>1, <2>2, <2>3 DEF Current, Welcome
  <2>. QED
    BY <2>2, <2>4, QuietOrderly DEF Requests
<1>2. ASSUME NEW r \in Swaps, NEW i \in DOMAIN members, NEW j \in DOMAIN members,
             FindSwapped(r, i, j)
      PROVE  Orderly'
  <2>. DEFINE two == <<members[i].finalOrder, members[j].finalOrder>>
              n == [Idle EXCEPT !.pc = "swap", !.first = i, !.second = j, !.turns = two]
  <2>1. n.pc = "swap" /\ n.first = i /\ n.second = j /\ n.turns = two
    BY DEF Idle
  <2>2. /\ req' = [req EXCEPT ![r] = n] /\ Busy = {} /\ i # j
        /\ UNCHANGED <<pod, accepted, members>>
    BY <1>2 DEF FindSwapped, Start
  <2>. HIDE DEF n
  <2>3. Current(n)
    BY <2>1, <2>2 DEF Current, Accepting
  <2>. QED
    BY <2>2, <2>3, QuietOrderly DEF Requests
<1>. QED
  BY <1>1, <1>2

LEMMA AcceptOrderly ==
  ASSUME IInv, Orderly, NEW r \in Requests, Accept(r)
  PROVE  Orderly'
<1>. DEFINE q == req[r]
            a == q.account
            row == NewMembership(a, NextJoinOrder(q.known))
            n == [q EXCEPT !.pc = "find", !.own = Len(members) + 1]
<1>1. q \in Request /\ q.pc = "flush" /\ RequestSound(q) /\ Current(q)
  BY DEF IInv, TypeOK, Accept, Orderly
<1>2. /\ a \in Invited /\ ~IsMember(a) /\ q.known = Len(members) /\ Len(members) < Expected
      /\ status # "active"
  BY <1>1 DEF Current, Accepting
<1>3. CASE req' = [req EXCEPT ![r] = Idle] /\ UNCHANGED <<accepted, members, version>>
  BY <1>1, <1>3, IdleCurrent, QuietOrderly DEF Accept
<1>4. CASE members' = Append(members, row) /\ req' = [req EXCEPT ![r] = n]
  <2>1. /\ n.pc = "find" /\ n.own = Len(members) + 1 /\ n.known = Len(members)
        /\ row.account = a
    BY <1>1, <1>2 DEF Request, NewMembership
  <2>2. status' = status /\ invites' = invites
    BY DEF Accept, pod
  <2>. HIDE DEF n, row, a, q
  <2>3. /\ members \in Seq(Membership) /\ Len(members) \in Nat
        /\ DOMAIN members = 1..Len(members) /\ members # <<>> /\ Expected \in Nat
    BY <1>1 DEF IInv, TypeOK, Expected, q
  <2>4. /\ Len(members') = Len(members) + 1 /\ DOMAIN members' = 1..(Len(members) + 1)
        /\ \A i \in DOMAIN members : members'[i] = members[i]
        /\ members'[Len(members) + 1] = row
    BY <1>4, <2>3
  <2>5. \A i \in DOMAIN members' : i \in DOMAIN members \/ i = Len(members) + 1
    BY <2>3, <2>4
  <2>6. \A i \in DOMAIN members : members[i].account # a
    BY <1>2 DEF IsMember
  <2>7. Alone' /\ req'[r] = n /\ \A s \in Requests \ {r} : req'[s].pc = "idle"
    BY <1>1, <1>4, LoneMoves DEF Orderly, q
  <2>8. Seats'
    <3>1. Normalized(invites)' /\ Invited' = Invited
      BY <2>2 DEF Orderly, Seats, Normalized, Invited
    <3>2. 1 \in DOMAIN members
      BY <2>3
    <3>3. status' # "none" => members'[1].account = Creator
      BY <2>2, <2>4, <3>2 DEF Orderly, Seats
    <3>4. \A i, j \in DOMAIN members' : members'[i].account = members'[j].account => i = j
      BY <2>1, <2>4, <2>5, <2>6 DEF Orderly, Seats
    <3>5. \A i \in DOMAIN members' : members'[i].account \in Invited \cup {Creator}
      BY <1>2, <2>1, <2>4, <2>5 DEF Orderly, Seats
    <3>. QED
      BY <3>1, <3>3, <3>4, <3>5 DEF Seats
  <2>9. Turns'
    BY <1>2, <2>2, <2>3, <2>4 DEF Turns, Expected
  <2>10. ASSUME NEW s \in Requests PROVE Current(req[s])'
    <3>1. CASE s = r
      BY <1>2, <2>1, <2>2, <2>4, <2>7, <3>1 DEF Current, Accepting
    <3>2. CASE s # r
      BY <2>7, <3>2 DEF Current, Accepting
    <3>. QED
      BY <3>1, <3>2
  <2>. QED
    BY <2>7, <2>8, <2>9, <2>10 DEF Orderly
<1>. QED
  BY <1>3, <1>4 DEF Accept

\* The end of a request, or of all of them: nothing has been read.
LEMMA RestOrderly ==
  ASSUME Seats', Turns', \A s \in Requests : req'[s].pc = "idle"
  PROVE  Orderly'
  BY DEF Orderly, Alone, Busy, Current, Accepting

LEMMA AllRest ==
  ASSUME IInv, Alone, NEW r \in Requests, req[r].pc # "idle", req' = [req EXCEPT ![r] = Idle]
  PROVE  \A s \in Requests : req'[s].pc = "idle"
<1>1. req'[r] = Idle /\ \A s \in Requests \ {r} : req'[s] = req[s] /\ req[s].pc = "idle"
  BY LoneMoves
<1>. QED
  BY <1>1, IdleTyped

\* finalizePod sees every membership, and gives each its turn.
LEMMA ActivationGivesTurns ==
  ASSUME IInv, Orderly, NEW r \in Requests, FinalizePod(r), req[r].all
  PROVE  /\ Everybody /\ status' = "active"
         /\ members' \in Seq(Membership) /\ DOMAIN members' = DOMAIN members
         /\ \E turn \in PayoutOrders(DOMAIN members) : \A i \in DOMAIN members :
              /\ members'[i].account = members[i].account
              /\ members'[i].finalOrder = turn[i]
<1>. DEFINE q == req[r]
<1>1. q \in Request /\ q.pc = "award" /\ RequestSound(q) /\ Current(q) /\ status # "none"
  BY DEF IInv, TypeOK, FinalizePod, Orderly
<1>2. PICK turn \in PayoutOrders(View(q)) : members' = WithTurns(turn)
  BY DEF FinalizePod
<1>3. Everybody /\ status' = "active"
  BY <1>1 DEF FinalizePod, RequestSound, Everybody
<1>4. members \in Seq(Membership) /\ DOMAIN members = 1..Len(members) /\ Len(members) \in Nat
  BY DEF IInv, TypeOK
<1>5. q.own = Len(members) /\ q.own = q.known + 1 /\ q.known \in Nat
  BY <1>1 DEF Current, Request
<1>6. View(q) = DOMAIN members
  BY <1>4, <1>5 DEF View
<1>. HIDE DEF q
<1>7. turn \in PayoutOrders(DOMAIN members) /\ DOMAIN turn = DOMAIN members
  BY <1>2, <1>3, <1>6, OrdersGiveEachTurn DEF Orderly
<1>8. \A i \in DOMAIN turn : turn[i] \in Nat
  <2>1. {turn[i] : i \in DOMAIN members} = 1..Expected
    BY <1>3, <1>7, OrdersGiveEachTurn DEF Orderly
  <2>. QED
    BY <1>7, <2>1
<1>9. /\ members' \in Seq(Membership) /\ DOMAIN members' = DOMAIN members
      /\ \A i \in DOMAIN members : members'[i].account = members[i].account
  BY <1>2, <1>4, <1>8, SeatsKept
<1>10. ASSUME NEW i \in DOMAIN members PROVE members'[i].finalOrder = turn[i]
  <2>1. members'[i] = [members[i] EXCEPT !.finalOrder = turn[i]]
    BY <1>2, <1>7 DEF WithTurns
  <2>2. members[i] \in Membership
    BY <1>4
  <2>. QED
    BY <2>1, <2>2 DEF Membership
<1>. QED
  BY <1>3, <1>7, <1>9, <1>10

\* Turns that are written leave everybody their seat.
LEMMA SeatsStay ==
  ASSUME Seats, invites' = invites, status # "none", DOMAIN members' = DOMAIN members,
         \A i \in DOMAIN members : members'[i].account = members[i].account,
         members \in Seq(Membership), members # <<>>
  PROVE  Seats'
<1>1. 1 \in DOMAIN members
  OBVIOUS
<1>. QED
  BY <1>1 DEF Seats, Normalized, Invited

LEMMA FinalizePodOrderly ==
  ASSUME IInv, Orderly, NEW r \in Requests, FinalizePod(r)
  PROVE  Orderly'
<1>1. req[r].pc = "award" /\ req' = [req EXCEPT ![r] = Idle] /\ invites' = invites
      /\ accepted' = accepted /\ randomize' = randomize
  BY DEF FinalizePod
<1>2. CASE ~req[r].all
  BY <1>1, <1>2, IdleCurrent, QuietOrderly DEF FinalizePod, pod
<1>3. CASE req[r].all
  <2>1. /\ Everybody /\ status' = "active"
        /\ members' \in Seq(Membership) /\ DOMAIN members' = DOMAIN members
        /\ members \in Seq(Membership) /\ members # <<>>
    BY <1>3, ActivationGivesTurns DEF IInv, TypeOK, Everybody
  <2>2. PICK turn \in PayoutOrders(DOMAIN members) : \A i \in DOMAIN members :
              /\ members'[i].account = members[i].account
              /\ members'[i].finalOrder = turn[i]
    BY <1>3, ActivationGivesTurns
  <2>3. Seats'
    BY <1>1, <2>1, <2>2, SeatsStay DEF Orderly, Everybody
  <2>4. {members'[i].finalOrder : i \in DOMAIN members'} = 1..Expected
    <3>1. {turn[i] : i \in DOMAIN members} = 1..Expected
      BY <2>1, <2>2, OrdersGiveEachTurn DEF Orderly
    <3>. QED
      BY <2>1, <2>2, <3>1
  <2>5. Len(members') = Len(members)
    BY <2>1
  <2>6. Turns'
    BY <1>1, <2>4, <2>5 DEF Orderly, Turns, Expected
  <2>7. \A s \in Requests : req'[s].pc = "idle"
    BY <1>1, AllRest DEF Orderly
  <2>. QED
    BY <2>3, <2>6, <2>7, RestOrderly
<1>. QED
  BY <1>2, <1>3

LEMMA SwapOrderly ==
  ASSUME IInv, Orderly, NEW r \in Requests, Swap(r)
  PROVE  Orderly'
<1>. DEFINE q == req[r]
            i == q.first
            j == q.second
            turn == [k \in {i, j} |-> IF k = i THEN q.turns[2] ELSE q.turns[1]]
<1>1. q \in Request /\ q.pc = "swap" /\ RequestSound(q) /\ Current(q) /\ status # "none"
  BY DEF IInv, TypeOK, Swap, Orderly
<1>2. /\ req' = [req EXCEPT ![r] = Idle] /\ UNCHANGED <<pod, accepted>>
      /\ \/ members' = members
         \/ members' = WithTurns(turn)
  BY DEF Swap
<1>3. CASE members' = members
  BY <1>1, <1>2, <1>3, IdleCurrent, QuietOrderly
<1>4. CASE members' = WithTurns(turn)
  <2>1. /\ i \in DOMAIN members /\ j \in DOMAIN members /\ i # j
        /\ q.turns = <<members[i].finalOrder, members[j].finalOrder>>
    BY <1>1 DEF RequestSound, Current
  <2>. HIDE DEF q, i, j
  <2>2. members \in Seq(Membership) /\ members # <<>>
    BY <1>1 DEF IInv, TypeOK
  <2>3. \A k \in DOMAIN members : members[k] \in Membership /\ members[k].finalOrder \in Nat
    <3>1. \A k \in DOMAIN members : members[k] \in Membership
      BY <2>2
    <3>. QED
      BY <3>1 DEF Membership
  <2>4. /\ DOMAIN turn = {i, j} /\ turn[i] = members[j].finalOrder
        /\ turn[j] = members[i].finalOrder
    BY <2>1
  <2>5. \A k \in DOMAIN turn : turn[k] \in Nat
    BY <2>1, <2>3, <2>4
  <2>. HIDE DEF turn
  <2>6. /\ members' \in Seq(Membership) /\ DOMAIN members' = DOMAIN members
        /\ \A k \in DOMAIN members : members'[k].account = members[k].account
    BY <1>4, <2>2, <2>5, SeatsKept
  <2>7. /\ members'[i].finalOrder = members[j].finalOrder
        /\ members'[j].finalOrder = members[i].finalOrder
    BY <1>4, <2>1, <2>3, <2>4 DEF WithTurns, Membership
  <2>8. \A k \in DOMAIN members \ {i, j} : members'[k] = members[k]
    BY <1>4, <2>4 DEF WithTurns
  <2>9. {members'[k].finalOrder : k \in DOMAIN members'} = {members[k].finalOrder : k \in DOMAIN members}
    BY <2>1, <2>6, <2>7, <2>8
  <2>10. Seats'
    BY <1>1, <1>2, <2>2, <2>6, SeatsStay DEF Orderly, pod
  <2>11. Turns'
    <3>1. Len(members') = Len(members)
      BY <2>2, <2>6
    <3>. QED
      BY <1>2, <2>9, <3>1 DEF Orderly, Turns, Expected, pod
  <2>12. \A s \in Requests : req'[s].pc = "idle"
    BY <1>1, <1>2, AllRest DEF Orderly, q
  <2>. QED
    BY <2>10, <2>11, <2>12, RestOrderly
<1>. QED
  BY <1>2, <1>3, <1>4

LEMMA StepsOrderly ==
  ASSUME IInv, Orderly, NEW r \in Requests, Step(r)
  PROVE  Orderly'
<1>. DEFINE q == req[r]
<1>1. q \in Request /\ Current(q) /\ RequestSound(q)
  BY DEF IInv, TypeOK, Orderly
<1>2. ASSUME NEW n \in Request, req' = [req EXCEPT ![r] = n], q.pc # "idle",
             UNCHANGED <<pod, accepted, members>>,
             n.account = q.account /\ n.known = q.known /\ n.own = q.own,
             \/ q.pc = "account" /\ n.pc = "flush"
             \/ q.pc \in {"find", "award", "insert"} /\ n.pc \in {"award", "insert"}
      PROVE  Orderly'
  <2>1. Current(n)
    BY <1>1, <1>2 DEF Current, Accepting
  <2>. QED
    BY <1>2, <2>1, QuietOrderly
<1>3. ASSUME req' = [req EXCEPT ![r] = Idle], q.pc # "idle", UNCHANGED <<pod, accepted, members>>
      PROVE  Orderly'
  BY <1>3, IdleCurrent, QuietOrderly
<1>4. CASE FindAccount(r)
  <2>1. q.account \in Accounts /\ version[q.account] \in Nat
    BY <1>1, <1>4 DEF FindAccount, RequestSound, Accepting, IInv, TypeOK
  <2>2. [q EXCEPT !.pc = "flush", !.version = version[q.account]] \in Request
    BY <1>1, <2>1 DEF Request, Pc
  <2>. QED
    BY <1>1, <1>2, <1>4, <2>2 DEF FindAccount, Request
<1>5. CASE FindInvites(r)
  <2>. DEFINE n == [q EXCEPT !.pc = "award", !.all = AllAccepted, !.todo = Earned]
  <2>1. n \in Request
    BY <1>1, EarnedTyped DEF Request, Pc, AllAccepted
  <2>2. n.pc = "award" /\ n.account = q.account /\ n.known = q.known /\ n.own = q.own
    BY <1>1 DEF Request
  <2>3. req' = [req EXCEPT ![r] = n] /\ q.pc = "find" /\ UNCHANGED <<pod, accepted, members>>
    BY <1>5 DEF FindInvites
  <2>. HIDE DEF n
  <2>. QED
    BY <1>2, <2>1, <2>2, <2>3
<1>6. CASE FindAward(r)
  <2>1. q.pc = "award" /\ q.todo # <<>> /\ UNCHANGED <<pod, accepted, members>>
    BY <1>6 DEF FindAward
  <2>2. [q EXCEPT !.todo = Tail(q.todo)] \in Request /\ [q EXCEPT !.pc = "insert"] \in Request
    <3>1. q.todo \in Seq(Codes) /\ Tail(q.todo) \in Seq(Codes)
      BY <1>1, <2>1 DEF Request
    <3>. QED
      BY <1>1, <3>1 DEF Request, Pc
  <2>3. \/ req' = [req EXCEPT ![r] = [q EXCEPT !.todo = Tail(q.todo)]]
        \/ req' = [req EXCEPT ![r] = [q EXCEPT !.pc = "insert"]]
    BY <1>6 DEF FindAward
  <2>. QED
    BY <1>1, <1>2, <2>1, <2>2, <2>3 DEF Request
<1>7. CASE InsertAward(r)
  <2>1. q.pc = "insert" /\ q.todo # <<>> /\ UNCHANGED <<pod, accepted, members>>
    BY <1>1, <1>7 DEF InsertAward, RequestSound
  <2>. DEFINE n == [q EXCEPT !.pc = "award", !.todo = Tail(q.todo)]
  <2>2. n \in Request
    <3>1. q.todo \in Seq(Codes) /\ Tail(q.todo) \in Seq(Codes)
      BY <1>1, <2>1 DEF Request
    <3>. QED
      BY <1>1, <3>1 DEF Request, Pc
  <2>3. n.pc = "award" /\ n.account = q.account /\ n.known = q.known /\ n.own = q.own
    BY <1>1 DEF Request
  <2>4. \/ req' = [req EXCEPT ![r] = Idle]
        \/ req' = [req EXCEPT ![r] = n]
    BY <1>7 DEF InsertAward
  <2>. HIDE DEF n
  <2>. QED
    BY <1>2, <1>3, <2>1, <2>2, <2>3, <2>4
<1>. QED
  BY <1>4, <1>5, <1>6, <1>7, AcceptOrderly, FinalizePodOrderly, SwapOrderly DEF Step

LEMMA CreateOrderly ==
  ASSUME IInv, Orderly, CreateCustomPod
  PROVE  Orderly'
<1>1. /\ status' = "pending" /\ req' = req /\ Normalized(invites')
      /\ invites' \in Seq(Accounts)
      /\ \A s \in Requests : req[s].pc = "idle"
  BY CustomPodAssumption DEF CreateCustomPod, IInv, Normalized
<1>. DEFINE first == NewMembership(Creator, 1)
<1>2. members' = <<first>> /\ first.account = Creator
  BY DEF CreateCustomPod, NewMembership
<1>. HIDE DEF first
<1>3. DOMAIN members' = {1} /\ Len(members') = 1 /\ members'[1] = first
  BY <1>2
<1>4. Len(invites') \in Nat
  BY <1>1
<1>5. Seats'
  BY <1>1, <1>2, <1>3 DEF Seats, Normalized, Invited
<1>6. Turns'
  BY <1>1, <1>3, <1>4 DEF Turns, Expected
<1>. QED
  BY <1>1, <1>5, <1>6, RestOrderly

LEMMA SerialStep == IInv /\ SerialInv /\ [Next]_vars => SerialInv'
<1>. SUFFICES ASSUME IInv, SerialInv, [Next]_vars, ~overlapped' PROVE Orderly'
  BY DEF SerialInv
<1>1. ~overlapped
  BY DEF Next, Step, CreateCustomPod, FindInvite, FindSwapped, Start, FindAccount, Accept,
     FindInvites, FindAward, InsertAward, FinalizePod, Swap, Crash, vars
<1>2. Orderly
  BY <1>1 DEF SerialInv
<1>3. CASE \E r \in Requests : Step(r)
  BY <1>2, <1>3, StepsOrderly
<1>4. CASE Crash
  <2>1. \A s \in Requests : req'[s].pc = "idle"
    BY <1>4, IdleTyped DEF Crash
  <2>2. Seats' /\ Turns'
    BY <1>2, <1>4 DEF Crash, pod, Orderly, Seats, Normalized, Invited, Turns, Expected
  <2>. QED
    BY <2>1, <2>2, RestOrderly
<1>5. CASE UNCHANGED vars
  BY <1>2, <1>5 DEF vars, pod, Orderly, Alone, Busy, Seats, Normalized, Invited, Turns, Expected,
     Current, IsMember
<1>. QED
  BY <1>2, <1>3, <1>4, <1>5, CreateOrderly, StartsOrderly DEF Next

LEMMA SerialStart == Init => SerialInv
<1>. SUFFICES ASSUME Init PROVE Orderly
  BY DEF SerialInv
<1>1. invites = <<>> /\ members = <<>> /\ status = "none"
  BY DEF Init
<1>2. Seats /\ Turns
  BY <1>1 DEF Seats, Normalized, Turns, Expected
<1>3. \A r \in Requests : req[r].pc = "idle"
  BY IdleTyped DEF Init
<1>. QED
  BY <1>2, <1>3 DEF Orderly, Alone, Busy, Current, Accepting

\* One request at a time, restarts or not, and for any number of invitees:
\* nobody accepts into two seats or past the capacity, and in an active pod the
\* turns are those from the first to the last, one each, whatever is swapped.
THEOREM OneSeatAndOneTurnEach == Spec => []OneSeatAndTurnEach
<1>1. IInv /\ SerialInv => OneSeatAndTurnEach
  BY DEF SerialInv, Orderly, Seats, Turns, OneSeatAndTurnEach
<1>. QED
  BY <1>1, InitSound, NextSound, SerialStart, SerialStep, PTL DEF Spec

\* One request at a time, the payout order that an activation writes is that of
\* the invitations behind the creator, in whatever order they were accepted.
THEOREM ActivationFollowsInvitations == Spec => TurnsFollowInvitations
<1>. DEFINE InTurn == ~overlapped /\ ~randomize /\ status = "pending" /\ status' = "active" =>
        /\ members'[1].finalOrder = 1
        /\ \A i \in DOMAIN members' : \A k \in DOMAIN invites :
             members'[i].account = invites[k] => members'[i].finalOrder = k + 1
<1>1. IInv /\ SerialInv /\ [Next]_vars => [InTurn]_vars
  <2>. SUFFICES ASSUME IInv, SerialInv, Next, ~overlapped, ~randomize, status = "pending",
                       status' = "active"
                PROVE  /\ members'[1].finalOrder = 1
                       /\ \A i \in DOMAIN members' : \A k \in DOMAIN invites :
                            members'[i].account = invites[k] => members'[i].finalOrder = k + 1
    OBVIOUS
  <2>1. PICK r \in Requests : FinalizePod(r) /\ req[r].all
    BY DEF Next, Step, CreateCustomPod, FindInvite, FindSwapped, Start, FindAccount, Accept,
       FindInvites, FindAward, InsertAward, FinalizePod, Swap, Crash, pod
  <2>2. Orderly /\ Seats /\ TypeOK
    BY DEF SerialInv, Orderly, IInv
  <2>3. /\ Everybody /\ DOMAIN members' = DOMAIN members
        /\ members \in Seq(Membership) /\ members # <<>>
    BY <2>1, <2>2, ActivationGivesTurns DEF IInv, TypeOK, Everybody
  <2>4. PICK turn \in PayoutOrders(DOMAIN members) : \A i \in DOMAIN members :
              /\ members'[i].account = members[i].account
              /\ members'[i].finalOrder = turn[i]
    BY <2>1, <2>2, ActivationGivesTurns
  <2>5. \A i \in DOMAIN members : members'[i].finalOrder = Place(i)
    BY <2>2, <2>3, <2>4, OrdersGiveEachTurn
  <2>6. 1 \in DOMAIN members /\ members[1].account = Creator
    BY <2>2, <2>3 DEF Seats, Everybody
  <2>. QED
    BY <2>2, <2>3, <2>4, <2>5, <2>6, PlaceIs
<1>. QED
  BY <1>1, InitSound, NextSound, SerialStart, SerialStep, PTL DEF Spec, TurnsFollowInvitations
=============================================================================
