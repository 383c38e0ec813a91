---------------------------- MODULE PartsProofs ----------------------------
(***************************************************************************)
(* For any number of admins, accounts, plans and requests under way: what  *)
(* the back office, the plans and the achievements promise, and what they  *)
(* promise to requests that come one at a time.                            *)
(*                                                                         *)
(* Back office.  An answer never denies more than the table of overrides   *)
(* holds: a request deletes only the overrides it has loaded, by their id, *)
(* and so never one that another request has inserted since.  One request  *)
(* at a time, what it has found is still so when it writes, so that first  *)
(* passwords and links work once and a role that somebody has stays.       *)
(*                                                                         *)
(* Plans.  A list that a request has read, or that is cached, has all that *)
(* has not changed since it was read; a request fills the cache with the   *)
(* time at which it read.  One request at a time, what is cached is what   *)
(* is open, but while a request that has joined has yet to drop it.        *)
(*                                                                         *)
(* Achievements.  What a request has found complete stays complete until   *)
(* it inserts the award.  One request at a time, what an account is owed   *)
(* is what the request under way has not come to yet, and KOAJO_OG is the  *)
(* next to be awarded, or not at all, so that the place it found is there. *)
(***************************************************************************)
EXTENDS PartsWatched, SequenceTheorems, FiniteSetTheorems, WellFoundedInduction, TLAPS

IInv ==
  /\ DOMAIN denied = Admins /\ DOMAIN decided = Admins
  /\ \A a \in Admins : decided[a] \subseteq denied[a]

LEMMA InitSound == Init => IInv
  BY DEF Init, IInv

\* Requests that begin, and all that write neither overrides nor answers.
LEMMA Untouched ==
  ASSUME IInv, UNCHANGED <<denied, decided>>
  PROVE  IInv'
  BY DEF IInv

\* The overrides and the answer are written together.
LEMMA Rewritten ==
  ASSUME IInv, NEW a, NEW D, NEW E, E \subseteq D,
         denied' = [denied EXCEPT ![a] = D], decided' = [decided EXCEPT ![a] = E]
  PROVE  IInv'
  BY DEF IInv

LEMMA RequestSound ==
  ASSUME IInv, NEW r \in Requests, Request(r)
  PROVE  IInv'
<1>1. UNCHANGED <<denied, decided>>
  BY DEF Request, AdminLogin, ChangePassword, ForgotPassword, ResetPassword, SetUserRoles,
     SetUserPermissions, DeleteRole, SetRolePermissions, Begin, rows, history
<1>. QED
  BY <1>1, Untouched

LEMMA CommitPermissionsSound ==
  ASSUME IInv, NEW r \in Requests, CommitPermissions(r)
  PROVE  IInv'
<1>. DEFINE q == requests[r]
            kept == denied[q.who] \ q.oldDenied
<1>1. \/ /\ denied' = [denied EXCEPT ![q.who] = kept \cup q.newDenied]
         /\ decided' = [decided EXCEPT ![q.who] = q.newDenied]
      \/ UNCHANGED <<denied, decided>>
  BY DEF CommitPermissions
<1>2. q.newDenied \subseteq kept \cup q.newDenied
  OBVIOUS
<1>. HIDE DEF q, kept
<1>. QED
  BY <1>1, <1>2, Untouched, Rewritten

LEMMA StepSound ==
  ASSUME IInv, NEW r \in Requests, Step(r)
  PROVE  IInv'
<1>1. CASE CommitPermissions(r)
  BY <1>1, CommitPermissionsSound
<1>2. CASE ~CommitPermissions(r)
  <2>1. UNCHANGED <<denied, decided>>
    BY <1>2 DEF Step, GrantLogin, ApplyChange, IssueLink, RefuseReset, Spend, ApplyReset,
       CommitRoles, CommitRolePermissions, RemoveRole, rows, history
  <2>. QED
    BY <2>1, Untouched
<1>. QED
  BY <1>1, <1>2

LEMMA EventSound ==
  ASSUME IInv, Event
  PROVE  IInv'
<1>1. CASE \E a \in Admins : DeleteAdmin(a)
  <2>1. PICK a \in Admins : /\ denied' = [denied EXCEPT ![a] = {}]
                            /\ decided' = [decided EXCEPT ![a] = {}]
    BY <1>1 DEF DeleteAdmin
  <2>2. {} \subseteq {}
    OBVIOUS
  <2>. QED
    BY <2>1, <2>2, Rewritten
<1>2. CASE \E a \in Admins, R \in SUBSET Roles, allow \in Grants, deny \in Grants :
             CreateAdmin(a, R, allow, deny)
  BY <1>2, Rewritten DEF CreateAdmin
<1>3. CASE \/ \E a \in Admins : \/ Expire(a) \/ AdminRefresh(a)
                                \/ \E active \in BOOLEAN : UpdateAdminProfile(a, active)
           \/ \E o \in Roles, P \in Grants : CreateRole(o, P)
           \/ \E l \in 1..MaxLinks : ExpireLink(l)
           \/ Crash
  <2>1. UNCHANGED <<denied, decided>>
    BY <1>3 DEF Expire, AdminRefresh, UpdateAdminProfile, CreateRole, ExpireLink, Crash,
       rows, history
  <2>. QED
    BY <2>1, Untouched
<1>. QED
  BY <1>1, <1>2, <1>3 DEF Event

LEMMA NextSound == IInv /\ [Next]_vars => IInv'
<1>1. ASSUME IInv, UNCHANGED vars PROVE IInv'
  BY <1>1, Untouched DEF vars, rows, history
<1>. QED
  BY <1>1, RequestSound, StepSound, EventSound DEF Next

LEMMA DeniedIsNotGranted ==
  ASSUME IInv
  PROVE  DeniedMeansDenied
<1>. SUFFICES ASSUME NEW a \in Admins, NEW p \in decided[a], NEW route \in Route,
                     p \in Required(route)
              PROVE  ~May(a, route)
  BY DEF DeniedMeansDenied
<1>1. p \in denied[a]
  BY DEF IInv
<1>2. p \notin Effective(a)
  BY <1>1 DEF Effective
<1>. QED
  BY <1>2 DEF May

\* Once an admin has been answered that a permission is denied, no route that
\* asks for it opens, through whichever roles and explicit permissions and
\* whatever requests are still under way.
THEOREM DeniedStaysDenied == Spec => []DeniedMeansDenied
  BY InitSound, NextSound, DeniedIsNotGranted, PTL DEF Spec

-----------------------------------------------------------------------------
(***************************************************************************)
(* One request at a time                                                   *)
(***************************************************************************)
AdminFields == {"known", "active", "mustChange", "loggedIn", "roles", "direct"}
Fields == {"pc", "who", "role", "first", "link", "failed", "old", "new", "oldDenied", "newDenied"}
LinkRow == [who : Admins, live : BOOLEAN, expired : BOOLEAN, failed : Nat]

\* What the only request under way has found is still so.
FirstTime(q) ==
  q.pc = "login" =>
    q.who \in Admins /\ admins[q.who].known # "never" /\ (q.first => entered[q.who] = 0)

NoneLive(q) == q.pc = "issue" => q.who \in Admins /\ Live(q.who) = {}

Unused(q) ==
  /\ q.pc \in {"late", "wrong", "spend", "reset"} => q.link \in DOMAIN links /\ q.failed \in Nat
  /\ q.pc \in {"spend", "reset"} /\ q.link \in 1..MaxLinks => resets[q.link] = 0
  /\ q.pc = "reset" => ~links[q.link].live

NobodyHas(q) == q.pc = "deleteRole" => \A a \in Admins : q.role \notin admins[a].roles

RequestAlone(q) == FirstTime(q) /\ NoneLive(q) /\ Unused(q) /\ NobodyHas(q)

\* The first password is not asked of an admin who has come in with it.
Welcome(a) ==
  /\ entered[a] <= 1
  /\ entered[a] > 0 => admins[a].known # "never" /\ admins[a].loggedIn

OneLive(a) == \A k, l \in Live(a) : k = l

\* A link that works has set no password.
LinkAlone(l) ==
  /\ resets[l] <= 1
  /\ l \notin DOMAIN links => resets[l] = 0
  /\ l \in DOMAIN links /\ links[l].live => resets[l] = 0

Tables ==
  /\ DOMAIN admins = Admins
  /\ \A a \in Admins : DOMAIN admins[a] = AdminFields
  /\ links \in Seq(LinkRow)
  /\ entered \in [Admins -> Nat]
  /\ resets \in [1..MaxLinks -> Nat]
  /\ \A a \in Admins : Welcome(a)
  /\ \A a \in Admins : OneLive(a)
  /\ \A l \in 1..MaxLinks : LinkAlone(l)
  /\ lost = {}

Asking ==
  /\ DOMAIN requests = Requests
  /\ \A r \in Requests : DOMAIN requests[r] = Fields
  /\ ~Overlap
  /\ \A r \in Requests : RequestAlone(requests[r])

Orderly == Tables /\ Asking

SerialInv == ~disturbed => Orderly

-----------------------------------------------------------------------------
\* Requests.
LEMMA IdleFields == DOMAIN Idle = Fields /\ Idle.pc = "idle" /\ Idle.oldDenied = {}
  BY DEF Idle, Fields

LEMMA IdleAlone == RequestAlone(Idle) /\ RequestAlone(Idle)'
  BY IdleFields DEF RequestAlone, FirstTime, NoneLive, Unused, NobodyHas

\* Nobody else is under way.
LEMMA Lone ==
  ASSUME Asking, NEW r \in Requests, requests[r] # Idle
  PROVE  \A s \in Requests \ {r} : requests[s] = Idle
  BY DEF Asking, Overlap, Busy

LEMMA AllRest ==
  ASSUME requests' = [s \in Requests |-> Idle]
  PROVE  Asking'
<1>1. DOMAIN requests' = Requests /\ \A s \in Requests : requests'[s] = Idle
  OBVIOUS
<1>2. ~Overlap'
  BY <1>1 DEF Overlap, Busy
<1>3. ASSUME NEW s \in Requests PROVE DOMAIN requests'[s] = Fields /\ RequestAlone(requests[s])'
  <2>1. requests'[s] = Idle
    BY <1>1
  <2>. QED
    BY <2>1, IdleFields DEF RequestAlone, FirstTime, NoneLive, Unused, NobodyHas
<1>. QED
  BY <1>1, <1>2, <1>3 DEF Asking

LEMMA Ends ==
  ASSUME Asking, NEW r \in Requests, requests[r].pc # "idle", End(r)
  PROVE  Asking'
<1>1. \A s \in Requests \ {r} : requests[s] = Idle
  BY Lone, IdleFields
<1>2. requests' = [s \in Requests |-> Idle]
  BY <1>1 DEF Asking, End
<1>. QED
  BY <1>2, AllRest

\* A request begins or goes on.
LEMMA Moves ==
  ASSUME Asking, ~Overlap', NEW r \in Requests, NEW q, DOMAIN q = Fields, q.pc # "idle",
         requests' = [requests EXCEPT ![r] = q], RequestAlone(q)'
  PROVE  Asking'
<1>1. requests'[r] = q /\ DOMAIN requests' = Requests
  BY DEF Asking
<1>2. ASSUME NEW s \in Requests \ {r} PROVE requests'[s] = Idle
  BY <1>1, <1>2, IdleFields DEF Overlap, Busy
<1>3. ASSUME NEW s \in Requests PROVE DOMAIN requests'[s] = Fields /\ RequestAlone(requests[s])'
  <2>1. CASE s = r
    BY <1>1, <2>1 DEF RequestAlone, FirstTime, NoneLive, Unused, NobodyHas
  <2>2. CASE s # r
    <3>1. requests'[s] = Idle
      BY <1>2, <2>2
    <3>. QED
      BY <3>1, IdleFields DEF RequestAlone, FirstTime, NoneLive, Unused, NobodyHas
  <2>. QED
    BY <2>1, <2>2
<1>. QED
  BY <1>1, <1>3 DEF Asking

\* What Begin makes of its fields.
LEMMA BeginIs ==
  ASSUME NEW r \in Requests, NEW pc, NEW fields, Begin(r, pc, fields)
  PROVE  /\ requests[r] = Idle
         /\ UNCHANGED <<rows, tokens, history>>
         /\ \E q :
              /\ requests' = [requests EXCEPT ![r] = q]
              /\ DOMAIN q = Fields /\ q.pc = pc
              /\ \A c \in DOMAIN fields \cap Fields : c # "pc" => q[c] = fields[c]
<1>. DEFINE q == [c \in DOMAIN Idle |-> IF c = "pc" THEN pc
                              ELSE IF c \in DOMAIN fields THEN fields[c] ELSE Idle[c]]
<1>1. DOMAIN q = Fields /\ q.pc = pc
  BY IdleFields DEF Fields
<1>2. \A c \in DOMAIN fields \cap Fields : c # "pc" => q[c] = fields[c]
  BY IdleFields
<1>. QED
  BY <1>1, <1>2 DEF Begin

-----------------------------------------------------------------------------
\* Admins and links.
\* No link comes to life again.
Faded ==
  /\ links' \in Seq(LinkRow)
  /\ Len(links') = Len(links)
  /\ \A l \in 1..Len(links) :
       /\ links'[l].who = links[l].who
       /\ links'[l].live => links[l].live

\* Who has come in has, and none is as if never created.
Known ==
  /\ DOMAIN admins' = Admins
  /\ \A a \in Admins :
       /\ DOMAIN admins'[a] = AdminFields
       /\ admins'[a].known = "never" => admins[a].known = "never"
       /\ admins[a].known # "never" /\ admins[a].loggedIn => admins'[a].loggedIn

LEMMA LinksStay == ASSUME Tables, UNCHANGED links PROVE Faded
  BY DEF Tables, Faded

LEMMA AdminsStay == ASSUME Tables, UNCHANGED admins PROVE Known
  BY DEF Tables, Known

LEMMA FadedLive ==
  ASSUME Tables, Faded, NEW a
  PROVE  Live(a)' \subseteq Live(a) /\ DOMAIN links' = DOMAIN links
<1>1. DOMAIN links = 1..Len(links) /\ DOMAIN links' = 1..Len(links)
  BY LenProperties DEF Tables, Faded
<1>. QED
  BY <1>1 DEF Faded, Live

LEMMA TablesStay ==
  ASSUME Tables, Faded, Known, UNCHANGED <<entered, resets, lost>>
  PROVE  Tables'
<1>1. ASSUME NEW a \in Admins PROVE Welcome(a)' /\ OneLive(a)'
  <2>1. Welcome(a)'
    BY DEF Tables, Welcome, Known
  <2>2. OneLive(a)'
    BY FadedLive DEF Tables, OneLive
  <2>. QED
    BY <2>1, <2>2
<1>2. DOMAIN links = 1..Len(links) /\ DOMAIN links' = 1..Len(links)
  BY LenProperties DEF Tables, Faded
<1>3. ASSUME NEW l \in 1..MaxLinks PROVE LinkAlone(l)'
  <2>1. LinkAlone(l) /\ resets' = resets
    BY DEF Tables
  <2>2. l \in DOMAIN links' => l \in 1..Len(links) /\ l \in DOMAIN links
    BY <1>2
  <2>3. l \in DOMAIN links' /\ links'[l].live => l \in DOMAIN links /\ links[l].live
    BY <2>2 DEF Faded
  <2>4. l \notin DOMAIN links' => l \notin DOMAIN links
    BY <1>2
  <2>. QED
    BY <2>1, <2>3, <2>4 DEF LinkAlone
<1>. QED
  BY <1>1, <1>3 DEF Tables, Known, Faded

LEMMA UnusedStays ==
  ASSUME Tables, Faded, UNCHANGED resets, NEW q, Unused(q)
  PROVE  Unused(q)'
<1>1. DOMAIN links = 1..Len(links) /\ DOMAIN links' = 1..Len(links)
  BY LenProperties DEF Tables, Faded
<1>2. q.pc = "reset" => ~links'[q.link].live
  <2>1. q.pc = "reset" => q.link \in 1..Len(links) /\ ~links[q.link].live
    BY <1>1 DEF Unused
  <2>. QED
    BY <2>1 DEF Faded
<1>. QED
  BY <1>1, <1>2 DEF Unused

\* The request under way goes on while something else happens.
LEMMA AskingStays ==
  ASSUME Tables, Asking, Faded, Known, UNCHANGED <<requests, entered, resets>>,
         Busy = {} \/ \A a \in Admins : admins'[a].roles \subseteq admins[a].roles
  PROVE  Asking'
<1>1. DOMAIN links = 1..Len(links) /\ DOMAIN links' = 1..Len(links)
  BY LenProperties DEF Tables, Faded
<1>2. ASSUME NEW r \in Requests PROVE RequestAlone(requests[r])'
  <2>. DEFINE q == requests[r]
  <2>1. RequestAlone(q) /\ (q.pc # "idle" => Busy # {})
    BY IdleFields DEF Asking, Busy
  <2>2. q' = q
    OBVIOUS
  <2>3. FirstTime(q)'
    BY <2>1, <2>2 DEF RequestAlone, FirstTime, Known
  <2>4. NoneLive(q)'
    BY <2>1, <2>2, FadedLive DEF RequestAlone, NoneLive
  <2>5. Unused(q)'
    BY <2>1, <2>2, UnusedStays DEF RequestAlone
  <2>6. NobodyHas(q)'
    BY <2>1, <2>2 DEF RequestAlone, NobodyHas
  <2>. QED
    BY <2>3, <2>4, <2>5, <2>6 DEF RequestAlone
<1>. QED
  BY <1>2 DEF Asking, Overlap, Busy

LEMMA ConsumedFades ==
  ASSUME Tables, NEW S, links' = Consumed(S)
  PROVE  Faded /\ \A l \in S \cap DOMAIN links : ~links'[l].live
<1>1. /\ Len(links) \in Nat /\ DOMAIN links = 1..Len(links)
      /\ links \in [1..Len(links) -> LinkRow]
  BY LenProperties DEF Tables
<1>2. links' \in [1..Len(links) -> LinkRow]
  BY <1>1 DEF Consumed, LinkRow
<1>3. links' \in Seq(LinkRow)
  BY <1>1, <1>2, SeqDef
<1>4. Len(links') = Len(links)
  BY <1>1, <1>2, <1>3, LenProperties
<1>5. ASSUME NEW l \in 1..Len(links)
      PROVE  /\ links'[l].who = links[l].who
             /\ links'[l].live = (links[l].live /\ l \notin S)
  BY <1>1 DEF Consumed, LinkRow
<1>. QED
  BY <1>1, <1>3, <1>4, <1>5 DEF Faded

LEMMA NothingWritten ==
  ASSUME Tables, UNCHANGED <<admins, links, entered, resets, lost>>
  PROVE  Tables'
  BY LinksStay, AdminsStay, TablesStay

-----------------------------------------------------------------------------
\* Requests begin.
LEMMA AloneAsWell ==
  ASSUME UNCHANGED <<admins, links, entered, resets>>, NEW q, RequestAlone(q)
  PROVE  RequestAlone(q)'
  BY DEF RequestAlone, FirstTime, NoneLive, Unused, NobodyHas, Live

LEMMA Begins ==
  ASSUME Orderly, ~Overlap', NEW r \in Requests, NEW pc, pc # "idle", NEW fields,
         Begin(r, pc, fields),
         \A q : q.pc = pc /\ (\A c \in DOMAIN fields \cap Fields : c # "pc" => q[c] = fields[c])
                  => RequestAlone(q)
  PROVE  Orderly'
<1>1. PICK q : /\ requests' = [requests EXCEPT ![r] = q]
               /\ DOMAIN q = Fields /\ q.pc = pc
               /\ \A c \in DOMAIN fields \cap Fields : c # "pc" => q[c] = fields[c]
  BY BeginIs
<1>2. UNCHANGED <<admins, links, entered, resets, lost>>
  BY BeginIs DEF rows, history
<1>3. RequestAlone(q)'
  BY <1>1, <1>2, AloneAsWell
<1>. QED
  BY <1>1, <1>2, <1>3, NothingWritten, Moves DEF Orderly

LEMMA LoginBegins ==
  ASSUME Orderly, ~Overlap', NEW r \in Requests, NEW a \in Admins, AdminLogin(r, a)
  PROVE  Orderly'
<1>. DEFINE fields == [who |-> a, first |-> admins[a].mustChange]
<1>1. Begin(r, "login", fields) /\ MayLogin(a)
  BY DEF AdminLogin
<1>2. ASSUME NEW q, q.pc = "login",
             \A c \in DOMAIN fields \cap Fields : c # "pc" => q[c] = fields[c]
      PROVE  RequestAlone(q)
  <2>1. q.who = a /\ q.first = admins[a].mustChange
    BY <1>2 DEF Fields
  <2>2. admins[a].known # "never" /\ (admins[a].mustChange => ~admins[a].loggedIn)
    BY <1>1 DEF MayLogin, Exists
  <2>3. entered[a] \in Nat /\ Welcome(a)
    BY DEF Orderly, Tables
  <2>4. admins[a].mustChange => entered[a] = 0
    BY <2>2, <2>3 DEF Welcome
  <2>. QED
    BY <2>1, <2>2, <2>4, <1>2 DEF RequestAlone, FirstTime, NoneLive, Unused, NobodyHas
<1>. HIDE DEF fields
<1>. QED
  BY <1>1, <1>2, Begins

LEMMA DeletionBegins ==
  ASSUME Orderly, ~Overlap', NEW r \in Requests, NEW a \in Admins, NEW o \in Roles,
         DeleteRole(r, a, o)
  PROVE  Orderly'
<1>. DEFINE fields == [role |-> o]
<1>1. Begin(r, "deleteRole", fields) /\ \A b \in Admins : o \notin admins[b].roles
  BY DEF DeleteRole
<1>2. ASSUME NEW q, q.pc = "deleteRole",
             \A c \in DOMAIN fields \cap Fields : c # "pc" => q[c] = fields[c]
      PROVE  RequestAlone(q)
  <2>1. q.role = o
    BY <1>2 DEF Fields
  <2>. QED
    BY <2>1, <1>1, <1>2 DEF RequestAlone, FirstTime, NoneLive, Unused, NobodyHas
<1>. HIDE DEF fields
<1>. QED
  BY <1>1, <1>2, Begins

LEMMA ResetBegins ==
  ASSUME Orderly, ~Overlap', NEW r \in Requests, NEW a \in Admins, NEW sent,
         ResetPassword(r, a, sent)
  PROVE  Orderly'
<1>. DEFINE newest == CHOOSE l \in Live(a) : \A k \in Live(a) : k <= l
            pc == IF links[newest].expired THEN "late" ELSE IF sent = newest THEN "spend" ELSE "wrong"
            fields == [who |-> a, link |-> newest, failed |-> links[newest].failed + 1]
<1>1. Begin(r, pc, fields) /\ Live(a) # {}
  BY DEF ResetPassword
<1>2. DOMAIN links = 1..Len(links) /\ Len(links) \in Nat
  BY LenProperties DEF Orderly, Tables
<1>3. newest \in Live(a)
  <2>1. PICK l \in Live(a) : TRUE
    BY <1>1
  <2>2. \A k \in Live(a) : k = l
    BY DEF Orderly, Tables, OneLive
  <2>3. l <= l
    BY <1>2 DEF Live
  <2>. QED
    BY <2>2, <2>3
<1>4. pc \in {"late", "spend", "wrong"}
  OBVIOUS
<1>. HIDE DEF newest, pc
<1>5. newest \in DOMAIN links /\ links[newest].live /\ links[newest] \in LinkRow
  BY <1>2, <1>3, ElementOfSeq DEF Live, Orderly, Tables
<1>6. ASSUME NEW q, q.pc = pc,
             \A c \in DOMAIN fields \cap Fields : c # "pc" => q[c] = fields[c]
      PROVE  RequestAlone(q)
  <2>1. q.link = newest /\ q.failed = links[newest].failed + 1
    BY <1>6 DEF Fields
  <2>2. q.failed \in Nat
    BY <2>1, <1>5 DEF LinkRow
  <2>3. newest \in 1..MaxLinks => resets[newest] = 0
    BY <1>5 DEF Orderly, Tables, LinkAlone
  <2>. QED
    BY <2>1, <2>2, <2>3, <1>4, <1>5, <1>6 DEF RequestAlone, FirstTime, NoneLive, Unused, NobodyHas
<1>. HIDE DEF fields
<1>. QED
  BY <1>1, <1>4, <1>6, Begins

LEMMA LinkBegins ==
  ASSUME Orderly, ~Overlap', NEW r \in Requests, NEW a \in Admins, ForgotPassword(r, a)
  PROVE  Orderly'
<1>. DEFINE q == [Idle EXCEPT !.pc = "issue", !.who = a]
<1>1. /\ requests' = [requests EXCEPT ![r] = q] /\ links' = Consumed(Live(a))
      /\ UNCHANGED <<admins, entered, resets, lost>>
  BY DEF ForgotPassword, history
<1>2. Faded /\ \A l \in Live(a) : ~links'[l].live
  BY <1>1, ConsumedFades DEF Orderly, Live
<1>3. Live(a)' = {}
  BY <1>2, FadedLive DEF Orderly, Live
<1>4. DOMAIN q = Fields /\ q.pc = "issue" /\ q.who = a
  BY DEF Idle, Fields
<1>. HIDE DEF q
<1>5. RequestAlone(q)'
  BY <1>3, <1>4 DEF RequestAlone, FirstTime, NoneLive, Unused, NobodyHas
<1>6. Tables'
  BY <1>1, <1>2, AdminsStay, TablesStay DEF Orderly
<1>. QED
  BY <1>1, <1>4, <1>5, <1>6, Moves DEF Orderly

LEMMA RequestOrderly ==
  ASSUME Orderly, ~Overlap', NEW r \in Requests, Request(r)
  PROVE  Orderly'
<1>1. ASSUME NEW pc \in {"change", "setRoles", "setPermissions", "setRolePermissions"},
             NEW fields, Begin(r, pc, fields)
      PROVE  Orderly'
  <2>1. \A q : q.pc = pc => RequestAlone(q)
    BY DEF RequestAlone, FirstTime, NoneLive, Unused, NobodyHas
  <2>. QED
    BY <1>1, <2>1, Begins
<1>2. CASE \E a \in Admins :
             \/ ChangePassword(r, a)
             \/ \E R \in SUBSET Roles : SetUserRoles(r, a, R)
             \/ \E allow, deny \in Grants : SetUserPermissions(r, a, allow, deny)
  BY <1>1, <1>2 DEF ChangePassword, SetUserRoles, SetUserPermissions
<1>3. CASE \E o \in Roles, P \in Grants : SetRolePermissions(r, o, P)
  BY <1>1, <1>3 DEF SetRolePermissions
<1>4. CASE \E a \in Admins :
             \/ AdminLogin(r, a) \/ ForgotPassword(r, a)
             \/ \E sent \in 0..Len(links) : ResetPassword(r, a, sent)
             \/ \E o \in Roles : DeleteRole(r, a, o)
  BY <1>4, LoginBegins, LinkBegins, ResetBegins, DeletionBegins
<1>. QED
  BY <1>2, <1>3, <1>4 DEF Request

-----------------------------------------------------------------------------
\* Requests go on and end.
\* The roles of admins are set, or their passwords: nobody is created.
LEMMA OneAdminChanged ==
  ASSUME Tables, NEW a, NEW row, DOMAIN row = AdminFields,
         a \in Admins => row.known = admins[a].known /\ row.loggedIn = admins[a].loggedIn,
         admins' = [admins EXCEPT ![a] = row]
  PROVE  Known
  BY DEF Tables, Known

LEMMA PasswordKnown ==
  ASSUME Tables, NEW a, admins' = WithPassword(a)
  PROVE  Known
<1>1. \A b \in Admins : admins'[b] = IF b = a THEN [admins[b] EXCEPT !.mustChange = FALSE] ELSE admins[b]
  BY DEF Tables, WithPassword
<1>2. DOMAIN admins' = Admins
  BY DEF Tables, WithPassword
<1>. QED
  BY <1>1, <1>2 DEF Tables, Known, AdminFields

LEMMA GrantOrderly ==
  ASSUME Orderly, NEW r \in Requests, GrantLogin(r)
  PROVE  Orderly'
<1>. DEFINE q == requests[r]
            a == requests[r].who
<1>1. /\ q.pc = "login" /\ a \in Admins /\ admins[a].known # "never"
      /\ q.first => entered[a] = 0
  BY DEF GrantLogin, Orderly, Asking, RequestAlone, FirstTime
<1>2. /\ admins' = [admins EXCEPT ![a].loggedIn = TRUE]
      /\ entered' = [entered EXCEPT ![a] = @ + (IF q.first THEN 1 ELSE 0)]
      /\ End(r) /\ UNCHANGED <<links, resets, lost>>
  BY DEF GrantLogin
<1>. HIDE DEF a
<1>3. /\ DOMAIN admins' = Admins
      /\ \A b \in Admins : DOMAIN admins'[b] = AdminFields /\ admins'[b].known = admins[b].known
      /\ \A b \in Admins : admins'[b].loggedIn = IF b = a THEN TRUE ELSE admins[b].loggedIn
  BY <1>1, <1>2 DEF Orderly, Tables, AdminFields
<1>4. /\ entered' \in [Admins -> Nat]
      /\ \A b \in Admins \ {a} : entered'[b] = entered[b]
      /\ entered'[a] = entered[a] + (IF q.first THEN 1 ELSE 0)
  BY <1>1, <1>2 DEF Orderly, Tables
<1>5. ASSUME NEW b \in Admins PROVE Welcome(b)'
  <2>1. Welcome(b) /\ entered[b] \in Nat
    BY DEF Orderly, Tables
  <2>2. entered'[b] <= 1
    BY <2>1, <1>1, <1>4 DEF Welcome
  <2>3. entered'[b] > 0 => admins'[b].known # "never" /\ admins'[b].loggedIn
    BY <2>1, <1>1, <1>3, <1>4 DEF Welcome
  <2>. QED
    BY <2>2, <2>3 DEF Welcome
<1>6. \A b \in Admins : OneLive(b)'
  BY <1>2 DEF Orderly, Tables, OneLive, Live
<1>7. \A l \in 1..MaxLinks : LinkAlone(l)'
  BY <1>2 DEF Orderly, Tables, LinkAlone
<1>8. Tables'
  BY <1>2, <1>3, <1>4, <1>5, <1>6, <1>7 DEF Orderly, Tables
<1>. QED
  BY <1>1, <1>2, <1>8, Ends DEF Orderly

LEMMA IssueOrderly ==
  ASSUME Orderly, NEW r \in Requests, IssueLink(r)
  PROVE  Orderly'
<1>. PICK a : a = requests[r].who
  OBVIOUS
<1>. DEFINE new == [who |-> a, live |-> TRUE, expired |-> FALSE, failed |-> 0]
<1>1. requests[r].pc = "issue" /\ a \in Admins /\ Live(a) = {}
  BY DEF IssueLink, Orderly, Asking, RequestAlone, NoneLive
<1>2. /\ links' = Append(links, new) \/ links' = links
      /\ End(r) /\ UNCHANGED <<admins, entered, resets, lost>>
  BY DEF IssueLink, history
<1>3. CASE links' = links
  BY <1>1, <1>2, <1>3, NothingWritten, Ends DEF Orderly
<1>4. CASE links' = Append(links, new)
  <2>1. new \in LinkRow /\ new.who = a /\ new.live
    BY <1>1 DEF LinkRow
  <2>. HIDE DEF new
  <2>2. /\ links' \in Seq(LinkRow) /\ Len(links') = Len(links) + 1 /\ Len(links) \in Nat
        /\ \A l \in 1..Len(links) : links'[l] = links[l]
        /\ links'[Len(links) + 1] = new
    BY <1>4, <2>1, AppendProperties, LenProperties DEF Orderly, Tables
  <2>3. DOMAIN links = 1..Len(links) /\ DOMAIN links' = 1..(Len(links) + 1)
    BY <2>2, LenProperties DEF Orderly, Tables
  <2>4. ASSUME NEW b \in Admins PROVE OneLive(b)'
    <3>1. CASE b = a
      <4>1. Live(a)' \subseteq {Len(links) + 1}
        BY <1>1, <2>2, <2>3 DEF Live
      <4>. QED
        BY <3>1, <4>1 DEF OneLive
    <3>2. CASE b # a
      <4>1. Live(b)' \subseteq Live(b)
        BY <2>1, <2>2, <2>3, <3>2 DEF Live
      <4>. QED
        BY <4>1 DEF OneLive, Orderly, Tables
    <3>. QED
      BY <3>1, <3>2
  <2>5. ASSUME NEW l \in 1..MaxLinks PROVE LinkAlone(l)'
    <3>1. LinkAlone(l) /\ resets' = resets
      BY <1>2 DEF Orderly, Tables
    <3>2. l \in DOMAIN links => links'[l] = links[l] /\ l \in DOMAIN links'
      BY <2>2, <2>3
    <3>. QED
      BY <3>1, <3>2 DEF LinkAlone
  <2>6. Tables'
    BY <1>2, <2>2, <2>4, <2>5 DEF Orderly, Tables, Welcome
  <2>. QED
    BY <1>1, <1>2, <2>6, Ends DEF Orderly
<1>. QED
  BY <1>2, <1>3, <1>4

LEMMA RefuseOrderly ==
  ASSUME Orderly, NEW r \in Requests, RefuseReset(r)
  PROVE  Orderly'
<1>. DEFINE l == requests[r].link
            n == requests[r].failed
            new == [links[l] EXCEPT !.failed = n, !.live = @ /\ n < MaxAttempts]
<1>1. requests[r].pc \in {"late", "wrong"} /\ l \in DOMAIN links /\ n \in Nat
  BY DEF RefuseReset, Orderly, Asking, RequestAlone, Unused
<1>2. /\ links' = Consumed({l}) \/ links' = [links EXCEPT ![l] = new]
      /\ End(r) /\ UNCHANGED <<admins, entered, resets, lost>>
  <2>1. CASE requests[r].pc = "late"
    BY <2>1 DEF RefuseReset, history
  <2>2. CASE requests[r].pc = "wrong"
    <3>1. links' = [links EXCEPT ![l].failed = n, ![l].live = @ /\ n < MaxAttempts]
      BY <2>2 DEF RefuseReset
    <3>2. links[l] \in LinkRow
      BY <1>1, LenProperties, ElementOfSeq DEF Orderly, Tables
    <3>3. links' = [links EXCEPT ![l] = new]
      BY <3>1, <3>2, <1>1 DEF LinkRow
    <3>. QED
      BY <3>3 DEF RefuseReset, history
  <2>. QED
    BY <1>1, <2>1, <2>2
<1>. HIDE DEF l, n
<1>3. Faded
  <2>1. CASE links' = Consumed({l})
    BY <2>1, ConsumedFades DEF Orderly
  <2>2. CASE links' = [links EXCEPT ![l] = new]
    <3>1. l \in 1..Len(links) /\ links[l] \in LinkRow
      BY <1>1, LenProperties, ElementOfSeq DEF Orderly, Tables
    <3>2. new \in LinkRow /\ new.who = links[l].who /\ (new.live => links[l].live)
      BY <1>1, <3>1 DEF LinkRow
    <3>. HIDE DEF new
    <3>. QED
      BY <2>2, <3>1, <3>2, ExceptSeq DEF Faded, Orderly, Tables
  <2>. QED
    BY <1>2, <2>1, <2>2
<1>4. Tables'
  BY <1>2, <1>3, AdminsStay, TablesStay DEF Orderly
<1>. QED
  BY <1>1, <1>2, <1>4, Ends DEF Orderly

\* The link is dead before its password is set.
LEMMA SpendOrderly ==
  ASSUME Orderly, ~Overlap', NEW r \in Requests, Spend(r)
  PROVE  Orderly'
<1>. PICK q, l : q = [requests[r] EXCEPT !.pc = "reset"] /\ l = requests[r].link
  OBVIOUS
<1>1. /\ l \in DOMAIN links /\ requests[r].failed \in Nat
      /\ l \in 1..MaxLinks => resets[l] = 0
  BY DEF Spend, Orderly, Asking, RequestAlone, Unused
<1>2. /\ links' = Consumed({l}) /\ requests' = [requests EXCEPT ![r] = q]
      /\ UNCHANGED <<admins, entered, resets, lost>>
  BY DEF Spend, history
<1>3. Faded /\ ~links'[l].live
  BY <1>1, <1>2, ConsumedFades DEF Orderly
<1>4. DOMAIN q = Fields /\ q.pc = "reset" /\ q.link = l /\ q.failed = requests[r].failed
  BY DEF Orderly, Asking, Fields
<1>5. l \in DOMAIN links'
  BY <1>1, <1>3, FadedLive DEF Orderly
<1>6. RequestAlone(q)'
  BY <1>1, <1>2, <1>3, <1>4, <1>5 DEF RequestAlone, FirstTime, NoneLive, Unused, NobodyHas
<1>7. Tables'
  BY <1>2, <1>3, AdminsStay, TablesStay DEF Orderly
<1>. QED
  BY <1>2, <1>4, <1>6, <1>7, Moves DEF Orderly

LEMMA ResetOrderly ==
  ASSUME Orderly, NEW r \in Requests, ApplyReset(r)
  PROVE  Orderly'
<1>. PICK q : q = requests[r]
  OBVIOUS
<1>1. /\ q.pc = "reset" /\ q.link \in DOMAIN links /\ ~links[q.link].live
      /\ q.link \in 1..MaxLinks => resets[q.link] = 0
  BY DEF ApplyReset, Orderly, Asking, RequestAlone, Unused
<1>2. /\ admins' = WithPassword(q.who) /\ resets' = [resets EXCEPT ![q.link] = @ + 1]
      /\ End(r) /\ UNCHANGED <<links, entered, lost>>
  BY DEF ApplyReset
<1>3. Known
  BY <1>2, PasswordKnown DEF Orderly
<1>4. resets' \in [1..MaxLinks -> Nat]
  <2>1. resets \in [1..MaxLinks -> Nat]
    BY DEF Orderly, Tables
  <2>2. q.link \in 1..MaxLinks => resets[q.link] + 1 \in Nat
    BY <2>1
  <2>. QED
    BY <1>2, <2>1, <2>2
<1>5. ASSUME NEW l \in 1..MaxLinks PROVE LinkAlone(l)'
  <2>1. LinkAlone(l) /\ resets[l] \in Nat
    BY DEF Orderly, Tables
  <2>2. CASE l = q.link
    <3>1. resets'[l] = 1
      BY <1>1, <1>2, <2>2 DEF Orderly, Tables
    <3>. QED
      BY <1>1, <1>2, <2>2, <3>1 DEF LinkAlone
  <2>3. CASE l # q.link
    <3>1. resets'[l] = resets[l]
      BY <1>2, <2>3 DEF Orderly, Tables
    <3>. QED
      BY <1>2, <2>1, <3>1 DEF LinkAlone
  <2>. QED
    BY <2>2, <2>3
<1>6. \A a \in Admins : Welcome(a)' /\ OneLive(a)'
  BY <1>2, <1>3 DEF Orderly, Tables, Known, Welcome, OneLive, Live
<1>7. Tables'
  BY <1>2, <1>3, <1>4, <1>5, <1>6 DEF Orderly, Tables, Known
<1>. QED
  BY <1>1, <1>2, <1>7, Ends DEF Orderly

\* Writes to roles and permissions touch neither passwords nor links.
LEMMA FieldKnown ==
  ASSUME Tables, NEW a, NEW f \in {"roles", "direct", "active"}, NEW v,
         admins' = [admins EXCEPT ![a] = [@ EXCEPT ![f] = v]]
  PROVE  Known
<1>1. \A b \in Admins : admins'[b] = IF b = a THEN [admins[b] EXCEPT ![f] = v] ELSE admins[b]
  BY DEF Tables
<1>2. DOMAIN admins' = Admins
  BY DEF Tables
<1>3. f # "known" /\ f # "loggedIn"
  OBVIOUS
<1>. QED
  BY <1>1, <1>2, <1>3 DEF Tables, Known, AdminFields

LEMMA RolesOrderly ==
  ASSUME Orderly, NEW r \in Requests, CommitRoles(r)
  PROVE  Orderly'
<1>. PICK q : q = requests[r]
  OBVIOUS
<1>1. \/ admins' = [admins EXCEPT ![q.who].roles = Merged(@, q.old, q.new)]
      \/ admins' = admins
  BY DEF CommitRoles
<1>2. Known
  <2>. DEFINE v == Merged(admins[q.who].roles, q.old, q.new)
  <2>1. admins' = [admins EXCEPT ![q.who] = [@ EXCEPT !["roles"] = v]] \/ admins' = admins
    BY <1>1
  <2>. HIDE DEF v
  <2>. QED
    BY <2>1, FieldKnown, AdminsStay DEF Orderly
<1>3. requests[r].pc # "idle" /\ End(r) /\ UNCHANGED <<links, entered, resets, lost>>
  BY DEF CommitRoles, history
<1>. QED
  BY <1>2, <1>3, LinksStay, TablesStay, Ends DEF Orderly

\* Nobody else has loaded overrides that are gone.
LEMMA PermissionsOrderly ==
  ASSUME Orderly, NEW r \in Requests, CommitPermissions(r)
  PROVE  Orderly'
<1>. PICK q : q = requests[r]
  OBVIOUS
<1>. DEFINE Forgotten(s) ==
       [requests[s] EXCEPT !.oldDenied = IF requests[s].who = q.who THEN @ \ q.oldDenied ELSE @]
<1>1. q.pc = "setPermissions" /\ UNCHANGED <<links, entered, resets, lost>>
  BY DEF CommitPermissions
<1>2. \/ /\ admins' = [admins EXCEPT ![q.who].direct = Merged(@, q.old, q.new)]
         /\ requests' = [s \in Requests |-> IF s = r THEN Idle ELSE Forgotten(s)]
      \/ End(r) /\ UNCHANGED admins
  BY DEF CommitPermissions
<1>3. Known
  <2>. DEFINE v == Merged(admins[q.who].direct, q.old, q.new)
  <2>1. admins' = [admins EXCEPT ![q.who] = [@ EXCEPT !["direct"] = v]] \/ admins' = admins
    BY <1>2
  <2>. HIDE DEF v
  <2>. QED
    BY <2>1, FieldKnown, AdminsStay DEF Orderly
<1>4. Asking'
  <2>1. CASE requests' = [s \in Requests |-> IF s = r THEN Idle ELSE Forgotten(s)]
    <3>1. ASSUME NEW s \in Requests \ {r} PROVE Forgotten(s) = Idle
      <4>1. requests[s] = Idle
        BY <1>1, Lone, IdleFields DEF Orderly
      <4>2. (IF Idle.who = q.who THEN Idle.oldDenied \ q.oldDenied ELSE Idle.oldDenied) = {}
        BY IdleFields
      <4>3. Idle = [c \in Fields |-> Idle[c]]
        BY DEF Idle, Fields
      <4>4. [Idle EXCEPT !.oldDenied = {}] = [c \in Fields |-> Idle[c]]
        BY <4>3, IdleFields
      <4>5. Forgotten(s) = [Idle EXCEPT !.oldDenied = {}]
        BY <4>1, <4>2
      <4>. QED
        BY <4>3, <4>4, <4>5
    <3>2. requests' = [s \in Requests |-> Idle]
      BY <2>1, <3>1
    <3>. QED
      BY <3>2, AllRest
  <2>2. CASE End(r)
    BY <1>1, <2>2, Ends DEF Orderly
  <2>. QED
    BY <1>2, <2>1, <2>2
<1>. QED
  BY <1>1, <1>3, <1>4, LinksStay, TablesStay DEF Orderly

\* No assignment is lost with the role.
LEMMA RemovalOrderly ==
  ASSUME Orderly, NEW r \in Requests, RemoveRole(r)
  PROVE  Orderly'
<1>. PICK o : o = requests[r].role
  OBVIOUS
<1>1. /\ requests[r].pc = "deleteRole"
      /\ \A a \in Admins : o \notin admins[a].roles
  BY DEF RemoveRole, Orderly, Asking, RequestAlone, NobodyHas
<1>2. /\ admins' = [a \in Admins |-> [admins[a] EXCEPT !.roles = @ \ {o}]]
      /\ lost' = lost \cup {a \in Admins : o \in admins[a].roles}
      /\ End(r) /\ UNCHANGED <<links, entered, resets>>
  BY DEF RemoveRole
<1>3. Known
  BY <1>2 DEF Known, AdminFields, Orderly, Tables
<1>4. lost' = lost
  BY <1>1, <1>2
<1>. QED
  BY <1>1, <1>2, <1>3, <1>4, LinksStay, TablesStay, Ends DEF Orderly

LEMMA StepOrderly ==
  ASSUME Orderly, ~Overlap', NEW r \in Requests, Step(r)
  PROVE  Orderly'
<1>1. CASE ApplyChange(r)
  <2>1. PICK a : a = requests[r].who
    OBVIOUS
  <2>2. /\ requests[r].pc # "idle" /\ admins' = WithPassword(a) /\ End(r)
        /\ UNCHANGED <<links, entered, resets, lost>>
    BY <1>1, <2>1 DEF ApplyChange, history
  <2>. QED
    BY <2>2, PasswordKnown, LinksStay, TablesStay, Ends DEF Orderly
<1>2. CASE CommitRolePermissions(r)
  <2>1. /\ requests[r].pc # "idle" /\ End(r)
        /\ UNCHANGED <<admins, links, entered, resets, lost>>
    BY <1>2 DEF CommitRolePermissions, history
  <2>. QED
    BY <2>1, NothingWritten, Ends DEF Orderly
<1>. QED
  BY <1>1, <1>2, GrantOrderly, IssueOrderly, RefuseOrderly, SpendOrderly, ResetOrderly,
     RolesOrderly, PermissionsOrderly, RemovalOrderly DEF Step

-----------------------------------------------------------------------------
\* What takes one step.
LEMMA CreationOrderly ==
  ASSUME Orderly, Busy = {}, NEW a, NEW R, NEW allow, NEW deny, CreateAdmin(a, R, allow, deny)
  PROVE  Orderly'
<1>. PICK row : row = [NoAdmin EXCEPT !.known = "yes", !.roles = R, !.direct = allow]
  OBVIOUS
<1>1. DOMAIN row = AdminFields /\ row.known = "yes"
  BY DEF NoAdmin, AdminFields
<1>2. /\ admins[a].known = "never" /\ admins' = [admins EXCEPT ![a] = row]
      /\ UNCHANGED <<links, requests, entered, resets, lost>>
  BY DEF CreateAdmin
<1>3. Known
  BY <1>1, <1>2 DEF Known, Orderly, Tables
<1>. QED
  BY <1>2, <1>3, LinksStay, TablesStay, AskingStays DEF Orderly

LEMMA DismissalOrderly ==
  ASSUME Orderly, NEW a, DeleteAdmin(a)
  PROVE  Orderly'
<1>1. /\ admins' = [admins EXCEPT ![a].known = "deleted", ![a].roles = {}, ![a].direct = {}]
      /\ links' = Consumed(Live(a)) /\ UNCHANGED <<requests, entered, resets, lost>>
  BY DEF DeleteAdmin
<1>2. /\ DOMAIN admins' = Admins
      /\ \A b \in Admins :
           /\ DOMAIN admins'[b] = AdminFields
           /\ admins'[b].known = IF b = a THEN "deleted" ELSE admins[b].known
           /\ admins'[b].loggedIn = admins[b].loggedIn
           /\ admins'[b].roles = IF b = a THEN {} ELSE admins[b].roles
  BY <1>1 DEF Orderly, Tables, AdminFields
<1>3. Known /\ \A b \in Admins : admins'[b].roles \subseteq admins[b].roles
  BY <1>2 DEF Known
<1>4. Faded
  BY <1>1, ConsumedFades DEF Orderly
<1>. QED
  BY <1>1, <1>3, <1>4, TablesStay, AskingStays DEF Orderly

LEMMA ProfileOrderly ==
  ASSUME Orderly, NEW a, NEW active, UpdateAdminProfile(a, active)
  PROVE  Orderly'
<1>1. /\ admins' = [admins EXCEPT ![a] = [@ EXCEPT !["active"] = active]]
      /\ UNCHANGED <<links, requests, entered, resets, lost>>
  BY DEF UpdateAdminProfile, history
<1>2. \A b \in Admins : admins'[b].roles \subseteq admins[b].roles
  BY <1>1 DEF Orderly, Tables, AdminFields
<1>. QED
  BY <1>1, <1>2, FieldKnown, LinksStay, TablesStay, AskingStays DEF Orderly

LEMMA ExpiryOrderly ==
  ASSUME Orderly, NEW l, ExpireLink(l)
  PROVE  Orderly'
<1>. PICK new : new = [links[l] EXCEPT !.expired = TRUE]
  OBVIOUS
<1>1. /\ l \in DOMAIN links /\ links' = [links EXCEPT ![l] = new]
      /\ UNCHANGED <<admins, requests, entered, resets, lost>>
  BY DEF ExpireLink, history
<1>2. l \in 1..Len(links) /\ links[l] \in LinkRow
  BY <1>1, LenProperties, ElementOfSeq DEF Orderly, Tables
<1>3. new \in LinkRow /\ new.who = links[l].who /\ new.live = links[l].live
  BY <1>2 DEF LinkRow
<1>4. Faded
  BY <1>1, <1>2, <1>3, ExceptSeq DEF Faded, Orderly, Tables
<1>. QED
  BY <1>1, <1>4, AdminsStay, TablesStay, AskingStays DEF Orderly

LEMMA EventOrderly ==
  ASSUME Orderly, ~Appointment, Event
  PROVE  Orderly'
<1>1. ASSUME UNCHANGED <<admins, links, requests, entered, resets, lost>> PROVE Orderly'
  BY <1>1, LinksStay, AdminsStay, TablesStay, AskingStays DEF Orderly
<1>2. CASE \E a \in Admins : Expire(a) \/ AdminRefresh(a)
  BY <1>1, <1>2 DEF Expire, AdminRefresh, rows, history
<1>3. CASE \E o \in Roles, P \in Grants : CreateRole(o, P)
  BY <1>1, <1>3 DEF CreateRole, history
<1>4. CASE Crash
  <2>1. Asking'
    BY <1>4, AllRest DEF Crash
  <2>2. UNCHANGED <<admins, links, entered, resets, lost>>
    BY <1>4 DEF Crash, rows, history
  <2>. QED
    BY <2>1, <2>2, NothingWritten DEF Orderly
<1>5. CASE \E a \in Admins, R \in SUBSET Roles, allow, deny \in Grants :
             CreateAdmin(a, R, allow, deny)
  <2>1. Busy = {}
    BY <1>5 DEF Appointment
  <2>. QED
    BY <1>5, <2>1, CreationOrderly
<1>6. CASE \E a \in Admins : DeleteAdmin(a) \/ \E active \in BOOLEAN : UpdateAdminProfile(a, active)
  BY <1>6, DismissalOrderly, ProfileOrderly
<1>7. CASE \E l \in 1..MaxLinks : ExpireLink(l)
  BY <1>7, ExpiryOrderly
<1>. QED
  BY <1>2, <1>3, <1>4, <1>5, <1>6, <1>7 DEF Event

-----------------------------------------------------------------------------
LEMMA OpensOrderly == WatchedInit => SerialInv
<1>. SUFFICES ASSUME Init PROVE Orderly
  BY DEF WatchedInit, SerialInv
<1>1. Asking
  <2>1. DOMAIN requests = Requests /\ \A r \in Requests : requests[r] = Idle
    BY DEF Init
  <2>. QED
    BY <2>1, IdleFields, IdleAlone DEF Asking, Overlap, Busy
<1>2. /\ DOMAIN admins = Admins
      /\ \A a \in Admins : DOMAIN admins[a] = AdminFields
  BY DEF Init, NoAdmin, AdminFields
<1>3. links \in Seq(LinkRow) /\ Len(links) = 0 /\ DOMAIN links = {}
  BY EmptySeq DEF Init
<1>4. entered \in [Admins -> Nat] /\ resets \in [1..MaxLinks -> Nat] /\ lost = {}
  BY DEF Init
<1>5. \A a \in Admins : Welcome(a) /\ OneLive(a)
  BY <1>3 DEF Init, Welcome, OneLive, Live
<1>6. \A l \in 1..MaxLinks : LinkAlone(l)
  BY <1>3 DEF Init, LinkAlone
<1>. QED
  BY <1>1, <1>2, <1>3, <1>4, <1>5, <1>6 DEF Orderly, Tables

LEMMA StaysOrderly ==
  ASSUME SerialInv, [WatchedNext]_watched
  PROVE  SerialInv'
<1>1. CASE UNCHANGED watched
  <2>1. ASSUME ~disturbed PROVE Orderly'
    <3>1. UNCHANGED <<admins, links, requests, entered, resets, lost>>
      BY <1>1 DEF watched, vars, rows, history
    <3>2. Orderly
      BY <2>1 DEF SerialInv
    <3>. QED
      BY <3>1, <3>2, LinksStay, AdminsStay, TablesStay, AskingStays DEF Orderly
  <2>. QED
    BY <1>1, <2>1 DEF watched, SerialInv
<1>2. CASE WatchedNext
  <2>. SUFFICES ASSUME ~disturbed' PROVE Orderly'
    BY DEF SerialInv
  <2>1. Orderly /\ ~Overlap' /\ ~Appointment
    BY <1>2 DEF WatchedNext, SerialInv
  <2>. QED
    BY <1>2, <2>1, RequestOrderly, StepOrderly, EventOrderly DEF WatchedNext, Next
<1>. QED
  BY <1>1, <1>2

LEMMA OrderlyKept == SerialInv => SerialOfficeInOrder
  BY DEF SerialInv, Orderly, Tables, SerialOfficeInOrder, KeptInOrder, Welcome, OneLive, LinkAlone

\* Whatever requests overlap, what has been denied stays denied; and one request
\* at a time, the first password opens the door once, an admin has one reset link
\* that works and it sets one password, and no role that somebody has disappears
\* (admin-login, admin-reset-password and delete-admin-role handlers).
THEOREM OfficeStaysInOrder == WatchedSpec => []OfficeInOrder
<1>1. WatchedInit => IInv /\ SerialInv
  BY InitSound, OpensOrderly DEF WatchedInit
<1>2. IInv /\ SerialInv /\ [WatchedNext]_watched => IInv' /\ SerialInv'
  <2>1. [WatchedNext]_watched => [Next]_vars
    BY DEF WatchedNext, watched
  <2>. QED
    BY <2>1, NextSound, StaysOrderly
<1>3. IInv /\ SerialInv => OfficeInOrder
  BY DeniedIsNotGranted, OrderlyKept DEF OfficeInOrder
<1>. QED
  BY <1>1, <1>2, <1>3, PTL DEF WatchedSpec

-----------------------------------------------------------------------------
(***************************************************************************)
(* Plans: what the rows, the requests and the lists of open pods look      *)
(* like.                                                                   *)
(***************************************************************************)
PlanSize == Sizes \cup {0, DefaultSize}

PlanRow == [exists : BOOLEAN, active : BOOLEAN, size : PlanSize]

PodRow == [plan : Codes, size : PlanSize, members : Nat, phase : {"open", "grace", "locked"}]

PodList == UNION {[S -> PodRow] : S \in SUBSET Nat}

PlanStage == {"idle", "seed", "plans", "ensure", "create", "advance", "fill", "insert", "commit"}

NoCode == ""

PlanRequest ==
  [pc : PlanStage, kind : {"refresh", "open", "plan", "plans", "join"}, at : Nat,
   plans : UNION {[S -> PlanSize] : S \in SUBSET Codes}, todo : SUBSET Codes, pod : Nat,
   joined : BOOLEAN, code : Codes \cup {NoCode}, plan : PlanRow, pods : PodList]

PlansTyped ==
  /\ plans \in [Codes -> PlanRow]
  /\ pods \in Seq(PodRow)
  /\ cache.at \in Int /\ cache.at <= now
  /\ now \in Nat
  /\ planRequests \in [Requests -> PlanRequest]
  /\ signed \in [Codes -> PlanRow]
  /\ changed \in Seq(Nat) /\ Len(changed) = Len(pods)
  /\ \A p \in DOMAIN changed : changed[p] <= now
  /\ served.at \in Int /\ served.at <= now

\* A list as of some time has what has not changed since.
AsOf(at, list) ==
  \A p \in DOMAIN pods : changed[p] < at =>
    IF Plans!IsOpen(p) THEN p \in DOMAIN list /\ list[p] = pods[p] ELSE p \notin DOMAIN list

\* Where a request is while it goes through the plans that it has loaded.
Loading(q) == q.pc \in {"ensure", "create", "advance", "insert"}

\* What a request holds.
PlanRequestSound(q) ==
  /\ q.at <= now
  /\ Loading(q) => q.todo \subseteq DOMAIN q.plans
  /\ q.pc = "create" => q.code \in DOMAIN q.plans
  /\ q.pc = "commit" => q.code \in Codes
  /\ Loading(q) /\ q.kind = "join" => q.code \in DOMAIN q.plans /\ q.todo \subseteq {q.code}
  /\ q.joined \/ q.pc = "insert" => q.kind = "join"
  /\ q.joined => q.pc \in {"ensure", "create", "advance"}
  /\ q.pc = "fill" => AsOf(q.at, q.pods)

PlansInv ==
  /\ PlansTyped
  /\ \A r \in Requests : PlanRequestSound(planRequests[r])
  /\ AsOf(cache.at, cache.pods)
  /\ Plans!ListsCatchUp

\* And of a request that is alone: its plan is still there, its pod is its
\* plan's, and the list is dropped or current.
Alone(q) ==
  /\ Loading(q) /\ q.kind = "join" => plans[q.code].exists
  /\ q.pc = "insert" => q.pod \in DOMAIN pods /\ pods[q.pod].plan = q.code
  /\ q.pc = "commit" => signed[q.code] = Plans!NoPlan
  /\ q.pc = "create" => cache = Plans!NoCache \/ q.joined
  /\ q.pc = "fill" => q.pods = Plans!OpenRows

PlansQuiet ==
  /\ ~Several(PlansBusy)
  /\ \A c \in Codes : signed[c] # Plans!NoPlan =>
       plans[c] = signed[c] /\ plans[c].exists /\ Plans!hasPodsWithRealMembers(c)
  /\ \A r \in Requests : Alone(planRequests[r])
  /\ \/ cache = Plans!NoCache \/ cache.pods = Plans!OpenRows
     \/ \E r \in Requests : planRequests[r].joined

-----------------------------------------------------------------------------
LEMMA EmptyPodList == <<>> \in PodList
<1>1. <<>> \in [{} -> PodRow]
  OBVIOUS
<1>. QED
  BY <1>1 DEF PodList

LEMMA PlanRowsType ==
  /\ Plans!NoPlan \in PlanRow
  /\ \A active \in BOOLEAN : \A size \in Sizes \cup {DefaultSize} :
       Plans!Plan(size, active) \in PlanRow /\ Plans!Plan(size, active).exists
  /\ ~Plans!NoPlan.exists
BY DEF Plans!NoPlan, Plans!Plan, PlanRow, PlanSize

LEMMA IdlePlanRequest ==
  /\ Plans!Idle \in PlanRequest
  /\ Plans!Idle.pc = "idle" /\ Plans!Idle.at = 0 /\ ~Plans!Idle.joined
<1>1. <<>> \in UNION {[S -> PlanSize] : S \in SUBSET Codes}
  <2>1. <<>> \in [{} -> PlanSize]
    OBVIOUS
  <2>. QED
    BY <2>1
<1>. QED
  BY <1>1, EmptyPodList, PlanRowsType DEF Plans!Idle, PlanRequest, PlanStage, NoCode

LEMMA IdlePlanRequestSound == ASSUME now \in Nat PROVE PlanRequestSound(Plans!Idle)
BY IdlePlanRequest DEF PlanRequestSound, Loading

\* What the open pods are read as.
LEMMA OpenRowsRead ==
  ASSUME pods \in Seq(PodRow), changed \in Seq(Nat), NEW at
  PROVE  Plans!OpenRows \in PodList /\ AsOf(at, Plans!OpenRows)
<1>1. Plans!OpenPods \subseteq DOMAIN pods /\ DOMAIN pods \subseteq Nat
  BY DEF Plans!OpenPods
<1>2. Plans!OpenRows \in [Plans!OpenPods -> PodRow]
  BY <1>1 DEF Plans!OpenRows
<1>3. Plans!OpenRows \in PodList
  BY <1>1, <1>2 DEF PodList
<1>4. AsOf(at, Plans!OpenRows)
  BY DEF AsOf, Plans!OpenRows, Plans!OpenPods
<1>. QED
  BY <1>3, <1>4

\* What is as of an earlier time still is when pods are opened or changed now.
PodsMove ==
  \A p \in DOMAIN pods' :
    \/ p \in DOMAIN pods /\ pods'[p] = pods[p] /\ changed'[p] = changed[p]
    \/ changed'[p] = now

LEMMA StillAsOf ==
  ASSUME now \in Nat, PodsMove, NEW at \in Int, at <= now, NEW list, AsOf(at, list)
  PROVE  AsOf(at, list)'
BY DEF AsOf, PodsMove, Plans!IsOpen

LEMMA CatchUpIsAsOf ==
  ASSUME PlansTyped
  PROVE  Plans!ListsCatchUp <=> AsOf(served.at - Ttl, served.pods)
<1>1. \A p \in DOMAIN pods : p \in DOMAIN changed /\ changed[p] \in Nat
  BY DEF PlansTyped
<1>2. \A p \in DOMAIN pods : changed[p] + Ttl < served.at <=> changed[p] < served.at - Ttl
  BY <1>1, PlansAssumption DEF PlansTyped
<1>. QED
  BY <1>2 DEF Plans!ListsCatchUp, AsOf

\* A step of one request that changes the pods by itself or not at all, and the
\* lists as it says.
LEMMA PlansMove ==
  ASSUME PlansInv, NEW r \in Requests, NEW q,
         planRequests' = [planRequests EXCEPT ![r] = q],
         q \in PlanRequest, PlanRequestSound(q)',
         now' = now, plans' \in [Codes -> PlanRow], signed' \in [Codes -> PlanRow],
         pods' \in Seq(PodRow), changed' \in Seq(Nat), Len(changed') = Len(pods'),
         PodsMove, \A p \in DOMAIN changed' : changed'[p] <= now,
         cache' = cache \/ (/\ cache'.at \in Int /\ cache'.at <= now
                            /\ AsOf(cache.at, cache.pods)'),
         served' = served \/ (/\ served'.at \in Int /\ served'.at <= now
                              /\ AsOf(served.at - Ttl, served.pods)')
  PROVE  PlansInv'
<1>. USE DEF PlansInv
<1>1. /\ now \in Nat /\ cache.at \in Int /\ cache.at <= now /\ served.at \in Int /\ served.at - Ttl <= now
      /\ planRequests \in [Requests -> PlanRequest]
  BY PlansAssumption DEF PlansTyped
<1>2. PlansTyped'
  BY <1>1 DEF PlansTyped
<1>3. ASSUME NEW s \in Requests PROVE PlanRequestSound(planRequests[s])'
  <2>1. CASE s = r
    <3>1. planRequests'[s] = q
      BY <1>1, <2>1
    <3>. QED
      BY <3>1 DEF PlanRequestSound, AsOf, Loading
  <2>2. CASE s # r
    <3>1. planRequests'[s] = planRequests[s] /\ planRequests[s] \in PlanRequest
      BY <1>1, <2>2
    <3>2. PICK o : o = planRequests[s]
      OBVIOUS
    <3>3. o \in PlanRequest /\ PlanRequestSound(o) /\ o.at \in Nat
      BY <3>1, <3>2 DEF PlanRequest
    <3>4. o.pc = "fill" => AsOf(o.at, o.pods)'
      <4>. SUFFICES ASSUME o.pc = "fill" PROVE AsOf(o.at, o.pods)'
        OBVIOUS
      <4>1. AsOf(o.at, o.pods) /\ o.at <= now
        BY <3>3 DEF PlanRequestSound
      <4>. QED
        BY <1>1, <3>3, <4>1, StillAsOf
    <3>5. PlanRequestSound(o)'
      BY <3>3, <3>4 DEF PlanRequestSound, Loading
    <3>. QED
      BY <3>1, <3>2, <3>5 DEF PlanRequestSound, AsOf, Loading
  <2>. QED
    BY <2>1, <2>2
<1>4. AsOf(cache.at, cache.pods)'
  <2>1. CASE cache' = cache
    <3>1. PICK at, list : at = cache.at /\ list = cache.pods
      OBVIOUS
    <3>2. AsOf(at, list)'
      BY <1>1, <3>1, StillAsOf
    <3>. QED
      BY <2>1, <3>1, <3>2 DEF AsOf
  <2>. QED
    BY <2>1
<1>5. AsOf(served.at - Ttl, served.pods)'
  <2>1. CASE served' = served
    <3>1. PICK at, list : at = served.at - Ttl /\ list = served.pods
      OBVIOUS
    <3>2. AsOf(at, list)
      BY <3>1, CatchUpIsAsOf
    <3>3. AsOf(at, list)'
      BY <1>1, <3>1, <3>2, PlansAssumption, StillAsOf
    <3>. QED
      BY <2>1, <3>1, <3>3 DEF AsOf
  <2>. QED
    BY <2>1
<1>6. Plans!ListsCatchUp'
  <2>1. \A p \in DOMAIN pods' : changed'[p] \in Nat
    BY <1>2 DEF PlansTyped
  <2>2. \A p \in DOMAIN pods' : changed'[p] + Ttl < served'.at <=> changed'[p] < served'.at - Ttl
    BY <1>2, <2>1, PlansAssumption DEF PlansTyped
  <2>. QED
    BY <1>5, <2>2 DEF Plans!ListsCatchUp, AsOf, Plans!IsOpen
<1>. QED
  BY <1>2, <1>3, <1>4, <1>6

-----------------------------------------------------------------------------
\* What a step keeps: the invariant, and without overlaps the quiet one too.
KeepsPlans == PlansInv' /\ (PlansQuiet /\ ~Several(PlansBusy)' => PlansQuiet')

\* The plans that people have signed are there as they signed them.
PlansSigned ==
  \A c \in Codes : signed[c] # Plans!NoPlan =>
    plans[c] = signed[c] /\ plans[c].exists /\ Plans!hasPodsWithRealMembers(c)

LEMMA OthersIdle ==
  ASSUME PlansTyped, ~Several(PlansBusy), ~Several(PlansBusy)', NEW r \in Requests, NEW q,
         planRequests' = [planRequests EXCEPT ![r] = q],
         q.pc # "idle" \/ planRequests[r].pc # "idle"
  PROVE  \A s \in Requests \ {r} : planRequests[s] = Plans!Idle /\ planRequests'[s] = Plans!Idle
<1>. SUFFICES ASSUME NEW s \in Requests, s # r PROVE planRequests[s] = Plans!Idle
  BY DEF PlansTyped
<1>1. planRequests'[s] = planRequests[s] /\ planRequests'[r] = q
  BY DEF PlansTyped
<1>2. CASE planRequests[r].pc # "idle"
  <2>1. r \in PlansBusy
    BY <1>2, IdlePlanRequest DEF PlansBusy
  <2>. QED
    BY <2>1 DEF Several, PlansBusy
<1>3. CASE q.pc # "idle"
  <2>1. r \in PlansBusy'
    BY <1>1, <1>3, IdlePlanRequest DEF PlansBusy
  <2>. QED
    BY <1>1, <2>1 DEF Several, PlansBusy
<1>. QED
  BY <1>2, <1>3

LEMMA PlansStayQuiet ==
  ASSUME PlansTyped, ~Several(PlansBusy), ~Several(PlansBusy)', NEW r \in Requests, NEW q,
         planRequests' = [planRequests EXCEPT ![r] = q],
         q.pc # "idle" \/ planRequests[r].pc # "idle",
         Alone(q)', PlansSigned',
         cache' = Plans!NoCache \/ cache'.pods = Plans!OpenRows' \/ q.joined
  PROVE  PlansQuiet'
<1>1. planRequests'[r] = q
  BY DEF PlansTyped
<1>2. ASSUME NEW s \in Requests PROVE Alone(planRequests[s])'
  <2>1. CASE s = r
    BY <1>1, <2>1 DEF Alone, Loading
  <2>2. CASE s # r
    <3>1. planRequests'[s].pc = "idle"
      BY <2>2, OthersIdle, IdlePlanRequest
    <3>. QED
      BY <3>1 DEF Alone, Loading
  <2>. QED
    BY <2>1, <2>2
<1>3. \/ cache' = Plans!NoCache \/ cache'.pods = Plans!OpenRows'
      \/ \E s \in Requests : planRequests'[s].joined
  BY <1>1
<1>. QED
  BY <1>2, <1>3 DEF PlansQuiet, PlansSigned

\* A request that goes on, with what it holds of rows and lists that stay.
LEMMA RequestMoves ==
  ASSUME PlansInv, NEW r \in Requests, NEW q,
         planRequests' = [planRequests EXCEPT ![r] = q],
         UNCHANGED <<plans, pods, cache, now, signed, changed, served>>,
         q \in PlanRequest, PlanRequestSound(q),
         q.pc # "idle" \/ planRequests[r].pc # "idle",
         PlansQuiet => Alone(q) /\ (planRequests[r].joined => q.joined)
  PROVE  KeepsPlans
<1>1. PlansInv'
  <2>1. PodsMove
    BY DEF PodsMove
  <2>2. PlanRequestSound(q)'
    BY DEF PlanRequestSound, AsOf, Loading, Plans!IsOpen
  <2>. QED
    BY <2>1, <2>2, PlansMove DEF PlansInv, PlansTyped
<1>2. ASSUME PlansQuiet, ~Several(PlansBusy)' PROVE PlansQuiet'
  <2>1. Alone(q)'
    <3>1. Alone(q)
      BY <1>2
    <3>. QED
      BY <3>1 DEF Alone, Loading, Plans!OpenRows, Plans!OpenPods, Plans!IsOpen
  <2>2. PlansSigned'
    BY <1>2 DEF PlansQuiet, PlansSigned, Plans!hasPodsWithRealMembers
  <2>3. cache' = Plans!NoCache \/ cache'.pods = Plans!OpenRows' \/ q.joined
    <3>1. \A s \in Requests \ {r} : ~planRequests[s].joined
      BY <1>2, OthersIdle, IdlePlanRequest DEF PlansQuiet, PlansInv
    <3>2. Plans!OpenRows' = Plans!OpenRows
      BY DEF Plans!OpenRows, Plans!OpenPods, Plans!IsOpen
    <3>. QED
      BY <1>2, <3>1, <3>2 DEF PlansQuiet
  <2>. QED
    BY <1>2, <2>1, <2>2, <2>3, PlansStayQuiet DEF PlansInv, PlansQuiet
<1>. QED
  BY <1>1, <1>2 DEF KeepsPlans

LEMMA EndKeeps ==
  ASSUME PlansInv, NEW r \in Requests, Plans!End(r), planRequests[r].pc # "idle",
         UNCHANGED <<plans, pods, cache, now, signed, changed, served>>,
         ~planRequests[r].joined
  PROVE  KeepsPlans
<1>1. planRequests' = [planRequests EXCEPT ![r] = Plans!Idle]
  BY DEF Plans!End, Plans!Go
<1>2. PlanRequestSound(Plans!Idle)
  BY IdlePlanRequestSound DEF PlansInv, PlansTyped
<1>3. Alone(Plans!Idle)
  BY IdlePlanRequest DEF Alone, Loading
<1>. QED
  BY <1>1, <1>2, <1>3, IdlePlanRequest, RequestMoves

LEMMA RequestFields ==
  ASSUME PlansInv, NEW r \in Requests, NEW q, q = planRequests[r]
  PROVE  q \in PlanRequest /\ PlanRequestSound(q) /\ q.at \in Nat /\ now \in Nat
         /\ (PlansQuiet => Alone(q))
<1>1. q \in PlanRequest /\ PlanRequestSound(q)
  BY DEF PlansInv, PlansTyped
<1>. QED
  BY <1>1 DEF PlansInv, PlansTyped, PlanRequest, PlansQuiet

LEMMA ArriveKeeps ==
  ASSUME PlansInv, NEW r \in Requests,
         NEW kind \in {"refresh", "open", "plan", "plans", "join"}, NEW code \in Codes \cup {NoCode},
         Plans!Arrive(r, kind, code)
  PROVE  KeepsPlans
<1>1. PICK q : q = [Plans!Idle EXCEPT !.kind = kind, !.code = code, !.at = now,
                        !.pc = IF \E c \in Codes : plans[c].exists THEN "plans" ELSE "seed"]
  OBVIOUS
<1>2. now \in Nat
  BY DEF PlansInv, PlansTyped
<1>3. q \in PlanRequest /\ q.pc \in {"plans", "seed"} /\ q.at = now /\ ~q.joined
  <2>. DEFINE i == Plans!Idle
  <2>1. i \in PlanRequest /\ ~i.joined
    BY IdlePlanRequest
  <2>. HIDE DEF i
  <2>. QED
    BY <1>1, <1>2, <2>1 DEF PlanRequest, PlanStage, i
<1>4. PlanRequestSound(q) /\ Alone(q)
  <2>1. ~Loading(q) /\ q.pc \notin {"create", "commit", "fill", "insert"}
    BY <1>3 DEF Loading
  <2>2. q.at <= now /\ ~q.joined
    BY <1>2, <1>3
  <2>3. PlanRequestSound(q)
    BY <2>1, <2>2 DEF PlanRequestSound
  <2>4. Alone(q)
    BY <2>1 DEF Alone
  <2>. QED
    BY <2>3, <2>4
<1>5. /\ planRequests[r] = Plans!Idle /\ planRequests' = [planRequests EXCEPT ![r] = q]
      /\ UNCHANGED <<plans, pods, cache, now, signed, changed, served>>
  BY <1>1 DEF Plans!Arrive, Plans!Go, Plans!rows, Plans!history
<1>6. ~planRequests[r].joined
  BY <1>5, IdlePlanRequest
<1>. QED
  BY <1>3, <1>4, <1>5, <1>6, RequestMoves

LEMMA seedPlansIfEmptyKeeps ==
  ASSUME PlansInv, NEW r \in Requests, Plans!seedPlansIfEmpty(r)
  PROVE  KeepsPlans
<1>. USE DEF Plans!seedPlansIfEmpty, Plans!history
<1>1. PICK q : q = planRequests[r]
  OBVIOUS
<1>2. q \in PlanRequest /\ PlanRequestSound(q) /\ q.pc = "seed" /\ ~q.joined /\ q.at <= now
  <2>1. q \in PlanRequest /\ PlanRequestSound(q) /\ q.pc = "seed"
    BY <1>1, RequestFields
  <2>. QED
    BY <2>1 DEF PlanRequestSound
<1>3. CASE \E c \in Defaults : plans[c].exists
  BY <1>1, <1>2, <1>3, EndKeeps
<1>4. CASE ~\E c \in Defaults : plans[c].exists
  <2>1. PICK n : n = [q EXCEPT !.pc = "plans"]
    OBVIOUS
  <2>2. n \in PlanRequest /\ n.pc = "plans" /\ n.at = q.at /\ ~n.joined
    BY <1>2, <2>1 DEF PlanRequest, PlanStage
  <2>3. PlanRequestSound(n)' /\ Alone(n)'
    BY <1>2, <2>2 DEF PlanRequestSound, Alone, Loading
  <2>4. /\ planRequests' = [planRequests EXCEPT ![r] = n]
        /\ plans' = [c \in Codes |-> IF c \in Defaults THEN Plans!Plan(DefaultSize, TRUE) ELSE plans[c]]
    BY <1>1, <1>4, <2>1 DEF Plans!Go
  <2>5. plans' \in [Codes -> PlanRow]
    BY <2>4, PlanRowsType DEF PlansInv, PlansTyped
  <2>6. PlansInv'
    BY <2>2, <2>3, <2>4, <2>5, PlansMove DEF PlansInv, PlansTyped, PodsMove
  <2>7. ASSUME PlansQuiet, ~Several(PlansBusy)' PROVE PlansQuiet'
    <3>1. PlansSigned'
      <4>1. \A c \in Codes : signed[c] # Plans!NoPlan => c \notin Defaults
        BY <1>4, <2>7 DEF PlansQuiet
      <4>2. \A c \in Codes \ Defaults : plans'[c] = plans[c]
        BY <2>4
      <4>. QED
        BY <2>7, <4>1, <4>2 DEF PlansQuiet, PlansSigned, Plans!hasPodsWithRealMembers
    <3>2. cache' = Plans!NoCache \/ cache'.pods = Plans!OpenRows'
      <4>1. \A s \in Requests : ~planRequests[s].joined
        BY <1>1, <1>2, <2>2, <2>4, <2>7, OthersIdle, IdlePlanRequest DEF PlansQuiet, PlansInv
      <4>. QED
        BY <2>7, <4>1 DEF PlansQuiet, Plans!OpenRows, Plans!OpenPods, Plans!IsOpen
    <3>. QED
      BY <2>2, <2>3, <2>4, <2>7, <3>1, <3>2, PlansStayQuiet DEF PlansInv, PlansQuiet
  <2>. QED
    BY <2>6, <2>7 DEF KeepsPlans
<1>. QED
  BY <1>3, <1>4

\* What has been loaded are the plans of S.
LEMMA LoadedRequest ==
  ASSUME PlansInv, NEW q \in PlanRequest, PlanRequestSound(q), NEW S, S \subseteq Plans!Active,
         q.pc = "plans", q.kind = "join" => S = {q.code}
  PROVE  /\ Plans!Loaded(q, S) \in PlanRequest
         /\ PlanRequestSound(Plans!Loaded(q, S)) /\ Alone(Plans!Loaded(q, S))
         /\ Plans!Loaded(q, S).pc = "ensure" /\ ~Plans!Loaded(q, S).joined
<1>1. S \subseteq Codes /\ plans \in [Codes -> PlanRow] /\ \A c \in S : plans[c].exists
  BY DEF Plans!Active, PlansInv, PlansTyped
<1>2. PICK f : f = [c \in S |-> plans[c].size]
  OBVIOUS
<1>3. f \in UNION {[T -> PlanSize] : T \in SUBSET Codes} /\ DOMAIN f = S
  <2>1. f \in [S -> PlanSize]
    BY <1>1, <1>2 DEF PlanRow
  <2>. QED
    BY <1>1, <2>1
<1>4. PICK n : n = [q EXCEPT !.pc = "ensure", !.todo = S, !.plans = f]
  OBVIOUS
<1>5. Plans!Loaded(q, S) = n
  BY <1>2, <1>4 DEF Plans!Loaded
<1>6. /\ n \in PlanRequest /\ n.pc = "ensure" /\ n.todo = S /\ n.plans = f
      /\ n.kind = q.kind /\ n.code = q.code /\ n.at = q.at /\ n.joined = q.joined
  BY <1>1, <1>3, <1>4 DEF PlanRequest, PlanStage
<1>7. ~q.joined
  BY DEF PlanRequestSound
<1>8. PlanRequestSound(n)
  BY <1>3, <1>6, <1>7 DEF PlanRequestSound, Loading
<1>9. Alone(n)
  BY <1>1, <1>6 DEF Alone, Loading
<1>. QED
  BY <1>5, <1>6, <1>7, <1>8, <1>9

LEMMA getActivePlansKeeps ==
  ASSUME PlansInv, NEW r \in Requests, Plans!getActivePlans(r)
  PROVE  KeepsPlans
<1>. USE DEF Plans!getActivePlans, Plans!rows, Plans!history
<1>1. PICK q : q = planRequests[r]
  OBVIOUS
<1>2. q \in PlanRequest /\ PlanRequestSound(q) /\ q.pc = "plans" /\ q.kind # "join" /\ ~q.joined
  <2>1. q \in PlanRequest /\ PlanRequestSound(q) /\ q.pc = "plans" /\ q.kind # "join"
    BY <1>1, RequestFields
  <2>. QED
    BY <2>1 DEF PlanRequestSound
<1>3. CASE q.kind = "plans"
  BY <1>1, <1>2, <1>3, EndKeeps
<1>4. CASE q.kind # "plans"
  <2>1. PICK n : n = Plans!Loaded(q, Plans!Active)
    OBVIOUS
  <2>2. n \in PlanRequest /\ PlanRequestSound(n) /\ Alone(n) /\ n.pc = "ensure" /\ ~n.joined
    BY <1>2, <2>1, LoadedRequest
  <2>3. planRequests' = [planRequests EXCEPT ![r] = n]
    BY <1>1, <1>4, <2>1 DEF Plans!Go
  <2>. QED
    BY <1>1, <1>2, <2>2, <2>3, RequestMoves
<1>. QED
  BY <1>3, <1>4

LEMMA getPlanOrFailKeeps ==
  ASSUME PlansInv, NEW r \in Requests, Plans!getPlanOrFail(r)
  PROVE  KeepsPlans
<1>. USE DEF Plans!getPlanOrFail, Plans!rows, Plans!history
<1>1. PICK q : q = planRequests[r]
  OBVIOUS
<1>2. q \in PlanRequest /\ PlanRequestSound(q) /\ q.pc = "plans" /\ ~q.joined
  <2>1. q \in PlanRequest /\ PlanRequestSound(q) /\ q.pc = "plans"
    BY <1>1, RequestFields
  <2>. QED
    BY <2>1 DEF PlanRequestSound
<1>3. CASE q.code \notin Plans!Active
  BY <1>1, <1>2, <1>3, EndKeeps
<1>4. CASE q.code \in Plans!Active
  <2>1. PICK n : n = Plans!Loaded(q, {q.code})
    OBVIOUS
  <2>2. n \in PlanRequest /\ PlanRequestSound(n) /\ Alone(n) /\ n.pc = "ensure" /\ ~n.joined
    BY <1>2, <1>4, <2>1, LoadedRequest
  <2>3. planRequests' = [planRequests EXCEPT ![r] = n]
    BY <1>1, <1>4, <2>1 DEF Plans!Go
  <2>. QED
    BY <1>1, <1>2, <2>2, <2>3, RequestMoves
<1>. QED
  BY <1>3, <1>4

LEMMA OpenPodIsPod ==
  ASSUME pods \in Seq(PodRow), NEW p \in Plans!OpenPods
  PROVE  p \in DOMAIN pods /\ p \in Nat
BY DEF Plans!OpenPods

LEMMA NoCacheIsOld ==
  ASSUME PlansTyped
  PROVE  /\ Plans!NoCache.at = 0 - 1
         /\ Plans!NoCache.at \in Int /\ Plans!NoCache.at <= now
         /\ AsOf(Plans!NoCache.at, Plans!NoCache.pods)
<1>1. Plans!NoCache.at = 0 - 1
  BY DEF Plans!NoCache
<1>2. \A p \in DOMAIN pods : changed[p] \in Nat
  BY DEF PlansTyped
<1>. QED
  BY <1>1, <1>2 DEF AsOf, PlansTyped

\* A request that goes on and drops the list.
LEMMA ListDropped ==
  ASSUME PlansInv, NEW r \in Requests, NEW q,
         planRequests' = [planRequests EXCEPT ![r] = q],
         UNCHANGED <<plans, pods, now, signed, changed, served>>, cache' = Plans!NoCache,
         q \in PlanRequest, PlanRequestSound(q),
         q.pc # "idle" \/ planRequests[r].pc # "idle",
         PlansQuiet => Alone(q)'
  PROVE  KeepsPlans
<1>1. PlansInv'
  <2>1. PodsMove
    BY DEF PodsMove
  <2>2. PlanRequestSound(q)'
    BY DEF PlanRequestSound, AsOf, Loading, Plans!IsOpen
  <2>3. cache'.at \in Int /\ cache'.at <= now /\ AsOf(cache.at, cache.pods)'
    <3>1. PlansTyped
      BY DEF PlansInv
    <3>2. AsOf(Plans!NoCache.at, Plans!NoCache.pods)
      BY <3>1, NoCacheIsOld
    <3>. QED
      BY <3>1, <3>2, NoCacheIsOld DEF AsOf, Plans!IsOpen
  <2>. QED
    BY <2>1, <2>2, <2>3, PlansMove DEF PlansInv, PlansTyped
<1>2. ASSUME PlansQuiet, ~Several(PlansBusy)' PROVE PlansQuiet'
  <2>1. PlansSigned'
    BY <1>2 DEF PlansQuiet, PlansSigned, Plans!hasPodsWithRealMembers
  <2>. QED
    BY <1>2, <2>1, PlansStayQuiet DEF PlansInv, PlansQuiet
<1>. QED
  BY <1>1, <1>2 DEF KeepsPlans

LEMMA ensurePlanLifecycleKeeps ==
  ASSUME PlansInv, NEW r \in Requests, Plans!ensurePlanLifecycle(r)
  PROVE  KeepsPlans
<1>. USE DEF Plans!ensurePlanLifecycle, Plans!rows, Plans!history, Plans!Go
<1>1. PICK q : q = planRequests[r]
  OBVIOUS
<1>2. /\ q \in PlanRequest /\ PlanRequestSound(q) /\ q.pc = "ensure" /\ (PlansQuiet => Alone(q))
      /\ planRequests[r].pc # "idle"
  BY <1>1, RequestFields
<1>3. PICK c \in q.todo :
        LET mine == {p \in Plans!OpenPods : pods[p].plan = c}
            next == [q EXCEPT !.todo = @ \ {c}]
        IN  IF mine = {}
            THEN /\ planRequests' = [planRequests EXCEPT ![r] = [next EXCEPT !.pc = "create", !.code = c]]
                 /\ cache' = Plans!NoCache
            ELSE /\ UNCHANGED cache
                 /\ \/ planRequests' = [planRequests EXCEPT ![r] = next]
                    \/ \E p \in mine :
                         planRequests' = [planRequests EXCEPT ![r] = [next EXCEPT !.pc = "advance", !.pod = p]]
  BY <1>1
<1>4. /\ c \in DOMAIN q.plans /\ c \in Codes /\ q.todo \ {c} \in SUBSET Codes
      /\ q.todo \ {c} \subseteq DOMAIN q.plans
      /\ q.kind = "join" => c = q.code
  BY <1>2 DEF PlanRequestSound, PlanRequest, Loading
<1>5. UNCHANGED <<plans, pods, now, signed, changed, served>>
  OBVIOUS
<1>6. PICK next : next = [q EXCEPT !.todo = @ \ {c}]
  OBVIOUS
<1>7. /\ next \in PlanRequest /\ next.pc = "ensure" /\ next.todo = q.todo \ {c}
      /\ next.plans = q.plans /\ next.kind = q.kind /\ next.code = q.code /\ next.at = q.at
      /\ next.joined = q.joined
  BY <1>2, <1>4, <1>6 DEF PlanRequest
<1>8. PlanRequestSound(next)
  BY <1>2, <1>4, <1>7 DEF PlanRequestSound, Loading
<1>9. PlansQuiet => Alone(next)
  BY <1>2, <1>7 DEF Alone, Loading
<1>10. CASE planRequests' = [planRequests EXCEPT ![r] = [next EXCEPT !.pc = "create", !.code = c]]
              /\ cache' = Plans!NoCache
  <2>1. PICK n : n = [next EXCEPT !.pc = "create", !.code = c]
    OBVIOUS
  <2>2. /\ n \in PlanRequest /\ n.pc = "create" /\ n.todo = next.todo /\ n.plans = next.plans
        /\ n.kind = next.kind /\ n.code = c /\ n.at = next.at /\ n.joined = next.joined
    BY <1>4, <1>7, <2>1 DEF PlanRequest, PlanStage
  <2>3. PlanRequestSound(n)
    BY <1>2, <1>4, <1>7, <2>2 DEF PlanRequestSound, Loading
  <2>4. PlansQuiet => Alone(n)'
    <3>1. PlansQuiet /\ n.kind = "join" => plans[n.code].exists
      BY <1>2, <1>4, <1>7, <2>2 DEF Alone, Loading
    <3>. QED
      BY <1>5, <1>10, <2>2, <3>1 DEF Alone
  <2>. QED
    BY <1>2, <1>5, <1>10, <2>1, <2>2, <2>3, <2>4, ListDropped
<1>11. CASE UNCHANGED cache /\ planRequests' = [planRequests EXCEPT ![r] = next]
  BY <1>1, <1>2, <1>5, <1>7, <1>8, <1>9, <1>11, RequestMoves
<1>12. ASSUME NEW p \in Plans!OpenPods, UNCHANGED cache,
              planRequests' = [planRequests EXCEPT ![r] = [next EXCEPT !.pc = "advance", !.pod = p]]
       PROVE  KeepsPlans
  <2>1. PICK n : n = [next EXCEPT !.pc = "advance", !.pod = p]
    OBVIOUS
  <2>2. p \in Nat
    BY OpenPodIsPod DEF PlansInv, PlansTyped
  <2>3. /\ n \in PlanRequest /\ n.pc = "advance" /\ n.todo = next.todo /\ n.plans = next.plans
        /\ n.kind = next.kind /\ n.code = next.code /\ n.at = next.at /\ n.joined = next.joined
    BY <1>7, <2>1, <2>2 DEF PlanRequest, PlanStage
  <2>4. PlanRequestSound(n)
    BY <1>7, <1>8, <2>3 DEF PlanRequestSound, Loading
  <2>5. PlansQuiet => Alone(n)
    BY <1>7, <1>9, <2>3 DEF Alone, Loading
  <2>. QED
    BY <1>1, <1>2, <1>5, <1>7, <1>12, <2>1, <2>3, <2>4, <2>5, RequestMoves
<1>13. \/ /\ planRequests' = [planRequests EXCEPT ![r] = [next EXCEPT !.pc = "create", !.code = c]]
          /\ cache' = Plans!NoCache
       \/ UNCHANGED cache /\ planRequests' = [planRequests EXCEPT ![r] = next]
       \/ /\ UNCHANGED cache
          /\ \E p \in Plans!OpenPods :
               planRequests' = [planRequests EXCEPT ![r] = [next EXCEPT !.pc = "advance", !.pod = p]]
  BY <1>3, <1>6
<1>. QED
  BY <1>10, <1>11, <1>12, <1>13

LEMMA LocatePodKeeps ==
  ASSUME PlansInv, NEW r \in Requests, Plans!LocatePod(r)
  PROVE  KeepsPlans
<1>. USE DEF Plans!LocatePod, Plans!Ensured, Plans!rows, Plans!history
<1>1. PICK q : q = planRequests[r]
  OBVIOUS
<1>2. /\ q \in PlanRequest /\ PlanRequestSound(q) /\ q.pc = "ensure" /\ q.kind = "join" /\ ~q.joined
      /\ (PlansQuiet => Alone(q))
  BY <1>1, RequestFields
<1>3. q.code \in DOMAIN q.plans /\ q.code \in Codes /\ {q.code} \in SUBSET Codes
  BY <1>2 DEF PlanRequestSound, PlanRequest, Loading
<1>4. UNCHANGED <<plans, pods, cache, now, signed, changed, served>>
  OBVIOUS
<1>5. CASE Plans!End(r)
  BY <1>1, <1>2, <1>4, <1>5, EndKeeps
<1>6. CASE Plans!Go(r, [q EXCEPT !.todo = {q.code}])
  <2>1. PICK n : n = [q EXCEPT !.todo = {q.code}]
    OBVIOUS
  <2>2. /\ n \in PlanRequest /\ n.pc = "ensure" /\ n.todo = {q.code} /\ n.plans = q.plans
        /\ n.kind = q.kind /\ n.code = q.code /\ n.at = q.at /\ n.joined = q.joined
    BY <1>2, <1>3, <2>1 DEF PlanRequest
  <2>3. PlanRequestSound(n)
    BY <1>2, <1>3, <2>2 DEF PlanRequestSound, Loading
  <2>4. PlansQuiet => Alone(n)
    BY <1>2, <2>2 DEF Alone, Loading
  <2>. QED
    BY <1>1, <1>2, <1>4, <1>6, <2>1, <2>2, <2>3, <2>4, RequestMoves DEF Plans!Go
<1>7. ASSUME NEW p \in Plans!OpenPods, pods[p].plan = q.code,
             Plans!Go(r, [q EXCEPT !.pc = "insert", !.pod = p])
      PROVE  KeepsPlans
  <2>1. PICK n : n = [q EXCEPT !.pc = "insert", !.pod = p]
    OBVIOUS
  <2>2. p \in Nat /\ p \in DOMAIN pods
    BY OpenPodIsPod DEF PlansInv, PlansTyped
  <2>3. /\ n \in PlanRequest /\ n.pc = "insert" /\ n.todo = q.todo /\ n.plans = q.plans /\ n.pod = p
        /\ n.kind = q.kind /\ n.code = q.code /\ n.at = q.at /\ n.joined = q.joined
    BY <1>2, <2>1, <2>2 DEF PlanRequest, PlanStage
  <2>4. PlanRequestSound(n)
    BY <1>2, <2>3 DEF PlanRequestSound, Loading
  <2>5. PlansQuiet => Alone(n)
    BY <1>2, <1>7, <2>2, <2>3 DEF Alone, Loading
  <2>. QED
    BY <1>1, <1>2, <1>4, <1>7, <2>1, <2>3, <2>4, <2>5, RequestMoves DEF Plans!Go
<1>. QED
  BY <1>1, <1>5, <1>6, <1>7

LEMMA EndRefreshKeeps ==
  ASSUME PlansInv, NEW r \in Requests, Plans!EndRefresh(r) \/ Plans!EndJoin(r)
  PROVE  KeepsPlans
<1>1. /\ planRequests[r].pc = "ensure" /\ planRequests' = [planRequests EXCEPT ![r] = Plans!Idle]
      /\ UNCHANGED <<plans, pods, now, signed, changed, served>> /\ cache' = Plans!NoCache
  BY DEF Plans!EndRefresh, Plans!EndJoin, Plans!Ensured, Plans!End, Plans!Go, Plans!rows, Plans!history
<1>2. PlanRequestSound(Plans!Idle)
  BY IdlePlanRequestSound DEF PlansInv, PlansTyped
<1>3. Alone(Plans!Idle)'
  BY IdlePlanRequest DEF Alone, Loading
<1>. QED
  BY <1>1, <1>2, <1>3, IdlePlanRequest, ListDropped

LEMMA ChangePlanKeeps ==
  ASSUME PlansInv, NEW r \in Requests, NEW c \in Codes, NEW plan \in PlanRow,
         Plans!ChangePlan(r, c, plan)
  PROVE  KeepsPlans
<1>. USE DEF Plans!ChangePlan, Plans!rows, Plans!history
<1>1. PICK i : i = Plans!Idle
  OBVIOUS
<1>2. PICK n : n = [i EXCEPT !.pc = "commit", !.code = c, !.plan = plan]
  OBVIOUS
<1>3. i \in PlanRequest /\ i.at = 0 /\ ~i.joined /\ planRequests[r] = i
  BY <1>1, IdlePlanRequest
<1>4. n \in PlanRequest /\ n.pc = "commit" /\ n.code = c /\ n.at = 0 /\ ~n.joined
  BY <1>2, <1>3 DEF PlanRequest, PlanStage
<1>5. PlanRequestSound(n)
  BY <1>4 DEF PlanRequestSound, Loading, PlansInv, PlansTyped
<1>6. PlansQuiet => Alone(n)
  <2>1. ~Plans!hasPodsWithRealMembers(c)
    OBVIOUS
  <2>2. PlansQuiet => signed[c] = Plans!NoPlan
    BY <2>1 DEF PlansQuiet
  <2>. QED
    BY <1>4, <2>2 DEF Alone, Loading
<1>7. /\ planRequests' = [planRequests EXCEPT ![r] = n]
      /\ UNCHANGED <<plans, pods, cache, now, signed, changed, served>>
  BY <1>1, <1>2 DEF Plans!Go
<1>. QED
  BY <1>3, <1>4, <1>5, <1>6, <1>7, RequestMoves

LEMMA RowsChanged ==
  ASSUME NEW S, NEW s, s \in Seq(S), NEW t, t \in [DOMAIN s -> S]
  PROVE  t \in Seq(S) /\ Len(t) = Len(s)
<1>1. t \in [1..Len(s) -> S] /\ Len(s) \in Nat
  OBVIOUS
<1>. QED
  BY <1>1, SeqDef, LenProperties

\* A request that changes pods, and drops the list or leaves it.
LEMMA PodsChanged ==
  ASSUME PlansInv, NEW r \in Requests, NEW q,
         planRequests' = [planRequests EXCEPT ![r] = q],
         UNCHANGED <<plans, now, served>>, cache' = cache \/ cache' = Plans!NoCache,
         signed' \in [Codes -> PlanRow], pods' \in Seq(PodRow), changed' \in Seq(Nat),
         Len(changed') = Len(pods'), PodsMove, \A p \in DOMAIN changed' : changed'[p] <= now,
         q \in PlanRequest, PlanRequestSound(q), q.pc \notin {"idle", "fill"},
         PlansQuiet => Alone(q)' /\ PlansSigned' /\ (cache' = Plans!NoCache \/ q.joined)
  PROVE  KeepsPlans
<1>1. PlansInv'
  <2>1. PlanRequestSound(q)'
    BY DEF PlanRequestSound, Loading
  <2>2. cache' = cache \/ (cache'.at \in Int /\ cache'.at <= now /\ AsOf(cache.at, cache.pods)')
    <3>1. CASE cache' = Plans!NoCache
      <4>1. cache'.at = 0 - 1 /\ now \in Nat
        BY <3>1, NoCacheIsOld DEF PlansInv, PlansTyped
      <4>2. \A p \in DOMAIN pods' : changed'[p] \in Nat
        OBVIOUS
      <4>. QED
        BY <4>1, <4>2 DEF AsOf
    <3>. QED
      BY <3>1
  <2>. QED
    BY <2>1, <2>2, PlansMove DEF PlansInv, PlansTyped
<1>2. ASSUME PlansQuiet, ~Several(PlansBusy)' PROVE PlansQuiet'
  BY <1>2, PlansStayQuiet DEF PlansInv, PlansQuiet
<1>. QED
  BY <1>1, <1>2 DEF KeepsPlans

LEMMA createOpenPodKeeps ==
  ASSUME PlansInv, NEW r \in Requests, Plans!createOpenPod(r)
  PROVE  KeepsPlans
<1>. USE DEF Plans!createOpenPod
<1>1. PICK q : q = planRequests[r]
  OBVIOUS
<1>2. /\ q \in PlanRequest /\ PlanRequestSound(q) /\ q.pc = "create" /\ (PlansQuiet => Alone(q))
  BY <1>1, RequestFields
<1>3. /\ q.code \in Codes /\ q.plans[q.code] \in PlanSize
  <2>1. q.code \in DOMAIN q.plans
    BY <1>2 DEF PlanRequestSound
  <2>2. PICK S \in SUBSET Codes : q.plans \in [S -> PlanSize]
    BY <1>2 DEF PlanRequest
  <2>. QED
    BY <2>1, <2>2
<1>4. PICK row : row = [plan |-> q.code, size |-> q.plans[q.code], members |-> 0, phase |-> "open"]
  OBVIOUS
<1>5. row \in PodRow
  BY <1>3, <1>4 DEF PodRow
<1>6. PICK n : n = [q EXCEPT !.pc = "ensure"]
  OBVIOUS
<1>7. /\ pods' = Append(pods, row) /\ changed' = Append(changed, now)
      /\ planRequests' = [planRequests EXCEPT ![r] = n]
      /\ UNCHANGED <<plans, cache, now, signed, served>>
  BY <1>1, <1>4, <1>6 DEF Plans!Go
<1>8. /\ n \in PlanRequest /\ n.pc = "ensure" /\ n.todo = q.todo /\ n.plans = q.plans
      /\ n.kind = q.kind /\ n.code = q.code /\ n.at = q.at /\ n.joined = q.joined
  BY <1>2, <1>6 DEF PlanRequest, PlanStage
<1>9. PlanRequestSound(n)
  BY <1>2, <1>8 DEF PlanRequestSound, Loading
<1>10. /\ pods \in Seq(PodRow) /\ changed \in Seq(Nat) /\ Len(changed) = Len(pods) /\ now \in Nat
       /\ \A p \in DOMAIN changed : changed[p] <= now
  BY DEF PlansInv, PlansTyped
<1>11. /\ pods' \in Seq(PodRow) /\ changed' \in Seq(Nat) /\ Len(changed') = Len(pods')
       /\ \A p \in DOMAIN pods : p \in DOMAIN pods' /\ pods'[p] = pods[p] /\ changed'[p] = changed[p]
       /\ \A p \in DOMAIN pods' : p \in DOMAIN pods \/ changed'[p] = now
       /\ \A p \in DOMAIN changed' : changed'[p] <= now
  BY <1>5, <1>7, <1>10
<1>12. PodsMove
  BY <1>11 DEF PodsMove
<1>13. PlansQuiet => Alone(n)' /\ PlansSigned' /\ (cache' = Plans!NoCache \/ n.joined)
  <2>. SUFFICES ASSUME PlansQuiet PROVE Alone(n)' /\ PlansSigned' /\ (cache' = Plans!NoCache \/ n.joined)
    OBVIOUS
  <2>1. Alone(n)'
    BY <1>2, <1>7, <1>8 DEF Alone, Loading
  <2>2. PlansSigned'
    BY <1>7, <1>11 DEF PlansQuiet, PlansSigned, Plans!hasPodsWithRealMembers
  <2>3. cache' = Plans!NoCache \/ n.joined
    BY <1>2, <1>7, <1>8 DEF Alone
  <2>. QED
    BY <2>1, <2>2, <2>3
<1>14. signed' \in [Codes -> PlanRow]
  BY <1>7 DEF PlansInv, PlansTyped
<1>. QED
  BY <1>7, <1>8, <1>9, <1>11, <1>12, <1>13, <1>14, PodsChanged

\* A row of pods that changes, at the time that it does.
LEMMA RowChanges ==
  ASSUME PlansInv, NEW x, pods' \in Seq(PodRow), Len(pods') = Len(pods),
         \A p \in DOMAIN pods : p # x => pods'[p] = pods[p],
         changed' = [changed EXCEPT ![x] = now], now' = now
  PROVE  /\ changed' \in Seq(Nat) /\ Len(changed') = Len(pods')
         /\ PodsMove /\ \A p \in DOMAIN changed' : changed'[p] <= now
<1>1. /\ pods \in Seq(PodRow) /\ changed \in Seq(Nat) /\ Len(changed) = Len(pods) /\ now \in Nat
      /\ \A p \in DOMAIN changed : changed[p] <= now
  BY DEF PlansInv, PlansTyped
<1>3. DOMAIN pods = DOMAIN changed
  BY <1>1
<1>4. changed' \in Seq(Nat) /\ Len(changed') = Len(changed)
  <2>1. PICK t : t = changed'
    OBVIOUS
  <2>2. t \in [DOMAIN changed -> Nat]
    <3>1. changed \in [DOMAIN changed -> Nat]
      BY <1>1
    <3>. QED
      BY <1>1, <2>1, <3>1
  <2>. QED
    BY <1>1, <2>1, <2>2, RowsChanged
<1>5. \A p \in DOMAIN changed : changed'[p] = IF p = x THEN now ELSE changed[p]
  BY <1>1
<1>6. DOMAIN changed' = DOMAIN changed /\ DOMAIN pods' = DOMAIN pods
  BY <1>1
<1>7. PodsMove
  BY <1>3, <1>5, <1>6 DEF PodsMove
<1>. QED
  BY <1>1, <1>4, <1>5, <1>6, <1>7

LEMMA updatePodLifecycleKeeps ==
  ASSUME PlansInv, NEW r \in Requests, Plans!updatePodLifecycle(r)
  PROVE  KeepsPlans
<1>. USE DEF Plans!updatePodLifecycle
<1>1. PICK q : q = planRequests[r]
  OBVIOUS
<1>2. /\ q \in PlanRequest /\ PlanRequestSound(q) /\ q.pc = "advance" /\ (PlansQuiet => Alone(q))
  BY <1>1, RequestFields
<1>3. PICK n : n = [q EXCEPT !.pc = "ensure"]
  OBVIOUS
<1>. DEFINE Moved(pod) == [pod EXCEPT !.phase = IF @ = "open" THEN "grace" ELSE "locked"]
<1>4. /\ pods' = [pods EXCEPT ![q.pod] = Moved(@)]
      /\ changed' = [changed EXCEPT ![q.pod] = now]
      /\ planRequests' = [planRequests EXCEPT ![r] = n]
      /\ UNCHANGED <<plans, now, signed, served>> /\ cache' = Plans!NoCache
  BY <1>1, <1>3 DEF Plans!Go
<1>5. /\ n \in PlanRequest /\ n.pc = "ensure" /\ n.todo = q.todo /\ n.plans = q.plans
      /\ n.kind = q.kind /\ n.code = q.code /\ n.at = q.at /\ n.joined = q.joined
  BY <1>2, <1>3 DEF PlanRequest, PlanStage
<1>6. PlanRequestSound(n)
  BY <1>2, <1>5 DEF PlanRequestSound, Loading
<1>7. \A p \in DOMAIN pods : /\ Moved(pods[p]) \in PodRow
                             /\ Moved(pods[p]).plan = pods[p].plan /\ Moved(pods[p]).members = pods[p].members
  <2>1. \A p \in DOMAIN pods : pods[p] \in PodRow
    BY DEF PlansInv, PlansTyped
  <2>2. ASSUME NEW pod \in PodRow
        PROVE  Moved(pod) \in PodRow /\ Moved(pod).plan = pod.plan /\ Moved(pod).members = pod.members
    BY DEF PodRow
  <2>. HIDE DEF Moved
  <2>. QED
    BY <2>1, <2>2
<1>. HIDE DEF Moved
<1>8. pods' = [p \in DOMAIN pods |-> IF p = q.pod THEN Moved(pods[p]) ELSE pods[p]]
  BY <1>4
<1>9. /\ pods' \in Seq(PodRow) /\ changed' \in Seq(Nat) /\ Len(changed') = Len(pods')
      /\ PodsMove /\ \A p \in DOMAIN changed' : changed'[p] <= now
  <2>1. PICK t : t = pods'
    OBVIOUS
  <2>2. pods \in Seq(PodRow) /\ \A p \in DOMAIN pods : pods[p] \in PodRow
    BY DEF PlansInv, PlansTyped
  <2>3. t \in [DOMAIN pods -> PodRow]
    BY <1>7, <1>8, <2>1, <2>2
  <2>4. pods' \in Seq(PodRow) /\ Len(pods') = Len(pods)
    BY <2>1, <2>2, <2>3, RowsChanged
  <2>5. \A p \in DOMAIN pods : p # q.pod => pods'[p] = pods[p]
    BY <1>8
  <2>. QED
    BY <1>4, <2>4, <2>5, RowChanges
<1>10. PlansQuiet => Alone(n)' /\ PlansSigned'
  <2>. SUFFICES ASSUME PlansQuiet PROVE Alone(n)' /\ PlansSigned'
    OBVIOUS
  <2>1. Alone(n)'
    BY <1>2, <1>4, <1>5 DEF Alone, Loading
  <2>2. \A p \in DOMAIN pods : p \in DOMAIN pods' /\ pods'[p].plan = pods[p].plan
                                 /\ pods'[p].members = pods[p].members
    BY <1>7, <1>8
  <2>3. PlansSigned'
    BY <1>4, <2>2 DEF PlansQuiet, PlansSigned, Plans!hasPodsWithRealMembers
  <2>. QED
    BY <2>1, <2>3
<1>11. signed' \in [Codes -> PlanRow]
  BY <1>4 DEF PlansInv, PlansTyped
<1>. QED
  BY <1>4, <1>5, <1>6, <1>9, <1>10, <1>11, PodsChanged

LEMMA InsertMembershipKeeps ==
  ASSUME PlansInv, NEW r \in Requests, Plans!InsertMembership(r)
  PROVE  KeepsPlans
<1>. USE DEF Plans!InsertMembership
<1>1. PICK q : q = planRequests[r]
  OBVIOUS
<1>2. /\ q \in PlanRequest /\ PlanRequestSound(q) /\ q.pc = "insert" /\ (PlansQuiet => Alone(q))
  BY <1>1, RequestFields
<1>3. q.kind = "join" /\ q.code \in DOMAIN q.plans /\ q.code \in Codes
  <2>1. q.kind = "join" /\ q.code \in DOMAIN q.plans
    BY <1>2 DEF PlanRequestSound, Loading
  <2>2. PICK S \in SUBSET Codes : q.plans \in [S -> PlanSize]
    BY <1>2 DEF PlanRequest
  <2>. QED
    BY <2>1, <2>2
<1>4. PICK n : n = [q EXCEPT !.pc = "ensure", !.joined = TRUE, !.todo = {q.code}]
  OBVIOUS
<1>. DEFINE Moved(pod) == [pod EXCEPT !.members = @ + 1]
<1>5. /\ pods' = [pods EXCEPT ![q.pod] = Moved(@)]
      /\ changed' = [changed EXCEPT ![q.pod] = now]
      /\ signed' = [signed EXCEPT ![q.code] = IF @ = Plans!NoPlan THEN plans[q.code] ELSE @]
      /\ planRequests' = [planRequests EXCEPT ![r] = n]
      /\ UNCHANGED <<plans, now, cache, served>>
  BY <1>1, <1>4 DEF Plans!Go
<1>6. /\ n \in PlanRequest /\ n.pc = "ensure" /\ n.todo = {q.code} /\ n.plans = q.plans
      /\ n.kind = q.kind /\ n.code = q.code /\ n.at = q.at /\ n.joined = TRUE
  BY <1>2, <1>3, <1>4 DEF PlanRequest, PlanStage
<1>7. PlanRequestSound(n)
  BY <1>2, <1>3, <1>6 DEF PlanRequestSound, Loading
<1>8. \A p \in DOMAIN pods : /\ Moved(pods[p]) \in PodRow /\ Moved(pods[p]).plan = pods[p].plan
                             /\ Moved(pods[p]).members > 0 /\ pods[p].members \in Nat
  <2>1. \A p \in DOMAIN pods : pods[p] \in PodRow
    BY DEF PlansInv, PlansTyped
  <2>2. ASSUME NEW pod \in PodRow
        PROVE  /\ Moved(pod) \in PodRow /\ Moved(pod).plan = pod.plan /\ Moved(pod).members > 0
               /\ pod.members \in Nat
    BY DEF PodRow
  <2>. HIDE DEF Moved
  <2>. QED
    BY <2>1, <2>2
<1>. HIDE DEF Moved
<1>9. pods' = [p \in DOMAIN pods |-> IF p = q.pod THEN Moved(pods[p]) ELSE pods[p]]
  BY <1>5
<1>10. /\ pods' \in Seq(PodRow) /\ changed' \in Seq(Nat) /\ Len(changed') = Len(pods')
       /\ PodsMove /\ \A p \in DOMAIN changed' : changed'[p] <= now
  <2>1. PICK t : t = pods'
    OBVIOUS
  <2>2. pods \in Seq(PodRow) /\ \A p \in DOMAIN pods : pods[p] \in PodRow
    BY DEF PlansInv, PlansTyped
  <2>3. t \in [DOMAIN pods -> PodRow]
    BY <1>8, <1>9, <2>1, <2>2
  <2>4. pods' \in Seq(PodRow) /\ Len(pods') = Len(pods)
    BY <2>1, <2>2, <2>3, RowsChanged
  <2>5. \A p \in DOMAIN pods : p # q.pod => pods'[p] = pods[p]
    BY <1>9
  <2>. QED
    BY <1>5, <2>4, <2>5, RowChanges
<1>11. signed' \in [Codes -> PlanRow]
  <2>1. signed \in [Codes -> PlanRow] /\ plans[q.code] \in PlanRow
    BY <1>3 DEF PlansInv, PlansTyped
  <2>2. signed' \in [Codes -> PlanRow] \/ signed' = [signed EXCEPT ![q.code] = plans[q.code]]
    BY <1>5, <2>1
  <2>. QED
    BY <2>1, <2>2
<1>12. PlansQuiet => Alone(n)' /\ PlansSigned'
  <2>. SUFFICES ASSUME PlansQuiet PROVE Alone(n)' /\ PlansSigned'
    OBVIOUS
  <2>1. plans[q.code].exists /\ q.pod \in DOMAIN pods /\ pods[q.pod].plan = q.code
    BY <1>2, <1>3 DEF Alone, Loading
  <2>2. Alone(n)'
    BY <1>5, <1>6, <2>1 DEF Alone, Loading
  <2>3. \A p \in DOMAIN pods : p \in DOMAIN pods' /\ pods'[p].plan = pods[p].plan
                                 /\ (pods[p].members > 0 => pods'[p].members > 0)
    BY <1>8, <1>9
  <2>4. q.pod \in DOMAIN pods' /\ pods'[q.pod].plan = q.code /\ pods'[q.pod].members > 0
    BY <1>8, <1>9, <2>1
  <2>5. ASSUME NEW c \in Codes, signed'[c] # Plans!NoPlan
        PROVE  plans'[c] = signed'[c] /\ plans'[c].exists /\ Plans!hasPodsWithRealMembers(c)'
    <3>1. signed \in [Codes -> PlanRow]
      BY DEF PlansInv, PlansTyped
    <3>2. CASE signed[c] # Plans!NoPlan
      <4>1. signed'[c] = signed[c]
        BY <1>5, <3>1, <3>2
      <4>. QED
        BY <1>5, <2>3, <3>2, <4>1 DEF PlansQuiet, Plans!hasPodsWithRealMembers
    <3>3. CASE signed[c] = Plans!NoPlan
      <4>1. c = q.code /\ signed'[c] = plans[c]
        BY <1>5, <2>5, <3>1, <3>3
      <4>. QED
        BY <1>5, <2>1, <2>4, <4>1 DEF Plans!hasPodsWithRealMembers
    <3>. QED
      BY <3>2, <3>3
  <2>6. PlansSigned'
    BY <2>5 DEF PlansSigned
  <2>. QED
    BY <2>2, <2>6
<1>. QED
  BY <1>5, <1>6, <1>7, <1>10, <1>11, <1>12, PodsChanged

LEMMA loadOpenPodsKeeps ==
  ASSUME PlansInv, NEW r \in Requests, Plans!loadOpenPods(r)
  PROVE  KeepsPlans
<1>. USE DEF Plans!loadOpenPods, Plans!Ensured, Plans!rows
<1>1. PICK q : q = planRequests[r]
  OBVIOUS
<1>2. /\ q \in PlanRequest /\ PlanRequestSound(q) /\ q.pc = "ensure" /\ q.kind \in {"open", "plan"}
      /\ q.at \in Nat /\ now \in Nat
  BY <1>1, RequestFields
<1>3. ~q.joined /\ q.at <= now
  BY <1>2 DEF PlanRequestSound
<1>4. UNCHANGED <<plans, pods, now, signed, changed>>
  OBVIOUS
<1>5. pods \in Seq(PodRow) /\ changed \in Seq(Nat) /\ Ttl \in Nat
  BY PlansAssumption DEF PlansInv, PlansTyped
<1>6. CASE q.kind = "plan" /\ Plans!Fresh(q)
  <2>1. /\ planRequests' = [planRequests EXCEPT ![r] = Plans!Idle]
        /\ UNCHANGED cache /\ served' = [at |-> q.at, pods |-> cache.pods]
    BY <1>1, <1>6 DEF Plans!Serve, Plans!End, Plans!Go
  <2>2. PlanRequestSound(Plans!Idle)' /\ Alone(Plans!Idle)'
    BY <1>2, <1>4, IdlePlanRequest DEF PlanRequestSound, Alone, Loading
  <2>3. AsOf(served.at - Ttl, served.pods)'
    <3>1. q.at - Ttl <= cache.at /\ cache.at \in Int /\ served'.at = q.at /\ served'.pods = cache.pods
      BY <1>2, <1>5, <1>6, <2>1 DEF Plans!Fresh, PlansInv, PlansTyped
    <3>2. \A p \in DOMAIN pods : changed[p] \in Nat
      BY DEF PlansInv, PlansTyped
    <3>3. AsOf(cache.at, cache.pods)
      BY DEF PlansInv
    <3>. QED
      BY <1>2, <1>4, <1>5, <3>1, <3>2, <3>3 DEF AsOf, Plans!IsOpen
  <2>4. PlansInv'
    <3>1. served'.at \in Int /\ served'.at <= now
      BY <1>2, <1>3, <2>1
    <3>. QED
      BY <1>4, <2>1, <2>2, <2>3, <3>1, IdlePlanRequest, PlansMove DEF PlansInv, PlansTyped, PodsMove
  <2>5. ASSUME PlansQuiet, ~Several(PlansBusy)' PROVE PlansQuiet'
    <3>1. PlansSigned'
      BY <1>4, <2>5 DEF PlansQuiet, PlansSigned, Plans!hasPodsWithRealMembers
    <3>2. cache' = Plans!NoCache \/ cache'.pods = Plans!OpenRows'
      <4>1. \A s \in Requests \ {r} : ~planRequests[s].joined
        BY <1>1, <1>2, <2>1, <2>5, OthersIdle, IdlePlanRequest DEF PlansQuiet, PlansInv
      <4>2. cache = Plans!NoCache \/ cache.pods = Plans!OpenRows
        BY <1>1, <1>3, <2>5, <4>1 DEF PlansQuiet
      <4>3. Plans!OpenRows' = Plans!OpenRows
        BY <1>4 DEF Plans!OpenRows, Plans!OpenPods, Plans!IsOpen
      <4>. QED
        BY <2>1, <4>2, <4>3
    <3>. QED
      BY <1>1, <1>2, <2>1, <2>2, <2>5, <3>1, <3>2, PlansStayQuiet DEF PlansInv, PlansQuiet
  <2>. QED
    BY <2>4, <2>5 DEF KeepsPlans
<1>7. CASE ~(q.kind = "plan" /\ Plans!Fresh(q))
  <2>1. PICK n : n = [q EXCEPT !.pc = "fill", !.pods = Plans!OpenRows]
    OBVIOUS
  <2>2. /\ planRequests' = [planRequests EXCEPT ![r] = n] /\ served' = served
        /\ cache' = cache \/ cache' = Plans!NoCache
    BY <1>1, <1>7, <2>1 DEF Plans!Go
  <2>3. Plans!OpenRows \in PodList /\ AsOf(q.at, Plans!OpenRows)
    BY <1>5, OpenRowsRead
  <2>4. /\ n \in PlanRequest /\ n.pc = "fill" /\ n.pods = Plans!OpenRows /\ n.at = q.at
        /\ n.joined = q.joined
    BY <1>2, <2>1, <2>3 DEF PlanRequest, PlanStage
  <2>5. PlanRequestSound(n) /\ Alone(n)
    BY <1>2, <1>3, <2>3, <2>4 DEF PlanRequestSound, Alone, Loading
  <2>6. CASE cache' = cache
    BY <1>1, <1>2, <1>3, <1>4, <2>2, <2>4, <2>5, <2>6, RequestMoves
  <2>7. CASE cache' = Plans!NoCache
    <3>1. Alone(n)'
      BY <1>4, <2>4 DEF Alone, Loading, Plans!OpenRows, Plans!OpenPods, Plans!IsOpen
    <3>. QED
      BY <1>1, <1>2, <1>4, <2>2, <2>4, <2>5, <2>7, <3>1, ListDropped
  <2>. QED
    BY <2>2, <2>6, <2>7
<1>. QED
  BY <1>6, <1>7

LEMMA FillCacheKeeps ==
  ASSUME PlansInv, NEW r \in Requests, Plans!FillCache(r)
  PROVE  KeepsPlans
<1>. USE DEF Plans!FillCache, Plans!rows
<1>1. PICK q : q = planRequests[r]
  OBVIOUS
<1>2. /\ q \in PlanRequest /\ PlanRequestSound(q) /\ q.pc = "fill" /\ (PlansQuiet => Alone(q))
      /\ q.at \in Nat /\ now \in Nat
  BY <1>1, RequestFields
<1>3. q.at <= now /\ AsOf(q.at, q.pods)
  BY <1>2 DEF PlanRequestSound
<1>4. /\ UNCHANGED <<plans, pods, now, signed, changed>>
      /\ planRequests' = [planRequests EXCEPT ![r] = Plans!Idle]
      /\ cache'.at = q.at /\ cache'.pods = q.pods /\ served'.at = q.at /\ served'.pods = q.pods
  BY <1>1 DEF Plans!Serve, Plans!End, Plans!Go
<1>5. PlanRequestSound(Plans!Idle)' /\ Alone(Plans!Idle)'
  BY <1>2, <1>4, IdlePlanRequest DEF PlanRequestSound, Alone, Loading
<1>6. AsOf(q.at, q.pods)'
  BY <1>3, <1>4 DEF AsOf, Plans!IsOpen
<1>7. AsOf(cache.at, cache.pods)'
  BY <1>4, <1>6 DEF AsOf
<1>8. AsOf(served.at - Ttl, served.pods)'
  <2>1. Ttl \in Nat /\ q.at - Ttl <= q.at /\ q.at - Ttl \in Int
    BY <1>2, PlansAssumption
  <2>2. \A p \in DOMAIN pods' : changed'[p] \in Nat
    BY <1>4 DEF PlansInv, PlansTyped
  <2>. QED
    BY <1>2, <1>4, <1>6, <2>1, <2>2 DEF AsOf
<1>9. PlansInv'
  <2>1. /\ cache'.at \in Int /\ cache'.at <= now /\ served'.at \in Int /\ served'.at <= now
    BY <1>2, <1>3, <1>4
  <2>. QED
    BY <1>4, <1>5, <1>7, <1>8, <2>1, IdlePlanRequest, PlansMove DEF PlansInv, PlansTyped, PodsMove
<1>10. ASSUME PlansQuiet, ~Several(PlansBusy)' PROVE PlansQuiet'
  <2>1. PlansSigned'
    BY <1>4, <1>10 DEF PlansQuiet, PlansSigned, Plans!hasPodsWithRealMembers
  <2>2. cache'.pods = Plans!OpenRows'
    <3>1. q.pods = Plans!OpenRows
      BY <1>2, <1>10 DEF Alone
    <3>. QED
      BY <1>4, <3>1 DEF Plans!OpenRows, Plans!OpenPods, Plans!IsOpen
  <2>. QED
    BY <1>1, <1>2, <1>4, <1>5, <1>10, <2>1, <2>2, PlansStayQuiet DEF PlansInv, PlansQuiet
<1>. QED
  BY <1>9, <1>10 DEF KeepsPlans

\* Only the quiet invariant minds that an award or activity fails.
LEMMA FailJoinKeeps ==
  ASSUME PlansInv, NEW r \in Requests, Plans!FailJoin(r)
  PROVE  PlansInv'
<1>1. /\ planRequests' = [planRequests EXCEPT ![r] = Plans!Idle]
      /\ UNCHANGED <<plans, pods, cache, now, signed, changed, served>>
  BY DEF Plans!FailJoin, Plans!End, Plans!Go, Plans!rows, Plans!history
<1>2. PlanRequestSound(Plans!Idle)'
  BY <1>1, IdlePlanRequest DEF PlanRequestSound, Loading, PlansInv, PlansTyped
<1>. QED
  BY <1>1, <1>2, IdlePlanRequest, PlansMove DEF PlansInv, PlansTyped, PodsMove

LEMMA CommitPlanKeeps ==
  ASSUME PlansInv, NEW r \in Requests, Plans!CommitPlan(r)
  PROVE  KeepsPlans
<1>. USE DEF Plans!CommitPlan, Plans!history
<1>1. PICK q : q = planRequests[r]
  OBVIOUS
<1>2. /\ q \in PlanRequest /\ PlanRequestSound(q) /\ q.pc = "commit" /\ (PlansQuiet => Alone(q))
  BY <1>1, RequestFields
<1>3. q.code \in Codes /\ q.plan \in PlanRow /\ ~q.joined
  BY <1>2 DEF PlanRequest, PlanRequestSound
<1>4. /\ planRequests' = [planRequests EXCEPT ![r] = Plans!Idle]
      /\ plans' = plans \/ plans' = [plans EXCEPT ![q.code] = q.plan]
      /\ UNCHANGED <<pods, cache, now, signed, changed, served>>
  BY <1>1 DEF Plans!End, Plans!Go
<1>5. plans' \in [Codes -> PlanRow] /\ \A c \in Codes \ {q.code} : plans'[c] = plans[c]
  BY <1>3, <1>4 DEF PlansInv, PlansTyped
<1>6. PlanRequestSound(Plans!Idle)' /\ Alone(Plans!Idle)'
  BY <1>4, IdlePlanRequest DEF PlanRequestSound, Alone, Loading, PlansInv, PlansTyped
<1>7. PlansInv'
  BY <1>4, <1>5, <1>6, IdlePlanRequest, PlansMove DEF PlansInv, PlansTyped, PodsMove
<1>8. ASSUME PlansQuiet, ~Several(PlansBusy)' PROVE PlansQuiet'
  <2>1. PlansSigned'
    <3>1. signed[q.code] = Plans!NoPlan
      BY <1>2, <1>8 DEF Alone
    <3>. QED
      BY <1>4, <1>5, <1>8, <3>1 DEF PlansQuiet, PlansSigned, Plans!hasPodsWithRealMembers
  <2>2. cache' = Plans!NoCache \/ cache'.pods = Plans!OpenRows'
    <3>1. \A s \in Requests : ~planRequests[s].joined
      BY <1>1, <1>2, <1>3, <1>4, <1>8, OthersIdle, IdlePlanRequest DEF PlansQuiet, PlansInv
    <3>. QED
      BY <1>4, <1>8, <3>1 DEF PlansQuiet, Plans!OpenRows, Plans!OpenPods, Plans!IsOpen
  <2>. QED
    BY <1>1, <1>2, <1>4, <1>6, <1>8, <2>1, <2>2, PlansStayQuiet DEF PlansInv, PlansQuiet
<1>. QED
  BY <1>7, <1>8 DEF KeepsPlans

LEMMA CreatePlanKeeps ==
  ASSUME PlansInv, NEW c \in Codes, NEW plan \in PlanRow, plan.exists, Plans!CreatePlan(c, plan)
  PROVE  PlansInv' /\ (PlansQuiet => PlansQuiet')
<1>1. /\ ~plans[c].exists /\ plans' = [plans EXCEPT ![c] = plan]
      /\ UNCHANGED <<pods, cache, now, planRequests, signed, changed, served>>
  BY DEF Plans!CreatePlan, Plans!history
<1>2. /\ plans' \in [Codes -> PlanRow]
      /\ \A d \in Codes : plans[d].exists => plans'[d] = plans[d] /\ plans'[d].exists
  BY <1>1 DEF PlansInv, PlansTyped
<1>3. PlansInv'
  BY <1>1, <1>2 DEF PlansInv, PlansTyped, PlanRequestSound, AsOf, Loading, Plans!IsOpen,
     Plans!ListsCatchUp
<1>4. ASSUME PlansQuiet PROVE PlansQuiet'
  <2>1. ASSUME NEW s \in Requests PROVE Alone(planRequests[s])'
    <3>1. Alone(planRequests[s])
      BY <1>4 DEF PlansQuiet
    <3>2. Loading(planRequests[s]) /\ planRequests[s].kind = "join" => planRequests[s].code \in Codes
      <4>1. PICK q : q = planRequests[s]
        OBVIOUS
      <4>2. q \in PlanRequest /\ PlanRequestSound(q)
        BY <4>1, RequestFields
      <4>3. PICK S \in SUBSET Codes : q.plans \in [S -> PlanSize]
        BY <4>2 DEF PlanRequest
      <4>4. Loading(q) /\ q.kind = "join" => q.code \in Codes
        BY <4>2, <4>3 DEF PlanRequestSound
      <4>. QED
        BY <4>1, <4>4
    <3>. QED
      BY <1>1, <1>2, <3>1, <3>2 DEF Alone, Loading, Plans!OpenRows, Plans!OpenPods, Plans!IsOpen
  <2>2. PlansSigned'
    BY <1>1, <1>2, <1>4 DEF PlansQuiet, PlansSigned, Plans!hasPodsWithRealMembers
  <2>3. ~Several(PlansBusy)'
    BY <1>1, <1>4 DEF PlansQuiet, Several, PlansBusy
  <2>. QED
    BY <1>1, <1>4, <2>1, <2>2, <2>3 DEF PlansQuiet, PlansSigned, Plans!OpenRows, Plans!OpenPods,
       Plans!IsOpen
<1>. QED
  BY <1>3, <1>4

LEMMA TimeKeepsPlans ==
  ASSUME PlansInv, Plans!Tick
  PROVE  PlansInv' /\ (PlansQuiet => PlansQuiet')
<1>1. /\ now' = now + 1 /\ UNCHANGED <<plans, pods, cache, planRequests, signed, changed, served>>
  BY DEF Plans!Tick, Plans!rows, Plans!history
<1>2. PlansTyped'
  <2>1. now \in Nat /\ now' \in Nat /\ now <= now' /\ \A p \in DOMAIN changed : changed[p] \in Nat
    BY <1>1 DEF PlansInv, PlansTyped
  <2>. QED
    BY <1>1, <2>1 DEF PlansInv, PlansTyped
<1>3. ASSUME NEW s \in Requests PROVE PlanRequestSound(planRequests[s])'
  <2>1. PICK q : q = planRequests[s]
    OBVIOUS
  <2>2. q.at \in Nat /\ PlanRequestSound(q) /\ now \in Nat
    BY <2>1, RequestFields
  <2>3. q.at <= now'
    BY <1>1, <2>2 DEF PlanRequestSound
  <2>4. PlanRequestSound(q)'
    BY <1>1, <2>2, <2>3 DEF PlanRequestSound, AsOf, Loading, Plans!IsOpen
  <2>. QED
    BY <1>1, <2>1, <2>4 DEF PlanRequestSound, AsOf, Loading
<1>4. PlansInv'
  BY <1>1, <1>2, <1>3 DEF PlansInv, AsOf, Plans!IsOpen, Plans!ListsCatchUp
<1>5. PlansQuiet => PlansQuiet'
  BY <1>1 DEF PlansQuiet, Several, PlansBusy, Alone, Loading, Plans!OpenRows, Plans!OpenPods,
     Plans!IsOpen, Plans!hasPodsWithRealMembers
<1>. QED
  BY <1>4, <1>5

LEMMA CrashKeepsPlans ==
  ASSUME PlansInv, Plans!Crash
  PROVE  PlansInv' /\ (PlansQuiet => PlansQuiet')
<1>1. /\ planRequests' = [r \in Requests |-> Plans!Idle] /\ cache' = Plans!NoCache
      /\ UNCHANGED <<plans, pods, now, signed, changed, served>>
  BY DEF Plans!Crash, Plans!rows, Plans!history
<1>2. PlanRequestSound(Plans!Idle)' /\ Alone(Plans!Idle)'
  BY <1>1, IdlePlanRequest DEF PlanRequestSound, Alone, Loading, PlansInv, PlansTyped
<1>3. PlansInv'
  <2>1. PlansTyped
    BY DEF PlansInv
  <2>2. cache'.at \in Int /\ cache'.at <= now /\ AsOf(cache'.at, cache'.pods)
    BY <1>1, <2>1, NoCacheIsOld
  <2>3. PlansTyped'
    <3>1. planRequests' \in [Requests -> PlanRequest]
      BY <1>1, IdlePlanRequest
    <3>. QED
      BY <1>1, <2>1, <2>2, <3>1 DEF PlansTyped
  <2>4. AsOf(cache.at, cache.pods)'
    BY <1>1, <2>2 DEF AsOf, Plans!IsOpen
  <2>5. \A s \in Requests : PlanRequestSound(planRequests[s])'
    BY <1>1, <1>2 DEF PlanRequestSound, AsOf, Loading
  <2>6. Plans!ListsCatchUp'
    BY <1>1 DEF PlansInv, Plans!ListsCatchUp, Plans!IsOpen
  <2>. QED
    BY <2>3, <2>4, <2>5, <2>6 DEF PlansInv
<1>4. ASSUME PlansQuiet PROVE PlansQuiet'
  <2>1. \A s \in Requests : Alone(planRequests[s])'
    BY <1>1, <1>2 DEF Alone, Loading
  <2>2. ~Several(PlansBusy)'
    BY <1>1 DEF Several, PlansBusy
  <2>. QED
    BY <1>1, <1>4, <2>1, <2>2 DEF PlansQuiet, Plans!hasPodsWithRealMembers
<1>. QED
  BY <1>3, <1>4

LEMMA PlansBegin == PlansInit => PlansInv /\ PlansQuiet
<1>. SUFFICES ASSUME Plans!Init PROVE PlansInv /\ PlansQuiet
  BY DEF PlansInit
<1>1. /\ plans = [c \in Codes |-> Plans!NoPlan] /\ pods = <<>> /\ cache = Plans!NoCache /\ now = 0
      /\ planRequests = [r \in Requests |-> Plans!Idle]
      /\ signed = [c \in Codes |-> Plans!NoPlan] /\ changed = <<>> /\ served = Plans!NoCache
  BY DEF Plans!Init
<1>2. Plans!NoCache.at = 0 - 1
  BY DEF Plans!NoCache
<1>3. PlansTyped
  BY <1>1, <1>2, IdlePlanRequest, PlanRowsType DEF PlansTyped
<1>4. \A r \in Requests : PlanRequestSound(planRequests[r])
  BY <1>1, IdlePlanRequestSound DEF PlanRequestSound, AsOf, Loading
<1>5. PlansInv
  BY <1>1, <1>3, <1>4 DEF PlansInv, AsOf, Plans!ListsCatchUp
<1>6. PlansQuiet
  BY <1>1, IdlePlanRequest DEF PlansQuiet, Several, PlansBusy, Alone, Loading
<1>. QED
  BY <1>5, <1>6

LEMMA PlansStepsKeep ==
  ASSUME PlansInv, Plans!Next
  PROVE  PlansInv' /\ (PlansQuiet /\ ~Several(PlansBusy)' /\ ~JoinFailed => PlansQuiet')
<1>. USE DEF KeepsPlans
<1>1. ASSUME NEW r \in Requests, Plans!Request(r) PROVE KeepsPlans
  <2>1. CASE Plans!RefreshPods(r)
    BY <2>1, ArriveKeeps DEF Plans!RefreshPods, NoCode
  <2>2. CASE Plans!ListOpenPods(r)
    BY <2>2, ArriveKeeps DEF Plans!ListOpenPods, NoCode
  <2>3. CASE Plans!ListPodPlans(r)
    BY <2>3, ArriveKeeps DEF Plans!ListPodPlans, NoCode
  <2>4. ASSUME NEW c \in Codes, Plans!ListOpenPodsForPlan(r, c) PROVE KeepsPlans
    BY <2>4, ArriveKeeps DEF Plans!ListOpenPodsForPlan
  <2>5. ASSUME NEW c \in Codes, Plans!JoinPod(r, c) PROVE KeepsPlans
    BY <2>5, ArriveKeeps DEF Plans!JoinPod
  <2>6. ASSUME NEW c \in Codes, Plans!DeletePlan(r, c) PROVE KeepsPlans
    BY <2>6, PlanRowsType, ChangePlanKeeps DEF Plans!DeletePlan
  <2>7. ASSUME NEW c \in Codes, NEW plan \in Plans!Offers, Plans!UpdatePlan(r, c, plan)
        PROVE  KeepsPlans
    <3>1. plan \in PlanRow
      BY PlanRowsType DEF Plans!Offers
    <3>. QED
      BY <2>7, <3>1, ChangePlanKeeps DEF Plans!UpdatePlan
  <2>. QED
    BY <1>1, <2>1, <2>2, <2>3, <2>4, <2>5, <2>6, <2>7 DEF Plans!Request
<1>2. ASSUME NEW r \in Requests, Plans!Step(r) PROVE KeepsPlans
  <2>1. CASE Plans!seedPlansIfEmpty(r) \/ Plans!getActivePlans(r) \/ Plans!getPlanOrFail(r)
    BY <2>1, seedPlansIfEmptyKeeps, getActivePlansKeeps, getPlanOrFailKeeps
  <2>2. CASE Plans!ensurePlanLifecycle(r) \/ Plans!createOpenPod(r) \/ Plans!updatePodLifecycle(r)
    BY <2>2, ensurePlanLifecycleKeeps, createOpenPodKeeps, updatePodLifecycleKeeps
  <2>3. CASE Plans!EndRefresh(r) \/ Plans!EndJoin(r) \/ Plans!LocatePod(r)
    BY <2>3, EndRefreshKeeps, LocatePodKeeps
  <2>4. CASE Plans!loadOpenPods(r) \/ Plans!FillCache(r)
    BY <2>4, loadOpenPodsKeeps, FillCacheKeeps
  <2>5. CASE Plans!InsertMembership(r) \/ Plans!CommitPlan(r)
    BY <2>5, InsertMembershipKeeps, CommitPlanKeeps
  <2>. QED
    BY <1>2, <2>1, <2>2, <2>3, <2>4, <2>5 DEF Plans!Step
<1>3. CASE Plans!Failure
  <2>1. PlansInv'
    BY <1>3, FailJoinKeeps DEF Plans!Failure
  <2>2. CASE \E r \in Requests : Plans!EndJoin(r)
    BY <2>2, EndRefreshKeeps
  <2>3. CASE JoinFailed
    BY <2>1, <2>3
  <2>. QED
    BY <1>3, <2>2, <2>3 DEF JoinFailed
<1>4. CASE Plans!Event
  <2>1. ASSUME NEW c \in Codes, NEW plan \in Plans!Offers, Plans!CreatePlan(c, plan)
        PROVE  PlansInv' /\ (PlansQuiet => PlansQuiet')
    <3>1. plan \in PlanRow /\ plan.exists
      BY PlanRowsType DEF Plans!Offers
    <3>. QED
      BY <2>1, <3>1, CreatePlanKeeps
  <2>. QED
    BY <1>4, <2>1, CrashKeepsPlans DEF Plans!Event
<1>5. CASE Plans!Tick
  BY <1>5, TimeKeepsPlans
<1>. QED
  BY <1>1, <1>2, <1>3, <1>4, <1>5 DEF Plans!Next

\* A list of open pods misses no change that is older than the time to live of
\* the cache, whatever requests overlap, fail or refill the cache with what they
\* read before it was dropped.  And while requests come one at a time and no award
\* or activity fails, a plan with members stays as they found it, and what is
\* cached is what is open (loadOpenPods, openPodsCache, updatePlan).
THEOREM PlansKeepTheirPromises == PlansSpec => []PlansHold
<1>. DEFINE Inv == PlansInv /\ (disturbed \/ PlansQuiet)
<1>1. PlansInit => Inv
  BY PlansBegin
<1>2. Inv /\ [PlansNext]_<<planVars, disturbed>> => Inv'
  <2>1. ASSUME Inv, PlansNext PROVE Inv'
    BY <2>1, PlansStepsKeep DEF PlansNext, Several, PlansBusy
  <2>2. ASSUME Inv, UNCHANGED <<planVars, disturbed>> PROVE Inv'
    <3>1. UNCHANGED <<plans, pods, cache, now, planRequests, signed, changed, served, disturbed>>
      BY <2>2 DEF planVars
    <3>2. PlansInv'
      BY <2>2, <3>1 DEF PlansInv, PlansTyped, PlanRequestSound, AsOf, Loading, Plans!IsOpen,
         Plans!ListsCatchUp
    <3>3. PlansQuiet => PlansQuiet'
      BY <3>1 DEF PlansQuiet, Several, PlansBusy, Alone, Loading, Plans!OpenRows, Plans!OpenPods,
         Plans!IsOpen, Plans!hasPodsWithRealMembers
    <3>. QED
      BY <2>2, <3>1, <3>2, <3>3
  <2>. QED
    BY <2>1, <2>2
<1>3. Inv => PlansHold
  <2>1. PlansInv => Plans!ListsCatchUp
    BY DEF PlansInv
  <2>2. PlansQuiet => Plans!PlansOfMembersKept
    BY DEF PlansQuiet, Plans!PlansOfMembersKept
  <2>3. PlansInv /\ PlansQuiet => Plans!CacheIsCurrent
    <3>1. ASSUME PlansInv, NEW r \in Requests, planRequests[r].joined
          PROVE  planRequests[r] # Plans!Idle
      BY <3>1, IdlePlanRequest
    <3>. QED
      BY <3>1 DEF PlansQuiet, Plans!CacheIsCurrent
  <2>. QED
    BY <2>1, <2>2, <2>3 DEF PlansHold
<1>. QED
  BY <1>1, <1>2, <1>3, PTL DEF PlansSpec

-----------------------------------------------------------------------------
(***************************************************************************)
(* Achievements: what memberships, invites, awards and requests look like. *)
(***************************************************************************)
Seat == [first : BOOLEAN, group : Groups, custom : BOOLEAN, paidOut : BOOLEAN, over : BOOLEAN,
         paid : 0..Expected, late : BOOLEAN]

Invitation == [total : Nat, accepted : Nat]

AwardStage == {"idle", "joined", "completed", "accepted", "paid", "award", "insert", "count"}

AwardRequest ==
  [pc : AwardStage, who : Accounts \cup {NoCode}, pod : Nat, todo : Seq(Prizes!AchievementCode)]

AwardsTyped ==
  /\ memberships \in [Accounts -> Seq(Seat)]
  /\ invites \in [Accounts -> Seq(Invitation)]
  /\ months \in [Accounts -> SUBSET Nat] /\ month \in Nat
  /\ awards \subseteq (Accounts \cup Others) \X Prizes!AchievementCode /\ IsFiniteSet(awards)
  /\ awardRequests \in [Requests -> AwardRequest]

\* When an achievement is complete, in terms of the rows.
Reached(a, code) ==
  LET seats == memberships[a]
      sent == invites[a]
  IN  /\ code = "POD_STARTER" => Len(seats) >= 1
      /\ code = "COMMITMENT_CHAMP" => Len(seats) >= CommitmentPods
      /\ code = "EARLY_BIRD" => \E i \in DOMAIN seats : seats[i].first
      /\ code \in {"FINANCIALLY_FIT", "KOAJO_OG", "FIRST_PAYOUT"} =>
           \E i \in DOMAIN seats : seats[i].paidOut
      /\ code = "POD_VETERAN" => Prizes!completedPods(a) > VeteranPods
      /\ code = "KOAJO_CONNECTOR" => \E p \in DOMAIN sent : sent[p].accepted > 0
      /\ code = "REFERRAL_MASTER" => \E p \in DOMAIN sent : sent[p].accepted >= Referrals
      /\ code = "POD_LEADER" => \E p \in DOMAIN sent : sent[p].accepted = sent[p].total
      /\ code = "TEAM_PLAYER" => \E g \in Groups : Prizes!CompletedWith(a, g) >= TeamPods
      /\ code = "SAVINGS_SPRINTER" =>
           \E i \in DOMAIN seats : seats[i].paidOut /\ Prizes!completedWithoutMissingContributions(seats[i])
      /\ code = "ON_TIME_HERO" =>
           \E i \in DOMAIN seats : seats[i].paidOut /\ Prizes!completedOnTime(seats[i])
      /\ code = "WEALTH_BUILDER" => Prizes!sumSuccessfulContributions(a) >= Savings[1]
      /\ code = "SAVINGS_CHAMPION" => Prizes!sumSuccessfulContributions(a) >= Savings[2]
      /\ code = "SIX_FIGURES_ROCKSTAR" => Prizes!sumSuccessfulContributions(a) >= Savings[3]
      /\ code = "PERFECT_STREAK" => Prizes!computeLongestMonthlyStreak(a) >= StreakMonths

\* The pod whose payout has earned what a request awards.
HasPaidOut(q) == q.pod \in DOMAIN memberships[q.who] /\ memberships[q.who][q.pod].paidOut

\* What a request may award, or may find that it need not.
Due(q) ==
  {code \in Prizes!AchievementCode :
     \/ code \in Prizes!Completed(q.who)
     \/ code = "TEAM_PLAYER"
     \/ code \in {"SAVINGS_SPRINTER", "ON_TIME_HERO"} /\ HasPaidOut(q)}

AwardRequestSound(q) ==
  /\ q.pc = "idle" => q = Prizes!Idle
  /\ q.pc # "idle" => q.who \in Accounts
  /\ q.pc = "joined" => q.pod \in DOMAIN memberships[q.who]
  /\ q.pc = "accepted" => q.pod \in DOMAIN invites[q.who]
  /\ q.pc \in {"insert", "count"} => q.todo # <<>>
  /\ q.pc = "count" => Head(q.todo) = "FINANCIALLY_FIT"
  /\ q.who \in Accounts \ marked =>
       /\ q.pc = "completed" => HasPaidOut(q)
       /\ q.pc \in {"award", "insert", "count"} => q.todo \in Seq(Due(q))
       /\ q.pc = "insert" => Head(q.todo) \in Prizes!Completed(q.who)

AwardsInv ==
  /\ AwardsTyped
  /\ \A r \in Requests : AwardRequestSound(awardRequests[r])
  /\ Prizes!AwardedMeansComplete

JoinCodes == {"POD_STARTER", "COMMITMENT_CHAMP", "EARLY_BIRD"}
PayoutCodes == {"FINANCIALLY_FIT", "POD_VETERAN", "FIRST_PAYOUT"}
InviteCodes == {"KOAJO_CONNECTOR", "REFERRAL_MASTER", "POD_LEADER"}
SavingCodes == {"WEALTH_BUILDER", "SAVINGS_CHAMPION", "SIX_FIGURES_ROCKSTAR", "PERFECT_STREAK"}

\* What should have been awarded and is not, and what a request has still to award.
Missing(a, code) ==
  code \in Prizes!Completed(a) /\ code \in Prizes!Lasting(a) /\ <<a, code>> \notin awards

Has(s, x) == \E i \in DOMAIN s : s[i] = x

AheadOf(q, code) ==
  LET seats == memberships[q.who]
      sent == invites[q.who][q.pod]
  IN  \/ /\ q.pc = "joined" /\ code \in JoinCodes
         /\ code = "POD_STARTER" => Len(seats) = 1
         /\ code = "EARLY_BIRD" => seats[q.pod].first
      \/ /\ q.pc = "completed" /\ code \in PayoutCodes
         /\ code = "FIRST_PAYOUT" => Prizes!completedPods(q.who) = 1
      \/ /\ q.pc = "accepted" /\ code \in InviteCodes
         /\ code = "KOAJO_CONNECTOR" => sent.accepted > 0
         /\ code = "REFERRAL_MASTER" => sent.accepted >= Referrals
         /\ code = "POD_LEADER" => sent.accepted = sent.total
      \/ q.pc = "paid" /\ code \in SavingCodes
      \/ q.pc \in {"award", "insert", "count"} /\ Has(q.todo, code)

NothingMissed ==
  \A a \in Accounts \ marked : \A code \in Prizes!AchievementCode :
    Missing(a, code) =>
      \E r \in Requests : awardRequests[r].who = a /\ AheadOf(awardRequests[r], code)

OgAwards == {w \in awards : w[2] = "KOAJO_OG"}

\* KOAJO_OG comes next or not at all, and there is a place for it.
OgInOrder(q) ==
  /\ q.pc = "count" => <<q.who, "FINANCIALLY_FIT">> \in awards
  /\ \A i \in DOMAIN q.todo :
       q.todo[i] = "KOAJO_OG" => i = 1 /\ Cardinality(OgAwards) < OgLimit

AwardsQuiet ==
  /\ ~Several(AwardsBusy)
  /\ NothingMissed
  /\ \A r \in Requests : OgInOrder(awardRequests[r])
  /\ Cardinality(OgAwards) <= OgLimit

-----------------------------------------------------------------------------
LEMMA IdleAwardRequest ==
  /\ Prizes!Idle \in AwardRequest /\ Prizes!Idle.pc = "idle" /\ Prizes!Idle.who = NoCode
  /\ Prizes!Idle.todo = <<>>
BY DEF Prizes!Idle, AwardRequest, AwardStage, NoCode

LEMMA NobodysAccount == NoCode \notin Accounts
BY AccountsAssumption DEF NoCode

\* Functions of an instance are those of the library.
LEMMA SameCount == ASSUME NEW S PROVE Prizes!Cardinality(S) = Cardinality(S)
BY DEF Prizes!Cardinality, Cardinality

\* The smallest of natural numbers, as a fact about sets.
LEMMA SmallestReached ==
  ASSUME NEW T, T \subseteq Nat, T # {}
  PROVE  \E t \in T : \A u \in T : t <= u
<1>. DEFINE R == {ss \in Nat \X Nat : ss[1] < ss[2]}
<1>1. IsWellFoundedOn(R, Nat)
  BY NatLessThanWellFounded DEF OpToRel
<1>2. \A i, j \in Nat : <<j, i>> \in R <=> j < i
  OBVIOUS
<1>. HIDE DEF R
<1>3. PICK i \in T : \A j \in T : ~(<<j, i>> \in R)
  BY <1>1, WFMin
<1>4. \A u \in T : i \in Nat /\ u \in Nat /\ ~(u < i)
  BY <1>2, <1>3
<1>. QED
  BY <1>4

\* The greatest of numbers that do not grow beyond a bound.
LEMMA GreatestReached ==
  ASSUME NEW S, S \subseteq Nat, S # {}, NEW b \in Nat, \A x \in S : x <= b
  PROVE  /\ Prizes!Max(S) \in S
         /\ \A n \in Nat : Prizes!Max(S) >= n <=> \E x \in S : x >= n
<1>1. PICK T : T = {b - x : x \in S}
  OBVIOUS
<1>2. T \subseteq Nat /\ T # {}
  <2>1. \A x \in S : b - x \in Nat
    OBVIOUS
  <2>. QED
    BY <1>1, <2>1
<1>3. PICK t \in T : \A u \in T : t <= u
  BY <1>2, SmallestReached
<1>4. PICK m \in S : t = b - m
  BY <1>1, <1>3
<1>5. \A y \in S : m >= y
  BY <1>1, <1>3, <1>4
<1>6. Prizes!Max(S) \in S /\ \A y \in S : Prizes!Max(S) >= y
  BY <1>4, <1>5 DEF Prizes!Max
<1>7. ASSUME NEW n \in Nat PROVE Prizes!Max(S) >= n <=> \E x \in S : x >= n
  <2>1. Prizes!Max(S) \in Nat
    BY <1>6
  <2>. QED
    BY <1>6, <2>1
<1>. QED
  BY <1>6, <1>7

LEMMA CountUpTo == ASSUME NEW n \in Nat PROVE IsFiniteSet(1..n) /\ Cardinality(1..n) = n
BY FS_Interval

\* Seats and invites that are counted.
LEMMA CountedSets ==
  ASSUME NEW S, NEW s \in Seq(S), NEW T, T \subseteq DOMAIN s
  PROVE  /\ IsFiniteSet(T) /\ Cardinality(T) \in Nat /\ Cardinality(T) <= Len(s)
         /\ Cardinality(T) >= 1 <=> T # {}
<1>1. DOMAIN s = 1..Len(s) /\ Len(s) \in Nat
  OBVIOUS
<1>2. IsFiniteSet(1..Len(s)) /\ Cardinality(1..Len(s)) = Len(s)
  BY <1>1, CountUpTo
<1>3. IsFiniteSet(T) /\ Cardinality(T) <= Len(s)
  BY <1>1, <1>2, FS_Subset
<1>. QED
  BY <1>3, FS_CardinalityType, FS_EmptySet

TeamSeats(a, g) ==
  {i \in Prizes!PaidOutSeats(a) : memberships[a][i].over /\ memberships[a][i].group = g}

LEMMA CountsAre ==
  ASSUME NEW a
  PROVE  /\ Prizes!completedPods(a) = Cardinality(Prizes!PaidOutSeats(a))
         /\ \A g : Prizes!CompletedWith(a, g) = Cardinality(TeamSeats(a, g))
BY SameCount DEF Prizes!completedPods, Prizes!CompletedWith, TeamSeats

LEMMA TeamReached ==
  ASSUME AwardsTyped, NEW a \in Accounts
  PROVE  Prizes!getMaxCompletedPodsWithSameGroup(a) >= TeamPods
           <=> \E g \in Groups : Prizes!CompletedWith(a, g) >= TeamPods
<1>1. PICK S : S = {Prizes!CompletedWith(a, g) : g \in Groups}
  OBVIOUS
<1>2. memberships[a] \in Seq(Seat) /\ Len(memberships[a]) \in Nat
  BY DEF AwardsTyped
<1>3. \A g \in Groups : Prizes!CompletedWith(a, g) \in Nat
                          /\ Prizes!CompletedWith(a, g) <= Len(memberships[a])
  <2>. TAKE g \in Groups
  <2>1. TeamSeats(a, g) \subseteq DOMAIN memberships[a]
    BY DEF TeamSeats, Prizes!PaidOutSeats
  <2>. QED
    BY <1>2, <2>1, CountsAre, CountedSets
<1>4. S \subseteq Nat /\ S # {} /\ \A x \in S : x <= Len(memberships[a])
  BY <1>1, <1>3, PrizesAssumption
<1>5. Prizes!Max(S) >= TeamPods <=> \E x \in S : x >= TeamPods
  BY <1>2, <1>4, GreatestReached, PrizesAssumption
<1>. QED
  BY <1>1, <1>5 DEF Prizes!getMaxCompletedPodsWithSameGroup

LEMMA StandingIs ==
  ASSUME NEW a, NEW code \in Prizes!AchievementCode
  PROVE  code \in Prizes!Completed(a) <=>
           Prizes!Standing(a)[code][1] >= Prizes!Standing(a)[code][2]
BY DEF Prizes!Completed

\* What the summary shows as complete, by the rows.
LEMMA CompletedIsReached ==
  ASSUME AwardsTyped, NEW a \in Accounts, NEW code \in Prizes!AchievementCode
  PROVE  code \in Prizes!Completed(a) <=> Reached(a, code)
<1>. DEFINE seats == memberships[a]
            sent == invites[a]
<1>1. /\ seats \in Seq(Seat) /\ sent \in Seq(Invitation)
      /\ \A i \in DOMAIN seats : seats[i] \in Seat
      /\ \A p \in DOMAIN sent : sent[p] \in Invitation
  BY DEF AwardsTyped
<1>2. ASSUME code = "POD_STARTER"
      PROVE  code \in Prizes!Completed(a) <=> Reached(a, code)
  <2>1. code \in Prizes!Completed(a) <=> Len(seats) >= 1
    BY <1>2, StandingIs DEF Prizes!Standing
  <2>. QED
    BY <1>2, <2>1 DEF Reached
<1>3. ASSUME code = "COMMITMENT_CHAMP"
      PROVE  code \in Prizes!Completed(a) <=> Reached(a, code)
  <2>1. code \in Prizes!Completed(a) <=> Len(seats) >= CommitmentPods
    BY <1>3, StandingIs DEF Prizes!Standing
  <2>. QED
    BY <1>3, <2>1 DEF Reached
<1>4. ASSUME code = "EARLY_BIRD"
      PROVE  code \in Prizes!Completed(a) <=> Reached(a, code)
  <2>1. PICK T : T = {i \in DOMAIN seats : seats[i].first}
    OBVIOUS
  <2>2. code \in Prizes!Completed(a) <=> Cardinality(T) >= 1
    BY <1>4, <2>1, StandingIs, SameCount DEF Prizes!Standing
  <2>3. Cardinality(T) >= 1 <=> T # {}
    BY <1>1, <2>1, CountedSets DEF Prizes!PaidOutSeats
  <2>. QED
    BY <1>4, <2>1, <2>2, <2>3 DEF Reached, Prizes!PaidOutSeats
<1>5. ASSUME code = "KOAJO_CONNECTOR"
      PROVE  code \in Prizes!Completed(a) <=> Reached(a, code)
  <2>1. PICK T : T = {p \in DOMAIN sent : sent[p].accepted > 0}
    OBVIOUS
  <2>2. code \in Prizes!Completed(a) <=> Cardinality(T) >= 1
    BY <1>5, <2>1, StandingIs, SameCount DEF Prizes!Standing
  <2>3. Cardinality(T) >= 1 <=> T # {}
    BY <1>1, <2>1, CountedSets DEF Prizes!PaidOutSeats
  <2>. QED
    BY <1>5, <2>1, <2>2, <2>3 DEF Reached, Prizes!PaidOutSeats
<1>6. ASSUME code = "REFERRAL_MASTER"
      PROVE  code \in Prizes!Completed(a) <=> Reached(a, code)
  <2>1. PICK T : T = {p \in DOMAIN sent : sent[p].accepted >= Referrals}
    OBVIOUS
  <2>2. code \in Prizes!Completed(a) <=> Cardinality(T) >= 1
    BY <1>6, <2>1, StandingIs, SameCount DEF Prizes!Standing
  <2>3. Cardinality(T) >= 1 <=> T # {}
    BY <1>1, <2>1, CountedSets DEF Prizes!PaidOutSeats
  <2>. QED
    BY <1>6, <2>1, <2>2, <2>3 DEF Reached, Prizes!PaidOutSeats
<1>7. ASSUME code = "POD_LEADER"
      PROVE  code \in Prizes!Completed(a) <=> Reached(a, code)
  <2>1. PICK T : T = {p \in DOMAIN sent : sent[p].accepted = sent[p].total}
    OBVIOUS
  <2>2. code \in Prizes!Completed(a) <=> Cardinality(T) >= 1
    BY <1>7, <2>1, StandingIs, SameCount DEF Prizes!Standing
  <2>3. Cardinality(T) >= 1 <=> T # {}
    BY <1>1, <2>1, CountedSets DEF Prizes!PaidOutSeats
  <2>. QED
    BY <1>7, <2>1, <2>2, <2>3 DEF Reached, Prizes!PaidOutSeats
<1>8. ASSUME code = "SAVINGS_SPRINTER"
      PROVE  code \in Prizes!Completed(a) <=> Reached(a, code)
  <2>1. PICK T : T = {i \in Prizes!PaidOutSeats(a) : Prizes!completedWithoutMissingContributions(seats[i])}
    OBVIOUS
  <2>2. code \in Prizes!Completed(a) <=> Cardinality(T) >= 1
    BY <1>8, <2>1, StandingIs, SameCount DEF Prizes!Standing
  <2>3. Cardinality(T) >= 1 <=> T # {}
    BY <1>1, <2>1, CountedSets DEF Prizes!PaidOutSeats
  <2>. QED
    BY <1>8, <2>1, <2>2, <2>3 DEF Reached, Prizes!PaidOutSeats
<1>9. ASSUME code = "ON_TIME_HERO"
      PROVE  code \in Prizes!Completed(a) <=> Reached(a, code)
  <2>1. PICK T : T = {i \in Prizes!PaidOutSeats(a) : Prizes!completedOnTime(seats[i])}
    OBVIOUS
  <2>2. code \in Prizes!Completed(a) <=> Cardinality(T) >= 1
    BY <1>9, <2>1, StandingIs, SameCount DEF Prizes!Standing
  <2>3. Cardinality(T) >= 1 <=> T # {}
    BY <1>1, <2>1, CountedSets DEF Prizes!PaidOutSeats
  <2>. QED
    BY <1>9, <2>1, <2>2, <2>3 DEF Reached, Prizes!PaidOutSeats
<1>10. ASSUME code = "FINANCIALLY_FIT"
      PROVE  code \in Prizes!Completed(a) <=> Reached(a, code)
  <2>1. code \in Prizes!Completed(a) <=> Cardinality(Prizes!PaidOutSeats(a)) >= 1
    BY <1>10, StandingIs, CountsAre DEF Prizes!Standing
  <2>2. Cardinality(Prizes!PaidOutSeats(a)) >= 1 <=> Prizes!PaidOutSeats(a) # {}
    BY <1>1, CountedSets DEF Prizes!PaidOutSeats
  <2>. QED
    BY <1>10, <2>1, <2>2 DEF Reached, Prizes!PaidOutSeats
<1>11. ASSUME code = "KOAJO_OG"
      PROVE  code \in Prizes!Completed(a) <=> Reached(a, code)
  <2>1. code \in Prizes!Completed(a) <=> Cardinality(Prizes!PaidOutSeats(a)) >= 1
    BY <1>11, StandingIs, CountsAre DEF Prizes!Standing
  <2>2. Cardinality(Prizes!PaidOutSeats(a)) >= 1 <=> Prizes!PaidOutSeats(a) # {}
    BY <1>1, CountedSets DEF Prizes!PaidOutSeats
  <2>. QED
    BY <1>11, <2>1, <2>2 DEF Reached, Prizes!PaidOutSeats
<1>12. ASSUME code = "FIRST_PAYOUT"
      PROVE  code \in Prizes!Completed(a) <=> Reached(a, code)
  <2>1. code \in Prizes!Completed(a) <=> Cardinality(Prizes!PaidOutSeats(a)) >= 1
    BY <1>12, StandingIs, CountsAre DEF Prizes!Standing
  <2>2. Cardinality(Prizes!PaidOutSeats(a)) >= 1 <=> Prizes!PaidOutSeats(a) # {}
    BY <1>1, CountedSets DEF Prizes!PaidOutSeats
  <2>. QED
    BY <1>12, <2>1, <2>2 DEF Reached, Prizes!PaidOutSeats
<1>13. ASSUME code = "POD_VETERAN"
      PROVE  code \in Prizes!Completed(a) <=> Reached(a, code)
  <2>1. code \in Prizes!Completed(a) <=> Prizes!completedPods(a) >= VeteranPods + 1
    BY <1>13, StandingIs DEF Prizes!Standing
  <2>2. Cardinality(Prizes!PaidOutSeats(a)) \in Nat
    BY <1>1, CountedSets DEF Prizes!PaidOutSeats
  <2>3. Prizes!completedPods(a) \in Nat
    BY <2>2, CountsAre
  <2>. QED
    BY <1>13, <2>1, <2>3, PrizesAssumption DEF Reached
<1>14. ASSUME code = "TEAM_PLAYER"
      PROVE  code \in Prizes!Completed(a) <=> Reached(a, code)
  <2>1. code \in Prizes!Completed(a) <=> Prizes!getMaxCompletedPodsWithSameGroup(a) >= TeamPods
    BY <1>14, StandingIs DEF Prizes!Standing
  <2>. QED
    BY <1>14, <2>1, TeamReached DEF Reached
<1>15. ASSUME code = "WEALTH_BUILDER"
      PROVE  code \in Prizes!Completed(a) <=> Reached(a, code)
  <2>1. code \in Prizes!Completed(a) <=> Prizes!sumSuccessfulContributions(a) >= Savings[1]
    BY <1>15, StandingIs DEF Prizes!Standing
  <2>. QED
    BY <1>15, <2>1 DEF Reached
<1>16. ASSUME code = "SAVINGS_CHAMPION"
      PROVE  code \in Prizes!Completed(a) <=> Reached(a, code)
  <2>1. code \in Prizes!Completed(a) <=> Prizes!sumSuccessfulContributions(a) >= Savings[2]
    BY <1>16, StandingIs DEF Prizes!Standing
  <2>. QED
    BY <1>16, <2>1 DEF Reached
<1>17. ASSUME code = "SIX_FIGURES_ROCKSTAR"
      PROVE  code \in Prizes!Completed(a) <=> Reached(a, code)
  <2>1. code \in Prizes!Completed(a) <=> Prizes!sumSuccessfulContributions(a) >= Savings[3]
    BY <1>17, StandingIs DEF Prizes!Standing
  <2>. QED
    BY <1>17, <2>1 DEF Reached
<1>18. ASSUME code = "PERFECT_STREAK"
      PROVE  code \in Prizes!Completed(a) <=> Reached(a, code)
  <2>1. code \in Prizes!Completed(a) <=> Prizes!computeLongestMonthlyStreak(a) >= StreakMonths
    BY <1>18, StandingIs DEF Prizes!Standing
  <2>. QED
    BY <1>18, <2>1 DEF Reached
<1>. QED
  BY <1>2, <1>3, <1>4, <1>5, <1>6, <1>7, <1>8, <1>9, <1>10, <1>11, <1>12, <1>13, <1>14, <1>15, <1>16, <1>17, <1>18 DEF Prizes!AchievementCode

\* The same of the state after a step.
LEMMA CompletedIs ==
  AwardsTyped =>
    \A a \in Accounts : \A code \in Prizes!AchievementCode :
      code \in Prizes!Completed(a) <=> Reached(a, code)
BY CompletedIsReached

LEMMA CompletedWillBe ==
  (AwardsTyped =>
    \A a \in Accounts : \A code \in Prizes!AchievementCode :
      code \in Prizes!Completed(a) <=> Reached(a, code))'
BY CompletedIs, PTL

-----------------------------------------------------------------------------
\* What an account has only becomes more, unless an admin takes a payout back.
SeatsGrow(a) ==
  /\ DOMAIN memberships[a] \subseteq DOMAIN memberships'[a]
  /\ \A i \in DOMAIN memberships[a] :
       LET m == memberships[a][i]
           n == memberships'[a][i]
       IN  /\ m.first => n.first
           /\ n.group = m.group
           /\ m.paidOut => n.paidOut
           /\ m.over => n.over
           /\ m.paid <= n.paid
           /\ Prizes!completedOnTime(m) => Prizes!completedOnTime(n)

InvitesGrow(a) ==
  /\ DOMAIN invites[a] \subseteq DOMAIN invites'[a]
  /\ \A p \in DOMAIN invites[a] :
       LET m == invites[a][p]
           n == invites'[a][p]
       IN  /\ m.accepted <= n.accepted
           /\ m.accepted = m.total => n.accepted = n.total

Grows(a) == SeatsGrow(a) /\ InvitesGrow(a) /\ months[a] \subseteq months'[a]

PaidContributions(a) ==
  {ik \in (DOMAIN memberships[a]) \X (1..Expected) : ik[2] <= memberships[a][ik[1]].paid}

LEMMA SavedAre ==
  ASSUME AwardsTyped, NEW a \in Accounts
  PROVE  /\ Prizes!sumSuccessfulContributions(a) = Cardinality(PaidContributions(a))
         /\ IsFiniteSet(PaidContributions(a))
<1>1. memberships[a] \in Seq(Seat)
  BY DEF AwardsTyped
<1>2. IsFiniteSet(DOMAIN memberships[a]) /\ IsFiniteSet(1..Expected)
  BY <1>1, CountedSets, CountUpTo, PrizesAssumption
<1>3. IsFiniteSet((DOMAIN memberships[a]) \X (1..Expected))
  BY <1>2, FS_Product
<1>4. IsFiniteSet(PaidContributions(a))
  BY <1>3, FS_Subset DEF PaidContributions
<1>. QED
  BY <1>4, SameCount DEF Prizes!sumSuccessfulContributions, PaidContributions

LEMMA SavedWillBe ==
  (AwardsTyped => \A a \in Accounts :
     /\ Prizes!sumSuccessfulContributions(a) = Cardinality(PaidContributions(a))
     /\ IsFiniteSet(PaidContributions(a)))'
<1>1. AwardsTyped => \A a \in Accounts :
        /\ Prizes!sumSuccessfulContributions(a) = Cardinality(PaidContributions(a))
        /\ IsFiniteSet(PaidContributions(a))
  BY SavedAre
<1>. QED
  BY <1>1, PTL

LEMMA CountsWillBe ==
  (\A a : /\ Prizes!completedPods(a) = Cardinality(Prizes!PaidOutSeats(a))
          /\ \A g : Prizes!CompletedWith(a, g) = Cardinality(TeamSeats(a, g)))'
BY SameCount DEF Prizes!completedPods, Prizes!CompletedWith, TeamSeats

LEMMA CountsGrow ==
  ASSUME AwardsTyped, AwardsTyped', NEW a \in Accounts, SeatsGrow(a)
  PROVE  /\ {Prizes!completedPods(a), Prizes!completedPods(a)'} \subseteq Nat
         /\ Prizes!completedPods(a) <= Prizes!completedPods(a)'
         /\ \A g : /\ {Prizes!CompletedWith(a, g), Prizes!CompletedWith(a, g)'} \subseteq Nat
                   /\ Prizes!CompletedWith(a, g) <= Prizes!CompletedWith(a, g)'
         /\ {Prizes!sumSuccessfulContributions(a), Prizes!sumSuccessfulContributions(a)'} \subseteq Nat
         /\ Prizes!sumSuccessfulContributions(a) <= Prizes!sumSuccessfulContributions(a)'
<1>1. memberships[a] \in Seq(Seat) /\ memberships'[a] \in Seq(Seat)
  BY DEF AwardsTyped
<1>2. /\ Prizes!PaidOutSeats(a) \subseteq Prizes!PaidOutSeats(a)'
      /\ Prizes!PaidOutSeats(a) \subseteq DOMAIN memberships[a]
      /\ Prizes!PaidOutSeats(a)' \subseteq DOMAIN memberships'[a]
  BY DEF SeatsGrow, Prizes!PaidOutSeats
<1>3. /\ IsFiniteSet(Prizes!PaidOutSeats(a)) /\ IsFiniteSet(Prizes!PaidOutSeats(a)')
      /\ Cardinality(Prizes!PaidOutSeats(a)) \in Nat
      /\ Cardinality(Prizes!PaidOutSeats(a)') \in Nat
  BY <1>1, <1>2, CountedSets
<1>4. Cardinality(Prizes!PaidOutSeats(a)) <= Cardinality(Prizes!PaidOutSeats(a)')
  BY <1>2, <1>3, FS_Subset
<1>5. ASSUME NEW g
      PROVE  /\ {Prizes!CompletedWith(a, g), Prizes!CompletedWith(a, g)'} \subseteq Nat
             /\ Prizes!CompletedWith(a, g) <= Prizes!CompletedWith(a, g)'
  <2>1. TeamSeats(a, g) \subseteq TeamSeats(a, g)'
    BY <1>2 DEF TeamSeats, SeatsGrow
  <2>2. /\ TeamSeats(a, g) \subseteq Prizes!PaidOutSeats(a)
        /\ TeamSeats(a, g)' \subseteq Prizes!PaidOutSeats(a)'
    BY DEF TeamSeats
  <2>3. /\ IsFiniteSet(TeamSeats(a, g)) /\ IsFiniteSet(TeamSeats(a, g)')
        /\ Cardinality(TeamSeats(a, g)) \in Nat /\ Cardinality(TeamSeats(a, g)') \in Nat
    BY <1>3, <2>2, FS_Subset, FS_CardinalityType
  <2>. QED
    BY <2>1, <2>3, FS_Subset, CountsAre, CountsWillBe
<1>6. /\ {Prizes!sumSuccessfulContributions(a), Prizes!sumSuccessfulContributions(a)'} \subseteq Nat
      /\ Prizes!sumSuccessfulContributions(a) <= Prizes!sumSuccessfulContributions(a)'
  <2>1. PaidContributions(a) \subseteq PaidContributions(a)'
    <3>1. \A i \in DOMAIN memberships[a] : memberships[a][i] \in Seat /\ memberships'[a][i] \in Seat
      BY <1>1 DEF SeatsGrow
    <3>2. \A i \in DOMAIN memberships[a] : /\ memberships[a][i].paid \in Int /\ memberships'[a][i].paid \in Int
                                           /\ memberships[a][i].paid <= memberships'[a][i].paid
      BY <3>1 DEF Seat, SeatsGrow
    <3>3. \A i \in DOMAIN memberships[a], k \in 1..Expected :
            k <= memberships[a][i].paid => k <= memberships'[a][i].paid
      BY <3>2
    <3>. QED
      BY <3>3 DEF PaidContributions, SeatsGrow
  <2>2. /\ Prizes!sumSuccessfulContributions(a) = Cardinality(PaidContributions(a))
        /\ Prizes!sumSuccessfulContributions(a)' = Cardinality(PaidContributions(a)')
        /\ IsFiniteSet(PaidContributions(a)) /\ IsFiniteSet(PaidContributions(a)')
    BY SavedAre, SavedWillBe
  <2>. QED
    BY <2>1, <2>2, FS_Subset, FS_CardinalityType
<1>. QED
  BY <1>3, <1>4, <1>5, <1>6, CountsAre, CountsWillBe

Streaks(had) ==
  {0} \cup {k \in 1..MaxMonth : \E first \in 1..MaxMonth : first..(first + k - 1) \subseteq had}

LEMMA StreakGrows ==
  ASSUME NEW had, NEW has, had \subseteq has
  PROVE  /\ {Prizes!Max(Streaks(had)), Prizes!Max(Streaks(has))} \subseteq Nat
         /\ Prizes!Max(Streaks(had)) <= Prizes!Max(Streaks(has))
<1>1. ASSUME NEW S
      PROVE  /\ Streaks(S) \subseteq Nat /\ Streaks(S) # {} /\ MaxMonth \in Nat
             /\ \A k \in Streaks(S) : k <= MaxMonth
  BY PrizesAssumption DEF Streaks
<1>2. \A S : Prizes!Max(Streaks(S)) \in Streaks(S)
  BY <1>1, GreatestReached
<1>3. Prizes!Max(Streaks(had)) \in Streaks(has)
  BY <1>2 DEF Streaks
<1>4. Prizes!Max(Streaks(had)) \in Nat
  BY <1>1, <1>2
<1>5. Prizes!Max(Streaks(has)) >= Prizes!Max(Streaks(had))
  BY <1>1, <1>3, <1>4, GreatestReached
<1>. QED
  BY <1>1, <1>2, <1>4, <1>5

LEMMA ReachedStays ==
  ASSUME AwardsTyped, AwardsTyped', NEW a \in Accounts, Grows(a),
         NEW code \in Prizes!AchievementCode, Reached(a, code)
  PROVE  Reached(a, code)'
<1>1. /\ memberships[a] \in Seq(Seat) /\ memberships'[a] \in Seq(Seat)
      /\ invites[a] \in Seq(Invitation) /\ invites'[a] \in Seq(Invitation)
  BY DEF AwardsTyped
<1>2. /\ \A i \in DOMAIN memberships[a] : memberships[a][i] \in Seat
      /\ \A i \in DOMAIN memberships'[a] : memberships'[a][i] \in Seat
      /\ \A p \in DOMAIN invites[a] : invites[a][p] \in Invitation
      /\ \A p \in DOMAIN invites'[a] : invites'[a][p] \in Invitation
  BY <1>1
<1>3. Len(memberships[a]) <= Len(memberships'[a]) /\ Len(memberships[a]) \in Nat
      /\ Len(memberships'[a]) \in Nat
  BY <1>1 DEF Grows, SeatsGrow
<1>4. /\ Prizes!computeLongestMonthlyStreak(a) \in Nat
      /\ Prizes!computeLongestMonthlyStreak(a)' \in Nat
      /\ Prizes!computeLongestMonthlyStreak(a) <= Prizes!computeLongestMonthlyStreak(a)'
  BY StreakGrows DEF Grows, Prizes!computeLongestMonthlyStreak, Streaks
<1>5. CASE code = "POD_STARTER"
  <2>1. Len(memberships[a]) >= 1
    BY <1>5 DEF Reached
  <2>2. Len(memberships'[a]) >= 1
    BY <2>1, <1>3
  <2>. QED
    BY <1>5, <2>2 DEF Reached
<1>6. CASE code = "COMMITMENT_CHAMP"
  <2>1. Len(memberships[a]) >= CommitmentPods
    BY <1>6 DEF Reached
  <2>2. Len(memberships'[a]) >= CommitmentPods
    BY <2>1, <1>3, PrizesAssumption
  <2>. QED
    BY <1>6, <2>2 DEF Reached
<1>7. CASE code = "EARLY_BIRD" \/ code \in {"FINANCIALLY_FIT", "KOAJO_OG", "FIRST_PAYOUT"}
  BY <1>7 DEF Reached, Grows, SeatsGrow
<1>8. CASE code = "POD_VETERAN"
  <2>1. Prizes!completedPods(a) > VeteranPods
    BY <1>8 DEF Reached
  <2>2. Prizes!completedPods(a)' > VeteranPods
    BY <2>1, CountsGrow, PrizesAssumption DEF Grows
  <2>. QED
    BY <1>8, <2>2 DEF Reached
<1>9. CASE code = "TEAM_PLAYER"
  <2>1. \E g \in Groups : Prizes!CompletedWith(a, g) >= TeamPods
    BY <1>9 DEF Reached
  <2>2. \E g \in Groups : Prizes!CompletedWith(a, g)' >= TeamPods
    BY <2>1, CountsGrow, PrizesAssumption DEF Grows
  <2>. QED
    BY <1>9, <2>2 DEF Reached
<1>10. CASE code = "KOAJO_CONNECTOR"
  <2>1. \E p \in DOMAIN invites[a] : invites[a][p].accepted > 0
    BY <1>10 DEF Reached
  <2>2. \E p \in DOMAIN invites'[a] : invites'[a][p].accepted > 0
    BY <2>1, <1>2 DEF Grows, InvitesGrow, Invitation
  <2>. QED
    BY <1>10, <2>2 DEF Reached
<1>11. CASE code = "REFERRAL_MASTER"
  <2>1. \E p \in DOMAIN invites[a] : invites[a][p].accepted >= Referrals
    BY <1>11 DEF Reached
  <2>2. \E p \in DOMAIN invites'[a] : invites'[a][p].accepted >= Referrals
    BY <2>1, <1>2, PrizesAssumption DEF Grows, InvitesGrow, Invitation
  <2>. QED
    BY <1>11, <2>2 DEF Reached
<1>12. CASE code = "POD_LEADER"
  <2>1. \E p \in DOMAIN invites[a] : invites[a][p].accepted = invites[a][p].total
    BY <1>12 DEF Reached
  <2>2. \E p \in DOMAIN invites'[a] : invites'[a][p].accepted = invites'[a][p].total
    BY <2>1, <1>2 DEF Grows, InvitesGrow, Invitation
  <2>. QED
    BY <1>12, <2>2 DEF Reached
<1>13. CASE code = "SAVINGS_SPRINTER"
  <2>1. \E i \in DOMAIN memberships[a] : memberships[a][i].paidOut /\ memberships[a][i].paid >= Expected
    BY <1>13 DEF Reached, Prizes!completedWithoutMissingContributions
  <2>2. \E i \in DOMAIN memberships'[a] : memberships'[a][i].paidOut /\ memberships'[a][i].paid >= Expected
    BY <2>1, <1>2, PrizesAssumption DEF Grows, SeatsGrow, Seat
  <2>. QED
    BY <1>13, <2>2 DEF Reached, Prizes!completedWithoutMissingContributions
<1>14. CASE code = "ON_TIME_HERO"
  <2>1. \E i \in DOMAIN memberships[a] : memberships[a][i].paidOut /\ Prizes!completedOnTime(memberships[a][i])
    BY <1>14 DEF Reached
  <2>2. \E i \in DOMAIN memberships'[a] : memberships'[a][i].paidOut /\ Prizes!completedOnTime(memberships'[a][i])
    BY <2>1, <1>2 DEF Grows, SeatsGrow
  <2>. QED
    BY <1>14, <2>2 DEF Reached
<1>15. CASE code = "WEALTH_BUILDER"
  <2>1. Prizes!sumSuccessfulContributions(a) >= Savings[1]
    BY <1>15 DEF Reached
  <2>2. Prizes!sumSuccessfulContributions(a)' >= Savings[1]
    BY <2>1, CountsGrow, PrizesAssumption DEF Grows
  <2>. QED
    BY <1>15, <2>2 DEF Reached
<1>16. CASE code = "SAVINGS_CHAMPION"
  <2>1. Prizes!sumSuccessfulContributions(a) >= Savings[2]
    BY <1>16 DEF Reached
  <2>2. Prizes!sumSuccessfulContributions(a)' >= Savings[2]
    BY <2>1, CountsGrow, PrizesAssumption DEF Grows
  <2>. QED
    BY <1>16, <2>2 DEF Reached
<1>17. CASE code = "SIX_FIGURES_ROCKSTAR"
  <2>1. Prizes!sumSuccessfulContributions(a) >= Savings[3]
    BY <1>17 DEF Reached
  <2>2. Prizes!sumSuccessfulContributions(a)' >= Savings[3]
    BY <2>1, CountsGrow, PrizesAssumption DEF Grows
  <2>. QED
    BY <1>17, <2>2 DEF Reached
<1>18. CASE code = "PERFECT_STREAK"
  <2>1. Prizes!computeLongestMonthlyStreak(a) >= StreakMonths
    BY <1>18 DEF Reached
  <2>2. Prizes!computeLongestMonthlyStreak(a)' >= StreakMonths
    BY <2>1, <1>4, PrizesAssumption
  <2>. QED
    BY <1>18, <2>2 DEF Reached
<1>. QED
  BY <1>5, <1>6, <1>7, <1>8, <1>9, <1>10, <1>11, <1>12, <1>13, <1>14, <1>15, <1>16, <1>17, <1>18 DEF Prizes!AchievementCode

LEMMA CompletedStays ==
  ASSUME AwardsTyped, AwardsTyped', NEW a \in Accounts, Grows(a)
  PROVE  Prizes!Completed(a) \subseteq Prizes!Completed(a)'
<1>1. \A code \in Prizes!Completed(a) : code \in Prizes!AchievementCode
  BY DEF Prizes!Completed
<1>. QED
  BY <1>1, ReachedStays, CompletedIs, CompletedWillBe

AccountsGrow ==
  /\ marked \subseteq marked'
  /\ \A a \in Accounts : /\ DOMAIN memberships[a] \subseteq DOMAIN memberships'[a]
                         /\ DOMAIN invites[a] \subseteq DOMAIN invites'[a]
  /\ \A a \in Accounts \ marked' : Grows(a)

LEMMA AwardRequestStaysSound ==
  ASSUME AwardsTyped, AwardsTyped', AccountsGrow, NEW q \in AwardRequest, AwardRequestSound(q)
  PROVE  AwardRequestSound(q)'
<1>1. ASSUME q.who \in Accounts \ marked'
      PROVE  /\ q.who \in Accounts \ marked
             /\ Prizes!Completed(q.who) \subseteq Prizes!Completed(q.who)'
             /\ HasPaidOut(q) => HasPaidOut(q)'
             /\ Seq(Due(q)) \subseteq Seq(Due(q)')
  <2>1. q.who \in Accounts \ marked /\ Grows(q.who)
    BY <1>1 DEF AccountsGrow
  <2>2. Prizes!Completed(q.who) \subseteq Prizes!Completed(q.who)'
    BY <2>1, CompletedStays
  <2>3. HasPaidOut(q) => HasPaidOut(q)'
    BY <2>1 DEF HasPaidOut, Grows, SeatsGrow
  <2>4. Due(q) \subseteq Due(q)'
    BY <2>2, <2>3 DEF Due
  <2>5. Seq(Due(q)) \subseteq Seq(Due(q)')
    <3>. SUFFICES ASSUME NEW s \in Seq(Due(q)) PROVE s \in Seq(Due(q)')
      OBVIOUS
    <3>1. s \in [1..Len(s) -> Due(q)] /\ Len(s) \in Nat
      OBVIOUS
    <3>2. s \in [1..Len(s) -> Due(q)']
      BY <2>4, <3>1
    <3>. QED
      BY <3>1, <3>2, SeqDef
  <2>. QED
    BY <2>1, <2>2, <2>3, <2>5
<1>2. q.who \in Accounts => /\ DOMAIN memberships[q.who] \subseteq DOMAIN memberships'[q.who]
                            /\ DOMAIN invites[q.who] \subseteq DOMAIN invites'[q.who]
  BY DEF AccountsGrow
<1>3. /\ q.pc = "idle" => q = Prizes!Idle
      /\ q.pc # "idle" => q.who \in Accounts
      /\ q.pc = "joined" => q.pod \in DOMAIN memberships'[q.who]
      /\ q.pc = "accepted" => q.pod \in DOMAIN invites'[q.who]
      /\ q.pc \in {"insert", "count"} => q.todo # <<>>
      /\ q.pc = "count" => Head(q.todo) = "FINANCIALLY_FIT"
  BY <1>2 DEF AwardRequestSound
<1>4. ASSUME q.who \in Accounts \ marked'
      PROVE  /\ q.pc = "completed" => HasPaidOut(q)'
             /\ q.pc \in {"award", "insert", "count"} => q.todo \in Seq(Due(q)')
             /\ q.pc = "insert" => Head(q.todo) \in Prizes!Completed(q.who)'
  BY <1>1, <1>4 DEF AwardRequestSound
<1>. QED
  BY <1>3, <1>4 DEF AwardRequestSound

LEMMA AwardedIs ==
  Prizes!AwardedMeansComplete <=>
    \A a \in Accounts \ marked : \A w \in awards : w[1] = a => w[2] \in Prizes!Completed(a)
BY DEF Prizes!AwardedMeansComplete

\* A step of one request or of none.
LEMMA AwardsMove ==
  ASSUME AwardsInv, AwardsTyped', AccountsGrow,
         \A s \in Requests : awardRequests'[s] = awardRequests[s]
                               \/ AwardRequestSound(awardRequests[s])',
         \A w \in awards' \ awards :
           w[1] \in Accounts \ marked' => w[2] \in Prizes!Completed(w[1])'
  PROVE  AwardsInv'
<1>1. AwardsTyped
  BY DEF AwardsInv
<1>2. ASSUME NEW s \in Requests PROVE AwardRequestSound(awardRequests[s])'
  <2>1. CASE awardRequests'[s] = awardRequests[s]
    <3>1. PICK q : q = awardRequests[s]
      OBVIOUS
    <3>2. q \in AwardRequest /\ AwardRequestSound(q)
      BY <3>1 DEF AwardsInv, AwardsTyped
    <3>3. AwardRequestSound(q)'
      BY <1>1, <3>2, AwardRequestStaysSound
    <3>4. q = awardRequests'[s]
      BY <2>1, <3>1
    <3>. QED
      BY <3>3, <3>4 DEF AwardRequestSound, Due, HasPaidOut
  <2>. QED
    BY <2>1
<1>3. ASSUME NEW a \in Accounts \ marked', NEW w \in awards', w[1] = a
      PROVE  w[2] \in Prizes!Completed(a)'
  <2>1. CASE w \in awards
    <3>1. a \in Accounts \ marked /\ Grows(a)
      BY DEF AccountsGrow
    <3>2. w[2] \in Prizes!Completed(a)
      BY <1>3, <2>1, <3>1, AwardedIs DEF AwardsInv
    <3>3. Prizes!Completed(a) \subseteq Prizes!Completed(a)'
      BY <1>1, <3>1, CompletedStays
    <3>. QED
      BY <3>2, <3>3
  <2>. QED
    BY <1>3, <2>1
<1>4. Prizes!AwardedMeansComplete'
  BY <1>3 DEF Prizes!AwardedMeansComplete
<1>. QED
  BY <1>2, <1>4 DEF AwardsInv

LEMMA NothingGrows ==
  ASSUME AwardsTyped, UNCHANGED <<memberships, invites, months, marked>>
  PROVE  AccountsGrow
<1>1. \A a \in Accounts : SeatsGrow(a)
  <2>. SUFFICES ASSUME NEW a \in Accounts PROVE SeatsGrow(a)
    OBVIOUS
  <2>1. \A i \in DOMAIN memberships[a] : memberships[a][i].paid <= memberships[a][i].paid
    <3>1. \A i \in DOMAIN memberships[a] : memberships[a][i] \in Seat
      BY DEF AwardsTyped
    <3>. QED
      BY <3>1, PrizesAssumption DEF Seat
  <2>. QED
    BY <2>1 DEF SeatsGrow
<1>2. \A a \in Accounts : InvitesGrow(a)
  <2>. SUFFICES ASSUME NEW a \in Accounts PROVE InvitesGrow(a)
    OBVIOUS
  <2>1. \A p \in DOMAIN invites[a] : invites[a][p] \in Invitation
    BY DEF AwardsTyped
  <2>2. \A p \in DOMAIN invites[a] : invites[a][p].accepted <= invites[a][p].accepted
    BY <2>1 DEF Invitation
  <2>. QED
    BY <2>2 DEF InvitesGrow
<1>. QED
  BY <1>1, <1>2 DEF AccountsGrow, Grows

LEMMA CompletedUnchanged ==
  ASSUME UNCHANGED <<memberships, invites, months>>, NEW a
  PROVE  Prizes!Completed(a)' = Prizes!Completed(a)
<1>1. /\ Prizes!completedPods(a)' = Prizes!completedPods(a)
      /\ \A g : Prizes!CompletedWith(a, g)' = Prizes!CompletedWith(a, g)
      /\ Prizes!PaidOutSeats(a)' = Prizes!PaidOutSeats(a)
      /\ Prizes!sumSuccessfulContributions(a)' = Prizes!sumSuccessfulContributions(a)
      /\ Prizes!computeLongestMonthlyStreak(a)' = Prizes!computeLongestMonthlyStreak(a)
  BY DEF Prizes!completedPods, Prizes!PaidOutSeats, Prizes!CompletedWith,
     Prizes!sumSuccessfulContributions, Prizes!computeLongestMonthlyStreak
<1>2. Prizes!getMaxCompletedPodsWithSameGroup(a)' = Prizes!getMaxCompletedPodsWithSameGroup(a)
  <2>1. {Prizes!CompletedWith(a, g)' : g \in Groups} = {Prizes!CompletedWith(a, g) : g \in Groups}
    BY <1>1
  <2>. QED
    BY <2>1 DEF Prizes!getMaxCompletedPodsWithSameGroup
<1>3. Prizes!Standing(a)' = Prizes!Standing(a)
  BY <1>1, <1>2 DEF Prizes!Standing
<1>. QED
  BY <1>3 DEF Prizes!Completed

\* A request that goes on, and what it awards.
LEMMA AwardRequestMoves ==
  ASSUME AwardsInv, NEW r \in Requests, NEW q \in AwardRequest,
         awardRequests' = [awardRequests EXCEPT ![r] = q],
         UNCHANGED <<memberships, invites, month, months, marked>>,
         awards' = awards \/ \E w \in (Accounts \cup Others) \X Prizes!AchievementCode :
           awards' = awards \cup {w} /\ (w[1] \in Accounts \ marked => w[2] \in Prizes!Completed(w[1])),
         AwardRequestSound(q)
  PROVE  AwardsInv'
<1>1. AwardsTyped'
  <2>1. IsFiniteSet(awards) /\ awards \subseteq (Accounts \cup Others) \X Prizes!AchievementCode
    BY DEF AwardsInv, AwardsTyped
  <2>2. \A w : IsFiniteSet(awards \cup {w})
    BY <2>1, FS_AddElement
  <2>3. IsFiniteSet(awards') /\ awards' \subseteq (Accounts \cup Others) \X Prizes!AchievementCode
    BY <2>1, <2>2
  <2>4. awardRequests' \in [Requests -> AwardRequest]
    BY DEF AwardsInv, AwardsTyped
  <2>. QED
    BY <2>3, <2>4 DEF AwardsInv, AwardsTyped
<1>2. \A a : Prizes!Completed(a)' = Prizes!Completed(a)
  BY CompletedUnchanged
<1>3. AccountsGrow
  BY NothingGrows DEF AwardsInv
<1>4. AwardRequestSound(q)'
  BY <1>1, <1>3, AwardRequestStaysSound DEF AwardsInv
<1>5. ASSUME NEW s \in Requests
      PROVE  awardRequests'[s] = awardRequests[s] \/ AwardRequestSound(awardRequests[s])'
  <2>1. CASE s = r
    <3>1. awardRequests'[s] = q
      BY <2>1 DEF AwardsInv, AwardsTyped
    <3>. QED
      BY <1>4, <3>1 DEF AwardRequestSound, Due, HasPaidOut
  <2>2. CASE s # r
    BY <2>2 DEF AwardsInv, AwardsTyped
  <2>. QED
    BY <2>1, <2>2
<1>6. \A w \in awards' \ awards :
        w[1] \in Accounts \ marked' => w[2] \in Prizes!Completed(w[1])'
  BY <1>2
<1>. QED
  BY <1>1, <1>3, <1>5, <1>6, AwardsMove

-----------------------------------------------------------------------------
\* What earns achievements, and what else moves the rows they are decided by.
LEMMA SeatsKept ==
  ASSUME AwardsTyped, NEW a \in Accounts, memberships'[a] = memberships[a]
  PROVE  SeatsGrow(a)
<1>1. \A i \in DOMAIN memberships[a] : memberships[a][i] \in Seat
  BY DEF AwardsTyped
<1>2. \A i \in DOMAIN memberships[a] : memberships[a][i].paid <= memberships[a][i].paid
  BY <1>1, PrizesAssumption DEF Seat
<1>. QED
  BY <1>2 DEF SeatsGrow

LEMMA InvitesKept ==
  ASSUME AwardsTyped, NEW a \in Accounts, invites'[a] = invites[a]
  PROVE  InvitesGrow(a)
<1>1. \A p \in DOMAIN invites[a] : invites[a][p] \in Invitation
  BY DEF AwardsTyped
<1>2. \A p \in DOMAIN invites[a] : invites[a][p].accepted <= invites[a][p].accepted
  BY <1>1 DEF Invitation
<1>. QED
  BY <1>2 DEF InvitesGrow

FreeSeat(first, group, custom) ==
  [first |-> first, group |-> group, custom |-> custom, paidOut |-> FALSE, over |-> FALSE,
   paid |-> 0, late |-> FALSE]

LEMMA SeatTaken ==
  ASSUME AwardsTyped, NEW a \in Accounts, NEW first \in BOOLEAN, NEW group \in Groups,
         NEW custom \in BOOLEAN, Prizes!TakeSeat(a, first, group, custom)
  PROVE  /\ memberships' \in [Accounts -> Seq(Seat)]
         /\ memberships'[a] = Append(memberships[a], FreeSeat(first, group, custom))
         /\ \A b \in Accounts \ {a} : memberships'[b] = memberships[b]
         /\ \A b \in Accounts : SeatsGrow(b)
<1>1. FreeSeat(first, group, custom) \in Seat
  BY PrizesAssumption DEF FreeSeat, Seat
<1>2. /\ memberships'[a] = Append(memberships[a], FreeSeat(first, group, custom))
      /\ memberships' = [memberships EXCEPT ![a] = memberships'[a]]
      /\ \A b \in Accounts \ {a} : memberships'[b] = memberships[b]
  BY DEF Prizes!TakeSeat, FreeSeat, AwardsTyped
<1>3. memberships[a] \in Seq(Seat) /\ memberships \in [Accounts -> Seq(Seat)]
  BY DEF AwardsTyped
<1>4. memberships'[a] \in Seq(Seat)
  BY <1>1, <1>2, <1>3, AppendProperties
<1>5. SeatsGrow(a)
  <2>1. /\ DOMAIN memberships[a] \subseteq DOMAIN memberships'[a]
        /\ \A i \in DOMAIN memberships[a] : memberships'[a][i] = memberships[a][i]
    BY <1>1, <1>2, <1>3, AppendProperties
  <2>2. \A i \in DOMAIN memberships[a] : memberships[a][i].paid <= memberships[a][i].paid
    <3>1. \A i \in DOMAIN memberships[a] : memberships[a][i] \in Seat
      BY <1>3
    <3>. QED
      BY <3>1, PrizesAssumption DEF Seat
  <2>. QED
    BY <2>1, <2>2 DEF SeatsGrow
<1>6. memberships' \in [Accounts -> Seq(Seat)]
  BY <1>2, <1>3, <1>4
<1>. QED
  BY <1>2, <1>5, <1>6, SeatsKept

\* A seat that changes.
LEMMA SeatChanged ==
  ASSUME AwardsTyped, NEW a \in Accounts, NEW i \in DOMAIN memberships[a], NEW n \in Seat,
         memberships' = [memberships EXCEPT ![a][i] = n]
  PROVE  /\ memberships' \in [Accounts -> Seq(Seat)]
         /\ memberships'[a] = [memberships[a] EXCEPT ![i] = n]
         /\ DOMAIN memberships'[a] = DOMAIN memberships[a]
         /\ Len(memberships'[a]) = Len(memberships[a])
         /\ memberships'[a][i] = n
         /\ \A j \in DOMAIN memberships[a] \ {i} : memberships'[a][j] = memberships[a][j]
         /\ \A b \in Accounts \ {a} : memberships'[b] = memberships[b]
<1>1. memberships[a] \in Seq(Seat) /\ memberships \in [Accounts -> Seq(Seat)]
  BY DEF AwardsTyped
<1>2. /\ memberships'[a] = [memberships[a] EXCEPT ![i] = n]
      /\ memberships' = [memberships EXCEPT ![a] = memberships'[a]]
      /\ \A b \in Accounts \ {a} : memberships'[b] = memberships[b]
  BY <1>1
<1>3. memberships'[a] \in Seq(Seat) /\ Len(memberships'[a]) = Len(memberships[a])
      /\ DOMAIN memberships'[a] = DOMAIN memberships[a]
  BY <1>1, <1>2
<1>4. memberships' \in [Accounts -> Seq(Seat)]
  BY <1>1, <1>2, <1>3
<1>. QED
  BY <1>1, <1>2, <1>3, <1>4

LEMMA SeatImproved ==
  ASSUME AwardsTyped, NEW a \in Accounts, NEW i \in DOMAIN memberships[a], NEW n \in Seat,
         memberships' = [memberships EXCEPT ![a][i] = n],
         memberships[a][i].first => n.first, n.group = memberships[a][i].group,
         memberships[a][i].paidOut => n.paidOut, memberships[a][i].over => n.over,
         memberships[a][i].paid <= n.paid,
         Prizes!completedOnTime(memberships[a][i]) => Prizes!completedOnTime(n)
  PROVE  \A b \in Accounts : SeatsGrow(b)
<1>1. SeatsGrow(a)
  <2>1. \A j \in DOMAIN memberships[a] : memberships[a][j].paid <= memberships[a][j].paid
    <3>1. \A j \in DOMAIN memberships[a] : memberships[a][j] \in Seat
      BY DEF AwardsTyped
    <3>. QED
      BY <3>1, PrizesAssumption DEF Seat
  <2>2. \A j \in DOMAIN memberships[a] \ {i} : memberships'[a][j] = memberships[a][j]
    BY SeatChanged
  <2>3. memberships'[a][i] = n /\ DOMAIN memberships'[a] = DOMAIN memberships[a]
    BY SeatChanged
  <2>. QED
    BY <2>1, <2>2, <2>3 DEF SeatsGrow
<1>2. \A b \in Accounts \ {a} : SeatsGrow(b)
  BY SeatChanged, SeatsKept
<1>. QED
  BY <1>1, <1>2

LEMMA AwardBegun ==
  ASSUME AwardsTyped, NEW r \in Requests, NEW pc \in AwardStage, NEW a \in Accounts, NEW pod \in Nat,
         Prizes!Begin(r, pc, a, pod)
  PROVE  /\ awardRequests[r] = Prizes!Idle
         /\ awardRequests' \in [Requests -> AwardRequest]
         /\ awardRequests'[r].pc = pc /\ awardRequests'[r].who = a
         /\ awardRequests'[r].pod = pod /\ awardRequests'[r].todo = <<>>
         /\ \A s \in Requests \ {r} : awardRequests'[s] = awardRequests[s]
<1>1. PICK q : q = [Prizes!Idle EXCEPT !.pc = pc, !.who = a, !.pod = pod]
  OBVIOUS
<1>2. q \in AwardRequest /\ q.pc = pc /\ q.who = a /\ q.pod = pod /\ q.todo = <<>>
  BY <1>1, IdleAwardRequest DEF AwardRequest
<1>3. awardRequests' = [awardRequests EXCEPT ![r] = q]
  BY <1>1 DEF Prizes!Begin
<1>. QED
  BY <1>2, <1>3 DEF AwardsTyped, Prizes!Begin

\* A request that begins with what an account has just done.
LEMMA AwardsBegin ==
  ASSUME AwardsInv, NEW r \in Requests, NEW pc \in {"joined", "completed", "accepted", "paid"},
         NEW a \in Accounts, NEW pod \in Nat, Prizes!Begin(r, pc, a, pod),
         memberships' \in [Accounts -> Seq(Seat)], invites' \in [Accounts -> Seq(Invitation)],
         months' \in [Accounts -> SUBSET Nat], \A b \in Accounts : Grows(b),
         UNCHANGED <<month, awards, marked>>,
         pc = "joined" => pod \in DOMAIN memberships'[a],
         pc = "accepted" => pod \in DOMAIN invites'[a],
         pc = "completed" => pod \in DOMAIN memberships'[a] /\ memberships'[a][pod].paidOut
  PROVE  AwardsInv'
<1>1. PICK q : q = awardRequests'[r]
  OBVIOUS
<1>2. /\ awardRequests' \in [Requests -> AwardRequest]
      /\ q.pc = pc /\ q.who = a /\ q.pod = pod
      /\ \A s \in Requests \ {r} : awardRequests'[s] = awardRequests[s]
  BY <1>1, AwardBegun DEF AwardsInv, AwardStage
<1>3. AwardsTyped'
  BY <1>2 DEF AwardsInv, AwardsTyped
<1>4. AccountsGrow
  BY DEF AccountsGrow, Grows, SeatsGrow, InvitesGrow
<1>5. AwardRequestSound(awardRequests[r])'
  BY <1>1, <1>2 DEF AwardRequestSound, HasPaidOut
<1>6. \A s \in Requests : awardRequests'[s] = awardRequests[s]
                            \/ AwardRequestSound(awardRequests[s])'
  BY <1>2, <1>5
<1>7. AwardsTyped
  BY DEF AwardsInv
<1>. QED
  BY <1>3, <1>4, <1>6, AwardsMove

\* What happens without a request.
LEMMA AwardsRest ==
  ASSUME AwardsInv, UNCHANGED <<awards, awardRequests>>,
         memberships' \in [Accounts -> Seq(Seat)], invites' \in [Accounts -> Seq(Invitation)],
         months' \in [Accounts -> SUBSET Nat], month' \in Nat, AccountsGrow
  PROVE  AwardsInv'
<1>1. AwardsTyped'
  BY DEF AwardsInv, AwardsTyped
<1>. QED
  BY <1>1, AwardsMove

LEMMA JoinPodKeepsAwards ==
  ASSUME AwardsInv, NEW r \in Requests, NEW a \in Accounts, NEW first \in BOOLEAN, NEW g \in Groups,
         Prizes!JoinPod(r, a, first, g)
  PROVE  AwardsInv'
<1>1. AwardsTyped /\ memberships[a] \in Seq(Seat)
  BY DEF AwardsInv, AwardsTyped
<1>2. Prizes!TakeSeat(a, first, g, FALSE) /\ UNCHANGED <<invites, month, months, awards, marked>>
  BY DEF Prizes!JoinPod
<1>3. /\ memberships' \in [Accounts -> Seq(Seat)] /\ \A b \in Accounts : SeatsGrow(b)
      /\ memberships'[a] = Append(memberships[a], FreeSeat(first, g, FALSE))
  BY <1>1, <1>2, SeatTaken
<1>4. PICK n : n = Len(memberships'[a])
  OBVIOUS
<1>5. Prizes!Begin(r, "joined", a, n)
  BY <1>4 DEF Prizes!JoinPod
<1>6. n \in Nat /\ n \in DOMAIN memberships'[a]
  BY <1>1, <1>3, <1>4
<1>7. \A b \in Accounts : Grows(b)
  BY <1>1, <1>2, <1>3, InvitesKept DEF Grows
<1>8. invites' \in [Accounts -> Seq(Invitation)] /\ months' \in [Accounts -> SUBSET Nat]
  BY <1>1, <1>2 DEF AwardsTyped
<1>. QED
  BY <1>2, <1>3, <1>5, <1>6, <1>7, <1>8, AwardsBegin

LEMMA CompleteMembershipKeepsAwards ==
  ASSUME AwardsInv, NEW r \in Requests, NEW a \in Accounts, NEW i, Prizes!CompleteMembership(r, a, i)
  PROVE  AwardsInv'
<1>1. AwardsTyped /\ memberships[a] \in Seq(Seat) /\ i \in DOMAIN memberships[a]
      /\ memberships[a][i] \in Seat
  BY DEF AwardsInv, AwardsTyped, Prizes!CompleteMembership
<1>2. /\ Prizes!Begin(r, "completed", a, i)
      /\ UNCHANGED <<invites, month, months, awards, marked>>
  BY DEF Prizes!CompleteMembership
<1>3. PICK n : n = [memberships[a][i] EXCEPT !.paidOut = TRUE]
  OBVIOUS
<1>4. /\ n \in Seat /\ n.paidOut /\ n.paid = memberships[a][i].paid
      /\ n.group = memberships[a][i].group /\ n.first = memberships[a][i].first
      /\ n.over = memberships[a][i].over /\ n.late = memberships[a][i].late
  BY <1>1, <1>3 DEF Seat
<1>5. memberships' = [memberships EXCEPT ![a][i] = n]
  BY <1>1, <1>3 DEF Prizes!CompleteMembership
<1>6. memberships[a][i].paid <= n.paid
  BY <1>1, <1>4, PrizesAssumption DEF Seat
<1>7. Prizes!completedOnTime(memberships[a][i]) => Prizes!completedOnTime(n)
  BY <1>4 DEF Prizes!completedOnTime
<1>8. \A b \in Accounts : SeatsGrow(b)
  BY <1>1, <1>4, <1>5, <1>6, <1>7, SeatImproved
<1>9. /\ memberships' \in [Accounts -> Seq(Seat)] /\ memberships'[a][i] = n
      /\ i \in DOMAIN memberships'[a] /\ i \in Nat
  <2>1. i \in Nat
    BY <1>1
  <2>2. /\ memberships' \in [Accounts -> Seq(Seat)] /\ memberships'[a][i] = n
        /\ DOMAIN memberships'[a] = DOMAIN memberships[a]
    BY <1>1, <1>4, <1>5, SeatChanged
  <2>. QED
    BY <1>1, <2>1, <2>2
<1>10. \A b \in Accounts : Grows(b)
  BY <1>1, <1>2, <1>8, InvitesKept DEF Grows
<1>11. invites' \in [Accounts -> Seq(Invitation)] /\ months' \in [Accounts -> SUBSET Nat]
  BY <1>1, <1>2 DEF AwardsTyped
<1>. QED
  BY <1>2, <1>4, <1>9, <1>10, <1>11, AwardsBegin

LEMMA InviteAccepted ==
  ASSUME AwardsTyped, NEW a \in Accounts, NEW p \in DOMAIN invites[a],
         invites[a][p].accepted < invites[a][p].total,
         invites' = [invites EXCEPT ![a][p].accepted = @ + 1]
  PROVE  /\ invites' \in [Accounts -> Seq(Invitation)] /\ p \in DOMAIN invites'[a] /\ p \in Nat
         /\ DOMAIN invites'[a] = DOMAIN invites[a]
         /\ invites'[a][p] = [invites[a][p] EXCEPT !.accepted = @ + 1]
         /\ \A j \in DOMAIN invites[a] \ {p} : invites'[a][j] = invites[a][j]
         /\ \A b \in Accounts \ {a} : invites'[b] = invites[b]
         /\ \A b \in Accounts : InvitesGrow(b)
<1>1. invites[a] \in Seq(Invitation) /\ invites \in [Accounts -> Seq(Invitation)]
      /\ \A j \in DOMAIN invites[a] : invites[a][j] \in Invitation
  BY DEF AwardsTyped
<1>2. PICK n : n = [invites[a][p] EXCEPT !.accepted = @ + 1]
  OBVIOUS
<1>3. n \in Invitation /\ n.accepted = invites[a][p].accepted + 1 /\ n.total = invites[a][p].total
  BY <1>1, <1>2 DEF Invitation
<1>4. invites' = [invites EXCEPT ![a][p] = n]
  BY <1>2
<1>5. /\ invites'[a] = [invites[a] EXCEPT ![p] = n]
      /\ invites' = [invites EXCEPT ![a] = invites'[a]]
      /\ \A b \in Accounts \ {a} : invites'[b] = invites[b]
  BY <1>1, <1>4
<1>6. /\ invites'[a] \in Seq(Invitation) /\ DOMAIN invites'[a] = DOMAIN invites[a]
      /\ invites'[a][p] = n /\ p \in Nat
      /\ \A j \in DOMAIN invites[a] \ {p} : invites'[a][j] = invites[a][j]
  <2>1. invites'[a] \in Seq(Invitation)
    <3>1. /\ invites[a] \in [1..Len(invites[a]) -> Invitation] /\ Len(invites[a]) \in Nat
          /\ p \in 1..Len(invites[a])
      BY <1>1
    <3>2. n \in Invitation /\ invites'[a] = [invites[a] EXCEPT ![p] = n]
      BY <1>3, <1>5
    <3>3. invites'[a] \in [1..Len(invites[a]) -> Invitation]
      BY <3>1, <3>2
    <3>. QED
      BY <3>1, <3>3, SeqDef
  <2>2. DOMAIN invites'[a] = DOMAIN invites[a] /\ invites'[a][p] = n
    BY <1>5
  <2>3. p \in Nat
    BY <1>1
  <2>4. \A j \in DOMAIN invites[a] \ {p} : invites'[a][j] = invites[a][j]
    BY <1>5
  <2>. QED
    BY <2>1, <2>2, <2>3, <2>4
<1>7. invites' \in [Accounts -> Seq(Invitation)]
  BY <1>1, <1>5, <1>6
<1>8. InvitesGrow(a)
  <2>1. \A j \in DOMAIN invites[a] : invites[a][j].accepted <= invites[a][j].accepted
    BY <1>1 DEF Invitation
  <2>2. invites[a][p].accepted <= n.accepted /\ invites[a][p].accepted # invites[a][p].total
    BY <1>1, <1>3 DEF Invitation
  <2>. QED
    BY <1>6, <2>1, <2>2 DEF InvitesGrow
<1>. QED
  BY <1>2, <1>5, <1>6, <1>7, <1>8, InvitesKept

LEMMA AcceptInviteKeepsAwards ==
  ASSUME AwardsInv, NEW r \in Requests, NEW a \in Accounts, NEW p, Prizes!AcceptInvite(r, a, p)
  PROVE  AwardsInv'
<1>1. AwardsTyped /\ p \in DOMAIN invites[a]
  BY DEF AwardsInv, Prizes!AcceptInvite
<1>2. /\ Prizes!Begin(r, "accepted", a, p)
      /\ UNCHANGED <<memberships, month, months, awards, marked>>
  BY DEF Prizes!AcceptInvite
<1>3. /\ invites' \in [Accounts -> Seq(Invitation)] /\ p \in DOMAIN invites'[a] /\ p \in Nat
      /\ \A b \in Accounts : InvitesGrow(b)
  BY <1>1, InviteAccepted DEF Prizes!AcceptInvite
<1>4. \A b \in Accounts : Grows(b)
  BY <1>1, <1>2, <1>3, SeatsKept DEF Grows
<1>5. memberships' \in [Accounts -> Seq(Seat)] /\ months' \in [Accounts -> SUBSET Nat]
  BY <1>1, <1>2 DEF AwardsTyped
<1>. QED
  BY <1>2, <1>3, <1>4, <1>5, AwardsBegin

LEMMA RecordPaymentIs ==
  ASSUME AwardsTyped, NEW r \in Requests, NEW a \in Accounts, NEW i, NEW late \in BOOLEAN,
         Prizes!RecordPayment(r, a, i, late)
  PROVE  /\ i \in DOMAIN memberships[a] /\ i \in Nat
         /\ \E n \in Seat :
              /\ memberships' = [memberships EXCEPT ![a][i] = n]
              /\ n.paid = memberships[a][i].paid + 1 /\ n.custom = memberships[a][i].custom
              /\ n.first = memberships[a][i].first /\ n.group = memberships[a][i].group
              /\ n.paidOut = memberships[a][i].paidOut /\ n.over = memberships[a][i].over
         /\ memberships' \in [Accounts -> Seq(Seat)]
         /\ months' \in [Accounts -> SUBSET Nat]
         /\ \A b \in Accounts \ {a} : months'[b] = months[b]
         /\ \A b \in Accounts : Grows(b)
<1>1. /\ i \in DOMAIN memberships[a] /\ i \in Nat /\ memberships[a][i] \in Seat
      /\ memberships[a][i].paid < Expected
  BY DEF AwardsTyped, Prizes!RecordPayment
<1>2. PICK n : n = [memberships[a][i] EXCEPT !.paid = @ + 1, !.late = @ \/ late]
  OBVIOUS
<1>3. /\ n.paid = memberships[a][i].paid + 1 /\ n.custom = memberships[a][i].custom
      /\ n.first = memberships[a][i].first /\ n.group = memberships[a][i].group
      /\ n.paidOut = memberships[a][i].paidOut /\ n.over = memberships[a][i].over
  BY <1>1, <1>2 DEF Seat
<1>4. n \in Seat
  <2>1. memberships[a][i].paid + 1 \in 0..Expected /\ (memberships[a][i].late \/ late) \in BOOLEAN
    BY <1>1, PrizesAssumption DEF Seat
  <2>. QED
    BY <1>1, <1>2, <2>1 DEF Seat
<1>5. memberships' = [memberships EXCEPT ![a][i] = n]
  <2>1. memberships' = [memberships EXCEPT ![a][i].paid = @ + 1, ![a][i].late = @ \/ late]
    BY DEF Prizes!RecordPayment
  <2>2. memberships[a] \in Seq(Seat) /\ memberships \in [Accounts -> Seq(Seat)]
    BY DEF AwardsTyped
  <2>. QED
    BY <1>1, <1>2, <2>1, <2>2 DEF Seat
<1>6. /\ memberships[a][i].paid <= n.paid
      /\ Prizes!completedOnTime(memberships[a][i]) => Prizes!completedOnTime(n)
  BY <1>1, <1>3, PrizesAssumption DEF Prizes!completedOnTime, Seat
<1>7. memberships' \in [Accounts -> Seq(Seat)] /\ \A b \in Accounts : SeatsGrow(b)
  <2>1. memberships' \in [Accounts -> Seq(Seat)]
    BY <1>1, <1>4, <1>5, SeatChanged
  <2>2. /\ memberships[a][i].first => n.first
        /\ memberships[a][i].paidOut => n.paidOut
        /\ memberships[a][i].over => n.over
    BY <1>3
  <2>3. \A b \in Accounts : SeatsGrow(b)
    BY <1>1, <1>3, <1>4, <1>5, <1>6, <2>2, SeatImproved
  <2>. QED
    BY <2>1, <2>3
<1>8. /\ months' \in [Accounts -> SUBSET Nat] /\ months'[a] = months[a] \cup {month}
      /\ \A b \in Accounts \ {a} : months'[b] = months[b]
  BY DEF Prizes!RecordPayment, AwardsTyped
<1>9. \A b \in Accounts : InvitesGrow(b)
  BY InvitesKept DEF Prizes!RecordPayment
<1>10. \A b \in Accounts : Grows(b)
  BY <1>7, <1>8, <1>9 DEF Grows
<1>. QED
  BY <1>1, <1>3, <1>4, <1>5, <1>7, <1>8, <1>10

LEMMA RecordPaymentKeepsAwards ==
  ASSUME AwardsInv, NEW r \in Requests, NEW a \in Accounts, NEW i, NEW late \in BOOLEAN,
         Prizes!RecordPayment(r, a, i, late)
  PROVE  AwardsInv'
<1>1. AwardsTyped /\ invites' \in [Accounts -> Seq(Invitation)]
  BY DEF AwardsInv, AwardsTyped, Prizes!RecordPayment
<1>2. Prizes!Begin(r, "paid", a, i) /\ UNCHANGED <<month, awards, marked>>
  BY DEF Prizes!RecordPayment
<1>3. /\ i \in Nat /\ memberships' \in [Accounts -> Seq(Seat)]
      /\ months' \in [Accounts -> SUBSET Nat] /\ \A b \in Accounts : Grows(b)
  BY <1>1, RecordPaymentIs
<1>. QED
  BY <1>1, <1>2, <1>3, AwardsBegin

LEMMA GrowthOfAll ==
  ASSUME \A b \in Accounts : Grows(b), UNCHANGED marked PROVE AccountsGrow
BY DEF AccountsGrow, Grows, SeatsGrow, InvitesGrow

LEMMA SitInCustomPodKeepsAwards ==
  ASSUME AwardsInv, NEW a \in Accounts, NEW g \in Groups, Prizes!SitInCustomPod(a, g)
  PROVE  AwardsInv'
<1>1. AwardsTyped
  BY DEF AwardsInv
<1>2. /\ Prizes!TakeSeat(a, FALSE, g, TRUE)
      /\ UNCHANGED <<invites, month, months, awards, awardRequests, marked>>
  BY DEF Prizes!SitInCustomPod
<1>3. memberships' \in [Accounts -> Seq(Seat)] /\ \A b \in Accounts : SeatsGrow(b)
  BY <1>1, <1>2, SeatTaken
<1>4. AccountsGrow
  BY <1>1, <1>2, <1>3, InvitesKept, GrowthOfAll DEF Grows
<1>5. /\ invites' \in [Accounts -> Seq(Invitation)] /\ months' \in [Accounts -> SUBSET Nat]
      /\ month' \in Nat
  BY <1>1, <1>2 DEF AwardsTyped
<1>. QED
  BY <1>2, <1>3, <1>4, <1>5, AwardsRest

LEMMA InviteSent ==
  ASSUME AwardsTyped, NEW a \in Accounts, NEW total \in Nat,
         invites' = [invites EXCEPT ![a] = Append(@, [total |-> total, accepted |-> 0])]
  PROVE  /\ invites' \in [Accounts -> Seq(Invitation)]
         /\ \A b \in Accounts \ {a} : invites'[b] = invites[b]
         /\ DOMAIN invites[a] \subseteq DOMAIN invites'[a]
         /\ \A p \in DOMAIN invites[a] : invites'[a][p] = invites[a][p]
         /\ \A p \in DOMAIN invites'[a] \ DOMAIN invites[a] :
              invites'[a][p].accepted = 0 /\ invites'[a][p].total = total
         /\ \A b \in Accounts : InvitesGrow(b)
<1>1. invites[a] \in Seq(Invitation) /\ invites \in [Accounts -> Seq(Invitation)]
      /\ \A j \in DOMAIN invites[a] : invites[a][j] \in Invitation
  BY DEF AwardsTyped
<1>2. PICK n : n = [total |-> total, accepted |-> 0]
  OBVIOUS
<1>3. n \in Invitation /\ n.accepted = 0 /\ n.total = total
  BY <1>2 DEF Invitation
<1>4. /\ invites'[a] = Append(invites[a], n)
      /\ invites' = [invites EXCEPT ![a] = invites'[a]]
      /\ \A b \in Accounts \ {a} : invites'[b] = invites[b]
  BY <1>1, <1>2
<1>5. /\ invites'[a] \in Seq(Invitation) /\ Len(invites'[a]) = Len(invites[a]) + 1
      /\ \A p \in 1..Len(invites[a]) : invites'[a][p] = invites[a][p]
      /\ invites'[a][Len(invites[a]) + 1] = n
  BY <1>1, <1>3, <1>4, AppendProperties
<1>6. DOMAIN invites[a] = 1..Len(invites[a]) /\ DOMAIN invites'[a] = 1..Len(invites'[a])
      /\ Len(invites[a]) \in Nat
  BY <1>1, <1>5
<1>7. /\ DOMAIN invites[a] \subseteq DOMAIN invites'[a]
      /\ \A p \in DOMAIN invites[a] : invites'[a][p] = invites[a][p]
      /\ \A p \in DOMAIN invites'[a] \ DOMAIN invites[a] : invites'[a][p] = n
  <2>1. ASSUME NEW p \in DOMAIN invites'[a] \ DOMAIN invites[a] PROVE p = Len(invites[a]) + 1
    BY <1>5, <1>6
  <2>. QED
    BY <1>5, <1>6, <2>1
<1>8. InvitesGrow(a)
  <2>1. \A j \in DOMAIN invites[a] : invites[a][j].accepted <= invites[a][j].accepted
    BY <1>1 DEF Invitation
  <2>. QED
    BY <1>7, <2>1 DEF InvitesGrow
<1>9. invites' \in [Accounts -> Seq(Invitation)]
  BY <1>1, <1>4, <1>5
<1>. QED
  BY <1>3, <1>4, <1>7, <1>8, <1>9, InvitesKept

LEMMA CreateCustomPodKeepsAwards ==
  ASSUME AwardsInv, NEW a \in Accounts, NEW g \in Groups, NEW total \in Nat,
         Prizes!CreateCustomPod(a, g, total)
  PROVE  AwardsInv'
<1>1. AwardsTyped
  BY DEF AwardsInv
<1>2. /\ Prizes!TakeSeat(a, TRUE, g, TRUE)
      /\ UNCHANGED <<month, months, awards, awardRequests, marked>>
  BY DEF Prizes!CreateCustomPod
<1>3. memberships' \in [Accounts -> Seq(Seat)] /\ \A b \in Accounts : SeatsGrow(b)
  BY <1>1, <1>2, SeatTaken
<1>4. invites' \in [Accounts -> Seq(Invitation)] /\ \A b \in Accounts : InvitesGrow(b)
  BY <1>1, InviteSent DEF Prizes!CreateCustomPod
<1>5. AccountsGrow
  BY <1>2, <1>3, <1>4, GrowthOfAll DEF Grows
<1>6. months' \in [Accounts -> SUBSET Nat] /\ month' \in Nat
  BY <1>1, <1>2 DEF AwardsTyped
<1>. QED
  BY <1>2, <1>3, <1>4, <1>5, <1>6, AwardsRest

LEMMA CompletePodKeepsAwards ==
  ASSUME AwardsInv, NEW a \in Accounts, NEW i, Prizes!CompletePod(a, i)
  PROVE  AwardsInv'
<1>1. AwardsTyped /\ i \in DOMAIN memberships[a] /\ memberships[a][i] \in Seat
  BY DEF AwardsInv, AwardsTyped, Prizes!CompletePod
<1>2. UNCHANGED <<invites, month, months, awards, awardRequests, marked>>
  BY DEF Prizes!CompletePod
<1>3. PICK n : n = [memberships[a][i] EXCEPT !.over = TRUE]
  OBVIOUS
<1>4. /\ n \in Seat /\ n.over /\ n.paid = memberships[a][i].paid
      /\ n.group = memberships[a][i].group /\ n.first = memberships[a][i].first
      /\ n.paidOut = memberships[a][i].paidOut /\ n.late = memberships[a][i].late
  BY <1>1, <1>3 DEF Seat
<1>5. memberships' = [memberships EXCEPT ![a][i] = n]
  BY <1>1, <1>3 DEF Prizes!CompletePod
<1>6. /\ memberships[a][i].paid <= n.paid
      /\ Prizes!completedOnTime(memberships[a][i]) => Prizes!completedOnTime(n)
  BY <1>1, <1>4, PrizesAssumption DEF Seat, Prizes!completedOnTime
<1>7. memberships' \in [Accounts -> Seq(Seat)] /\ \A b \in Accounts : SeatsGrow(b)
  BY <1>1, <1>4, <1>5, <1>6, SeatChanged, SeatImproved
<1>8. AccountsGrow
  BY <1>1, <1>2, <1>7, InvitesKept, GrowthOfAll DEF Grows
<1>9. /\ invites' \in [Accounts -> Seq(Invitation)] /\ months' \in [Accounts -> SUBSET Nat]
      /\ month' \in Nat
  BY <1>1, <1>2 DEF AwardsTyped
<1>. QED
  BY <1>2, <1>7, <1>8, <1>9, AwardsRest

LEMMA MarkPayoutKeepsAwards ==
  ASSUME AwardsInv, NEW a \in Accounts, NEW i, Prizes!MarkPayout(a, i)
  PROVE  AwardsInv'
<1>1. AwardsTyped /\ i \in DOMAIN memberships[a] /\ memberships[a][i] \in Seat
  BY DEF AwardsInv, AwardsTyped, Prizes!MarkPayout
<1>2. UNCHANGED <<invites, month, months, awards, awardRequests>> /\ marked' = marked \cup {a}
  BY DEF Prizes!MarkPayout
<1>3. PICK n : n = [memberships[a][i] EXCEPT !.paidOut = ~@]
  OBVIOUS
<1>4. n \in Seat
  <2>1. (~memberships[a][i].paidOut) \in BOOLEAN
    OBVIOUS
  <2>. QED
    BY <1>1, <1>3, <2>1 DEF Seat
<1>5. memberships' = [memberships EXCEPT ![a][i] = n]
  BY <1>1, <1>3 DEF Prizes!MarkPayout
<1>6. /\ memberships' \in [Accounts -> Seq(Seat)] /\ DOMAIN memberships'[a] = DOMAIN memberships[a]
      /\ \A b \in Accounts \ {a} : memberships'[b] = memberships[b]
  BY <1>1, <1>4, <1>5, SeatChanged
<1>7. \A b \in Accounts \ {a} : Grows(b)
  BY <1>1, <1>2, <1>6, SeatsKept, InvitesKept DEF Grows
<1>8. AccountsGrow
  BY <1>2, <1>6, <1>7 DEF AccountsGrow
<1>9. /\ invites' \in [Accounts -> Seq(Invitation)] /\ months' \in [Accounts -> SUBSET Nat]
      /\ month' \in Nat
  BY <1>1, <1>2 DEF AwardsTyped
<1>. QED
  BY <1>2, <1>6, <1>8, <1>9, AwardsRest

LEMMA TickKeepsAwards ==
  ASSUME AwardsInv, Prizes!Tick
  PROVE  AwardsInv'
<1>1. AwardsTyped /\ UNCHANGED <<memberships, invites, months, awards, awardRequests, marked>>
      /\ month' = month + 1
  BY DEF AwardsInv, Prizes!Tick
<1>2. AccountsGrow
  BY <1>1, NothingGrows
<1>. QED
  BY <1>1, <1>2, AwardsRest DEF AwardsTyped

-----------------------------------------------------------------------------
\* What requests award is complete; what is ahead of them they go on to award.
LEMMA HasJoined ==
  ASSUME NEW S, NEW s \in Seq(S), NEW t \in Seq(S), NEW x
  PROVE  Has(s, x) \/ Has(t, x) => Has(s \o t, x)
<1>1. /\ Len(s) \in Nat /\ Len(t) \in Nat /\ DOMAIN s = 1..Len(s) /\ DOMAIN t = 1..Len(t)
      /\ DOMAIN (s \o t) = 1..(Len(s) + Len(t))
      /\ \A i \in 1..Len(s) : (s \o t)[i] = s[i]
      /\ \A i \in 1..Len(t) : (s \o t)[Len(s) + i] = t[i]
  <2>1. \A i \in 1..(Len(s) + Len(t)) :
          (s \o t)[i] = IF i <= Len(s) THEN s[i] ELSE t[i - Len(s)]
    BY ConcatProperties
  <2>2. Len(s) \in Nat /\ Len(t) \in Nat /\ DOMAIN s = 1..Len(s) /\ DOMAIN t = 1..Len(t)
    OBVIOUS
  <2>3. s \o t \in Seq(S) /\ Len(s \o t) = Len(s) + Len(t)
    BY ConcatProperties
  <2>4. DOMAIN (s \o t) = 1..(Len(s) + Len(t))
    BY <2>3
  <2>5. \A i \in 1..Len(s) : (s \o t)[i] = s[i]
    BY <2>1, <2>2
  <2>6. ASSUME NEW i \in 1..Len(t) PROVE (s \o t)[Len(s) + i] = t[i]
    <3>1. Len(s) + i \in 1..(Len(s) + Len(t)) /\ ~(Len(s) + i <= Len(s)) /\ (Len(s) + i) - Len(s) = i
      BY <2>2
    <3>. QED
      BY <2>1, <3>1
  <2>. QED
    BY <2>2, <2>4, <2>5, <2>6
<1>2. ASSUME Has(s, x) PROVE Has(s \o t, x)
  BY <1>1, <1>2 DEF Has
<1>3. ASSUME Has(t, x) PROVE Has(s \o t, x)
  <2>1. PICK i \in 1..Len(t) : t[i] = x
    BY <1>1, <1>3 DEF Has
  <2>2. Len(s) + i \in DOMAIN (s \o t) /\ (s \o t)[Len(s) + i] = x
    BY <1>1, <2>1
  <2>. QED
    BY <2>2 DEF Has
<1>. QED
  BY <1>2, <1>3

LEMMA EarnedIs ==
  ASSUME NEW S, NEW code \in S, NEW c, NEW e, e = Prizes!Earned(code, c)
  PROVE  e \in Seq(S)
BY DEF Prizes!Earned

LEMMA HasEarned == ASSUME NEW code, NEW c, c PROVE Has(Prizes!Earned(code, c), code)
BY DEF Has, Prizes!Earned

LEMMA JoinedTogether == ASSUME NEW S, NEW s \in Seq(S), NEW t \in Seq(S) PROVE s \o t \in Seq(S)
BY ConcatProperties

\* What a request goes on to award, with KOAJO_OG to be decided later.
AwardedNext(q, todo) ==
  /\ todo \in Seq(Prizes!AchievementCode \ {"KOAJO_OG"})
  /\ q.who \in Accounts \ marked => todo \in Seq(Due(q))
  /\ \A code \in Prizes!Completed(q.who) : AheadOf(q, code) => Has(todo, code)

Evaluated(r) ==
  \E pc \in {"joined", "completed", "accepted", "paid"} : \E todo :
    AwardedNext(awardRequests[r], todo) /\ Prizes!Evaluate(r, pc, todo)

LEMMA EvaluateKeepsAwards ==
  ASSUME AwardsInv, NEW r \in Requests, Evaluated(r)
  PROVE  AwardsInv'
<1>. PICK pc \in {"joined", "completed", "accepted", "paid"} : \E todo :
       AwardedNext(awardRequests[r], todo) /\ Prizes!Evaluate(r, pc, todo)
  BY DEF Evaluated
<1>. PICK todo : AwardedNext(awardRequests[r], todo) /\ Prizes!Evaluate(r, pc, todo)
  OBVIOUS
<1>0. todo \in Seq(Prizes!AchievementCode)
  <2>1. todo \in Seq(Prizes!AchievementCode \ {"KOAJO_OG"})
    BY DEF AwardedNext
  <2>2. \A i \in 1..Len(todo) : todo[i] \in Prizes!AchievementCode
    BY <2>1
  <2>3. todo \in [1..Len(todo) -> Prizes!AchievementCode \ {"KOAJO_OG"}] /\ Len(todo) \in Nat
    BY <2>1
  <2>4. todo \in [1..Len(todo) -> Prizes!AchievementCode]
    BY <2>2, <2>3
  <2>. QED
    BY <2>3, <2>4, SeqDef
<1>1. PICK p : p = awardRequests[r]
  OBVIOUS
<1>2. p \in AwardRequest /\ AwardRequestSound(p) /\ p.pc = pc
  BY <1>1 DEF AwardsInv, AwardsTyped, Prizes!Evaluate
<1>3. PICK q : q = [p EXCEPT !.pc = "award", !.todo = todo]
  OBVIOUS
<1>4. /\ q \in AwardRequest /\ q.pc = "award" /\ q.todo = todo /\ q.who = p.who /\ q.pod = p.pod
      /\ awardRequests' = [awardRequests EXCEPT ![r] = q]
  BY <1>0, <1>1, <1>2, <1>3 DEF AwardRequest, AwardStage, Prizes!Evaluate
<1>5. Due(q) = Due(p)
  BY <1>4 DEF Due, HasPaidOut
<1>6. p.who \in Accounts
  BY <1>2 DEF AwardRequestSound
<1>7. AwardRequestSound(q)
  BY <1>1, <1>4, <1>5, <1>6 DEF AwardRequestSound, AwardedNext
<1>. QED
  BY <1>4, <1>7, AwardRequestMoves DEF Prizes!Evaluate

LEMMA ReachedIsDue ==
  ASSUME AwardsTyped, NEW q, q.who \in Accounts, NEW code \in Prizes!AchievementCode,
         Reached(q.who, code)
  PROVE  code \in Due(q)
BY CompletedIsReached DEF Due

LEMMA PodJoinIsEvaluated ==
  ASSUME AwardsInv, NEW r \in Requests, Prizes!handlePodJoin(r)
  PROVE  Evaluated(r)
<1>1. PICK q : q = awardRequests[r]
  OBVIOUS
<1>2. q.pc = "joined" /\ AwardRequestSound(q) /\ AwardsTyped
  BY <1>1 DEF AwardsInv, Prizes!handlePodJoin, Prizes!Evaluate
<1>3. q.who \in Accounts /\ q.pod \in DOMAIN memberships[q.who]
      /\ memberships[q.who] \in Seq(Seat)
  BY <1>2 DEF AwardRequestSound, AwardsTyped
<1>4. Len(memberships[q.who]) \in Nat
  BY <1>3
<1>5. PICK past : past = Len(memberships[q.who]) - 1
  OBVIOUS
<1>6. PICK todo : todo = Prizes!Earned("POD_STARTER", past = 0)
                           \o Prizes!Earned("COMMITMENT_CHAMP", past + 1 >= CommitmentPods)
                           \o Prizes!Earned("EARLY_BIRD", memberships[q.who][q.pod].first)
  OBVIOUS
<1>7. Prizes!Evaluate(r, "joined", todo)
  BY <1>1, <1>5, <1>6 DEF Prizes!handlePodJoin
<1>8. ASSUME NEW S, past = 0 => "POD_STARTER" \in S,
             past + 1 >= CommitmentPods => "COMMITMENT_CHAMP" \in S,
             memberships[q.who][q.pod].first => "EARLY_BIRD" \in S
      PROVE  todo \in Seq(S)
  <2>1. /\ Prizes!Earned("POD_STARTER", past = 0) \in Seq(S)
        /\ Prizes!Earned("COMMITMENT_CHAMP", past + 1 >= CommitmentPods) \in Seq(S)
        /\ Prizes!Earned("EARLY_BIRD", memberships[q.who][q.pod].first) \in Seq(S)
    BY <1>8 DEF Prizes!Earned
  <2>. QED
    BY <1>6, <2>1, JoinedTogether
<1>9. todo \in Seq(Prizes!AchievementCode \ {"KOAJO_OG"})
  BY <1>8 DEF Prizes!AchievementCode
<1>10. todo \in Seq(Due(q))
  <2>1. past = 0 => Reached(q.who, "POD_STARTER")
    <3>1. ASSUME past = 0 PROVE Len(memberships[q.who]) >= 1
      <4>1. PICK n \in Nat : n = Len(memberships[q.who])
        BY <1>4
      <4>2. n - 1 = 0
        BY <1>5, <3>1, <4>1
      <4>3. n = 1
        BY <4>2
      <4>. QED
        BY <4>1, <4>3
    <3>. QED
      BY <3>1 DEF Reached
  <2>2. past + 1 >= CommitmentPods => Reached(q.who, "COMMITMENT_CHAMP")
    <3>1. past + 1 = Len(memberships[q.who])
      BY <1>4, <1>5
    <3>. QED
      BY <3>1 DEF Reached
  <2>3. memberships[q.who][q.pod].first => Reached(q.who, "EARLY_BIRD")
    BY <1>3 DEF Reached
  <2>4. {"POD_STARTER", "COMMITMENT_CHAMP", "EARLY_BIRD"} \subseteq Prizes!AchievementCode
    BY DEF Prizes!AchievementCode
  <2>5. /\ past = 0 => "POD_STARTER" \in Due(q)
        /\ past + 1 >= CommitmentPods => "COMMITMENT_CHAMP" \in Due(q)
        /\ memberships[q.who][q.pod].first => "EARLY_BIRD" \in Due(q)
    BY <1>2, <1>3, <2>1, <2>2, <2>3, <2>4, ReachedIsDue
  <2>. QED
    BY <1>8, <2>5
<1>11. ASSUME NEW code \in Prizes!Completed(q.who), AheadOf(q, code) PROVE Has(todo, code)
  <2>1. PICK e1, e2, e3 :
          /\ e1 = Prizes!Earned("POD_STARTER", past = 0)
          /\ e2 = Prizes!Earned("COMMITMENT_CHAMP", past + 1 >= CommitmentPods)
          /\ e3 = Prizes!Earned("EARLY_BIRD", memberships[q.who][q.pod].first)
    OBVIOUS
  <2>2. /\ e1 \in Seq(Prizes!AchievementCode)
        /\ e2 \in Seq(Prizes!AchievementCode)
        /\ e3 \in Seq(Prizes!AchievementCode)
    BY <2>1, EarnedIs DEF Prizes!AchievementCode
  <2>3. todo = e1 \o e2 \o e3
    BY <1>6, <2>1
  <2>4. Has(e1, code) \/ Has(e2, code) \/ Has(e3, code) => Has(todo, code)
    <3>1. /\ e1 \o e2 \in Seq(Prizes!AchievementCode)
          /\ Has(e1, code) \/ Has(e2, code) => Has(e1 \o e2, code)
      BY <2>2, JoinedTogether, HasJoined
    <3>2. /\ e1 \o e2 \o e3 \in Seq(Prizes!AchievementCode)
          /\ Has(e1 \o e2, code) \/ Has(e3, code) => Has(e1 \o e2 \o e3, code)
      BY <2>2, <3>1, JoinedTogether, HasJoined
    <3>. QED
      BY <2>3, <3>1, <3>2
  <2>5. code \in Prizes!AchievementCode /\ code \in JoinCodes
    BY <1>2, <1>11 DEF AheadOf, Prizes!Completed
  <2>6. Reached(q.who, code)
    BY <1>2, <1>3, <1>11, <2>5, CompletedIsReached
  <2>7. CASE code = "POD_STARTER"
    <3>1. past = 0
      BY <1>2, <1>3, <1>4, <1>5, <1>11, <2>6, <2>7 DEF AheadOf, Reached, Prizes!IsVeteran
    <3>. QED
      BY <2>1, <2>4, <2>7, <3>1, HasEarned
  <2>8. CASE code = "COMMITMENT_CHAMP"
    <3>1. past + 1 >= CommitmentPods
      BY <1>2, <1>3, <1>4, <1>5, <1>11, <2>6, <2>8 DEF AheadOf, Reached, Prizes!IsVeteran
    <3>. QED
      BY <2>1, <2>4, <2>8, <3>1, HasEarned
  <2>9. CASE code = "EARLY_BIRD"
    <3>1. memberships[q.who][q.pod].first
      BY <1>2, <1>3, <1>4, <1>5, <1>11, <2>6, <2>9 DEF AheadOf, Reached, Prizes!IsVeteran
    <3>. QED
      BY <2>1, <2>4, <2>9, <3>1, HasEarned
  <2>. QED
    BY <2>5, <2>7, <2>8, <2>9 DEF JoinCodes
<1>. QED
  BY <1>1, <1>7, <1>9, <1>10, <1>11 DEF Evaluated, AwardedNext

LEMMA PodCompletionIsEvaluated ==
  ASSUME AwardsInv, NEW r \in Requests, Prizes!handlePodCompletion(r)
  PROVE  Evaluated(r)
<1>1. PICK q : q = awardRequests[r]
  OBVIOUS
<1>2. q.pc = "completed" /\ AwardRequestSound(q) /\ AwardsTyped
  BY <1>1 DEF AwardsInv, Prizes!handlePodCompletion, Prizes!Evaluate
<1>3. q.who \in Accounts
  BY <1>2 DEF AwardRequestSound
<1>4. PICK n : n = Prizes!completedPods(q.who)
  OBVIOUS
<1>5. PICK todo : todo = Prizes!Earned("FINANCIALLY_FIT", n >= 1)
                           \o Prizes!Earned("POD_VETERAN", Prizes!IsVeteran(n))
                           \o Prizes!Earned("TEAM_PLAYER", n >= TeamPods)
                           \o Prizes!Earned("FIRST_PAYOUT", n = 1)
                           \o <<"SAVINGS_SPRINTER", "ON_TIME_HERO">>
  OBVIOUS
<1>6. Prizes!Evaluate(r, "completed", todo)
  BY <1>1, <1>4, <1>5 DEF Prizes!handlePodCompletion
<1>7. ASSUME NEW S, n >= 1 => "FINANCIALLY_FIT" \in S, n > VeteranPods => "POD_VETERAN" \in S,
             n = 1 => "FIRST_PAYOUT" \in S,
             {"TEAM_PLAYER", "SAVINGS_SPRINTER", "ON_TIME_HERO"} \subseteq S
      PROVE  todo \in Seq(S)
  <2>1. /\ Prizes!Earned("FINANCIALLY_FIT", n >= 1) \in Seq(S)
        /\ Prizes!Earned("POD_VETERAN", Prizes!IsVeteran(n)) \in Seq(S)
        /\ Prizes!Earned("TEAM_PLAYER", n >= TeamPods) \in Seq(S)
        /\ Prizes!Earned("FIRST_PAYOUT", n = 1) \in Seq(S)
    BY <1>7 DEF Prizes!Earned, Prizes!IsVeteran
  <2>2. <<"SAVINGS_SPRINTER", "ON_TIME_HERO">> \in Seq(S)
    BY <1>7
  <2>. QED
    BY <1>5, <2>1, <2>2, JoinedTogether
<1>8. todo \in Seq(Prizes!AchievementCode \ {"KOAJO_OG"})
  BY <1>7 DEF Prizes!AchievementCode
<1>9. ASSUME q.who \notin marked PROVE todo \in Seq(Due(q))
  <2>1. HasPaidOut(q)
    BY <1>2, <1>3, <1>9 DEF AwardRequestSound
  <2>2. Reached(q.who, "FINANCIALLY_FIT") /\ Reached(q.who, "FIRST_PAYOUT")
    BY <2>1 DEF Reached, HasPaidOut
  <2>3. n > VeteranPods => Reached(q.who, "POD_VETERAN")
    BY <1>4 DEF Reached
  <2>4. {"FINANCIALLY_FIT", "FIRST_PAYOUT", "POD_VETERAN", "TEAM_PLAYER", "SAVINGS_SPRINTER",
         "ON_TIME_HERO"} \subseteq Prizes!AchievementCode
    BY DEF Prizes!AchievementCode
  <2>5. /\ "FINANCIALLY_FIT" \in Due(q) /\ "FIRST_PAYOUT" \in Due(q)
        /\ n > VeteranPods => "POD_VETERAN" \in Due(q)
    BY <1>2, <1>3, <2>2, <2>3, <2>4, ReachedIsDue
  <2>6. {"TEAM_PLAYER", "SAVINGS_SPRINTER", "ON_TIME_HERO"} \subseteq Due(q)
    BY <2>1, <2>4 DEF Due
  <2>. QED
    BY <1>7, <2>5, <2>6
<1>10. ASSUME NEW code \in Prizes!Completed(q.who), AheadOf(q, code) PROVE Has(todo, code)
  <2>1. PICK e1, e2, e3, e4 :
          /\ e1 = Prizes!Earned("FINANCIALLY_FIT", n >= 1)
          /\ e2 = Prizes!Earned("POD_VETERAN", Prizes!IsVeteran(n))
          /\ e3 = Prizes!Earned("TEAM_PLAYER", n >= TeamPods)
          /\ e4 = Prizes!Earned("FIRST_PAYOUT", n = 1)
    OBVIOUS
  <2>2. /\ e1 \in Seq(Prizes!AchievementCode)
        /\ e2 \in Seq(Prizes!AchievementCode)
        /\ e3 \in Seq(Prizes!AchievementCode)
        /\ e4 \in Seq(Prizes!AchievementCode)
    BY <2>1, EarnedIs DEF Prizes!AchievementCode
  <2>3. todo = e1 \o e2 \o e3 \o e4 \o <<"SAVINGS_SPRINTER", "ON_TIME_HERO">>
    BY <1>5, <2>1
  <2>4. Has(e1, code) \/ Has(e2, code) \/ Has(e3, code) \/ Has(e4, code) => Has(todo, code)
    <3>1. /\ e1 \o e2 \in Seq(Prizes!AchievementCode)
          /\ Has(e1, code) \/ Has(e2, code) => Has(e1 \o e2, code)
      BY <2>2, JoinedTogether, HasJoined
    <3>2. /\ e1 \o e2 \o e3 \in Seq(Prizes!AchievementCode)
          /\ Has(e1 \o e2, code) \/ Has(e3, code) => Has(e1 \o e2 \o e3, code)
      BY <2>2, <3>1, JoinedTogether, HasJoined
    <3>3. /\ e1 \o e2 \o e3 \o e4 \in Seq(Prizes!AchievementCode)
          /\ Has(e1 \o e2 \o e3, code) \/ Has(e4, code) => Has(e1 \o e2 \o e3 \o e4, code)
      BY <2>2, <3>2, JoinedTogether, HasJoined
    <3>4. Has(e1 \o e2 \o e3 \o e4, code) => Has(e1 \o e2 \o e3 \o e4 \o <<"SAVINGS_SPRINTER", "ON_TIME_HERO">>, code)
      <4>1. <<"SAVINGS_SPRINTER", "ON_TIME_HERO">> \in Seq(Prizes!AchievementCode)
        BY DEF Prizes!AchievementCode
      <4>. QED
        BY <3>3, <4>1, HasJoined
    <3>. QED
      BY <2>3, <3>1, <3>2, <3>3, <3>4
  <2>5. code \in Prizes!AchievementCode /\ code \in PayoutCodes
    BY <1>2, <1>10 DEF AheadOf, Prizes!Completed
  <2>6. Reached(q.who, code)
    BY <1>2, <1>3, <1>10, <2>5, CompletedIsReached
  <2>7. CASE code = "FINANCIALLY_FIT"
    <3>1. n >= 1
      BY <1>4, <1>10, <2>5, <2>7, StandingIs DEF Prizes!Standing
    <3>. QED
      BY <2>1, <2>4, <2>7, <3>1, HasEarned
  <2>8. CASE code = "POD_VETERAN"
    <3>1. Prizes!IsVeteran(n)
      BY <1>2, <1>3, <1>4, <1>5, <1>10, <2>6, <2>8 DEF AheadOf, Reached, Prizes!IsVeteran
    <3>. QED
      BY <2>1, <2>4, <2>8, <3>1, HasEarned
  <2>9. CASE code = "FIRST_PAYOUT"
    <3>1. n = 1
      BY <1>2, <1>3, <1>4, <1>5, <1>10, <2>6, <2>9 DEF AheadOf, Reached, Prizes!IsVeteran
    <3>. QED
      BY <2>1, <2>4, <2>9, <3>1, HasEarned
  <2>. QED
    BY <2>5, <2>7, <2>8, <2>9 DEF PayoutCodes
<1>. QED
  BY <1>1, <1>6, <1>8, <1>9, <1>10 DEF Evaluated, AwardedNext

LEMMA InviteProgressIsEvaluated ==
  ASSUME AwardsInv, NEW r \in Requests, Prizes!handleCustomPodInviteProgress(r)
  PROVE  Evaluated(r)
<1>1. PICK q : q = awardRequests[r]
  OBVIOUS
<1>2. q.pc = "accepted" /\ AwardRequestSound(q) /\ AwardsTyped
  BY <1>1 DEF AwardsInv, Prizes!handleCustomPodInviteProgress, Prizes!Evaluate
<1>3. q.who \in Accounts /\ q.pod \in DOMAIN invites[q.who] /\ invites[q.who] \in Seq(Invitation)
  BY <1>2 DEF AwardRequestSound, AwardsTyped
<1>4. PICK p : p = invites[q.who][q.pod]
  OBVIOUS
<1>5. PICK todo : todo = Prizes!Earned("KOAJO_CONNECTOR", p.accepted >= 1)
                           \o Prizes!Earned("REFERRAL_MASTER", p.accepted >= Referrals)
                           \o Prizes!Earned("POD_LEADER", p.accepted = p.total)
  OBVIOUS
<1>6. Prizes!Evaluate(r, "accepted", todo)
  BY <1>1, <1>4, <1>5 DEF Prizes!handleCustomPodInviteProgress
<1>7. ASSUME NEW S, p.accepted >= 1 => "KOAJO_CONNECTOR" \in S,
             p.accepted >= Referrals => "REFERRAL_MASTER" \in S,
             p.accepted = p.total => "POD_LEADER" \in S
      PROVE  todo \in Seq(S)
  <2>1. /\ Prizes!Earned("KOAJO_CONNECTOR", p.accepted >= 1) \in Seq(S)
        /\ Prizes!Earned("REFERRAL_MASTER", p.accepted >= Referrals) \in Seq(S)
        /\ Prizes!Earned("POD_LEADER", p.accepted = p.total) \in Seq(S)
    BY <1>7 DEF Prizes!Earned
  <2>. QED
    BY <1>5, <2>1, JoinedTogether
<1>8. todo \in Seq(Prizes!AchievementCode \ {"KOAJO_OG"})
  BY <1>7 DEF Prizes!AchievementCode
<1>9. todo \in Seq(Due(q))
  <2>1. p \in Invitation
    BY <1>3, <1>4
  <2>2. p.accepted >= 1 => Reached(q.who, "KOAJO_CONNECTOR")
    <3>1. p.accepted >= 1 => p.accepted > 0
      BY <2>1 DEF Invitation
    <3>. QED
      BY <1>3, <1>4, <3>1 DEF Reached
  <2>3. p.accepted >= Referrals => Reached(q.who, "REFERRAL_MASTER")
    BY <1>3, <1>4 DEF Reached
  <2>4. p.accepted = p.total => Reached(q.who, "POD_LEADER")
    BY <1>3, <1>4 DEF Reached
  <2>5. {"KOAJO_CONNECTOR", "REFERRAL_MASTER", "POD_LEADER"} \subseteq Prizes!AchievementCode
    BY DEF Prizes!AchievementCode
  <2>6. /\ p.accepted >= 1 => "KOAJO_CONNECTOR" \in Due(q)
        /\ p.accepted >= Referrals => "REFERRAL_MASTER" \in Due(q)
        /\ p.accepted = p.total => "POD_LEADER" \in Due(q)
    BY <1>2, <1>3, <2>2, <2>3, <2>4, <2>5, ReachedIsDue
  <2>. QED
    BY <1>7, <2>6
<1>10. ASSUME NEW code \in Prizes!Completed(q.who), AheadOf(q, code) PROVE Has(todo, code)
  <2>1. PICK e1, e2, e3 :
          /\ e1 = Prizes!Earned("KOAJO_CONNECTOR", p.accepted >= 1)
          /\ e2 = Prizes!Earned("REFERRAL_MASTER", p.accepted >= Referrals)
          /\ e3 = Prizes!Earned("POD_LEADER", p.accepted = p.total)
    OBVIOUS
  <2>2. /\ e1 \in Seq(Prizes!AchievementCode)
        /\ e2 \in Seq(Prizes!AchievementCode)
        /\ e3 \in Seq(Prizes!AchievementCode)
    BY <2>1, EarnedIs DEF Prizes!AchievementCode
  <2>3. todo = e1 \o e2 \o e3
    BY <1>5, <2>1
  <2>4. Has(e1, code) \/ Has(e2, code) \/ Has(e3, code) => Has(todo, code)
    <3>1. /\ e1 \o e2 \in Seq(Prizes!AchievementCode)
          /\ Has(e1, code) \/ Has(e2, code) => Has(e1 \o e2, code)
      BY <2>2, JoinedTogether, HasJoined
    <3>2. /\ e1 \o e2 \o e3 \in Seq(Prizes!AchievementCode)
          /\ Has(e1 \o e2, code) \/ Has(e3, code) => Has(e1 \o e2 \o e3, code)
      BY <2>2, <3>1, JoinedTogether, HasJoined
    <3>. QED
      BY <2>3, <3>1, <3>2
  <2>5. code \in Prizes!AchievementCode /\ code \in InviteCodes
    BY <1>2, <1>10 DEF AheadOf, Prizes!Completed
  <2>6. Reached(q.who, code)
    BY <1>2, <1>3, <1>10, <2>5, CompletedIsReached
  <2>7. CASE code = "KOAJO_CONNECTOR"
    <3>1. p.accepted >= 1
      <4>1. p.accepted > 0
        BY <1>2, <1>4, <1>10, <2>7 DEF AheadOf
      <4>2. p \in Invitation
        BY <1>3, <1>4
      <4>. QED
        BY <4>1, <4>2 DEF Invitation
    <3>. QED
      BY <2>1, <2>4, <2>7, <3>1, HasEarned
  <2>8. CASE code = "REFERRAL_MASTER"
    <3>1. p.accepted >= Referrals
      BY <1>2, <1>3, <1>4, <1>5, <1>10, <2>6, <2>8 DEF AheadOf, Reached, Prizes!IsVeteran
    <3>. QED
      BY <2>1, <2>4, <2>8, <3>1, HasEarned
  <2>9. CASE code = "POD_LEADER"
    <3>1. p.accepted = p.total
      BY <1>2, <1>3, <1>4, <1>5, <1>10, <2>6, <2>9 DEF AheadOf, Reached, Prizes!IsVeteran
    <3>. QED
      BY <2>1, <2>4, <2>9, <3>1, HasEarned
  <2>. QED
    BY <2>5, <2>7, <2>8, <2>9 DEF InviteCodes
<1>. QED
  BY <1>1, <1>6, <1>8, <1>9, <1>10 DEF Evaluated, AwardedNext

LEMMA PaymentIsEvaluated ==
  ASSUME AwardsInv, NEW r \in Requests, Prizes!handleSuccessfulPayment(r)
  PROVE  Evaluated(r)
<1>1. PICK q : q = awardRequests[r]
  OBVIOUS
<1>2. q.pc = "paid" /\ AwardRequestSound(q) /\ AwardsTyped
  BY <1>1 DEF AwardsInv, Prizes!handleSuccessfulPayment, Prizes!Evaluate
<1>3. q.who \in Accounts
  BY <1>2 DEF AwardRequestSound
<1>4. PICK saved : saved = Prizes!sumSuccessfulContributions(q.who)
  OBVIOUS
<1>5. PICK todo : todo = Prizes!Earned("WEALTH_BUILDER", saved >= Savings[1])
                           \o Prizes!Earned("SAVINGS_CHAMPION", saved >= Savings[2])
                           \o Prizes!Earned("SIX_FIGURES_ROCKSTAR", saved >= Savings[3])
                           \o Prizes!Earned("PERFECT_STREAK",
                                Prizes!computeLongestMonthlyStreak(q.who) >= StreakMonths)
  OBVIOUS
<1>6. Prizes!Evaluate(r, "paid", todo)
  BY <1>1, <1>4, <1>5 DEF Prizes!handleSuccessfulPayment
<1>7. ASSUME NEW S, saved >= Savings[1] => "WEALTH_BUILDER" \in S,
             saved >= Savings[2] => "SAVINGS_CHAMPION" \in S,
             saved >= Savings[3] => "SIX_FIGURES_ROCKSTAR" \in S,
             Prizes!computeLongestMonthlyStreak(q.who) >= StreakMonths => "PERFECT_STREAK" \in S
      PROVE  todo \in Seq(S)
  <2>1. /\ Prizes!Earned("WEALTH_BUILDER", saved >= Savings[1]) \in Seq(S)
        /\ Prizes!Earned("SAVINGS_CHAMPION", saved >= Savings[2]) \in Seq(S)
        /\ Prizes!Earned("SIX_FIGURES_ROCKSTAR", saved >= Savings[3]) \in Seq(S)
        /\ Prizes!Earned("PERFECT_STREAK",
             Prizes!computeLongestMonthlyStreak(q.who) >= StreakMonths) \in Seq(S)
    BY <1>7 DEF Prizes!Earned
  <2>. QED
    BY <1>5, <2>1, JoinedTogether
<1>8. todo \in Seq(Prizes!AchievementCode \ {"KOAJO_OG"})
  BY <1>7 DEF Prizes!AchievementCode
<1>9. todo \in Seq(Due(q))
  <2>1. /\ saved >= Savings[1] => Reached(q.who, "WEALTH_BUILDER")
        /\ saved >= Savings[2] => Reached(q.who, "SAVINGS_CHAMPION")
        /\ saved >= Savings[3] => Reached(q.who, "SIX_FIGURES_ROCKSTAR")
        /\ Prizes!computeLongestMonthlyStreak(q.who) >= StreakMonths
             => Reached(q.who, "PERFECT_STREAK")
    BY <1>4 DEF Reached
  <2>2. {"WEALTH_BUILDER", "SAVINGS_CHAMPION", "SIX_FIGURES_ROCKSTAR", "PERFECT_STREAK"}
          \subseteq Prizes!AchievementCode
    BY DEF Prizes!AchievementCode
  <2>3. /\ saved >= Savings[1] => "WEALTH_BUILDER" \in Due(q)
        /\ saved >= Savings[2] => "SAVINGS_CHAMPION" \in Due(q)
        /\ saved >= Savings[3] => "SIX_FIGURES_ROCKSTAR" \in Due(q)
        /\ Prizes!computeLongestMonthlyStreak(q.who) >= StreakMonths => "PERFECT_STREAK" \in Due(q)
    BY <1>2, <1>3, <2>1, <2>2, ReachedIsDue
  <2>. QED
    BY <1>7, <2>3
<1>10. ASSUME NEW code \in Prizes!Completed(q.who), AheadOf(q, code) PROVE Has(todo, code)
  <2>1. PICK e1, e2, e3, e4 :
          /\ e1 = Prizes!Earned("WEALTH_BUILDER", saved >= Savings[1])
          /\ e2 = Prizes!Earned("SAVINGS_CHAMPION", saved >= Savings[2])
          /\ e3 = Prizes!Earned("SIX_FIGURES_ROCKSTAR", saved >= Savings[3])
          /\ e4 = Prizes!Earned("PERFECT_STREAK", Prizes!computeLongestMonthlyStreak(q.who) >= StreakMonths)
    OBVIOUS
  <2>2. /\ e1 \in Seq(Prizes!AchievementCode)
        /\ e2 \in Seq(Prizes!AchievementCode)
        /\ e3 \in Seq(Prizes!AchievementCode)
        /\ e4 \in Seq(Prizes!AchievementCode)
    BY <2>1, EarnedIs DEF Prizes!AchievementCode
  <2>3. todo = e1 \o e2 \o e3 \o e4
    BY <1>5, <2>1
  <2>4. Has(e1, code) \/ Has(e2, code) \/ Has(e3, code) \/ Has(e4, code) => Has(todo, code)
    <3>1. /\ e1 \o e2 \in Seq(Prizes!AchievementCode)
          /\ Has(e1, code) \/ Has(e2, code) => Has(e1 \o e2, code)
      BY <2>2, JoinedTogether, HasJoined
    <3>2. /\ e1 \o e2 \o e3 \in Seq(Prizes!AchievementCode)
          /\ Has(e1 \o e2, code) \/ Has(e3, code) => Has(e1 \o e2 \o e3, code)
      BY <2>2, <3>1, JoinedTogether, HasJoined
    <3>3. /\ e1 \o e2 \o e3 \o e4 \in Seq(Prizes!AchievementCode)
          /\ Has(e1 \o e2 \o e3, code) \/ Has(e4, code) => Has(e1 \o e2 \o e3 \o e4, code)
      BY <2>2, <3>2, JoinedTogether, HasJoined
    <3>. QED
      BY <2>3, <3>1, <3>2, <3>3
  <2>5. code \in Prizes!AchievementCode /\ code \in SavingCodes
    BY <1>2, <1>10 DEF AheadOf, Prizes!Completed
  <2>6. Reached(q.who, code)
    BY <1>2, <1>3, <1>10, <2>5, CompletedIsReached
  <2>7. CASE code = "WEALTH_BUILDER"
    <3>1. saved >= Savings[1]
      BY <1>2, <1>3, <1>4, <1>5, <1>10, <2>6, <2>7 DEF AheadOf, Reached, Prizes!IsVeteran
    <3>. QED
      BY <2>1, <2>4, <2>7, <3>1, HasEarned
  <2>8. CASE code = "SAVINGS_CHAMPION"
    <3>1. saved >= Savings[2]
      BY <1>2, <1>3, <1>4, <1>5, <1>10, <2>6, <2>8 DEF AheadOf, Reached, Prizes!IsVeteran
    <3>. QED
      BY <2>1, <2>4, <2>8, <3>1, HasEarned
  <2>9. CASE code = "SIX_FIGURES_ROCKSTAR"
    <3>1. saved >= Savings[3]
      BY <1>2, <1>3, <1>4, <1>5, <1>10, <2>6, <2>9 DEF AheadOf, Reached, Prizes!IsVeteran
    <3>. QED
      BY <2>1, <2>4, <2>9, <3>1, HasEarned
  <2>10. CASE code = "PERFECT_STREAK"
    <3>1. Prizes!computeLongestMonthlyStreak(q.who) >= StreakMonths
      BY <1>2, <1>3, <1>4, <1>5, <1>10, <2>6, <2>10 DEF AheadOf, Reached, Prizes!IsVeteran
    <3>. QED
      BY <2>1, <2>4, <2>10, <3>1, HasEarned
  <2>. QED
    BY <2>5, <2>7, <2>8, <2>9, <2>10 DEF SavingCodes
<1>. QED
  BY <1>1, <1>6, <1>8, <1>9, <1>10 DEF Evaluated, AwardedNext


LEMMA TailOf == ASSUME NEW S, NEW s \in Seq(S), s # <<>> PROVE Head(s) \in S /\ Tail(s) \in Seq(S)
OBVIOUS

LEMMA OnwardIs ==
  ASSUME NEW p \in AwardRequest, p.todo # <<>>, AwardRequestSound(p),
         p.pc \in {"award", "insert", "count"}
  PROVE  /\ Prizes!Onward(p) \in AwardRequest /\ AwardRequestSound(Prizes!Onward(p))
         /\ Prizes!Onward(p).pc = "award" /\ Prizes!Onward(p).who = p.who
         /\ Prizes!Onward(p).pod = p.pod /\ Prizes!Onward(p).todo = Tail(p.todo)
<1>1. PICK q : q = Prizes!Onward(p)
  OBVIOUS
<1>2. Tail(p.todo) \in Seq(Prizes!AchievementCode)
  BY TailOf DEF AwardRequest
<1>3. /\ q \in AwardRequest /\ q.pc = "award" /\ q.todo = Tail(p.todo) /\ q.who = p.who
      /\ q.pod = p.pod
  BY <1>1, <1>2 DEF Prizes!Onward, AwardRequest, AwardStage
<1>4. Due(q) = Due(p)
  BY <1>3 DEF Due, HasPaidOut
<1>5. q.who \in Accounts \ marked => q.todo \in Seq(Due(q))
  <2>. SUFFICES ASSUME q.who \in Accounts \ marked PROVE q.todo \in Seq(Due(q))
    OBVIOUS
  <2>1. p.todo \in Seq(Due(p))
    BY <1>3 DEF AwardRequestSound
  <2>. QED
    BY <1>3, <1>4, <2>1, TailOf
<1>6. q.who \in Accounts
  BY <1>3 DEF AwardRequestSound
<1>7. AwardRequestSound(q)
  BY <1>3, <1>5, <1>6 DEF AwardRequestSound
<1>. QED
  BY <1>1, <1>3, <1>7

LEMMA FindAwardKeepsAwards ==
  ASSUME AwardsInv, NEW r \in Requests, Prizes!FindAward(r)
  PROVE  AwardsInv'
<1>1. PICK p : p = awardRequests[r]
  OBVIOUS
<1>2. p \in AwardRequest /\ AwardRequestSound(p) /\ p.pc = "award" /\ p.todo # <<>> /\ AwardsTyped
  BY <1>1 DEF AwardsInv, AwardsTyped, Prizes!FindAward
<1>3. /\ UNCHANGED <<memberships, invites, month, months, awards, marked>>
      /\ awardRequests' = [awardRequests EXCEPT ![r] =
           IF <<p.who, Head(p.todo)>> \in awards \/ ~Prizes!Deserved(p) THEN Prizes!Onward(p)
           ELSE [p EXCEPT !.pc = "insert"]]
  BY <1>1 DEF Prizes!FindAward
<1>4. CASE <<p.who, Head(p.todo)>> \in awards \/ ~Prizes!Deserved(p)
  <2>1. awardRequests' = [awardRequests EXCEPT ![r] = Prizes!Onward(p)]
    BY <1>3, <1>4
  <2>. QED
    BY <1>2, <1>3, <2>1, OnwardIs, AwardRequestMoves
<1>5. CASE <<p.who, Head(p.todo)>> \notin awards /\ Prizes!Deserved(p)
  <2>1. PICK q : q = [p EXCEPT !.pc = "insert"]
    OBVIOUS
  <2>2. /\ q \in AwardRequest /\ q.pc = "insert" /\ q.todo = p.todo /\ q.who = p.who
        /\ q.pod = p.pod
    BY <1>2, <2>1 DEF AwardRequest, AwardStage
  <2>3. Due(q) = Due(p) /\ p.who \in Accounts
    BY <1>2, <2>2 DEF Due, HasPaidOut, AwardRequestSound
  <2>4. ASSUME p.who \notin marked PROVE Head(p.todo) \in Prizes!Completed(p.who)
    <3>1. PICK code : code = Head(p.todo)
      OBVIOUS
    <3>2. code \in Due(p) /\ code \in Prizes!AchievementCode
      BY <1>2, <2>3, <2>4, <3>1, TailOf DEF AwardRequestSound, Due
    <3>3. CASE code = "TEAM_PLAYER"
      <4>1. Reached(p.who, code)
        BY <1>5, <3>1, <3>3 DEF Prizes!Deserved, Reached
      <4>. QED
        BY <1>2, <2>3, <3>1, <3>2, <4>1, CompletedIsReached
    <3>4. CASE code = "SAVINGS_SPRINTER" /\ HasPaidOut(p)
      <4>1. Reached(p.who, code)
        BY <1>5, <3>1, <3>4 DEF Prizes!Deserved, Reached, HasPaidOut
      <4>. QED
        BY <1>2, <2>3, <3>1, <3>2, <4>1, CompletedIsReached
    <3>5. CASE code = "ON_TIME_HERO" /\ HasPaidOut(p)
      <4>1. Reached(p.who, code)
        BY <1>5, <3>1, <3>5 DEF Prizes!Deserved, Reached, HasPaidOut
      <4>. QED
        BY <1>2, <2>3, <3>1, <3>2, <4>1, CompletedIsReached
    <3>. QED
      BY <3>1, <3>2, <3>3, <3>4, <3>5 DEF Due
  <2>5. AwardRequestSound(q)
    BY <1>2, <2>2, <2>3, <2>4 DEF AwardRequestSound
  <2>6. awardRequests' = [awardRequests EXCEPT ![r] = q]
    BY <1>3, <1>5, <2>1
  <2>. QED
    BY <1>3, <2>2, <2>5, <2>6, AwardRequestMoves
<1>. QED
  BY <1>4, <1>5

LEMMA InsertAwardKeepsAwards ==
  ASSUME AwardsInv, NEW r \in Requests, Prizes!InsertAward(r)
  PROVE  AwardsInv'
<1>1. PICK p : p = awardRequests[r]
  OBVIOUS
<1>2. p \in AwardRequest /\ AwardRequestSound(p) /\ p.pc = "insert"
  BY <1>1 DEF AwardsInv, AwardsTyped, Prizes!InsertAward
<1>3. p.todo # <<>> /\ p.who \in Accounts
  BY <1>2 DEF AwardRequestSound
<1>4. PICK w : w = <<p.who, Head(p.todo)>>
  OBVIOUS
<1>5. /\ UNCHANGED <<memberships, invites, month, months, marked>>
      /\ awards' = awards \cup {w}
      /\ awardRequests' = [awardRequests EXCEPT ![r] =
           IF Head(p.todo) = "FINANCIALLY_FIT" THEN [p EXCEPT !.pc = "count"] ELSE Prizes!Onward(p)]
  BY <1>1, <1>4 DEF Prizes!InsertAward
<1>6. /\ w \in (Accounts \cup Others) \X Prizes!AchievementCode
      /\ w[1] \in Accounts \ marked => w[2] \in Prizes!Completed(w[1])
  <2>1. Head(p.todo) \in Prizes!AchievementCode
    BY <1>2, <1>3, TailOf DEF AwardRequest
  <2>2. p.who \in Accounts \ marked => Head(p.todo) \in Prizes!Completed(p.who)
    BY <1>2 DEF AwardRequestSound
  <2>. QED
    BY <1>3, <1>4, <2>1, <2>2
<1>7. CASE Head(p.todo) = "FINANCIALLY_FIT"
  <2>1. PICK q : q = [p EXCEPT !.pc = "count"]
    OBVIOUS
  <2>2. /\ q \in AwardRequest /\ q.pc = "count" /\ q.todo = p.todo /\ q.who = p.who
        /\ q.pod = p.pod
    BY <1>2, <2>1 DEF AwardRequest, AwardStage
  <2>3. Due(q) = Due(p)
    BY <2>2 DEF Due, HasPaidOut
  <2>4. AwardRequestSound(q)
    BY <1>2, <1>3, <1>7, <2>2, <2>3 DEF AwardRequestSound
  <2>5. awardRequests' = [awardRequests EXCEPT ![r] = q]
    BY <1>5, <1>7, <2>1
  <2>. QED
    BY <1>5, <1>6, <2>2, <2>4, <2>5, AwardRequestMoves
<1>8. CASE Head(p.todo) # "FINANCIALLY_FIT"
  <2>1. awardRequests' = [awardRequests EXCEPT ![r] = Prizes!Onward(p)]
    BY <1>5, <1>8
  <2>. QED
    BY <1>2, <1>3, <1>5, <1>6, <2>1, OnwardIs, AwardRequestMoves
<1>. QED
  BY <1>7, <1>8

LEMMA CountOgKeepsAwards ==
  ASSUME AwardsInv, NEW r \in Requests, Prizes!CountOg(r)
  PROVE  AwardsInv'
<1>1. PICK p : p = awardRequests[r]
  OBVIOUS
<1>2. p \in AwardRequest /\ AwardRequestSound(p) /\ p.pc = "count" /\ AwardsTyped
  BY <1>1 DEF AwardsInv, AwardsTyped, Prizes!CountOg
<1>3. p.todo # <<>> /\ p.who \in Accounts /\ Head(p.todo) = "FINANCIALLY_FIT"
  BY <1>2 DEF AwardRequestSound
<1>4. UNCHANGED <<memberships, invites, month, months, awards, marked>>
  BY DEF Prizes!CountOg
<1>5. CASE awardRequests' = [awardRequests EXCEPT ![r] = Prizes!Onward(p)]
  BY <1>2, <1>3, <1>4, <1>5, OnwardIs, AwardRequestMoves
<1>6. CASE awardRequests' =
             [awardRequests EXCEPT ![r] =
                [p EXCEPT !.pc = "award", !.todo = <<"KOAJO_OG">> \o Tail(p.todo)]]
  <2>1. PICK q : q = [p EXCEPT !.pc = "award", !.todo = <<"KOAJO_OG">> \o Tail(p.todo)]
    OBVIOUS
  <2>2. ASSUME NEW S, p.todo \in Seq(S), "KOAJO_OG" \in S
        PROVE  <<"KOAJO_OG">> \o Tail(p.todo) \in Seq(S)
    <3>1. Tail(p.todo) \in Seq(S) /\ <<"KOAJO_OG">> \in Seq(S)
      BY <1>3, <2>2, TailOf
    <3>. QED
      BY <3>1, JoinedTogether
  <2>3. <<"KOAJO_OG">> \o Tail(p.todo) \in Seq(Prizes!AchievementCode)
    BY <1>2, <2>2 DEF AwardRequest, Prizes!AchievementCode
  <2>4. /\ q \in AwardRequest /\ q.pc = "award" /\ q.who = p.who /\ q.pod = p.pod
        /\ q.todo = <<"KOAJO_OG">> \o Tail(p.todo)
    BY <1>2, <2>1, <2>3 DEF AwardRequest, AwardStage
  <2>5. Due(q) = Due(p)
    BY <2>4 DEF Due, HasPaidOut
  <2>6. ASSUME p.who \notin marked PROVE q.todo \in Seq(Due(q))
    <3>1. p.todo \in Seq(Due(p))
      BY <1>2, <1>3, <2>6 DEF AwardRequestSound
    <3>2. "FINANCIALLY_FIT" \in Due(p)
      BY <1>3, <3>1, TailOf
    <3>3. "FINANCIALLY_FIT" \in Prizes!Completed(p.who)
      BY <3>2 DEF Due
    <3>4. {"FINANCIALLY_FIT", "KOAJO_OG"} \subseteq Prizes!AchievementCode
      BY DEF Prizes!AchievementCode
    <3>5. Reached(p.who, "FINANCIALLY_FIT")
      BY <1>2, <1>3, <3>3, <3>4, CompletedIsReached
    <3>6. Reached(p.who, "KOAJO_OG")
      BY <3>5 DEF Reached
    <3>7. "KOAJO_OG" \in Due(p)
      BY <1>2, <1>3, <3>4, <3>6, ReachedIsDue
    <3>. QED
      BY <2>2, <2>4, <2>5, <3>1, <3>7
  <2>7. AwardRequestSound(q)
    BY <1>3, <2>4, <2>6 DEF AwardRequestSound
  <2>8. awardRequests' = [awardRequests EXCEPT ![r] = q]
    BY <1>6, <2>1
  <2>. QED
    BY <1>4, <2>4, <2>7, <2>8, AwardRequestMoves
<1>7. \/ awardRequests' = [awardRequests EXCEPT ![r] = Prizes!Onward(p)]
      \/ awardRequests' =
             [awardRequests EXCEPT ![r] =
                [p EXCEPT !.pc = "award", !.todo = <<"KOAJO_OG">> \o Tail(p.todo)]]
  BY <1>1 DEF Prizes!CountOg
<1>. QED
  BY <1>5, <1>6, <1>7

LEMMA AwardRequestEnds ==
  ASSUME AwardsInv, NEW r \in Requests, Prizes!EndRequest(r) \/ Prizes!Fail(r)
  PROVE  AwardsInv'
<1>1. AwardRequestSound(Prizes!Idle)
  BY IdleAwardRequest, NobodysAccount DEF AwardRequestSound
<1>2. /\ UNCHANGED <<memberships, invites, month, months, awards, marked>>
      /\ awardRequests' = [awardRequests EXCEPT ![r] = Prizes!Idle]
  BY DEF Prizes!EndRequest, Prizes!Fail
<1>. QED
  BY <1>1, <1>2, IdleAwardRequest, AwardRequestMoves

LEMMA AwardsInvStep ==
  ASSUME AwardsInv, Prizes!Next
  PROVE  AwardsInv'
<1>1. CASE \E r \in Requests : Prizes!Request(r)
  <2>1. PICK r \in Requests, a \in Accounts :
          \/ \E first \in BOOLEAN, g \in Groups : Prizes!JoinPod(r, a, first, g)
          \/ \E i : Prizes!CompleteMembership(r, a, i) \/ Prizes!AcceptInvite(r, a, i)
          \/ \E i : \E late \in BOOLEAN : Prizes!RecordPayment(r, a, i, late)
    BY <1>1 DEF Prizes!Request
  <2>. QED
    BY <2>1, JoinPodKeepsAwards, CompleteMembershipKeepsAwards, AcceptInviteKeepsAwards,
       RecordPaymentKeepsAwards
<1>2. CASE \E r \in Requests : Prizes!Step(r)
  BY <1>2, PodJoinIsEvaluated, PodCompletionIsEvaluated, InviteProgressIsEvaluated,
     PaymentIsEvaluated, EvaluateKeepsAwards, FindAwardKeepsAwards, InsertAwardKeepsAwards, CountOgKeepsAwards,
     AwardRequestEnds DEF Prizes!Step
<1>3. CASE Prizes!Failure
  BY <1>3, AwardRequestEnds DEF Prizes!Failure
<1>4. CASE Prizes!Event
  <2>1. PICK a \in Accounts :
          \/ \E g \in Groups : Prizes!SitInCustomPod(a, g)
          \/ \E g \in Groups, total \in 1..Referrals : Prizes!CreateCustomPod(a, g, total)
          \/ \E i : Prizes!CompletePod(a, i) \/ Prizes!MarkPayout(a, i)
    BY <1>4 DEF Prizes!Event
  <2>2. 1..Referrals \subseteq Nat
    OBVIOUS
  <2>. QED
    BY <2>1, <2>2, SitInCustomPodKeepsAwards, CreateCustomPodKeepsAwards,
       CompletePodKeepsAwards, MarkPayoutKeepsAwards
<1>5. CASE Prizes!Tick
  BY <1>5, TickKeepsAwards
<1>. QED
  BY <1>1, <1>2, <1>3, <1>4, <1>5 DEF Prizes!Next

-----------------------------------------------------------------------------
\* One request at a time, nothing that is complete is missed.
LEMMA LastingIs ==
  ASSUME NEW a, NEW code \in Prizes!AchievementCode
  PROVE  code \in Prizes!Lasting(a) <=>
           \/ code \in PayoutCodes \cup InviteCodes \cup SavingCodes
           \/ code \in JoinCodes /\ \A i \in DOMAIN memberships[a] : ~memberships[a][i].custom
<1>1. CASE \E i \in DOMAIN memberships[a] : memberships[a][i].custom
  BY <1>1 DEF Prizes!Lasting, Prizes!AchievementCode, JoinCodes, PayoutCodes, InviteCodes, SavingCodes
<1>2. CASE ~\E i \in DOMAIN memberships[a] : memberships[a][i].custom
  BY <1>2 DEF Prizes!Lasting, Prizes!AchievementCode, JoinCodes, PayoutCodes, InviteCodes, SavingCodes
<1>. QED
  BY <1>1, <1>2

LEMMA LastingWillBe ==
  (\A a : \A code \in Prizes!AchievementCode :
     code \in Prizes!Lasting(a) <=>
           \/ code \in PayoutCodes \cup InviteCodes \cup SavingCodes
           \/ code \in JoinCodes /\ \A i \in DOMAIN memberships[a] : ~memberships[a][i].custom)'
<1>1. \A a : \A code \in Prizes!AchievementCode :
        code \in Prizes!Lasting(a) <=>
           \/ code \in PayoutCodes \cup InviteCodes \cup SavingCodes
           \/ code \in JoinCodes /\ \A i \in DOMAIN memberships[a] : ~memberships[a][i].custom
  BY LastingIs
<1>. QED
  BY <1>1, PTL

\* What completes nothing that lasts.
SameSeats(a) ==
  /\ Len(memberships'[a]) = Len(memberships[a])
  /\ DOMAIN memberships'[a] = DOMAIN memberships[a]
  /\ \A i \in DOMAIN memberships[a] :
       /\ memberships'[a][i].first = memberships[a][i].first
       /\ memberships'[a][i].custom = memberships[a][i].custom

SamePayouts(a) == Prizes!PaidOutSeats(a)' = Prizes!PaidOutSeats(a)

SameInvites(a) ==
  /\ DOMAIN invites[a] \subseteq DOMAIN invites'[a]
  /\ \A p \in DOMAIN invites[a] : invites'[a][p] = invites[a][p]
  /\ \A p \in DOMAIN invites'[a] \ DOMAIN invites[a] :
       invites'[a][p].accepted = 0 /\ invites'[a][p].total \in Nat \ {0}

SameSavings(a) ==
  PaidContributions(a)' = PaidContributions(a) /\ months'[a] = months[a]

Calm(a) ==
  /\ SamePayouts(a) /\ SameInvites(a) /\ SameSavings(a)
  /\ SameSeats(a) \/ \E i \in DOMAIN memberships'[a] : memberships'[a][i].custom

LEMMA NoneJoins ==
  ASSUME AwardsTyped, AwardsTyped', NEW a \in Accounts, SameSeats(a), NEW code \in JoinCodes,
         Reached(a, code)'
  PROVE  Reached(a, code)
<1>1. CASE code = "POD_STARTER"
  <2>1. Len(memberships'[a]) >= 1
    BY <1>1 DEF Reached
  <2>2. Len(memberships[a]) >= 1
    BY <2>1 DEF SameSeats
  <2>. QED
    BY <1>1, <2>2 DEF Reached
<1>2. CASE code = "COMMITMENT_CHAMP"
  <2>1. Len(memberships'[a]) >= CommitmentPods
    BY <1>2 DEF Reached
  <2>2. Len(memberships[a]) >= CommitmentPods
    BY <2>1 DEF SameSeats
  <2>. QED
    BY <1>2, <2>2 DEF Reached
<1>3. CASE code = "EARLY_BIRD"
  <2>1. \E i \in DOMAIN memberships'[a] : memberships'[a][i].first
    BY <1>3 DEF Reached
  <2>2. \E i \in DOMAIN memberships[a] : memberships[a][i].first
    BY <2>1 DEF SameSeats
  <2>. QED
    BY <1>3, <2>2 DEF Reached
<1>. QED
  BY <1>1, <1>2, <1>3 DEF JoinCodes

LEMMA NoneIsPaidOut ==
  ASSUME NEW a \in Accounts, SamePayouts(a), NEW code \in PayoutCodes, Reached(a, code)'
  PROVE  Reached(a, code)
<1>1. CASE code \in {"FINANCIALLY_FIT", "FIRST_PAYOUT"}
  <2>1. \E i \in DOMAIN memberships'[a] : memberships'[a][i].paidOut
    BY <1>1 DEF Reached
  <2>2. Prizes!PaidOutSeats(a)' # {}
    BY <2>1 DEF Prizes!PaidOutSeats
  <2>3. \E i \in DOMAIN memberships[a] : memberships[a][i].paidOut
    BY <2>2 DEF SamePayouts, Prizes!PaidOutSeats
  <2>. QED
    BY <1>1, <2>3 DEF Reached
<1>2. CASE code = "POD_VETERAN"
  <2>1. Prizes!completedPods(a)' > VeteranPods
    BY <1>2 DEF Reached
  <2>2. Prizes!completedPods(a)' = Prizes!completedPods(a)
    BY CountsAre, CountsWillBe DEF SamePayouts
  <2>. QED
    BY <1>2, <2>1, <2>2 DEF Reached
<1>. QED
  BY <1>1, <1>2 DEF PayoutCodes

LEMMA NoneAccepts ==
  ASSUME AwardsTyped, AwardsTyped', NEW a \in Accounts, SameInvites(a), NEW code \in InviteCodes,
         Reached(a, code)'
  PROVE  Reached(a, code)
<1>1. CASE code = "KOAJO_CONNECTOR"
  <2>1. PICK p \in DOMAIN invites'[a] : invites'[a][p].accepted > 0
    BY <1>1 DEF Reached
  <2>2. p \in DOMAIN invites[a] /\ invites[a][p].accepted > 0
    BY <2>1 DEF SameInvites
  <2>. QED
    BY <1>1, <2>2 DEF Reached
<1>2. CASE code = "REFERRAL_MASTER"
  <2>1. PICK p \in DOMAIN invites'[a] : invites'[a][p].accepted >= Referrals
    BY <1>2 DEF Reached
  <2>2. p \in DOMAIN invites[a] /\ invites[a][p].accepted >= Referrals
    BY <2>1, PrizesAssumption DEF SameInvites
  <2>. QED
    BY <1>2, <2>2 DEF Reached
<1>3. CASE code = "POD_LEADER"
  <2>1. PICK p \in DOMAIN invites'[a] : invites'[a][p].accepted = invites'[a][p].total
    BY <1>3 DEF Reached
  <2>2. p \in DOMAIN invites[a] /\ invites[a][p].accepted = invites[a][p].total
    BY <2>1 DEF SameInvites
  <2>. QED
    BY <1>3, <2>2 DEF Reached
<1>. QED
  BY <1>1, <1>2, <1>3 DEF InviteCodes

LEMMA NoneSaves ==
  ASSUME AwardsTyped, AwardsTyped', NEW a \in Accounts, SameSavings(a), NEW code \in SavingCodes,
         Reached(a, code)'
  PROVE  Reached(a, code)
<1>1. Prizes!sumSuccessfulContributions(a)' = Prizes!sumSuccessfulContributions(a)
  <2>1. /\ Prizes!sumSuccessfulContributions(a) = Cardinality(PaidContributions(a))
        /\ Prizes!sumSuccessfulContributions(a)' = Cardinality(PaidContributions(a)')
    BY SavedAre, SavedWillBe
  <2>. QED
    BY <2>1 DEF SameSavings
<1>2. Prizes!computeLongestMonthlyStreak(a)' = Prizes!computeLongestMonthlyStreak(a)
  BY DEF SameSavings, Prizes!computeLongestMonthlyStreak
<1>3. CASE code = "WEALTH_BUILDER"
  BY <1>1, <1>3 DEF Reached
<1>4. CASE code = "SAVINGS_CHAMPION"
  BY <1>1, <1>4 DEF Reached
<1>5. CASE code = "SIX_FIGURES_ROCKSTAR"
  BY <1>1, <1>5 DEF Reached
<1>6. CASE code = "PERFECT_STREAK"
  BY <1>2, <1>6 DEF Reached
<1>. QED
  BY <1>3, <1>4, <1>5, <1>6 DEF SavingCodes

LEMMA MissedBefore ==
  ASSUME AwardsTyped, AwardsTyped', NEW a \in Accounts, Calm(a), UNCHANGED awards,
         NEW code \in Prizes!AchievementCode, Missing(a, code)'
  PROVE  Missing(a, code) /\ (code \in JoinCodes => SameSeats(a))
<1>1. Reached(a, code)' /\ code \in Prizes!Lasting(a)' /\ <<a, code>> \notin awards
  BY CompletedWillBe DEF Missing
<1>2. \/ code \in PayoutCodes \cup InviteCodes \cup SavingCodes
      \/ code \in JoinCodes /\ \A i \in DOMAIN memberships'[a] : ~memberships'[a][i].custom
  BY <1>1, LastingWillBe
<1>3. JoinCodes \cap (PayoutCodes \cup InviteCodes \cup SavingCodes) = {}
  BY DEF JoinCodes, PayoutCodes, InviteCodes, SavingCodes
<1>4. code \in JoinCodes => SameSeats(a)
  BY <1>2, <1>3 DEF Calm
<1>5. code \in Prizes!Lasting(a)
  BY <1>2, <1>4, LastingIs DEF SameSeats
<1>6. Reached(a, code)
  BY <1>1, <1>2, <1>4, NoneJoins, NoneIsPaidOut, NoneAccepts, NoneSaves DEF Calm
<1>. QED
  BY <1>1, <1>4, <1>5, <1>6, CompletedIsReached DEF Missing

LEMMA StillAhead ==
  ASSUME AwardsTyped, NEW q \in AwardRequest, AwardRequestSound(q), q.who \in Accounts,
         Calm(q.who), NEW code, AheadOf(q, code), code \in JoinCodes => SameSeats(q.who)
  PROVE  AheadOf(q, code)'
<1>1. CASE q.pc = "joined"
  <2>1. /\ q.pod \in DOMAIN memberships[q.who] /\ code \in JoinCodes /\ SameSeats(q.who)
        /\ code = "POD_STARTER" => Len(memberships[q.who]) = 1
        /\ code = "EARLY_BIRD" => memberships[q.who][q.pod].first
    BY <1>1 DEF AheadOf, AwardRequestSound
  <2>2. /\ code = "POD_STARTER" => Len(memberships'[q.who]) = 1
        /\ code = "EARLY_BIRD" => memberships'[q.who][q.pod].first
    BY <2>1 DEF SameSeats
  <2>. QED
    BY <1>1, <2>1, <2>2 DEF AheadOf
<1>2. CASE q.pc = "completed"
  <2>1. Prizes!completedPods(q.who)' = Prizes!completedPods(q.who)
    BY CountsAre, CountsWillBe DEF Calm, SamePayouts
  <2>. QED
    BY <1>2, <2>1 DEF AheadOf
<1>3. CASE q.pc = "accepted"
  <2>1. q.pod \in DOMAIN invites[q.who]
    BY <1>3 DEF AwardRequestSound
  <2>2. invites'[q.who][q.pod] = invites[q.who][q.pod]
    BY <2>1 DEF Calm, SameInvites
  <2>. QED
    BY <1>3, <2>2 DEF AheadOf
<1>4. CASE q.pc \in {"paid", "award", "insert", "count"}
  BY <1>4 DEF AheadOf
<1>. QED
  BY <1>1, <1>2, <1>3, <1>4 DEF AheadOf

\* What happens without a request leaves nothing behind that lasts.
LEMMA CalmMissesNothing ==
  ASSUME AwardsInv, AwardsTyped', NothingMissed, UNCHANGED <<awards, awardRequests>>,
         marked \subseteq marked', \A a \in Accounts \ marked' : Calm(a)
  PROVE  NothingMissed'
<1>1. ASSUME NEW a \in Accounts \ marked', NEW code \in Prizes!AchievementCode, Missing(a, code)'
      PROVE  \E r \in Requests : awardRequests'[r].who = a /\ AheadOf(awardRequests[r], code)'
  <2>1. Missing(a, code) /\ (code \in JoinCodes => SameSeats(a)) /\ a \in Accounts \ marked
    BY <1>1, MissedBefore DEF AwardsInv
  <2>2. PICK r \in Requests : awardRequests[r].who = a /\ AheadOf(awardRequests[r], code)
    BY <2>1 DEF NothingMissed
  <2>3. PICK q : q = awardRequests[r]
    OBVIOUS
  <2>4. q \in AwardRequest /\ AwardRequestSound(q) /\ q.who = a /\ AheadOf(q, code) /\ Calm(q.who)
    BY <2>2, <2>3 DEF AwardsInv, AwardsTyped
  <2>5. AheadOf(q, code)'
    BY <2>1, <2>4, StillAhead DEF AwardsInv
  <2>6. q = awardRequests'[r]
    BY <2>3
  <2>. QED
    BY <2>4, <2>5, <2>6 DEF AheadOf
<1>. QED
  BY <1>1 DEF NothingMissed

LEMMA CalmIfUntouched ==
  ASSUME NEW a, memberships'[a] = memberships[a], invites'[a] = invites[a], months'[a] = months[a]
  PROVE  Calm(a)
BY DEF Calm, SamePayouts, SameInvites, SameSavings, SameSeats, Prizes!PaidOutSeats, PaidContributions

\* A seat that is taken: none of it is paid.
LEMMA FreshSeat ==
  ASSUME AwardsTyped, NEW a \in Accounts, NEW first \in BOOLEAN, NEW group \in Groups,
         NEW custom \in BOOLEAN, Prizes!TakeSeat(a, first, group, custom)
  PROVE  /\ SamePayouts(a) /\ PaidContributions(a)' = PaidContributions(a)
         /\ Len(memberships[a]) \in Nat
         /\ Len(memberships'[a]) = Len(memberships[a]) + 1
         /\ Len(memberships'[a]) \in DOMAIN memberships'[a]
         /\ memberships'[a][Len(memberships'[a])].first = first
         /\ memberships'[a][Len(memberships'[a])].custom = custom
         /\ DOMAIN memberships[a] \subseteq DOMAIN memberships'[a]
         /\ \A i \in DOMAIN memberships[a] : memberships'[a][i] = memberships[a][i]
         /\ \A i \in DOMAIN memberships'[a] : i \in DOMAIN memberships[a] \/ i = Len(memberships'[a])
<1>1. PICK n : n = Len(memberships[a])
  OBVIOUS
<1>2. PICK seat : seat = FreeSeat(first, group, custom)
  OBVIOUS
<1>3. /\ seat \in Seat /\ seat.first = first /\ seat.custom = custom /\ ~seat.paidOut /\ seat.paid = 0
  BY <1>2, PrizesAssumption DEF Seat, FreeSeat
<1>4. memberships[a] \in Seq(Seat) /\ n \in Nat /\ memberships'[a] = Append(memberships[a], seat)
  BY <1>1, <1>2, SeatTaken DEF AwardsTyped
<1>5. /\ DOMAIN memberships[a] = 1..n /\ Len(memberships'[a]) = n + 1
      /\ DOMAIN memberships'[a] = 1..(n + 1) /\ memberships'[a][n + 1] = seat
      /\ \A i \in 1..n : memberships'[a][i] = memberships[a][i]
  BY <1>1, <1>3, <1>4
<1>6. \A i \in 1..(n + 1) : i \in 1..n \/ i = n + 1
  BY <1>4
<1>7. 1..n \subseteq 1..(n + 1) /\ n + 1 \in 1..(n + 1)
  BY <1>4
<1>8. Prizes!PaidOutSeats(a)' = Prizes!PaidOutSeats(a)
  BY <1>3, <1>5, <1>6, <1>7 DEF Prizes!PaidOutSeats
<1>9. PaidContributions(a)' = PaidContributions(a)
  <2>1. ASSUME NEW k \in 1..Expected PROVE ~(k <= seat.paid)
    BY <1>3, <2>1
  <2>2. ASSUME NEW ik \in PaidContributions(a)' PROVE ik \in PaidContributions(a)
    <3>1. ik \in (1..(n + 1)) \X (1..Expected) /\ ik[2] <= memberships'[a][ik[1]].paid
      BY <1>5 DEF PaidContributions
    <3>2. ik[1] # n + 1
      BY <1>5, <2>1, <3>1
    <3>3. ik[1] \in 1..n
      BY <1>6, <3>1, <3>2
    <3>. QED
      BY <1>5, <3>1, <3>3 DEF PaidContributions
  <2>3. ASSUME NEW ik \in PaidContributions(a) PROVE ik \in PaidContributions(a)'
    BY <1>5, <1>7 DEF PaidContributions
  <2>. QED
    BY <2>2, <2>3
<1>. QED
  BY <1>1, <1>3, <1>4, <1>5, <1>6, <1>7, <1>8, <1>9 DEF SamePayouts

LEMMA SitInCustomPodMissesNothing ==
  ASSUME AwardsInv, NothingMissed, NEW a \in Accounts, NEW g \in Groups,
         Prizes!SitInCustomPod(a, g)
  PROVE  NothingMissed'
<1>1. AwardsTyped /\ AwardsTyped'
  BY SitInCustomPodKeepsAwards DEF AwardsInv
<1>2. /\ Prizes!TakeSeat(a, FALSE, g, TRUE)
      /\ UNCHANGED <<invites, month, months, awards, awardRequests, marked>>
  BY DEF Prizes!SitInCustomPod
<1>3. \A b \in Accounts \ {a} : Calm(b)
  BY <1>1, <1>2, SeatTaken, CalmIfUntouched
<1>4. Calm(a)
  <2>1. SamePayouts(a) /\ SameSavings(a)
    BY <1>1, <1>2, FreshSeat DEF SameSavings
  <2>2. SameInvites(a)
    BY <1>2 DEF SameInvites
  <2>3. Len(memberships'[a]) \in DOMAIN memberships'[a]
        /\ memberships'[a][Len(memberships'[a])].custom = TRUE
    BY <1>1, <1>2, FreshSeat
  <2>. QED
    BY <2>1, <2>2, <2>3 DEF Calm
<1>. QED
  BY <1>1, <1>2, <1>3, <1>4, CalmMissesNothing

LEMMA CreateCustomPodMissesNothing ==
  ASSUME AwardsInv, NothingMissed, NEW a \in Accounts, NEW g \in Groups, NEW total \in Nat \ {0},
         Prizes!CreateCustomPod(a, g, total)
  PROVE  NothingMissed'
<1>1. AwardsTyped /\ AwardsTyped'
  BY CreateCustomPodKeepsAwards DEF AwardsInv
<1>2. /\ Prizes!TakeSeat(a, TRUE, g, TRUE)
      /\ UNCHANGED <<month, months, awards, awardRequests, marked>>
  BY DEF Prizes!CreateCustomPod
<1>3. /\ \A b \in Accounts \ {a} : invites'[b] = invites[b]
      /\ SameInvites(a)
  BY <1>1, InviteSent DEF Prizes!CreateCustomPod, SameInvites
<1>4. \A b \in Accounts \ {a} : Calm(b)
  BY <1>1, <1>2, <1>3, SeatTaken, CalmIfUntouched
<1>5. Calm(a)
  <2>1. SamePayouts(a) /\ SameSavings(a)
    BY <1>1, <1>2, FreshSeat DEF SameSavings
  <2>2. Len(memberships'[a]) \in DOMAIN memberships'[a]
        /\ memberships'[a][Len(memberships'[a])].custom = TRUE
    BY <1>1, <1>2, FreshSeat
  <2>. QED
    BY <1>3, <2>1, <2>2 DEF Calm
<1>. QED
  BY <1>1, <1>2, <1>4, <1>5, CalmMissesNothing

LEMMA CompletePodMissesNothing ==
  ASSUME AwardsInv, NothingMissed, NEW a \in Accounts, NEW i, Prizes!CompletePod(a, i)
  PROVE  NothingMissed'
<1>1. AwardsTyped /\ AwardsTyped' /\ i \in DOMAIN memberships[a] /\ memberships[a][i] \in Seat
  <2>1. AwardsInv'
    BY CompletePodKeepsAwards
  <2>2. AwardsTyped /\ i \in DOMAIN memberships[a]
    BY DEF AwardsInv, Prizes!CompletePod
  <2>. QED
    BY <2>1, <2>2 DEF AwardsInv, AwardsTyped
<1>2. UNCHANGED <<invites, month, months, awards, awardRequests, marked>>
  BY DEF Prizes!CompletePod
<1>3. PICK n : n = [memberships[a][i] EXCEPT !.over = TRUE]
  OBVIOUS
<1>4. /\ n \in Seat /\ n.paid = memberships[a][i].paid /\ n.custom = memberships[a][i].custom
      /\ n.first = memberships[a][i].first /\ n.paidOut = memberships[a][i].paidOut
  BY <1>1, <1>3 DEF Seat
<1>5. memberships' = [memberships EXCEPT ![a][i] = n]
  BY <1>1, <1>3 DEF Prizes!CompletePod
<1>6. /\ DOMAIN memberships'[a] = DOMAIN memberships[a]
      /\ Len(memberships'[a]) = Len(memberships[a])
      /\ memberships'[a][i] = n
      /\ \A j \in DOMAIN memberships[a] \ {i} : memberships'[a][j] = memberships[a][j]
      /\ \A b \in Accounts \ {a} : memberships'[b] = memberships[b]
  BY <1>1, <1>4, <1>5, SeatChanged
<1>7. \A j \in DOMAIN memberships[a] :
        /\ memberships'[a][j].first = memberships[a][j].first
        /\ memberships'[a][j].custom = memberships[a][j].custom
        /\ memberships'[a][j].paid = memberships[a][j].paid
        /\ memberships'[a][j].paidOut = memberships[a][j].paidOut
  BY <1>4, <1>6
<1>8. SameSeats(a) /\ SamePayouts(a) /\ SameSavings(a) /\ SameInvites(a)
  <2>1. SameSeats(a)
    BY <1>6, <1>7 DEF SameSeats
  <2>2. SamePayouts(a)
    BY <1>6, <1>7 DEF SamePayouts, Prizes!PaidOutSeats
  <2>3. PaidContributions(a)' = PaidContributions(a)
    BY <1>6, <1>7 DEF PaidContributions
  <2>. QED
    BY <1>2, <2>1, <2>2, <2>3 DEF SameSavings, SameInvites
<1>9. \A b \in Accounts : Calm(b)
  BY <1>2, <1>6, <1>8, CalmIfUntouched DEF Calm
<1>. QED
  BY <1>1, <1>2, <1>9, CalmMissesNothing

LEMMA MarkPayoutMissesNothing ==
  ASSUME AwardsInv, NothingMissed, NEW a \in Accounts, NEW i, Prizes!MarkPayout(a, i)
  PROVE  NothingMissed'
<1>1. AwardsTyped /\ AwardsTyped'
  BY MarkPayoutKeepsAwards DEF AwardsInv
<1>2. UNCHANGED <<invites, month, months, awards, awardRequests>> /\ marked' = marked \cup {a}
  BY DEF Prizes!MarkPayout
<1>3. \A b \in Accounts \ {a} : memberships'[b] = memberships[b]
  BY <1>1 DEF Prizes!MarkPayout, AwardsTyped
<1>4. \A b \in Accounts \ marked' : Calm(b)
  BY <1>2, <1>3, CalmIfUntouched
<1>. QED
  BY <1>1, <1>2, <1>4, CalmMissesNothing

LEMMA TickMissesNothing ==
  ASSUME AwardsInv, NothingMissed, Prizes!Tick
  PROVE  NothingMissed'
<1>1. AwardsTyped'
  BY TickKeepsAwards DEF AwardsInv
<1>2. UNCHANGED <<memberships, invites, months, awards, awardRequests, marked>>
  BY DEF Prizes!Tick
<1>. QED
  BY <1>1, <1>2, CalmIfUntouched, CalmMissesNothing

\* A request that begins while no other is under way.
LEMMA BeginMissesNothing ==
  ASSUME AwardsInv, AwardsTyped', NothingMissed, ~Several(AwardsBusy)',
         NEW r \in Requests, NEW pc \in {"joined", "completed", "accepted", "paid"},
         NEW a \in Accounts, NEW pod \in Nat, Prizes!Begin(r, pc, a, pod),
         UNCHANGED <<awards, marked>>, \A b \in Accounts \ {a} : Calm(b),
         \A i \in DOMAIN memberships[a] :
           i \in DOMAIN memberships'[a] /\ memberships'[a][i].custom = memberships[a][i].custom,
         \A code \in JoinCodes \cup PayoutCodes \cup InviteCodes \cup SavingCodes :
           Reached(a, code)' /\ ~Reached(a, code) => AheadOf(awardRequests[r], code)'
  PROVE  NothingMissed'
<1>1. /\ awardRequests[r] = Prizes!Idle /\ awardRequests'[r].pc = pc /\ awardRequests'[r].who = a
      /\ \A s \in Requests \ {r} : awardRequests'[s] = awardRequests[s]
  BY AwardBegun DEF AwardsInv, AwardStage
<1>2. r \in AwardsBusy'
  BY <1>1, IdleAwardRequest DEF AwardsBusy
<1>3. ASSUME NEW s \in Requests PROVE awardRequests[s] = Prizes!Idle
  <2>1. CASE s # r
    <3>1. s \notin AwardsBusy'
      BY <1>2, <2>1 DEF Several
    <3>. QED
      BY <1>1, <2>1, <3>1 DEF AwardsBusy
  <2>. QED
    BY <1>1, <2>1
<1>4. \A s \in Requests : \A code : ~AheadOf(awardRequests[s], code)
  BY <1>3, IdleAwardRequest DEF AheadOf
<1>5. \A b \in Accounts \ marked : \A code \in Prizes!AchievementCode : ~Missing(b, code)
  BY <1>4 DEF NothingMissed
<1>6. ASSUME NEW b \in Accounts \ marked', NEW code \in Prizes!AchievementCode, Missing(b, code)'
      PROVE  \E s \in Requests : awardRequests'[s].who = b /\ AheadOf(awardRequests[s], code)'
  <2>1. CASE b # a
    BY <1>5, <1>6, <2>1, MissedBefore DEF AwardsInv
  <2>2. CASE b = a
    <3>1. Reached(a, code)' /\ code \in Prizes!Lasting(a)' /\ <<a, code>> \notin awards
      BY <1>6, <2>2, CompletedWillBe DEF Missing
    <3>2. code \in Prizes!Lasting(a)
      BY <3>1, LastingIs, LastingWillBe
    <3>3. ~Reached(a, code)
      BY <1>5, <2>2, <3>1, <3>2, CompletedIsReached DEF Missing, AwardsInv
    <3>4. code \in JoinCodes \cup PayoutCodes \cup InviteCodes \cup SavingCodes
      BY <3>1, LastingWillBe
    <3>. QED
      BY <1>1, <2>2, <3>1, <3>3, <3>4
  <2>. QED
    BY <2>1, <2>2
<1>. QED
  BY <1>6 DEF NothingMissed

LEMMA JoinPodMissesNothing ==
  ASSUME AwardsInv, NothingMissed, ~Several(AwardsBusy)', NEW r \in Requests, NEW a \in Accounts,
         NEW first \in BOOLEAN, NEW g \in Groups, Prizes!JoinPod(r, a, first, g)
  PROVE  NothingMissed'
<1>1. AwardsTyped /\ AwardsTyped'
  BY JoinPodKeepsAwards DEF AwardsInv
<1>2. Prizes!TakeSeat(a, first, g, FALSE) /\ UNCHANGED <<invites, month, months, awards, marked>>
  BY DEF Prizes!JoinPod
<1>3. PICK n : n = Len(memberships'[a])
  OBVIOUS
<1>4. /\ SamePayouts(a) /\ PaidContributions(a)' = PaidContributions(a)
      /\ Len(memberships[a]) \in Nat /\ n = Len(memberships[a]) + 1
      /\ memberships'[a][n].first = first
      /\ \A i \in DOMAIN memberships[a] :
           i \in DOMAIN memberships'[a] /\ memberships'[a][i] = memberships[a][i]
      /\ \A i \in DOMAIN memberships'[a] : i \in DOMAIN memberships[a] \/ i = n
  BY <1>1, <1>2, <1>3, FreshSeat
<1>5. Prizes!Begin(r, "joined", a, n) /\ n \in Nat
  BY <1>3, <1>4 DEF Prizes!JoinPod
<1>6. /\ awardRequests'[r].pc = "joined" /\ awardRequests'[r].who = a /\ awardRequests'[r].pod = n
  BY <1>1, <1>5, AwardBegun DEF AwardStage
<1>7. SameInvites(a) /\ SameSavings(a)
  BY <1>2, <1>4 DEF SameInvites, SameSavings
<1>8. \A b \in Accounts \ {a} : Calm(b)
  BY <1>1, <1>2, SeatTaken, CalmIfUntouched
<1>9. ASSUME NEW code \in JoinCodes, Reached(a, code)', ~Reached(a, code)
      PROVE  AheadOf(awardRequests[r], code)'
  <2>1. ASSUME code = "POD_STARTER" PROVE Len(memberships'[a]) = 1
    <3>1. ~(Len(memberships[a]) >= 1)
      BY <1>9, <2>1 DEF Reached
    <3>. QED
      BY <1>3, <1>4, <3>1
  <2>2. ASSUME code = "EARLY_BIRD" PROVE memberships'[a][n].first
    <3>1. \E i \in DOMAIN memberships'[a] : memberships'[a][i].first
      BY <1>9, <2>2 DEF Reached
    <3>2. ~\E i \in DOMAIN memberships[a] : memberships[a][i].first
      BY <1>9, <2>2 DEF Reached
    <3>. QED
      BY <1>4, <3>1, <3>2
  <2>. QED
    BY <1>6, <2>1, <2>2 DEF AheadOf
<1>10. \A code \in PayoutCodes \cup InviteCodes \cup SavingCodes :
         Reached(a, code)' => Reached(a, code)
  BY <1>1, <1>4, <1>7, NoneIsPaidOut, NoneAccepts, NoneSaves
<1>. QED
  BY <1>1, <1>2, <1>4, <1>5, <1>8, <1>9, <1>10, BeginMissesNothing

\* A seat that changes, and where nobody sits down.
LEMMA SameSeatsIfChanged ==
  ASSUME AwardsTyped, NEW a \in Accounts, NEW i \in DOMAIN memberships[a], NEW n \in Seat,
         memberships' = [memberships EXCEPT ![a][i] = n],
         n.first = memberships[a][i].first, n.custom = memberships[a][i].custom
  PROVE  SameSeats(a)
<1>1. /\ DOMAIN memberships'[a] = DOMAIN memberships[a]
      /\ Len(memberships'[a]) = Len(memberships[a])
      /\ memberships'[a][i] = n
      /\ \A j \in DOMAIN memberships[a] \ {i} : memberships'[a][j] = memberships[a][j]
  BY SeatChanged
<1>. QED
  BY <1>1 DEF SameSeats

LEMMA CompleteMembershipMissesNothing ==
  ASSUME AwardsInv, NothingMissed, ~Several(AwardsBusy)', NEW r \in Requests, NEW a \in Accounts,
         NEW i, Prizes!CompleteMembership(r, a, i)
  PROVE  NothingMissed'
<1>1. AwardsTyped /\ AwardsTyped' /\ i \in DOMAIN memberships[a] /\ memberships[a][i] \in Seat
  <2>1. AwardsInv'
    BY CompleteMembershipKeepsAwards
  <2>2. AwardsTyped /\ i \in DOMAIN memberships[a]
    BY DEF AwardsInv, Prizes!CompleteMembership
  <2>. QED
    BY <2>1, <2>2 DEF AwardsInv, AwardsTyped
<1>2. /\ Prizes!Begin(r, "completed", a, i) /\ i \in Nat
      /\ UNCHANGED <<invites, month, months, awards, marked>>
  <2>1. memberships[a] \in Seq(Seat)
    BY <1>1 DEF AwardsTyped
  <2>. QED
    BY <1>1, <2>1 DEF Prizes!CompleteMembership
<1>3. PICK n : n = [memberships[a][i] EXCEPT !.paidOut = TRUE]
  OBVIOUS
<1>4. /\ n \in Seat /\ n.paidOut /\ n.paid = memberships[a][i].paid
      /\ n.custom = memberships[a][i].custom /\ n.first = memberships[a][i].first
  BY <1>1, <1>3 DEF Seat
<1>5. memberships' = [memberships EXCEPT ![a][i] = n]
  BY <1>1, <1>3 DEF Prizes!CompleteMembership
<1>6. /\ DOMAIN memberships'[a] = DOMAIN memberships[a]
      /\ memberships'[a][i] = n
      /\ \A j \in DOMAIN memberships[a] \ {i} : memberships'[a][j] = memberships[a][j]
      /\ \A b \in Accounts \ {a} : memberships'[b] = memberships[b]
  BY <1>1, <1>4, <1>5, SeatChanged
<1>7. /\ awardRequests'[r].pc = "completed" /\ awardRequests'[r].who = a
  BY <1>1, <1>2, AwardBegun DEF AwardStage
<1>8. SameSeats(a) /\ SameInvites(a) /\ SameSavings(a)
  <2>1. SameSeats(a)
    BY <1>1, <1>4, <1>5, SameSeatsIfChanged
  <2>2. \A j \in DOMAIN memberships[a] : memberships'[a][j].paid = memberships[a][j].paid
    BY <1>4, <1>6
  <2>3. PaidContributions(a)' = PaidContributions(a)
    BY <1>6, <2>2 DEF PaidContributions
  <2>. QED
    BY <1>2, <2>1, <2>3 DEF SameInvites, SameSavings
<1>9. \A b \in Accounts \ {a} : Calm(b)
  BY <1>2, <1>6, CalmIfUntouched
<1>10. ASSUME NEW code \in PayoutCodes, ~Reached(a, code)
       PROVE  AheadOf(awardRequests[r], code)'
  <2>1. ASSUME code = "FIRST_PAYOUT" PROVE Prizes!completedPods(a)' = 1
    <3>1. ~\E j \in DOMAIN memberships[a] : memberships[a][j].paidOut
      BY <1>10, <2>1 DEF Reached
    <3>2. Prizes!PaidOutSeats(a)' = {i}
      BY <1>1, <1>4, <1>6, <3>1 DEF Prizes!PaidOutSeats
    <3>3. Cardinality({i}) = 1
      BY FS_Singleton
    <3>. QED
      BY <3>2, <3>3, CountsWillBe
  <2>. QED
    BY <1>7, <2>1 DEF AheadOf
<1>11. \A code \in JoinCodes \cup InviteCodes \cup SavingCodes :
         Reached(a, code)' => Reached(a, code)
  BY <1>1, <1>8, NoneJoins, NoneAccepts, NoneSaves
<1>12. \A j \in DOMAIN memberships[a] :
         j \in DOMAIN memberships'[a] /\ memberships'[a][j].custom = memberships[a][j].custom
  BY <1>8 DEF SameSeats
<1>13. \A code \in JoinCodes \cup PayoutCodes \cup InviteCodes \cup SavingCodes :
         Reached(a, code)' /\ ~Reached(a, code) => AheadOf(awardRequests[r], code)'
  BY <1>10, <1>11
<1>. QED
  BY <1>1, <1>2, <1>9, <1>12, <1>13, BeginMissesNothing

LEMMA AcceptInviteMissesNothing ==
  ASSUME AwardsInv, NothingMissed, ~Several(AwardsBusy)', NEW r \in Requests, NEW a \in Accounts,
         NEW p, Prizes!AcceptInvite(r, a, p)
  PROVE  NothingMissed'
<1>1. AwardsTyped /\ AwardsTyped' /\ p \in DOMAIN invites[a]
  BY AcceptInviteKeepsAwards DEF AwardsInv, Prizes!AcceptInvite
<1>2. /\ Prizes!Begin(r, "accepted", a, p)
      /\ UNCHANGED <<memberships, month, months, awards, marked>>
  BY DEF Prizes!AcceptInvite
<1>3. /\ p \in DOMAIN invites'[a] /\ p \in Nat /\ DOMAIN invites'[a] = DOMAIN invites[a]
      /\ \A j \in DOMAIN invites[a] \ {p} : invites'[a][j] = invites[a][j]
      /\ \A b \in Accounts \ {a} : invites'[b] = invites[b]
  BY <1>1, InviteAccepted DEF Prizes!AcceptInvite
<1>4. /\ awardRequests'[r].pc = "accepted" /\ awardRequests'[r].who = a
      /\ awardRequests'[r].pod = p
  BY <1>1, <1>2, <1>3, AwardBegun DEF AwardStage
<1>5. SameSeats(a) /\ SamePayouts(a) /\ SameSavings(a)
  BY <1>2 DEF SameSeats, SamePayouts, SameSavings, Prizes!PaidOutSeats, PaidContributions
<1>6. \A b \in Accounts \ {a} : Calm(b)
  BY <1>2, <1>3, CalmIfUntouched
<1>7. ASSUME NEW code \in InviteCodes, Reached(a, code)', ~Reached(a, code)
      PROVE  AheadOf(awardRequests[r], code)'
  <2>1. ASSUME code = "KOAJO_CONNECTOR" PROVE invites'[a][p].accepted > 0
    <3>1. \E j \in DOMAIN invites'[a] : invites'[a][j].accepted > 0
      BY <1>7, <2>1 DEF Reached
    <3>2. ~\E j \in DOMAIN invites[a] : invites[a][j].accepted > 0
      BY <1>7, <2>1 DEF Reached
    <3>. QED
      BY <1>3, <3>1, <3>2
  <2>2. ASSUME code = "REFERRAL_MASTER" PROVE invites'[a][p].accepted >= Referrals
    <3>1. \E j \in DOMAIN invites'[a] : invites'[a][j].accepted >= Referrals
      BY <1>7, <2>2 DEF Reached
    <3>2. ~\E j \in DOMAIN invites[a] : invites[a][j].accepted >= Referrals
      BY <1>7, <2>2 DEF Reached
    <3>. QED
      BY <1>3, <3>1, <3>2
  <2>3. ASSUME code = "POD_LEADER" PROVE invites'[a][p].accepted = invites'[a][p].total
    <3>1. \E j \in DOMAIN invites'[a] : invites'[a][j].accepted = invites'[a][j].total
      BY <1>7, <2>3 DEF Reached
    <3>2. ~\E j \in DOMAIN invites[a] : invites[a][j].accepted = invites[a][j].total
      BY <1>7, <2>3 DEF Reached
    <3>. QED
      BY <1>3, <3>1, <3>2
  <2>. QED
    BY <1>4, <2>1, <2>2, <2>3 DEF AheadOf
<1>8. \A code \in JoinCodes \cup PayoutCodes \cup SavingCodes :
        Reached(a, code)' => Reached(a, code)
  BY <1>1, <1>5, NoneJoins, NoneIsPaidOut, NoneSaves
<1>9. \A j \in DOMAIN memberships[a] :
        j \in DOMAIN memberships'[a] /\ memberships'[a][j].custom = memberships[a][j].custom
  BY <1>2
<1>10. \A code \in JoinCodes \cup PayoutCodes \cup InviteCodes \cup SavingCodes :
         Reached(a, code)' /\ ~Reached(a, code) => AheadOf(awardRequests[r], code)'
  BY <1>7, <1>8
<1>. QED
  BY <1>1, <1>2, <1>3, <1>6, <1>9, <1>10, BeginMissesNothing

LEMMA RecordPaymentMissesNothing ==
  ASSUME AwardsInv, NothingMissed, ~Several(AwardsBusy)', NEW r \in Requests, NEW a \in Accounts,
         NEW i, NEW late \in BOOLEAN, Prizes!RecordPayment(r, a, i, late)
  PROVE  NothingMissed'
<1>1. AwardsTyped /\ AwardsTyped'
  BY RecordPaymentKeepsAwards DEF AwardsInv
<1>2. Prizes!Begin(r, "paid", a, i) /\ UNCHANGED <<invites, month, awards, marked>>
  BY DEF Prizes!RecordPayment
<1>3. /\ i \in DOMAIN memberships[a] /\ i \in Nat
      /\ \A b \in Accounts \ {a} : months'[b] = months[b]
  BY <1>1, RecordPaymentIs
<1>4. PICK n \in Seat :
        /\ memberships' = [memberships EXCEPT ![a][i] = n]
        /\ n.custom = memberships[a][i].custom /\ n.first = memberships[a][i].first
        /\ n.paidOut = memberships[a][i].paidOut
  BY <1>1, RecordPaymentIs
<1>5. /\ DOMAIN memberships'[a] = DOMAIN memberships[a]
      /\ memberships'[a][i] = n
      /\ \A j \in DOMAIN memberships[a] \ {i} : memberships'[a][j] = memberships[a][j]
      /\ \A b \in Accounts \ {a} : memberships'[b] = memberships[b]
  BY <1>1, <1>3, <1>4, SeatChanged
<1>6. SameSeats(a) /\ SamePayouts(a) /\ SameInvites(a)
  <2>1. SameSeats(a)
    BY <1>1, <1>3, <1>4, SameSeatsIfChanged
  <2>2. \A j \in DOMAIN memberships[a] : memberships'[a][j].paidOut = memberships[a][j].paidOut
    BY <1>4, <1>5
  <2>3. SamePayouts(a)
    BY <1>5, <2>2 DEF SamePayouts, Prizes!PaidOutSeats
  <2>. QED
    BY <1>2, <2>1, <2>3 DEF SameInvites
<1>7. \A b \in Accounts \ {a} : Calm(b)
  BY <1>2, <1>3, <1>5, CalmIfUntouched
<1>8. awardRequests'[r].pc = "paid"
  BY <1>1, <1>2, <1>3, AwardBegun DEF AwardStage
<1>9. \A code \in SavingCodes : AheadOf(awardRequests[r], code)'
  BY <1>8 DEF AheadOf
<1>10. \A code \in JoinCodes \cup PayoutCodes \cup InviteCodes :
         Reached(a, code)' => Reached(a, code)
  BY <1>1, <1>6, NoneJoins, NoneIsPaidOut, NoneAccepts
<1>11. \A j \in DOMAIN memberships[a] :
         j \in DOMAIN memberships'[a] /\ memberships'[a][j].custom = memberships[a][j].custom
  BY <1>6 DEF SameSeats
<1>. QED
  BY <1>1, <1>2, <1>3, <1>7, <1>9, <1>10, <1>11, BeginMissesNothing

\* A request that goes on misses nothing either.
LEMMA HasTail ==
  ASSUME NEW S, NEW s \in Seq(S), s # <<>>, NEW x, Has(s, x), x # Head(s)
  PROVE  Has(Tail(s), x)
<1>1. PICK i \in DOMAIN s : s[i] = x
  BY DEF Has
<1>2. i \in 1..Len(s) /\ i # 1 /\ Len(s) \in Nat
  BY <1>1
<1>3. i - 1 \in 1..(Len(s) - 1) /\ (i - 1) + 1 = i
  BY <1>2
<1>4. DOMAIN Tail(s) = 1..(Len(s) - 1) /\ Tail(s)[i - 1] = s[(i - 1) + 1]
  BY <1>3
<1>. QED
  BY <1>1, <1>3, <1>4 DEF Has

LEMMA RequestMissesNothing ==
  ASSUME AwardsInv, NothingMissed, NEW r \in Requests, NEW q,
         awardRequests' = [awardRequests EXCEPT ![r] = q],
         UNCHANGED <<memberships, invites, months, marked>>, awards \subseteq awards',
         \A code \in JoinCodes \cup PayoutCodes \cup InviteCodes \cup SavingCodes :
           /\ code \in Prizes!Completed(awardRequests[r].who)
           /\ AheadOf(awardRequests[r], code)
           /\ <<awardRequests[r].who, code>> \notin awards'
           => q.who = awardRequests[r].who /\ AheadOf(q, code)
  PROVE  NothingMissed'
<1>1. /\ awardRequests'[r] = q
      /\ \A s \in Requests \ {r} : awardRequests'[s] = awardRequests[s]
  BY DEF AwardsInv, AwardsTyped
<1>2. \A a : Prizes!Completed(a)' = Prizes!Completed(a) /\ Prizes!Lasting(a)' = Prizes!Lasting(a)
  BY CompletedUnchanged DEF Prizes!Lasting
<1>3. \A s \in Requests : \A code :
        AheadOf(awardRequests[s], code)' <=> AheadOf(awardRequests'[s], code)
  BY DEF AheadOf, Prizes!completedPods, Prizes!PaidOutSeats
<1>4. ASSUME NEW a \in Accounts \ marked', NEW code \in Prizes!AchievementCode, Missing(a, code)'
      PROVE  \E s \in Requests : awardRequests'[s].who = a /\ AheadOf(awardRequests[s], code)'
  <2>1. Missing(a, code) /\ <<a, code>> \notin awards' /\ a \in Accounts \ marked
    BY <1>2, <1>4 DEF Missing
  <2>2. code \in JoinCodes \cup PayoutCodes \cup InviteCodes \cup SavingCodes
    BY <2>1, LastingIs DEF Missing
  <2>3. PICK s \in Requests : awardRequests[s].who = a /\ AheadOf(awardRequests[s], code)
    BY <2>1 DEF NothingMissed
  <2>4. CASE s # r
    BY <1>1, <1>3, <2>3, <2>4
  <2>5. CASE s = r
    <3>1. q.who = a /\ AheadOf(q, code)
      BY <2>1, <2>2, <2>3, <2>5 DEF Missing
    <3>. QED
      BY <1>1, <1>3, <3>1
  <2>. QED
    BY <2>4, <2>5
<1>. QED
  BY <1>4 DEF NothingMissed

LEMMA EvaluateMissesNothing ==
  ASSUME AwardsInv, NothingMissed, NEW r \in Requests, Evaluated(r)
  PROVE  NothingMissed'
<1>. PICK pc \in {"joined", "completed", "accepted", "paid"} : \E todo :
       AwardedNext(awardRequests[r], todo) /\ Prizes!Evaluate(r, pc, todo)
  BY DEF Evaluated
<1>. PICK todo : AwardedNext(awardRequests[r], todo) /\ Prizes!Evaluate(r, pc, todo)
  OBVIOUS
<1>1. PICK p : p = awardRequests[r]
  OBVIOUS
<1>2. PICK q : q = [p EXCEPT !.pc = "award", !.todo = todo]
  OBVIOUS
<1>3. awardRequests' = [awardRequests EXCEPT ![r] = q]
  BY <1>1, <1>2 DEF Prizes!Evaluate
<1>4. p \in AwardRequest
  BY <1>1 DEF AwardsInv, AwardsTyped
<1>5. q.pc = "award" /\ q.todo = todo /\ q.who = p.who
  BY <1>2, <1>4 DEF AwardRequest
<1>6. \A code : Has(todo, code) => AheadOf(q, code)
  BY <1>5 DEF AheadOf
<1>7. \A code : code \in Prizes!Completed(p.who) /\ AheadOf(p, code) => Has(todo, code)
  BY <1>1 DEF AwardedNext
<1>. QED
  BY <1>1, <1>3, <1>5, <1>6, <1>7, RequestMissesNothing DEF Prizes!Evaluate

LEMMA GoOnMissesNothing ==
  ASSUME AwardsInv, NothingMissed, NEW r \in Requests, NEW q,
         awardRequests' = [awardRequests EXCEPT ![r] = q],
         UNCHANGED <<memberships, invites, months, marked>>, awards \subseteq awards',
         awardRequests[r].pc \in {"award", "insert", "count"}, q.pc \in {"award", "insert", "count"},
         q.who = awardRequests[r].who,
         \A code \in JoinCodes \cup PayoutCodes \cup InviteCodes \cup SavingCodes :
           Has(awardRequests[r].todo, code) /\ <<awardRequests[r].who, code>> \notin awards'
             => Has(q.todo, code)
  PROVE  NothingMissed'
<1>1. \A code : AheadOf(awardRequests[r], code) => Has(awardRequests[r].todo, code)
  BY DEF AheadOf
<1>2. \A code : Has(q.todo, code) => AheadOf(q, code)
  BY DEF AheadOf
<1>. QED
  BY <1>1, <1>2, RequestMissesNothing

LEMMA FindAwardMissesNothing ==
  ASSUME AwardsInv, NothingMissed, NEW r \in Requests, Prizes!FindAward(r)
  PROVE  NothingMissed'
<1>1. PICK p : p = awardRequests[r]
  OBVIOUS
<1>2. p \in AwardRequest /\ AwardRequestSound(p) /\ p.pc = "award" /\ p.todo # <<>>
  BY <1>1 DEF AwardsInv, AwardsTyped, Prizes!FindAward
<1>3. /\ UNCHANGED <<memberships, invites, month, months, awards, marked>>
      /\ awardRequests' = [awardRequests EXCEPT ![r] =
           IF <<p.who, Head(p.todo)>> \in awards \/ ~Prizes!Deserved(p) THEN Prizes!Onward(p)
           ELSE [p EXCEPT !.pc = "insert"]]
  BY <1>1 DEF Prizes!FindAward
<1>4. p.todo \in Seq(Prizes!AchievementCode)
  BY <1>2 DEF AwardRequest
<1>5. CASE <<p.who, Head(p.todo)>> \in awards \/ ~Prizes!Deserved(p)
  <2>1. PICK q : q = Prizes!Onward(p)
    OBVIOUS
  <2>2. awardRequests' = [awardRequests EXCEPT ![r] = q]
    BY <1>3, <1>5, <2>1
  <2>3. q.pc = "award" /\ q.who = p.who /\ q.todo = Tail(p.todo)
    BY <1>2, <2>1, OnwardIs
  <2>4. ASSUME NEW code \in JoinCodes \cup PayoutCodes \cup InviteCodes \cup SavingCodes,
               Has(p.todo, code), <<p.who, code>> \notin awards'
        PROVE  Has(q.todo, code)
    <3>1. code # Head(p.todo)
      <4>1. CASE <<p.who, Head(p.todo)>> \in awards
        BY <1>3, <2>4, <4>1
      <4>2. CASE ~Prizes!Deserved(p)
        <5>1. Head(p.todo) \in {"TEAM_PLAYER", "SAVINGS_SPRINTER", "ON_TIME_HERO"}
          BY <4>2 DEF Prizes!Deserved
        <5>. QED
          BY <5>1 DEF JoinCodes, PayoutCodes, InviteCodes, SavingCodes
      <4>. QED
        BY <1>5, <4>1, <4>2
    <3>. QED
      BY <1>2, <1>4, <2>3, <2>4, <3>1, HasTail
  <2>. QED
    BY <1>1, <1>2, <1>3, <2>2, <2>3, <2>4, GoOnMissesNothing
<1>6. CASE <<p.who, Head(p.todo)>> \notin awards /\ Prizes!Deserved(p)
  <2>1. PICK q : q = [p EXCEPT !.pc = "insert"]
    OBVIOUS
  <2>2. awardRequests' = [awardRequests EXCEPT ![r] = q]
    BY <1>3, <1>6, <2>1
  <2>3. q.pc = "insert" /\ q.who = p.who /\ q.todo = p.todo
    BY <1>2, <2>1 DEF AwardRequest
  <2>. QED
    BY <1>1, <1>2, <1>3, <2>2, <2>3, GoOnMissesNothing
<1>. QED
  BY <1>5, <1>6

LEMMA InsertAwardMissesNothing ==
  ASSUME AwardsInv, NothingMissed, NEW r \in Requests, Prizes!InsertAward(r)
  PROVE  NothingMissed'
<1>1. PICK p : p = awardRequests[r]
  OBVIOUS
<1>2. p \in AwardRequest /\ AwardRequestSound(p) /\ p.pc = "insert"
  BY <1>1 DEF AwardsInv, AwardsTyped, Prizes!InsertAward
<1>3. p.todo # <<>> /\ p.todo \in Seq(Prizes!AchievementCode)
  BY <1>2 DEF AwardRequestSound, AwardRequest
<1>4. /\ UNCHANGED <<memberships, invites, month, months, marked>>
      /\ awards' = awards \cup {<<p.who, Head(p.todo)>>}
      /\ awardRequests' = [awardRequests EXCEPT ![r] =
           IF Head(p.todo) = "FINANCIALLY_FIT" THEN [p EXCEPT !.pc = "count"] ELSE Prizes!Onward(p)]
  BY <1>1 DEF Prizes!InsertAward
<1>5. CASE Head(p.todo) = "FINANCIALLY_FIT"
  <2>1. PICK q : q = [p EXCEPT !.pc = "count"]
    OBVIOUS
  <2>2. awardRequests' = [awardRequests EXCEPT ![r] = q]
    BY <1>4, <1>5, <2>1
  <2>3. q.pc = "count" /\ q.who = p.who /\ q.todo = p.todo
    BY <1>2, <2>1 DEF AwardRequest
  <2>. QED
    BY <1>1, <1>2, <1>4, <2>2, <2>3, GoOnMissesNothing
<1>6. CASE Head(p.todo) # "FINANCIALLY_FIT"
  <2>1. PICK q : q = Prizes!Onward(p)
    OBVIOUS
  <2>2. awardRequests' = [awardRequests EXCEPT ![r] = q]
    BY <1>4, <1>6, <2>1
  <2>3. q.pc = "award" /\ q.who = p.who /\ q.todo = Tail(p.todo)
    BY <1>2, <1>3, <2>1, OnwardIs
  <2>4. ASSUME NEW code, Has(p.todo, code), <<p.who, code>> \notin awards'
        PROVE  Has(q.todo, code)
    <3>1. code # Head(p.todo)
      BY <1>4, <2>4
    <3>. QED
      BY <1>3, <2>3, <2>4, <3>1, HasTail
  <2>. QED
    BY <1>1, <1>2, <1>4, <2>2, <2>3, <2>4, GoOnMissesNothing
<1>. QED
  BY <1>5, <1>6

LEMMA CountOgMissesNothing ==
  ASSUME AwardsInv, NothingMissed, NEW r \in Requests, OgInOrder(awardRequests[r]), Prizes!CountOg(r)
  PROVE  NothingMissed'
<1>1. PICK p : p = awardRequests[r]
  OBVIOUS
<1>2. p \in AwardRequest /\ AwardRequestSound(p) /\ p.pc = "count"
  BY <1>1 DEF AwardsInv, AwardsTyped, Prizes!CountOg
<1>3. /\ p.todo # <<>> /\ p.todo \in Seq(Prizes!AchievementCode)
      /\ Head(p.todo) = "FINANCIALLY_FIT" /\ <<p.who, Head(p.todo)>> \in awards
  BY <1>1, <1>2 DEF AwardRequestSound, AwardRequest, OgInOrder
<1>4. UNCHANGED <<memberships, invites, month, months, awards, marked>>
  BY DEF Prizes!CountOg
<1>5. \A code : Has(p.todo, code) /\ <<p.who, code>> \notin awards' => Has(Tail(p.todo), code)
  BY <1>3, <1>4, HasTail
<1>6. CASE awardRequests' = [awardRequests EXCEPT ![r] = Prizes!Onward(p)]
  <2>1. PICK q : q = Prizes!Onward(p)
    OBVIOUS
  <2>2. q.pc = "award" /\ q.who = p.who /\ q.todo = Tail(p.todo)
    BY <1>2, <1>3, <2>1, OnwardIs
  <2>. QED
    BY <1>1, <1>2, <1>4, <1>5, <1>6, <2>1, <2>2, GoOnMissesNothing
<1>7. CASE awardRequests' =
             [awardRequests EXCEPT ![r] =
                [p EXCEPT !.pc = "award", !.todo = <<"KOAJO_OG">> \o Tail(p.todo)]]
  <2>1. PICK q : q = [p EXCEPT !.pc = "award", !.todo = <<"KOAJO_OG">> \o Tail(p.todo)]
    OBVIOUS
  <2>2. q.pc = "award" /\ q.who = p.who /\ q.todo = <<"KOAJO_OG">> \o Tail(p.todo)
    BY <1>2, <2>1 DEF AwardRequest
  <2>3. <<"KOAJO_OG">> \in Seq(Prizes!AchievementCode) /\ Tail(p.todo) \in Seq(Prizes!AchievementCode)
    BY <1>3, TailOf DEF Prizes!AchievementCode
  <2>4. \A code : Has(Tail(p.todo), code) => Has(q.todo, code)
    BY <2>2, <2>3, HasJoined
  <2>. QED
    BY <1>1, <1>2, <1>4, <1>5, <1>7, <2>1, <2>2, <2>4, GoOnMissesNothing
<1>8. \/ awardRequests' = [awardRequests EXCEPT ![r] = Prizes!Onward(p)]
      \/ awardRequests' =
             [awardRequests EXCEPT ![r] =
                [p EXCEPT !.pc = "award", !.todo = <<"KOAJO_OG">> \o Tail(p.todo)]]
  BY <1>1 DEF Prizes!CountOg
<1>. QED
  BY <1>6, <1>7, <1>8

LEMMA EndRequestMissesNothing ==
  ASSUME AwardsInv, NothingMissed, NEW r \in Requests, Prizes!EndRequest(r)
  PROVE  NothingMissed'
<1>1. /\ awardRequests[r].pc = "award" /\ awardRequests[r].todo = <<>>
      /\ awardRequests' = [awardRequests EXCEPT ![r] = Prizes!Idle]
      /\ UNCHANGED <<memberships, invites, month, months, awards, marked>>
  BY DEF Prizes!EndRequest
<1>2. \A code : ~AheadOf(awardRequests[r], code)
  BY <1>1 DEF AheadOf, Has
<1>. QED
  BY <1>1, <1>2, RequestMissesNothing

-----------------------------------------------------------------------------
\* One request at a time, there is a place for whoever becomes a KOAJO_OG.
OgInvariant ==
  (\A r \in Requests : OgInOrder(awardRequests[r])) /\ Cardinality(OgAwards) <= OgLimit

LEMMA OgMoves ==
  ASSUME AwardsTyped, OgInvariant, UNCHANGED awards,
         \A s \in Requests : awardRequests'[s] = awardRequests[s] \/ OgInOrder(awardRequests'[s])
  PROVE  OgInvariant'
<1>1. OgAwards' = OgAwards
  BY DEF OgAwards
<1>2. ASSUME NEW s \in Requests PROVE OgInOrder(awardRequests[s])'
  <2>1. OgInOrder(awardRequests'[s])
    BY DEF OgInvariant
  <2>. QED
    BY <1>1, <2>1 DEF OgInOrder
<1>. QED
  BY <1>1, <1>2 DEF OgInvariant

LEMMA OgRequestMoves ==
  ASSUME AwardsTyped, OgInvariant, UNCHANGED awards, NEW r \in Requests, NEW q, OgInOrder(q),
         awardRequests' = [awardRequests EXCEPT ![r] = q]
  PROVE  OgInvariant'
<1>1. \A s \in Requests : awardRequests'[s] = IF s = r THEN q ELSE awardRequests[s]
  BY DEF AwardsTyped
<1>. QED
  BY <1>1, OgMoves

LEMMA NoOgAhead ==
  ASSUME NEW q, q.pc # "count", NEW S, q.todo \in Seq(S), "KOAJO_OG" \notin S
  PROVE  OgInOrder(q)
BY DEF OgInOrder

LEMMA BeginKeepsOg ==
  ASSUME AwardsTyped, OgInvariant, UNCHANGED awards, NEW r \in Requests, NEW pc, pc # "count",
         NEW a, NEW pod, Prizes!Begin(r, pc, a, pod)
  PROVE  OgInvariant'
<1>1. PICK q : q = [Prizes!Idle EXCEPT !.pc = pc, !.who = a, !.pod = pod]
  OBVIOUS
<1>2. q.pc = pc /\ q.todo = <<>>
  BY <1>1 DEF Prizes!Idle
<1>3. OgInOrder(q)
  BY <1>2 DEF OgInOrder
<1>4. awardRequests' = [awardRequests EXCEPT ![r] = q]
  BY <1>1 DEF Prizes!Begin
<1>. QED
  BY <1>3, <1>4, OgRequestMoves

LEMMA RequestKeepsOg ==
  ASSUME AwardsTyped, OgInvariant, NEW r \in Requests, Prizes!Request(r)
  PROVE  OgInvariant'
<1>1. PICK a \in Accounts :
        \/ \E first \in BOOLEAN, g \in Groups : Prizes!JoinPod(r, a, first, g)
        \/ \E i : Prizes!CompleteMembership(r, a, i) \/ Prizes!AcceptInvite(r, a, i)
        \/ \E i : \E late \in BOOLEAN : Prizes!RecordPayment(r, a, i, late)
  BY DEF Prizes!Request
<1>2. ASSUME NEW first, NEW g, Prizes!JoinPod(r, a, first, g) PROVE OgInvariant'
  BY <1>2, BeginKeepsOg DEF Prizes!JoinPod
<1>3. ASSUME NEW i, Prizes!CompleteMembership(r, a, i) PROVE OgInvariant'
  BY <1>3, BeginKeepsOg DEF Prizes!CompleteMembership
<1>4. ASSUME NEW i, Prizes!AcceptInvite(r, a, i) PROVE OgInvariant'
  BY <1>4, BeginKeepsOg DEF Prizes!AcceptInvite
<1>5. ASSUME NEW i, NEW late, Prizes!RecordPayment(r, a, i, late) PROVE OgInvariant'
  BY <1>5, BeginKeepsOg DEF Prizes!RecordPayment
<1>. QED
  BY <1>1, <1>2, <1>3, <1>4, <1>5

LEMMA EvaluateKeepsOg ==
  ASSUME AwardsTyped, OgInvariant, NEW r \in Requests, Evaluated(r)
  PROVE  OgInvariant'
<1>. PICK pc \in {"joined", "completed", "accepted", "paid"} : \E todo :
       AwardedNext(awardRequests[r], todo) /\ Prizes!Evaluate(r, pc, todo)
  BY DEF Evaluated
<1>. PICK todo : AwardedNext(awardRequests[r], todo) /\ Prizes!Evaluate(r, pc, todo)
  OBVIOUS
<1>1. PICK q : q = [awardRequests[r] EXCEPT !.pc = "award", !.todo = todo]
  OBVIOUS
<1>2. awardRequests[r] \in AwardRequest
  BY DEF AwardsTyped
<1>3. q.pc = "award" /\ q.todo = todo
  BY <1>1, <1>2 DEF AwardRequest
<1>4. OgInOrder(q)
  BY <1>3, NoOgAhead DEF AwardedNext
<1>5. awardRequests' = [awardRequests EXCEPT ![r] = q] /\ UNCHANGED awards
  BY <1>1 DEF Prizes!Evaluate
<1>. QED
  BY <1>4, <1>5, OgRequestMoves

LEMMA OnwardPastOg ==
  ASSUME NEW p \in AwardRequest, AwardRequestSound(p), OgInOrder(p), p.todo # <<>>,
         p.pc \in {"award", "insert", "count"}
  PROVE  /\ \A i \in DOMAIN Tail(p.todo) : Tail(p.todo)[i] # "KOAJO_OG"
         /\ Prizes!Onward(p).pc = "award" /\ Prizes!Onward(p).todo = Tail(p.todo)
         /\ OgInOrder(Prizes!Onward(p))
<1>1. p.todo \in Seq(Prizes!AchievementCode)
  BY DEF AwardRequest
<1>2. ASSUME NEW i \in DOMAIN Tail(p.todo) PROVE Tail(p.todo)[i] # "KOAJO_OG"
  <2>1. i \in 1..(Len(p.todo) - 1) /\ Len(p.todo) \in Nat
    BY <1>1
  <2>2. i + 1 \in DOMAIN p.todo /\ i + 1 # 1 /\ Tail(p.todo)[i] = p.todo[i + 1]
    BY <1>1, <2>1
  <2>. QED
    BY <2>2 DEF OgInOrder
<1>3. Prizes!Onward(p).pc = "award" /\ Prizes!Onward(p).todo = Tail(p.todo)
  BY OnwardIs
<1>. QED
  BY <1>2, <1>3 DEF OgInOrder

LEMMA FindAwardKeepsOg ==
  ASSUME AwardsInv, OgInvariant, NEW r \in Requests, Prizes!FindAward(r)
  PROVE  OgInvariant'
<1>1. PICK p : p = awardRequests[r]
  OBVIOUS
<1>2. p \in AwardRequest /\ AwardRequestSound(p) /\ OgInOrder(p) /\ p.pc = "award" /\ p.todo # <<>>
  BY <1>1 DEF AwardsInv, AwardsTyped, OgInvariant, Prizes!FindAward
<1>3. PICK q : q = [p EXCEPT !.pc = "insert"]
  OBVIOUS
<1>4. q.pc = "insert" /\ q.todo = p.todo
  BY <1>2, <1>3 DEF AwardRequest
<1>5. OgInOrder(q)
  BY <1>2, <1>4 DEF OgInOrder
<1>6. /\ UNCHANGED awards
      /\ \/ awardRequests' = [awardRequests EXCEPT ![r] = q]
         \/ awardRequests' = [awardRequests EXCEPT ![r] = Prizes!Onward(p)]
  BY <1>1, <1>3 DEF Prizes!FindAward
<1>. QED
  BY <1>2, <1>5, <1>6, OnwardPastOg, OgRequestMoves DEF AwardsInv

LEMMA InsertAwardKeepsOg ==
  ASSUME AwardsInv, OgInvariant, ~Several(AwardsBusy), NEW r \in Requests, Prizes!InsertAward(r)
  PROVE  OgInvariant'
<1>1. PICK p : p = awardRequests[r]
  OBVIOUS
<1>2. p \in AwardRequest /\ AwardRequestSound(p) /\ OgInOrder(p) /\ p.pc = "insert"
  BY <1>1 DEF AwardsInv, AwardsTyped, OgInvariant, Prizes!InsertAward
<1>3. p.todo # <<>> /\ p.todo \in Seq(Prizes!AchievementCode)
  BY <1>2 DEF AwardRequestSound, AwardRequest
<1>4. Head(p.todo) = p.todo[1] /\ 1 \in DOMAIN p.todo
  BY <1>3
<1>5. PICK w : w = <<p.who, Head(p.todo)>>
  OBVIOUS
<1>6. /\ awards' = awards \cup {w}
      /\ awardRequests' = [awardRequests EXCEPT ![r] =
           IF Head(p.todo) = "FINANCIALLY_FIT" THEN [p EXCEPT !.pc = "count"] ELSE Prizes!Onward(p)]
  BY <1>1, <1>5 DEF Prizes!InsertAward
<1>7. IsFiniteSet(OgAwards) /\ Cardinality(OgAwards) \in Nat
  <2>1. IsFiniteSet(awards) /\ OgAwards \subseteq awards
    BY DEF AwardsInv, AwardsTyped, OgAwards
  <2>. QED
    BY <2>1, FS_Subset, FS_CardinalityType
<1>8. Cardinality(OgAwards') <= OgLimit
  <2>1. CASE Head(p.todo) = "KOAJO_OG"
    <3>1. Cardinality(OgAwards) < OgLimit
      BY <1>2, <1>4, <2>1 DEF OgInOrder
    <3>2. OgAwards' = OgAwards \cup {w}
      BY <1>5, <1>6, <2>1 DEF OgAwards
    <3>3. Cardinality(OgAwards') <= Cardinality(OgAwards) + 1
      BY <1>7, <3>2, FS_AddElement
    <3>4. Cardinality(OgAwards') \in Nat
      BY <1>7, <3>2, FS_AddElement, FS_CardinalityType
    <3>. QED
      BY <1>7, <3>1, <3>3, <3>4, PrizesAssumption
  <2>2. CASE Head(p.todo) # "KOAJO_OG"
    <3>1. OgAwards' = OgAwards
      BY <1>5, <1>6, <2>2 DEF OgAwards
    <3>. QED
      BY <3>1 DEF OgInvariant
  <2>. QED
    BY <2>1, <2>2
<1>9. ASSUME NEW s \in Requests \ {r} PROVE awardRequests'[s] = Prizes!Idle
  <2>1. r \in AwardsBusy
    BY <1>1, <1>2, IdleAwardRequest DEF AwardsBusy
  <2>2. s \notin AwardsBusy
    BY <2>1 DEF Several
  <2>. QED
    BY <1>6, <2>2 DEF AwardsBusy, AwardsInv, AwardsTyped
<1>10. \A s \in Requests \ {r} : OgInOrder(awardRequests[s])'
  BY <1>9, IdleAwardRequest DEF OgInOrder
<1>11. OgInOrder(awardRequests[r])'
  <2>1. CASE Head(p.todo) = "FINANCIALLY_FIT"
    <3>1. PICK q : q = [p EXCEPT !.pc = "count"]
      OBVIOUS
    <3>2. q.pc = "count" /\ q.who = p.who /\ q.todo = p.todo
      BY <1>2, <3>1 DEF AwardRequest
    <3>3. awardRequests'[r] = q
      BY <1>6, <2>1, <3>1 DEF AwardsInv, AwardsTyped
    <3>4. <<q.who, "FINANCIALLY_FIT">> \in awards'
      BY <1>5, <1>6, <2>1, <3>2
    <3>5. \A i \in DOMAIN q.todo : q.todo[i] # "KOAJO_OG"
      BY <1>2, <1>4, <2>1, <3>2 DEF OgInOrder
    <3>. QED
      BY <3>3, <3>4, <3>5 DEF OgInOrder
  <2>2. CASE Head(p.todo) # "FINANCIALLY_FIT"
    <3>1. awardRequests'[r] = Prizes!Onward(p)
      BY <1>6, <2>2 DEF AwardsInv, AwardsTyped
    <3>2. /\ Prizes!Onward(p).pc = "award" /\ Prizes!Onward(p).todo = Tail(p.todo)
          /\ \A i \in DOMAIN Tail(p.todo) : Tail(p.todo)[i] # "KOAJO_OG"
      BY <1>2, <1>3, OnwardPastOg
    <3>. QED
      BY <3>1, <3>2 DEF OgInOrder
  <2>. QED
    BY <2>1, <2>2
<1>. QED
  BY <1>8, <1>10, <1>11 DEF OgInvariant

LEMMA CountOgKeepsOg ==
  ASSUME AwardsInv, OgInvariant, NEW r \in Requests, Prizes!CountOg(r)
  PROVE  OgInvariant'
<1>1. PICK p : p = awardRequests[r]
  OBVIOUS
<1>2. p \in AwardRequest /\ AwardRequestSound(p) /\ OgInOrder(p) /\ p.pc = "count"
  BY <1>1 DEF AwardsInv, AwardsTyped, OgInvariant, Prizes!CountOg
<1>3. p.todo # <<>> /\ p.todo \in Seq(Prizes!AchievementCode)
  BY <1>2 DEF AwardRequestSound, AwardRequest
<1>4. PICK q : q = [p EXCEPT !.pc = "award", !.todo = <<"KOAJO_OG">> \o Tail(p.todo)]
  OBVIOUS
<1>5. q.pc = "award" /\ q.todo = <<"KOAJO_OG">> \o Tail(p.todo)
  BY <1>2, <1>4 DEF AwardRequest
<1>6. ASSUME Cardinality(OgAwards) < OgLimit PROVE OgInOrder(q)
  <2>1. PICK s : s = Tail(p.todo)
    OBVIOUS
  <2>2. s \in Seq(Prizes!AchievementCode) /\ <<"KOAJO_OG">> \in Seq(Prizes!AchievementCode)
    BY <1>3, <2>1, TailOf DEF Prizes!AchievementCode
  <2>3. \A i \in DOMAIN s : s[i] # "KOAJO_OG"
    BY <1>2, <1>3, <2>1, OnwardPastOg
  <2>4. ASSUME NEW i \in DOMAIN q.todo, q.todo[i] = "KOAJO_OG" PROVE i = 1
    <3>1. /\ Len(q.todo) = 1 + Len(s) /\ Len(s) \in Nat /\ i \in 1..(1 + Len(s))
          /\ q.todo[i] = IF i <= 1 THEN <<"KOAJO_OG">>[i] ELSE s[i - 1]
      BY <1>5, <2>1, <2>2, ConcatProperties
    <3>2. CASE i # 1
      <4>1. i - 1 \in 1..Len(s) /\ ~(i <= 1)
        BY <3>1, <3>2
      <4>2. i - 1 \in DOMAIN s /\ q.todo[i] = s[i - 1]
        BY <2>2, <3>1, <4>1
      <4>. QED
        BY <2>3, <2>4, <4>2
    <3>. QED
      BY <3>2
  <2>. QED
    BY <1>5, <1>6, <2>4 DEF OgInOrder
<1>7. /\ UNCHANGED awards
      /\ \/ awardRequests' = [awardRequests EXCEPT ![r] = q] /\ Cardinality(OgAwards) < OgLimit
         \/ awardRequests' = [awardRequests EXCEPT ![r] = Prizes!Onward(p)]
  BY <1>1, <1>4, SameCount DEF Prizes!CountOg, OgAwards
<1>. QED
  BY <1>2, <1>3, <1>6, <1>7, OnwardPastOg, OgRequestMoves DEF AwardsInv

LEMMA EndRequestKeepsOg ==
  ASSUME AwardsTyped, OgInvariant, NEW r \in Requests, Prizes!EndRequest(r)
  PROVE  OgInvariant'
<1>1. OgInOrder(Prizes!Idle)
  BY IdleAwardRequest DEF OgInOrder
<1>. QED
  BY <1>1, OgRequestMoves DEF Prizes!EndRequest

LEMMA RestKeepsOg ==
  ASSUME AwardsTyped, OgInvariant, Prizes!Event \/ Prizes!Tick
  PROVE  OgInvariant'
<1>1. UNCHANGED <<awards, awardRequests>>
  BY DEF Prizes!Event, Prizes!Tick, Prizes!SitInCustomPod, Prizes!CreateCustomPod,
     Prizes!CompletePod, Prizes!MarkPayout
<1>. QED
  BY <1>1, OgMoves

-----------------------------------------------------------------------------
AwardsInvariant == AwardsInv /\ (disturbed \/ AwardsQuiet)

LEMMA AwardsStart ==
  ASSUME AwardsInit
  PROVE  AwardsInvariant
<1>1. PICK first \in SUBSET Others : awards = first \X {"KOAJO_OG"}
  BY DEF AwardsInit, Prizes!Init
<1>2. /\ memberships = [a \in Accounts |-> <<>>] /\ invites = [a \in Accounts |-> <<>>]
      /\ month = 1 /\ months = [a \in Accounts |-> {}] /\ marked = {} /\ disturbed = FALSE
      /\ awardRequests = [r \in Requests |-> Prizes!Idle]
  BY DEF AwardsInit, Prizes!Init
<1>3. IsFiniteSet(awards) /\ IsFiniteSet(first) /\ Cardinality(first) \in Nat
      /\ Cardinality(first) <= Cardinality(Others)
  <2>1. IsFiniteSet(first) /\ Cardinality(first) <= Cardinality(Others)
    BY PrizesAssumption, FS_Subset
  <2>2. IsFiniteSet({"KOAJO_OG"})
    BY FS_Singleton
  <2>. QED
    BY <1>1, <2>1, <2>2, FS_Product, FS_CardinalityType
<1>4. awards \subseteq (Accounts \cup Others) \X Prizes!AchievementCode
  <2>1. "KOAJO_OG" \in Prizes!AchievementCode
    BY DEF Prizes!AchievementCode
  <2>. QED
    BY <1>1, <2>1
<1>5. AwardsTyped
  <2>1. \A S : <<>> \in Seq(S)
    OBVIOUS
  <2>2. memberships \in [Accounts -> Seq(Seat)] /\ invites \in [Accounts -> Seq(Invitation)]
    BY <1>2, <2>1
  <2>. QED
    BY <1>2, <1>3, <1>4, <2>2, IdleAwardRequest DEF AwardsTyped
<1>6. \A r \in Requests : awardRequests[r] = Prizes!Idle
  BY <1>2
<1>7. AwardRequestSound(Prizes!Idle)
  BY IdleAwardRequest, NobodysAccount DEF AwardRequestSound
<1>8. \A w \in awards : w[1] \notin Accounts
  BY <1>1, PrizesAssumption
<1>9. AwardsInv
  <2>1. Prizes!AwardedMeansComplete
    BY <1>8, AwardedIs
  <2>. QED
    BY <1>5, <1>6, <1>7, <2>1 DEF AwardsInv
<1>10. ~Several(AwardsBusy)
  BY <1>6 DEF AwardsBusy, Several
<1>11. ASSUME NEW a \in Accounts, NEW code \in Prizes!AchievementCode,
              code \in JoinCodes \cup PayoutCodes \cup InviteCodes \cup SavingCodes
       PROVE  ~Reached(a, code)
  <2>1. memberships[a] = <<>> /\ invites[a] = <<>> /\ months[a] = {}
    BY <1>2
  <2>2. DOMAIN memberships[a] = {} /\ DOMAIN invites[a] = {} /\ Len(memberships[a]) = 0
    BY <2>1
  <2>3. Prizes!completedPods(a) = 0
    <3>1. Prizes!PaidOutSeats(a) = {}
      BY <2>2 DEF Prizes!PaidOutSeats
    <3>. QED
      BY <3>1, CountsAre, FS_EmptySet
  <2>4. Prizes!sumSuccessfulContributions(a) = 0
    <3>1. PaidContributions(a) = {}
      BY <2>2 DEF PaidContributions
    <3>. QED
      BY <1>5, <3>1, SavedAre, FS_EmptySet
  <2>5. Prizes!computeLongestMonthlyStreak(a) = 0
    <3>1. Streaks({}) = {0}
      <4>1. ASSUME NEW k \in 1..MaxMonth, NEW start \in 1..MaxMonth
            PROVE  ~(start..(start + k - 1) \subseteq {})
        <5>1. start \in start..(start + k - 1)
          BY PrizesAssumption
        <5>. QED
          BY <5>1
      <4>. QED
        BY <4>1 DEF Streaks
    <3>2. Prizes!Max({0}) = 0
      <4>1. {0} \subseteq Nat /\ {0} # {} /\ 0 \in Nat /\ \A x \in {0} : x <= 0
        OBVIOUS
      <4>2. Prizes!Max({0}) \in {0}
        BY <4>1, GreatestReached
      <4>. QED
        BY <4>2
    <3>3. Prizes!computeLongestMonthlyStreak(a) = Prizes!Max(Streaks({}))
      BY <2>1 DEF Prizes!computeLongestMonthlyStreak, Streaks
    <3>. QED
      BY <3>1, <3>2, <3>3
  <2>6. CASE code \in JoinCodes
    BY <2>2, <2>6, PrizesAssumption DEF Reached, JoinCodes
  <2>7. CASE code \in PayoutCodes
    BY <2>2, <2>3, <2>7, PrizesAssumption DEF Reached, PayoutCodes
  <2>8. CASE code \in InviteCodes
    BY <2>2, <2>8 DEF Reached, InviteCodes
  <2>9. CASE code \in SavingCodes
    <3>1. {Savings[1], Savings[2], Savings[3], StreakMonths} \subseteq Nat \ {0}
      BY PrizesAssumption
    <3>. QED
      BY <2>4, <2>5, <2>9, <3>1 DEF Reached, SavingCodes
  <2>. QED
    BY <1>11, <2>6, <2>7, <2>8, <2>9
<1>12. NothingMissed
  BY <1>5, <1>11, CompletedIsReached, LastingIs DEF NothingMissed, Missing
<1>13. \A r \in Requests : OgInOrder(awardRequests[r])
  BY <1>6, IdleAwardRequest DEF OgInOrder
<1>14. Cardinality(OgAwards) <= OgLimit
  <2>1. OgAwards = awards
    BY <1>1 DEF OgAwards
  <2>2. Cardinality(awards) = Cardinality(first) * Cardinality({"KOAJO_OG"})
    BY <1>1, <1>3, FS_Product, FS_Singleton
  <2>3. Cardinality({"KOAJO_OG"}) = 1
    BY FS_Singleton
  <2>4. Cardinality(awards) = Cardinality(first)
    BY <1>3, <2>2, <2>3
  <2>5. Cardinality(Others) \in Nat /\ Cardinality(Others) <= OgLimit /\ OgLimit \in Nat
    BY PrizesAssumption, FS_CardinalityType
  <2>. QED
    BY <1>3, <2>1, <2>4, <2>5
<1>. QED
  BY <1>9, <1>10, <1>12, <1>13, <1>14 DEF AwardsInvariant, AwardsQuiet

LEMMA AwardsQuietStep ==
  ASSUME AwardsInv, AwardsQuiet, AwardsNext, ~disturbed'
  PROVE  AwardsQuiet'
<1>1. ~Several(AwardsBusy)' /\ ~AwardFailed
  BY DEF AwardsNext
<1>2. NothingMissed /\ OgInvariant /\ ~Several(AwardsBusy) /\ AwardsTyped
  BY DEF AwardsQuiet, OgInvariant, AwardsInv
<1>3. ASSUME NEW r \in Requests, Prizes!Request(r) PROVE NothingMissed' /\ OgInvariant'
  <2>1. PICK a \in Accounts :
          \/ \E first \in BOOLEAN, g \in Groups : Prizes!JoinPod(r, a, first, g)
          \/ \E i : Prizes!CompleteMembership(r, a, i) \/ Prizes!AcceptInvite(r, a, i)
          \/ \E i : \E late \in BOOLEAN : Prizes!RecordPayment(r, a, i, late)
    BY <1>3 DEF Prizes!Request
  <2>2. NothingMissed'
    BY <1>1, <1>2, <2>1, JoinPodMissesNothing, CompleteMembershipMissesNothing,
       AcceptInviteMissesNothing, RecordPaymentMissesNothing
  <2>. QED
    BY <1>2, <1>3, <2>2, RequestKeepsOg
<1>4. ASSUME NEW r \in Requests, Evaluated(r) PROVE NothingMissed' /\ OgInvariant'
  BY <1>2, <1>4, EvaluateMissesNothing, EvaluateKeepsOg
<1>5. ASSUME NEW r \in Requests,
             Prizes!FindAward(r) \/ Prizes!InsertAward(r) \/ Prizes!CountOg(r)
      PROVE  NothingMissed' /\ OgInvariant'
  <2>1. OgInOrder(awardRequests[r])
    BY <1>2 DEF OgInvariant
  <2>. QED
    BY <1>2, <1>5, <2>1, FindAwardMissesNothing, FindAwardKeepsOg, InsertAwardMissesNothing,
       InsertAwardKeepsOg, CountOgMissesNothing, CountOgKeepsOg
<1>6. ASSUME NEW r \in Requests, Prizes!EndRequest(r) PROVE NothingMissed' /\ OgInvariant'
  BY <1>2, <1>6, EndRequestMissesNothing, EndRequestKeepsOg
<1>7. ASSUME NEW r \in Requests, Prizes!Step(r) PROVE NothingMissed' /\ OgInvariant'
  BY <1>4, <1>5, <1>6, <1>7, PodJoinIsEvaluated, PodCompletionIsEvaluated,
     InviteProgressIsEvaluated, PaymentIsEvaluated DEF Prizes!Step
<1>8. ASSUME Prizes!Event PROVE NothingMissed' /\ OgInvariant'
  <2>1. PICK a \in Accounts :
          \/ \E g \in Groups : Prizes!SitInCustomPod(a, g)
          \/ \E g \in Groups, total \in 1..Referrals : Prizes!CreateCustomPod(a, g, total)
          \/ \E i : Prizes!CompletePod(a, i) \/ Prizes!MarkPayout(a, i)
    BY <1>8 DEF Prizes!Event
  <2>2. 1..Referrals \subseteq Nat \ {0}
    BY PrizesAssumption
  <2>3. NothingMissed'
    BY <1>2, <2>1, <2>2, SitInCustomPodMissesNothing, CreateCustomPodMissesNothing,
       CompletePodMissesNothing, MarkPayoutMissesNothing
  <2>. QED
    BY <1>2, <1>8, <2>3, RestKeepsOg
<1>9. ASSUME Prizes!Tick PROVE NothingMissed' /\ OgInvariant'
  BY <1>2, <1>9, TickMissesNothing, RestKeepsOg
<1>10. ASSUME Prizes!Failure PROVE NothingMissed' /\ OgInvariant'
  BY <1>1, <1>6, <1>10 DEF AwardFailed
<1>11. NothingMissed' /\ OgInvariant'
  BY <1>3, <1>7, <1>8, <1>9, <1>10 DEF AwardsNext, Prizes!Next
<1>. QED
  BY <1>1, <1>11 DEF AwardsQuiet, OgInvariant

LEMMA AwardsStutter ==
  ASSUME AwardsInvariant, UNCHANGED <<awardVars, disturbed>>
  PROVE  AwardsInvariant'
<1>1. UNCHANGED <<memberships, invites, month, months, awards, awardRequests, marked, disturbed>>
  BY DEF awardVars
<1>2. AwardsInv'
  <2>1. AccountsGrow
    BY <1>1, NothingGrows DEF AwardsInvariant, AwardsInv
  <2>. QED
    BY <1>1, <2>1, AwardsRest DEF AwardsInvariant, AwardsInv, AwardsTyped
<1>3. ASSUME AwardsQuiet PROVE AwardsQuiet'
  <2>1. NothingMissed'
    BY <1>1, <1>2, <1>3, CalmIfUntouched, CalmMissesNothing
       DEF AwardsInvariant, AwardsInv, AwardsQuiet
  <2>2. OgInvariant'
    BY <1>1, <1>3, OgMoves DEF AwardsInvariant, AwardsInv, AwardsQuiet, OgInvariant
  <2>3. ~Several(AwardsBusy)'
    BY <1>1, <1>3 DEF AwardsQuiet, Several, AwardsBusy
  <2>. QED
    BY <2>1, <2>2, <2>3 DEF AwardsQuiet, OgInvariant
<1>. QED
  BY <1>1, <1>2, <1>3 DEF AwardsInvariant

LEMMA AwardsInvariantIsEnough ==
  ASSUME AwardsInvariant
  PROVE  AwardsFitProgress
<1>1. Prizes!AwardedMeansComplete
  BY DEF AwardsInvariant, AwardsInv
<1>2. ASSUME ~disturbed PROVE Prizes!CompleteMeansAwarded
  <2>1. NothingMissed /\ Cardinality(OgAwards) <= OgLimit
    BY <1>2 DEF AwardsInvariant, AwardsQuiet
  <2>2. Prizes!Cardinality({w \in awards : w[2] = "KOAJO_OG"}) <= OgLimit
    BY <2>1, SameCount DEF OgAwards
  <2>3. ASSUME NEW a \in Accounts \ marked, \A r \in Requests : awardRequests[r].who # a,
               NEW code \in Prizes!Completed(a) \cap Prizes!Lasting(a)
        PROVE  <<a, code>> \in awards
    <3>1. code \in Prizes!AchievementCode
      BY DEF Prizes!Completed
    <3>. QED
      BY <2>1, <2>3, <3>1 DEF NothingMissed, Missing
  <2>. QED
    BY <2>2, <2>3 DEF Prizes!CompleteMeansAwarded
<1>. QED
  BY <1>1, <1>2 DEF AwardsFitProgress

\* Whatever requests overlap and fail, what is awarded the summary shows as
\* complete; one request at a time, whatever lasts is awarded when it is complete
\* and no more accounts than there are places become a KOAJO_OG.
THEOREM AwardsFitWhatIsDone == AwardsSpec => []AwardsFitProgress
<1>1. AwardsInit => AwardsInvariant
  BY AwardsStart
<1>2. AwardsInvariant /\ [AwardsNext]_<<awardVars, disturbed>> => AwardsInvariant'
  <2>1. ASSUME AwardsInvariant, AwardsNext PROVE AwardsInvariant'
    <3>1. AwardsInv'
      BY <2>1, AwardsInvStep DEF AwardsInvariant, AwardsNext
    <3>2. ASSUME ~disturbed' PROVE AwardsQuiet'
      <4>1. ~disturbed
        BY <2>1, <3>2 DEF AwardsNext
      <4>. QED
        BY <2>1, <3>2, <4>1, AwardsQuietStep DEF AwardsInvariant
    <3>. QED
      BY <3>1, <3>2 DEF AwardsInvariant
  <2>2. ASSUME AwardsInvariant, UNCHANGED <<awardVars, disturbed>> PROVE AwardsInvariant'
    BY <2>2, AwardsStutter
  <2>. QED
    BY <2>1, <2>2
<1>3. AwardsInvariant => AwardsFitProgress
  BY AwardsInvariantIsEnough
<1>. QED
  BY <1>1, <1>2, <1>3, PTL DEF AwardsSpec
=============================================================================
