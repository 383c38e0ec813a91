------------------------ MODULE AccountStatusProofs ------------------------
(***************************************************************************)
(* What holds of accounts and of the timer runs, logins and joins that     *)
(* write them, for any number of either: a decision that was made on a row *)
(* when it was loaded still fits the row when it is written.  And for      *)
(* requests and commands that take turns: an idle account is sent each     *)
(* notice once, and nobody joins pods faster than the limits.              *)
(*                                                                         *)
(* The argument is again the version column.  A request is told of every   *)
(* write to an account it holds (the account is `stale'), and its flush    *)
(* fails when it would write one of those.  What a request does mail or    *)
(* count in between may therefore take as long as it likes.                *)
(***************************************************************************)
EXTENDS AccountStatusWatched, TLAPS

Row == [idle : 0..2, joined : BOOLEAN, warned : BOOLEAN, told : BOOLEAN, active : BOOLEAN,
        flags : SUBSET Flags, identified : BOOLEAN, customer : BOOLEAN, bank : BOOLEAN,
        method : BOOLEAN]

Pc == {"idle", "notify", "count", "mark", "join", "rapid", "markRapid"}

Asked == [pc : Pc, warns : SUBSET Accounts, closes : SUBSET Accounts,
          unsent : SUBSET Accounts, noted : SUBSET Accounts, joins : SUBSET Accounts,
          stale : SUBSET Accounts]

OthersTyped ==
  /\ young \in [Accounts -> Nat] /\ week \in [Accounts -> Nat] /\ crashes \in Nat
  /\ notices \in [Accounts -> Nat] /\ cleared \subseteq Accounts /\ refused \in BOOLEAN

\* The accounts that a timer run or a login is to write.
Noticing(q) == q.warns \cup q.closes

IdleFor(q, a) == IF a \in q.closes THEN 2 ELSE 1

MayJoin(row) == row.identified /\ row.bank /\ row.flags \subseteq {"overheat"}

\* What request q knows of the accounts that nobody has written since; `rws' is
\* the table.
Fits(q, rws) ==
  /\ q.pc = "notify" => q.joins = {}
  /\ q.pc # "notify" => Noticing(q) = {}
  /\ q.unsent \cup q.noted \subseteq Noticing(q) /\ q.unsent \cap q.noted = {}
  /\ \A a \in Noticing(q) \ q.stale : rws[a].idle = IdleFor(q, a)
  /\ q.pc \in {"count", "mark", "join"} => \A a \in q.joins \ q.stale : MayJoin(rws[a])

IInv == TypeOK /\ \A r \in Requests : Fits(req[r], rows)

LEMMA TypesUnfolded ==
  TypeOK <=> rows \in [Accounts -> Row] /\ req \in [Requests -> Asked] /\ OthersTyped
  BY DEF TypeOK, Row, Asked, Pc, OthersTyped

LEMMA TypesUnfoldedNext ==
  TypeOK' <=> rows' \in [Accounts -> Row] /\ req' \in [Requests -> Asked] /\ OthersTyped'
  BY DEF TypeOK, Row, Asked, Pc, OthersTyped

LEMMA RequestKnown ==
  ASSUME IInv, NEW r \in Requests
  PROVE  req[r] \in Asked /\ Fits(req[r], rows) /\ Held(r) \subseteq Accounts
<1>1. req[r] \in Asked /\ Fits(req[r], rows)
  BY TypesUnfolded DEF IInv
<1>. QED
  BY <1>1 DEF Asked, Held

LEMMA IdleFits ==
  /\ Idle \in Asked /\ \A rws : Fits(Idle, rws)
  /\ Idle.noted = {} /\ Idle.pc = "idle" /\ Noticing(Idle) = {} /\ Idle.joins = {}
<1>1. /\ Idle.pc = "idle" /\ Idle.warns = {} /\ Idle.closes = {} /\ Idle.unsent = {}
      /\ Idle.noted = {} /\ Idle.joins = {} /\ Idle.stale = {}
  BY DEF Idle
<1>2. "idle" \in Pc
  BY DEF Pc
<1>3. Idle \in Asked
  BY <1>2 DEF Idle, Asked
<1>. QED
  BY <1>1, <1>3 DEF Fits, Noticing

-----------------------------------------------------------------------------
(***************************************************************************)
(* Three kinds of steps                                                    *)
(***************************************************************************)
\* A request whose accounts are written by others goes on knowing of the rest.
LEMMA StaysFit ==
  ASSUME IInv, NEW s \in Requests, NEW X, X \subseteq Accounts, NEW rws,
         \A a \in Held(s) \ X : rws[a] = rows[a]
  PROVE  /\ [req[s] EXCEPT !.stale = @ \cup X] \in Asked
         /\ Fits([req[s] EXCEPT !.stale = @ \cup X], rws)
<1>. DEFINE q == req[s]
            p == [q EXCEPT !.stale = @ \cup X]
<1>1. q \in Asked /\ Fits(q, rows)
  BY RequestKnown
<1>2. p \in Asked
  BY <1>1 DEF Asked
<1>3. /\ p.pc = q.pc /\ p.warns = q.warns /\ p.closes = q.closes /\ p.unsent = q.unsent
      /\ p.noted = q.noted /\ p.joins = q.joins /\ p.stale = q.stale \cup X
  BY <1>1 DEF Asked
<1>4. Noticing(p) = Noticing(q) /\ \A a : IdleFor(p, a) = IdleFor(q, a)
  BY <1>3 DEF Noticing, IdleFor
<1>5. Noticing(q) \cup q.joins = Held(s)
  BY DEF Noticing, Held
<1>. HIDE DEF p, q
<1>6. \A a \in Noticing(p) \ p.stale : rws[a].idle = IdleFor(p, a)
  <2>. TAKE a \in Noticing(p) \ p.stale
  <2>1. a \in Noticing(q) /\ a \notin q.stale /\ a \in Held(s) \ X
    BY <1>3, <1>4, <1>5
  <2>. QED
    BY <2>1, <1>1, <1>4 DEF Fits
<1>7. p.pc \in {"count", "mark", "join"} => \A a \in p.joins \ p.stale : MayJoin(rws[a])
  <2>. SUFFICES ASSUME p.pc \in {"count", "mark", "join"}, NEW a \in p.joins \ p.stale
                PROVE  MayJoin(rws[a])
    OBVIOUS
  <2>1. a \in q.joins /\ a \notin q.stale /\ a \in Held(s) \ X
    BY <1>3, <1>5
  <2>. QED
    BY <2>1, <1>1, <1>3 DEF Fits
<1>8. Fits(p, rws)
  BY <1>1, <1>3, <1>4, <1>6, <1>7 DEF Fits
<1>. QED
  BY <1>2, <1>8 DEF p, q

\* One request moves on and writes no account.
LEMMA MoveKept ==
  ASSUME IInv, NEW r \in Requests, NEW q \in Asked, Fits(q, rows),
         req' = [req EXCEPT ![r] = q], rows' = rows, OthersTyped'
  PROVE  IInv'
<1>1. req \in [Requests -> Asked] /\ rows \in [Accounts -> Row]
  BY TypesUnfolded DEF IInv
<1>2. TypeOK'
  BY <1>1, TypesUnfoldedNext
<1>3. \A s \in Requests : Fits(req'[s], rows')
  BY <1>1 DEF IInv
<1>. QED
  BY <1>2, <1>3 DEF IInv

LEMMA EndKept ==
  ASSUME IInv, NEW r \in Requests, End(r), rows' = rows, OthersTyped'
  PROVE  IInv'
  BY MoveKept, IdleFits DEF End

\* A command writes account a, whoever holds it.
LEMMA WriteKept ==
  ASSUME IInv, NEW a \in Accounts, NEW row \in Row, Write(a, row), OthersTyped'
  PROVE  IInv'
<1>1. /\ req \in [Requests -> Asked] /\ rows \in [Accounts -> Row]
      /\ rows' = [rows EXCEPT ![a] = row]
      /\ req' = [s \in Requests |-> [req[s] EXCEPT !.stale = @ \cup (Held(s) \cap {a})]]
  BY TypesUnfolded DEF IInv, Write
<1>2. rows' \in [Accounts -> Row] /\ \A b \in Accounts \ {a} : rows'[b] = rows[b]
  BY <1>1
<1>3. ASSUME NEW s \in Requests
      PROVE  req'[s] \in Asked /\ Fits(req'[s], rows')
  <2>. DEFINE X == Held(s) \cap {a}
  <2>1. X \subseteq Accounts /\ \A b \in Held(s) \ X : rows'[b] = rows[b]
    BY <1>2, RequestKnown
  <2>2. req'[s] = [req[s] EXCEPT !.stale = @ \cup X]
    BY <1>1
  <2>. HIDE DEF X
  <2>3. /\ [req[s] EXCEPT !.stale = @ \cup X] \in Asked
        /\ Fits([req[s] EXCEPT !.stale = @ \cup X], rows')
    BY <2>1, StaysFit
  <2>. QED
    BY <2>2, <2>3
<1>4. req' \in [Requests -> Asked]
  BY <1>1, <1>3
<1>5. TypeOK'
  BY <1>2, <1>4, TypesUnfoldedNext
<1>. QED
  BY <1>3, <1>5 DEF IInv

\* Request r flushes what it has changed and goes on as q.
LEMMA FlushKept ==
  ASSUME IInv, NEW r \in Requests, NEW new, NEW q \in Asked, Flush(r, new, q),
         \A a \in Written(r) : new[a] \in Row,
         Fits(q, rows'), OthersTyped'
  PROVE  IInv'
<1>1. /\ req \in [Requests -> Asked] /\ rows \in [Accounts -> Row]
      /\ rows' = [a \in Accounts |-> IF a \in Written(r) THEN new[a] ELSE rows[a]]
      /\ req' = [s \in Requests |-> IF s = r THEN q
                   ELSE [req[s] EXCEPT !.stale = @ \cup (Held(s) \cap Written(r))]]
  BY TypesUnfolded DEF IInv, Flush, Outdated
<1>2. rows' \in [Accounts -> Row] /\ \A b \in Accounts \ Written(r) : rows'[b] = rows[b]
  BY <1>1
<1>3. ASSUME NEW s \in Requests
      PROVE  req'[s] \in Asked /\ Fits(req'[s], rows')
  <2>1. CASE s = r
    BY <2>1, <1>1
  <2>2. CASE s # r
    <3>. DEFINE X == Held(s) \cap Written(r)
    <3>1. X \subseteq Accounts /\ \A b \in Held(s) \ X : rows'[b] = rows[b]
      BY <1>2, RequestKnown
    <3>2. req'[s] = [req[s] EXCEPT !.stale = @ \cup X]
      BY <2>2, <1>1
    <3>. HIDE DEF X
    <3>3. /\ [req[s] EXCEPT !.stale = @ \cup X] \in Asked
          /\ Fits([req[s] EXCEPT !.stale = @ \cup X], rows')
      BY <3>1, StaysFit
    <3>. QED
      BY <3>2, <3>3
  <2>. QED
    BY <2>1, <2>2
<1>4. req' \in [Requests -> Asked]
  BY <1>1, <1>3
<1>5. TypeOK'
  BY <1>2, <1>4, TypesUnfoldedNext
<1>. QED
  BY <1>3, <1>5 DEF IInv

-----------------------------------------------------------------------------
(***************************************************************************)
(* Commands and time                                                       *)
(***************************************************************************)
LEMMA RowsTyped ==
  ASSUME NEW row \in Row
  PROVE  /\ Warned(row) \in Row /\ Closed(row) \in Row /\ Overheated(row) \in Row
         /\ Activated(row) \in Row /\ Deactivated(row) \in Row /\ PodJoined(row) \in Row
         /\ MayJoin(row) => MayJoin(Overheated(row))
<1>1. Warned(row) \in Row /\ Closed(row) \in Row
  BY DEF Row, Warned, Closed
<1>2. Activated(row) \in Row /\ Deactivated(row) \in Row /\ PodJoined(row) \in Row
  <2>1. Deactivated(row) \in Row
    BY DEF Row, Deactivated
  <2>2. [row EXCEPT !.active = TRUE, !.joined = TRUE, !.idle = 0] \in Row
    <3>1. 0 \in 0..2
      OBVIOUS
    <3>2. \A n \in 0..2 : [row EXCEPT !.active = TRUE, !.joined = TRUE, !.idle = n] \in Row
      BY Zenon DEF Row
    <3>. QED
      BY <3>1, <3>2
  <2>. DEFINE p == [row EXCEPT !.active = TRUE, !.joined = TRUE, !.idle = 0]
              j == [p EXCEPT !.warned = FALSE, !.told = FALSE]
  <2>3. j \in Row
    <3>. HIDE DEF p
    <3>. QED
      BY <2>2 DEF Row, p
  <2>4. PodJoined(row) = j
    BY DEF Row, PodJoined
  <2>5. [row EXCEPT !.active = TRUE] \in Row
    BY DEF Row
  <2>6. Activated(row) \in {[row EXCEPT !.active = TRUE], PodJoined(row)}
    BY Zenon DEF Activated, PodJoined
  <2>. QED
    BY <2>1, <2>3, <2>4, <2>5, <2>6
<1>3. row.flags \cup {"overheat"} \subseteq Flags
  BY DEF Row, Flags
<1>4. Overheated(row) \in Row
  BY <1>3 DEF Row, Overheated
<1>5. /\ Overheated(row).flags = row.flags \cup {"overheat"}
      /\ Overheated(row).identified = row.identified /\ Overheated(row).bank = row.bank
  BY DEF Row, Overheated
<1>. QED
  BY <1>1, <1>2, <1>4, <1>5 DEF MayJoin

LEMMA CommandKept ==
  ASSUME IInv, NEW a \in Accounts, Command(a)
  PROVE  IInv'
<1>1. rows[a] \in Row /\ OthersTyped
  BY TypesUnfolded DEF IInv
<1>2. CASE UpdateAccountStatus(a)
  <2>1. PICK row \in {Activated(rows[a]), Deactivated(rows[a])} : Write(a, row)
    BY <1>2 DEF UpdateAccountStatus
  <2>2. row \in Row
    BY <1>1, RowsTyped
  <2>3. OthersTyped'
    BY <1>1, <1>2 DEF UpdateAccountStatus, OthersTyped, memberships
  <2>. QED
    BY <2>1, <2>2, <2>3, WriteKept
<1>3. CASE UpdateAccountFlags(a)
  <2>1. PICK raised \in SUBSET Flags, lowered \in SUBSET Flags :
          /\ Write(a, [rows[a] EXCEPT !.flags = (@ \cup raised) \ lowered])
          /\ cleared' = IF lowered = {} THEN cleared ELSE cleared \cup {a}
          /\ UNCHANGED <<memberships, crashes, notices, refused>>
    BY <1>3 DEF UpdateAccountFlags
  <2>2. [rows[a] EXCEPT !.flags = (@ \cup raised) \ lowered] \in Row
    BY <1>1 DEF Row
  <2>3. OthersTyped'
    BY <1>1, <2>1 DEF OthersTyped, memberships
  <2>. QED
    BY <2>1, <2>2, <2>3, WriteKept
<1>4. CASE RemoveAccountBank(a) \/ OwnerCommand(a) \/ ProfileCommand(a)
  <2>1. PICK row :
          /\ Write(a, row)
          /\ \/ row = [rows[a] EXCEPT !.bank = FALSE]
             \/ \E completed \in BOOLEAN : row = [rows[a] EXCEPT !.identified = completed]
             \/ row = [rows[a] EXCEPT !.customer = TRUE]
             \/ \E method, mismatch \in BOOLEAN :
                  row = [rows[a] EXCEPT !.bank = TRUE, !.method = method,
                                        !.flags = IF mismatch THEN @ \cup {"review"} ELSE @]
             \/ row = rows[a]
          /\ UNCHANGED <<memberships, crashes, history>>
    BY <1>4 DEF RemoveAccountBank, OwnerCommand, ProfileCommand, RecordIdentityVerification,
       UpsertStripeCustomer, UpsertStripeBankAccount, NameMismatch, UpdateAvatar,
       UpdateNotificationPreferences
  <2>2. rows[a].flags \cup {"review"} \subseteq Flags
    BY <1>1 DEF Row, Flags
  <2>3. row \in Row
    BY <1>1, <2>1, <2>2 DEF Row
  <2>4. OthersTyped'
    BY <1>1, <2>1 DEF OthersTyped, memberships, history
  <2>. QED
    BY <2>1, <2>3, <2>4, WriteKept
<1>. QED
  BY <1>2, <1>3, <1>4 DEF Command, AdminCommand

LEMMA AgeKept ==
  ASSUME IInv, NEW a \in Accounts, Age(a)
  PROVE  IInv'
<1>1. rows' = rows /\ req' = req /\ OthersTyped
  BY TypesUnfolded DEF Age, IInv
<1>2. OthersTyped'
  BY <1>1 DEF Age, OthersTyped, history
<1>3. TypeOK'
  BY <1>1, <1>2, TypesUnfolded, TypesUnfoldedNext DEF IInv
<1>. QED
  BY <1>1, <1>3 DEF IInv

LEMMA RestKept ==
  ASSUME IInv, NEW a \in Accounts, Rest(a)
  PROVE  IInv'
<1>1. /\ rows \in [Accounts -> Row] /\ req \in [Requests -> Asked] /\ OthersTyped
      /\ rows' = [rows EXCEPT ![a].idle = @ + 1] /\ req' = req /\ rows[a].idle < 2
  BY TypesUnfolded DEF IInv, Rest
<1>2. [rows[a] EXCEPT !.idle = @ + 1] \in Row
  BY <1>1 DEF Row
<1>3. rows' \in [Accounts -> Row] /\ \A b \in Accounts \ {a} : rows'[b] = rows[b]
  BY <1>1, <1>2
<1>4. OthersTyped'
  BY <1>1 DEF Rest, OthersTyped, memberships
<1>5. TypeOK'
  BY <1>1, <1>3, <1>4, TypesUnfoldedNext
<1>6. ASSUME NEW s \in Requests PROVE Fits(req'[s], rows')
  <2>1. \A b \in Held(s) \ {} : rows'[b] = rows[b]
    BY <1>3, RequestKnown DEF Rest, Quiet
  <2>2. Fits([req[s] EXCEPT !.stale = @ \cup {}], rows')
    BY <2>1, StaysFit
  <2>3. [req[s] EXCEPT !.stale = @ \cup {}] = req[s]
    BY <1>1 DEF Asked
  <2>. QED
    BY <1>1, <2>2, <2>3
<1>. QED
  BY <1>5, <1>6 DEF IInv

LEMMA CrashKept ==
  ASSUME IInv, Crash
  PROVE  IInv'
<1>1. /\ rows' = rows /\ rows \in [Accounts -> Row] /\ OthersTyped
      /\ req' \in [Requests -> Asked] /\ \A s \in Requests : req'[s] = Idle
  BY IdleFits, TypesUnfolded DEF Crash, IInv
<1>2. OthersTyped'
  BY <1>1 DEF Crash, OthersTyped, memberships, history
<1>3. TypeOK'
  BY <1>1, <1>2, TypesUnfoldedNext
<1>. QED
  BY <1>1, <1>3, IdleFits DEF IInv

-----------------------------------------------------------------------------
(***************************************************************************)
(* Notices                                                                 *)
(***************************************************************************)
LEMMA NoticeBegins ==
  ASSUME IInv, NEW r \in Requests, NEW q \in Asked, Begin(r, q),
         q.pc = "notify", q.joins = {}, q.unsent \cup q.noted \subseteq Noticing(q),
         q.unsent \cap q.noted = {},
         \A a \in Noticing(q) : rows[a].idle = IdleFor(q, a)
  PROVE  IInv'
<1>1. rows' = rows /\ req' = [req EXCEPT ![r] = q]
  BY DEF Begin
<1>2. OthersTyped'
  BY TypesUnfolded DEF IInv, Begin, OthersTyped, memberships, history
<1>3. Fits(q, rows)
  BY DEF Fits
<1>. QED
  BY <1>1, <1>2, <1>3, MoveKept

LEMMA ProcessSound ==
  ASSUME IInv, NEW r \in Requests, ProcessAccountInactivity(r)
  PROVE  IInv'
<1>1. PICK q : /\ Begin(r, q)
               /\ q = [Idle EXCEPT !.pc = "notify", !.warns = ToWarn, !.closes = ToClose,
                                   !.unsent = ToWarn \cup ToClose]
  BY DEF ProcessAccountInactivity
<1>2. ToWarn \subseteq Accounts /\ ToClose \subseteq Accounts /\ "notify" \in Pc
  BY DEF ToWarn, ToClose, Pc
<1>3. /\ q \in Asked /\ q.pc = "notify" /\ q.joins = {} /\ q.warns = ToWarn
      /\ q.closes = ToClose /\ q.unsent = ToWarn \cup ToClose /\ q.noted = {}
  BY <1>1, <1>2 DEF Idle, Asked
<1>4. \A a \in Noticing(q) : rows[a].idle = IdleFor(q, a)
  BY <1>3 DEF Noticing, IdleFor, ToWarn, ToClose
<1>. QED
  BY <1>1, <1>3, <1>4, NoticeBegins DEF Noticing

LEMMA LoginSound ==
  ASSUME IInv, NEW r \in Requests, LoginIdle(r)
  PROVE  IInv'
<1>1. PICK a, q :
        /\ a \in Accounts
        /\ Begin(r, q)
        /\ \/ /\ a \in ToWarn
              /\ q = [Idle EXCEPT !.pc = "notify", !.warns = {a}, !.unsent = {a}]
           \/ /\ rows[a].idle = 2
              /\ q = [Idle EXCEPT !.pc = "notify", !.closes = {a},
                                  !.unsent = {a} \cap ToClose, !.noted = {a} \ ToClose]
  BY DEF LoginIdle
<1>2. "notify" \in Pc
  BY DEF Pc
<1>3. CASE a \in ToWarn /\ q = [Idle EXCEPT !.pc = "notify", !.warns = {a}, !.unsent = {a}]
  <2>1. /\ q \in Asked /\ q.pc = "notify" /\ q.joins = {} /\ q.warns = {a}
        /\ q.closes = {} /\ q.unsent = {a} /\ q.noted = {}
    BY <1>1, <1>2, <1>3 DEF Idle, Asked
  <2>2. \A b \in Noticing(q) : rows[b].idle = IdleFor(q, b)
    BY <1>3, <2>1 DEF Noticing, IdleFor, ToWarn
  <2>. QED
    BY <1>1, <2>1, <2>2, NoticeBegins DEF Noticing
<1>4. CASE /\ rows[a].idle = 2
           /\ q = [Idle EXCEPT !.pc = "notify", !.closes = {a},
                               !.unsent = {a} \cap ToClose, !.noted = {a} \ ToClose]
  <2>1. /\ q \in Asked /\ q.pc = "notify" /\ q.joins = {} /\ q.warns = {}
        /\ q.closes = {a} /\ q.unsent = {a} \cap ToClose /\ q.noted = {a} \ ToClose
    BY <1>1, <1>2, <1>4 DEF Idle, Asked
  <2>2. \A b \in Noticing(q) : rows[b].idle = IdleFor(q, b)
    BY <1>4, <2>1 DEF Noticing, IdleFor
  <2>. QED
    BY <1>1, <2>1, <2>2, NoticeBegins DEF Noticing
<1>. QED
  BY <1>1, <1>3, <1>4

\* What is written is no longer held.
LEMMA WithoutFits ==
  ASSUME NEW q \in Asked, NEW W, NEW rws, NEW new, Fits(q, rws),
         q.pc \notin {"count", "mark", "join"}, q.unsent \cap W = {},
         \A a \in Accounts \ W : new[a] = rws[a]
  PROVE  Without(q, W) \in Asked /\ Fits(Without(q, W), new)
<1>. DEFINE p == Without(q, W)
<1>1. /\ p \in Asked /\ p.pc = q.pc /\ p.joins = q.joins /\ p.stale = q.stale
      /\ p.warns = q.warns \ W /\ p.closes = q.closes \ W
      /\ p.unsent = q.unsent /\ p.noted = q.noted \ W
  BY DEF Without, Asked
<1>. HIDE DEF p
<1>2. Noticing(p) = Noticing(q) \ W /\ Noticing(q) \subseteq Accounts
  BY <1>1 DEF Noticing, Asked
<1>3. \A a \in Noticing(p) \ p.stale : new[a].idle = IdleFor(p, a)
  <2>. TAKE a \in Noticing(p) \ p.stale
  <2>1. a \in Noticing(q) \ q.stale /\ a \in Accounts \ W /\ IdleFor(p, a) = IdleFor(q, a)
    BY <1>1, <1>2 DEF IdleFor
  <2>. QED
    BY <2>1 DEF Fits
<1>4. p.unsent \cup p.noted \subseteq Noticing(p) /\ p.unsent \cap p.noted = {}
  BY <1>1, <1>2 DEF Fits
<1>. QED
  BY <1>1, <1>2, <1>3, <1>4 DEF Fits, p

LEMMA NoticedTyped ==
  ASSUME IInv, NEW r \in Requests, req[r].pc = "notify"
  PROVE  Written(r) = req[r].noted /\ \A a \in Written(r) : Noticed(r)[a] \in Row
<1>1. /\ req[r] \in Asked /\ Fits(req[r], rows) /\ Held(r) \subseteq Accounts
      /\ rows \in [Accounts -> Row]
  BY RequestKnown, TypesUnfolded DEF IInv
<1>2. Written(r) = req[r].noted /\ req[r].noted \subseteq Held(r)
  BY <1>1 DEF Fits, Written, Held, Noticing
<1>. QED
  BY <1>1, <1>2, RowsTyped DEF Noticed

LEMMA NextNoticeSound ==
  ASSUME IInv, NEW r \in Requests, NEW q \in Asked, NextNotice(r, q), Fits(q, rows),
         q.pc \notin {"count", "mark", "join"}, q.unsent \cap req[r].noted = {}, OthersTyped'
  PROVE  IInv'
<1>1. req[r].pc = "notify" /\ rows \in [Accounts -> Row]
  BY TypesUnfolded DEF NextNotice, IInv
<1>2. Written(r) = req[r].noted /\ \A a \in Written(r) : Noticed(r)[a] \in Row
  BY <1>1, NoticedTyped
<1>3. CASE Flush(r, Noticed(r), Without(q, Written(r)))
  <2>1. \A a \in Accounts \ Written(r) : rows'[a] = rows[a]
    BY <1>3 DEF Flush
  <2>2. /\ Without(q, Written(r)) \in Asked
        /\ Fits(Without(q, Written(r)), rows')
    BY <1>2, <2>1, WithoutFits
  <2>. QED
    BY <1>2, <1>3, <2>2, FlushKept
<1>4. CASE rows' = rows /\ req' = [req EXCEPT ![r] = q]
  BY <1>4, MoveKept
<1>. QED
  BY <1>3, <1>4 DEF NextNotice

LEMMA NotifySound ==
  ASSUME IInv, NEW r \in Requests, Notify(r)
  PROVE  IInv'
<1>1. PICK a \in req[r].unsent :
        /\ NextNotice(r, [req[r] EXCEPT !.unsent = @ \ {a}, !.noted = @ \cup {a}])
        /\ notices' = [notices EXCEPT ![a] = IF @ < 2 THEN @ + 1 ELSE @]
  BY DEF Notify
<1>. DEFINE q == [req[r] EXCEPT !.unsent = @ \ {a}, !.noted = @ \cup {a}]
<1>2. /\ req[r] \in Asked /\ Fits(req[r], rows) /\ req[r].pc = "notify" /\ OthersTyped
  BY <1>1, RequestKnown, TypesUnfolded DEF NextNotice, IInv
<1>3. /\ q \in Asked /\ q.pc = "notify" /\ q.joins = req[r].joins /\ q.stale = req[r].stale
      /\ q.warns = req[r].warns /\ q.closes = req[r].closes
      /\ q.unsent = req[r].unsent \ {a} /\ q.noted = req[r].noted \cup {a}
  BY <1>2 DEF Asked
<1>4. NextNotice(r, q)
  BY <1>1
<1>. HIDE DEF q
<1>5. Noticing(q) = Noticing(req[r]) /\ \A b : IdleFor(q, b) = IdleFor(req[r], b)
  BY <1>3 DEF Noticing, IdleFor
<1>6. Fits(q, rows) /\ q.unsent \cap req[r].noted = {}
  BY <1>2, <1>3, <1>5 DEF Fits
<1>7. notices' \in [Accounts -> Nat]
  <2>1. notices \in [Accounts -> Nat] /\ a \in Accounts
    BY <1>2 DEF OthersTyped, Asked
  <2>2. notices[a] \in Nat
    BY <2>1
  <2>. QED
    BY <1>1, <2>1, <2>2
<1>8. OthersTyped'
  BY <1>2, <1>7 DEF OthersTyped, Notify, memberships
<1>9. q.pc \notin {"count", "mark", "join"}
  BY <1>3
<1>. QED
  BY <1>3, <1>4, <1>6, <1>8, <1>9, NextNoticeSound

LEMMA NoticeRefusedSound ==
  ASSUME IInv, NEW r \in Requests, NoticeRefused(r)
  PROVE  IInv'
<1>1. OthersTyped'
  BY TypesUnfolded DEF IInv, OthersTyped, NoticeRefused, memberships
<1>2. /\ NextNotice(r, Idle) /\ Idle \in Asked /\ Fits(Idle, rows)
      /\ Idle.pc \notin {"count", "mark", "join"}
  BY IdleFits DEF NoticeRefused
<1>3. Idle.unsent \cap req[r].noted = {}
  BY DEF Idle
<1>. QED
  BY <1>1, <1>2, <1>3, NextNoticeSound

LEMMA FlushInactivitySound ==
  ASSUME IInv, NEW r \in Requests, FlushInactivity(r)
  PROVE  IInv'
<1>1. Flush(r, Noticed(r), Idle) /\ \A a \in Written(r) : Noticed(r)[a] \in Row
  BY NoticedTyped DEF FlushInactivity
<1>2. OthersTyped'
  BY TypesUnfolded DEF IInv, OthersTyped, FlushInactivity, memberships, history
<1>. QED
  BY <1>1, <1>2, IdleFits, FlushKept

-----------------------------------------------------------------------------
(***************************************************************************)
(* Joins                                                                   *)
(***************************************************************************)
LEMMA JoinBegins ==
  ASSUME IInv, NEW r \in Requests, StartJoin(r) \/ StartCustomJoin(r)
  PROVE  IInv'
<1>1. PICK a \in Accounts : \E pc \in {"count", "join"} :
        /\ rows[a].identified /\ Eligible(rows[a])
        /\ Begin(r, [Idle EXCEPT !.pc = pc, !.joins = {a}])
  BY DEF StartJoin, StartCustomJoin
<1>. PICK pc \in {"count", "join"} : Begin(r, [Idle EXCEPT !.pc = pc, !.joins = {a}])
  BY <1>1
<1>. DEFINE q == [Idle EXCEPT !.pc = pc, !.joins = {a}]
<1>2. pc \in Pc
  BY DEF Pc
<1>3. /\ q \in Asked /\ q.pc \in {"count", "join"} /\ q.joins = {a}
      /\ q.warns = {} /\ q.closes = {} /\ q.unsent = {} /\ q.noted = {}
  BY <1>2 DEF Idle, Asked
<1>4. MayJoin(rows[a])
  BY <1>1 DEF Eligible, MayJoin
<1>5. Fits(q, rows)
  BY <1>3, <1>4 DEF Fits, Noticing
<1>6. OthersTyped' /\ rows' = rows /\ req' = [req EXCEPT ![r] = q]
  BY TypesUnfolded DEF IInv, Begin, OthersTyped, memberships, history
<1>. HIDE DEF q
<1>. QED
  BY <1>3, <1>5, <1>6, MoveKept

LEMMA CountSound ==
  ASSUME IInv, NEW r \in Requests, CountJoins(r) \/ EvaluateRapidJoins(r)
  PROVE  IInv'
<1>1. PICK pc \in {"mark", "join", "markRapid"} :
        \/ req[r].pc = "count" /\ req' = [req EXCEPT ![r] = [req[r] EXCEPT !.pc = pc]]
                /\ pc \in {"mark", "join"}
        \/ req[r].pc = "rapid" /\ req' = [req EXCEPT ![r] = [req[r] EXCEPT !.pc = pc]]
                /\ pc = "markRapid"
        \/ End(r)
  BY DEF CountJoins, EvaluateRapidJoins, End
<1>2. rows' = rows /\ OthersTyped'
  BY TypesUnfolded DEF IInv, CountJoins, EvaluateRapidJoins, OthersTyped, memberships, history
<1>3. CASE End(r)
  BY <1>2, <1>3, EndKept
<1>4. CASE ~End(r)
  <2>. DEFINE q == [req[r] EXCEPT !.pc = pc]
  <2>1. pc \in Pc
    BY DEF Pc
  <2>2. req[r] \in Asked /\ Fits(req[r], rows)
    BY RequestKnown
  <2>3. /\ q \in Asked /\ q.pc = pc /\ q.joins = req[r].joins /\ q.stale = req[r].stale
        /\ q.warns = req[r].warns /\ q.closes = req[r].closes
        /\ q.unsent = req[r].unsent /\ q.noted = req[r].noted
    BY <2>1, <2>2 DEF Asked
  <2>4. req' = [req EXCEPT ![r] = q]
    BY <1>1, <1>4
  <2>. HIDE DEF q
  <2>5. Fits(q, rows)
    BY <1>1, <1>4, <2>2, <2>3 DEF Fits, Noticing, IdleFor
  <2>. QED
    BY <1>2, <2>3, <2>4, <2>5, MoveKept
<1>. QED
  BY <1>3, <1>4

\* What a join writes: the account that joins, as it is.
LEMMA JoinWritten ==
  ASSUME IInv, NEW r \in Requests, req[r].pc \in {"mark", "join", "markRapid"}
  PROVE  /\ Written(r) = req[r].joins /\ Noticing(req[r]) = {}
         /\ req[r].unsent = {} /\ req[r].noted = {}
         /\ \A a \in Written(r) : a \in Accounts /\ rows[a] \in Row
         /\ Current(r) /\ req[r].pc # "markRapid" => \A a \in req[r].joins : MayJoin(rows[a])
<1>1. req[r] \in Asked /\ Fits(req[r], rows) /\ rows \in [Accounts -> Row]
  BY RequestKnown, TypesUnfolded DEF IInv
<1>2. Noticing(req[r]) = {} /\ req[r].unsent = {} /\ req[r].noted = {}
  BY <1>1 DEF Fits
<1>3. Written(r) = req[r].joins /\ req[r].joins \subseteq Accounts
  BY <1>1, <1>2 DEF Written, Asked
<1>. QED
  BY <1>1, <1>2, <1>3 DEF Current, Fits

LEMMA MarkJoinerSound ==
  ASSUME IInv, NEW r \in Requests, MarkJoiner(r)
  PROVE  IInv'
<1>. DEFINE q == [req[r] EXCEPT !.pc = "join"]
            new == [a \in req[r].joins |-> Overheated(rows[a])]
<1>1. req[r].pc = "mark" /\ Flush(r, new, q) /\ Current(r)
  BY DEF MarkJoiner, Flush
<1>2. /\ Written(r) = req[r].joins /\ Noticing(req[r]) = {}
      /\ req[r].unsent = {} /\ req[r].noted = {}
      /\ \A a \in Written(r) : a \in Accounts /\ rows[a] \in Row
      /\ \A a \in req[r].joins : MayJoin(rows[a])
  BY <1>1, JoinWritten
<1>3. \A a \in Written(r) : new[a] \in Row /\ MayJoin(new[a])
  BY <1>2, RowsTyped
<1>4. req[r] \in Asked /\ "join" \in Pc
  BY RequestKnown DEF Pc
<1>5. /\ q \in Asked /\ q.pc = "join" /\ q.joins = req[r].joins
      /\ q.unsent = {} /\ q.noted = {} /\ q.warns = req[r].warns /\ q.closes = req[r].closes
  BY <1>2, <1>4 DEF Asked
<1>6. \A a \in Written(r) : rows'[a] = new[a]
  BY <1>1, <1>2 DEF Flush
<1>. HIDE DEF q, new
<1>7. Noticing(q) = {}
  BY <1>2, <1>5 DEF Noticing
<1>8. \A a \in q.joins : MayJoin(rows'[a])
  BY <1>2, <1>3, <1>5, <1>6
<1>9. Fits(q, rows')
  BY <1>5, <1>7, <1>8 DEF Fits
<1>10. OthersTyped'
  BY TypesUnfolded DEF IInv, MarkJoiner, OthersTyped, memberships, history
<1>. QED
  BY <1>1, <1>3, <1>5, <1>9, <1>10, FlushKept

LEMMA CommitJoinSound ==
  ASSUME IInv, NEW r \in Requests, CommitJoin(r)
  PROVE  IInv'
<1>. DEFINE q == [req[r] EXCEPT !.pc = "rapid"]
            new == [a \in req[r].joins |-> PodJoined(rows[a])]
<1>1. req[r].pc = "join" /\ Flush(r, new, q)
  BY DEF CommitJoin
<1>2. /\ Written(r) = req[r].joins /\ Noticing(req[r]) = {}
      /\ req[r].unsent = {} /\ req[r].noted = {}
      /\ \A a \in Written(r) : a \in Accounts /\ rows[a] \in Row
  BY <1>1, JoinWritten
<1>3. \A a \in Written(r) : new[a] \in Row
  BY <1>2, RowsTyped
<1>4. req[r] \in Asked /\ "rapid" \in Pc
  BY RequestKnown DEF Pc
<1>5. /\ q \in Asked /\ q.pc = "rapid" /\ q.unsent = {} /\ q.noted = {}
      /\ q.warns = req[r].warns /\ q.closes = req[r].closes
  BY <1>2, <1>4 DEF Asked
<1>. HIDE DEF q, new
<1>6. Fits(q, rows')
  BY <1>2, <1>5 DEF Fits, Noticing
<1>7. OthersTyped'
  <2>1. OthersTyped
    BY TypesUnfolded DEF IInv
  <2>2. /\ young' = [a \in Accounts |-> IF a \in req[r].joins THEN young[a] + 1 ELSE young[a]]
        /\ notices' = [a \in Accounts |-> IF a \in req[r].joins THEN 0 ELSE notices[a]]
        /\ UNCHANGED <<week, crashes, cleared, refused>>
    BY DEF CommitJoin
  <2>3. young' \in [Accounts -> Nat] /\ notices' \in [Accounts -> Nat]
    BY <2>1, <2>2 DEF OthersTyped
  <2>. QED
    BY <2>1, <2>2, <2>3 DEF OthersTyped
<1>. QED
  BY <1>1, <1>3, <1>5, <1>6, <1>7, FlushKept

LEMMA MarkRapidSound ==
  ASSUME IInv, NEW r \in Requests, MarkRapidJoiner(r)
  PROVE  IInv'
<1>. DEFINE new == [a \in req[r].joins |-> Overheated(rows[a])]
<1>1. req[r].pc = "markRapid" /\ Flush(r, new, Idle)
  BY DEF MarkRapidJoiner
<1>2. /\ Written(r) = req[r].joins
      /\ \A a \in Written(r) : a \in Accounts /\ rows[a] \in Row
  BY <1>1, JoinWritten
<1>3. \A a \in Written(r) : new[a] \in Row
  BY <1>2, RowsTyped
<1>4. OthersTyped'
  BY TypesUnfolded DEF IInv, MarkRapidJoiner, OthersTyped, memberships, history
<1>. HIDE DEF new
<1>. QED
  BY <1>1, <1>3, <1>4, IdleFits, FlushKept

LEMMA EndsSound ==
  ASSUME IInv, NEW r \in Requests, Conflict(r) \/ JoinRefused(r)
  PROVE  IInv'
<1>1. End(r) /\ rows' = rows
  BY DEF Conflict, JoinRefused
<1>2. OthersTyped'
  BY TypesUnfolded DEF IInv, Conflict, JoinRefused, OthersTyped, memberships, history
<1>. QED
  BY <1>1, <1>2, EndKept

-----------------------------------------------------------------------------
(***************************************************************************)
(* The specification                                                       *)
(***************************************************************************)
LEMMA InitSound == Init => IInv
<1>. SUFFICES ASSUME Init PROVE IInv
  OBVIOUS
<1>1. NewRow \in Row
  BY DEF NewRow, Row
<1>2. SettledRow \in Row
  BY <1>1 DEF SettledRow, Row
<1>3. /\ rows \in [Accounts -> Row] /\ req \in [Requests -> Asked]
      /\ \A r \in Requests : req[r] = Idle
  BY <1>1, <1>2, IdleFits DEF Init
<1>4. OthersTyped
  BY DEF Init, OthersTyped
<1>5. TypeOK
  BY <1>3, <1>4, TypesUnfolded
<1>. QED
  BY <1>3, <1>5, IdleFits DEF IInv

LEMMA NextSound == IInv /\ [Next]_vars => IInv'
<1>. SUFFICES ASSUME IInv, [Next]_vars PROVE IInv'
  OBVIOUS
<1>1. ASSUME NEW a \in Accounts, Command(a) \/ Age(a) \/ Rest(a) PROVE IInv'
  BY <1>1, CommandKept, AgeKept, RestKept
<1>2. CASE Crash
  BY <1>2, CrashKept
<1>3. ASSUME NEW r \in Requests, ProcessAccountInactivity(r) \/ Request(r) \/ NoticeRefused(r)
      PROVE  IInv'
  BY <1>3, ProcessSound, LoginSound, JoinBegins, NoticeRefusedSound DEF Request
<1>4. ASSUME NEW r \in Requests, Step(r) PROVE IInv'
  BY <1>4, NotifySound, FlushInactivitySound, EndsSound, CountSound, MarkJoinerSound,
     CommitJoinSound, MarkRapidSound DEF Step
<1>5. CASE UNCHANGED vars
  <2>1. rows' = rows /\ req' = req
    BY <1>5 DEF vars
  <2>2. OthersTyped'
    BY <1>5, TypesUnfolded DEF IInv, vars, OthersTyped, memberships, history
  <2>3. TypeOK'
    BY <2>1, <2>2, TypesUnfolded, TypesUnfoldedNext DEF IInv
  <2>. QED
    BY <2>1, <2>3 DEF IInv
<1>. QED
  BY <1>1, <1>2, <1>3, <1>4, <1>5 DEF Next

LEMMA Inductive == Spec => []IInv
  BY InitSound, NextSound, PTL DEF Spec

\* What requests hold and what they have noted, counted and marked keeps its
\* shape, whatever overlaps, fails or dies.
THEOREM StatusTypeCorrect == Spec => []TypeOK
<1>1. IInv => TypeOK
  BY DEF IInv
<1>. QED
  BY <1>1, Inductive, PTL

-----------------------------------------------------------------------------
(***************************************************************************)
(* Decisions                                                               *)
(***************************************************************************)
\* What a request has noted is left alone by the flushes and commands of others.
LEMMA FlushKeepsNoted ==
  ASSUME IInv, NEW r \in Requests, NEW s \in Requests, s # r, NEW new, NEW q, Flush(s, new, q)
  PROVE  req'[r].noted = req[r].noted
<1>1. req[r] \in Asked
  BY RequestKnown
<1>2. req'[r] = [req[r] EXCEPT !.stale = @ \cup (Held(r) \cap Written(s))]
  BY DEF Flush, Outdated
<1>. QED
  BY <1>1, <1>2 DEF Asked

LEMMA CommandKeepsNoted ==
  ASSUME IInv, NEW r \in Requests, NEW a, NEW row, Write(a, row)
  PROVE  req'[r].noted = req[r].noted
<1>1. req[r] \in Asked
  BY RequestKnown
<1>2. req'[r] = [req[r] EXCEPT !.stale = @ \cup (Held(r) \cap {a})]
  BY DEF Write
<1>. QED
  BY <1>1, <1>2 DEF Asked

\* A step writes rows in a flush of its own request, or not at all.
LEMMA StepsFlush ==
  ASSUME NEW s \in Requests, Step(s) \/ NoticeRefused(s)
  PROVE  rows' = rows \/ \E new, q : Flush(s, new, q)
<1>1. CASE Notify(s) \/ NoticeRefused(s)
  <2>1. PICK q : NextNotice(s, q)
    BY <1>1 DEF Notify, NoticeRefused
  <2>. QED
    BY <2>1 DEF NextNotice
<1>2. CASE FlushInactivity(s) \/ MarkRapidJoiner(s)
  BY <1>2 DEF FlushInactivity, MarkRapidJoiner
<1>3. CASE MarkJoiner(s) \/ CommitJoin(s)
  BY <1>3 DEF MarkJoiner, CommitJoin
<1>4. CASE Conflict(s) \/ CountJoins(s) \/ JoinRefused(s) \/ EvaluateRapidJoins(s)
  BY <1>4 DEF Conflict, CountJoins, JoinRefused, EvaluateRapidJoins
<1>. QED
  BY <1>1, <1>2, <1>3, <1>4 DEF Step

LEMMA CommandsWrite ==
  ASSUME NEW a \in Accounts, Command(a)
  PROVE  \E row : Write(a, row)
<1>1. CASE UpdateAccountStatus(a)
  BY <1>1 DEF UpdateAccountStatus
<1>2. CASE UpdateAccountFlags(a)
  BY <1>2 DEF UpdateAccountFlags
<1>3. CASE RemoveAccountBank(a) \/ OwnerCommand(a) \/ ProfileCommand(a)
  BY <1>3 DEF RemoveAccountBank, OwnerCommand, ProfileCommand, RecordIdentityVerification,
     UpsertStripeCustomer, UpsertStripeBankAccount, UpdateAvatar, UpdateNotificationPreferences
<1>. QED
  BY <1>1, <1>2, <1>3 DEF Command, AdminCommand

LEMMA NotedIsWritten ==
  ASSUME IInv, [Next]_vars, NEW r \in Requests, NEW a \in Accounts,
         a \in req[r].noted, a \notin req'[r].noted, rows'[a] # rows[a]
  PROVE  Current(r)
<1>1. ASSUME NEW b \in Accounts, Command(b) PROVE FALSE
  BY <1>1, CommandsWrite, CommandKeepsNoted
<1>2. ASSUME NEW s \in Requests, NEW new, NEW q, Flush(s, new, q) PROVE Current(r)
  <2>1. s = r
    BY <1>2, FlushKeepsNoted
  <2>. QED
    BY <1>2, <2>1 DEF Flush
<1>3. ASSUME NEW s \in Requests, Step(s) \/ NoticeRefused(s) PROVE Current(r)
  BY <1>2, <1>3, StepsFlush
<1>4. ASSUME NEW b \in Accounts, Age(b) \/ Rest(b) PROVE FALSE
  BY <1>4 DEF Age, Rest
<1>5. ASSUME NEW s \in Requests, ProcessAccountInactivity(s) \/ Request(s) PROVE FALSE
  BY <1>5 DEF ProcessAccountInactivity, Request, LoginIdle, StartJoin, StartCustomJoin, Begin
<1>6. CASE Crash \/ UNCHANGED vars
  BY <1>6 DEF Crash, vars
<1>. QED
  BY <1>1, <1>3, <1>4, <1>5, <1>6 DEF Next

\* Whatever is mailed, counted or waited for in between: an account is warned or
\* closed only while it is as idle as that takes, and joins only while it is
\* identified, linked to a bank and not under review.
THEOREM DecisionsAlwaysFit == Spec => DecisionsFitTheRow
<1>1. ASSUME IInv, [Next]_vars, NEW r \in Requests, NEW a \in Accounts
      PROVE  /\ a \in req[r].noted /\ a \notin req'[r].noted /\ rows'[a] # rows[a] =>
                  rows[a].idle = IF a \in req[r].closes THEN 2 ELSE 1
             /\ CommitJoin(r) /\ a \in req[r].joins =>
                  rows[a].identified /\ rows[a].bank /\ rows[a].flags \subseteq {"overheat"}
  <2>1. ASSUME a \in req[r].noted, a \notin req'[r].noted, rows'[a] # rows[a]
        PROVE  rows[a].idle = IF a \in req[r].closes THEN 2 ELSE 1
    <3>1. Current(r)
      BY <1>1, <2>1, NotedIsWritten
    <3>2. a \notin req[r].stale /\ a \in Noticing(req[r])
      BY <1>1, <2>1, <3>1, RequestKnown DEF Current, Written, Fits
    <3>. QED
      BY <1>1, <3>2, RequestKnown DEF Fits, IdleFor
  <2>2. ASSUME CommitJoin(r), a \in req[r].joins
        PROVE  rows[a].identified /\ rows[a].bank /\ rows[a].flags \subseteq {"overheat"}
    <3>1. Current(r) /\ req[r].pc = "join"
      BY <2>2 DEF CommitJoin, Flush
    <3>2. MayJoin(rows[a])
      BY <1>1, <2>2, <3>1, JoinWritten
    <3>. QED
      BY <3>2 DEF MayJoin
  <2>. QED
    BY <2>1, <2>2
<1>2. IInv /\ [Next]_vars =>
        [\A r \in Requests, a \in Accounts :
           /\ a \in req[r].noted /\ a \notin req'[r].noted /\ rows'[a] # rows[a] =>
                rows[a].idle = IF a \in req[r].closes THEN 2 ELSE 1
           /\ CommitJoin(r) /\ a \in req[r].joins =>
                rows[a].identified /\ rows[a].bank /\ rows[a].flags \subseteq {"overheat"}]_vars
  BY <1>1
<1>. QED
  BY <1>2, Inductive, PTL DEF DecisionsFitTheRow, Spec

-----------------------------------------------------------------------------
(***************************************************************************)
(* One request or command at a time                                        *)
(***************************************************************************)
\* The requests that are still to mail account a, that have it to write because
\* they did, that may yet let it join and that have let it join.
Unsent(a) == \E r \in Requests : a \in req[r].unsent
Noted(a) == \E r \in Requests : a \in req[r].noted
MayYet(q, a) == a \in q.joins /\ q.pc \in {"count", "mark", "join"}
Has(q, a) == a \in q.joins /\ q.pc \in {"rapid", "markRapid"}
Joining(a) == \E r \in Requests : MayYet(req[r], a)
Joined(a) == \E r \in Requests : Has(req[r], a)

\* The row says what has been mailed.
Answered(row) == (row.idle = 1 => row.warned) /\ (row.idle = 2 => row.told)

\* An account with `row' that has been mailed n times since it was active.
NoticeFits(row, n, unsent, noted) ==
  /\ n <= 1
  /\ row.idle = 0 \/ unsent => n = 0
  /\ n = 0 \/ Answered(row) \/ noted

\* An account with `row' and n young memberships.
JoinsFit(row, n, joining, joined) ==
  /\ n <= RapidJoins + 1
  /\ joining => n <= RapidJoins
  /\ n <= RapidJoins \/ "overheat" \in row.flags \/ joined

TakeTurns ==
  /\ \A r, s \in Requests : req[r] # Idle /\ req[s] # Idle => r = s
  /\ \A r \in Requests : req[r].stale = {} /\ req[r].warns \cap req[r].closes = {}

Serial ==
  /\ TakeTurns
  /\ \A a \in Accounts : NoticeFits(rows[a], notices[a], Unsent(a), Noted(a))
  /\ \A a \in Accounts \ cleared : JoinsFit(rows[a], young[a], Joining(a), Joined(a))

WatchedInv == IInv /\ (Undisturbed => Serial)

\* Requests go on as they are; rows, notices and memberships keep fitting.
LEMMA AllStay ==
  ASSUME Serial, req' = req, cleared \subseteq cleared',
         \A a \in Accounts : \A u, d :
           NoticeFits(rows[a], notices[a], u, d) => NoticeFits(rows'[a], notices'[a], u, d),
         \A a \in Accounts \ cleared' : \A u, d :
           JoinsFit(rows[a], young[a], u, d) => JoinsFit(rows'[a], young'[a], u, d)
  PROVE  Serial'
<1>1. TakeTurns'
  BY DEF Serial, TakeTurns
<1>2. ASSUME NEW a \in Accounts PROVE NoticeFits(rows[a], notices[a], Unsent(a), Noted(a))'
  <2>1. Unsent(a)' = Unsent(a) /\ Noted(a)' = Noted(a)
    BY DEF Unsent, Noted
  <2>2. NoticeFits(rows'[a], notices'[a], Unsent(a), Noted(a))
    BY DEF Serial
  <2>. QED
    BY <2>1, <2>2 DEF NoticeFits
<1>3. ASSUME NEW a \in Accounts \ cleared'
      PROVE  JoinsFit(rows[a], young[a], Joining(a), Joined(a))'
  <2>1. Joining(a)' = Joining(a) /\ Joined(a)' = Joined(a)
    BY DEF Joining, Joined
  <2>2. JoinsFit(rows'[a], young'[a], Joining(a), Joined(a))
    BY DEF Serial
  <2>. QED
    BY <2>1, <2>2 DEF JoinsFit
<1>. QED
  BY <1>1, <1>2, <1>3 DEF Serial

\* Only request r is under way, before and after.
LEMMA OneGoesOn ==
  ASSUME Serial, NEW r \in Requests, NEW q, req'[r] = q,
         \A s \in Requests \ {r} : req[s] = Idle /\ req'[s] = Idle,
         q.stale = {}, q.warns \cap q.closes = {}, cleared' = cleared,
         \A a \in Accounts :
           NoticeFits(rows[a], notices[a], a \in req[r].unsent, a \in req[r].noted) =>
             NoticeFits(rows'[a], notices'[a], a \in q.unsent, a \in q.noted),
         \A a \in Accounts \ cleared :
           JoinsFit(rows[a], young[a], MayYet(req[r], a), Has(req[r], a)) =>
             JoinsFit(rows'[a], young'[a], MayYet(q, a), Has(q, a))
  PROVE  Serial'
<1>1. /\ Idle.stale = {} /\ Idle.warns = {} /\ Idle.unsent = {} /\ Idle.noted = {}
      /\ Idle.joins = {}
  BY DEF Idle
<1>2. TakeTurns'
  BY <1>1 DEF TakeTurns
<1>3. ASSUME NEW a \in Accounts PROVE NoticeFits(rows[a], notices[a], Unsent(a), Noted(a))'
  <2>1. /\ Unsent(a) <=> a \in req[r].unsent
        /\ Noted(a) <=> a \in req[r].noted
    BY <1>1 DEF Unsent, Noted
  <2>2. /\ Unsent(a)' <=> a \in q.unsent
        /\ Noted(a)' <=> a \in q.noted
    BY <1>1 DEF Unsent, Noted
  <2>3. NoticeFits(rows'[a], notices'[a], a \in q.unsent, a \in q.noted)
    BY <2>1 DEF Serial, NoticeFits
  <2>. QED
    BY <2>2, <2>3 DEF NoticeFits
<1>4. ASSUME NEW a \in Accounts \ cleared'
      PROVE  JoinsFit(rows[a], young[a], Joining(a), Joined(a))'
  <2>1. /\ Joining(a) <=> MayYet(req[r], a)
        /\ Joined(a) <=> Has(req[r], a)
    BY <1>1 DEF Joining, Joined, MayYet, Has
  <2>2. /\ Joining(a)' <=> MayYet(q, a)
        /\ Joined(a)' <=> Has(q, a)
    BY <1>1 DEF Joining, Joined, MayYet, Has
  <2>3. JoinsFit(rows'[a], young'[a], MayYet(q, a), Has(q, a))
    BY <2>1 DEF Serial, JoinsFit
  <2>. QED
    BY <2>2, <2>3 DEF JoinsFit
<1>. QED
  BY <1>2, <1>3, <1>4 DEF Serial

\* A step of request r finds the others at rest, what it has loaded current, and
\* leaves the others alone.
LEMMA OthersRest ==
  ASSUME IInv, Serial, NEW r \in Requests, req[r].pc # "idle"
  PROVE  /\ \A s \in Requests \ {r} : req[s] = Idle
         /\ Current(r) /\ req[r].stale = {}
         /\ \A new, q : Flush(r, new, q) =>
              /\ req'[r] = q /\ \A s \in Requests \ {r} : req'[s] = Idle
              /\ \A a \in Accounts :
                   rows'[a] = IF a \in Written(r) THEN new[a] ELSE rows[a]
         /\ \A q : req' = [req EXCEPT ![r] = q] =>
              req'[r] = q /\ \A s \in Requests \ {r} : req'[s] = Idle
<1>1. req[r] # Idle
  BY DEF Idle
<1>2. \A s \in Requests \ {r} : req[s] = Idle
  BY <1>1 DEF Serial, TakeTurns
<1>3. req[r].stale = {} /\ Current(r)
  BY DEF Serial, TakeTurns, Current
<1>4. ASSUME NEW new, NEW q, Flush(r, new, q)
      PROVE  /\ req'[r] = q /\ \A s \in Requests \ {r} : req'[s] = Idle
             /\ \A a \in Accounts :
                  rows'[a] = IF a \in Written(r) THEN new[a] ELSE rows[a]
  <2>1. /\ rows' = [a \in Accounts |-> IF a \in Written(r) THEN new[a] ELSE rows[a]]
        /\ req' = [s \in Requests |-> IF s = r THEN q
                     ELSE [req[s] EXCEPT !.stale = @ \cup (Held(s) \cap Written(r))]]
    BY <1>4 DEF Flush, Outdated
  <2>2. ASSUME NEW s \in Requests \ {r} PROVE req'[s] = Idle
    <3>1. Held(s) = {}
      BY <1>2 DEF Held, Idle
    <3>2. req'[s] = [Idle EXCEPT !.stale = @ \cup {}]
      BY <2>1, <3>1, <1>2
    <3>3. [Idle EXCEPT !.stale = @ \cup {}] = Idle
      BY IdleFits DEF Asked
    <3>. QED
      BY <3>2, <3>3
  <2>. QED
    BY <2>1, <2>2
<1>5. req \in [Requests -> Asked]
  BY TypesUnfolded DEF IInv
<1>. QED
  BY <1>2, <1>3, <1>4, <1>5

\* A timer run or a login begins while nothing is under way.
LEMMA NoticesBegin ==
  ASSUME IInv, Serial, Busy = {}, NEW r \in Requests,
         LoginIdle(r) \/ ProcessAccountInactivity(r)
  PROVE  Serial'
<1>1. PICK q : /\ Begin(r, q)
               /\ \/ q = [Idle EXCEPT !.pc = "notify", !.warns = ToWarn, !.closes = ToClose,
                                      !.unsent = ToWarn \cup ToClose]
                  \/ \E a \in ToWarn :
                       q = [Idle EXCEPT !.pc = "notify", !.warns = {a}, !.unsent = {a}]
                  \/ \E a \in Accounts :
                       q = [Idle EXCEPT !.pc = "notify", !.closes = {a},
                                        !.unsent = {a} \cap ToClose, !.noted = {a} \ ToClose]
  BY DEF LoginIdle, ProcessAccountInactivity
<1>2. /\ q.stale = {} /\ q.joins = {} /\ q.warns \cap q.closes = {}
      /\ q.unsent \subseteq ToWarn \cup ToClose
  <2>1. ToWarn \cap ToClose = {}
    BY DEF ToWarn, ToClose
  <2>2. /\ Idle.stale = {} /\ Idle.joins = {} /\ Idle.warns = {} /\ Idle.closes = {}
    BY DEF Idle
  <2>3. CASE q = [Idle EXCEPT !.pc = "notify", !.warns = ToWarn, !.closes = ToClose,
                              !.unsent = ToWarn \cup ToClose]
    <3>1. /\ q.stale = {} /\ q.joins = {} /\ q.warns = ToWarn /\ q.closes = ToClose
          /\ q.unsent = ToWarn \cup ToClose
      BY <2>3 DEF Idle
    <3>. QED
      BY <2>1, <3>1
  <2>4. ASSUME NEW a \in ToWarn,
               q = [Idle EXCEPT !.pc = "notify", !.warns = {a}, !.unsent = {a}]
        PROVE  q.stale = {} /\ q.joins = {} /\ q.closes = {} /\ q.unsent = {a}
    BY <2>4 DEF Idle
  <2>5. ASSUME NEW a \in Accounts,
               q = [Idle EXCEPT !.pc = "notify", !.closes = {a},
                                !.unsent = {a} \cap ToClose, !.noted = {a} \ ToClose]
        PROVE  q.stale = {} /\ q.joins = {} /\ q.warns = {} /\ q.unsent \subseteq ToClose
    <3>1. q.unsent = {a} \cap ToClose /\ q.stale = {} /\ q.joins = {} /\ q.warns = {}
      BY <2>5 DEF Idle
    <3>. QED
      BY <3>1
  <2>. QED
    BY <1>1, <2>3, <2>4, <2>5
<1>3. /\ req' = [req EXCEPT ![r] = q] /\ UNCHANGED <<rows, memberships, crashes, history>>
      /\ req \in [Requests -> Asked]
  BY <1>1, TypesUnfolded DEF Begin, IInv
<1>4. \A s \in Requests : req[s] = Idle
  BY DEF Busy
<1>5. \A s \in Requests \ {r} : req'[s] = Idle
  BY <1>3, <1>4
<1>6. req[r].unsent = {} /\ req[r].noted = {} /\ req[r].joins = {}
  BY <1>4 DEF Idle
<1>7. ASSUME NEW a \in Accounts,
             NoticeFits(rows[a], notices[a], a \in req[r].unsent, a \in req[r].noted)
      PROVE  NoticeFits(rows'[a], notices'[a], a \in q.unsent, a \in q.noted)
  <2>1. a \in q.unsent => ~Answered(rows[a])
    BY <1>2 DEF ToWarn, ToClose, Answered
  <2>. QED
    BY <1>3, <1>6, <1>7, <2>1 DEF NoticeFits, history
<1>8. ASSUME NEW a \in Accounts \ cleared,
             JoinsFit(rows[a], young[a], MayYet(req[r], a), Has(req[r], a))
      PROVE  JoinsFit(rows'[a], young'[a], MayYet(q, a), Has(q, a))
  BY <1>2, <1>3, <1>6, <1>8 DEF JoinsFit, MayYet, Has, memberships
<1>9. req'[r] = q /\ cleared' = cleared
  BY <1>3 DEF history
<1>. QED
  BY <1>2, <1>4, <1>5, <1>7, <1>8, <1>9, OneGoesOn

\* Who is let join is not flagged, and so has not joined too often.
LEMMA JoinsBegin ==
  ASSUME IInv, Serial, Busy = {}, NEW r \in Requests, StartJoin(r) \/ StartCustomJoin(r)
  PROVE  Serial'
<1>0. PICK b \in Accounts : \E pc \in {"count", "join"} :
        Eligible(rows[b]) /\ Begin(r, [Idle EXCEPT !.pc = pc, !.joins = {b}])
  BY DEF StartJoin, StartCustomJoin
<1>. PICK pc \in {"count", "join"} :
        Eligible(rows[b]) /\ Begin(r, [Idle EXCEPT !.pc = pc, !.joins = {b}])
  BY <1>0
<1>. DEFINE q == [Idle EXCEPT !.pc = pc, !.joins = {b}]
<1>1. Eligible(rows[b]) /\ Begin(r, q)
  OBVIOUS
<1>2. /\ q.stale = {} /\ q.joins = {b} /\ q.warns = {} /\ q.unsent = {} /\ q.noted = {}
      /\ q.pc \in {"count", "join"}
  BY DEF Idle
<1>. HIDE DEF q
<1>3. /\ req' = [req EXCEPT ![r] = q] /\ UNCHANGED <<rows, memberships, crashes, history>>
      /\ req \in [Requests -> Asked]
  BY <1>1, TypesUnfolded DEF Begin, IInv
<1>4. \A s \in Requests : req[s] = Idle
  BY DEF Busy
<1>5. \A s \in Requests \ {r} : req'[s] = Idle
  BY <1>3, <1>4
<1>6. req[r].unsent = {} /\ req[r].noted = {} /\ req[r].joins = {}
  BY <1>4 DEF Idle
<1>7. ASSUME NEW a \in Accounts,
             NoticeFits(rows[a], notices[a], a \in req[r].unsent, a \in req[r].noted)
      PROVE  NoticeFits(rows'[a], notices'[a], a \in q.unsent, a \in q.noted)
  BY <1>2, <1>3, <1>6, <1>7 DEF NoticeFits, history
<1>8. ASSUME NEW a \in Accounts \ cleared,
             JoinsFit(rows[a], young[a], MayYet(req[r], a), Has(req[r], a))
      PROVE  JoinsFit(rows'[a], young'[a], MayYet(q, a), Has(q, a))
  <2>1. a \in q.joins => "overheat" \notin rows[a].flags
    BY <1>1, <1>2 DEF Eligible
  <2>. QED
    BY <1>3, <1>6, <1>8, <2>1 DEF JoinsFit, MayYet, Has, memberships
<1>9. req'[r] = q /\ cleared' = cleared
  BY <1>3 DEF history
<1>. QED
  BY <1>2, <1>4, <1>5, <1>7, <1>8, <1>9, OneGoesOn

\* A command finds no request that holds the account.
LEMMA CommandAlone ==
  ASSUME IInv, Busy = {}, NEW a \in Accounts, NEW row, Write(a, row)
  PROVE  /\ req' = req /\ rows'[a] = row
         /\ \A b \in Accounts \ {a} : rows'[b] = rows[b]
<1>1. /\ req \in [Requests -> Asked] /\ rows \in [Accounts -> Row]
      /\ rows' = [rows EXCEPT ![a] = row]
      /\ req' = [s \in Requests |-> [req[s] EXCEPT !.stale = @ \cup (Held(s) \cap {a})]]
  BY TypesUnfolded DEF IInv, Write
<1>2. ASSUME NEW s \in Requests PROVE req'[s] = req[s]
  <2>1. req[s] = Idle
    BY DEF Busy
  <2>2. Held(s) = {}
    BY <2>1 DEF Held, Idle
  <2>3. req'[s] = [req[s] EXCEPT !.stale = @ \cup {}]
    BY <1>1, <2>2
  <2>. QED
    BY <1>1, <2>3 DEF Asked
<1>. QED
  BY <1>1, <1>2

LEMMA CommandSerial ==
  ASSUME IInv, Serial, Busy = {}, NEW a \in Accounts, Command(a)
  PROVE  Serial'
<1>1. rows[a] \in Row /\ rows \in [Accounts -> Row] /\ notices \in [Accounts -> Nat]
  BY TypesUnfolded DEF IInv, OthersTyped
<1>2. CASE UpdateAccountStatus(a)
  <2>1. PICK row \in {Activated(rows[a]), Deactivated(rows[a])} : Write(a, row)
    BY <1>2 DEF UpdateAccountStatus
  <2>2. /\ req' = req /\ rows'[a] = row
        /\ \A b \in Accounts \ {a} : rows'[b] = rows[b]
    BY <2>1, CommandAlone
  <2>3. /\ row.flags = rows[a].flags
        /\ \/ row.idle = 0
           \/ row.idle = rows[a].idle /\ row.warned = rows[a].warned /\ row.told = rows[a].told
    BY <1>1, <2>1 DEF Row, Activated, Deactivated
  <2>4. /\ notices' = IF rows'[a].idle # rows[a].idle THEN [notices EXCEPT ![a] = 0] ELSE notices
        /\ UNCHANGED <<memberships, crashes, cleared, refused>>
    BY <1>2 DEF UpdateAccountStatus
  <2>5. /\ \A b \in Accounts \ {a} : notices'[b] = notices[b]
        /\ notices'[a] = IF row.idle # rows[a].idle THEN 0 ELSE notices[a]
    BY <1>1, <2>2, <2>4
  <2>6. ASSUME NEW b \in Accounts, NEW u, NEW d, NoticeFits(rows[b], notices[b], u, d)
        PROVE  NoticeFits(rows'[b], notices'[b], u, d)
    BY <1>1, <2>2, <2>3, <2>5, <2>6 DEF NoticeFits, Answered
  <2>7. ASSUME NEW b \in Accounts \ cleared', NEW u, NEW d, JoinsFit(rows[b], young[b], u, d)
        PROVE  JoinsFit(rows'[b], young'[b], u, d)
    <3>1. young'[b] = young[b] /\ rows'[b].flags = rows[b].flags
      BY <2>2, <2>3, <2>4 DEF memberships
    <3>. QED
      BY <2>7, <3>1 DEF JoinsFit
  <2>. QED
    BY <2>2, <2>4, <2>6, <2>7, AllStay
<1>3. CASE UpdateAccountFlags(a) \/ RemoveAccountBank(a) \/ OwnerCommand(a) \/ ProfileCommand(a)
  <2>1. PICK row :
          /\ Write(a, row)
          /\ \/ \E raised \in SUBSET Flags : row = [rows[a] EXCEPT !.flags = @ \cup raised]
             \/ /\ \E flags \in SUBSET Flags : row = [rows[a] EXCEPT !.flags = flags]
                /\ a \in cleared'
             \/ row = [rows[a] EXCEPT !.bank = FALSE]
             \/ \E completed \in BOOLEAN : row = [rows[a] EXCEPT !.identified = completed]
             \/ row = [rows[a] EXCEPT !.customer = TRUE]
             \/ \E method, mismatch \in BOOLEAN :
                  row = [rows[a] EXCEPT !.bank = TRUE, !.method = method,
                                        !.flags = IF mismatch THEN @ \cup {"review"} ELSE @]
             \/ row = rows[a]
          /\ UNCHANGED <<memberships, crashes, notices, refused>>
          /\ cleared \subseteq cleared'
    <3>1. CASE UpdateAccountFlags(a)
      <4>1. PICK raised \in SUBSET Flags, lowered \in SUBSET Flags :
              /\ Write(a, [rows[a] EXCEPT !.flags = (@ \cup raised) \ lowered])
              /\ cleared' = IF lowered = {} THEN cleared ELSE cleared \cup {a}
              /\ UNCHANGED <<memberships, crashes, notices, refused>>
        BY <3>1 DEF UpdateAccountFlags
      <4>. DEFINE flags == (rows[a].flags \cup raised) \ lowered
                  row == [rows[a] EXCEPT !.flags = flags]
      <4>2. Write(a, row)
        BY <4>1
      <4>3. flags \in SUBSET Flags
        BY <1>1 DEF Row
      <4>4. CASE lowered = {}
        <5>1. flags = rows[a].flags \cup raised
          BY <4>4
        <5>2. row = [rows[a] EXCEPT !.flags = @ \cup raised]
          BY <5>1
        <5>. HIDE DEF flags, row
        <5>. QED
          BY <4>1, <4>2, <4>4, <5>2
      <4>5. CASE lowered # {}
        <5>1. row = [rows[a] EXCEPT !.flags = flags]
          OBVIOUS
        <5>. HIDE DEF flags, row
        <5>. QED
          BY <4>1, <4>2, <4>3, <4>5, <5>1
      <4>. QED
        BY <4>4, <4>5
    <3>2. CASE RemoveAccountBank(a)
      BY <3>2 DEF RemoveAccountBank, history
    <3>3. CASE OwnerCommand(a)
      BY <3>3 DEF OwnerCommand, RecordIdentityVerification, UpsertStripeCustomer,
         UpsertStripeBankAccount, NameMismatch, history
    <3>4. CASE ProfileCommand(a)
      BY <3>4 DEF ProfileCommand, UpdateAvatar, UpdateNotificationPreferences, history
    <3>. QED
      BY <1>3, <3>1, <3>2, <3>3, <3>4
  <2>2. /\ req' = req /\ rows'[a] = row
        /\ \A b \in Accounts \ {a} : rows'[b] = rows[b]
    BY <2>1, CommandAlone
  <2>3. /\ row.idle = rows[a].idle /\ row.warned = rows[a].warned /\ row.told = rows[a].told
        /\ a \in cleared' \/ rows[a].flags \subseteq row.flags
    BY <1>1, <2>1 DEF Row
  <2>4. ASSUME NEW b \in Accounts, NEW u, NEW d, NoticeFits(rows[b], notices[b], u, d)
        PROVE  NoticeFits(rows'[b], notices'[b], u, d)
    <3>1. /\ notices'[b] = notices[b] /\ rows'[b].idle = rows[b].idle
          /\ rows'[b].warned = rows[b].warned /\ rows'[b].told = rows[b].told
      BY <2>1, <2>2, <2>3
    <3>. QED
      BY <2>4, <3>1 DEF NoticeFits, Answered
  <2>5. ASSUME NEW b \in Accounts \ cleared', NEW u, NEW d, JoinsFit(rows[b], young[b], u, d)
        PROVE  JoinsFit(rows'[b], young'[b], u, d)
    <3>1. young'[b] = young[b] /\ rows[b].flags \subseteq rows'[b].flags
      BY <2>1, <2>2, <2>3 DEF memberships
    <3>. QED
      BY <2>5, <3>1 DEF JoinsFit
  <2>. QED
    BY <2>1, <2>2, <2>4, <2>5, AllStay
<1>. QED
  BY <1>2, <1>3 DEF Command, AdminCommand

LEMMA TimeSerial ==
  ASSUME IInv, Serial, NEW b \in Accounts, Age(b) \/ Rest(b)
  PROVE  Serial'
<1>1. /\ young \in [Accounts -> Nat] /\ notices \in [Accounts -> Nat]
      /\ rows \in [Accounts -> Row] /\ RapidJoins \in Nat
  BY TypesUnfolded, StatusAssumption DEF IInv, OthersTyped
<1>2. req' = req /\ cleared' = cleared
  BY DEF Age, Rest, history
<1>3. \A a \in Accounts :
        /\ young'[a] \in Nat /\ young'[a] <= young[a] /\ rows'[a].flags = rows[a].flags
        /\ \/ rows'[a] = rows[a] /\ notices'[a] = notices[a]
           \/ notices'[a] = 0
           \/ notices'[a] = notices[a] /\ rows[a].idle = 0
  <2>1. CASE Age(b)
    <3>1. rows' = rows /\ notices' = notices
      BY <2>1 DEF Age, history
    <3>2. young' = young \/ (young[b] > 0 /\ young' = [young EXCEPT ![b] = @ - 1])
      BY <2>1 DEF Age
    <3>. QED
      BY <1>1, <3>1, <3>2
  <2>2. CASE Rest(b)
    <3>1. /\ rows[b].idle \in {0, 1} /\ rows' = [rows EXCEPT ![b].idle = @ + 1]
          /\ notices' = IF rows[b].idle = 1 THEN [notices EXCEPT ![b] = 0] ELSE notices
          /\ young' = young
      BY <1>1, <2>2 DEF Rest, Row, memberships
    <3>2. \A a \in Accounts \ {b} : rows'[a] = rows[a] /\ notices'[a] = notices[a]
      BY <1>1, <3>1
    <3>3. rows'[b].flags = rows[b].flags
      BY <1>1, <3>1 DEF Row
    <3>4. notices'[b] = IF rows[b].idle = 1 THEN 0 ELSE notices[b]
      BY <1>1, <3>1
    <3>. QED
      BY <1>1, <3>1, <3>2, <3>3, <3>4
  <2>. QED
    BY <2>1, <2>2
<1>4. ASSUME NEW a \in Accounts, NEW u, NEW d, NoticeFits(rows[a], notices[a], u, d)
      PROVE  NoticeFits(rows'[a], notices'[a], u, d)
  BY <1>1, <1>3, <1>4 DEF NoticeFits
<1>5. ASSUME NEW a \in Accounts \ cleared', NEW u, NEW d, JoinsFit(rows[a], young[a], u, d)
      PROVE  JoinsFit(rows'[a], young'[a], u, d)
  BY <1>1, <1>3, <1>5 DEF JoinsFit
<1>. QED
  BY <1>2, <1>4, <1>5, AllStay

\* What is flushed of what was noted says what has been mailed.
LEMMA NoticedAnswers ==
  ASSUME IInv, Serial, NEW r \in Requests, req[r].pc = "notify", NEW a \in req[r].noted
  PROVE  /\ a \in Accounts /\ Answered(Noticed(r)[a])
         /\ Noticed(r)[a].idle = rows[a].idle /\ Noticed(r)[a].flags = rows[a].flags
         /\ rows[a].idle # 0
<1>1. req[r] \in Asked /\ Fits(req[r], rows) /\ rows \in [Accounts -> Row]
  BY RequestKnown, TypesUnfolded DEF IInv
<1>2. req[r].stale = {} /\ req[r].warns \cap req[r].closes = {}
  BY DEF Serial, TakeTurns
<1>3. a \in Noticing(req[r]) /\ rows[a].idle = IdleFor(req[r], a)
  BY <1>1, <1>2 DEF Fits
<1>4. a \in Held(r) /\ a \in Accounts /\ rows[a] \in Row
  BY <1>1, <1>3 DEF Noticing, Held, Asked
<1>5. Noticed(r)[a] = IF a \in req[r].warns THEN Warned(rows[a]) ELSE Closed(rows[a])
  BY <1>4 DEF Noticed
<1>6. /\ Warned(rows[a]).warned /\ Warned(rows[a]).idle = rows[a].idle
      /\ Warned(rows[a]).flags = rows[a].flags
      /\ Closed(rows[a]).told /\ Closed(rows[a]).idle = rows[a].idle
      /\ Closed(rows[a]).flags = rows[a].flags
  BY <1>4 DEF Row, Warned, Closed
<1>7. CASE a \in req[r].warns
  BY <1>2, <1>3, <1>4, <1>5, <1>6, <1>7 DEF IdleFor, Answered
<1>8. CASE a \notin req[r].warns
  <2>1. a \in req[r].closes
    BY <1>3, <1>8 DEF Noticing
  <2>. QED
    BY <1>3, <1>4, <1>5, <1>6, <1>8, <2>1 DEF IdleFor, Answered
<1>. QED
  BY <1>7, <1>8

\* A request that goes on with a next notice, or ends, writes what it noted.
LEMMA NoticeFlushed ==
  ASSUME IInv, Serial, NEW r \in Requests, req[r].pc = "notify", NEW q,
         Flush(r, Noticed(r), q),
         q.stale = {}, q.warns \cap q.closes = {}, q.joins = {}, cleared' = cleared,
         young' = young,
         \A a \in Accounts :
           \/ notices'[a] = notices[a] /\ (a \in q.unsent => a \in req[r].unsent)
           \/ a \in req[r].unsent \ q.unsent /\ a \in q.noted /\ notices'[a] = notices[a] + 1
  PROVE  Serial'
<1>1. /\ \A s \in Requests \ {r} : req[s] = Idle /\ req'[s] = Idle
      /\ req'[r] = q
      /\ \A a \in Accounts :
           rows'[a] = IF a \in Written(r) THEN Noticed(r)[a] ELSE rows[a]
  BY OthersRest
<1>2. Written(r) = req[r].noted
  BY NoticedTyped
<1>3. /\ req[r].joins = {} /\ req[r].unsent \cap req[r].noted = {}
      /\ req[r].unsent \subseteq Noticing(req[r]) /\ req[r].stale = {}
      /\ \A a \in Noticing(req[r]) : rows[a].idle = IdleFor(req[r], a)
  BY RequestKnown DEF Fits, Serial, TakeTurns
<1>4. \A a \in req[r].unsent : rows[a].idle # 0
  BY <1>3 DEF IdleFor
<1>5. \A a \in Accounts : rows'[a].flags = rows[a].flags /\ rows'[a].idle = rows[a].idle
  BY <1>1, <1>2, NoticedAnswers
<1>6. ASSUME NEW a \in Accounts,
             NoticeFits(rows[a], notices[a], a \in req[r].unsent, a \in req[r].noted)
      PROVE  NoticeFits(rows'[a], notices'[a], a \in q.unsent, a \in q.noted)
  <2>1. CASE a \in req[r].noted
    <3>1. Answered(rows'[a]) /\ rows[a].idle # 0
      BY <1>1, <1>2, <2>1, NoticedAnswers
    <3>2. a \notin req[r].unsent
      BY <1>3, <2>1
    <3>. QED
      BY <1>5, <1>6, <3>1, <3>2 DEF NoticeFits
  <2>2. CASE a \notin req[r].noted
    <3>1. rows'[a] = rows[a]
      BY <1>1, <1>2, <2>2
    <3>. QED
      BY <1>4, <1>6, <2>2, <3>1 DEF NoticeFits
  <2>. QED
    BY <2>1, <2>2
<1>7. ASSUME NEW a \in Accounts \ cleared,
             JoinsFit(rows[a], young[a], MayYet(req[r], a), Has(req[r], a))
      PROVE  JoinsFit(rows'[a], young'[a], MayYet(q, a), Has(q, a))
  BY <1>3, <1>5, <1>7 DEF JoinsFit, MayYet, Has
<1>. QED
  BY <1>1, <1>6, <1>7, OneGoesOn

LEMMA NotifySerial ==
  ASSUME IInv, Serial, NEW r \in Requests, Notify(r)
  PROVE  Serial'
<1>1. PICK a \in req[r].unsent :
        /\ NextNotice(r, [req[r] EXCEPT !.unsent = @ \ {a}, !.noted = @ \cup {a}])
        /\ notices' = [notices EXCEPT ![a] = IF @ < 2 THEN @ + 1 ELSE @]
        /\ UNCHANGED <<memberships, crashes, cleared, refused>>
  BY DEF Notify
<1>. DEFINE q == [req[r] EXCEPT !.unsent = @ \ {a}, !.noted = @ \cup {a}]
            p == Without(q, Written(r))
<1>2. req[r].pc = "notify" /\ req[r] \in Asked /\ Fits(req[r], rows)
  BY <1>1, RequestKnown DEF NextNotice
<1>3. Current(r) /\ req[r].stale = {} /\ req[r].warns \cap req[r].closes = {}
  BY <1>2, OthersRest DEF Serial, TakeTurns
<1>4. Flush(r, Noticed(r), p)
  BY <1>1, <1>3 DEF NextNotice
<1>5. /\ q \in Asked /\ q.joins = req[r].joins /\ q.stale = req[r].stale
      /\ q.warns = req[r].warns /\ q.closes = req[r].closes
      /\ q.unsent = req[r].unsent \ {a} /\ q.noted = req[r].noted \cup {a}
  BY <1>2 DEF Asked
<1>6. /\ Written(r) = req[r].noted /\ a \notin req[r].noted /\ req[r].joins = {}
      /\ a \in Accounts
  BY <1>2, NoticedTyped DEF Fits, Asked
<1>. HIDE DEF q
<1>7. /\ p.joins = q.joins /\ p.stale = q.stale /\ p.unsent = q.unsent
      /\ p.warns = q.warns \ Written(r) /\ p.closes = q.closes \ Written(r)
      /\ p.noted = q.noted \ Written(r)
  BY <1>5 DEF Without, Asked
<1>. HIDE DEF p
<1>8. /\ p.stale = {} /\ p.joins = {} /\ p.warns \cap p.closes = {}
      /\ p.unsent = req[r].unsent \ {a} /\ a \in p.noted
  BY <1>3, <1>5, <1>6, <1>7
<1>9. notices \in [Accounts -> Nat] /\ notices[a] = 0
  BY <1>6, TypesUnfolded DEF IInv, OthersTyped, Serial, NoticeFits, Unsent
<1>10. ASSUME NEW b \in Accounts
       PROVE  \/ notices'[b] = notices[b] /\ (b \in p.unsent => b \in req[r].unsent)
              \/ /\ b \in req[r].unsent \ p.unsent /\ b \in p.noted
                 /\ notices'[b] = notices[b] + 1
  <2>1. CASE b = a
    BY <1>1, <1>6, <1>8, <1>9, <2>1
  <2>2. CASE b # a
    BY <1>1, <1>8, <1>9, <2>2
  <2>. QED
    BY <2>1, <2>2
<1>11. young' = young /\ cleared' = cleared
  BY <1>1 DEF memberships
<1>. QED
  BY <1>2, <1>4, <1>8, <1>10, <1>11, NoticeFlushed

\* A request ends, with the mails that are still to be sent or without any.
LEMMA NoticesEnd ==
  ASSUME IInv, Serial, NEW r \in Requests, NoticeRefused(r) \/ FlushInactivity(r)
  PROVE  Serial'
<1>1. req[r].pc = "notify"
  BY DEF NoticeRefused, FlushInactivity, NextNotice
<1>2. Current(r)
  BY <1>1, OthersRest
<1>3. notices' = notices /\ young' = young /\ cleared' = cleared
  BY DEF NoticeRefused, FlushInactivity, memberships, history
<1>4. \E q : /\ Flush(r, Noticed(r), q) /\ q.unsent = {} /\ q.stale = {}
             /\ q.warns \cap q.closes = {} /\ q.joins = {}
  <2>1. CASE FlushInactivity(r)
    BY <2>1 DEF FlushInactivity, Idle
  <2>2. CASE NoticeRefused(r)
    <3>. DEFINE p == Without(Idle, Written(r))
    <3>1. Flush(r, Noticed(r), p)
      BY <1>2, <2>2 DEF NoticeRefused, NextNotice
    <3>2. p.unsent = {} /\ p.stale = {} /\ p.warns \cap p.closes = {} /\ p.joins = {}
      BY DEF Without, Idle
    <3>. QED
      BY <3>1, <3>2
  <2>. QED
    BY <2>1, <2>2
<1>5. PICK q : /\ Flush(r, Noticed(r), q) /\ q.unsent = {} /\ q.stale = {}
              /\ q.warns \cap q.closes = {} /\ q.joins = {}
  BY <1>4
<1>6. \A a \in Accounts : notices'[a] = notices[a] /\ (a \in q.unsent => a \in req[r].unsent)
  BY <1>3, <1>5
<1>. QED
  BY <1>1, <1>3, <1>5, <1>6, NoticeFlushed

\* A join that goes on as q mails no notice.
LEMMA JoinGoesOn ==
  ASSUME IInv, Serial, NEW r \in Requests,
         req[r].pc \in {"count", "mark", "join", "rapid", "markRapid"},
         NEW q, req'[r] = q, \A s \in Requests \ {r} : req'[s] = Idle,
         q.stale = {}, q.warns = {}, q.unsent = {}, cleared' = cleared,
         \A a \in Accounts :
           \/ notices'[a] = 0
           \/ /\ notices'[a] = notices[a] /\ rows'[a].idle = rows[a].idle
              /\ rows'[a].warned = rows[a].warned /\ rows'[a].told = rows[a].told,
         \A a \in Accounts \ cleared :
           JoinsFit(rows[a], young[a], MayYet(req[r], a), Has(req[r], a)) =>
             JoinsFit(rows'[a], young'[a], MayYet(q, a), Has(q, a))
  PROVE  Serial'
<1>1. \A s \in Requests \ {r} : req[s] = Idle
  BY OthersRest
<1>2. req[r].noted = {}
  <2>1. Noticing(req[r]) = {} /\ req[r].unsent \cup req[r].noted \subseteq Noticing(req[r])
    BY RequestKnown DEF Fits
  <2>. QED
    BY <2>1
<1>3. ASSUME NEW a \in Accounts,
             NoticeFits(rows[a], notices[a], a \in req[r].unsent, a \in req[r].noted)
      PROVE  NoticeFits(rows'[a], notices'[a], a \in q.unsent, a \in q.noted)
  BY <1>2, <1>3 DEF NoticeFits, Answered
<1>. QED
  BY <1>1, <1>3, OneGoesOn

\* The joins that are counted write nothing.
LEMMA CountSerial ==
  ASSUME IInv, Serial, NEW r \in Requests, CountJoins(r) \/ EvaluateRapidJoins(r) \/ JoinRefused(r)
  PROVE  Serial'
<1>1. /\ req[r].pc \in {"count", "join", "rapid"} /\ req[r].stale = {}
      /\ req[r] \in Asked /\ Noticing(req[r]) = {} /\ req[r].unsent = {}
  <2>1. req[r].pc \in {"count", "join", "rapid"}
    BY DEF CountJoins, EvaluateRapidJoins, JoinRefused
  <2>2. req[r] \in Asked /\ Fits(req[r], rows)
    BY RequestKnown
  <2>3. req[r].pc # "notify"
    BY <2>1
  <2>. QED
    BY <2>1, <2>2, <2>3 DEF Fits, Serial, TakeTurns
<1>2. rows' = rows /\ young' = young /\ notices' = notices /\ cleared' = cleared
  BY DEF CountJoins, EvaluateRapidJoins, JoinRefused, memberships, history
<1>3. RapidJoins \in Nat /\ young \in [Accounts -> Nat]
  BY StatusAssumption, TypesUnfolded DEF IInv, OthersTyped
<1>4. PICK q : /\ req' = [req EXCEPT ![r] = q]
               /\ \/ /\ req[r].pc = "count"
                     /\ \E pc \in {"mark", "join"} : q = [req[r] EXCEPT !.pc = pc]
                  \/ req[r].pc = "join" /\ q = Idle
                  \/ req[r].pc = "rapid" /\ q = [req[r] EXCEPT !.pc = "markRapid"]
                  \/ /\ req[r].pc = "rapid" /\ q = Idle
                     /\ \A a \in req[r].joins : Rapid(a) => "overheat" \in rows[a].flags
  <2>1. CASE CountJoins(r)
    BY <2>1 DEF CountJoins
  <2>2. CASE EvaluateRapidJoins(r)
    BY <2>2 DEF EvaluateRapidJoins
  <2>3. CASE JoinRefused(r)
    BY <2>3 DEF JoinRefused, End
  <2>. QED
    BY <2>1, <2>2, <2>3
<1>5. req'[r] = q /\ \A s \in Requests \ {r} : req'[s] = Idle
  BY <1>1, <1>4, OthersRest
<1>6. q.stale = {} /\ q.warns = {} /\ q.unsent = {}
  BY <1>1, <1>4 DEF Asked, Idle, Noticing
<1>7. ASSUME NEW a \in Accounts \ cleared,
             JoinsFit(rows[a], young[a], MayYet(req[r], a), Has(req[r], a))
      PROVE  JoinsFit(rows[a], young[a], MayYet(q, a), Has(q, a))
  <2>1. CASE req[r].pc = "count"
    <3>1. q.joins = req[r].joins /\ q.pc \in {"mark", "join"}
      BY <1>1, <1>4, <2>1 DEF Asked
    <3>. QED
      BY <1>7, <2>1, <3>1 DEF JoinsFit, MayYet, Has
  <2>2. CASE req[r].pc = "join"
    <3>1. q.joins = {}
      BY <1>4, <2>2 DEF Idle
    <3>. QED
      BY <1>7, <2>2, <3>1 DEF JoinsFit, MayYet, Has
  <2>3. CASE req[r].pc = "rapid"
    <3>1. \/ q.joins = req[r].joins /\ q.pc = "markRapid"
          \/ /\ q.joins = {}
             /\ \A b \in req[r].joins : Rapid(b) => "overheat" \in rows[b].flags
      BY <1>1, <1>4, <2>3 DEF Asked, Idle
    <3>. QED
      BY <1>3, <1>7, <2>3, <3>1 DEF JoinsFit, MayYet, Has, Rapid
  <2>. QED
    BY <1>1, <2>1, <2>2, <2>3
<1>8. \A a \in Accounts :
        /\ notices'[a] = notices[a] /\ rows'[a].idle = rows[a].idle
        /\ rows'[a].warned = rows[a].warned /\ rows'[a].told = rows[a].told
  BY <1>2
<1>. QED
  BY <1>1, <1>2, <1>5, <1>6, <1>7, <1>8, JoinGoesOn

LEMMA MarkSerial ==
  ASSUME IInv, Serial, NEW r \in Requests, MarkJoiner(r) \/ MarkRapidJoiner(r)
  PROVE  Serial'
<1>. DEFINE new == [a \in req[r].joins |-> Overheated(rows[a])]
<1>1. PICK q : /\ Flush(r, new, q)
               /\ \/ req[r].pc = "mark" /\ q = [req[r] EXCEPT !.pc = "join"]
                  \/ req[r].pc = "markRapid" /\ q = Idle
  BY DEF MarkJoiner, MarkRapidJoiner
<1>2. /\ Written(r) = req[r].joins /\ Noticing(req[r]) = {} /\ req[r].unsent = {}
      /\ \A a \in Written(r) : a \in Accounts /\ rows[a] \in Row
      /\ req[r] \in Asked /\ req[r].stale = {}
  BY <1>1, JoinWritten, RequestKnown DEF Serial, TakeTurns
<1>3. /\ req'[r] = q /\ \A s \in Requests \ {r} : req'[s] = Idle
      /\ \A a \in Accounts : rows'[a] = IF a \in Written(r) THEN new[a] ELSE rows[a]
  BY <1>1, OthersRest
<1>4. notices' = notices /\ young' = young /\ cleared' = cleared
  BY DEF MarkJoiner, MarkRapidJoiner, memberships, history
<1>5. ASSUME NEW a \in Accounts
      PROVE  /\ rows'[a].idle = rows[a].idle /\ rows'[a].warned = rows[a].warned
             /\ rows'[a].told = rows[a].told /\ rows[a].flags \subseteq rows'[a].flags
             /\ a \in req[r].joins => "overheat" \in rows'[a].flags
  <2>1. CASE a \in req[r].joins
    <3>1. rows'[a] = Overheated(rows[a]) /\ rows[a] \in Row
      BY <1>2, <1>3, <2>1
    <3>. QED
      BY <3>1 DEF Row, Overheated
  <2>2. CASE a \notin req[r].joins
    BY <1>2, <1>3, <2>2
  <2>. QED
    BY <2>1, <2>2
<1>. HIDE DEF new
<1>6. q.stale = {} /\ q.warns = {} /\ q.unsent = {}
  BY <1>1, <1>2 DEF Asked, Idle, Noticing
<1>7. ASSUME NEW a \in Accounts \ cleared,
             JoinsFit(rows[a], young[a], MayYet(req[r], a), Has(req[r], a))
      PROVE  JoinsFit(rows'[a], young'[a], MayYet(q, a), Has(q, a))
  <2>1. \/ req[r].pc = "mark" /\ q.joins = req[r].joins /\ q.pc = "join"
        \/ req[r].pc = "markRapid" /\ q.joins = {}
    BY <1>1, <1>2 DEF Asked, Idle
  <2>. QED
    BY <1>4, <1>5, <1>7, <2>1 DEF JoinsFit, MayYet, Has
<1>8. \A a \in Accounts :
        /\ notices'[a] = notices[a] /\ rows'[a].idle = rows[a].idle
        /\ rows'[a].warned = rows[a].warned /\ rows'[a].told = rows[a].told
  BY <1>4, <1>5
<1>9. req[r].pc \in {"count", "mark", "join", "rapid", "markRapid"}
  BY <1>1
<1>. QED
  BY <1>3, <1>4, <1>6, <1>7, <1>8, <1>9, JoinGoesOn

LEMMA CommitSerial ==
  ASSUME IInv, Serial, NEW r \in Requests, CommitJoin(r)
  PROVE  Serial'
<1>. DEFINE q == [req[r] EXCEPT !.pc = "rapid"]
            new == [a \in req[r].joins |-> PodJoined(rows[a])]
<1>1. /\ req[r].pc = "join" /\ Flush(r, new, q)
      /\ young' = [a \in Accounts |-> IF a \in req[r].joins THEN young[a] + 1 ELSE young[a]]
      /\ notices' = [a \in Accounts |-> IF a \in req[r].joins THEN 0 ELSE notices[a]]
      /\ cleared' = cleared
  BY DEF CommitJoin
<1>2. /\ Written(r) = req[r].joins /\ Noticing(req[r]) = {} /\ req[r].unsent = {}
      /\ \A a \in Written(r) : a \in Accounts /\ rows[a] \in Row
      /\ req[r] \in Asked /\ req[r].stale = {}
  BY <1>1, JoinWritten, RequestKnown DEF Serial, TakeTurns
<1>3. /\ q.stale = {} /\ q.warns = {} /\ q.unsent = {} /\ q.pc = "rapid"
      /\ q.joins = req[r].joins
  BY <1>2 DEF Asked, Noticing
<1>. HIDE DEF q, new
<1>4. /\ req'[r] = q /\ \A s \in Requests \ {r} : req'[s] = Idle
      /\ \A a \in Accounts : rows'[a] = IF a \in Written(r) THEN new[a] ELSE rows[a]
  BY <1>1, OthersRest
<1>5. RapidJoins \in Nat /\ young \in [Accounts -> Nat]
  BY StatusAssumption, TypesUnfolded DEF IInv, OthersTyped
<1>6. ASSUME NEW a \in Accounts \ cleared,
             JoinsFit(rows[a], young[a], MayYet(req[r], a), Has(req[r], a))
      PROVE  JoinsFit(rows'[a], young'[a], MayYet(q, a), Has(q, a))
  <2>1. CASE a \in req[r].joins
    BY <1>1, <1>3, <1>5, <1>6, <2>1 DEF JoinsFit, MayYet, Has
  <2>2. CASE a \notin req[r].joins
    <3>1. rows'[a] = rows[a] /\ young'[a] = young[a]
      BY <1>1, <1>2, <1>4, <2>2
    <3>. QED
      BY <1>3, <1>6, <2>2, <3>1 DEF JoinsFit, MayYet, Has
  <2>. QED
    BY <2>1, <2>2
<1>7. \A a \in Accounts :
        \/ notices'[a] = 0
        \/ /\ notices'[a] = notices[a] /\ rows'[a].idle = rows[a].idle
           /\ rows'[a].warned = rows[a].warned /\ rows'[a].told = rows[a].told
  BY <1>1, <1>2, <1>4
<1>. QED
  BY <1>1, <1>3, <1>4, <1>6, <1>7, JoinGoesOn

LEMMA StepSerial ==
  ASSUME IInv, Serial, NEW r \in Requests, Step(r) \/ NoticeRefused(r)
  PROVE  Serial'
<1>1. CASE Conflict(r)
  <2>1. req[r].pc # "idle" /\ ~Current(r)
    BY <1>1 DEF Conflict
  <2>. QED
    BY <2>1, OthersRest
<1>. QED
  BY <1>1, NotifySerial, NoticesEnd, CountSerial, MarkSerial, CommitSerial DEF Step

LEMMA SerialInit == Init => Serial
<1>. SUFFICES ASSUME Init PROVE Serial
  OBVIOUS
<1>1. /\ Idle.stale = {} /\ Idle.warns = {} /\ Idle.unsent = {} /\ Idle.noted = {}
      /\ Idle.joins = {}
  BY DEF Idle
<1>2. /\ \A r \in Requests : req[r] = Idle
      /\ \A a \in Accounts : rows[a].idle = 0 /\ notices[a] = 0 /\ young[a] = 0
  BY DEF Init, NewRow, SettledRow
<1>3. TakeTurns
  BY <1>1, <1>2 DEF TakeTurns
<1>4. \A a \in Accounts : NoticeFits(rows[a], notices[a], Unsent(a), Noted(a))
  BY <1>2 DEF NoticeFits
<1>5. \A a \in Accounts : JoinsFit(rows[a], young[a], Joining(a), Joined(a))
  BY <1>2, StatusAssumption DEF JoinsFit
<1>. QED
  BY <1>3, <1>4, <1>5 DEF Serial

LEMMA WatchedSteps == WatchedNext => Next
  BY DEF WatchedNext, Continue, Next

LEMMA WatchedSound == WatchedInv /\ [WatchedNext]_watched => WatchedInv'
<1>. SUFFICES ASSUME WatchedInv, [WatchedNext]_watched PROVE WatchedInv'
  OBVIOUS
<1>1. IInv'
  BY WatchedSteps, NextSound DEF WatchedInv, watched
<1>2. ASSUME Undisturbed' PROVE Serial'
  <2>1. CASE WatchedNext
    <3>1. crashes = 0
      <4>1. crashes' = 0 /\ crashes \in Nat
        BY <1>2, TypesUnfolded DEF Undisturbed, WatchedInv, IInv, OthersTyped
      <4>2. crashes' = crashes \/ crashes' = crashes + 1
        BY <2>1 DEF WatchedNext, Continue, Command, AdminCommand, OwnerCommand, ProfileCommand,
           UpdateAccountStatus, UpdateAccountFlags, RemoveAccountBank, Request, LoginIdle,
           StartJoin, StartCustomJoin, ProcessAccountInactivity, Begin, Age, Rest, Crash, Step,
           Notify, FlushInactivity, Conflict, CountJoins, MarkJoiner, CommitJoin, JoinRefused,
           EvaluateRapidJoins, MarkRapidJoiner, NoticeRefused, RecordIdentityVerification,
           UpsertStripeCustomer, UpsertStripeBankAccount, UpdateAvatar,
           UpdateNotificationPreferences
      <4>. QED
        BY <4>1, <4>2
    <3>2. ~Crash
      BY <1>2, <3>1 DEF Crash, Undisturbed
    <3>3. CASE Continue
      <4>1. IInv /\ Serial
        BY <1>2, <3>1, <3>3 DEF Continue, Undisturbed, WatchedInv
      <4>2. \/ \E a \in Accounts : Age(a) \/ Rest(a)
            \/ \E r \in Requests : Step(r) \/ NoticeRefused(r)
        BY <3>2, <3>3 DEF Continue
      <4>. QED
        BY <4>1, <4>2, TimeSerial, StepSerial
    <3>4. CASE /\ Watch
               /\ \/ \E a \in Accounts : Command(a)
                  \/ \E r \in Requests : Request(r) \/ ProcessAccountInactivity(r)
      <4>1. ~overlapped /\ Busy = {}
        BY <1>2, <3>4 DEF Watch, Undisturbed
      <4>2. IInv /\ Serial
        BY <3>1, <4>1 DEF Undisturbed, WatchedInv
      <4>. QED
        BY <3>4, <4>1, <4>2, CommandSerial, NoticesBegin, JoinsBegin DEF Request
    <3>. QED
      BY <2>1, <3>3, <3>4 DEF WatchedNext
  <2>2. CASE UNCHANGED watched
    <3>1. UNCHANGED <<rows, young, req, notices, cleared, crashes, overlapped>>
      BY <2>2 DEF watched, vars, memberships, history
    <3>2. Serial
      BY <1>2, <3>1 DEF Undisturbed, WatchedInv
    <3>. QED
      BY <3>1, <3>2, AllStay
  <2>. QED
    BY <2>1, <2>2
<1>. QED
  BY <1>1, <1>2 DEF WatchedInv

LEMMA WatchedInductive == WatchedSpec => []WatchedInv
<1>1. WatchedInit => WatchedInv
  BY InitSound, SerialInit DEF WatchedInit, WatchedInv
<1>. QED
  BY <1>1, WatchedSound, PTL DEF WatchedSpec

\* As long as timer runs, logins, joins and commands take turns and the process
\* lives, an account is mailed its reminder and its closure notice once for the
\* time that it has been idle, whatever the mail server refuses and whatever
\* admins activate in between.
THEOREM NoticesReachOnce == WatchedSpec => []SerialNoticedOnce
<1>1. WatchedInv => SerialNoticedOnce
  BY DEF WatchedInv, Serial, NoticeFits, SerialNoticedOnce, NoticedOnce
<1>. QED
  BY <1>1, WatchedInductive, PTL

\* As long as they do, the join that is one too many marks the account before it
\* is let join again, so that only an admin who clears the flag lets it go on.
THEOREM RapidJoinsStop == WatchedSpec => []SerialJoinsBounded
<1>1. WatchedInv => SerialJoinsBounded
  BY DEF WatchedInv, Serial, JoinsFit, SerialJoinsBounded, JoinsBounded
<1>. QED
  BY <1>1, WatchedInductive, PTL
=============================================================================
