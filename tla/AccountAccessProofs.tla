------------------------ MODULE AccountAccessProofs ------------------------
(***************************************************************************)
(* What holds of accounts, links and tokens for any number of them and of  *)
(* requests under way at once: a link works once, a deleted account stays  *)
(* deleted, and tokens and passwords are given to those whose password is  *)
(* the one that was typed.  And for requests that come one at a time: an   *)
(* account has one live link of each kind, with so many guesses at it.     *)
(*                                                                         *)
(* The argument is the version column: what a request found when it loaded *)
(* its account is true of the row for as long as nobody has written it,    *)
(* and a request whose account was written is never `current' again.       *)
(***************************************************************************)
EXTENDS AccountAccessWatched, WellFoundedInduction, TLAPS

Account == [email : Emails \cup {NoEmail, Gone}, password : Passwords \cup {Scrambled},
            verified : BOOLEAN, stripe : BOOLEAN, active : BOOLEAN]

Link == [owner : Accounts \cup {Nobody}, live : BOOLEAN, fails : Nat]

Pc == {"idle", "insert", "cool", "void", "issue", "mail", "read", "spend", "apply",
       "grant", "scrub", "scrubResets", "scrubbed"}

Kind == {"none", "signup", "resend", "forgot", "verify", "reset", "login", "refresh",
         "change", "profile", "delete"}

Asked ==
  [pc : Pc, kind : Kind, account : Accounts \cup {Nobody}, email : Emails \cup {NoEmail, Gone},
   secret : Passwords \cup {Scrambled}, next : Passwords \cup {Scrambled},
   link : Links \cup {NoLink}, seen : Links \cup {NoLink}, fails : Nat,
   current : BOOLEAN]

Spending(q) == q.pc \in {"spend", "apply"} /\ q.kind \in {"verify", "reset"}

\* What request q knows of its account, whose row is `row', and of the link it
\* spends; `lnk' and `chg' are the links and what they have changed.
RequestSound(q, row, lnk, chg) ==
  /\ q.pc = "insert" => q.account \in Accounts /\ q.email \in Emails /\ row = NewAccount
  /\ q.pc \notin {"idle", "insert"} => q.account \in Accounts /\ row.email # NoEmail
  /\ q.pc = "mail" => q.link \in Links
  /\ q.pc \in {"read", "spend"} => q.kind \in {"verify", "reset"}
  /\ q.pc \in {"scrub", "scrubResets", "scrubbed"} => q.kind = "delete"
  /\ q.current /\ q.kind = "verify" => row.email # Gone /\ ~row.verified
  /\ q.current /\ q.kind \in {"reset", "change"} => row.email # Gone
  /\ q.current /\ q.kind = "change" => row.password = q.secret
  /\ q.current /\ q.pc = "grant" => row.active /\ (q.kind = "login" => row.password = q.secret)
  /\ Spending(q) => q.seen \in Links /\ lnk[q.seen].owner = q.account
  /\ Spending(q) /\ q.kind = "reset" =>
       (q.pc = "apply" => ~lnk[q.seen].live) /\ (q.current => chg[q.seen] = 0)

\* A row that nobody has used yet is the row of one signup at most.
OwnRow ==
  \A r, s \in Requests : r # s /\ req[r].pc = "insert" => req[s].account # req[r].account

\* Who is welcomed is verified, or was and has been deleted.
AccountSound(a) ==
  /\ accounts[a].email = Gone => accounts[a].password = Scrambled /\ ~accounts[a].verified
  /\ welcomed[a] \in {0, 1}
  /\ accounts[a].email # Gone /\ ~accounts[a].verified => welcomed[a] = 0
  /\ a \in signedIn \cup kept => accounts[a].email # NoEmail

\* A link that has set a password is dead.
LinkSound(l) ==
  /\ links[l].live => links[l].owner \in Accounts /\ \E i \in DOMAIN issued : issued[i] = l
  /\ changed[l] \in {0, 1}
  /\ changed[l] = 1 => ~links[l].live /\ links[l].owner \in Accounts

IInv ==
  /\ TypeOK
  /\ \A r \in Requests : RequestSound(req[r], accounts[req[r].account], links, changed)
  /\ OwnRow
  /\ \A a \in Accounts : AccountSound(a)
  /\ \A l \in Links : LinkSound(l)

-----------------------------------------------------------------------------
(***************************************************************************)
(* The newest link                                                         *)
(***************************************************************************)
LEMMA LastPosition ==
  ASSUME NEW n \in Nat, NEW T, T \subseteq 1..n, T # {}
  PROVE  \E i \in T : \A j \in T : j <= i
<1>. DEFINE R == {ss \in Nat \X Nat : ss[1] < ss[2]}
            D == {n - i : i \in T}
<1>1. IsWellFoundedOn(R, Nat)
  BY NatLessThanWellFounded DEF OpToRel
<1>2. D \subseteq Nat /\ D # {}
  <2>1. \A i \in T : i \in 1..n /\ n - i \in Nat
    OBVIOUS
  <2>. QED
    BY <2>1
<1>3. \A x, y \in Nat : <<y, x>> \in R <=> y < x
  OBVIOUS
<1>. HIDE DEF R
<1>4. PICK x \in D : \A y \in D : ~(<<y, x>> \in R)
  <2>. HIDE DEF D
  <2>. QED
    BY <1>1, <1>2, WFMin
<1>5. PICK i \in T : x = n - i
  OBVIOUS
<1>6. \A j \in T : n - j \in D /\ n - j \in Nat
  BY <1>2
<1>7. \A j \in T : ~(n - j < n - i)
  BY <1>2, <1>3, <1>4, <1>5, <1>6
<1>. QED
  BY <1>7

LEMMA NewestIsOneOfThem ==
  ASSUME issued \in Seq(Links), NEW S, S \subseteq Links,
         \A l \in S : \E i \in DOMAIN issued : issued[i] = l
  PROVE  NewestOf(S) = NoLink \/ NewestOf(S) \in S
<1>. SUFFICES ASSUME S # {} PROVE NewestOf(S) \in S
  BY DEF NewestOf
<1>. DEFINE T == {i \in DOMAIN issued : issued[i] \in S}
            Last(i) == issued[i] \in S /\ \A j \in i + 1..Len(issued) : issued[j] \notin S
<1>1. Len(issued) \in Nat /\ DOMAIN issued = 1..Len(issued)
  OBVIOUS
<1>2. T \subseteq 1..Len(issued) /\ T # {}
  BY <1>1
<1>3. PICK i \in T : \A j \in T : j <= i
  BY <1>1, <1>2, LastPosition
<1>4. i \in DOMAIN issued /\ Last(i)
  <2>1. \A j \in i + 1..Len(issued) : j \in 1..Len(issued) /\ ~(j <= i)
    BY <1>1, <1>2
  <2>. QED
    BY <1>1, <1>3, <2>1
<1>5. issued[CHOOSE k \in DOMAIN issued : Last(k)] \in S
  BY <1>4
<1>. QED
  BY <1>5 DEF NewestOf

-----------------------------------------------------------------------------
(***************************************************************************)
(* Requests and steps                                                      *)
(***************************************************************************)
LEMMA TypesUnfolded ==
  TypeOK <=> /\ accounts \in [Accounts -> Account]
             /\ links \in [Links -> Link]
             /\ issued \in Seq(Links)
             /\ recent \subseteq Links /\ expired \subseteq Links
             /\ inbox \in [Emails -> SUBSET Links]
             /\ signedIn \subseteq Accounts /\ kept \subseteq Accounts
             /\ req \in [Requests -> Asked]
             /\ crashes \in Nat
             /\ changed \in [Links -> Nat] /\ guesses \in [Links -> Nat]
             /\ welcomed \in [Accounts -> Nat]
  BY DEF TypeOK, Account, Link, Asked, Pc, Kind

\* The links after a step: owners stay, and only a link nobody has owned comes
\* to life.
LinksKept ==
  \A l \in Links : links[l].owner \in Accounts =>
    links'[l].owner = links[l].owner /\ (links'[l].live => links[l].live)

\* What a request knows stays true if its account is not written, and it stops
\* being `current' if it is.
LEMMA StaysSound ==
  ASSUME IInv, NEW s \in Requests, LinksKept, NEW b \in BOOLEAN, NEW row, NEW chg,
         req[s].pc = "insert" => b,
         b => row = accounts[req[s].account],
         accounts[req[s].account].email # NoEmail => row.email # NoEmail,
         b /\ Spending(req[s]) => chg[req[s].seen] = changed[req[s].seen]
  PROVE  RequestSound([req[s] EXCEPT !.current = @ /\ b], row, links', chg)
<1>. DEFINE q == req[s]
            p == [q EXCEPT !.current = @ /\ b]
<1>1. q \in Asked /\ RequestSound(q, accounts[q.account], links, changed)
  BY TypesUnfolded DEF IInv
<1>2. /\ p.pc = q.pc /\ p.kind = q.kind /\ p.account = q.account /\ p.email = q.email
      /\ p.secret = q.secret /\ p.seen = q.seen /\ p.link = q.link
      /\ p.current = (q.current /\ b)
  BY <1>1 DEF Asked
<1>3. Spending(p) <=> Spending(q)
  BY <1>2 DEF Spending
<1>4. q.current \in BOOLEAN
  BY <1>1 DEF Asked
<1>5. Spending(q) => /\ links'[q.seen].owner = q.account
                     /\ links'[q.seen].live => links[q.seen].live
  <2>1. Spending(q) => q.account \in Accounts /\ q.seen \in Links /\ links[q.seen].owner = q.account
    BY <1>1 DEF RequestSound, Spending
  <2>. QED
    BY <2>1 DEF LinksKept
<1>. HIDE DEF p
<1>6. RequestSound(p, row, links', chg)
  BY <1>1, <1>2, <1>3, <1>4, <1>5 DEF RequestSound
<1>. QED
  BY <1>6 DEF p

LEMMA IdleSound ==
  /\ Idle \in Asked /\ Idle.pc = "idle" /\ Idle.account = Nobody /\ Idle.account \notin Accounts
  /\ \A row, lnk, chg : RequestSound(Idle, row, lnk, chg)
<1>1. /\ Idle.pc = "idle" /\ Idle.kind = "none" /\ Idle.account = Nobody
  BY DEF Idle
<1>2. \A row, lnk, chg : RequestSound(Idle, row, lnk, chg)
  BY <1>1 DEF RequestSound, Spending
<1>. QED
  BY <1>1, <1>2, AccessAssumption DEF Idle, Asked, Pc, Kind

\* A step that moves one request and writes no account.
LEMMA OneMoves ==
  ASSUME IInv, NEW r \in Requests, NEW q \in Asked,
         req' = [req EXCEPT ![r] = q],
         UNCHANGED <<accounts, tokens, crashes, changed, welcomed>>,
         links' \in [Links -> Link], issued' \in Seq(Links),
         recent' \subseteq Links, expired' \subseteq Links,
         inbox' \in [Emails -> SUBSET Links], guesses' \in [Links -> Nat],
         LinksKept,
         \A l \in Links : links'[l].live =>
           links'[l].owner \in Accounts /\ \E i \in DOMAIN issued' : issued'[i] = l,
         RequestSound(q, accounts[q.account], links', changed),
         q.pc = "insert" => \A s \in Requests \ {r} : req[s].account # q.account,
         \/ q.account \in {Nobody, req[r].account}
         \/ \A s \in Requests : req[s].pc = "insert" => req[s].account # q.account
  PROVE  IInv'
<1>1. /\ accounts' = accounts /\ signedIn' = signedIn /\ kept' = kept /\ crashes' = crashes
      /\ changed' = changed /\ welcomed' = welcomed
  BY DEF tokens
<1>2. req \in [Requests -> Asked]
  BY TypesUnfolded DEF IInv
<1>3. req' \in [Requests -> Asked] /\ req'[r] = q /\ \A s \in Requests \ {r} : req'[s] = req[s]
  BY <1>2
<1>4. TypeOK'
  BY <1>1, <1>3, TypesUnfolded DEF IInv, TypeOK, Account, Link, Asked, Pc, Kind
<1>5. ASSUME NEW s \in Requests
      PROVE  RequestSound(req'[s], accounts'[req'[s].account], links', changed')
  <2>1. CASE s = r
    BY <2>1, <1>1, <1>3
  <2>2. CASE s # r
    <3>1. RequestSound([req[s] EXCEPT !.current = @ /\ TRUE],
                       accounts[req[s].account], links', changed)
      BY StaysSound
    <3>2. [req[s] EXCEPT !.current = @ /\ TRUE] = req[s]
      BY <1>2 DEF Asked
    <3>. QED
      BY <2>2, <3>1, <3>2, <1>1, <1>3
  <2>. QED
    BY <2>1, <2>2
<1>6. OwnRow'
  <2>. SUFFICES ASSUME NEW s \in Requests, NEW t \in Requests, s # t, req'[s].pc = "insert"
                PROVE  req'[t].account # req'[s].account
    BY DEF OwnRow
  <2>1. CASE s = r
    BY <2>1, <1>3
  <2>2. CASE s # r /\ t = r
    <3>1. req[s].pc = "insert" /\ req[s].account \in Accounts
      BY <2>2, <1>3 DEF IInv, RequestSound
    <3>. QED
      BY <2>2, <3>1, <1>3, AccessAssumption DEF IInv, OwnRow
  <2>3. CASE s # r /\ t # r
    BY <2>3, <1>3 DEF IInv, OwnRow
  <2>. QED
    BY <2>1, <2>2, <2>3
<1>7. \A a \in Accounts : AccountSound(a)'
  BY <1>1 DEF IInv, AccountSound
<1>8. \A l \in Links : LinkSound(l)'
  BY <1>1 DEF IInv, LinkSound, LinksKept
<1>. QED
  BY <1>1, <1>4, <1>5, <1>6, <1>7, <1>8 DEF IInv

\* A step that writes account a: the requests that hold it are not `current' any
\* more, but for the one that goes on with what it has written.
LEMMA AccountWritten ==
  ASSUME IInv, NEW a \in Accounts, NEW row \in Account,
         accounts' = [accounts EXCEPT ![a] = row],
         req' \in [Requests -> Asked],
         \A s \in Requests :
           \/ req'[s] = [req[s] EXCEPT !.current = @ /\ req[s].account # a]
           \/ /\ req'[s] # Idle => req'[s].account = req[s].account /\ req'[s].pc # "insert"
              /\ RequestSound(req'[s], accounts'[req'[s].account], links', changed'),
         \A s \in Requests : req'[s].pc = "insert" => req'[s].account # a,
         row.email # NoEmail,
         row.email = Gone => row.password = Scrambled /\ ~row.verified,
         welcomed' \in [Accounts -> Nat], welcomed'[a] \in {0, 1},
         row.email # Gone /\ ~row.verified => welcomed'[a] = 0,
         \A b \in Accounts \ {a} : welcomed'[b] = welcomed[b],
         changed' \in [Links -> Nat],
         \A l \in Links : \/ changed'[l] = changed[l]
                          \/ links[l].owner = a /\ changed'[l] \in {0, 1} /\ ~links[l].live,
         links' \in [Links -> Link], LinksKept, \A l \in Links : links'[l].live => links[l].live,
         signedIn' \subseteq signedIn \cup {a}, kept' \subseteq kept \cup {a},
         UNCHANGED <<issued, clock, inbox, crashes, guesses>>
  PROVE  IInv'
<1>1. /\ issued' = issued /\ recent' = recent /\ expired' = expired /\ inbox' = inbox
      /\ crashes' = crashes /\ guesses' = guesses
  BY DEF clock
<1>2. /\ accounts \in [Accounts -> Account] /\ req \in [Requests -> Asked]
      /\ signedIn \subseteq Accounts /\ kept \subseteq Accounts
  BY TypesUnfolded DEF IInv
<1>3. /\ accounts' \in [Accounts -> Account] /\ accounts'[a] = row
      /\ \A b \in Accounts \ {a} : accounts'[b] = accounts[b]
      /\ \A b : b # a => accounts'[b] = accounts[b]
  BY <1>2
<1>4. TypeOK'
  <2>1. signedIn' \subseteq Accounts /\ kept' \subseteq Accounts
    BY <1>2
  <2>. QED
    BY <1>1, <1>3, <2>1, TypesUnfolded DEF IInv, TypeOK, Account, Link, Asked, Pc, Kind
<1>5. ASSUME NEW s \in Requests
      PROVE  RequestSound(req'[s], accounts'[req'[s].account], links', changed')
  <2>. SUFFICES ASSUME req'[s] = [req[s] EXCEPT !.current = @ /\ req[s].account # a]
                PROVE  RequestSound(req'[s], accounts'[req'[s].account], links', changed')
    OBVIOUS
  <2>. DEFINE b == req[s].account # a
  <2>1. req[s] \in Asked /\ RequestSound(req[s], accounts[req[s].account], links, changed)
    BY <1>2 DEF IInv
  <2>2. req'[s].account = req[s].account /\ req'[s].pc = req[s].pc
    BY <2>1 DEF Asked
  <2>3. b \in BOOLEAN /\ (b => accounts'[req[s].account] = accounts[req[s].account])
    BY <1>3
  <2>4. req[s].pc = "insert" => b
    BY <2>2
  <2>5. accounts[req[s].account].email # NoEmail => accounts'[req[s].account].email # NoEmail
    BY <1>3
  <2>6. b /\ Spending(req[s]) => changed'[req[s].seen] = changed[req[s].seen]
    BY <2>1 DEF RequestSound
  <2>. HIDE DEF b
  <2>7. RequestSound([req[s] EXCEPT !.current = @ /\ b],
                     accounts'[req[s].account], links', changed')
    BY <2>3, <2>4, <2>5, <2>6, StaysSound
  <2>. QED
    BY <2>2, <2>7 DEF b
<1>6. OwnRow'
  <2>. SUFFICES ASSUME NEW s \in Requests, NEW t \in Requests, s # t, req'[s].pc = "insert"
                PROVE  req'[t].account # req'[s].account
    BY DEF OwnRow
  <2>1. req[s] \in Asked /\ req[t] \in Asked
    BY <1>2
  <2>2. req[s].pc = "insert" /\ req'[s].account = req[s].account
    BY <2>1, IdleSound DEF Asked
  <2>3. req[s].account \in Accounts /\ req[t].account # req[s].account
    BY <2>2 DEF IInv, OwnRow, RequestSound
  <2>4. req'[t].account \in {req[t].account, Nobody}
    BY <2>1, IdleSound DEF Asked
  <2>. QED
    BY <2>2, <2>3, <2>4, AccessAssumption
<1>7. ASSUME NEW b \in Accounts PROVE AccountSound(b)'
  BY <1>3 DEF IInv, AccountSound
<1>8. ASSUME NEW l \in Links PROVE LinkSound(l)'
  BY <1>1 DEF IInv, LinkSound, LinksKept
<1>. QED
  BY <1>4, <1>5, <1>6, <1>7, <1>8 DEF IInv

\* A step that moves one request and writes at most what was mailed.
LEMMA QuietMove ==
  ASSUME IInv, NEW r \in Requests, NEW q \in Asked,
         req' = [req EXCEPT ![r] = q],
         UNCHANGED <<tables, clock, tokens, crashes, history>>,
         inbox' \in [Emails -> SUBSET Links],
         RequestSound(q, accounts[q.account], links, changed),
         q.pc = "insert" => \A s \in Requests \ {r} : req[s].account # q.account,
         \/ q.account \in {Nobody, req[r].account}
         \/ \A s \in Requests : req[s].pc = "insert" => req[s].account # q.account
  PROVE  IInv'
<1>1. /\ accounts' = accounts /\ links' = links /\ issued' = issued
      /\ recent' = recent /\ expired' = expired /\ signedIn' = signedIn /\ kept' = kept
      /\ crashes' = crashes /\ changed' = changed /\ welcomed' = welcomed /\ guesses' = guesses
  BY DEF tables, clock, tokens, history
<1>2. LinksKept
  BY <1>1 DEF LinksKept
<1>3. \A l \in Links : links'[l].live =>
        links'[l].owner \in Accounts /\ \E i \in DOMAIN issued' : issued'[i] = l
  BY <1>1 DEF IInv, LinkSound
<1>4. /\ links' \in [Links -> Link] /\ issued' \in Seq(Links)
      /\ recent' \subseteq Links /\ expired' \subseteq Links /\ guesses' \in [Links -> Nat]
  BY <1>1, TypesUnfolded DEF IInv
<1>5. UNCHANGED <<accounts, tokens, crashes, changed, welcomed>>
  BY <1>1 DEF tokens
<1>6. RequestSound(q, accounts[q.account], links', changed)
  BY <1>1
<1>. QED
  BY <1>2, <1>3, <1>4, <1>5, <1>6, OneMoves

\* The request ends without having changed anything.
LEMMA EndSound ==
  ASSUME IInv, NEW r \in Requests, End(r),
         UNCHANGED <<tables, clock, inbox, tokens, crashes, history>>
  PROVE  IInv'
<1>1. req' = [req EXCEPT ![r] = Idle] /\ inbox' = inbox
      /\ UNCHANGED <<tables, clock, tokens, crashes, history>>
  BY DEF End
<1>2. inbox' \in [Emails -> SUBSET Links]
  BY <1>1, TypesUnfolded DEF IInv
<1>. QED
  BY <1>1, <1>2, IdleSound, QuietMove

-----------------------------------------------------------------------------
(***************************************************************************)
(* Requests that begin                                                     *)
(***************************************************************************)
LEMMA LoadedSound ==
  ASSUME IInv, NEW r \in Requests, NEW q \in Asked, Begin(r, q),
         q.account \in Accounts, accounts[q.account].email # NoEmail, q.pc # "insert",
         RequestSound(q, accounts[q.account], links, changed)
  PROVE  IInv'
<1>1. \A s \in Requests : req[s].pc = "insert" => req[s].account # q.account
  BY DEF IInv, RequestSound, NewAccount
<1>2. req' = [req EXCEPT ![r] = q] /\ inbox' = inbox
      /\ UNCHANGED <<tables, clock, tokens, crashes, history>>
  BY DEF Begin
<1>3. inbox' \in [Emails -> SUBSET Links]
  BY <1>2, TypesUnfolded DEF IInv
<1>. QED
  BY <1>1, <1>2, <1>3, QuietMove

\* The fields of a request that has loaded an account.
LEMMA LoadedTyped ==
  ASSUME TypeOK, NEW a \in Accounts, NEW pc \in Pc, NEW kind \in Kind
  PROVE  /\ Loaded(kind, pc, a) \in Asked
         /\ Loaded(kind, pc, a).pc = pc /\ Loaded(kind, pc, a).kind = kind
         /\ Loaded(kind, pc, a).account = a
<1>1. accounts[a].email \in Emails \cup {NoEmail, Gone}
  BY TypesUnfolded DEF Account
<1>2. Idle \in Asked
  BY IdleSound
<1>3. Loaded(kind, pc, a) \in Asked
  BY <1>1, <1>2 DEF Loaded, Asked
<1>. QED
  BY <1>2, <1>3 DEF Loaded, Asked

LEMMA AddressKnown ==
  ASSUME NEW e \in Emails, NEW a \in Found(e)
  PROVE  a \in Accounts /\ accounts[a].email \notin {NoEmail, Gone}
  BY AccessAssumption DEF Found

LEMMA SignupSound ==
  ASSUME IInv, NEW r \in Requests, Signup(r)
  PROVE  IInv'
<1>1. PICK a \in Accounts, e \in Emails, p \in Passwords :
        /\ accounts[a] = NewAccount
        /\ \A s \in Requests : req[s].account # a
        /\ Begin(r, [Idle EXCEPT !.pc = "insert", !.kind = "signup", !.account = a,
                                 !.email = e, !.next = p])
  BY DEF Signup
<1>. DEFINE q == [Idle EXCEPT !.pc = "insert", !.kind = "signup", !.account = a,
                              !.email = e, !.next = p]
<1>2. q \in Asked /\ q.pc = "insert" /\ q.kind = "signup" /\ q.account = a /\ q.email = e
  <2>1. Idle \in Asked /\ "insert" \in Pc /\ "signup" \in Kind
    BY IdleSound DEF Pc, Kind
  <2>2. q \in Asked
    BY <2>1 DEF Asked
  <2>. QED
    BY <2>1 DEF Asked
<1>. HIDE DEF q
<1>3. RequestSound(q, accounts[q.account], links, changed)
  BY <1>1, <1>2 DEF RequestSound, Spending
<1>4. req' = [req EXCEPT ![r] = q] /\ inbox' = inbox
      /\ UNCHANGED <<tables, clock, tokens, crashes, history>>
  BY <1>1 DEF Begin, q
<1>5. inbox' \in [Emails -> SUBSET Links]
  BY <1>4, TypesUnfolded DEF IInv
<1>. QED
  BY <1>1, <1>2, <1>3, <1>4, <1>5, QuietMove

LEMMA MailRequestsSound ==
  ASSUME IInv, NEW r \in Requests,
         ResendEmail(r) \/ ForgotPassword(r) \/ ResendForgotPassword(r)
  PROVE  IInv'
<1>1. PICK e, a :
        /\ e \in Emails /\ a \in Found(e)
        /\ Begin(r, Loaded("resend", "cool", a)) \/ Begin(r, Loaded("forgot", "void", a))
  BY DEF ResendEmail, ForgotPassword, ResendForgotPassword, MayResend, MayForget
<1>2. a \in Accounts /\ accounts[a].email # NoEmail
  BY <1>1, AddressKnown
<1>3. PICK q \in Asked : /\ Begin(r, q) /\ q.account = a /\ q.pc \in {"cool", "void"}
                         /\ q.kind \in {"resend", "forgot"}
  BY <1>1, <1>2, LoadedTyped DEF IInv, Pc, Kind
<1>4. RequestSound(q, accounts[q.account], links, changed)
  BY <1>2, <1>3 DEF RequestSound, Spending
<1>. QED
  BY <1>2, <1>3, <1>4, LoadedSound

LEMMA LinkRequestsSound ==
  ASSUME IInv, NEW r \in Requests, VerifyEmail(r) \/ ResetPassword(r)
  PROVE  IInv'
<1>1. PICK e, a, l, p, kind :
        /\ e \in Emails /\ a \in Found(e) /\ l \in Posted(e) /\ p \in Passwords \cup {Scrambled}
        /\ kind \in {"verify", "reset"}
        /\ kind = "verify" => ~accounts[a].verified
        /\ Begin(r, [Loaded(kind, "read", a) EXCEPT !.link = l, !.next = p])
  <2>1. CASE VerifyEmail(r)
    <3>1. PICK e, a, l :
            /\ e \in Emails /\ a \in MayVerify(e) /\ l \in Posted(e)
            /\ Begin(r, [Loaded("verify", "read", a) EXCEPT !.link = l])
      BY <2>1 DEF VerifyEmail
    <3>2. a \in Accounts /\ a \in Found(e) /\ ~accounts[a].verified
      BY <3>1 DEF MayVerify, Found
    <3>. DEFINE x == [Loaded("verify", "read", a) EXCEPT !.link = l]
    <3>3. Loaded("verify", "read", a) \in Asked
      BY <3>2, LoadedTyped DEF IInv, Pc, Kind
    <3>4. Loaded("verify", "read", a).next = Scrambled
      BY DEF Loaded, Idle
    <3>5. x = [Loaded("verify", "read", a) EXCEPT !.link = l, !.next = Scrambled]
      BY <3>3, <3>4 DEF Asked
    <3>6. Begin(r, [Loaded("verify", "read", a) EXCEPT !.link = l, !.next = Scrambled])
      BY <3>1, <3>5
    <3>. QED
      BY <3>1, <3>2, <3>6
  <2>2. CASE ResetPassword(r)
    <3>1. PICK e, a, l, p :
            /\ e \in Emails /\ a \in MayReset(e) /\ l \in Posted(e) /\ p \in Passwords
            /\ Begin(r, [Loaded("reset", "read", a) EXCEPT !.link = l, !.next = p])
      BY <2>2 DEF ResetPassword
    <3>. QED
      BY <3>1 DEF MayReset
  <2>. QED
    BY <2>1, <2>2
<1>. DEFINE q == [Loaded(kind, "read", a) EXCEPT !.link = l, !.next = p]
<1>2. a \in Accounts /\ accounts[a].email \notin {NoEmail, Gone}
  BY <1>1, AddressKnown
<1>3. l \in Links \cup {NoLink}
  BY <1>1, TypesUnfolded DEF Posted, IInv
<1>4. q \in Asked /\ q.account = a /\ q.pc = "read" /\ q.kind = kind
  <2>. DEFINE x == Loaded(kind, "read", a)
  <2>1. x \in Asked /\ x.account = a /\ x.pc = "read" /\ x.kind = kind
    BY <1>1, <1>2, LoadedTyped DEF IInv, Pc, Kind
  <2>. HIDE DEF x
  <2>2. [x EXCEPT !.link = l, !.next = p] \in Asked
    BY <1>1, <1>3, <2>1 DEF Asked
  <2>3. q = [x EXCEPT !.link = l, !.next = p]
    BY DEF x
  <2>. QED
    BY <2>1, <2>2, <2>3 DEF Asked
<1>. HIDE DEF q
<1>5. RequestSound(q, accounts[q.account], links, changed)
  BY <1>1, <1>2, <1>4 DEF RequestSound, Spending
<1>. QED
  BY <1>1, <1>2, <1>4, <1>5, LoadedSound DEF q

LEMMA LoginSound ==
  ASSUME IInv, NEW r \in Requests, Login(r)
  PROVE  IInv'
<1>1. PICK e, p, a :
        /\ e \in Emails /\ p \in Passwords /\ a \in Admitted(e, p)
        /\ Begin(r, [Loaded("login", "grant", a) EXCEPT !.secret = p])
  BY DEF Login
<1>. DEFINE q == [Loaded("login", "grant", a) EXCEPT !.secret = p]
<1>2. /\ a \in Accounts /\ accounts[a].email # NoEmail
      /\ accounts[a].active /\ accounts[a].password = p
  BY <1>1, AddressKnown DEF Admitted
<1>3. /\ q \in Asked /\ q.account = a /\ q.pc = "grant" /\ q.kind = "login" /\ q.secret = p
  <2>. DEFINE x == Loaded("login", "grant", a)
  <2>1. x \in Asked /\ x.account = a /\ x.pc = "grant" /\ x.kind = "login"
    BY <1>2, LoadedTyped DEF IInv, Pc, Kind
  <2>. HIDE DEF x
  <2>2. [x EXCEPT !.secret = p] \in Asked
    BY <1>1, <2>1 DEF Asked
  <2>3. q = [x EXCEPT !.secret = p]
    BY DEF x
  <2>. QED
    BY <2>1, <2>2, <2>3 DEF Asked
<1>. HIDE DEF q
<1>4. RequestSound(q, accounts[q.account], links, changed)
  BY <1>2, <1>3 DEF RequestSound, Spending
<1>. QED
  BY <1>1, <1>2, <1>3, <1>4, LoadedSound DEF q

\* Somebody with a token has or had an account.
LEMMA TokenRequestsSound ==
  ASSUME IInv, NEW r \in Requests, Refresh(r) \/ UpdateUserProfile(r) \/ DeleteAccount(r)
  PROVE  IInv'
<1>1. PICK a, q :
        /\ a \in signedIn \cup kept
        /\ Begin(r, q)
        /\ \/ accounts[a].active /\ q = Loaded("refresh", "grant", a)
           \/ q = Loaded("profile", "apply", a)
           \/ q = Loaded("delete", "scrub", a)
  BY DEF Refresh, MayRefresh, UpdateUserProfile, DeleteAccount, Guarded
<1>2. a \in Accounts
  BY <1>1, TypesUnfolded DEF IInv
<1>3. accounts[a].email # NoEmail
  BY <1>1, <1>2 DEF IInv, AccountSound
<1>4. /\ q \in Asked /\ q.account = a
      /\ \/ q.pc = "grant" /\ q.kind = "refresh" /\ accounts[a].active
         \/ q.pc = "apply" /\ q.kind = "profile"
         \/ q.pc = "scrub" /\ q.kind = "delete"
  BY <1>1, <1>2, LoadedTyped DEF IInv, Pc, Kind
<1>5. RequestSound(q, accounts[q.account], links, changed)
  BY <1>3, <1>2, <1>4 DEF RequestSound, Spending
<1>6. q.pc # "insert"
  BY <1>4
<1>. QED
  BY <1>1, <1>2, <1>3, <1>4, <1>5, <1>6, LoadedSound

LEMMA ChangePasswordSound ==
  ASSUME IInv, NEW r \in Requests, ChangePassword(r)
  PROVE  IInv'
<1>1. PICK a \in signedIn, p \in Passwords :
        /\ MayChange(a, p)
        /\ Begin(r, [Loaded("change", "apply", a) EXCEPT !.secret = accounts[a].password,
                                                        !.next = p])
  BY DEF ChangePassword, Guarded
<1>. DEFINE q == [Loaded("change", "apply", a) EXCEPT !.secret = accounts[a].password, !.next = p]
<1>2. a \in Accounts /\ accounts[a].password \in Passwords
  BY <1>1, TypesUnfolded DEF IInv, MayChange
<1>3. accounts[a].email \notin {NoEmail, Gone}
  BY <1>2, AccessAssumption DEF IInv, AccountSound
<1>4. /\ q \in Asked /\ q.account = a /\ q.pc = "apply" /\ q.kind = "change"
      /\ q.secret = accounts[a].password
  <2>. DEFINE x == Loaded("change", "apply", a)
  <2>1. x \in Asked /\ x.account = a /\ x.pc = "apply" /\ x.kind = "change"
    BY <1>2, LoadedTyped DEF IInv, Pc, Kind
  <2>. HIDE DEF x
  <2>2. [x EXCEPT !.secret = accounts[a].password, !.next = p] \in Asked
    BY <1>2, <2>1 DEF Asked
  <2>3. q = [x EXCEPT !.secret = accounts[a].password, !.next = p]
    BY DEF x
  <2>. QED
    BY <2>1, <2>2, <2>3 DEF Asked
<1>. HIDE DEF q
<1>5. RequestSound(q, accounts[q.account], links, changed)
  BY <1>3, <1>2, <1>4 DEF RequestSound, Spending
<1>. QED
  BY <1>1, <1>2, <1>3, <1>4, <1>5, LoadedSound DEF q

-----------------------------------------------------------------------------
(***************************************************************************)
(* Steps that read and write links                                         *)
(***************************************************************************)
LEMMA RequestKnown ==
  ASSUME IInv, NEW r \in Requests
  PROVE  /\ req[r] \in Asked
         /\ RequestSound(req[r], accounts[req[r].account], links, changed)
         /\ req[r].pc \notin {"idle", "insert"} =>
              req[r].account \in Accounts /\ accounts[req[r].account].email # NoEmail
  BY TypesUnfolded DEF IInv, RequestSound

\* A request that goes on to where it knows no more than its account.
LEMMA PcMoved ==
  ASSUME IInv, NEW r \in Requests, req[r].pc \notin {"idle", "insert"}, NEW pc \in Pc,
         pc \notin {"idle", "insert", "mail", "read", "spend", "apply", "grant"},
         pc \in {"scrub", "scrubResets", "scrubbed"} => req[r].kind = "delete"
  PROVE  /\ [req[r] EXCEPT !.pc = pc] \in Asked
         /\ [req[r] EXCEPT !.pc = pc].account = req[r].account
         /\ [req[r] EXCEPT !.pc = pc].pc = pc
         /\ [req[r] EXCEPT !.pc = pc].kind = req[r].kind
         /\ \A lnk, chg :
              RequestSound([req[r] EXCEPT !.pc = pc], accounts[req[r].account], lnk, chg)
<1>. DEFINE q == [req[r] EXCEPT !.pc = pc]
<1>1. /\ req[r] \in Asked /\ req[r].account \in Accounts
      /\ RequestSound(req[r], accounts[req[r].account], links, changed)
  BY RequestKnown
<1>2. /\ q \in Asked /\ q.pc = pc /\ q.kind = req[r].kind /\ q.account = req[r].account
      /\ q.secret = req[r].secret /\ q.current = req[r].current
  BY <1>1 DEF Asked
<1>. HIDE DEF q
<1>3. \A lnk, chg : RequestSound(q, accounts[req[r].account], lnk, chg)
  BY <1>1, <1>2 DEF RequestSound, Spending
<1>. QED
  BY <1>2, <1>3 DEF q

LEMMA CoolSound ==
  ASSUME IInv, NEW r \in Requests, Cool(r)
  PROVE  IInv'
<1>. DEFINE q == IF NewestOf(OfAccount(req[r].account, VerifyLinks)) \in recent THEN Idle
                 ELSE [req[r] EXCEPT !.pc = "void"]
<1>1. /\ req[r].pc = "cool" /\ req' = [req EXCEPT ![r] = q] /\ inbox' = inbox
      /\ UNCHANGED <<tables, clock, tokens, crashes, history>>
  BY DEF Cool
<1>2. "void" \in Pc
  BY DEF Pc
<1>3. /\ q \in Asked /\ q.pc # "insert" /\ q.account \in {Nobody, req[r].account}
      /\ RequestSound(q, accounts[q.account], links, changed)
  BY <1>1, <1>2, IdleSound, PcMoved
<1>4. inbox' \in [Emails -> SUBSET Links]
  BY <1>1, TypesUnfolded DEF IInv
<1>. HIDE DEF q
<1>. QED
  BY <1>1, <1>3, <1>4, QuietMove

LEMMA VoidedSound ==
  ASSUME IInv, NEW S, links' = Voided(S)
  PROVE  /\ links' \in [Links -> Link] /\ LinksKept
         /\ \A l \in Links : /\ links'[l].owner = links[l].owner
                             /\ links'[l].live => links[l].live /\ l \notin S
         /\ \A l \in Links : links'[l].live =>
              links'[l].owner \in Accounts /\ \E i \in DOMAIN issued : issued[i] = l
<1>1. links \in [Links -> Link]
  BY TypesUnfolded DEF IInv
<1>2. links' \in [Links -> Link]
  BY <1>1 DEF Voided, Link
<1>3. \A l \in Links : /\ links'[l].owner = links[l].owner
                       /\ links'[l].live => links[l].live /\ l \notin S
  BY <1>1 DEF Voided, Link
<1>. QED
  BY <1>2, <1>3 DEF LinksKept, IInv, LinkSound

\* One request moves on and consumes links.
LEMMA VoidingMove ==
  ASSUME IInv, NEW r \in Requests, NEW q \in Asked, NEW S,
         req' = [req EXCEPT ![r] = q], links' = Voided(S),
         UNCHANGED <<accounts, issued, clock, inbox, tokens, crashes, changed, welcomed, guesses>>,
         RequestSound(q, accounts[q.account], links', changed),
         q.pc # "insert", q.account \in {Nobody, req[r].account}
  PROVE  IInv'
<1>1. /\ issued' = issued /\ recent' = recent /\ expired' = expired /\ inbox' = inbox
      /\ guesses' = guesses /\ UNCHANGED <<accounts, tokens, crashes, changed, welcomed>>
  BY DEF clock
<1>2. /\ issued' \in Seq(Links) /\ recent' \subseteq Links /\ expired' \subseteq Links
      /\ inbox' \in [Emails -> SUBSET Links] /\ guesses' \in [Links -> Nat]
  BY <1>1, TypesUnfolded DEF IInv
<1>3. /\ links' \in [Links -> Link] /\ LinksKept
      /\ \A l \in Links : links'[l].live =>
           links'[l].owner \in Accounts /\ \E i \in DOMAIN issued' : issued'[i] = l
  BY <1>1, VoidedSound
<1>. QED
  BY <1>1, <1>2, <1>3, OneMoves

LEMMA VoidSound ==
  ASSUME IInv, NEW r \in Requests, VoidVerifications(r) \/ VoidResets(r)
  PROVE  IInv'
<1>1. PICK S :
        /\ req[r].pc = "void" /\ links' = Voided(S)
        /\ req' = [req EXCEPT ![r] = [req[r] EXCEPT !.pc = "issue"]]
        /\ UNCHANGED <<accounts, issued, clock, inbox, tokens, crashes, history>>
  BY DEF VoidVerifications, VoidResets, Void
<1>. DEFINE q == [req[r] EXCEPT !.pc = "issue"]
<1>2. "issue" \in Pc
  BY DEF Pc
<1>3. /\ q \in Asked /\ q.pc = "issue" /\ q.account = req[r].account
      /\ RequestSound(q, accounts[q.account], links', changed)
  BY <1>1, <1>2, PcMoved
<1>4. UNCHANGED <<accounts, issued, clock, inbox, tokens, crashes, changed, welcomed, guesses>>
  BY <1>1 DEF history
<1>. HIDE DEF q
<1>. QED
  BY <1>1, <1>3, <1>4, VoidingMove DEF q

LEMMA IssueSound ==
  ASSUME IInv, NEW r \in Requests, IssueVerification(r) \/ IssueReset(r)
  PROVE  IInv'
<1>1. PICK l \in Links :
        /\ req[r].pc = "issue" /\ links[l] = NewLink
        /\ links' = [links EXCEPT ![l] = [NewLink EXCEPT !.owner = req[r].account, !.live = TRUE]]
        /\ issued' = Append(issued, l)
        /\ recent' = recent \cup {l}
        /\ req' = [req EXCEPT ![r] = [req[r] EXCEPT !.pc = "mail", !.link = l]]
        /\ UNCHANGED <<accounts, expired, inbox, tokens, crashes, history>>
  BY DEF IssueVerification, IssueReset, Issue, Links
<1>. DEFINE p == [req[r] EXCEPT !.pc = "mail", !.link = l]
            a == req[r].account
            new == [owner |-> a, live |-> TRUE, fails |-> 0]
<1>2. /\ req[r] \in Asked /\ a \in Accounts /\ "mail" \in Pc
      /\ RequestSound(req[r], accounts[a], links, changed)
  BY <1>1, RequestKnown DEF Pc
<1>3. p \in Asked
  BY <1>2 DEF Asked
<1>4. /\ p.pc = "mail" /\ p.account = a /\ p.kind = req[r].kind /\ p.link = l
      /\ p.current = req[r].current /\ p.secret = req[r].secret
  BY <1>2 DEF Asked
<1>5. RequestSound(p, accounts[p.account], links', changed)
  <2>. HIDE DEF p, a
  <2>. QED
    BY <1>1, <1>2, <1>4 DEF RequestSound, Spending
<1>6. [NewLink EXCEPT !.owner = a, !.live = TRUE] \in Link
      /\ [NewLink EXCEPT !.owner = a, !.live = TRUE].owner = a
      /\ NewLink.owner = Nobody
  <2>1. NewLink \in Link
    BY DEF NewLink, Link
  <2>. QED
    BY <1>2, <2>1 DEF NewLink, Link
<1>7. /\ links \in [Links -> Link] /\ issued \in Seq(Links) /\ recent \subseteq Links
      /\ expired \subseteq Links /\ inbox \in [Emails -> SUBSET Links] /\ guesses \in [Links -> Nat]
  BY TypesUnfolded DEF IInv
<1>. HIDE DEF p
<1>9. /\ links' \in [Links -> Link] /\ links'[l].owner = a
      /\ \A k \in Links \ {l} : links'[k] = links[k]
  BY <1>1, <1>6, <1>7
<1>10. LinksKept
  BY <1>1, <1>6, <1>9, AccessAssumption DEF LinksKept
<1>11. \A k \in Links : links'[k].live =>
         links'[k].owner \in Accounts /\ \E i \in DOMAIN issued' : issued'[i] = k
  <2>1. /\ DOMAIN issued = 1..Len(issued) /\ Len(issued) \in Nat
        /\ DOMAIN issued' = 1..Len(issued) + 1 /\ issued'[Len(issued) + 1] = l
        /\ \A i \in DOMAIN issued : i \in DOMAIN issued' /\ issued'[i] = issued[i]
    BY <1>1, <1>7
  <2>. QED
    BY <1>2, <1>9, <2>1 DEF IInv, LinkSound
<1>12. /\ issued' \in Seq(Links) /\ recent' \subseteq Links /\ expired' \subseteq Links
       /\ inbox' \in [Emails -> SUBSET Links] /\ guesses' \in [Links -> Nat]
       /\ UNCHANGED <<accounts, tokens, crashes, changed, welcomed>>
  BY <1>1, <1>7 DEF history
<1>. QED
  BY <1>1, <1>3, <1>4, <1>5, <1>9, <1>10, <1>11, <1>12, OneMoves DEF p

LEMMA MailSound ==
  ASSUME IInv, NEW r \in Requests, MailVerification(r) \/ MailReset(r)
  PROVE  IInv'
<1>1. /\ req' = [req EXCEPT ![r] = Idle] /\ UNCHANGED <<tables, clock, tokens, crashes, history>>
      /\ req[r].pc = "mail"
      /\ \/ inbox' = [inbox EXCEPT ![req[r].email] = @ \cup {req[r].link}]
         \/ inbox' = inbox
  BY DEF MailVerification, MailReset, Mail, End
<1>2. req[r].link \in Links /\ inbox \in [Emails -> SUBSET Links]
  BY <1>1, RequestKnown, TypesUnfolded DEF IInv, RequestSound
<1>3. inbox' \in [Emails -> SUBSET Links]
  BY <1>1, <1>2
<1>. QED
  BY <1>1, <1>3, IdleSound, QuietMove

LEMMA ReadSound ==
  ASSUME IInv, NEW r \in Requests, ReadVerification(r) \/ ReadReset(r)
  PROVE  IInv'
<1>1. PICK table :
        /\ table \subseteq Links
        /\ Read(r, table)
  BY DEF ReadVerification, ReadReset, Links
<1>. DEFINE a == req[r].account
            l == NewestOf(LiveOf(a, table))
            p == [req[r] EXCEPT !.pc = "spend", !.seen = l, !.fails = links[l].fails]
<1>2. /\ req[r].pc = "read" /\ req' = [req EXCEPT ![r] = IF l = NoLink THEN Idle ELSE p]
      /\ inbox' = inbox /\ UNCHANGED <<tables, clock, tokens, crashes, history>>
  BY <1>1 DEF Read
<1>3. inbox' \in [Emails -> SUBSET Links]
  BY <1>2, TypesUnfolded DEF IInv
<1>4. CASE l = NoLink
  BY <1>2, <1>3, <1>4, IdleSound, QuietMove
<1>5. CASE l # NoLink
  <2>1. l \in LiveOf(a, table)
    <3>1. LiveOf(a, table) \subseteq Links /\ issued \in Seq(Links)
      BY <1>1, TypesUnfolded DEF LiveOf, OfAccount, IInv
    <3>2. \A k \in LiveOf(a, table) : \E i \in DOMAIN issued : issued[i] = k
      BY <3>1 DEF LiveOf, OfAccount, IInv, LinkSound
    <3>. QED
      BY <1>5, <3>1, <3>2, NewestIsOneOfThem
  <2>2. l \in Links /\ links[l].live /\ links[l].owner = a /\ links[l].fails \in Nat
    BY <1>1, <2>1, TypesUnfolded DEF LiveOf, OfAccount, IInv, Link
  <2>3. changed[l] = 0
    BY <2>2 DEF IInv, LinkSound
  <2>. HIDE DEF l
  <2>4. /\ req[r] \in Asked /\ a \in Accounts /\ "spend" \in Pc
        /\ RequestSound(req[r], accounts[a], links, changed)
    BY <1>2, RequestKnown DEF Pc
  <2>5. p \in Asked
    BY <2>2, <2>4 DEF Asked
  <2>6. /\ p.pc = "spend" /\ p.account = a /\ p.kind = req[r].kind /\ p.seen = l
        /\ p.current = req[r].current /\ p.secret = req[r].secret
    BY <2>4 DEF Asked
  <2>7. RequestSound(p, accounts[p.account], links, changed)
    <3>. HIDE DEF p, a
    <3>. QED
      BY <1>2, <2>2, <2>3, <2>4, <2>6 DEF RequestSound, Spending
  <2>8. req' = [req EXCEPT ![r] = p]
    BY <1>2, <1>5
  <2>. HIDE DEF p
  <2>. QED
    BY <1>2, <1>3, <2>5, <2>6, <2>7, <2>8, QuietMove
<1>. QED
  BY <1>4, <1>5

LEMMA CountFailureSound ==
  ASSUME IInv, NEW r \in Requests, req[r].pc = "spend", CountFailure(r),
         UNCHANGED <<accounts, issued, clock, inbox, tokens, crashes, changed, welcomed>>
  PROVE  IInv'
<1>. DEFINE l == req[r].seen
            n == OneMore(req[r].fails)
<1>1. /\ links' = [links EXCEPT ![l] = [links[l] EXCEPT !.fails = n,
                                                        !.live = @ /\ ~Exhausted(n)]]
      /\ guesses' = [guesses EXCEPT ![l] = @ + 1] /\ req' = [req EXCEPT ![r] = Idle]
      /\ issued' = issued /\ recent' = recent /\ expired' = expired /\ inbox' = inbox
      /\ UNCHANGED <<accounts, tokens, crashes, changed, welcomed>>
  BY DEF CountFailure, End, clock
<1>2. l \in Links /\ n \in Nat
  BY RequestKnown DEF RequestSound, Spending, Asked, OneMore
<1>3. Exhausted(n) \in BOOLEAN
  BY <1>2, AccessAssumption DEF Exhausted
<1>4. /\ links \in [Links -> Link] /\ issued' \in Seq(Links) /\ recent' \subseteq Links
      /\ expired' \subseteq Links /\ inbox' \in [Emails -> SUBSET Links]
      /\ guesses \in [Links -> Nat]
  BY <1>1, TypesUnfolded DEF IInv
<1>. HIDE DEF l, n
<1>5. /\ links' \in [Links -> Link] /\ guesses' \in [Links -> Nat]
      /\ \A k \in Links : /\ links'[k].owner = links[k].owner
                          /\ links'[k].live => links[k].live
  <2>. DEFINE row == [links[l] EXCEPT !.fails = n, !.live = @ /\ ~Exhausted(n)]
  <2>1. row \in Link /\ row.owner = links[l].owner /\ (row.live => links[l].live)
    BY <1>2, <1>3, <1>4 DEF Link
  <2>. HIDE DEF row
  <2>2. links' = [links EXCEPT ![l] = row]
    BY <1>1 DEF row
  <2>3. guesses[l] + 1 \in Nat
    BY <1>2, <1>4
  <2>4. guesses' \in [Links -> Nat]
    BY <1>1, <1>4, <2>3
  <2>5. links' \in [Links -> Link] /\ links'[l] = row
        /\ \A k \in Links \ {l} : links'[k] = links[k]
    BY <1>2, <1>4, <2>1, <2>2
  <2>. QED
    BY <2>1, <2>4, <2>5
<1>6. LinksKept
  BY <1>5 DEF LinksKept
<1>7. \A k \in Links : links'[k].live =>
        links'[k].owner \in Accounts /\ \E i \in DOMAIN issued' : issued'[i] = k
  BY <1>1, <1>5 DEF IInv, LinkSound
<1>8. /\ Idle \in Asked /\ Idle.pc # "insert" /\ Idle.account = Nobody
      /\ RequestSound(Idle, accounts[Idle.account], links', changed)
  BY IdleSound
<1>. QED
  BY <1>1, <1>4, <1>5, <1>6, <1>7, <1>8, OneMoves

LEMMA SpendSound ==
  ASSUME IInv, NEW r \in Requests, SpendVerification(r) \/ SpendReset(r)
  PROVE  IInv'
<1>. DEFINE l == req[r].seen
            p == [req[r] EXCEPT !.pc = "apply"]
<1>1. /\ req[r].pc = "spend"
      /\ UNCHANGED <<accounts, issued, clock, inbox, tokens, crashes, changed, welcomed>>
      /\ \/ links' = Voided({l}) /\ End(r) /\ UNCHANGED guesses
         \/ CountFailure(r)
         \/ links' = Voided({l}) /\ req' = [req EXCEPT ![r] = p] /\ UNCHANGED guesses
  BY DEF SpendVerification, SpendReset, Spend
<1>2. CASE links' = Voided({l}) /\ End(r) /\ UNCHANGED guesses
  BY <1>1, <1>2, IdleSound, VoidingMove DEF End
<1>3. CASE CountFailure(r)
  BY <1>1, <1>3, CountFailureSound
<1>4. CASE links' = Voided({l}) /\ req' = [req EXCEPT ![r] = p] /\ UNCHANGED guesses
  <2>1. /\ req[r] \in Asked /\ "apply" \in Pc
        /\ RequestSound(req[r], accounts[req[r].account], links, changed)
    BY RequestKnown DEF Pc
  <2>2. p \in Asked
    BY <2>1 DEF Asked
  <2>3. /\ p.pc = "apply" /\ p.account = req[r].account /\ p.kind = req[r].kind /\ p.seen = l
        /\ p.current = req[r].current /\ p.secret = req[r].secret
    BY <2>1 DEF Asked
  <2>4. l \in Links /\ ~links'[l].live /\ links'[l].owner = links[l].owner
    <3>1. l \in Links
      BY <1>1, <2>1 DEF RequestSound, Spending
    <3>. HIDE DEF l
    <3>. QED
      BY <1>4, <3>1, VoidedSound
  <2>. HIDE DEF p, l
  <2>5. RequestSound(p, accounts[p.account], links', changed)
    BY <1>1, <2>1, <2>3, <2>4 DEF RequestSound, Spending, l
  <2>. QED
    BY <1>1, <1>4, <2>2, <2>3, <2>5, VoidingMove
<1>. QED
  BY <1>1, <1>2, <1>3, <1>4

-----------------------------------------------------------------------------
(***************************************************************************)
(* Steps that write the account                                            *)
(***************************************************************************)
LEMMA InsertSound ==
  ASSUME IInv, NEW r \in Requests, Insert(r)
  PROVE  IInv'
<1>. DEFINE a == req[r].account
            row == [NewAccount EXCEPT !.email = req[r].email, !.password = req[r].next,
                                      !.active = TRUE]
<1>1. /\ req[r].pc = "insert" /\ End(r)
      /\ UNCHANGED <<links, issued, clock, inbox, tokens, crashes, history>>
      /\ accounts' = [accounts EXCEPT ![a] = row] \/ UNCHANGED accounts
  BY DEF Insert
<1>2. CASE UNCHANGED accounts
  BY <1>1, <1>2, EndSound DEF tables
<1>3. CASE accounts' = [accounts EXCEPT ![a] = row]
  <2>1. /\ req[r] \in Asked /\ a \in Accounts /\ req[r].email \in Emails
        /\ accounts[a] = NewAccount
    BY <1>1, RequestKnown DEF RequestSound
  <2>2. NewAccount \in Account /\ ~NewAccount.verified /\ NewAccount.email # Gone
    BY AccessAssumption DEF NewAccount, Account
  <2>3. row \in Account /\ row.email = req[r].email /\ ~row.verified
    BY <2>1, <2>2 DEF Account, Asked
  <2>4. row.email \notin {NoEmail, Gone}
    BY <2>1, <2>3, AccessAssumption
  <2>. HIDE DEF row
  <2>5. req \in [Requests -> Asked] /\ req' = [req EXCEPT ![r] = Idle]
    BY <1>1, TypesUnfolded DEF End, IInv
  <2>6. /\ req' \in [Requests -> Asked] /\ req'[r] = Idle
        /\ \A s \in Requests \ {r} : req'[s] = req[s]
    BY <2>5, IdleSound
  <2>7. \A s \in Requests \ {r} : req'[s].account # a
    BY <1>1, <2>6 DEF IInv, OwnRow
  <2>. HIDE DEF a
  <2>8. \A s \in Requests :
          \/ req'[s] = [req[s] EXCEPT !.current = @ /\ req[s].account # a]
          \/ /\ req'[s] # Idle => req'[s].account = req[s].account /\ req'[s].pc # "insert"
             /\ RequestSound(req'[s], accounts'[req'[s].account], links', changed')
    <3>. TAKE s \in Requests
    <3>1. CASE s = r
      BY <3>1, <2>6, IdleSound
    <3>2. CASE s # r
      <4>1. req[s].account # a /\ req[s] \in Asked /\ req'[s] = req[s]
        BY <3>2, <2>5, <2>6, <2>7
      <4>2. req[s] = [req[s] EXCEPT !.current = @ /\ req[s].account # a]
        BY <4>1 DEF Asked
      <4>. QED
        BY <4>1, <4>2
    <3>. QED
      BY <3>1, <3>2
  <2>9. \A s \in Requests : req'[s].pc = "insert" => req'[s].account # a
    BY <2>6, <2>7, IdleSound
  <2>10. /\ links' = links /\ welcomed' = welcomed /\ changed' = changed
         /\ signedIn' = signedIn /\ kept' = kept
         /\ UNCHANGED <<issued, clock, inbox, crashes, guesses>>
    BY <1>1 DEF tokens, history
  <2>11. LinksKept /\ \A l \in Links : links'[l].live => links[l].live
    BY <2>10 DEF LinksKept
  <2>12. /\ links' \in [Links -> Link] /\ welcomed' \in [Accounts -> Nat]
         /\ changed' \in [Links -> Nat]
    BY <2>10, TypesUnfolded DEF IInv
  <2>13. welcomed'[a] = 0
    BY <2>1, <2>2, <2>10 DEF IInv, AccountSound
  <2>14. signedIn' \subseteq signedIn \cup {a} /\ kept' \subseteq kept \cup {a}
    BY <2>10
  <2>. QED
    BY <1>3, <2>1, <2>3, <2>4, <2>6, <2>8, <2>9, <2>10, <2>11, <2>12, <2>13, <2>14, AccountWritten
<1>. QED
  BY <1>1, <1>2, <1>3

\* A flush of request r, whose account has not been written since.
LEMMA FlushSound ==
  ASSUME IInv, NEW r \in Requests, NEW row \in Account, NEW q \in Asked, Flush(r, row, q),
         req[r].pc \notin {"idle", "insert"},
         q # Idle => q.account = req[r].account /\ q.pc # "insert",
         RequestSound(q, row, links', changed'),
         row.email # NoEmail,
         row.email = Gone => row.password = Scrambled /\ ~row.verified,
         welcomed' \in [Accounts -> Nat], welcomed'[req[r].account] \in {0, 1},
         row.email # Gone /\ ~row.verified => welcomed'[req[r].account] = 0,
         \A b \in Accounts \ {req[r].account} : welcomed'[b] = welcomed[b],
         changed' \in [Links -> Nat],
         \A l \in Links : \/ changed'[l] = changed[l]
                          \/ /\ links[l].owner = req[r].account /\ changed'[l] \in {0, 1}
                             /\ ~links[l].live,
         links' \in [Links -> Link], LinksKept, \A l \in Links : links'[l].live => links[l].live,
         signedIn' \subseteq signedIn \cup {req[r].account},
         kept' \subseteq kept \cup {req[r].account},
         UNCHANGED <<issued, clock, inbox, crashes, guesses>>
  PROVE  IInv'
<1>. DEFINE a == req[r].account
<1>1. a \in Accounts /\ accounts[a].email # NoEmail
  BY RequestKnown
<1>2. /\ accounts \in [Accounts -> Account] /\ req \in [Requests -> Asked]
      /\ accounts' = [accounts EXCEPT ![a] = row]
      /\ req' = [s \in Requests |-> IF s = r THEN q
                                    ELSE [req[s] EXCEPT !.current = @ /\ req[s].account # a]]
  BY TypesUnfolded DEF IInv, Flush, Overtaken
<1>. HIDE DEF a
<1>3. accounts'[a] = row
  BY <1>1, <1>2
<1>4. \A s \in Requests : [req[s] EXCEPT !.current = @ /\ req[s].account # a] \in Asked
  BY <1>2 DEF Asked
<1>5. req' \in [Requests -> Asked]
  BY <1>2, <1>4
<1>6. q = Idle => RequestSound(q, accounts'[q.account], links', changed')
  BY IdleSound
<1>7. q # Idle => RequestSound(q, accounts'[q.account], links', changed')
  BY <1>3 DEF a
<1>8. \A s \in Requests :
        \/ req'[s] = [req[s] EXCEPT !.current = @ /\ req[s].account # a]
        \/ /\ req'[s] # Idle => req'[s].account = req[s].account /\ req'[s].pc # "insert"
           /\ RequestSound(req'[s], accounts'[req'[s].account], links', changed')
  <2>. TAKE s \in Requests
  <2>1. CASE s # r
    BY <2>1, <1>2
  <2>2. CASE s = r
    <3>1. req'[s] = q
      BY <2>2, <1>2
    <3>2. RequestSound(q, accounts'[q.account], links', changed')
      BY <1>6, <1>7
    <3>3. q # Idle => q.account = req[s].account /\ q.pc # "insert"
      BY <2>2
    <3>. QED
      BY <3>1, <3>2, <3>3
  <2>. QED
    BY <2>1, <2>2
<1>9. \A s \in Requests : req'[s].pc = "insert" => req'[s].account # a
  <2>. SUFFICES ASSUME NEW s \in Requests, req'[s].pc = "insert" PROVE req'[s].account # a
    OBVIOUS
  <2>1. CASE s = r
    BY <2>1, <1>2, IdleSound
  <2>2. CASE s # r
    <3>1. req[s] \in Asked /\ req'[s] = [req[s] EXCEPT !.current = @ /\ req[s].account # a]
      BY <2>2, <1>2
    <3>2. req[s].pc = "insert" /\ req'[s].account = req[s].account
      BY <3>1 DEF Asked
    <3>3. accounts[req[s].account] = NewAccount
      BY <3>2, RequestKnown DEF RequestSound
    <3>. QED
      BY <3>2, <3>3, <1>1 DEF NewAccount
  <2>. QED
    BY <2>1, <2>2
<1>. QED
  BY <1>1, <1>2, <1>5, <1>8, <1>9, AccountWritten DEF a

\* A flush that changes no link and spends none.
LEMMA PlainFlushSound ==
  ASSUME IInv, NEW r \in Requests, NEW row \in Account, NEW q \in Asked, Flush(r, row, q),
         req[r].pc \notin {"idle", "insert"},
         q # Idle => q.account = req[r].account /\ q.pc # "insert",
         RequestSound(q, row, links, changed),
         row.email # NoEmail,
         row.email = Gone => row.password = Scrambled /\ ~row.verified,
         row.email # Gone /\ ~row.verified => welcomed[req[r].account] = 0,
         signedIn' \subseteq signedIn \cup {req[r].account},
         kept' \subseteq kept \cup {req[r].account},
         UNCHANGED <<links, issued, clock, inbox, crashes, history>>
  PROVE  IInv'
<1>1. /\ links' = links /\ changed' = changed /\ welcomed' = welcomed
      /\ UNCHANGED <<issued, clock, inbox, crashes, guesses>>
  BY DEF history
<1>2. /\ links' \in [Links -> Link] /\ changed' \in [Links -> Nat]
      /\ welcomed' \in [Accounts -> Nat]
  BY <1>1, TypesUnfolded DEF IInv
<1>3. LinksKept /\ \A l \in Links : links'[l].live => links[l].live
  BY <1>1 DEF LinksKept
<1>4. req[r].account \in Accounts /\ welcomed'[req[r].account] \in {0, 1}
  BY <1>1, RequestKnown DEF IInv, AccountSound
<1>5. RequestSound(q, row, links', changed')
  BY <1>1
<1>. QED
  BY <1>1, <1>2, <1>3, <1>4, <1>5, FlushSound

LEMMA AccountKnown ==
  ASSUME IInv, NEW r \in Requests, req[r].pc \notin {"idle", "insert"}
  PROVE  /\ req[r].account \in Accounts /\ AccountSound(req[r].account)
         /\ accounts[req[r].account] \in Account
         /\ accounts[req[r].account].email # NoEmail
  BY RequestKnown, TypesUnfolded DEF IInv

LEMMA ApplyVerificationSound ==
  ASSUME IInv, NEW r \in Requests, ApplyVerification(r)
  PROVE  IInv'
<1>. DEFINE a == req[r].account
            row == [accounts[a] EXCEPT !.verified = TRUE]
<1>1. /\ req[r].pc = "apply" /\ req[r].kind = "verify" /\ Flush(r, row, Idle)
      /\ welcomed' = [welcomed EXCEPT ![a] = @ + 1]
      /\ UNCHANGED <<links, issued, clock, inbox, tokens, crashes, changed, guesses>>
  BY DEF ApplyVerification
<1>2. a \in Accounts /\ accounts[a] \in Account /\ accounts[a].email \notin {NoEmail, Gone}
      /\ welcomed[a] = 0
  BY <1>1, RequestKnown, AccountKnown DEF Flush, Current, RequestSound, AccountSound
<1>3. row \in Account /\ row.email = accounts[a].email /\ row.verified
  BY <1>2 DEF Account
<1>4. welcomed \in [Accounts -> Nat] /\ changed \in [Links -> Nat] /\ links \in [Links -> Link]
  BY TypesUnfolded DEF IInv
<1>. HIDE DEF row, a
<1>5. /\ welcomed' \in [Accounts -> Nat] /\ welcomed'[a] = 1
      /\ \A b \in Accounts \ {a} : welcomed'[b] = welcomed[b]
  BY <1>1, <1>2, <1>4
<1>6. /\ links' = links /\ changed' = changed /\ signedIn' = signedIn /\ kept' = kept
      /\ UNCHANGED <<issued, clock, inbox, crashes, guesses>>
  BY <1>1 DEF tokens
<1>11. req[r].pc \notin {"idle", "insert"}
  BY <1>1
<1>7. LinksKept /\ \A l \in Links : links'[l].live => links[l].live
  BY <1>6 DEF LinksKept
<1>8. RequestSound(Idle, row, links', changed') /\ Idle \in Asked
  BY IdleSound
<1>9. row.email # NoEmail /\ row.email # Gone
  BY <1>2, <1>3
<1>10. /\ \A l \in Links : changed'[l] = changed[l]
       /\ signedIn' \subseteq signedIn \cup {a} /\ kept' \subseteq kept \cup {a}
       /\ changed' \in [Links -> Nat] /\ links' \in [Links -> Link]
       /\ welcomed'[a] \in {0, 1}
  BY <1>4, <1>5, <1>6
<1>. QED
  BY <1>1, <1>3, <1>5, <1>6, <1>7, <1>8, <1>9, <1>10, <1>11, FlushSound DEF a

LEMMA ApplyResetSound ==
  ASSUME IInv, NEW r \in Requests, ApplyReset(r)
  PROVE  IInv'
<1>. DEFINE a == req[r].account
            l == req[r].seen
            row == [accounts[a] EXCEPT !.password = req[r].next]
<1>1. /\ req[r].pc = "apply" /\ req[r].kind = "reset" /\ Flush(r, row, Idle)
      /\ changed' = [changed EXCEPT ![l] = @ + 1]
      /\ UNCHANGED <<links, issued, clock, inbox, tokens, crashes, welcomed, guesses>>
  BY DEF ApplyReset
<1>2. /\ a \in Accounts /\ AccountSound(a) /\ accounts[a] \in Account
      /\ accounts[a].email \notin {NoEmail, Gone} /\ req[r] \in Asked
      /\ l \in Links /\ links[l].owner = a /\ ~links[l].live /\ changed[l] = 0
  BY <1>1, RequestKnown, AccountKnown DEF Flush, Current, RequestSound, Spending
<1>3. /\ row \in Account /\ row.email = accounts[a].email /\ row.verified = accounts[a].verified
  BY <1>2 DEF Account, Asked
<1>4. welcomed \in [Accounts -> Nat] /\ changed \in [Links -> Nat] /\ links \in [Links -> Link]
  BY TypesUnfolded DEF IInv
<1>. HIDE DEF row, a, l
<1>5. /\ changed' \in [Links -> Nat] /\ changed'[l] = 1
      /\ \A k \in Links \ {l} : changed'[k] = changed[k]
  BY <1>1, <1>2, <1>4
<1>6. /\ links' = links /\ welcomed' = welcomed /\ signedIn' = signedIn /\ kept' = kept
      /\ UNCHANGED <<issued, clock, inbox, crashes, guesses>>
  BY <1>1 DEF tokens
<1>12. req[r].pc \notin {"idle", "insert"}
  BY <1>1
<1>7. LinksKept /\ \A k \in Links : links'[k].live => links[k].live
  BY <1>6 DEF LinksKept
<1>8. \A k \in Links : \/ changed'[k] = changed[k]
                       \/ links[k].owner = a /\ changed'[k] \in {0, 1} /\ ~links[k].live
  BY <1>2, <1>5
<1>9. RequestSound(Idle, row, links', changed') /\ Idle \in Asked
  BY IdleSound
<1>10. welcomed'[a] \in {0, 1} /\ (row.email # Gone /\ ~row.verified => welcomed'[a] = 0)
  BY <1>2, <1>3, <1>6 DEF AccountSound
<1>11. /\ row.email # NoEmail /\ row.email # Gone
       /\ signedIn' \subseteq signedIn \cup {a} /\ kept' \subseteq kept \cup {a}
       /\ welcomed' \in [Accounts -> Nat] /\ links' \in [Links -> Link]
       /\ \A b \in Accounts \ {a} : welcomed'[b] = welcomed[b]
  BY <1>2, <1>3, <1>4, <1>6
<1>. QED
  BY <1>1, <1>3, <1>5, <1>6, <1>7, <1>8, <1>9, <1>10, <1>11, <1>12, FlushSound DEF a

LEMMA ApplyChangeSound ==
  ASSUME IInv, NEW r \in Requests, ApplyChange(r)
  PROVE  IInv'
<1>. DEFINE a == req[r].account
            row == [accounts[a] EXCEPT !.password = req[r].next]
<1>1. /\ req[r].pc = "apply" /\ req[r].kind = "change" /\ Flush(r, row, Idle)
      /\ UNCHANGED <<links, issued, clock, inbox, tokens, crashes, history>>
  BY DEF ApplyChange
<1>2. /\ AccountSound(a) /\ accounts[a] \in Account /\ req[r] \in Asked
      /\ accounts[a].email \notin {NoEmail, Gone}
  BY <1>1, RequestKnown, AccountKnown DEF Flush, Current, RequestSound
<1>3. row \in Account /\ row.email = accounts[a].email /\ row.verified = accounts[a].verified
  BY <1>2 DEF Account, Asked
<1>4. RequestSound(Idle, row, links, changed) /\ Idle \in Asked
  BY IdleSound
<1>5. signedIn' \subseteq signedIn \cup {a} /\ kept' \subseteq kept \cup {a}
  <2>1. signedIn' = signedIn /\ kept' = kept
    BY <1>1 DEF tokens
  <2>. QED
    BY <2>1
<1>8. req[r].pc \notin {"idle", "insert"}
  BY <1>1
<1>9. UNCHANGED <<links, issued, clock, inbox, crashes, history>>
  BY <1>1
<1>6. row.email # Gone /\ ~row.verified => welcomed[a] = 0
  BY <1>2, <1>3 DEF AccountSound
<1>7. row.email # NoEmail /\ row.email # Gone
  BY <1>2, <1>3
<1>. HIDE DEF row
<1>. QED
  BY <1>1, <1>3, <1>4, <1>5, <1>6, <1>7, <1>8, <1>9, PlainFlushSound

\* What writes nothing but the version, and may go on to mail a link.
LEMMA TouchSound ==
  ASSUME IInv, NEW r \in Requests, NEW q \in Asked, req[r].pc \notin {"idle", "insert"},
         Flush(r, accounts[req[r].account], q),
         q # Idle => q.account = req[r].account /\ q.pc # "insert",
         RequestSound(q, accounts[req[r].account], links, changed),
         signedIn' \subseteq signedIn \cup {req[r].account},
         kept' \subseteq kept \cup {req[r].account},
         UNCHANGED <<links, issued, clock, inbox, crashes, history>>
  PROVE  IInv'
  BY AccountKnown, PlainFlushSound DEF AccountSound

LEMMA ApplyProfileSound ==
  ASSUME IInv, NEW r \in Requests, ApplyProfile(r)
  PROVE  IInv'
<1>. DEFINE row == accounts[req[r].account]
            p == [req[r] EXCEPT !.pc = "void"]
<1>1. /\ req[r].pc = "apply"
      /\ Flush(r, row, Idle) \/ Flush(r, row, p) \/ (End(r) /\ UNCHANGED accounts)
      /\ UNCHANGED <<links, issued, clock, inbox, tokens, crashes, history>>
  BY DEF ApplyProfile
<1>2. signedIn' = signedIn /\ kept' = kept
  BY <1>1 DEF tokens
<1>3. CASE Flush(r, row, Idle)
  BY <1>1, <1>2, <1>3, IdleSound, TouchSound
<1>4. CASE Flush(r, row, p)
  <2>1. "void" \in Pc
    BY DEF Pc
  <2>2. p \in Asked /\ p.account = req[r].account /\ p.pc = "void"
        /\ RequestSound(p, row, links, changed)
    BY <1>1, <2>1, PcMoved
  <2>. HIDE DEF p
  <2>. QED
    BY <1>1, <1>2, <1>4, <2>2, TouchSound
<1>5. CASE End(r) /\ UNCHANGED accounts
  BY <1>1, <1>5, EndSound DEF tables
<1>. QED
  BY <1>1, <1>3, <1>4, <1>5

LEMMA GrantSound ==
  ASSUME IInv, NEW r \in Requests, GrantLogin(r) \/ GrantRefresh(r)
  PROVE  IInv'
<1>1. /\ req[r].pc = "grant" /\ Flush(r, accounts[req[r].account], Idle)
      /\ signedIn' = signedIn \cup {req[r].account}
      /\ kept' \subseteq kept \cup {req[r].account}
      /\ UNCHANGED <<links, issued, clock, inbox, crashes, history>>
  BY DEF GrantLogin, GrantRefresh, Grant
<1>. QED
  BY <1>1, IdleSound, TouchSound

LEMMA AnonymousTyped ==
  /\ Anonymous \in Account /\ Anonymous.email = Gone /\ Anonymous.email # NoEmail
  /\ Anonymous.password = Scrambled /\ ~Anonymous.verified
<1>1. NewAccount \in Account /\ NewAccount.password = Scrambled /\ ~NewAccount.verified
  BY DEF NewAccount, Account
<1>. QED
  BY <1>1, AccessAssumption DEF Anonymous, Account

\* What is deleted stays so; only the row and its links are written.
LEMMA DeletionSound ==
  ASSUME IInv, NEW r \in Requests, NEW q \in Asked, NEW S, req[r].pc \notin {"idle", "insert"},
         Flush(r, Anonymous, q), links' = Voided(S),
         q # Idle => q.account = req[r].account /\ q.pc # "insert" /\ q.kind = "delete"
                       /\ q.pc \in {"scrubResets", "scrubbed"},
         UNCHANGED <<issued, clock, inbox, tokens, crashes, history>>
  PROVE  IInv'
<1>1. /\ Anonymous \in Account /\ Anonymous.email = Gone /\ Anonymous.email # NoEmail
      /\ Anonymous.password = Scrambled /\ ~Anonymous.verified
  BY AnonymousTyped
<1>2. RequestSound(q, Anonymous, links', changed')
  <2>1. CASE q = Idle
    BY <2>1, IdleSound
  <2>2. CASE q # Idle
    BY <2>2, <1>1, AccountKnown DEF RequestSound, Spending
  <2>. QED
    BY <2>1, <2>2
<1>3. /\ changed' = changed /\ welcomed' = welcomed /\ signedIn' = signedIn /\ kept' = kept
      /\ UNCHANGED <<issued, clock, inbox, crashes, guesses>>
  BY DEF history, tokens
<1>4. changed' \in [Links -> Nat] /\ welcomed' \in [Accounts -> Nat]
  BY <1>3, TypesUnfolded DEF IInv
<1>5. welcomed'[req[r].account] \in {0, 1}
  BY <1>3, AccountKnown DEF AccountSound
<1>6. links' \in [Links -> Link] /\ LinksKept /\ \A l \in Links : links'[l].live => links[l].live
  BY VoidedSound
<1>7. /\ signedIn' \subseteq signedIn \cup {req[r].account}
      /\ kept' \subseteq kept \cup {req[r].account}
  BY <1>3
<1>. QED
  BY <1>1, <1>2, <1>3, <1>4, <1>5, <1>6, <1>7, FlushSound

LEMMA ScrubSound ==
  ASSUME IInv, NEW r \in Requests, ScrubVerifications(r) \/ ScrubResets(r)
  PROVE  IInv'
<1>1. PICK pc, S :
        /\ pc \in {"scrubResets", "scrubbed"} /\ req[r].pc \in {"scrub", "scrubResets"}
        /\ \/ req' = [req EXCEPT ![r] = [req[r] EXCEPT !.pc = pc]] /\ UNCHANGED <<accounts, links>>
           \/ Flush(r, Anonymous, [req[r] EXCEPT !.pc = pc]) /\ links' = Voided(S)
        /\ UNCHANGED <<issued, clock, inbox, tokens, crashes, history>>
  BY DEF ScrubVerifications, ScrubResets, ScrubTable
<1>. DEFINE p == [req[r] EXCEPT !.pc = pc]
<1>2. pc \in Pc /\ pc \notin {"idle", "insert", "mail", "read", "spend", "apply", "grant"}
  BY <1>1 DEF Pc
<1>3. req[r].pc \notin {"idle", "insert"} /\ req[r].kind = "delete"
  BY <1>1, RequestKnown DEF RequestSound
<1>4. /\ p \in Asked /\ p.account = req[r].account /\ p.pc = pc /\ p.kind = "delete"
      /\ RequestSound(p, accounts[p.account], links, changed)
  BY <1>2, <1>3, PcMoved
<1>. HIDE DEF p
<1>5. CASE req' = [req EXCEPT ![r] = p] /\ UNCHANGED <<accounts, links>>
  <2>1. /\ UNCHANGED <<tables, clock, tokens, crashes, history>>
        /\ inbox' \in [Emails -> SUBSET Links]
    BY <1>1, <1>5, TypesUnfolded DEF IInv, tables
  <2>2. p.pc # "insert"
    BY <1>2, <1>4
  <2>. QED
    BY <1>4, <1>5, <2>1, <2>2, QuietMove
<1>6. CASE Flush(r, Anonymous, p) /\ links' = Voided(S)
  BY <1>1, <1>2, <1>3, <1>4, <1>6, DeletionSound
<1>. QED
  BY <1>1, <1>5, <1>6 DEF p

LEMMA ApplyDeletionSound ==
  ASSUME IInv, NEW r \in Requests, ApplyDeletion(r)
  PROVE  IInv'
<1>1. /\ req[r].pc = "scrubbed" /\ Flush(r, Anonymous, Idle)
      /\ UNCHANGED <<links, issued, clock, inbox, tokens, crashes, history>>
  BY DEF ApplyDeletion
<1>2. Voided({}) = links
  <2>1. links \in [Links -> Link]
    BY TypesUnfolded DEF IInv
  <2>2. \A l \in Links : [links[l] EXCEPT !.live = @ /\ l \notin {}] = links[l]
    BY <2>1 DEF Link
  <2>. QED
    BY <2>1, <2>2 DEF Voided
<1>3. links' = Voided({}) /\ Idle \in Asked
  BY <1>1, <1>2, IdleSound
<1>4. req[r].pc \notin {"idle", "insert"}
  BY <1>1
<1>5. UNCHANGED <<issued, clock, inbox, tokens, crashes, history>>
  BY <1>1
<1>. QED
  BY <1>1, <1>3, <1>4, <1>5, DeletionSound

-----------------------------------------------------------------------------
(***************************************************************************)
(* What else happens                                                       *)
(***************************************************************************)
LEMMA WriteElsewhereSound ==
  ASSUME IInv, NEW a \in Accounts, WriteElsewhere(a)
  PROVE  IInv'
<1>1. PICK stripe \in BOOLEAN, active \in BOOLEAN :
        accounts' = [accounts EXCEPT ![a] = [@ EXCEPT !.stripe = stripe, !.active = active]]
  BY DEF WriteElsewhere
<1>. DEFINE row == [accounts[a] EXCEPT !.stripe = stripe, !.active = active]
<1>2. /\ accounts \in [Accounts -> Account] /\ req \in [Requests -> Asked]
      /\ welcomed \in [Accounts -> Nat] /\ changed \in [Links -> Nat] /\ links \in [Links -> Link]
  BY TypesUnfolded DEF IInv
<1>3. /\ row \in Account /\ row.email = accounts[a].email
      /\ row.verified = accounts[a].verified /\ row.password = accounts[a].password
  BY <1>2 DEF Account
<1>4. accounts' = [accounts EXCEPT ![a] = row]
  BY <1>1
<1>. HIDE DEF row
<1>5. /\ accounts[a].email # NoEmail
      /\ req' = [s \in Requests |-> [req[s] EXCEPT !.current = @ /\ req[s].account # a]]
      /\ links' = links /\ changed' = changed /\ welcomed' = welcomed
      /\ signedIn' = signedIn /\ kept' = kept
      /\ UNCHANGED <<issued, clock, inbox, crashes, guesses>>
  BY DEF WriteElsewhere, tokens, history
<1>6. \A s \in Requests : /\ req'[s] = [req[s] EXCEPT !.current = @ /\ req[s].account # a]
                          /\ req'[s] \in Asked /\ req'[s].pc = req[s].pc
                          /\ req'[s].account = req[s].account
  <2>1. \A s \in Requests : /\ [req[s] EXCEPT !.current = @ /\ req[s].account # a] \in Asked
                            /\ [req[s] EXCEPT !.current = @ /\ req[s].account # a].pc = req[s].pc
                            /\ [req[s] EXCEPT !.current = @ /\ req[s].account # a].account
                                 = req[s].account
    BY <1>2 DEF Asked
  <2>. QED
    BY <1>5, <2>1
<1>7. req' \in [Requests -> Asked]
  BY <1>5, <1>6
<1>8. \A s \in Requests : req'[s].pc = "insert" => req'[s].account # a
  BY <1>5, <1>6, RequestKnown DEF RequestSound, NewAccount
<1>9. /\ row.email # NoEmail
      /\ row.email = Gone => row.password = Scrambled /\ ~row.verified
      /\ welcomed'[a] \in {0, 1}
      /\ row.email # Gone /\ ~row.verified => welcomed'[a] = 0
  BY <1>3, <1>5 DEF IInv, AccountSound
<1>10. LinksKept /\ \A l \in Links : links'[l].live => links[l].live
  BY <1>5 DEF LinksKept
<1>11. /\ welcomed' \in [Accounts -> Nat] /\ changed' \in [Links -> Nat]
       /\ links' \in [Links -> Link]
       /\ \A b \in Accounts \ {a} : welcomed'[b] = welcomed[b]
       /\ \A l \in Links : changed'[l] = changed[l]
       /\ signedIn' \subseteq signedIn \cup {a} /\ kept' \subseteq kept \cup {a}
  BY <1>2, <1>5
<1>. QED
  BY <1>3, <1>4, <1>5, <1>6, <1>7, <1>8, <1>9, <1>10, <1>11, AccountWritten

LEMMA TimeSound ==
  ASSUME IInv, NEW l \in Links, Cooldown(l) \/ Expire(l)
  PROVE  IInv'
<1>1. /\ accounts' = accounts /\ links' = links /\ issued' = issued /\ inbox' = inbox
      /\ recent' \subseteq Links /\ expired' \subseteq Links
      /\ signedIn' = signedIn /\ kept' = kept /\ req' = req
      /\ crashes' = crashes /\ changed' = changed /\ welcomed' = welcomed /\ guesses' = guesses
  BY TypesUnfolded DEF IInv, Cooldown, Expire, tables, tokens, history
<1>2. TypeOK'
  BY <1>1 DEF IInv, TypeOK
<1>. QED
  BY <1>1, <1>2 DEF IInv, OwnRow, AccountSound, LinkSound

LEMMA CrashSound ==
  ASSUME IInv, Crash
  PROVE  IInv'
<1>1. /\ accounts' = accounts /\ links' = links /\ issued' = issued /\ inbox' = inbox
      /\ recent' = recent /\ expired' = expired /\ signedIn' = signedIn /\ kept' = kept
      /\ crashes' = crashes + 1
      /\ changed' = changed /\ welcomed' = welcomed /\ guesses' = guesses
      /\ req' = [r \in Requests |-> Idle]
  BY DEF Crash, tables, clock, tokens, history
<1>2. req' \in [Requests -> Asked]
  BY <1>1, IdleSound
<1>3. TypeOK'
  BY <1>1, <1>2 DEF IInv, TypeOK, Asked, Pc, Kind
<1>4. \A r \in Requests : req'[r] = Idle
  BY <1>1
<1>5. \A r \in Requests : RequestSound(req'[r], accounts'[req'[r].account], links', changed')
  BY <1>4, IdleSound
<1>6. OwnRow'
  BY <1>4, IdleSound DEF OwnRow
<1>. QED
  BY <1>1, <1>3, <1>5, <1>6 DEF IInv, AccountSound, LinkSound

-----------------------------------------------------------------------------
(***************************************************************************)
(* The specification                                                       *)
(***************************************************************************)
LEMMA InitSound == Init => IInv
<1>. SUFFICES ASSUME Init PROVE IInv
  OBVIOUS
<1>1. /\ NewAccount \in Account /\ NewAccount.email = NoEmail /\ NewLink \in Link
      /\ NewLink.live = FALSE
  BY DEF NewAccount, NewLink, Account, Link
<1>2. /\ accounts \in [Accounts -> Account] /\ \A a \in Accounts : accounts[a] = NewAccount
      /\ links \in [Links -> Link] /\ \A l \in Links : links[l] = NewLink
  BY <1>1 DEF Init
<1>3. req \in [Requests -> Asked] /\ \A r \in Requests : req[r] = Idle
  BY IdleSound DEF Init
<1>4. /\ issued \in Seq(Links) /\ recent \subseteq Links /\ expired \subseteq Links
      /\ inbox \in [Emails -> SUBSET Links] /\ signedIn = {} /\ kept = {}
      /\ crashes \in Nat /\ changed \in [Links -> Nat] /\ guesses \in [Links -> Nat]
      /\ welcomed \in [Accounts -> Nat]
      /\ \A l \in Links : changed[l] = 0
      /\ \A a \in Accounts : welcomed[a] = 0
  BY DEF Init
<1>5. TypeOK
  BY <1>2, <1>3, <1>4, TypesUnfolded
<1>6. \A r \in Requests : RequestSound(req[r], accounts[req[r].account], links, changed)
  BY <1>3, IdleSound
<1>7. OwnRow
  BY <1>3, IdleSound DEF OwnRow
<1>8. \A a \in Accounts : AccountSound(a)
  BY <1>1, <1>2, <1>4, AccessAssumption DEF AccountSound
<1>9. \A l \in Links : LinkSound(l)
  BY <1>1, <1>2, <1>4 DEF LinkSound
<1>. QED
  BY <1>5, <1>6, <1>7, <1>8, <1>9 DEF IInv

LEMMA NextSound == IInv /\ [Next]_vars => IInv'
<1>. SUFFICES ASSUME IInv, [Next]_vars PROVE IInv'
  OBVIOUS
<1>1. CASE Event
  BY <1>1, WriteElsewhereSound, TimeSound, CrashSound DEF Event
<1>2. ASSUME NEW r \in Requests, Request(r) PROVE IInv'
  BY <1>2, SignupSound, MailRequestsSound, LinkRequestsSound, LoginSound,
     TokenRequestsSound, ChangePasswordSound DEF Request
<1>3. ASSUME NEW r \in Requests, Step(r) PROVE IInv'
  <2>1. CASE Insert(r) \/ Cool(r) \/ VoidVerifications(r) \/ VoidResets(r)
    BY <2>1, InsertSound, CoolSound, VoidSound
  <2>2. CASE \/ IssueVerification(r) \/ IssueReset(r)
             \/ MailVerification(r) \/ MailReset(r)
    BY <2>2, IssueSound, MailSound
  <2>3. CASE \/ ReadVerification(r) \/ ReadReset(r)
             \/ SpendVerification(r) \/ SpendReset(r)
    BY <2>3, ReadSound, SpendSound
  <2>4. CASE ApplyVerification(r) \/ ApplyReset(r) \/ ApplyChange(r) \/ ApplyProfile(r)
    BY <2>4, ApplyVerificationSound, ApplyResetSound, ApplyChangeSound, ApplyProfileSound
  <2>5. CASE GrantLogin(r) \/ GrantRefresh(r)
    BY <2>5, GrantSound
  <2>6. CASE ScrubVerifications(r) \/ ScrubResets(r) \/ ApplyDeletion(r)
    BY <2>6, ScrubSound, ApplyDeletionSound
  <2>7. CASE Conflict(r)
    BY <2>7, EndSound DEF Conflict
  <2>. QED
    BY <1>3, <2>1, <2>2, <2>3, <2>4, <2>5, <2>6, <2>7 DEF Step
<1>4. CASE UNCHANGED vars
  <2>1. /\ accounts' = accounts /\ links' = links /\ issued' = issued /\ inbox' = inbox
        /\ recent' = recent /\ expired' = expired /\ signedIn' = signedIn /\ kept' = kept
        /\ req' = req /\ crashes' = crashes
        /\ changed' = changed /\ welcomed' = welcomed /\ guesses' = guesses
    BY <1>4 DEF vars, tables, clock, tokens, history
  <2>2. TypeOK'
    BY <2>1 DEF IInv, TypeOK
  <2>. QED
    BY <2>1, <2>2 DEF IInv, OwnRow, AccountSound, LinkSound
<1>. QED
  BY <1>1, <1>2, <1>3, <1>4 DEF Next

LEMMA Inductive == Spec => []IInv
  BY InitSound, NextSound, PTL DEF Spec

\* Accounts, links, tokens and requests keep the shapes of their tables, whatever
\* requests interleave, flushes fail and restarts come.
THEOREM TypeCorrect == Spec => []TypeOK
<1>1. IInv => TypeOK
  BY DEF IInv
<1>. QED
  BY <1>1, Inductive, PTL

\* A reset link sets one password and an account is welcomed once, however many
\* requests post the same link at once.
THEOREM LinksWorkOnceAlways == Spec => []LinksWorkOnce
<1>1. IInv => LinksWorkOnce
  BY DEF IInv, LinkSound, AccountSound, LinksWorkOnce, Links
<1>. QED
  BY <1>1, Inductive, PTL

\* A request that loaded an account before it was deleted never gives it a
\* password or a verified address back.
THEOREM DeletedStaysDeleted == Spec => []DeletedForGood
<1>1. IInv => DeletedForGood
  BY DEF IInv, AccountSound, DeletedForGood
<1>. QED
  BY <1>1, Inductive, PTL

\* Tokens are handed out to active accounts and, at a login, for the password the
\* account has at that moment; a changed password replaces the one that was typed.
THEOREM PasswordsDecideAlways == Spec => PasswordsDecide
<1>1. ASSUME IInv, NEW r \in Requests
      PROVE  LET row == accounts[req[r].account]
             IN  /\ GrantLogin(r) \/ GrantRefresh(r) => row.active
                 /\ GrantLogin(r) /\ req[r].kind = "login" => row.password = req[r].secret
                 /\ ApplyChange(r) => row.password = req[r].secret
  <2>1. RequestSound(req[r], accounts[req[r].account], links, changed)
    BY <1>1 DEF IInv
  <2>2. ASSUME GrantLogin(r) \/ GrantRefresh(r)
        PROVE  req[r].pc = "grant" /\ req[r].current
    BY <2>2 DEF GrantLogin, GrantRefresh, Grant, Flush, Current
  <2>3. ASSUME ApplyChange(r)
        PROVE  req[r].kind = "change" /\ req[r].current
    BY <2>3 DEF ApplyChange, Flush, Current
  <2>. QED
    BY <2>1, <2>2, <2>3 DEF RequestSound
<1>2. IInv /\ [Next]_vars =>
        [\A r \in Requests :
           LET row == accounts[req[r].account]
           IN  /\ GrantLogin(r) \/ GrantRefresh(r) => row.active
               /\ GrantLogin(r) /\ req[r].kind = "login" => row.password = req[r].secret
               /\ ApplyChange(r) => row.password = req[r].secret]_vars
  BY <1>1
<1>. QED
  BY <1>2, Inductive, PTL DEF PasswordsDecide, Spec

-----------------------------------------------------------------------------
(***************************************************************************)
(* One request at a time                                                   *)
(***************************************************************************)
TableOf(l) == IF l \in VerifyLinks THEN VerifyLinks ELSE ResetLinks

\* The table of the links that q is about.
Asks(q) == IF q.kind \in {"forgot", "reset"} THEN ResetLinks ELSE VerifyLinks

\* A link is issued when those before it are dead, and the link that is compared
\* with the one posted is live and as it was read; `lnk' are the links.
RequestAlone(q, lnk) ==
  /\ q.pc = "issue" => \A l \in Asks(q) : lnk[l].owner = q.account => ~lnk[l].live
  /\ q.pc = "spend" => q.seen \in Links /\ lnk[q.seen].live /\ q.fails = lnk[q.seen].fails

Alike(l, k, lnk) == k \in TableOf(l) /\ lnk[k].owner = lnk[l].owner

\* No link of the account and table of l was issued after it; `iss' are those
\* that were issued.
NothingAfter(l, lnk, iss) ==
  \E i \in DOMAIN iss : iss[i] = l /\ \A j \in i + 1..Len(iss) : ~Alike(l, iss[j], lnk)

\* `gss' are the wrong guesses.
LinkAlone(l, lnk, iss, gss) ==
  /\ gss[l] = lnk[l].fails /\ gss[l] <= MaxAttempts
  /\ lnk[l].live => lnk[l].fails < MaxAttempts /\ NothingAfter(l, lnk, iss)

Serial ==
  /\ ~Overlap
  /\ \A r \in Requests : RequestAlone(req[r], links)
  /\ \A l \in Links : LinkAlone(l, links, issued, guesses)

WatchedInv == IInv /\ (~overlapped => Serial)

\* A step that leaves the tables of links alone.
LEMMA LinksLeft ==
  ASSUME Serial, UNCHANGED <<links, issued, guesses>>, ~Overlap',
         \A s \in Requests :
           req'[s].pc \notin {"issue", "spend"} \/ RequestAlone(req'[s], links)
  PROVE  Serial'
<1>1. \A s \in Requests : RequestAlone(req'[s], links)
  BY DEF RequestAlone
<1>. QED
  BY <1>1 DEF Serial

\* A request that takes a step finds all others at rest, where they stay.
LEMMA OthersRest ==
  ASSUME IInv, Serial, NEW r \in Requests, req[r].pc # "idle"
  PROVE  /\ \A s \in Requests \ {r} : req[s].pc = "idle"
         /\ \A q, a : req' = [req EXCEPT ![r] = q] \/ req' = Overtaken(r, q, a) =>
              req'[r] = q /\ \A s \in Requests \ {r} : req'[s].pc = "idle"
<1>1. req[r] # Idle
  BY IdleSound
<1>2. ASSUME NEW s \in Requests \ {r} PROVE req[s] = Idle
  BY <1>1 DEF Serial, Overlap, Busy
<1>3. \A s \in Requests \ {r} : req[s].pc = "idle"
  BY <1>2, IdleSound
<1>4. req \in [Requests -> Asked]
  BY TypesUnfolded DEF IInv
<1>5. ASSUME NEW q, NEW a, req' = Overtaken(r, q, a)
      PROVE  req'[r] = q /\ \A s \in Requests \ {r} : req'[s].pc = "idle"
  <2>1. ASSUME NEW s \in Requests \ {r} PROVE req'[s].pc = "idle"
    <3>1. req'[s] = [req[s] EXCEPT !.current = @ /\ req[s].account # a]
      BY <1>5 DEF Overtaken
    <3>. QED
      BY <1>3, <1>4, <3>1 DEF Asked
  <2>. QED
    BY <1>5, <2>1 DEF Overtaken
<1>. QED
  BY <1>3, <1>4, <1>5

\* A step of request r, which goes on as q, on the tables of links.
LEMMA OneGoesOn ==
  ASSUME IInv, Serial, NEW r \in Requests, NEW q, NEW a, req[r].pc # "idle", ~Overlap',
         req' = [req EXCEPT ![r] = q] \/ req' = Overtaken(r, q, a),
         RequestAlone(q, links'),
         \A l \in Links : LinkAlone(l, links', issued', guesses')
  PROVE  Serial'
<1>1. req'[r] = q /\ \A s \in Requests \ {r} : req'[s].pc = "idle"
  BY OthersRest
<1>2. \A s \in Requests : RequestAlone(req'[s], links')
  BY <1>1 DEF RequestAlone
<1>. QED
  BY <1>2 DEF Serial

\* Links that are voided keep their owners, their guesses and their places.
LEMMA VoidedAlone ==
  ASSUME IInv, Serial, NEW S, links' = Voided(S), issued' = issued, guesses' = guesses
  PROVE  /\ \A l \in Links : LinkAlone(l, links', issued', guesses')
         /\ \A l \in Links : /\ links'[l].owner = links[l].owner
                             /\ links'[l].live => links[l].live /\ l \notin S
<1>1. links \in [Links -> Link] /\ issued \in Seq(Links)
  BY TypesUnfolded DEF IInv
<1>2. \A l \in Links : /\ links'[l].owner = links[l].owner /\ links'[l].fails = links[l].fails
                       /\ links'[l].live => links[l].live /\ l \notin S
  BY <1>1 DEF Voided, Link
<1>3. ASSUME NEW l \in Links PROVE LinkAlone(l, links', issued', guesses')
  <2>1. LinkAlone(l, links, issued, guesses)
    BY DEF Serial
  <2>2. \A k \in Links : Alike(l, k, links') <=> Alike(l, k, links)
    BY <1>2 DEF Alike
  <2>3. NothingAfter(l, links, issued) => NothingAfter(l, links', issued')
    <3>1. \A k \in DOMAIN issued : issued[k] \in Links
      BY <1>1
    <3>2. \A i \in DOMAIN issued : \A j \in i + 1..Len(issued) : j \in DOMAIN issued
      BY <1>1
    <3>. QED
      BY <2>2, <3>1, <3>2 DEF NothingAfter
  <2>. QED
    BY <1>2, <2>1, <2>3 DEF LinkAlone
<1>. QED
  BY <1>2, <1>3

LEMMA VoidAlone ==
  ASSUME IInv, Serial, NEW r \in Requests, VoidVerifications(r) \/ VoidResets(r), ~Overlap'
  PROVE  Serial'
<1>. DEFINE table == Asks(req[r])
            q == [req[r] EXCEPT !.pc = "issue"]
<1>1. Void(r, table)
  BY DEF VoidVerifications, VoidResets, ForPassword, Asks
<1>2. /\ req[r].pc = "void" /\ links' = Voided(LiveOf(req[r].account, table))
      /\ req' = [req EXCEPT ![r] = q] /\ issued' = issued /\ guesses' = guesses
  BY <1>1 DEF Void, history
<1>3. table \subseteq Links
  BY DEF Asks, Links
<1>4. req[r] \in Asked
  BY RequestKnown
<1>5. q.pc = "issue" /\ q.account = req[r].account /\ Asks(q) = table
  BY <1>4 DEF Asked, Asks
<1>. HIDE DEF q, table
<1>6. \A l \in Links : /\ LinkAlone(l, links', issued', guesses')
                       /\ links'[l].owner = links[l].owner
                       /\ links'[l].live =>
                            links[l].live /\ l \notin LiveOf(req[r].account, table)
  BY <1>2, VoidedAlone
<1>7. RequestAlone(q, links')
  BY <1>3, <1>5, <1>6 DEF RequestAlone, LiveOf, OfAccount
<1>8. req[r].pc # "idle"
  BY <1>2
<1>. QED
  BY <1>2, <1>6, <1>7, <1>8, OneGoesOn

\* The new link is the last of its account and table, and the only live one.
LEMMA IssueAlone ==
  ASSUME IInv, Serial, NEW r \in Requests, IssueVerification(r) \/ IssueReset(r), ~Overlap'
  PROVE  Serial'
<1>. DEFINE table == Asks(req[r])
<1>1. Issue(r, table)
  BY DEF IssueVerification, IssueReset, ForPassword, Asks
<1>2. PICK l \in table :
        /\ links[l] = NewLink
        /\ links' = [links EXCEPT ![l] = [NewLink EXCEPT !.owner = req[r].account, !.live = TRUE]]
        /\ issued' = Append(issued, l)
        /\ req' = [req EXCEPT ![r] = [req[r] EXCEPT !.pc = "mail", !.link = l]]
  BY <1>1 DEF Issue
<1>. DEFINE q == [req[r] EXCEPT !.pc = "mail", !.link = l]
<1>3. req[r].pc = "issue" /\ guesses' = guesses
  BY <1>1 DEF Issue, history
<1>4. req[r] \in Asked /\ req[r].account \in Accounts
  BY <1>3, RequestKnown
<1>5. q.pc = "mail"
  BY <1>4 DEF Asked
<1>6. /\ links \in [Links -> Link] /\ issued \in Seq(Links) /\ Len(issued) \in Nat
      /\ table \subseteq Links /\ l \in Links
  BY TypesUnfolded DEF IInv, Asks, Links
<1>7. /\ links'[l].owner = req[r].account /\ links'[l].fails = 0 /\ links'[l].live
      /\ links[l].owner = Nobody /\ links[l].fails = 0
      /\ \A k \in Links \ {l} : links'[k] = links[k]
  BY <1>2, <1>6 DEF NewLink
<1>8. /\ Len(issued') = Len(issued) + 1 /\ issued'[Len(issued) + 1] = l
      /\ DOMAIN issued' = 1..(Len(issued) + 1) /\ DOMAIN issued = 1..Len(issued)
      /\ \A i \in 1..Len(issued) : issued'[i] = issued[i] /\ issued[i] \in Links
  BY <1>2, <1>6
<1>9. TableOf(l) = table
  BY AccessAssumption DEF TableOf, Asks
<1>10. \A k \in table : links[k].owner = req[r].account => ~links[k].live
  BY <1>3 DEF Serial, RequestAlone
<1>. HIDE DEF q, table
<1>11. ASSUME NEW k \in Links PROVE LinkAlone(k, links', issued', guesses')
  <2>1. LinkAlone(k, links, issued, guesses)
    BY DEF Serial
  <2>2. CASE k = l
    <3>1. NothingAfter(l, links', issued')
      <4>1. Len(issued) + 1 \in DOMAIN issued'
        BY <1>6, <1>8
      <4>2. \A j \in (Len(issued) + 1) + 1..Len(issued') : FALSE
        BY <1>6, <1>8
      <4>. QED
        BY <1>8, <4>1, <4>2 DEF NothingAfter
    <3>2. MaxAttempts \in Nat \ {0}
      BY AccessAssumption
    <3>. QED
      BY <1>3, <1>7, <2>1, <2>2, <3>1, <3>2 DEF LinkAlone
  <2>3. CASE k # l
    <3>1. ASSUME links[k].live, NothingAfter(k, links, issued)
          PROVE  NothingAfter(k, links', issued')
      <4>1. PICK i \in DOMAIN issued :
              issued[i] = k /\ \A j \in i + 1..Len(issued) : ~Alike(k, issued[j], links)
        BY <3>1 DEF NothingAfter
      <4>2. ~Alike(k, l, links')
        <5>1. Alike(k, l, links') => k \in table
          BY <1>9, AccessAssumption DEF Alike, TableOf, Links
        <5>. QED
          BY <1>7, <1>10, <2>3, <3>1, <5>1 DEF Alike
      <4>3. \A m \in Links \ {l} : Alike(k, m, links') => Alike(k, m, links)
        BY <1>7, <2>3 DEF Alike
      <4>4. ASSUME NEW j \in i + 1..Len(issued') PROVE ~Alike(k, issued'[j], links')
        <5>1. CASE j = Len(issued) + 1
          BY <1>8, <4>2, <5>1
        <5>2. CASE j # Len(issued) + 1
          <6>1. j \in i + 1..Len(issued) /\ j \in 1..Len(issued)
            BY <1>6, <1>8, <5>2
          <6>. QED
            BY <1>8, <4>1, <4>2, <4>3, <6>1
        <5>. QED
          BY <5>1, <5>2
      <4>5. i \in DOMAIN issued' /\ issued'[i] = k
        BY <1>6, <1>8, <4>1
      <4>. QED
        BY <4>4, <4>5 DEF NothingAfter
    <3>. QED
      BY <1>3, <1>7, <2>1, <2>3, <3>1 DEF LinkAlone
  <2>. QED
    BY <2>2, <2>3
<1>12. RequestAlone(q, links')
  BY <1>5 DEF RequestAlone
<1>13. req' = [req EXCEPT ![r] = q] /\ req[r].pc # "idle"
  BY <1>2, <1>3 DEF q
<1>. QED
  BY <1>11, <1>12, <1>13, OneGoesOn

\* A wrong link is counted as long as the newest one is live, and kills it with
\* the last guess.
LEMMA SpendAlone ==
  ASSUME IInv, Serial, NEW r \in Requests, SpendVerification(r) \/ SpendReset(r), ~Overlap'
  PROVE  Serial'
<1>1. Spend(r)
  BY DEF SpendVerification, SpendReset
<1>2. req[r].pc = "spend" /\ issued' = issued
  BY <1>1 DEF Spend
<1>3. /\ req[r] \in Asked /\ req[r].pc # "idle" /\ req[r].seen \in Links
      /\ links[req[r].seen].live /\ req[r].fails = links[req[r].seen].fails
  BY <1>2, RequestKnown DEF Serial, RequestAlone
<1>4. CASE links' = Voided({req[r].seen}) /\ guesses' = guesses
  <2>1. PICK q : req' = [req EXCEPT ![r] = q] /\ q.pc \in {"idle", "apply"}
    <3>1. CASE End(r)
      BY <3>1, IdleSound DEF End
    <3>2. CASE req' = [req EXCEPT ![r] = [req[r] EXCEPT !.pc = "apply"]]
      <4>1. [req[r] EXCEPT !.pc = "apply"].pc = "apply"
        BY <1>3 DEF Asked
      <4>. QED
        BY <3>2, <4>1
    <3>. QED
      BY <1>1, <3>1, <3>2 DEF Spend, CountFailure
  <2>2. RequestAlone(q, links')
    BY <2>1 DEF RequestAlone
  <2>3. \A l \in Links : LinkAlone(l, links', issued', guesses')
    BY <1>2, <1>4, VoidedAlone
  <2>. QED
    BY <1>3, <2>1, <2>2, <2>3, OneGoesOn
<1>5. CASE CountFailure(r)
  <2>. DEFINE k == req[r].seen
  <2>1. /\ links' = [links EXCEPT ![k] = [links[k] EXCEPT
              !.fails = OneMore(req[r].fails),
              !.live = @ /\ ~Exhausted(OneMore(req[r].fails))]]
        /\ guesses' = [guesses EXCEPT ![k] = @ + 1] /\ req' = [req EXCEPT ![r] = Idle]
    BY <1>5 DEF CountFailure, End
  <2>2. /\ links \in [Links -> Link] /\ guesses \in [Links -> Nat] /\ k \in Links
        /\ issued \in Seq(Links) /\ MaxAttempts \in Nat \ {0}
    BY <1>3, TypesUnfolded, AccessAssumption DEF IInv
  <2>3. links[k] \in Link /\ links[k].fails \in Nat /\ guesses[k] \in Nat
    BY <2>2 DEF Link
  <2>4. OneMore(req[r].fails) = links[k].fails + 1
    BY <1>3 DEF OneMore
  <2>5. /\ links'[k].owner = links[k].owner /\ links'[k].fails = links[k].fails + 1
        /\ links'[k].live => links[k].fails + 1 < MaxAttempts
        /\ \A l \in Links \ {k} : links'[l] = links[l] /\ guesses'[l] = guesses[l]
        /\ guesses'[k] = guesses[k] + 1
    <3>1. links'[k] = [links[k] EXCEPT !.fails = OneMore(req[r].fails),
                                       !.live = @ /\ ~Exhausted(OneMore(req[r].fails))]
      BY <2>1, <2>2
    <3>2. /\ links'[k].owner = links[k].owner /\ links'[k].fails = links[k].fails + 1
          /\ links'[k].live => ~Exhausted(links[k].fails + 1)
      BY <2>3, <2>4, <3>1 DEF Link
    <3>. QED
      BY <2>1, <2>2, <2>3, <3>2 DEF Exhausted
  <2>. HIDE DEF k
  <2>6. ASSUME NEW l \in Links PROVE LinkAlone(l, links', issued', guesses')
    <3>1. LinkAlone(l, links, issued, guesses) /\ LinkAlone(k, links, issued, guesses)
      BY <2>2 DEF Serial
    <3>2. \A m \in Links : Alike(l, m, links') <=> Alike(l, m, links)
      BY <2>5 DEF Alike
    <3>3. NothingAfter(l, links, issued) => NothingAfter(l, links', issued')
      <4>1. \A i \in DOMAIN issued : \A j \in i + 1..Len(issued) : issued[j] \in Links
        BY <2>2
      <4>. QED
        BY <1>2, <3>2, <4>1 DEF NothingAfter
    <3>4. CASE l = k
      BY <1>3, <2>2, <2>3, <2>5, <3>1, <3>3, <3>4 DEF LinkAlone, k
    <3>5. CASE l # k
      BY <2>5, <3>1, <3>3, <3>5 DEF LinkAlone
    <3>. QED
      BY <3>4, <3>5
  <2>7. RequestAlone(Idle, links')
    BY IdleSound DEF RequestAlone
  <2>. QED
    BY <1>3, <2>1, <2>6, <2>7, OneGoesOn
<1>. QED
  BY <1>1, <1>4, <1>5 DEF Spend

LEMMA ScrubAlone ==
  ASSUME IInv, Serial, NEW r \in Requests, ScrubVerifications(r) \/ ScrubResets(r), ~Overlap'
  PROVE  Serial'
<1>. DEFINE a == req[r].account
            p(pc) == [req[r] EXCEPT !.pc = pc]
<1>1. PICK table \in {VerifyLinks, ResetLinks}, pc \in {"scrubResets", "scrubbed"} :
        /\ req' = [req EXCEPT ![r] = p(pc)] \/ req' = Overtaken(r, p(pc), a)
        /\ links' = links \/ links' = Voided(LiveOf(a, table))
        /\ issued' = issued /\ guesses' = guesses
  <2>1. ASSUME NEW table, NEW q, ScrubTable(r, table, q)
        PROVE  /\ req' = [req EXCEPT ![r] = q] \/ req' = Overtaken(r, q, a)
               /\ links' = links \/ links' = Voided(LiveOf(a, table))
               /\ issued' = issued /\ guesses' = guesses
    BY <2>1 DEF ScrubTable, Flush, history
  <2>2. CASE ScrubVerifications(r)
    <3>1. ScrubTable(r, VerifyLinks, p("scrubResets"))
      BY <2>2 DEF ScrubVerifications
    <3>. HIDE DEF p, a
    <3>. QED
      BY <2>1, <3>1
  <2>3. CASE ScrubResets(r)
    <3>1. ScrubTable(r, ResetLinks, p("scrubbed"))
      BY <2>3 DEF ScrubResets
    <3>. HIDE DEF p, a
    <3>. QED
      BY <2>1, <3>1
  <2>. QED
    BY <2>2, <2>3
<1>. DEFINE q == p(pc)
<1>2. req[r] \in Asked /\ req[r].pc # "idle"
  BY RequestKnown DEF ScrubVerifications, ScrubResets
<1>3. q.pc = pc
  BY <1>2 DEF Asked
<1>4. /\ req' = [req EXCEPT ![r] = q] \/ req' = Overtaken(r, q, a)
      /\ links' = links \/ links' = Voided(LiveOf(a, table))
      /\ issued' = issued /\ guesses' = guesses
  BY <1>1
<1>. HIDE DEF q, a
<1>5. \A l \in Links : LinkAlone(l, links', issued', guesses')
  <2>1. CASE links' = links
    BY <1>4, <2>1 DEF Serial
  <2>2. CASE links' = Voided(LiveOf(a, table))
    BY <1>4, <2>2, VoidedAlone
  <2>. QED
    BY <1>4, <2>1, <2>2
<1>6. RequestAlone(q, links')
  BY <1>3 DEF RequestAlone
<1>. QED
  BY <1>2, <1>4, <1>5, <1>6, OneGoesOn

LEMMA ReadAlone ==
  ASSUME IInv, Serial, NEW r \in Requests, ReadVerification(r) \/ ReadReset(r), ~Overlap'
  PROVE  Serial'
<1>1. PICK table \in {VerifyLinks, ResetLinks} : Read(r, table)
  BY DEF ReadVerification, ReadReset
<1>. DEFINE l == NewestOf(LiveOf(req[r].account, table))
            q == IF l = NoLink THEN Idle
                 ELSE [req[r] EXCEPT !.pc = "spend", !.seen = l, !.fails = links[l].fails]
<1>2. /\ req[r].pc = "read" /\ req' = [req EXCEPT ![r] = q]
      /\ links' = links /\ issued' = issued /\ guesses' = guesses
  BY <1>1 DEF Read, tables, history
<1>3. l = NoLink \/ (l \in Links /\ links[l].live)
  <2>. DEFINE S == LiveOf(req[r].account, table)
  <2>1. S \subseteq Links /\ \A k \in S : links[k].live
    BY DEF LiveOf, OfAccount, Links
  <2>2. \A k \in S : \E i \in DOMAIN issued : issued[i] = k
    BY <2>1 DEF IInv, LinkSound
  <2>3. issued \in Seq(Links)
    BY TypesUnfolded DEF IInv
  <2>. HIDE DEF S
  <2>4. NewestOf(S) = NoLink \/ NewestOf(S) \in S
    BY <2>1, <2>2, <2>3, NewestIsOneOfThem
  <2>. QED
    BY <2>1, <2>4 DEF S
<1>4. req[r] \in Asked
  BY RequestKnown
<1>. HIDE DEF l
<1>5. q.pc = "idle" \/ (/\ q.pc = "spend" /\ q.seen = l /\ l \in Links /\ links[l].live
                        /\ q.fails = links[l].fails)
  BY <1>3, <1>4, IdleSound DEF Asked
<1>. HIDE DEF q
<1>6. RequestAlone(q, links')
  BY <1>2, <1>5 DEF RequestAlone
<1>7. \A k \in Links : LinkAlone(k, links', issued', guesses')
  BY <1>2 DEF Serial
<1>8. req[r].pc # "idle"
  BY <1>2
<1>. QED
  BY <1>2, <1>6, <1>7, <1>8, OneGoesOn

\* A request that begins issues and spends nothing yet.
LEMMA BeginAlone ==
  ASSUME IInv, Serial, NEW r \in Requests, Request(r), ~Overlap'
  PROVE  Serial'
<1>1. PICK q : Begin(r, q) /\ q.pc \notin {"issue", "spend"}
  <2>1. \A kind, pc, a : Loaded(kind, pc, a).pc = pc
    BY DEF Loaded, Idle
  <2>2. CASE Signup(r)
    <3>1. PICK a, e, p : Begin(r, [Idle EXCEPT !.pc = "insert", !.kind = "signup",
                                    !.account = a, !.email = e, !.next = p])
      BY <2>2 DEF Signup
    <3>2. [Idle EXCEPT !.pc = "insert", !.kind = "signup", !.account = a, !.email = e,
                       !.next = p].pc = "insert"
      BY DEF Idle
    <3>. QED
      BY <3>1, <3>2
  <2>3. CASE ResendEmail(r)
    BY <2>1, <2>3 DEF ResendEmail
  <2>4. CASE ForgotPassword(r) \/ ResendForgotPassword(r)
    BY <2>1, <2>4 DEF ForgotPassword, ResendForgotPassword
  <2>5. CASE VerifyEmail(r)
    <3>1. PICK a, l : Begin(r, [Loaded("verify", "read", a) EXCEPT !.link = l])
      BY <2>5 DEF VerifyEmail
    <3>2. [Loaded("verify", "read", a) EXCEPT !.link = l].pc = "read"
      BY DEF Loaded, Idle
    <3>. QED
      BY <3>1, <3>2
  <2>6. CASE ResetPassword(r)
    <3>1. PICK a, l, p : Begin(r, [Loaded("reset", "read", a) EXCEPT !.link = l, !.next = p])
      BY <2>6 DEF ResetPassword
    <3>2. [Loaded("reset", "read", a) EXCEPT !.link = l, !.next = p].pc = "read"
      BY DEF Loaded, Idle
    <3>. QED
      BY <3>1, <3>2
  <2>7. CASE Login(r)
    <3>1. PICK a, p : Begin(r, [Loaded("login", "grant", a) EXCEPT !.secret = p])
      BY <2>7 DEF Login
    <3>2. [Loaded("login", "grant", a) EXCEPT !.secret = p].pc = "grant"
      BY DEF Loaded, Idle
    <3>. QED
      BY <3>1, <3>2
  <2>8. CASE Refresh(r) \/ UpdateUserProfile(r) \/ DeleteAccount(r)
    BY <2>1, <2>8 DEF Refresh, UpdateUserProfile, DeleteAccount
  <2>9. CASE ChangePassword(r)
    <3>1. PICK a, p : Begin(r, [Loaded("change", "apply", a) EXCEPT
                                  !.secret = accounts[a].password, !.next = p])
      BY <2>9 DEF ChangePassword
    <3>2. [Loaded("change", "apply", a) EXCEPT
             !.secret = accounts[a].password, !.next = p].pc = "apply"
      BY DEF Loaded, Idle
    <3>. QED
      BY <3>1, <3>2
  <2>. QED
    BY <2>2, <2>3, <2>4, <2>5, <2>6, <2>7, <2>8, <2>9 DEF Request
<1>2. /\ UNCHANGED <<links, issued, guesses>> /\ req' = [req EXCEPT ![r] = q]
      /\ req \in [Requests -> Asked]
  BY <1>1, TypesUnfolded DEF Begin, tables, history, IInv
<1>3. ASSUME NEW s \in Requests
      PROVE  req'[s].pc \notin {"issue", "spend"} \/ RequestAlone(req'[s], links)
  BY <1>1, <1>2 DEF Serial
<1>. QED
  BY <1>2, <1>3, LinksLeft

\* The other steps of a request leave the tables of links alone.
LEMMA OtherStepsAlone ==
  ASSUME IInv, Serial, NEW r \in Requests, Step(r), ~Overlap',
         ~(VoidVerifications(r) \/ VoidResets(r)), ~(IssueVerification(r) \/ IssueReset(r)),
         ~(SpendVerification(r) \/ SpendReset(r)), ~(ReadVerification(r) \/ ReadReset(r)),
         ~(ScrubVerifications(r) \/ ScrubResets(r))
  PROVE  Serial'
<1>1. \/ Insert(r) \/ Cool(r) \/ MailVerification(r) \/ MailReset(r) \/ Conflict(r)
      \/ ApplyVerification(r) \/ ApplyReset(r) \/ ApplyChange(r) \/ ApplyProfile(r)
      \/ GrantLogin(r) \/ GrantRefresh(r) \/ ApplyDeletion(r)
  BY DEF Step
<1>2. UNCHANGED <<links, issued, guesses>> /\ req[r].pc # "idle"
  BY <1>1 DEF Insert, Cool, MailVerification, MailReset, Mail, Conflict, ApplyVerification,
     ApplyReset, ApplyChange, ApplyProfile, GrantLogin, GrantRefresh, Grant, ApplyDeletion,
     tables, history
<1>3. PICK q, a : /\ req' = [req EXCEPT ![r] = q] \/ req' = Overtaken(r, q, a)
                  /\ q.pc \in {"idle", "void"}
  <2>1. [req[r] EXCEPT !.pc = "void"].pc = "void"
    BY RequestKnown DEF Asked
  <2>2. CASE \/ Insert(r) \/ Cool(r) \/ MailVerification(r) \/ MailReset(r) \/ Conflict(r)
    BY <2>1, <2>2, IdleSound DEF Insert, Cool, MailVerification, MailReset, Mail, Conflict, End
  <2>3. CASE \/ ApplyVerification(r) \/ ApplyReset(r) \/ ApplyChange(r) \/ ApplyProfile(r)
    BY <2>1, <2>3, IdleSound DEF ApplyVerification, ApplyReset, ApplyChange, ApplyProfile, End,
       Flush
  <2>4. CASE GrantLogin(r) \/ GrantRefresh(r) \/ ApplyDeletion(r)
    BY <2>4, IdleSound DEF GrantLogin, GrantRefresh, Grant, ApplyDeletion, Flush
  <2>. QED
    BY <1>1, <2>2, <2>3, <2>4
<1>4. RequestAlone(q, links')
  BY <1>3 DEF RequestAlone
<1>5. \A l \in Links : LinkAlone(l, links', issued', guesses')
  BY <1>2 DEF Serial
<1>. QED
  BY <1>2, <1>3, <1>4, <1>5, OneGoesOn

LEMMA EventAlone ==
  ASSUME IInv, Serial, Event, ~Overlap'
  PROVE  Serial'
<1>1. UNCHANGED <<links, issued, guesses>>
  BY DEF Event, WriteElsewhere, Cooldown, Expire, Crash, tables, history
<1>2. req \in [Requests -> Asked]
  BY TypesUnfolded DEF IInv
<1>3. ASSUME NEW s \in Requests
      PROVE  req'[s].pc \notin {"issue", "spend"} \/ RequestAlone(req'[s], links)
  <2>1. RequestAlone(req[s], links) /\ req[s] \in Asked
    BY <1>2 DEF Serial
  <2>2. CASE \E l \in Links : Cooldown(l) \/ Expire(l)
    BY <2>1, <2>2 DEF Cooldown, Expire
  <2>3. CASE Crash
    BY <2>3, IdleSound DEF Crash
  <2>4. ASSUME NEW a \in Accounts, WriteElsewhere(a)
        PROVE  req'[s].pc \notin {"issue", "spend"} \/ RequestAlone(req'[s], links)
    <3>. DEFINE q == [req[s] EXCEPT !.current = @ /\ req[s].account # a]
    <3>1. req'[s] = q
      BY <2>4 DEF WriteElsewhere
    <3>2. /\ q.pc = req[s].pc /\ q.account = req[s].account /\ q.kind = req[s].kind
          /\ q.seen = req[s].seen /\ q.fails = req[s].fails
      BY <2>1 DEF Asked
    <3>. HIDE DEF q
    <3>. QED
      BY <2>1, <3>1, <3>2 DEF RequestAlone, Asks
  <2>. QED
    BY <2>2, <2>3, <2>4 DEF Event
<1>. QED
  BY <1>1, <1>3, LinksLeft

LEMMA SerialInit == Init => Serial
<1>. SUFFICES ASSUME Init PROVE Serial
  OBVIOUS
<1>1. \A r \in Requests : req[r] = Idle
  BY DEF Init
<1>2. ~Overlap
  BY <1>1 DEF Overlap, Busy
<1>3. \A r \in Requests : RequestAlone(req[r], links)
  BY <1>1, IdleSound DEF RequestAlone
<1>4. \A l \in Links : guesses[l] = 0 /\ links[l].fails = 0 /\ ~links[l].live
  BY DEF Init, NewLink
<1>5. \A l \in Links : LinkAlone(l, links, issued, guesses)
  BY <1>4, AccessAssumption DEF LinkAlone
<1>. QED
  BY <1>2, <1>3, <1>5 DEF Serial

LEMMA WatchedSound == WatchedInv /\ [WatchedNext]_watched => WatchedInv'
<1>. SUFFICES ASSUME WatchedInv, [WatchedNext]_watched PROVE WatchedInv'
  OBVIOUS
<1>1. IInv'
  BY NextSound DEF WatchedInv, WatchedNext, watched
<1>2. ASSUME ~overlapped' PROVE Serial'
  <2>1. CASE WatchedNext
    <3>1. IInv /\ Serial /\ ~Overlap' /\ Next
      BY <1>2, <2>1 DEF WatchedNext, WatchedInv
    <3>2. CASE Event
      BY <3>1, <3>2, EventAlone
    <3>3. ASSUME NEW r \in Requests, Request(r) PROVE Serial'
      BY <3>1, <3>3, BeginAlone
    <3>4. ASSUME NEW r \in Requests, Step(r) PROVE Serial'
      BY <3>1, <3>4, OtherStepsAlone, VoidAlone, IssueAlone, SpendAlone, ReadAlone, ScrubAlone
    <3>. QED
      BY <3>1, <3>2, <3>3, <3>4 DEF Next
  <2>2. CASE UNCHANGED watched
    <3>1. UNCHANGED <<links, issued, guesses, req, overlapped>>
      BY <2>2 DEF watched, vars, tables, history
    <3>2. Serial /\ ~Overlap'
      BY <1>2, <3>1 DEF WatchedInv, Serial, Overlap, Busy
    <3>. QED
      BY <3>1, <3>2 DEF Serial
  <2>. QED
    BY <2>1, <2>2
<1>. QED
  BY <1>1, <1>2 DEF WatchedInv

LEMMA WatchedInductive == WatchedSpec => []WatchedInv
<1>1. WatchedInit => WatchedInv
  BY InitSound, SerialInit DEF WatchedInit, WatchedInv
<1>. QED
  BY <1>1, WatchedSound, PTL DEF WatchedSpec

LEMMA LastIsNewest ==
  ASSUME issued \in Seq(Links), NEW S, NEW i \in DOMAIN issued, issued[i] \in S,
         \A j \in i + 1..Len(issued) : issued[j] \notin S
  PROVE  NewestOf(S) = issued[i]
<1>. DEFINE Last(k) == issued[k] \in S /\ \A j \in k + 1..Len(issued) : issued[j] \notin S
            c == CHOOSE k \in DOMAIN issued : Last(k)
<1>1. Len(issued) \in Nat /\ DOMAIN issued = 1..Len(issued)
  OBVIOUS
<1>2. c \in DOMAIN issued /\ Last(c)
  BY Zenon
<1>3. c = i
  <2>. HIDE DEF c
  <2>1. c \in i + 1..Len(issued) \/ i \in c + 1..Len(issued) \/ c = i
    BY <1>1, <1>2
  <2>. QED
    BY <1>2, <2>1
<1>4. S # {}
  OBVIOUS
<1>5. NewestOf(S) = issued[c]
  BY <1>4, Zenon DEF NewestOf
<1>. QED
  BY <1>3, <1>5

\* Requests that come one at a time leave an account one link of each kind, the
\* last that was issued, and a link takes as many wrong guesses as it is allowed;
\* restarts, expired links and flushes that fail change nothing about that.
THEOREM LinksGuarded == WatchedSpec => []SerialLinksGuarded
<1>1. WatchedInv => SerialLinksGuarded
  <2>. SUFFICES ASSUME WatchedInv, ~overlapped PROVE OneLiveLink /\ GuessesBounded
    BY DEF SerialLinksGuarded
  <2>1. Serial /\ issued \in Seq(Links)
    BY TypesUnfolded DEF WatchedInv, IInv
  <2>2. GuessesBounded
    BY <2>1 DEF Serial, LinkAlone, GuessesBounded
  <2>3. ASSUME NEW a \in Accounts, NEW table \in {VerifyLinks, ResetLinks},
               NEW l \in LiveOf(a, table)
        PROVE  l = NewestOf(OfAccount(a, table))
    <3>1. l \in table /\ l \in Links /\ links[l].owner = a /\ links[l].live
      BY DEF LiveOf, OfAccount, Links
    <3>2. TableOf(l) = table
      BY <3>1, AccessAssumption DEF TableOf
    <3>3. PICK i \in DOMAIN issued :
            issued[i] = l /\ \A j \in i + 1..Len(issued) : ~Alike(l, issued[j], links)
      BY <2>1, <3>1 DEF Serial, LinkAlone, NothingAfter
    <3>4. \A k \in OfAccount(a, table) : Alike(l, k, links)
      BY <3>1, <3>2 DEF OfAccount, Alike
    <3>5. issued[i] \in OfAccount(a, table)
      BY <3>1, <3>3 DEF OfAccount
    <3>6. \A j \in i + 1..Len(issued) : issued[j] \notin OfAccount(a, table)
      BY <3>3, <3>4
    <3>. QED
      BY <2>1, <3>3, <3>5, <3>6, LastIsNewest
  <2>. QED
    BY <2>2, <2>3 DEF OneLiveLink
<1>. QED
  BY <1>1, WatchedInductive, PTL
=============================================================================
