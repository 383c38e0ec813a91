--------------------------- MODULE AccountAccess ---------------------------
(***************************************************************************)
(* How people get into their accounts: signup, e-mail verification,        *)
(* forgotten and changed passwords, login, refresh and deletion.           *)
(*                                                                         *)
(* Every request loads the account first and writes it last.  In between   *)
(* it reads and writes the tables of links, each in a flush of its own.    *)
(* Only the version column of accounts orders two requests: a flush that   *)
(* changes an account somebody else has written since it was loaded fails. *)
(***************************************************************************)
EXTENDS FiniteSets, Integers, Sequences

CONSTANTS Accounts,     \* rows of table accounts
          Emails,       \* addresses that people have
          Passwords,
          VerifyLinks,  \* rows of account_email_verifications
          ResetLinks,   \* rows of account_password_resets
          Requests,     \* requests under way
          Nobody, NoEmail, Gone, NoLink, Scrambled,
          MaxAttempts,  \* auth.*.maxAttempts
          MaxCrashes    \* bound on how often the process dies and restarts

ASSUME AccessAssumption ==
  /\ Nobody \notin Accounts /\ NoEmail # Gone /\ {NoEmail, Gone} \cap Emails = {}
  /\ VerifyLinks \cap ResetLinks = {} /\ NoLink \notin VerifyLinks \cup ResetLinks
  /\ Scrambled \notin Passwords /\ MaxAttempts \in Nat \ {0} /\ MaxCrashes \in Nat

Links == VerifyLinks \cup ResetLinks

VARIABLES accounts, \* table accounts: NoEmail is no row, Gone a deleted one
          links,    \* the tables of links
          issued,   \* the links in the order of their createdAt
          recent,   \* links younger than the cooldown
          expired,  \* links past their expiresAt
          inbox,    \* the links that were mailed to each address
          signedIn, \* accounts with an access token
          kept,     \* accounts with a refresh token
          req,      \* the requests under way
          crashes,  \* how often the process has died
          changed,  \* history: how many passwords each link has set
          welcomed, \* history: how many welcome mails each account got
          guesses   \* history: wrong links posted while each link was newest

tables == <<accounts, links, issued>>
clock == <<recent, expired>>
tokens == <<signedIn, kept>>
history == <<changed, welcomed, guesses>>
vars == <<tables, clock, inbox, tokens, req, crashes, history>>

NewAccount == [email |-> NoEmail, password |-> Scrambled, verified |-> FALSE,
               stripe |-> FALSE, active |-> FALSE]
NewLink == [owner |-> Nobody, live |-> FALSE, fails |-> 0]

\* `secret' is the password that was verified, `next' the one to set; `link' is
\* what was posted and `seen' the row it is compared with; `current' says that
\* the account is still as it was loaded.
Idle == [pc |-> "idle", kind |-> "none", account |-> Nobody, email |-> NoEmail,
         secret |-> Scrambled, next |-> Scrambled, link |-> NoLink, seen |-> NoLink,
         fails |-> 0, current |-> TRUE]

Init ==
  /\ accounts = [a \in Accounts |-> NewAccount]
  /\ links = [l \in Links |-> NewLink]
  /\ issued = <<>>
  /\ recent = {}
  /\ expired = {}
  /\ inbox = [e \in Emails |-> {}]
  /\ signedIn = {}
  /\ kept = {}
  /\ req = [r \in Requests |-> Idle]
  /\ crashes = 0
  /\ changed = [l \in Links |-> 0]
  /\ welcomed = [a \in Accounts |-> 0]
  /\ guesses = [l \in Links |-> 0]

Begin(r, q) ==
  /\ req[r] = Idle
  /\ req' = [req EXCEPT ![r] = q]
  /\ UNCHANGED <<tables, clock, inbox, tokens, crashes, history>>

\* An error or the answer of a request that leaves nothing behind.
End(r) == req' = [req EXCEPT ![r] = Idle]

Loaded(kind, pc, a) ==
  [Idle EXCEPT !.pc = pc, !.kind = kind, !.account = a, !.email = accounts[a].email]

\* accountRepository.findOne({ email }).
Found(e) == {a \in Accounts : accounts[a].email = e}

(***************************************************************************)
(* The version column                                                      *)
(***************************************************************************)
\* Mutant: the account has no version column.
MutCurrent(r) == TRUE

\* The update by id and version finds its row.
Current(r) == req[r].current

\* The requests after r, now at q, has written account a.
Overtaken(r, q, a) ==
  [s \in Requests |-> IF s = r THEN q
                      ELSE [req[s] EXCEPT !.current = @ /\ req[s].account # a]]

\* A flush that changes the account of r, which goes on as q.
Flush(r, row, q) ==
  /\ Current(r)
  /\ accounts' = [accounts EXCEPT ![req[r].account] = row]
  /\ req' = Overtaken(r, q, req[r].account)

\* The flush of r's account that finds another version of it fails.
Conflict(r) ==
  /\ req[r].pc \in {"apply", "grant", "scrub", "scrubResets", "scrubbed"}
  /\ ~Current(r)
  /\ End(r)
  /\ UNCHANGED <<tables, clock, inbox, tokens, crashes, history>>

(***************************************************************************)
(* Signup                                                                  *)
(***************************************************************************)
\* "An account already exists with that email."
MayRegister(e) == Found(e) = {}

\* POST auth/signup, of a row that nobody has used yet.
Signup(r) ==
  \E a \in Accounts, e \in Emails, p \in Passwords :
    /\ accounts[a] = NewAccount
    /\ \A s \in Requests : req[s].account # a
    /\ MayRegister(e)
    /\ Begin(r, [Idle EXCEPT !.pc = "insert", !.kind = "signup", !.account = a,
                             !.email = e, !.next = p])

\* The password is hashed and the row inserted, unless another one has taken
\* the address in between.  The telephone number, unique as well, may be taken.
Insert(r) ==
  LET q == req[r]
  IN  /\ q.pc = "insert"
      /\ \/ /\ Found(q.email) = {}
            /\ accounts' = [accounts EXCEPT ![q.account] =
                 [NewAccount EXCEPT !.email = q.email, !.password = q.next, !.active = TRUE]]
         \/ UNCHANGED accounts
      /\ End(r)
      /\ UNCHANGED <<links, issued, clock, inbox, tokens, crashes, history>>

(***************************************************************************)
(* Issuing a link                                                          *)
(***************************************************************************)
\* "Email is already verified."
MayResend(e) == {a \in Found(e) : ~accounts[a].verified}

\* POST auth/resend-email.
ResendEmail(r) ==
  \E e \in Emails : \E a \in MayResend(e) : Begin(r, Loaded("resend", "cool", a))

\* Nothing is asked of a forgetful owner; an unknown address is not told.
MayForget(e) == Found(e)

\* POST auth/forgot-password.
ForgotPassword(r) ==
  \E e \in Emails : \E a \in MayForget(e) : Begin(r, Loaded("forgot", "void", a))

\* POST auth/forgot-password/resend does the same with another wording.
ResendForgotPassword(r) == ForgotPassword(r)

OfAccount(a, table) == {l \in table : links[l].owner = a}

LiveOf(a, table) == {l \in OfAccount(a, table) : links[l].live}

\* The first of orderBy: { createdAt: 'DESC' }.
NewestOf(S) ==
  IF S = {} THEN NoLink
  ELSE issued[CHOOSE i \in DOMAIN issued :
                issued[i] \in S /\ \A j \in i + 1..Len(issued) : issued[j] \notin S]

\* "Verification email recently sent."  The newest link counts, used or not.
Cool(r) ==
  LET q == req[r]
  IN  /\ q.pc = "cool"
      /\ req' = [req EXCEPT ![r] =
           IF NewestOf(OfAccount(q.account, VerifyLinks)) \in recent THEN Idle
           ELSE [q EXCEPT !.pc = "void"]]
      /\ UNCHANGED <<tables, clock, inbox, tokens, crashes, history>>

\* markConsumed of every link in S.
Voided(S) == [l \in Links |-> [links[l] EXCEPT !.live = @ /\ l \notin S]]

\* invalidateActive, in a flush of its own.
Void(r, table) ==
  LET q == req[r]
  IN  /\ q.pc = "void"
      /\ links' = Voided(LiveOf(q.account, table))
      /\ req' = [req EXCEPT ![r] = [q EXCEPT !.pc = "issue"]]
      /\ UNCHANGED <<accounts, issued, clock, inbox, tokens, crashes, history>>

ForPassword(r) == req[r].kind \in {"forgot", "reset"}

VoidVerifications(r) == ~ForPassword(r) /\ Void(r, VerifyLinks)

VoidResets(r) == ForPassword(r) /\ Void(r, ResetLinks)

\* persistAndFlush of a new link.
Issue(r, table) ==
  LET q == req[r]
  IN  /\ q.pc = "issue"
      /\ \E l \in table :
           /\ links[l] = NewLink
           /\ links' = [links EXCEPT ![l] = [NewLink EXCEPT !.owner = q.account, !.live = TRUE]]
           /\ issued' = Append(issued, l)
           /\ recent' = recent \cup {l}
           /\ req' = [req EXCEPT ![r] = [q EXCEPT !.pc = "mail", !.link = l]]
      /\ UNCHANGED <<accounts, expired, inbox, tokens, crashes, history>>

IssueVerification(r) == ~ForPassword(r) /\ Issue(r, VerifyLinks)

IssueReset(r) == ForPassword(r) /\ Issue(r, ResetLinks)

\* The mail goes to the address the account had when it was loaded, if the
\* mail server takes it.  Nobody reads the mail of a deleted account.
Mail(r) ==
  LET q == req[r]
  IN  /\ q.pc = "mail"
      /\ \/ q.email \in Emails /\ inbox' = [inbox EXCEPT ![q.email] = @ \cup {q.link}]
         \/ UNCHANGED inbox
      /\ End(r)
      /\ UNCHANGED <<tables, clock, tokens, crashes, history>>

MailVerification(r) == ~ForPassword(r) /\ Mail(r)

MailReset(r) == ForPassword(r) /\ Mail(r)

(***************************************************************************)
(* Spending a link                                                         *)
(***************************************************************************)
\* What people post: a link they were mailed, or one they have garbled.
Posted(e) == inbox[e] \cup {NoLink}

\* "Email is already verified."
MayVerify(e) == {a \in Found(e) : ~accounts[a].verified}

\* POST auth/verify-email.
VerifyEmail(r) ==
  \E e \in Emails : \E a \in MayVerify(e), l \in Posted(e) :
    Begin(r, [Loaded("verify", "read", a) EXCEPT !.link = l])

\* "Complete Stripe verification before resetting password."
MayReset(e) == {a \in Found(e) : accounts[a].stripe}

\* POST auth/reset-password.
ResetPassword(r) ==
  \E e \in Emails : \E a \in MayReset(e), l \in Posted(e), p \in Passwords :
    Begin(r, [Loaded("reset", "read", a) EXCEPT !.link = l, !.next = p])

\* The newest link that is not consumed.
Read(r, table) ==
  LET q == req[r]
      l == NewestOf(LiveOf(q.account, table))
  IN  /\ q.pc = "read"
      /\ req' = [req EXCEPT ![r] = IF l = NoLink THEN Idle
           ELSE [q EXCEPT !.pc = "spend", !.seen = l, !.fails = links[l].fails]]
      /\ UNCHANGED <<tables, clock, inbox, tokens, crashes, history>>

ReadVerification(r) == ~ForPassword(r) /\ Read(r, VerifyLinks)

ReadReset(r) == ForPassword(r) /\ Read(r, ResetLinks)

\* Mutant: one guess too many.
MutExhausted(fails) == fails > MaxAttempts

Exhausted(fails) == fails >= MaxAttempts

\* Mutant: the guesses left are counted, from none.
MutOneMore(fails) == fails - 1

OneMore(fails) == fails + 1

\* A wrong link is counted against the newest one: the count that was read, and
\* one.
CountFailure(r) ==
  LET q == req[r]
  IN  /\ links' = [links EXCEPT ![q.seen] =
           [links[q.seen] EXCEPT !.fails = OneMore(q.fails),
                                 !.live = @ /\ ~Exhausted(OneMore(q.fails))]]
      /\ guesses' = [guesses EXCEPT ![q.seen] = @ + 1]
      /\ End(r)

\* The digest is made of the account and the link.
Matches(q) == q.link = q.seen

\* Expired, wrong or right.
Spend(r) ==
  LET q == req[r]
  IN  /\ q.pc = "spend"
      /\ CASE q.seen \in expired -> links' = Voided({q.seen}) /\ End(r) /\ UNCHANGED guesses
           [] q.seen \notin expired /\ ~Matches(q) -> CountFailure(r)
           [] OTHER -> /\ links' = Voided({q.seen})
                       /\ req' = [req EXCEPT ![r] = [q EXCEPT !.pc = "apply"]]
                       /\ UNCHANGED guesses
      /\ UNCHANGED <<accounts, issued, clock, inbox, tokens, crashes, changed, welcomed>>

SpendVerification(r) == ~ForPassword(r) /\ Spend(r)

SpendReset(r) == ForPassword(r) /\ Spend(r)

\* markEmailVerified, and then the welcome mail.
ApplyVerification(r) ==
  LET q == req[r]
  IN  /\ q.pc = "apply" /\ q.kind = "verify"
      /\ Flush(r, [accounts[q.account] EXCEPT !.verified = TRUE], Idle)
      /\ welcomed' = [welcomed EXCEPT ![q.account] = @ + 1]
      /\ UNCHANGED <<links, issued, clock, inbox, tokens, crashes, changed, guesses>>

ApplyReset(r) ==
  LET q == req[r]
  IN  /\ q.pc = "apply" /\ q.kind = "reset"
      /\ Flush(r, [accounts[q.account] EXCEPT !.password = q.next], Idle)
      /\ changed' = [changed EXCEPT ![q.seen] = @ + 1]
      /\ UNCHANGED <<links, issued, clock, inbox, tokens, crashes, welcomed, guesses>>

(***************************************************************************)
(* With a password or a token                                              *)
(***************************************************************************)
\* "Invalid credentials." or "Account is inactive."
Admitted(e, p) == {a \in Found(e) : accounts[a].password = p /\ accounts[a].active}

\* POST auth/login.  What an account idle for 60 or 90 days meets at login is
\* in AccountStatus.
Login(r) ==
  \E e \in Emails, p \in Passwords : \E a \in Admitted(e, p) :
    Begin(r, [Loaded("login", "grant", a) EXCEPT !.secret = p])

\* "Invalid refresh token."
MayRefresh == {a \in kept : accounts[a].active}

\* POST auth/refresh, by the id in the token.
Refresh(r) == \E a \in MayRefresh : Begin(r, Loaded("refresh", "grant", a))

\* Tokens are handed out after lastLoginAt is flushed.
Grant(r, keep) ==
  LET q == req[r]
  IN  /\ q.pc = "grant"
      /\ Flush(r, accounts[q.account], Idle)
      /\ signedIn' = signedIn \cup {q.account}
      /\ kept' = IF keep THEN kept \cup {q.account} ELSE kept
      /\ UNCHANGED <<links, issued, clock, inbox, crashes, history>>

\* A refresh token comes with rememberMe.
GrantLogin(r) == req[r].kind = "login" /\ \E rememberMe \in BOOLEAN : Grant(r, rememberMe)

GrantRefresh(r) == req[r].kind = "refresh" /\ Grant(r, FALSE)

\* JwtAuthGuard believes the token: the account is not read.
Guarded == signedIn

\* The old password must be right and the new one another.
MayChange(a, p) == accounts[a].password \in Passwords \ {p}

\* POST auth/change-password.
ChangePassword(r) ==
  \E a \in Guarded, p \in Passwords :
    /\ MayChange(a, p)
    /\ Begin(r, [Loaded("change", "apply", a) EXCEPT !.secret = accounts[a].password, !.next = p])

ApplyChange(r) ==
  LET q == req[r]
  IN  /\ q.pc = "apply" /\ q.kind = "change"
      /\ Flush(r, [accounts[q.account] EXCEPT !.password = q.next], Idle)
      /\ UNCHANGED <<links, issued, clock, inbox, tokens, crashes, history>>

\* PATCH auth/user.
UpdateUserProfile(r) == \E a \in Guarded : Begin(r, Loaded("profile", "apply", a))

\* Names and telephone number are written, unless another account has the
\* number; somebody with a name and an address that is not verified is then
\* sent a link without a cooldown.
ApplyProfile(r) ==
  LET q == req[r]
      row == accounts[q.account]
  IN  /\ q.pc = "apply" /\ q.kind = "profile"
      /\ \/ Flush(r, row, Idle)
         \/ ~row.verified /\ Flush(r, row, [q EXCEPT !.pc = "void"])
         \/ End(r) /\ UNCHANGED accounts
      /\ UNCHANGED <<links, issued, clock, inbox, tokens, crashes, history>>

(***************************************************************************)
(* Deletion                                                                *)
(***************************************************************************)
\* DELETE auth/account.
DeleteAccount(r) == \E a \in Guarded : Begin(r, Loaded("delete", "scrub", a))

Anonymous == [NewAccount EXCEPT !.email = Gone]

\* invalidateActive of one table: what it flushes takes the account along.
ScrubTable(r, table, q) ==
  LET live == LiveOf(req[r].account, table)
  IN  /\ IF live = {} THEN req' = [req EXCEPT ![r] = q] /\ UNCHANGED <<accounts, links>>
         ELSE /\ Flush(r, Anonymous, q)
              /\ links' = Voided(live)
      /\ UNCHANGED <<issued, clock, inbox, tokens, crashes, history>>

ScrubVerifications(r) ==
  req[r].pc = "scrub" /\ ScrubTable(r, VerifyLinks, [req[r] EXCEPT !.pc = "scrubResets"])

ScrubResets(r) ==
  req[r].pc = "scrubResets" /\ ScrubTable(r, ResetLinks, [req[r] EXCEPT !.pc = "scrubbed"])

ApplyDeletion(r) ==
  LET q == req[r]
  IN  /\ q.pc = "scrubbed"
      /\ Flush(r, Anonymous, Idle)
      /\ UNCHANGED <<links, issued, clock, inbox, tokens, crashes, history>>

(***************************************************************************)
(* What else happens                                                       *)
(***************************************************************************)
\* The other requests that write accounts: markStripeVerificationCompleted,
\* deactivate, activate, and those that only take the version on.
WriteElsewhere(a) ==
  /\ accounts[a].email # NoEmail
  /\ \E stripe, active \in BOOLEAN :
       /\ accounts[a].stripe => stripe
       /\ accounts' = [accounts EXCEPT ![a] = [@ EXCEPT !.stripe = stripe, !.active = active]]
  /\ req' = [s \in Requests |-> [req[s] EXCEPT !.current = @ /\ req[s].account # a]]
  /\ UNCHANGED <<links, issued, clock, inbox, tokens, crashes, history>>

\* The cooldown of a link passes, or its time to live.
Cooldown(l) ==
  /\ l \in recent /\ recent' = recent \ {l}
  /\ UNCHANGED <<tables, expired, inbox, tokens, req, crashes, history>>

Expire(l) ==
  /\ links[l].live /\ l \notin expired /\ expired' = expired \cup {l}
  /\ UNCHANGED <<tables, recent, inbox, tokens, req, crashes, history>>

\* The process dies with every request under way; the tables stay.
Crash ==
  /\ crashes < MaxCrashes
  /\ \E r \in Requests : req[r] # Idle
  /\ crashes' = crashes + 1
  /\ req' = [r \in Requests |-> Idle]
  /\ UNCHANGED <<tables, clock, inbox, tokens, history>>

Request(r) ==
  \/ Signup(r) \/ ResendEmail(r) \/ ForgotPassword(r) \/ ResendForgotPassword(r)
  \/ VerifyEmail(r) \/ ResetPassword(r) \/ Login(r) \/ Refresh(r)
  \/ ChangePassword(r) \/ UpdateUserProfile(r) \/ DeleteAccount(r)

Step(r) ==
  \/ Insert(r) \/ Cool(r) \/ VoidVerifications(r) \/ VoidResets(r)
  \/ IssueVerification(r) \/ IssueReset(r) \/ MailVerification(r) \/ MailReset(r)
  \/ ReadVerification(r) \/ ReadReset(r) \/ SpendVerification(r) \/ SpendReset(r)
  \/ ApplyVerification(r) \/ ApplyReset(r) \/ ApplyChange(r) \/ ApplyProfile(r)
  \/ GrantLogin(r) \/ GrantRefresh(r)
  \/ ScrubVerifications(r) \/ ScrubResets(r) \/ ApplyDeletion(r) \/ Conflict(r)

Event ==
  \/ \E a \in Accounts : WriteElsewhere(a)
  \/ \E l \in Links : Cooldown(l) \/ Expire(l)
  \/ Crash

Next == Event \/ \E r \in Requests : Request(r) \/ Step(r)

Spec == Init /\ [][Next]_vars

(***************************************************************************)
(* Properties                                                              *)
(***************************************************************************)
TypeOK ==
  /\ accounts \in [Accounts -> [email : Emails \cup {NoEmail, Gone},
                                password : Passwords \cup {Scrambled},
                                verified : BOOLEAN, stripe : BOOLEAN, active : BOOLEAN]]
  /\ links \in [Links -> [owner : Accounts \cup {Nobody}, live : BOOLEAN, fails : Nat]]
  /\ issued \in Seq(Links)
  /\ recent \subseteq Links /\ expired \subseteq Links
  /\ inbox \in [Emails -> SUBSET Links]
  /\ signedIn \subseteq Accounts /\ kept \subseteq Accounts
  /\ req \in [Requests -> [
       pc : {"idle", "insert", "cool", "void", "issue", "mail", "read", "spend", "apply",
             "grant", "scrub", "scrubResets", "scrubbed"},
       kind : {"none", "signup", "resend", "forgot", "verify", "reset", "login", "refresh",
               "change", "profile", "delete"},
       account : Accounts \cup {Nobody}, email : Emails \cup {NoEmail, Gone},
       secret : Passwords \cup {Scrambled}, next : Passwords \cup {Scrambled},
       link : Links \cup {NoLink}, seen : Links \cup {NoLink}, fails : Nat,
       current : BOOLEAN]]
  /\ crashes \in Nat
  /\ changed \in [Links -> Nat] /\ guesses \in [Links -> Nat]
  /\ welcomed \in [Accounts -> Nat]

\* However many requests post it at once, a reset link sets one password: each
\* of them may find it live, but only one of them still has the version of the
\* account that it loaded before.  And an account is welcomed once, although the
\* links are consumed before the account is found to be verified.
LinksWorkOnce ==
  /\ \A l \in ResetLinks : changed[l] <= 1
  /\ \A a \in Accounts : welcomed[a] <= 1

\* A deleted account never gets a password or a verified address again, from
\* requests that loaded it before either.
DeletedForGood ==
  \A a \in Accounts : accounts[a].email = Gone =>
    accounts[a].password = Scrambled /\ ~accounts[a].verified

\* At the moment tokens are handed out the account is active and, at a login,
\* the password the one that was typed: a deactivation or a change of password
\* that comes between the check and the answer takes effect.  And whoever changes
\* a password replaces the one that was typed and no later one.
PasswordsDecide ==
  [][\A r \in Requests :
       LET row == accounts[req[r].account]
       IN  /\ GrantLogin(r) \/ GrantRefresh(r) => row.active
           /\ GrantLogin(r) /\ req[r].kind = "login" => row.password = req[r].secret
           /\ ApplyChange(r) => row.password = req[r].secret]_vars

\* The links that still work: one, and the last that was issued.
OneLiveLink ==
  \A a \in Accounts, table \in {VerifyLinks, ResetLinks} :
    LiveOf(a, table) \subseteq {NewestOf(OfAccount(a, table))}

\* A link is gone after MaxAttempts wrong guesses.
GuessesBounded == \A l \in Links : guesses[l] <= MaxAttempts
=============================================================================
