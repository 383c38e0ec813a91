---------------------------- MODULE AdminAccess ----------------------------
(***************************************************************************)
(* Who may do what in the back office: admins with roles, explicit         *)
(* permissions and overrides, their passwords, tokens and reset links, and *)
(* the requests that use and change them.  The super administrator, who    *)
(* has no row and every permission, gives the commands that need it.       *)
(*                                                                         *)
(* Admin rows have no version: a request writes what it loaded and changed *)
(* over whatever has been committed in between.                            *)
(***************************************************************************)
EXTENDS AdminRoutes, Integers, Sequences

CONSTANTS
  Admins,        \* rows of admin_users, each with an address of its own
  Roles,         \* rows of admin_roles, each with a name of its own
  Grants,        \* sets of permissions the super administrator hands out
  MaxLinks,      \* bound on reset links
  MaxAttempts,   \* auth.passwordReset.maxAttempts
  Requests,
  Nobody

VARIABLES
  admins,    \* rows, with their rows of admin_user_roles and admin_user_permissions
  denied,    \* rows of admin_user_permission_overrides: all of them deny
  roles,     \* rows, with their rows of admin_role_permissions
  links,     \* rows of admin_password_resets, in the order of createdAt
  tokens,    \* what an admin has been given: "access", "refresh"
  requests,
  decided,   \* history: what an admin was last answered to have been denied
  entered,   \* history: logins with the first password
  resets,    \* history: passwords set with a link
  lost       \* history: assignments of roles that were deleted with their role

rows == <<admins, denied, roles, links>>
history == <<decided, entered, resets, lost>>
vars == <<rows, tokens, requests, history>>

NoAdmin ==
  [known |-> "never", active |-> TRUE, mustChange |-> TRUE, loggedIn |-> FALSE,
   roles |-> {}, direct |-> {}]

NoRole == [known |-> "never", permissions |-> {}]

Role(P) == [known |-> "yes", permissions |-> P]

Idle ==
  [pc |-> "idle", who |-> Nobody, role |-> Nobody, first |-> FALSE, link |-> 0, failed |-> 0,
   old |-> {}, new |-> {}, oldDenied |-> {}, newDenied |-> {}]

Exists(a) == admins[a].known = "yes"

RoleExists(o) == roles[o].known = "yes"

\* The first admin of a team whose roles may have been created before.
Init ==
  /\ admins = [a \in Admins |-> NoAdmin]
  /\ denied = [a \in Admins |-> {}]
  /\ roles \in [Roles -> {NoRole} \cup {Role(P) : P \in Grants}]
  /\ links = <<>>
  /\ tokens = [a \in Admins |-> {}]
  /\ requests = [r \in Requests |-> Idle]
  /\ decided = [a \in Admins |-> {}]
  /\ entered = [a \in Admins |-> 0]
  /\ resets = [l \in 1..MaxLinks |-> 0]
  /\ lost = {}

\* A request that has loaded what it needs and goes on at pc.
Begin(r, pc, fields) ==
  /\ requests[r] = Idle
  /\ requests' = [requests EXCEPT ![r] =
       [c \in DOMAIN Idle |-> IF c = "pc" THEN pc
                              ELSE IF c \in DOMAIN fields THEN fields[c] ELSE Idle[c]]]
  /\ UNCHANGED <<rows, tokens, history>>

End(r) == requests' = [requests EXCEPT ![r] = Idle]

\* A many-to-many collection: the flush deletes and inserts what differs from
\* what was loaded.  It fails on a row that another request has inserted.
Merged(now, old, new) == (now \ (old \ new)) \cup (new \ old)

Clash(now, old, new) == (new \ old) \cap now # {}

-----------------------------------------------------------------------------
(***************************************************************************)
(* What an admin may do.                                                   *)
(***************************************************************************)
\* Roles first, then explicit permissions, and what is denied is taken away.
Effective(a) ==
  (UNION {roles[o].permissions : o \in admins[a].roles} \cup admins[a].direct) \ denied[a]

\* AdminJwtGuard reads the row at each request, whatever the token says, but not
\* whether the password must be changed.
SignedIn(a) == Exists(a) /\ admins[a].active /\ "access" \in tokens[a]

\* AdminPermissionsGuard.
May(a, route) == SignedIn(a) /\ Required(route) \subseteq Effective(a)

-----------------------------------------------------------------------------
(***************************************************************************)
(* Passwords and tokens.                                                   *)
(***************************************************************************)
\* "Please reset your password before logging in again."  isActive is not
\* looked at: only the guard does that.
MayLogin(a) == Exists(a) /\ ~(admins[a].mustChange /\ admins[a].loggedIn)

AdminLogin(r, a) ==
  /\ MayLogin(a)
  /\ Begin(r, "login", [who |-> a, first |-> admins[a].mustChange])

\* lastLoginAt is flushed; the tokens are handed out whether or not the row is
\* still there, the second one to those who want to be remembered.
GrantLogin(r) ==
  LET q == requests[r]
  IN  /\ q.pc = "login"
      /\ admins' = [admins EXCEPT ![q.who].loggedIn = TRUE]
      /\ \E given \in {{"access"}, {"access", "refresh"}} :
           tokens' = [tokens EXCEPT ![q.who] = @ \cup given]
      /\ entered' = [entered EXCEPT ![q.who] = @ + (IF q.first THEN 1 ELSE 0)]
      /\ End(r)
      /\ UNCHANGED <<denied, roles, links, decided, resets, lost>>

\* Access tokens last an hour or so, refresh tokens much longer.
Expire(a) ==
  /\ "access" \in tokens[a]
  /\ tokens' = [tokens EXCEPT ![a] = @ \ {"access"}]
  /\ UNCHANGED <<rows, requests, history>>

AdminRefresh(a) ==
  /\ "refresh" \in tokens[a] /\ Exists(a) /\ admins[a].active
  /\ tokens' = [tokens EXCEPT ![a] = @ \cup {"access"}]
  /\ UNCHANGED <<rows, requests, history>>

\* The current password is compared with the one the guard has loaded.
ChangePassword(r, a) == SignedIn(a) /\ Begin(r, "change", [who |-> a])

WithPassword(a) == [admins EXCEPT ![a].mustChange = FALSE]

ApplyChange(r) ==
  /\ requests[r].pc = "change"
  /\ admins' = WithPassword(requests[r].who)
  /\ End(r)
  /\ UNCHANGED <<denied, roles, links, tokens, history>>

-----------------------------------------------------------------------------
(***************************************************************************)
(* Reset links.                                                            *)
(***************************************************************************)
Live(a) == {l \in DOMAIN links : links[l].who = a /\ links[l].live}

Consumed(S) ==
  [l \in DOMAIN links |-> [links[l] EXCEPT !.live = @ /\ l \notin S]]

\* AdminPasswordResetService.issue: earlier links are consumed in a flush of
\* their own.
ForgotPassword(r, a) ==
  /\ requests[r] = Idle /\ Exists(a) /\ Len(links) < MaxLinks
  /\ links' = Consumed(Live(a))
  /\ requests' = [requests EXCEPT ![r] = [Idle EXCEPT !.pc = "issue", !.who = a]]
  /\ UNCHANGED <<admins, denied, roles, tokens, history>>

\* The insert fails if the admin is gone.
IssueLink(r) ==
  LET q == requests[r]
  IN  /\ q.pc = "issue" /\ Len(links) < MaxLinks
      /\ links' = IF Exists(q.who)
                  THEN Append(links, [who |-> q.who, live |-> TRUE, expired |-> FALSE, failed |-> 0])
                  ELSE links
      /\ End(r)
      /\ UNCHANGED <<admins, denied, roles, tokens, history>>

ExpireLink(l) ==
  /\ l \in DOMAIN links /\ links[l].live /\ ~links[l].expired
  /\ links' = [links EXCEPT ![l].expired = TRUE]
  /\ UNCHANGED <<admins, denied, roles, tokens, requests, history>>

\* validate looks for the newest link that has not been consumed, and compares
\* the one that was sent (0: none that exists) with it.
ResetPassword(r, a, sent) ==
  /\ Exists(a) /\ Live(a) # {}
  /\ LET newest == CHOOSE l \in Live(a) : \A k \in Live(a) : k <= l
     IN  Begin(r, IF links[newest].expired THEN "late" ELSE IF sent = newest THEN "spend" ELSE "wrong",
               [who |-> a, link |-> newest, failed |-> links[newest].failed + 1])

\* An expired link is consumed, a wrong guess is counted.
RefuseReset(r) ==
  LET q == requests[r]
  IN  /\ q.pc \in {"late", "wrong"}
      /\ links' =
           IF q.pc = "late" THEN Consumed({q.link})
           ELSE [links EXCEPT ![q.link].failed = q.failed,
                              ![q.link].live = @ /\ q.failed < MaxAttempts]
      /\ End(r)
      /\ UNCHANGED <<admins, denied, roles, tokens, history>>

\* Mutant: the link is not consumed.
MutSpend(r) ==
  /\ requests[r].pc = "spend"
  /\ requests' = [requests EXCEPT ![r].pc = "reset"]
  /\ UNCHANGED <<rows, tokens, history>>

Spend(r) ==
  /\ requests[r].pc = "spend"
  /\ links' = Consumed({requests[r].link})
  /\ requests' = [requests EXCEPT ![r].pc = "reset"]
  /\ UNCHANGED <<admins, denied, roles, tokens, history>>

ApplyReset(r) ==
  LET q == requests[r]
  IN  /\ q.pc = "reset"
      /\ admins' = WithPassword(q.who)
      /\ resets' = [resets EXCEPT ![q.link] = @ + 1]
      /\ End(r)
      /\ UNCHANGED <<denied, roles, links, tokens, decided, entered, lost>>

-----------------------------------------------------------------------------
(***************************************************************************)
(* The team, changed by the super administrator.                           *)
(***************************************************************************)
\* The address is unique, so that of two requests for it one fails.
CreateAdmin(a, R, allow, deny) ==
  /\ admins[a].known = "never"
  /\ R # {} /\ (\A o \in R : RoleExists(o)) /\ allow \cap deny = {}
  /\ admins' = [admins EXCEPT ![a] =
       [NoAdmin EXCEPT !.known = "yes", !.roles = R, !.direct = allow]]
  /\ denied' = [denied EXCEPT ![a] = deny]
  /\ decided' = [decided EXCEPT ![a] = deny]
  /\ UNCHANGED <<roles, links, tokens, requests, entered, resets, lost>>

\* Foreign keys take the admin's other rows away.
DeleteAdmin(a) ==
  /\ Exists(a)
  /\ admins' = [admins EXCEPT ![a].known = "deleted", ![a].roles = {}, ![a].direct = {}]
  /\ denied' = [denied EXCEPT ![a] = {}]
  /\ decided' = [decided EXCEPT ![a] = {}]
  /\ links' = Consumed(Live(a))
  /\ UNCHANGED <<roles, tokens, requests, entered, resets, lost>>

\* Of the profile, only isActive decides anything.
UpdateAdminProfile(a, active) ==
  /\ Exists(a)
  /\ admins' = [admins EXCEPT ![a].active = active]
  /\ UNCHANGED <<denied, roles, links, tokens, requests, history>>

SetUserRoles(r, a, R) ==
  /\ Exists(a) /\ R # {} /\ \A o \in R : RoleExists(o)
  /\ Begin(r, "setRoles", [who |-> a, old |-> admins[a].roles, new |-> R])

CommitRoles(r) ==
  LET q == requests[r]
  IN  /\ q.pc = "setRoles"
      /\ admins' =
           IF /\ Exists(q.who) /\ \A o \in q.new \ q.old : RoleExists(o)
              /\ ~Clash(admins[q.who].roles, q.old, q.new)
           THEN [admins EXCEPT ![q.who].roles = Merged(@, q.old, q.new)]
           ELSE admins
      /\ End(r)
      /\ UNCHANGED <<denied, roles, links, tokens, history>>

SetUserPermissions(r, a, allow, deny) ==
  /\ Exists(a) /\ allow \cap deny = {}
  /\ Begin(r, "setPermissions", [who |-> a, old |-> admins[a].direct, new |-> allow,
                                 oldDenied |-> denied[a], newDenied |-> deny])

\* The overrides that were loaded are deleted by their id and the new ones
\* inserted: a row that another request has loaded before is not the one it
\* finds in its place.
CommitPermissions(r) ==
  LET q == requests[r]
      kept == denied[q.who] \ q.oldDenied
      Answered == Exists(q.who) /\ ~Clash(admins[q.who].direct, q.old, q.new)
                    /\ q.newDenied \cap kept = {}
      Forgotten(s) ==
        [requests[s] EXCEPT !.oldDenied = IF requests[s].who = q.who THEN @ \ q.oldDenied ELSE @]
  IN  /\ q.pc = "setPermissions"
      /\ IF Answered
         THEN /\ admins' = [admins EXCEPT ![q.who].direct = Merged(@, q.old, q.new)]
              /\ denied' = [denied EXCEPT ![q.who] = kept \cup q.newDenied]
              /\ decided' = [decided EXCEPT ![q.who] = q.newDenied]
              /\ requests' = [s \in Requests |-> IF s = r THEN Idle ELSE Forgotten(s)]
         ELSE End(r) /\ UNCHANGED <<admins, denied, decided>>
      /\ UNCHANGED <<roles, links, tokens, entered, resets, lost>>

-----------------------------------------------------------------------------
(***************************************************************************)
(* Roles.                                                                  *)
(***************************************************************************)
CreateRole(o, P) ==
  /\ roles[o].known = "never"
  /\ roles' = [roles EXCEPT ![o] = Role(P)]
  /\ UNCHANGED <<admins, denied, links, tokens, requests, history>>

SetRolePermissions(r, o, P) ==
  /\ RoleExists(o)
  /\ Begin(r, "setRolePermissions", [role |-> o, old |-> roles[o].permissions, new |-> P])

CommitRolePermissions(r) ==
  LET q == requests[r]
  IN  /\ q.pc = "setRolePermissions"
      /\ roles' = IF RoleExists(q.role) /\ ~Clash(roles[q.role].permissions, q.old, q.new)
                  THEN [roles EXCEPT ![q.role].permissions = Merged(@, q.old, q.new)]
                  ELSE roles
      /\ End(r)
      /\ UNCHANGED <<admins, denied, links, tokens, history>>

\* Any admin with roles.edit may delete a role that nobody has.
DeleteRole(r, a, o) ==
  /\ May(a, "deleteRole") /\ RoleExists(o)
  /\ \A b \in Admins : o \notin admins[b].roles
  /\ Begin(r, "deleteRole", [role |-> o])

\* It is deleted together with the assignments made in the meantime.
RemoveRole(r) ==
  LET o == requests[r].role
  IN  /\ requests[r].pc = "deleteRole"
      /\ roles' = [roles EXCEPT ![o] = [known |-> "deleted", permissions |-> {}]]
      /\ admins' = [a \in Admins |-> [admins[a] EXCEPT !.roles = @ \ {o}]]
      /\ lost' = lost \cup {a \in Admins : o \in admins[a].roles}
      /\ End(r)
      /\ UNCHANGED <<denied, links, tokens, decided, entered, resets>>

\* The process dies with the requests under way.
Crash ==
  /\ \E r \in Requests : requests[r] # Idle
  /\ requests' = [r \in Requests |-> Idle]
  /\ UNCHANGED <<rows, tokens, history>>

-----------------------------------------------------------------------------
Request(r) ==
  \/ \E a \in Admins :
       \/ AdminLogin(r, a)
       \/ ChangePassword(r, a)
       \/ ForgotPassword(r, a)
       \/ \E sent \in 0..Len(links) : ResetPassword(r, a, sent)
       \/ \E R \in SUBSET Roles : SetUserRoles(r, a, R)
       \/ \E allow, deny \in Grants : SetUserPermissions(r, a, allow, deny)
       \/ \E o \in Roles : DeleteRole(r, a, o)
  \/ \E o \in Roles, P \in Grants : SetRolePermissions(r, o, P)

Step(r) ==
  \/ GrantLogin(r) \/ ApplyChange(r)
  \/ IssueLink(r) \/ RefuseReset(r) \/ Spend(r) \/ ApplyReset(r)
  \/ CommitRoles(r) \/ CommitPermissions(r)
  \/ CommitRolePermissions(r) \/ RemoveRole(r)

\* What takes one step, or comes from elsewhere.
Event ==
  \/ \E a \in Admins :
       \/ Expire(a) \/ AdminRefresh(a) \/ DeleteAdmin(a)
       \/ \E active \in BOOLEAN : UpdateAdminProfile(a, active)
       \/ \E R \in SUBSET Roles, allow, deny \in Grants : CreateAdmin(a, R, allow, deny)
  \/ \E o \in Roles, P \in Grants : CreateRole(o, P)
  \/ \E l \in 1..MaxLinks : ExpireLink(l)
  \/ Crash

Next == (\E r \in Requests : Request(r) \/ Step(r)) \/ Event

Spec == Init /\ [][Next]_vars

-----------------------------------------------------------------------------
TypeOK ==
  /\ \A a \in Admins :
       /\ admins[a].known \in {"never", "yes", "deleted"}
       /\ admins[a].roles \subseteq Roles
       /\ admins[a].direct \cup denied[a] \subseteq Permission
       /\ tokens[a] \subseteq {"access", "refresh"}
  /\ \A o \in Roles : roles[o].permissions \subseteq Permission
  /\ \A r \in Requests : DOMAIN requests[r] = DOMAIN Idle

\* What an admin has been denied is denied at every request that arrives after
\* the answer, until the permissions of this admin are set anew: through no role
\* and no explicit permission does it come back, whichever requests overlap.
DeniedMeansDenied ==
  \A a \in Admins : \A p \in decided[a] :
    \A route \in Route : p \in Required(route) => ~May(a, route)

\* Promised to requests that come one at a time: the first password opens the
\* door once, a link sets one password and is the only one that works, and a
\* role somebody has is not deleted.
KeptInOrder ==
  /\ \A a \in Admins : entered[a] <= 1 /\ \A k, l \in Live(a) : k = l
  /\ \A l \in 1..MaxLinks : resets[l] <= 1
  /\ lost = {}
=============================================================================
