---------------------------- MODULE AdminRoutes ----------------------------
(***************************************************************************)
(* What the back office offers, as pairs of a controller method and the    *)
(* permission that AdminPermissionsGuard asks for; the prefix "admin." of  *)
(* the permission codes is left out.                                       *)
(***************************************************************************)

\* ADMIN_PERMISSION_DEFINITIONS.
Permission ==
  {"dashboard.view", "users.view", "users.edit", "users.toggle-status",
   "users.notifications.manage", "users.delete", "pod-plans.view",
   "pod-plans.refresh", "pods.view", "transactions.view", "kyc.view",
   "team.view", "team.manage", "team.assign-roles", "roles.edit",
   "announcements.create", "payouts.trigger"}

-----------------------------------------------------------------------------
\* AdminAccountsController.
AccountListings ==
  {"listAccounts", "listAllAccounts", "listVerifications", "getAccount"}
    \X {"users.view"}

AccountSettings ==
  {<<"updateNotifications", "users.notifications.manage">>,
   <<"updateStatus", "users.toggle-status">>, <<"updateProfile", "users.edit">>}

AccountFinances == {"listAccountPayments", "listAccountPayouts"} \X {"users.view"}

AccountFlags == {"updateFlags", "removeBankAccount"} \X {"users.notifications.manage"}

AccountDeletion == {<<"deleteAccount", "users.delete">>}

AccountPods == {"accountAchievements", "accountPods"} \X {"users.view"}

\* AdminPodsController: looking at pods, and three ways to change what they pay.
PodListings ==
  {"podStats", "listIncomplete", "listOpen", "listPendingInvites", "listMembers",
   "listPodPayouts"} \X {"pods.view"}

PodPayouts ==
  {"swapPayouts", "updatePayoutStatus"} \X {"pods.view"}
    \cup {<<"triggerPayout", "payouts.trigger">>}

PodDetails == {"listPods", "getPod", "listPodActivities", "markPayout"} \X {"pods.view"}

\* AdminUsersController.
TeamMembers ==
  {"listTeam", "getTeamMember"} \X {"team.view"}
    \cup {"createAdmin", "updateAdmin", "deleteAdmin"} \X {"team.manage"}

TeamAccess ==
  {<<"setRoles", "team.assign-roles">>, <<"setPermissions", "team.manage">>}

RolesRoutes ==
  {"listRoles", "createRole", "updateRole", "deleteRole", "setRolePermissions"}
    \X {"roles.edit"}

PermissionRoutes == {<<"listPermissions", "team.assign-roles">>}

DashboardRoutes == {<<"getDashboard", "dashboard.view">>}

PlanRoutes ==
  {<<"listPlans", "pod-plans.view">>}
    \cup {"createPlan", "updatePlan", "deletePlan"} \X {"pod-plans.refresh"}

EmailRoutes ==
  {"listManualTemplates", "sendManualTemplate"} \X {"users.notifications.manage"}

AnnouncementRoutes ==
  {"listAnnouncements", "createAnnouncement"} \X {"announcements.create"}

Guarded ==
  AccountListings \cup AccountSettings \cup AccountFinances \cup AccountFlags
    \cup AccountDeletion \cup AccountPods \cup PodListings \cup PodPayouts
    \cup PodDetails \cup TeamMembers \cup TeamAccess \cup RolesRoutes
    \cup PermissionRoutes \cup DashboardRoutes \cup PlanRoutes \cup EmailRoutes
    \cup AnnouncementRoutes

\* Methods behind AdminJwtGuard alone.
Open == {"changePassword", "me", "listAchievements"}

Route == Open \cup {g[1] : g \in Guarded}

\* The metadata of RequireAdminPermissions.
Required(route) == {p \in Permission : <<route, p>> \in Guarded}
=============================================================================
