------------------------------- MODULE AdminAuth -------------------------------
(***************************************************************************)
(* Who may do what in the admin service.  An admin is what its token says: *)
(* a set of roles and a set of tenants, or "*" for all of them.            *)
(***************************************************************************)
EXTENDS Naturals

AllTenants == "*"

Ranks == [readonly |-> 1, governance |-> 2, super |-> 3]

\* Mutant of TenantScopes: no scope stays no scope.
TenantScopesAsGiven(admin) == admin.scopes

\* normalizeStringSet: no scope at all stands for all tenants.
TenantScopes(admin) ==
    IF admin.scopes = {} \/ AllTenants \in admin.scopes THEN {AllTenants} ELSE admin.scopes

IsGlobalScope(admin) == AllTenants \in TenantScopes(admin)

CanAccessTenant(admin, t) == IsGlobalScope(admin) \/ t \in TenantScopes(admin)

HasMinimumRole(admin, role) == \E held \in admin.roles : Ranks[held] >= Ranks[role]

\* operationRules
MinimumRole ==
    [createTenant |-> "super", patchTenant |-> "governance", patchTenantPolicy |-> "governance",
     getTenant |-> "readonly", getTenantPolicy |-> "readonly", getTenantUsage |-> "readonly",
     listTenants |-> "readonly", listFiles |-> "readonly", getFile |-> "readonly",
     listAuditLogs |-> "readonly"]

AuthorizeOperation(admin, op) == HasMinimumRole(admin, MinimumRole[op])

\* Both checks of an operation on one tenant.
MayOperate(admin, op, t) == AuthorizeOperation(admin, op) /\ CanAccessTenant(admin, t)
==============================================================================
