------------------------------ MODULE TenantAdmin ------------------------------
(***************************************************************************)
(* The admin service's writes on tenants and their policies: each request  *)
(* is one PostgreSQL transaction (READ COMMITTED) of several statements    *)
(* that ends with an audit record.  A statement reads what is committed,   *)
(* and an INSERT or UPDATE waits for the row's lock, which is kept to the  *)
(* end of the transaction.                                                 *)
(*                                                                         *)
(* A row is a function of its columns and a patch of the same columns, Nil *)
(* where it leaves one alone.  One column stands for those the code treats *)
(* alike: contact for contact_email and description, limit for the three   *)
(* numeric limits, types for the two allow lists.                          *)
(*                                                                         *)
(* created_at of an audit record is the clock of the process that appends  *)
(* it.  The clocks of the replicas are taken to agree.                     *)
(***************************************************************************)
EXTENDS AdminAuth, FiniteSets

CONSTANTS
    Nil,
    Requests,       \* HTTP requests, each used once
    Tenants,
    Admins,         \* [roles, scopes] of the tokens in use
    Names,
    Contacts,       \* a tenant without one among them
    Types,          \* MIME types and extensions
    DefaultPolicy,  \* the row CreateDefault inserts
    TenantPatches,  \* bodies of PATCH /tenants/{tenantId}
    PolicyPatches,  \* bodies of PATCH /tenants/{tenantId}/policy
    MaxFaults       \* bound on failing statements and lost replies

Statuses == {"ACTIVE", "SUSPENDED", "DELETED"}
TenantRow == [status : Statuses, name : Names, contact : Contacts, deleted : BOOLEAN]
PolicyRow == [limit : Nat \ {0}, types : SUBSET Types, auto : BOOLEAN, level : {"PUBLIC", "PRIVATE"}]

\* A body: the columns, as the client sends them, and whether it gives a reason.
TenantPatch == [status : Statuses \cup {Nil, "OTHER"}, name : Names \cup {Nil},
                contact : Contacts \cup {Nil}, reason : BOOLEAN]
PolicyPatch == [limit : {Nil} \cup Nat, types : {Nil} \cup SUBSET Types,
                auto : {Nil} \cup BOOLEAN, level : {"PUBLIC", "PRIVATE", "OTHER", Nil},
                reason : BOOLEAN]

ASSUME TenantAdminAssumption ==
    /\ Nil \notin Requests \cup Names \cup Contacts \cup Statuses \cup {"OK"}
    /\ Nil \notin TenantRow \cup PolicyRow
    /\ DefaultPolicy \in PolicyRow
    /\ TenantPatches \subseteq TenantPatch
    /\ PolicyPatches \subseteq PolicyPatch
    /\ MaxFaults \in Nat

VARIABLES
    tenants,   \* tenant.tenants
    policies,  \* tenant.tenant_policies
    usages,    \* tenant.tenant_usage: the tenants that have a row
    audits,    \* audit.admin_audit_logs
    locked,    \* for each table and tenant, the request that holds the row's lock
    req,
    clock,     \* orders created_at of audit records
    faults

tables == <<tenants, policies, usages, audits>>
vars == <<tables, locked, req, clock, faults>>

Tables == {"tenants", "policies"}

\* A request: its input; the policy it read; the rows and the audit record its
\* transaction has written and not committed.
Unused == [pc |-> "new", op |-> Nil, admin |-> Nil, tenant |-> Nil, patch |-> Nil, seen |-> Nil,
           row |-> Nil, policy |-> Nil, usage |-> FALSE, audit |-> Nil, code |-> Nil]

Answered(code) == [Unused EXCEPT !.pc = "done", !.code = code]

Unlocked(r) == [table \in Tables |->
                  [t \in Tenants |-> IF locked[table][t] = r THEN Nil ELSE locked[table][t]]]

------------------------------------------------------------------------------
(* Patches. *)

IsEmpty(patch) == \A column \in DOMAIN patch \ {"reason"} : patch[column] = Nil

\* ApplyTo, and the CASE WHEN of each column of an UPDATE.
ApplyTo(patch, row) ==
    [column \in DOMAIN row |-> IF patch[column] = Nil THEN row[column] ELSE patch[column]]

IsDestructive(status) == status \in {"SUSPENDED", "DELETED"}

\* The patched tenant row; deleted_at follows a status that is given.
PatchedTenant(patch, row) ==
    [status |-> IF patch.status = Nil THEN row.status ELSE patch.status,
     name |-> IF patch.name = Nil THEN row.name ELSE patch.name,
     contact |-> IF patch.contact = Nil THEN row.contact ELSE patch.contact,
     deleted |-> IF patch.status = Nil THEN row.deleted ELSE patch.status = "DELETED"]

ValidTenantPatch(patch) == ~IsEmpty(patch) /\ patch.status # "OTHER"

ValidPolicyPatch(patch) == ~IsEmpty(patch) /\ patch.limit # 0 /\ patch.level # "OTHER"

\* stringSetTightens: no list allows everything; a list that allows something
\* new is no tightening.
stringSetTightens(current, next) ==
    next # {} /\ (current = {} \/ (next \subseteq current /\ next # current))

TightensComparedTo(next, current) ==
    \/ next.limit < current.limit
    \/ stringSetTightens(current.types, next.types)
    \/ current.auto /\ ~next.auto

------------------------------------------------------------------------------
(* Requests. *)

Begin(r, op, a, t, patch, pc) ==
    req' = [req EXCEPT ![r] = [Unused EXCEPT !.pc = pc, !.op = op, !.admin = a, !.tenant = t,
                                             !.patch = patch]]
Refuse(r, code) == req' = [req EXCEPT ![r] = Answered(code)]

\* CreateTenant up to its transaction.
CreateTenant(r, a, t, n, c) ==
    /\ req[r].pc = "new"
    /\ IF MayOperate(a, "createTenant", t)
       THEN Begin(r, "createTenant", a, t,
                  [status |-> "ACTIVE", name |-> n, contact |-> c, reason |-> FALSE], "insert")
       ELSE Refuse(r, "DENIED")
    /\ UNCHANGED <<tables, locked, clock, faults>>

\* PatchTenant up to its transaction.
PatchTenant(r, a, t, patch) ==
    /\ req[r].pc = "new"
    /\ IF ~ValidTenantPatch(patch) THEN Refuse(r, "INVALID")
       ELSE IF ~MayOperate(a, "patchTenant", t) THEN Refuse(r, "DENIED")
       ELSE IF IsDestructive(patch.status) /\ ~patch.reason THEN Refuse(r, "INVALID")
       ELSE Begin(r, "patchTenant", a, t, patch, "update")
    /\ UNCHANGED <<tables, locked, clock, faults>>

\* PatchTenantPolicy up to its transaction.
PatchTenantPolicy(r, a, t, patch) ==
    /\ req[r].pc = "new"
    /\ IF ValidPolicyPatch(patch) THEN Begin(r, "patchTenantPolicy", a, t, patch, "read")
       ELSE Refuse(r, "INVALID")
    /\ UNCHANGED <<tables, locked, clock, faults>>

------------------------------------------------------------------------------
(* Statements. *)

\* The row of a tenant that is created.
NewRow(patch) ==
    [status |-> "ACTIVE", name |-> patch.name, contact |-> patch.contact, deleted |-> FALSE]

Lock(r, table, t) == locked' = [locked EXCEPT ![table][t] = r]

\* Mutant of InsertTenant: the row is inserted outside the transaction.
InsertTenantOutside(r) ==
    LET t == req[r].tenant IN
    /\ req[r].pc = "insert" /\ locked["tenants"][t] = Nil
    /\ IF tenants[t] # Nil THEN Refuse(r, "CONFLICT") /\ UNCHANGED <<tenants, locked>>
       ELSE /\ tenants' = [tenants EXCEPT ![t] = NewRow(req[r].patch)]
            /\ req' = [req EXCEPT ![r].pc = "defaults", ![r].row = tenants'[t]]
            /\ Lock(r, "tenants", t)
    /\ UNCHANGED <<policies, usages, audits, clock, faults>>

\* Create: waits for an uncommitted row with the same key; a committed one is a
\* conflict and rolls back.
InsertTenant(r) ==
    LET t == req[r].tenant IN
    /\ req[r].pc = "insert" /\ locked["tenants"][t] = Nil
    /\ IF tenants[t] # Nil THEN Refuse(r, "CONFLICT") /\ UNCHANGED locked
       ELSE /\ req' = [req EXCEPT ![r].pc = "defaults", ![r].row = NewRow(req[r].patch)]
            /\ Lock(r, "tenants", t)
    /\ UNCHANGED <<tables, clock, faults>>

\* CreateDefault and Initialize.
InsertDefaults(r) ==
    /\ req[r].pc = "defaults"
    /\ req' = [req EXCEPT ![r].pc = "audit", ![r].policy = DefaultPolicy, ![r].usage = TRUE]
    /\ UNCHANGED <<tables, locked, clock, faults>>

\* The tenant repository's Patch.
UpdateTenant(r) ==
    LET t == req[r].tenant IN
    /\ req[r].pc = "update" /\ locked["tenants"][t] = Nil
    /\ IF tenants[t] = Nil THEN Refuse(r, "NOT_FOUND") /\ UNCHANGED locked
       ELSE /\ req' = [req EXCEPT ![r].pc = "audit", ![r].row = PatchedTenant(req[r].patch, tenants[t])]
            /\ Lock(r, "tenants", t)
    /\ UNCHANGED <<tables, clock, faults>>

\* Mutant of ReadPolicy: only the limits are compared.
ReadPolicyLimitsOnly(r) ==
    LET t == req[r].tenant
        patch == req[r].patch IN
    /\ req[r].pc = "read"
    /\ IF policies[t] = Nil THEN Refuse(r, "NOT_FOUND")
       ELSE IF ~MayOperate(req[r].admin, "patchTenantPolicy", t) THEN Refuse(r, "DENIED")
       ELSE IF ApplyTo(patch, policies[t]).limit < policies[t].limit /\ ~patch.reason
       THEN Refuse(r, "INVALID")
       ELSE req' = [req EXCEPT ![r].pc = "updatePolicy", ![r].seen = policies[t]]
    /\ UNCHANGED <<tables, locked, clock, faults>>

\* GetByTenantID, which takes no lock, and the guard on what it read.
ReadPolicy(r) ==
    LET t == req[r].tenant
        patch == req[r].patch IN
    /\ req[r].pc = "read"
    /\ IF policies[t] = Nil THEN Refuse(r, "NOT_FOUND")
       ELSE IF ~MayOperate(req[r].admin, "patchTenantPolicy", t) THEN Refuse(r, "DENIED")
       ELSE IF TightensComparedTo(ApplyTo(patch, policies[t]), policies[t]) /\ ~patch.reason
       THEN Refuse(r, "INVALID")
       ELSE req' = [req EXCEPT ![r].pc = "updatePolicy", ![r].seen = policies[t]]
    /\ UNCHANGED <<tables, locked, clock, faults>>

\* Mutant of UpdatePolicy: all columns are written, from what was read.
UpdateWholePolicy(r) ==
    LET t == req[r].tenant IN
    /\ req[r].pc = "updatePolicy" /\ locked["policies"][t] = Nil
    /\ req' = [req EXCEPT ![r].pc = "audit", ![r].policy = ApplyTo(req[r].patch, req[r].seen)]
    /\ Lock(r, "policies", t)
    /\ UNCHANGED <<tables, clock, faults>>

\* The policy repository's Patch: columns of the row as it is by then.
UpdatePolicy(r) ==
    LET t == req[r].tenant IN
    /\ req[r].pc = "updatePolicy" /\ locked["policies"][t] = Nil
    /\ req' = [req EXCEPT ![r].pc = "audit", ![r].policy = ApplyTo(req[r].patch, policies[t])]
    /\ Lock(r, "policies", t)
    /\ UNCHANGED <<tables, clock, faults>>

\* The details of an audit record: the columns that were set, but of a creation
\* only the name and the status.
Details(op, patch) == IF op = "createTenant" THEN [patch EXCEPT !.contact = Nil] ELSE patch

\* newAuditRecord and Append.
AppendAudit(r) ==
    /\ req[r].pc = "audit"
    /\ req' = [req EXCEPT ![r].pc = "commit",
                  ![r].audit = [at |-> clock, request |-> r, op |-> req[r].op, admin |-> req[r].admin,
                                tenant |-> req[r].tenant, patch |-> Details(req[r].op, req[r].patch)]]
    /\ clock' = clock + 1
    /\ UNCHANGED <<tables, locked, faults>>

\* Mutant of Write: the audit record of a patch is lost.
WriteUnaudited(r) ==
    LET t == req[r].tenant IN
    /\ tenants' = IF req[r].row = Nil THEN tenants ELSE [tenants EXCEPT ![t] = req[r].row]
    /\ policies' = IF req[r].policy = Nil THEN policies ELSE [policies EXCEPT ![t] = req[r].policy]
    /\ usages' = IF req[r].usage THEN usages \cup {t} ELSE usages
    /\ audits' = IF req[r].usage THEN audits \cup {req[r].audit} ELSE audits
    /\ locked' = Unlocked(r)

\* What a committed transaction leaves behind.
Write(r) ==
    LET t == req[r].tenant IN
    /\ tenants' = IF req[r].row = Nil THEN tenants ELSE [tenants EXCEPT ![t] = req[r].row]
    /\ policies' = IF req[r].policy = Nil THEN policies ELSE [policies EXCEPT ![t] = req[r].policy]
    /\ usages' = IF req[r].usage THEN usages \cup {t} ELSE usages
    /\ audits' = audits \cup {req[r].audit}
    /\ locked' = Unlocked(r)

Commit(r) ==
    /\ req[r].pc = "commit"
    /\ Write(r)
    /\ req' = [req EXCEPT ![r] = Answered("OK")]
    /\ UNCHANGED <<clock, faults>>

\* WithinTransaction when a statement or the commit fails, the client goes away
\* or the process dies: everything is rolled back.
Rollback(r) ==
    /\ req[r].pc \notin {"new", "done"}
    /\ faults < MaxFaults /\ faults' = faults + 1
    /\ locked' = Unlocked(r)
    /\ req' = [req EXCEPT ![r] = Answered("UNAVAILABLE")]
    /\ UNCHANGED <<tables, clock>>

\* The transaction commits and the reply is lost.
CommitReplyLost(r) ==
    /\ req[r].pc = "commit"
    /\ faults < MaxFaults /\ faults' = faults + 1
    /\ Write(r)
    /\ req' = [req EXCEPT ![r] = Answered("UNAVAILABLE")]
    /\ UNCHANGED clock

------------------------------------------------------------------------------
Init ==
    /\ tenants = [t \in Tenants |-> Nil]
    /\ policies = [t \in Tenants |-> Nil]
    /\ usages = {}
    /\ audits = {}
    /\ locked = [table \in Tables |-> [t \in Tenants |-> Nil]]
    /\ req = [r \in Requests |-> Unused]
    /\ clock = 0
    /\ faults = 0

Arrive(r) ==
    \E a \in Admins, t \in Tenants :
       \/ \E n \in Names, c \in Contacts : CreateTenant(r, a, t, n, c)
       \/ \E patch \in TenantPatches : PatchTenant(r, a, t, patch)
       \/ \E patch \in PolicyPatches : PatchTenantPolicy(r, a, t, patch)

Statement(r) ==
    \/ InsertTenant(r) \/ InsertDefaults(r) \/ UpdateTenant(r) \/ ReadPolicy(r)
    \/ UpdatePolicy(r) \/ AppendAudit(r) \/ Commit(r) \/ Rollback(r) \/ CommitReplyLost(r)

Next == \E r \in Requests : Arrive(r) \/ Statement(r)

Spec == Init /\ [][Next]_vars

------------------------------------------------------------------------------
(* Properties. *)

Audit == [at : Nat, request : Requests, op : {"createTenant", "patchTenant", "patchTenantPolicy"},
          admin : Admins, tenant : Tenants, patch : TenantPatch \cup PolicyPatch]

\* A tenant is whole or not there: its row, its policy, its usage and exactly
\* one record of its creation come together, however creations of the same
\* tenant race, fail and are sent again.
TenantWhole ==
    \A t \in Tenants :
       LET created == {a \in audits : a.tenant = t /\ a.op = "createTenant"} IN
       IF tenants[t] = Nil THEN policies[t] = Nil /\ t \notin usages /\ created = {}
       ELSE policies[t] # Nil /\ t \in usages /\ Cardinality(created) = 1

\* The value a column has after the given changes, applied in the order of
\* their audit records.
LastValue(changes, column, default) ==
    LET setting == {a \in changes : a.patch[column] # Nil} IN
    IF setting = {} THEN default
    ELSE (CHOOSE a \in setting : \A b \in setting : b.at <= a.at).patch[column]

Changes(t, ops) == {a \in audits : a.tenant = t /\ a.op \in ops}

\* The audit log explains the tables: applying a tenant's records in the order
\* of created_at gives its name, its status and its policy, and its e-mail and
\* description once a patch has set them (the record of a creation does not name
\* them), so concurrent patches lose no update and no record is in the wrong
\* place.  deleted_at is set exactly for a DELETED tenant.
AuditReplays ==
    \A t \in Tenants : tenants[t] # Nil =>
       LET changes == Changes(t, {"createTenant", "patchTenant"}) IN
       /\ \A column \in {"status", "name"} :
             tenants[t][column] = LastValue(changes, column, Nil)
       /\ (\E a \in changes : a.patch.contact # Nil) =>
             tenants[t].contact = LastValue(changes, "contact", Nil)
       /\ tenants[t].deleted = (tenants[t].status = "DELETED")
       /\ \A column \in DOMAIN DefaultPolicy :
             policies[t][column] =
                LastValue(Changes(t, {"patchTenantPolicy"}), column, DefaultPolicy[column])

\* What a client was told agrees with the audit log: a change that was answered
\* with success is recorded once, one that was refused is not.
AnswersAudited ==
    \A r \in Requests :
       LET records == {a \in audits : a.request = r} IN
       /\ Cardinality(records) <= 1
       /\ req[r].code = "OK" => records # {}
       /\ req[r].code \notin {"OK", "UNAVAILABLE"} => records = {}

\* The requests whose transaction a step commits.
Committed(r) == req[r].pc = "commit" /\ req[r].audit \in audits'

\* A change is made by an admin with the role and the tenant in scope, and one
\* that suspends or deletes the tenant, or tightens its policy, has a reason.
\* A policy change escapes this only when the policy changed between the guard
\* and the UPDATE.
ChangesAuthorised ==
    [][\A r \in Requests : Committed(r) =>
          LET t == req[r].tenant
              patch == req[r].patch IN
          /\ MayOperate(req[r].admin, req[r].op, t)
          /\ tenants[t] # Nil /\ tenants'[t].status # tenants[t].status
                /\ IsDestructive(tenants'[t].status) => patch.reason
          /\ policies[t] # Nil /\ TightensComparedTo(policies'[t], policies[t]) =>
                patch.reason \/ req[r].seen # policies[t]]_vars
==============================================================================
