-------------------------- MODULE TenantAdmin_proofs --------------------------
(***************************************************************************)
(* Proofs about TenantAdmin for any tenants, admins, requests, patches and *)
(* faults.  A request that has written keeps the lock of its row, so what  *)
(* it computed from the row, and the place of its record among the records *)
(* of that row, still hold when it commits.                                *)
(***************************************************************************)
EXTENDS TenantAdmin, FiniteSetTheorems, TLAPS

------------------------------------------------------------------------------
(* The inductive invariant. *)

Ops == {"createTenant", "patchTenant", "patchTenantPolicy"}
Codes == {"OK", "UNAVAILABLE", "DENIED", "INVALID", "CONFLICT", "NOT_FOUND"}

Request ==
    [pc : {"new", "insert", "defaults", "update", "read", "updatePolicy", "audit", "commit", "done"},
     op : Ops \cup {Nil}, admin : Admins \cup {Nil}, tenant : Tenants \cup {Nil},
     patch : TenantPatch \cup PolicyPatch \cup {Nil}, seen : PolicyRow \cup {Nil},
     row : TenantRow \cup {Nil}, policy : PolicyRow \cup {Nil}, usage : BOOLEAN,
     audit : Audit \cup {Nil}, code : Codes \cup {Nil}]

Shape ==
    /\ tenants \in [Tenants -> TenantRow \cup {Nil}]
    /\ policies \in [Tenants -> PolicyRow \cup {Nil}]
    /\ usages \subseteq Tenants
    /\ audits \subseteq Audit
    /\ locked \in [Tables -> [Tenants -> Requests \cup {Nil}]]
    /\ req \in [Requests -> Request]
    /\ clock \in Nat

\* The table whose row an operation locks and whose columns its record sets.
Table(op) == IF op = "patchTenantPolicy" THEN "policies" ELSE "tenants"

\* What a request that creates a tenant carries.
Creation(n, c) == [status |-> "ACTIVE", name |-> n, contact |-> c, reason |-> FALSE]

\* What the guards of each handler established.
Input(r) ==
    /\ req[r].tenant \in Tenants /\ req[r].admin \in Admins
    /\ req[r].op = "createTenant" =>
          /\ MayOperate(req[r].admin, req[r].op, req[r].tenant)
          /\ \E n \in Names, c \in Contacts : req[r].patch = Creation(n, c)
    /\ req[r].op = "patchTenant" =>
          /\ MayOperate(req[r].admin, req[r].op, req[r].tenant)
          /\ req[r].patch \in TenantPatch /\ ValidTenantPatch(req[r].patch)
          /\ IsDestructive(req[r].patch.status) => req[r].patch.reason
    /\ req[r].op = "patchTenantPolicy" =>
          /\ req[r].patch \in PolicyPatch /\ ValidPolicyPatch(req[r].patch)

Guarded(r) ==
    req[r].op = "patchTenantPolicy" /\ req[r].pc # "read" =>
       /\ MayOperate(req[r].admin, req[r].op, req[r].tenant)
       /\ req[r].seen \in PolicyRow /\ policies[req[r].tenant] # Nil
       /\ TightensComparedTo(ApplyTo(req[r].patch, req[r].seen), req[r].seen) => req[r].patch.reason

\* What the transaction has written, from the row as it still is.
Written(r) ==
    IF req[r].pc \in {"insert", "update", "read", "updatePolicy"}
    THEN req[r].row = Nil /\ req[r].policy = Nil /\ ~req[r].usage
    ELSE /\ req[r].op = "createTenant" => tenants[req[r].tenant] = Nil /\ req[r].row = NewRow(req[r].patch)
         /\ req[r].op = "createTenant" /\ req[r].pc # "defaults" => req[r].policy = DefaultPolicy /\ req[r].usage
         /\ req[r].op = "patchTenant" =>
               /\ tenants[req[r].tenant] # Nil /\ req[r].row = PatchedTenant(req[r].patch, tenants[req[r].tenant])
               /\ req[r].policy = Nil /\ ~req[r].usage
         /\ req[r].op = "patchTenantPolicy" =>
               /\ req[r].policy = ApplyTo(req[r].patch, policies[req[r].tenant])
               /\ req[r].row = Nil /\ ~req[r].usage

OpOf(pc) ==
    IF pc \in {"insert", "defaults"} THEN {"createTenant"}
    ELSE IF pc = "update" THEN {"patchTenant"}
    ELSE IF pc \in {"read", "updatePolicy"} THEN {"patchTenantPolicy"}
    ELSE Ops

\* A request in the middle of its transaction.
Underway(r) ==
    /\ req[r].op \in OpOf(req[r].pc) /\ req[r].code = Nil
    /\ Input(r) /\ Guarded(r) /\ Written(r)
    /\ req[r].pc \in {"defaults", "audit", "commit"} => locked[Table(req[r].op)][req[r].tenant] = r
    /\ req[r].pc = "commit" =>
          /\ req[r].audit \in Audit
          /\ req[r].audit.request = r /\ req[r].audit.op = req[r].op /\ req[r].audit.admin = req[r].admin
          /\ req[r].audit.tenant = req[r].tenant /\ req[r].audit.patch = Details(req[r].op, req[r].patch)

Fits(r) ==
    /\ req[r].pc = "new" => req[r].code = Nil
    /\ req[r].pc \notin {"new", "done"} => Underway(r)

Fitting == \A r \in Requests : Fits(r)

\* A record waiting for its commit is later than all records of its row, and
\* no two records are of one time.
Stamps ==
    /\ \A a \in audits : a.at < clock
    /\ \A r \in Requests : req[r].pc = "commit" =>
          /\ req[r].audit.at < clock
          /\ \A a \in audits : /\ a.at # req[r].audit.at
                               /\ a.tenant = req[r].tenant /\ Table(a.op) = Table(req[r].op) =>
                                     a.at < req[r].audit.at
          /\ \A q \in Requests : q # r /\ req[q].pc = "commit" => req[q].audit.at # req[r].audit.at

\* Records are of requests that are over, one for each.
Recorded ==
    /\ \A a \in audits : /\ req[a.request].pc = "done"
                         /\ req[a.request].code \in {"OK", "UNAVAILABLE"}
    /\ \A a, b \in audits : a.request = b.request => a = b
    /\ \A r \in Requests : req[r].code = "OK" => \E a \in audits : a.request = r

\* A record sets columns of its own table.
RecordShape ==
    \A a \in audits : IF a.op = "patchTenantPolicy" THEN a.patch \in PolicyPatch ELSE a.patch \in TenantPatch

Whole ==
    /\ \A a \in audits : tenants[a.tenant] # Nil
    /\ \A a, b \in audits : a.op = "createTenant" /\ b.op = "createTenant" /\ a.tenant = b.tenant => a = b
    /\ \A t \in Tenants : IF tenants[t] = Nil THEN policies[t] = Nil /\ t \notin usages
                          ELSE /\ policies[t] # Nil /\ t \in usages
                               /\ \E a \in audits : a.tenant = t /\ a.op = "createTenant"

IInv == Shape /\ Fitting /\ Stamps /\ Recorded /\ RecordShape /\ Whole /\ AuditReplays

------------------------------------------------------------------------------
(* Rows, patches and the replay of records. *)

\* What the proofs use of the constants.
LEMMA Constants ==
  /\ Nil \notin Requests /\ Nil \notin Names /\ Nil \notin Contacts /\ Nil \notin Statuses /\ Nil # "OK"
  /\ Nil \notin TenantRow /\ Nil \notin PolicyRow /\ DefaultPolicy \in PolicyRow
  /\ TenantPatches \subseteq TenantPatch /\ PolicyPatches \subseteq PolicyPatch
  BY TenantAdminAssumption

\* A valid patch makes a tenant row of a tenant row.
LEMMA PatchedTenantType ==
  ASSUME NEW row \in TenantRow, NEW patch \in TenantPatch, ValidTenantPatch(patch)
  PROVE  PatchedTenant(patch, row) \in TenantRow
  <1>1. /\ patch.status \in Statuses \cup {Nil} /\ patch.name \in Names \cup {Nil}
        /\ patch.contact \in Contacts \cup {Nil}
    BY DEF TenantPatch, ValidTenantPatch
  <1>2. row.status \in Statuses /\ row.name \in Names /\ row.contact \in Contacts /\ row.deleted \in BOOLEAN
    BY DEF TenantRow
  <1>3. (patch.status = "DELETED") \in BOOLEAN
    OBVIOUS
  <1> QED
    BY <1>1, <1>2, <1>3 DEF PatchedTenant, TenantRow

\* A creation sets every column of the row, and its audit record leaves out the
\* contact.
LEMMA CreationDetails ==
  ASSUME NEW n \in Names, NEW c \in Contacts
  PROVE  /\ Creation(n, c) \in TenantPatch /\ NewRow(Creation(n, c)) \in TenantRow
         /\ Details("createTenant", Creation(n, c)) \in TenantPatch
         /\ Details("createTenant", Creation(n, c)).status = "ACTIVE"
         /\ Details("createTenant", Creation(n, c)).name = n
         /\ Details("createTenant", Creation(n, c)).contact = Nil
  <1> DEFINE d == [status |-> "ACTIVE", name |-> n, contact |-> Nil, reason |-> FALSE]
  <1>1. Details("createTenant", Creation(n, c)) = d
    BY DEF Details, Creation
  <1>2. Creation(n, c) \in TenantPatch
    BY DEF Creation, TenantPatch, Statuses
  <1>3. NewRow(Creation(n, c)) \in TenantRow
    BY DEF Creation, NewRow, TenantRow, Statuses
  <1>4. d \in TenantPatch /\ d.status = "ACTIVE" /\ d.name = n /\ d.contact = Nil
    BY DEF TenantPatch, Statuses
  <1> HIDE DEF d
  <1> QED
    BY <1>1, <1>2, <1>3, <1>4

\* The record of a patch names every column that it sets.
LEMMA PatchDetails == ASSUME NEW op, op # "createTenant", NEW patch PROVE Details(op, patch) = patch
  BY DEF Details

\* The columns of a policy row.
LEMMA PolicyColumns == ASSUME NEW row \in PolicyRow PROVE DOMAIN row = {"limit", "types", "auto", "level"}
  BY DEF PolicyRow

\* A valid patch makes a policy row of a policy row.
LEMMA ApplyToType ==
  ASSUME NEW row \in PolicyRow, NEW patch \in PolicyPatch, ValidPolicyPatch(patch)
  PROVE  ApplyTo(patch, row) \in PolicyRow
  <1> DEFINE v(column) == IF patch[column] = Nil THEN row[column] ELSE patch[column]
             new == [limit |-> v("limit"), types |-> v("types"), auto |-> v("auto"), level |-> v("level")]
  <1>1. ApplyTo(patch, row) = new
    BY PolicyColumns DEF ApplyTo
  <1>2. /\ row["limit"] \in Nat \ {0} /\ row["types"] \in SUBSET Types
        /\ row["auto"] \in BOOLEAN /\ row["level"] \in {"PUBLIC", "PRIVATE"}
    BY DEF PolicyRow
  <1>3. /\ patch["limit"] \in {Nil} \cup (Nat \ {0}) /\ patch["types"] \in {Nil} \cup SUBSET Types
        /\ patch["auto"] \in {Nil} \cup BOOLEAN /\ patch["level"] \in {"PUBLIC", "PRIVATE", Nil}
    BY DEF PolicyPatch, ValidPolicyPatch
  <1>4. /\ v("limit") \in Nat \ {0} /\ v("types") \in SUBSET Types
        /\ v("auto") \in BOOLEAN /\ v("level") \in {"PUBLIC", "PRIVATE"}
    BY <1>2, <1>3
  <1> HIDE DEF v
  <1> QED
    BY <1>1, <1>4 DEF PolicyRow

\* A row is no tighter than itself.
LEMMA NoTighterThanItself == ASSUME NEW row \in PolicyRow PROVE ~TightensComparedTo(row, row)
  <1>1. row.limit \in Nat
    BY DEF PolicyRow
  <1>2. ~(row.limit < row.limit)
    BY <1>1
  <1> QED
    BY <1>2 DEF TightensComparedTo, stringSetTightens

\* The last value, from the changes that set the column.
LEMMA LastValueIs ==
  ASSUME NEW S, NEW column, NEW default, NEW U, U = {b \in S : b.patch[column] # Nil}
  PROVE  LastValue(S, column, default) =
            IF U = {} THEN default ELSE (CHOOSE x \in U : \A b \in U : b.at <= x.at).patch[column]
  BY DEF LastValue

\* A later change decides the columns it sets ...
LEMMA LastValueSet ==
  ASSUME NEW S, NEW a, NEW column, NEW default, NEW value, a.patch[column] = value, value # Nil,
         a.at \in Nat, \A b \in S : b.at \in Nat /\ b.at < a.at
  PROVE  LastValue(S \cup {a}, column, default) = value
  <1>1. PICK U : U = {b \in S \cup {a} : b.patch[column] # Nil}
    OBVIOUS
  <1>2. a \in U /\ \A b \in U : b = a \/ b \in S
    BY <1>1
  <1>3. \A b \in U : b.at <= a.at
    BY <1>2
  <1>4. \A x \in U : a.at <= x.at => x = a
    BY <1>2
  <1>5. (CHOOSE x \in U : \A b \in U : b.at <= x.at) = a
    BY <1>2, <1>3, <1>4
  <1>6. LastValue(S \cup {a}, column, default) =
           IF U = {} THEN default ELSE (CHOOSE x \in U : \A b \in U : b.at <= x.at).patch[column]
    BY <1>1, LastValueIs
  <1> QED
    BY <1>2, <1>5, <1>6

\* ... and leaves the others.
LEMMA LastValueKept ==
  ASSUME NEW S, NEW a, NEW column, NEW default, a.patch[column] = Nil
  PROVE  LastValue(S \cup {a}, column, default) = LastValue(S, column, default)
  <1>1. PICK U : U = {b \in S : b.patch[column] # Nil}
    OBVIOUS
  <1>2. U = {b \in S \cup {a} : b.patch[column] # Nil}
    BY <1>1
  <1> QED
    BY <1>1, <1>2, LastValueIs

\* Without a record that sets it, a column has its default.
LEMMA LastValueNone == ASSUME NEW column, NEW default PROVE LastValue({}, column, default) = default
  BY DEF LastValue

------------------------------------------------------------------------------
(* Steps that write nothing yet. *)

\* A step of one request that leaves the tables alone and other requests their
\* locks.
LEMMA LocalStep ==
  ASSUME IInv, NEW r \in Requests, NEW e \in Request, req' = [req EXCEPT ![r] = e], UNCHANGED tables,
         clock' \in Nat, clock <= clock',
         req[r].pc # "done", e.code # "OK", Fits(r)',
         e.pc = "commit" => e.audit.at = clock /\ clock < clock',
         locked' \in [Tables -> [Tenants -> Requests \cup {Nil}]],
         \A q \in Requests, table \in Tables, t \in Tenants :
            q # r /\ locked[table][t] = q => locked'[table][t] = q
  PROVE  IInv'
  <1>0. UNCHANGED <<tenants, policies, usages, audits>>
    BY DEF tables
  <1>1. req'[r] = e /\ \A q \in Requests : q # r => req'[q] = req[q]
    BY DEF IInv, Shape
  <1>2. Shape'
    BY <1>0 DEF IInv, Shape
  <1>3. Fitting'
    <2> SUFFICES ASSUME NEW q \in Requests, q # r PROVE Fits(q)'
      BY DEF Fitting
    <2>1. Fits(q) /\ req'[q] = req[q]
      BY <1>1 DEF IInv, Fitting
    <2>2. CASE req[q].pc \in {"new", "done"}
      BY <2>1, <2>2 DEF Fits
    <2>3. CASE req[q].pc \notin {"new", "done"}
      <3>1. Underway(q)
        BY <2>1, <2>3 DEF Fits
      <3>2. Input(q)'
        BY <2>1, <3>1 DEF Underway, Input
      <3>3. Guarded(q)'
        BY <1>0, <2>1, <3>1 DEF Underway, Guarded
      <3>4. Written(q)'
        BY <1>0, <2>1, <3>1 DEF Underway, Written
      <3>5. req[q].tenant \in Tenants /\ Table(req[q].op) \in Tables
        BY <3>1 DEF Underway, Input, Table, Tables
      <3>6. locked[Table(req[q].op)][req[q].tenant] = q => locked'[Table(req[q].op)][req[q].tenant] = q
        BY <3>5
      <3>7. Underway(q)'
        BY <2>1, <3>1, <3>2, <3>3, <3>4, <3>6 DEF Underway
      <3> QED
        BY <2>1, <3>7 DEF Fits
    <2> QED
      BY <2>2, <2>3
  <1>4. Stamps'
    <2>1. \A a \in audits : a.at \in Nat /\ a.at < clock /\ a.at < clock'
      BY DEF IInv, Shape, Stamps, Audit
    <2>2. ASSUME NEW q \in Requests, q # r, req[q].pc = "commit"
          PROVE  req[q].audit.at \in Nat /\ req[q].audit.at < clock /\ req[q].audit.at < clock'
      BY <2>2 DEF IInv, Shape, Stamps, Fitting, Fits, Underway, Audit
    <2>3. clock \in Nat
      BY DEF IInv, Shape
    <2>4. \A a \in audits : a.at # clock
      BY <2>1, <2>3
    <2>5. \A q \in Requests : q # r /\ req[q].pc = "commit" => req[q].audit.at # clock
      BY <2>2, <2>3
    <2> QED
      BY <1>0, <1>1, <2>1, <2>2, <2>3, <2>4, <2>5 DEF IInv, Stamps
  <1>5. Recorded'
    <2>1. \A a \in audits : a.request \in Requests /\ a.request # r
      BY DEF IInv, Shape, Recorded, Audit
    <2> QED
      BY <1>0, <1>1, <2>1 DEF IInv, Recorded
  <1>6. RecordShape' /\ Whole'
    BY <1>0 DEF IInv, RecordShape, Whole
  <1>7. AuditReplays'
    BY <1>0 DEF IInv, AuditReplays, Changes
  <1> QED
    BY <1>2, <1>3, <1>4, <1>5, <1>6, <1>7 DEF IInv

\* The end of a transaction gives back its own locks only.
LEMMA UnlockedOK ==
  ASSUME Shape, NEW r \in Requests
  PROVE  /\ Unlocked(r) \in [Tables -> [Tenants -> Requests \cup {Nil}]]
         /\ \A q \in Requests, table \in Tables, t \in Tenants :
               q # r /\ locked[table][t] = q => Unlocked(r)[table][t] = q
  BY DEF Shape, Unlocked

\* A request is refused, or its transaction rolled back.
LEMMA RefuseStep ==
  ASSUME IInv, NEW r \in Requests, NEW code \in Codes \ {"OK"}, Refuse(r, code),
         req[r].pc # "done", UNCHANGED <<tables, clock>>, locked' = locked \/ locked' = Unlocked(r)
  PROVE  IInv'
  <1>1. PICK e : e = Answered(code)
    OBVIOUS
  <1>2. e \in Request /\ e.pc = "done" /\ e.code = code
    BY <1>1 DEF Answered, Unused, Request, Codes
  <1>3. req' = [req EXCEPT ![r] = e]
    BY <1>1 DEF Refuse
  <1>4. req'[r] = e
    BY <1>3 DEF IInv, Shape
  <1>5. Fits(r)'
    BY <1>2, <1>4 DEF Fits
  <1>6. clock' \in Nat /\ clock <= clock'
    BY DEF IInv, Shape
  <1>7. /\ locked' \in [Tables -> [Tenants -> Requests \cup {Nil}]]
        /\ \A q \in Requests, table \in Tables, t \in Tenants :
               q # r /\ locked[table][t] = q => locked'[table][t] = q
    BY UnlockedOK DEF IInv, Shape
  <1> QED
    BY <1>2, <1>3, <1>5, <1>6, <1>7, LocalStep

\* A request passes the guards before its transaction.
LEMMA BeginStep ==
  ASSUME IInv, NEW r \in Requests, NEW op \in Ops, NEW a \in Admins, NEW t \in Tenants,
         NEW patch \in TenantPatch \cup PolicyPatch, NEW pc \in {"insert", "update", "read"},
         op \in OpOf(pc), Begin(r, op, a, t, patch, pc), req[r].pc = "new",
         UNCHANGED <<tables, locked, clock>>,
         op = "createTenant" => /\ MayOperate(a, op, t)
                                /\ \E n \in Names, c \in Contacts : patch = Creation(n, c),
         op = "patchTenant" => /\ MayOperate(a, op, t) /\ patch \in TenantPatch /\ ValidTenantPatch(patch)
                               /\ IsDestructive(patch.status) => patch.reason,
         op = "patchTenantPolicy" => patch \in PolicyPatch /\ ValidPolicyPatch(patch)
  PROVE  IInv'
  <1>1. PICK e : e = [Unused EXCEPT !.pc = pc, !.op = op, !.admin = a, !.tenant = t, !.patch = patch]
    OBVIOUS
  <1>2. /\ e \in Request /\ e.pc = pc /\ e.op = op /\ e.admin = a /\ e.tenant = t /\ e.patch = patch
        /\ e.code = Nil /\ e.row = Nil /\ e.policy = Nil /\ e.usage = FALSE
    BY <1>1 DEF Unused, Request
  <1>3. req' = [req EXCEPT ![r] = e]
    BY <1>1 DEF Begin
  <1>4. req'[r] = e
    BY <1>3 DEF IInv, Shape
  <1>5. Input(r)'
    BY <1>2, <1>4 DEF Input
  <1>6. Guarded(r)' /\ Written(r)'
    BY <1>2, <1>4 DEF Guarded, Written, OpOf
  <1>7. Fits(r)'
    BY <1>2, <1>4, <1>5, <1>6 DEF Fits, Underway
  <1>8. clock' \in Nat /\ clock <= clock' /\ locked' \in [Tables -> [Tenants -> Requests \cup {Nil}]]
    BY DEF IInv, Shape
  <1> QED
    BY <1>2, <1>3, <1>7, <1>8, LocalStep, Constants

\* Guarding a creation keeps the invariant: no row is touched yet.
LEMMA CreateTenantStep ==
  ASSUME IInv, NEW r \in Requests, NEW a \in Admins, NEW t \in Tenants, NEW n \in Names,
         NEW c \in Contacts, CreateTenant(r, a, t, n, c)
  PROVE  IInv'
  <1> DEFINE patch == Creation(n, c)
  <1>0. req[r].pc = "new" /\ UNCHANGED <<tables, locked, clock>>
    BY DEF CreateTenant
  <1>1. CASE MayOperate(a, "createTenant", t)
    <2>1. patch \in TenantPatch
      BY CreationDetails
    <2>2. Begin(r, "createTenant", a, t, patch, "insert")
      BY <1>1 DEF CreateTenant, Creation
    <2>3. \E m \in Names, d \in Contacts : patch = Creation(m, d)
      OBVIOUS
    <2>4. "createTenant" \in OpOf("insert") /\ "createTenant" \in Ops
      BY DEF OpOf, Ops
    <2> HIDE DEF patch
    <2> QED
      BY <1>0, <1>1, <2>1, <2>2, <2>3, <2>4, BeginStep
  <1>2. CASE ~MayOperate(a, "createTenant", t)
    BY <1>0, <1>2, RefuseStep DEF CreateTenant, Codes
  <1> QED
    BY <1>1, <1>2

\* Guarding a patch of a tenant keeps the invariant: no row is touched yet.
LEMMA PatchTenantStep ==
  ASSUME IInv, NEW r \in Requests, NEW a \in Admins, NEW t \in Tenants, NEW patch \in TenantPatches,
         PatchTenant(r, a, t, patch)
  PROVE  IInv'
  <1>0. req[r].pc = "new" /\ UNCHANGED <<tables, locked, clock>> /\ patch \in TenantPatch
    BY Constants DEF PatchTenant
  <1>1. CASE Refuse(r, "INVALID") \/ Refuse(r, "DENIED")
    BY <1>0, <1>1, RefuseStep DEF Codes
  <1>2. CASE /\ ValidTenantPatch(patch) /\ MayOperate(a, "patchTenant", t)
             /\ ~(IsDestructive(patch.status) /\ ~patch.reason)
    <2>1. Begin(r, "patchTenant", a, t, patch, "update")
      BY <1>2 DEF PatchTenant
    <2>2. "patchTenant" \in OpOf("update") /\ "patchTenant" \in Ops
      BY DEF OpOf, Ops
    <2> QED
      BY <1>0, <1>2, <2>1, <2>2, BeginStep
  <1> QED
    BY <1>1, <1>2 DEF PatchTenant

\* Guarding a patch of a policy keeps the invariant; the policy it reads may be
\* stale at once.
LEMMA PatchTenantPolicyStep ==
  ASSUME IInv, NEW r \in Requests, NEW a \in Admins, NEW t \in Tenants, NEW patch \in PolicyPatches,
         PatchTenantPolicy(r, a, t, patch)
  PROVE  IInv'
  <1>0. req[r].pc = "new" /\ UNCHANGED <<tables, locked, clock>> /\ patch \in PolicyPatch
    BY Constants DEF PatchTenantPolicy
  <1>1. CASE ValidPolicyPatch(patch)
    <2>1. Begin(r, "patchTenantPolicy", a, t, patch, "read")
      BY <1>1 DEF PatchTenantPolicy
    <2>2. "patchTenantPolicy" \in OpOf("read") /\ "patchTenantPolicy" \in Ops
      BY DEF OpOf, Ops
    <2> QED
      BY <1>0, <1>1, <2>1, <2>2, BeginStep
  <1>2. CASE ~ValidPolicyPatch(patch)
    BY <1>0, <1>2, RefuseStep DEF PatchTenantPolicy, Codes
  <1> QED
    BY <1>1, <1>2

------------------------------------------------------------------------------
(* Statements. *)

\* A request before or in its transaction.
LEMMA MidStep ==
  ASSUME IInv, NEW r \in Requests, req[r].pc \notin {"new", "done"}
  PROVE  /\ req[r] \in Request /\ Underway(r) /\ req[r].tenant \in Tenants /\ req[r].code = Nil
         /\ Table(req[r].op) \in Tables
         /\ clock \in Nat /\ clock <= clock /\ locked \in [Tables -> [Tenants -> Requests \cup {Nil}]]
  <1>1. Underway(r) /\ req[r] \in Request
    BY DEF IInv, Shape, Fitting, Fits
  <1>2. clock \in Nat /\ locked \in [Tables -> [Tenants -> Requests \cup {Nil}]]
    BY DEF IInv, Shape
  <1> QED
    BY <1>1, <1>2 DEF Underway, Input, Table, Tables

\* A free lock is taken from nobody.
LEMMA LockOK ==
  ASSUME Shape, NEW r \in Requests, NEW table \in Tables, NEW t \in Tenants, locked[table][t] = Nil, Lock(r, table, t)
  PROVE  /\ locked' \in [Tables -> [Tenants -> Requests \cup {Nil}]] /\ locked'[table][t] = r
         /\ \A q \in Requests, tb \in Tables, u \in Tenants : q # r /\ locked[tb][u] = q => locked'[tb][u] = q
  BY Constants DEF Shape, Lock

\* The INSERT of a tenant locks a row that is not there, or reports a conflict.
LEMMA InsertTenantStep == ASSUME IInv, NEW r \in Requests, InsertTenant(r) PROVE IInv'
  <1> DEFINE t == req[r].tenant
  <1>0. /\ req[r].pc = "insert" /\ UNCHANGED <<tables, clock>> /\ locked["tenants"][t] = Nil
        /\ UNCHANGED <<tenants, policies>> /\ "tenants" \in Tables
    BY DEF InsertTenant, tables, Tables
  <1>1. CASE tenants[t] # Nil
    BY <1>0, <1>1, RefuseStep DEF InsertTenant, Codes
  <1>2. CASE tenants[t] = Nil
    <2>1. /\ req[r] \in Request /\ Underway(r) /\ t \in Tenants /\ req[r].op = "createTenant" /\ clock \in Nat
          /\ clock <= clock /\ Input(r)
      BY <1>0, MidStep DEF Underway, OpOf
    <2>2. NewRow(req[r].patch) \in TenantRow
      <3>1. PICK n \in Names, c \in Contacts : req[r].patch = Creation(n, c)
        BY <2>1 DEF Input
      <3> QED
        BY <3>1, CreationDetails
    <2>3. PICK e : e = [req[r] EXCEPT !.pc = "defaults", !.row = NewRow(req[r].patch)]
      OBVIOUS
    <2>4. /\ e \in Request /\ e.pc = "defaults" /\ e.row = NewRow(req[r].patch) /\ e.op = req[r].op
          /\ e.admin = req[r].admin /\ e.tenant = req[r].tenant /\ e.patch = req[r].patch /\ e.code = req[r].code
      BY <2>1, <2>2, <2>3 DEF Request
    <2>5. req' = [req EXCEPT ![r] = e] /\ Lock(r, "tenants", t)
      BY <1>2, <2>1, <2>3 DEF InsertTenant, NewRow, Request
    <2>6. req'[r] = e
      BY <2>5 DEF IInv, Shape
    <2>7. /\ locked' \in [Tables -> [Tenants -> Requests \cup {Nil}]] /\ locked'["tenants"][t] = r
          /\ \A q \in Requests, tb \in Tables, u \in Tenants : q # r /\ locked[tb][u] = q => locked'[tb][u] = q
      BY <1>0, <2>1, <2>5, LockOK DEF IInv
    <2>8. Input(r)' /\ Guarded(r)'
      BY <2>1, <2>4, <2>6 DEF Input, Guarded
    <2>9. Written(r)'
      BY <1>0, <1>2, <2>1, <2>4, <2>6 DEF Written
    <2>10. Fits(r)'
      BY <2>1, <2>4, <2>6, <2>7, <2>8, <2>9 DEF Fits, Underway, OpOf, Table
    <2> QED
      BY <1>0, <2>1, <2>4, <2>5, <2>7, <2>10, LocalStep, Constants DEF Underway
  <1> QED
    BY <1>1, <1>2

\* The INSERTs of policy and usage belong to the transaction that inserted the
\* tenant.
LEMMA InsertDefaultsStep == ASSUME IInv, NEW r \in Requests, InsertDefaults(r) PROVE IInv'
  <1>0. req[r].pc = "defaults" /\ UNCHANGED <<tables, locked, clock>> /\ UNCHANGED <<tenants, policies>>
    BY DEF InsertDefaults, tables
  <1>1. /\ req[r] \in Request /\ Underway(r) /\ req[r].op = "createTenant" /\ clock \in Nat /\ clock <= clock
        /\ locked \in [Tables -> [Tenants -> Requests \cup {Nil}]]
    BY <1>0, MidStep DEF Underway, OpOf
  <1>2. PICK e : e = [req[r] EXCEPT !.pc = "audit", !.policy = DefaultPolicy, !.usage = TRUE]
    OBVIOUS
  <1>3. /\ e \in Request /\ e.pc = "audit" /\ e.policy = DefaultPolicy /\ e.usage = TRUE /\ e.op = req[r].op
        /\ e.row = req[r].row
        /\ e.admin = req[r].admin /\ e.tenant = req[r].tenant /\ e.patch = req[r].patch /\ e.code = req[r].code
    BY <1>1, <1>2, Constants DEF Request
  <1>4. req' = [req EXCEPT ![r] = e]
    BY <1>1, <1>2 DEF InsertDefaults, Request
  <1>5. req'[r] = e
    BY <1>4 DEF IInv, Shape
  <1>6. Input(r)' /\ Guarded(r)'
    BY <1>1, <1>3, <1>5 DEF Underway, Input, Guarded
  <1>7. Written(r)'
    BY <1>0, <1>1, <1>3, <1>5 DEF Underway, Written
  <1>8. Fits(r)'
    BY <1>0, <1>1, <1>3, <1>5, <1>6, <1>7 DEF Fits, Underway, OpOf, Table, Ops
  <1> QED
    BY <1>0, <1>1, <1>3, <1>4, <1>8, LocalStep, Constants DEF Underway

\* The UPDATE of a tenant computes its new row from the row it locks.
LEMMA UpdateTenantStep == ASSUME IInv, NEW r \in Requests, UpdateTenant(r) PROVE IInv'
  <1> DEFINE t == req[r].tenant
  <1>0. /\ req[r].pc = "update" /\ UNCHANGED <<tables, clock>> /\ locked["tenants"][t] = Nil
        /\ UNCHANGED <<tenants, policies>> /\ "tenants" \in Tables
    BY DEF UpdateTenant, tables, Tables
  <1>1. CASE tenants[t] = Nil
    BY <1>0, <1>1, RefuseStep DEF UpdateTenant, Codes
  <1>2. CASE tenants[t] # Nil
    <2> DEFINE new == PatchedTenant(req[r].patch, tenants[t])
    <2>1. /\ req[r] \in Request /\ Underway(r) /\ t \in Tenants /\ req[r].op = "patchTenant" /\ clock \in Nat
          /\ clock <= clock /\ Input(r) /\ req[r].policy = Nil /\ ~req[r].usage
      BY <1>0, MidStep DEF Underway, OpOf, Written
    <2>2. tenants[t] \in TenantRow
      BY <1>2, <2>1 DEF IInv, Shape
    <2>3. new \in TenantRow
      BY <2>1, <2>2, PatchedTenantType DEF Input
    <2> HIDE DEF new
    <2>4. PICK e : e = [req[r] EXCEPT !.pc = "audit", !.row = new]
      OBVIOUS
    <2>t. req[r] \in Request
      BY <2>1
    <2>5. /\ e \in Request /\ e.pc = "audit" /\ e.row = new /\ e.op = req[r].op
          /\ e.policy = req[r].policy /\ e.usage = req[r].usage
          /\ e.admin = req[r].admin /\ e.tenant = req[r].tenant /\ e.patch = req[r].patch /\ e.code = req[r].code
      BY <2>3, <2>4, <2>t DEF Request
    <2>6. req' = [req EXCEPT ![r] = e] /\ Lock(r, "tenants", t)
      BY <1>2, <2>1, <2>4 DEF UpdateTenant, Request, new
    <2>7. req'[r] = e
      BY <2>6 DEF IInv, Shape
    <2>8. /\ locked' \in [Tables -> [Tenants -> Requests \cup {Nil}]] /\ locked'["tenants"][t] = r
          /\ \A q \in Requests, tb \in Tables, u \in Tenants : q # r /\ locked[tb][u] = q => locked'[tb][u] = q
      BY <1>0, <2>1, <2>6, LockOK DEF IInv
    <2>9. Input(r)' /\ Guarded(r)'
      BY <2>1, <2>5, <2>7 DEF Input, Guarded
    <2>10. Written(r)'
      BY <1>0, <1>2, <2>1, <2>5, <2>7 DEF Written, new
    <2>11. Fits(r)'
      BY <2>1, <2>5, <2>7, <2>8, <2>9, <2>10 DEF Fits, Underway, OpOf, Table, Ops
    <2> QED
      BY <1>0, <2>1, <2>5, <2>6, <2>8, <2>11, LocalStep, Constants DEF Underway
  <1> QED
    BY <1>1, <1>2

\* The read of a policy locks nothing.
LEMMA ReadPolicyStep == ASSUME IInv, NEW r \in Requests, ReadPolicy(r) PROVE IInv'
  <1> DEFINE t == req[r].tenant
             seen == policies[t]
  <1>0. req[r].pc = "read" /\ UNCHANGED <<tables, locked, clock>> /\ UNCHANGED <<tenants, policies>>
    BY DEF ReadPolicy, tables
  <1>1. CASE Refuse(r, "NOT_FOUND") \/ Refuse(r, "DENIED") \/ Refuse(r, "INVALID")
    BY <1>0, <1>1, RefuseStep DEF Codes
  <1>2. CASE /\ seen # Nil /\ MayOperate(req[r].admin, "patchTenantPolicy", t)
             /\ ~(TightensComparedTo(ApplyTo(req[r].patch, seen), seen) /\ ~req[r].patch.reason)
    <2>1. /\ req[r] \in Request /\ Underway(r) /\ t \in Tenants /\ req[r].op = "patchTenantPolicy" /\ clock \in Nat
          /\ clock <= clock /\ Input(r) /\ req[r].row = Nil /\ req[r].policy = Nil /\ ~req[r].usage
          /\ locked \in [Tables -> [Tenants -> Requests \cup {Nil}]]
      BY <1>0, MidStep DEF Underway, OpOf, Written
    <2>2. seen \in PolicyRow
      BY <1>2, <2>1 DEF IInv, Shape
    <2>3. PICK e : e = [req[r] EXCEPT !.pc = "updatePolicy", !.seen = seen]
      OBVIOUS
    <2>4. /\ e \in Request /\ e.pc = "updatePolicy" /\ e.seen = seen /\ e.op = req[r].op /\ e.row = Nil
          /\ e.policy = Nil /\ ~e.usage
          /\ e.admin = req[r].admin /\ e.tenant = req[r].tenant /\ e.patch = req[r].patch /\ e.code = req[r].code
      BY <2>1, <2>2, <2>3 DEF Request
    <2>5. req' = [req EXCEPT ![r] = e]
      BY <1>2, <2>1, <2>3 DEF ReadPolicy, Request
    <2>6. req'[r] = e
      BY <2>5 DEF IInv, Shape
    <2>7. Input(r)' /\ Written(r)'
      BY <2>1, <2>4, <2>6 DEF Input, Written
    <2>8. Guarded(r)'
      BY <1>0, <1>2, <2>1, <2>2, <2>4, <2>6 DEF Guarded
    <2>9. Fits(r)'
      BY <2>1, <2>4, <2>6, <2>7, <2>8 DEF Fits, Underway, OpOf
    <2> QED
      BY <1>0, <2>1, <2>4, <2>5, <2>9, LocalStep, Constants DEF Underway
  <1> QED
    BY <1>1, <1>2 DEF ReadPolicy

\* The UPDATE of a policy computes its new row from the row it locks, not from
\* the one that the guard read.
LEMMA UpdatePolicyStep == ASSUME IInv, NEW r \in Requests, UpdatePolicy(r) PROVE IInv'
  <1> DEFINE t == req[r].tenant
             new == ApplyTo(req[r].patch, policies[t])
  <1>0. /\ req[r].pc = "updatePolicy" /\ UNCHANGED <<tables, clock>> /\ locked["policies"][t] = Nil
        /\ UNCHANGED <<tenants, policies>> /\ "policies" \in Tables
    BY DEF UpdatePolicy, tables, Tables
  <1>1. /\ req[r] \in Request /\ Underway(r) /\ t \in Tenants /\ req[r].op = "patchTenantPolicy" /\ clock \in Nat
        /\ clock <= clock /\ Input(r) /\ Guarded(r) /\ req[r].row = Nil /\ ~req[r].usage /\ policies[t] # Nil
    BY <1>0, MidStep DEF Underway, OpOf, Written, Guarded
  <1>2. policies[t] \in PolicyRow
    BY <1>1 DEF IInv, Shape
  <1>3. new \in PolicyRow
    BY <1>1, <1>2, ApplyToType DEF Input
  <1> HIDE DEF new
  <1>4. PICK e : e = [req[r] EXCEPT !.pc = "audit", !.policy = new]
    OBVIOUS
  <1>t. req[r] \in Request
    BY <1>1
  <1>5. /\ e \in Request /\ e.pc = "audit" /\ e.policy = new /\ e.op = req[r].op
        /\ e.row = req[r].row /\ e.usage = req[r].usage
        /\ e.seen = req[r].seen
        /\ e.admin = req[r].admin /\ e.tenant = req[r].tenant /\ e.patch = req[r].patch /\ e.code = req[r].code
    BY <1>3, <1>4, <1>t DEF Request
  <1>6. req' = [req EXCEPT ![r] = e] /\ Lock(r, "policies", t)
    BY <1>1, <1>4 DEF UpdatePolicy, Request, new
  <1>7. req'[r] = e
    BY <1>6 DEF IInv, Shape
  <1>8. /\ locked' \in [Tables -> [Tenants -> Requests \cup {Nil}]] /\ locked'["policies"][t] = r
        /\ \A q \in Requests, tb \in Tables, u \in Tenants : q # r /\ locked[tb][u] = q => locked'[tb][u] = q
    BY <1>0, <1>1, <1>6, LockOK DEF IInv
  <1>9. Input(r)' /\ Guarded(r)'
    BY <1>0, <1>1, <1>5, <1>7 DEF Input, Guarded
  <1>10. Written(r)'
    BY <1>0, <1>1, <1>5, <1>7 DEF Written, new
  <1>11. Fits(r)'
    BY <1>1, <1>5, <1>7, <1>8, <1>9, <1>10 DEF Fits, Underway, OpOf, Table, Ops
  <1> QED
    BY <1>0, <1>1, <1>5, <1>6, <1>8, <1>11, LocalStep, Constants DEF Underway

\* The record is later than every record there is.
LEMMA AppendAuditStep == ASSUME IInv, NEW r \in Requests, AppendAudit(r) PROVE IInv'
  <1> DEFINE a == [at |-> clock, request |-> r, op |-> req[r].op, admin |-> req[r].admin,
                   tenant |-> req[r].tenant, patch |-> Details(req[r].op, req[r].patch)]
  <1>0. /\ req[r].pc = "audit" /\ UNCHANGED <<tables, locked>> /\ UNCHANGED <<tenants, policies>>
        /\ clock' = clock + 1
    BY DEF AppendAudit, tables
  <1>1. /\ req[r] \in Request /\ Underway(r) /\ clock \in Nat /\ req[r].op \in Ops /\ Input(r)
        /\ locked \in [Tables -> [Tenants -> Requests \cup {Nil}]]
    BY <1>0, MidStep DEF Underway, OpOf
  <1>2. Details(req[r].op, req[r].patch) \in TenantPatch \cup PolicyPatch
    BY <1>1, CreationDetails, PatchDetails DEF Input, Ops
  <1>3. a \in Audit
    BY <1>1, <1>2 DEF Audit, Input, Ops
  <1>4. PICK e : e = [req[r] EXCEPT !.pc = "commit", !.audit = a]
    OBVIOUS
  <1>5. /\ a.at = clock /\ a.request = r /\ a.op = req[r].op /\ a.admin = req[r].admin
        /\ a.tenant = req[r].tenant /\ a.patch = Details(req[r].op, req[r].patch)
    OBVIOUS
  <1>6. req' = [req EXCEPT ![r] = e]
    BY <1>1, <1>4 DEF AppendAudit, Request
  <1> HIDE DEF a
  <1>7. /\ e \in Request /\ e.pc = "commit" /\ e.audit = a /\ e.op = req[r].op /\ e.row = req[r].row
        /\ e.policy = req[r].policy /\ e.usage = req[r].usage /\ e.seen = req[r].seen
        /\ e.admin = req[r].admin /\ e.tenant = req[r].tenant /\ e.patch = req[r].patch /\ e.code = req[r].code
    BY <1>1, <1>3, <1>4 DEF Request
  <1>8. req'[r] = e
    BY <1>6 DEF IInv, Shape
  <1>9. Input(r)' /\ Guarded(r)'
    <2>1. Input(r)'
      BY <1>1, <1>7, <1>8 DEF Input
    <2>2. Guarded(r)
      BY <1>1 DEF Underway
    <2>3. Guarded(r)'
      BY <2>2, <1>0, <1>7, <1>8 DEF Guarded
    <2> QED
      BY <2>1, <2>3
  <1>10. Written(r)'
    BY <1>0, <1>1, <1>7, <1>8 DEF Underway, Written
  <1>11. Fits(r)'
    BY <1>0, <1>1, <1>3, <1>5, <1>7, <1>8, <1>9, <1>10 DEF Fits, Underway, OpOf
  <1>12. clock' \in Nat /\ clock <= clock' /\ clock < clock'
    BY <1>0, <1>1
  <1> QED
    BY <1>0, <1>1, <1>5, <1>6, <1>7, <1>11, <1>12, LocalStep, Constants DEF Underway

------------------------------------------------------------------------------
(* The commit. *)

\* What a transaction that is about to commit knows.
LEMMA CommitKnows ==
  ASSUME IInv, NEW r \in Requests, req[r].pc = "commit"
  PROVE  /\ req[r] \in Request /\ Underway(r) /\ Input(r) /\ Guarded(r) /\ Written(r)
         /\ req[r].op \in Ops /\ req[r].tenant \in Tenants
         /\ req[r].audit \in Audit /\ req[r].audit.request = r /\ req[r].audit.op = req[r].op
         /\ req[r].audit.tenant = req[r].tenant /\ req[r].audit.patch = Details(req[r].op, req[r].patch)
         /\ locked[Table(req[r].op)][req[r].tenant] = r
         /\ \A a \in audits : a.request # r
  <1>1. req[r] \in Request /\ Underway(r)
    BY MidStep
  <1>2. \A a \in audits : a.request # r
    BY DEF IInv, Recorded
  <1> QED
    BY <1>1, <1>2, MidStep DEF Underway, OpOf

\* The rows a commit leaves.
LEMMA WriteRows ==
  ASSUME IInv, NEW r \in Requests, req[r].pc = "commit", Write(r)
  PROVE  /\ tenants' \in [Tenants -> TenantRow \cup {Nil}] /\ policies' \in [Tenants -> PolicyRow \cup {Nil}]
         /\ \A u \in Tenants : u # req[r].tenant =>
               tenants'[u] = tenants[u] /\ policies'[u] = policies[u] /\ (u \in usages' <=> u \in usages)
         /\ usages' \subseteq Tenants
         /\ audits' = audits \cup {req[r].audit}
         /\ LET t == req[r].tenant IN
            /\ req[r].op = "createTenant" =>
                  /\ tenants[t] = Nil /\ tenants'[t] = NewRow(req[r].patch)
                  /\ policies'[t] = DefaultPolicy /\ t \in usages'
            /\ req[r].op = "patchTenant" =>
                  /\ tenants[t] # Nil /\ tenants'[t] = PatchedTenant(req[r].patch, tenants[t])
                  /\ policies' = policies /\ usages' = usages
            /\ req[r].op = "patchTenantPolicy" =>
                  /\ policies[t] # Nil /\ policies'[t] = ApplyTo(req[r].patch, policies[t])
                  /\ tenants' = tenants /\ usages' = usages
            /\ tenants'[t] # Nil /\ policies'[t] # Nil
  <1> DEFINE t == req[r].tenant
  <1>0. /\ req[r] \in Request /\ Input(r) /\ Guarded(r) /\ Written(r) /\ req[r].op \in Ops /\ t \in Tenants
        /\ tenants \in [Tenants -> TenantRow \cup {Nil}] /\ policies \in [Tenants -> PolicyRow \cup {Nil}]
        /\ usages \subseteq Tenants
    BY CommitKnows DEF IInv, Shape
  <1>1. /\ tenants' = IF req[r].row = Nil THEN tenants ELSE [tenants EXCEPT ![t] = req[r].row]
        /\ policies' = IF req[r].policy = Nil THEN policies ELSE [policies EXCEPT ![t] = req[r].policy]
        /\ usages' = IF req[r].usage THEN usages \cup {t} ELSE usages
        /\ audits' = audits \cup {req[r].audit}
    BY DEF Write
  <1>2. req[r].row \in TenantRow \cup {Nil} /\ req[r].policy \in PolicyRow \cup {Nil} /\ req[r].usage \in BOOLEAN
    BY <1>0 DEF Request
  <1>3. CASE req[r].op = "createTenant"
    <2>1. /\ tenants[t] = Nil /\ req[r].row = NewRow(req[r].patch) /\ req[r].policy = DefaultPolicy /\ req[r].usage
          /\ req[r].op # "patchTenant" /\ req[r].op # "patchTenantPolicy"
      BY <1>0, <1>3 DEF Written
    <2>2. NewRow(req[r].patch) \in TenantRow
      <3>1. PICK n \in Names, c \in Contacts : req[r].patch = Creation(n, c)
        BY <1>0, <1>3 DEF Input
      <3> QED
        BY <3>1, CreationDetails
    <2>3. NewRow(req[r].patch) # Nil /\ DefaultPolicy # Nil
      BY <2>2, Constants
    <2>4. /\ tenants' = [tenants EXCEPT ![t] = req[r].row] /\ policies' = [policies EXCEPT ![t] = req[r].policy]
          /\ usages' = usages \cup {t}
      BY <1>1, <2>1, <2>3
    <2> QED
      BY <1>0, <1>1, <1>2, <2>1, <2>3, <2>4
  <1>4. CASE req[r].op = "patchTenant"
    <2>1. /\ tenants[t] # Nil /\ req[r].row = PatchedTenant(req[r].patch, tenants[t])
          /\ req[r].policy = Nil /\ ~req[r].usage
          /\ req[r].op # "createTenant" /\ req[r].op # "patchTenantPolicy"
      BY <1>0, <1>4 DEF Written
    <2>2. PatchedTenant(req[r].patch, tenants[t]) \in TenantRow
      <3>1. tenants[t] \in TenantRow
        BY <1>0, <2>1
      <3> QED
        BY <1>0, <1>4, <3>1, PatchedTenantType DEF Input
    <2>3. req[r].row # Nil
      BY <2>1, <2>2, Constants
    <2>4. tenants' = [tenants EXCEPT ![t] = req[r].row] /\ policies' = policies /\ usages' = usages
      BY <1>1, <2>1, <2>3
    <2>5. policies[t] # Nil
      BY <1>0, <2>1 DEF IInv, Whole
    <2> QED
      BY <1>0, <1>1, <1>2, <2>1, <2>3, <2>4, <2>5
  <1>5. CASE req[r].op = "patchTenantPolicy"
    <2>1. /\ req[r].policy = ApplyTo(req[r].patch, policies[t]) /\ policies[t] # Nil
          /\ req[r].row = Nil /\ ~req[r].usage
          /\ req[r].op # "createTenant" /\ req[r].op # "patchTenant"
      BY <1>0, <1>5 DEF Written, Guarded
    <2>2. ApplyTo(req[r].patch, policies[t]) \in PolicyRow
      <3>1. policies[t] \in PolicyRow
        BY <1>0, <2>1
      <3> QED
        BY <1>0, <1>5, <3>1, ApplyToType DEF Input
    <2>3. req[r].policy # Nil
      BY <2>1, <2>2, Constants
    <2>4. policies' = [policies EXCEPT ![t] = req[r].policy] /\ tenants' = tenants /\ usages' = usages
      BY <1>1, <2>1, <2>3
    <2>5. tenants[t] # Nil
      BY <1>0, <2>1 DEF IInv, Whole
    <2> QED
      BY <1>0, <1>1, <1>2, <2>1, <2>3, <2>4, <2>5
  <1> QED
    BY <1>0, <1>3, <1>4, <1>5 DEF Ops

\* Another request in its transaction does not notice: either it is on another
\* row, or what it knows of this one is of the other table.
LEMMA OthersKeep ==
  ASSUME IInv, NEW r \in Requests, req[r].pc = "commit", Write(r),
         NEW q \in Requests, q # r, req'[q] = req[q]
  PROVE  Fits(q)'
  <1> DEFINE t == req[r].tenant
  <1>1. CASE req[q].pc \in {"new", "done"}
    BY <1>1 DEF IInv, Fitting, Fits
  <1>2. CASE req[q].pc \notin {"new", "done"}
    <2>1. Underway(q) /\ req[q].tenant \in Tenants /\ req[q].op \in Ops /\ Guarded(q) /\ Written(q) /\ Input(q)
      BY <1>2, MidStep DEF Underway, OpOf, Ops
    <2>2. t \in Tenants /\ req[r].op \in Ops /\ locked[Table(req[r].op)][t] = r
      BY CommitKnows
    <2>3. Input(q)'
      BY <2>1 DEF Input
    <2>4. policies[req[q].tenant] # Nil => policies'[req[q].tenant] # Nil
      <3>1. CASE req[q].tenant = t
        BY <3>1, WriteRows
      <3>2. CASE req[q].tenant # t
        BY <2>1, <3>2, WriteRows
      <3> QED
        BY <3>1, <3>2
    <2>5. Guarded(q)'
      BY <2>1, <2>4 DEF Guarded
    <2>6. req[q].pc \in {"defaults", "audit", "commit"} /\ req[q].tenant = t => Table(req[q].op) # Table(req[r].op)
      BY <2>1, <2>2 DEF Underway
    <2>7. Written(q)'
      <3>1. CASE req[q].pc \in {"insert", "update", "read", "updatePolicy"}
        BY <2>1, <3>1 DEF Written
      <3>2. CASE req[q].pc \in {"defaults", "audit", "commit"} /\ req[q].tenant # t
        <4>1. tenants'[req[q].tenant] = tenants[req[q].tenant] /\ policies'[req[q].tenant] = policies[req[q].tenant]
          BY <2>1, <3>2, WriteRows
        <4> QED
          BY <2>1, <3>2, <4>1 DEF Written
      <3>3. CASE req[q].pc \in {"defaults", "audit", "commit"} /\ req[q].tenant = t
        <4>1. CASE req[q].op = "patchTenantPolicy"
          <5>1. policies[t] # Nil
            BY <2>1, <3>3, <4>1 DEF Guarded
          <5>2. tenants[t] # Nil
            BY <2>2, <5>1 DEF IInv, Whole
          <5>3. req[r].op = "patchTenant"
            BY <2>2, <2>6, <3>3, <4>1, <5>2, WriteRows DEF Table, Ops
          <5>4. policies' = policies
            BY <5>3, WriteRows
          <5> QED
            BY <2>1, <3>3, <4>1, <5>4 DEF Written
        <4>2. CASE req[q].op # "patchTenantPolicy"
          <5>1. req[r].op = "patchTenantPolicy"
            BY <2>2, <2>6, <3>3, <4>2 DEF Table, Ops
          <5>2. tenants' = tenants
            BY <5>1, WriteRows
          <5> QED
            BY <2>1, <3>3, <4>2, <5>2 DEF Written
        <4> QED
          BY <4>1, <4>2
      <3>4. req[q] \in Request
        BY <1>2, MidStep
      <3> QED
        BY <1>2, <3>1, <3>2, <3>3, <3>4 DEF Request
    <2>8. Table(req[q].op) \in Tables
      BY DEF Table, Tables
    <2>9. locked[Table(req[q].op)][req[q].tenant] = q => locked'[Table(req[q].op)][req[q].tenant] = q
      BY <2>1, <2>8, UnlockedOK DEF Write, IInv
    <2>10. Underway(q)'
      BY <2>1, <2>3, <2>5, <2>7, <2>9 DEF Underway
    <2> QED
      BY <1>2, <2>10 DEF Fits
  <1> QED
    BY <1>1, <1>2

\* The new record is the last of its row, so replaying it gives the new row.
LEMMA ReplayStep ==
  ASSUME IInv, NEW r \in Requests, req[r].pc = "commit", Write(r)
  PROVE  AuditReplays'
  <1> DEFINE TenantOps == {"createTenant", "patchTenant"}
             PolicyOps == {"patchTenantPolicy"}
  <1>t. PICK t : t = req[r].tenant
    OBVIOUS
  <1>a. PICK a : a = req[r].audit
    OBVIOUS
  <1>0. /\ t \in Tenants /\ a \in Audit /\ a.at \in Nat /\ a.tenant = t /\ a.op = req[r].op
        /\ a.patch = Details(req[r].op, req[r].patch) /\ req[r].op \in Ops /\ Input(r)
    BY <1>a, <1>t, CommitKnows DEF Audit
  <1>1. audits' = audits \cup {a}
    BY <1>a, WriteRows
  <1>2. \A b \in audits : /\ b.at \in Nat
                          /\ b.tenant = t /\ Table(b.op) = Table(a.op) => b.at < a.at
    BY <1>0, <1>a, <1>t DEF IInv, Shape, Audit, Stamps
  <1>3. ASSUME NEW u \in Tenants, NEW ops, u # t \/ a.op \notin ops PROVE Changes(u, ops)' = Changes(u, ops)
    BY <1>0, <1>1, <1>3 DEF Changes
  <1>4. ASSUME NEW ops, a.op \in ops PROVE Changes(t, ops)' = Changes(t, ops) \cup {a}
    BY <1>0, <1>1, <1>4 DEF Changes
  <1>5. ASSUME NEW ops \in {TenantOps, PolicyOps}, a.op \in ops, NEW column, NEW default
        PROVE  LastValue(Changes(t, ops) \cup {a}, column, default) =
                  IF a.patch[column] # Nil THEN a.patch[column] ELSE LastValue(Changes(t, ops), column, default)
    <2>s. PICK S : S = Changes(t, ops)
      OBVIOUS
    <2>1. \A b \in S : b.at \in Nat /\ b.at < a.at
      BY <1>2, <1>5, <2>s DEF Changes, Table
    <2>2. a.at \in Nat
      BY <1>0
    <2>3. ASSUME a.patch[column] # Nil PROVE LastValue(S \cup {a}, column, default) = a.patch[column]
      BY <2>1, <2>2, <2>3, LastValueSet
    <2>4. ASSUME a.patch[column] = Nil
          PROVE  LastValue(S \cup {a}, column, default) = LastValue(S, column, default)
      BY <2>4, LastValueKept
    <2> QED
      BY <2>3, <2>4, <2>s
  <1> SUFFICES ASSUME NEW u \in Tenants, tenants'[u] # Nil
               PROVE  /\ \A column \in {"status", "name"} :
                            tenants'[u][column] = LastValue(Changes(u, TenantOps)', column, Nil)
                      /\ (\E b \in Changes(u, TenantOps)' : b.patch.contact # Nil) =>
                            tenants'[u].contact = LastValue(Changes(u, TenantOps)', "contact", Nil)
                      /\ tenants'[u].deleted = (tenants'[u].status = "DELETED")
                      /\ \A column \in DOMAIN DefaultPolicy :
                            policies'[u][column] = LastValue(Changes(u, PolicyOps)', column, DefaultPolicy[column])
    BY DEF AuditReplays
  <1>6. CASE u # t
    <2>1. tenants'[u] = tenants[u] /\ policies'[u] = policies[u]
      BY <1>6, <1>t, WriteRows
    <2> QED
      BY <1>3, <1>6, <2>1 DEF IInv, AuditReplays
  <1>7. CASE u = t /\ req[r].op = "createTenant"
    <2>1. tenants[t] = Nil /\ tenants'[t] = NewRow(req[r].patch) /\ policies'[t] = DefaultPolicy
      BY <1>7, <1>t, WriteRows
    <2>2. Changes(t, TenantOps) = {} /\ Changes(t, PolicyOps) = {}
      BY <2>1 DEF Changes, IInv, Whole
    <2>3. PICK n \in Names, c \in Contacts : req[r].patch = Creation(n, c)
      BY <1>0, <1>7 DEF Input
    <2>4. /\ a.patch["status"] = "ACTIVE" /\ a.patch["name"] = n /\ "ACTIVE" # Nil /\ n # Nil
          /\ a.patch.contact = Nil
      BY <1>0, <1>7, <2>3, CreationDetails, Constants DEF Statuses
    <2>5. a.op \in TenantOps /\ a.op \notin PolicyOps
      BY <1>0, <1>7
    <2>6. \A column \in {"status", "name"} : LastValue(Changes(t, TenantOps)', column, Nil) = a.patch[column]
      BY <1>4, <1>5, <2>4, <2>5
    <2>7. \A column \in {"status", "name"} : tenants'[t][column] = a.patch[column]
      BY <2>1, <2>3, <2>4 DEF NewRow, Creation
    <2>c. \A b \in Changes(t, TenantOps)' : b.patch.contact = Nil
      BY <1>4, <2>2, <2>4, <2>5
    <2>8. tenants'[t].deleted = (tenants'[t].status = "DELETED")
      <3>1. tenants'[t].deleted = FALSE /\ tenants'[t].status = "ACTIVE"
        BY <2>1 DEF NewRow
      <3>2. ("ACTIVE" = "DELETED") = FALSE
        OBVIOUS
      <3> QED
        BY <3>1, <3>2
    <2>9. \A column : LastValue(Changes(t, PolicyOps)', column, DefaultPolicy[column]) = DefaultPolicy[column]
      <3>1. Changes(t, PolicyOps)' = {}
        BY <1>0, <1>3, <2>2, <2>5
      <3> QED
        BY <3>1, LastValueNone
    <2> QED
      BY <1>7, <2>1, <2>6, <2>7, <2>8, <2>9, <2>c
  <1>8. CASE u = t /\ req[r].op = "patchTenant"
    <2>1. tenants[t] # Nil /\ tenants'[t] = PatchedTenant(a.patch, tenants[t]) /\ policies' = policies
      BY <1>0, <1>8, <1>t, WriteRows, PatchDetails
    <2>2. a.op \in TenantOps /\ a.op \notin PolicyOps
      BY <1>0, <1>8
    <2>3. \A column \in {"status", "name"} :
             tenants'[t][column] = IF a.patch[column] # Nil THEN a.patch[column] ELSE tenants[t][column]
      BY <2>1 DEF PatchedTenant
    <2>4. \A column \in {"status", "name"} :
             tenants[t][column] = LastValue(Changes(t, TenantOps), column, Nil)
      BY <1>0, <2>1 DEF IInv, AuditReplays
    <2>5. \A column \in {"status", "name"} :
             tenants'[t][column] = LastValue(Changes(t, TenantOps)', column, Nil)
      BY <1>4, <1>5, <2>2, <2>3, <2>4
    <2>6. tenants[t].deleted = (tenants[t].status = "DELETED")
      BY <1>0, <2>1 DEF IInv, AuditReplays
    <2>7. tenants'[t].deleted = (tenants'[t].status = "DELETED")
      BY <2>1, <2>6 DEF PatchedTenant
    <2>8. Changes(t, PolicyOps)' = Changes(t, PolicyOps)
      BY <1>0, <1>3, <2>2
    <2>9. \A column \in DOMAIN DefaultPolicy :
             policies'[t][column] = LastValue(Changes(t, PolicyOps)', column, DefaultPolicy[column])
      BY <1>0, <2>1, <2>8 DEF IInv, AuditReplays
    <2>10. ASSUME NEW b \in Changes(t, TenantOps)', b.patch.contact # Nil
           PROVE  tenants'[t].contact = LastValue(Changes(t, TenantOps)', "contact", Nil)
      <3>1. Changes(t, TenantOps)' = Changes(t, TenantOps) \cup {a}
        BY <1>4, <2>2
      <3>2. LastValue(Changes(t, TenantOps)', "contact", Nil) =
               IF a.patch["contact"] # Nil THEN a.patch["contact"]
               ELSE LastValue(Changes(t, TenantOps), "contact", Nil)
        BY <1>5, <2>2, <3>1
      <3>3. tenants'[t].contact = IF a.patch.contact # Nil THEN a.patch.contact ELSE tenants[t].contact
        BY <2>1 DEF PatchedTenant
      <3>4. a.patch.contact = Nil => tenants[t].contact = LastValue(Changes(t, TenantOps), "contact", Nil)
        <4>1. a.patch.contact = Nil => b \in Changes(t, TenantOps)
          BY <2>10, <3>1
        <4> QED
          BY <1>0, <2>1, <2>10, <4>1 DEF IInv, AuditReplays
      <3> QED
        BY <3>2, <3>3, <3>4
    <2> QED
      BY <1>8, <2>5, <2>7, <2>9, <2>10
  <1>9. CASE u = t /\ req[r].op = "patchTenantPolicy"
    <2>1. policies[t] # Nil /\ policies'[t] = ApplyTo(a.patch, policies[t]) /\ tenants' = tenants
      BY <1>0, <1>9, <1>t, WriteRows, PatchDetails
    <2>2. a.op \notin TenantOps /\ a.op \in PolicyOps
      BY <1>0, <1>9
    <2>3. DOMAIN policies[t] = DOMAIN DefaultPolicy
      <3>1. policies[t] \in PolicyRow /\ DefaultPolicy \in PolicyRow
        BY <1>0, <2>1, Constants DEF IInv, Shape
      <3> QED
        BY <3>1, PolicyColumns
    <2>4. \A column \in DOMAIN DefaultPolicy :
             policies'[t][column] = IF a.patch[column] # Nil THEN a.patch[column] ELSE policies[t][column]
      BY <2>1, <2>3 DEF ApplyTo
    <2>5. /\ \A column \in {"status", "name"} : tenants[t][column] = LastValue(Changes(t, TenantOps), column, Nil)
          /\ (\E b \in Changes(t, TenantOps) : b.patch.contact # Nil) =>
                tenants[t].contact = LastValue(Changes(t, TenantOps), "contact", Nil)
          /\ tenants[t].deleted = (tenants[t].status = "DELETED")
          /\ \A column \in DOMAIN DefaultPolicy :
                policies[t][column] = LastValue(Changes(t, PolicyOps), column, DefaultPolicy[column])
      BY <1>0, <1>9, <2>1 DEF IInv, AuditReplays
    <2>6. \A column \in DOMAIN DefaultPolicy :
             policies'[t][column] = LastValue(Changes(t, PolicyOps)', column, DefaultPolicy[column])
      <3> SUFFICES ASSUME NEW column \in DOMAIN DefaultPolicy
                   PROVE  policies'[t][column] = LastValue(Changes(t, PolicyOps)', column, DefaultPolicy[column])
        OBVIOUS
      <3> DEFINE default == DefaultPolicy[column]
      <3>1. Changes(t, PolicyOps)' = Changes(t, PolicyOps) \cup {a}
        BY <1>4, <2>2
      <3>2. LastValue(Changes(t, PolicyOps) \cup {a}, column, default) =
               IF a.patch[column] # Nil THEN a.patch[column] ELSE LastValue(Changes(t, PolicyOps), column, default)
        BY <1>5, <2>2
      <3>3. policies[t][column] = LastValue(Changes(t, PolicyOps), column, default)
        BY <2>5
      <3> HIDE DEF default
      <3>4. policies'[t][column] = IF a.patch[column] # Nil THEN a.patch[column] ELSE policies[t][column]
        BY <2>4
      <3>5. policies'[t][column] = LastValue(Changes(t, PolicyOps)', column, default)
        BY <3>1, <3>2, <3>3, <3>4
      <3> QED
        BY <3>5 DEF default
    <2>7. Changes(t, TenantOps)' = Changes(t, TenantOps)
      BY <1>0, <1>3, <2>2
    <2> QED
      BY <1>9, <2>1, <2>5, <2>6, <2>7
  <1> QED
    BY <1>0, <1>6, <1>7, <1>8, <1>9 DEF Ops

\* The transaction commits; its client is told so or not.
LEMMA WriteStep ==
  ASSUME IInv, NEW r \in Requests, req[r].pc = "commit", Write(r), NEW code \in {"OK", "UNAVAILABLE"},
         req' = [req EXCEPT ![r] = Answered(code)], UNCHANGED clock
  PROVE  IInv'
  <1>1. PICK e : e = Answered(code)
    OBVIOUS
  <1>2. e \in Request /\ e.pc = "done" /\ e.code = code
    BY <1>1 DEF Answered, Unused, Request, Codes
  <1>3. req' = [req EXCEPT ![r] = e] /\ req'[r] = e /\ \A q \in Requests : q # r => req'[q] = req[q]
    BY <1>1 DEF IInv, Shape
  <1>t. PICK t : t = req[r].tenant
    OBVIOUS
  <1>a. PICK a : a = req[r].audit
    OBVIOUS
  <1>4. /\ t \in Tenants /\ a \in Audit /\ a.at \in Nat /\ a.request = r /\ a.tenant = t /\ a.op = req[r].op
        /\ a.patch = Details(req[r].op, req[r].patch) /\ a.op \in Ops /\ Input(r) /\ locked[Table(a.op)][t] = r
        /\ \A b \in audits : b.request # r
    BY <1>a, <1>t, CommitKnows DEF Audit
  <1>5. audits' = audits \cup {a}
    BY <1>a, WriteRows
  <1>6. Shape'
    <2>1. locked' \in [Tables -> [Tenants -> Requests \cup {Nil}]]
      BY UnlockedOK DEF Write, IInv
    <2>2. req' \in [Requests -> Request]
      BY <1>2, <1>3 DEF IInv, Shape
    <2> QED
      BY <1>4, <1>5, <2>1, <2>2, WriteRows DEF IInv, Shape
  <1>7. Fitting'
    <2>1. Fits(r)'
      BY <1>2, <1>3 DEF Fits
    <2> QED
      BY <1>3, <2>1, OthersKeep DEF Fitting
  <1>8. Stamps'
    <2>1. a.at < clock
      BY <1>a DEF IInv, Stamps
    <2>2. ASSUME NEW q \in Requests, q # r, req[q].pc = "commit"
          PROVE  /\ req[q].audit.at < clock /\ a.at # req[q].audit.at
                 /\ ~(a.tenant = req[q].tenant /\ Table(a.op) = Table(req[q].op))
      <3>1. locked[Table(req[q].op)][req[q].tenant] = q
        BY <2>2, CommitKnows
      <3> QED
        BY <1>4, <1>a, <2>2, <3>1 DEF IInv, Stamps
    <2> QED
      BY <1>2, <1>3, <1>5, <2>1, <2>2 DEF IInv, Stamps
  <1>9. Recorded'
    <2>1. \A b \in audits : b.request \in Requests /\ b.request # r
      BY <1>4 DEF IInv, Shape, Audit
    <2> QED
      BY <1>2, <1>3, <1>4, <1>5, <2>1 DEF IInv, Recorded
  <1>10. RecordShape'
    <2>1. IF a.op = "patchTenantPolicy" THEN a.patch \in PolicyPatch ELSE a.patch \in TenantPatch
      BY <1>4, CreationDetails, PatchDetails DEF Input, Ops
    <2> QED
      BY <1>5, <2>1 DEF IInv, RecordShape
  <1>11. Whole'
    <2>1. \A u \in Tenants : u # t => /\ tenants'[u] = tenants[u] /\ policies'[u] = policies[u]
                                      /\ u \in usages' <=> u \in usages
      BY <1>t, WriteRows
    <2>2. tenants'[t] # Nil /\ policies'[t] # Nil
      BY <1>t, WriteRows
    <2>3. CASE a.op = "createTenant"
      <3>1. tenants[t] = Nil /\ t \in usages'
        BY <1>4, <1>t, <2>3, WriteRows
      <3>2. \A b \in audits : b.tenant \in Tenants /\ b.tenant # t
        BY <3>1 DEF IInv, Shape, Audit, Whole
      <3>3. \A b \in audits' : tenants'[b.tenant] # Nil
        BY <1>4, <1>5, <2>1, <2>2, <3>2 DEF IInv, Whole
      <3>4. \A b, c \in audits' : b.op = "createTenant" /\ c.op = "createTenant" /\ b.tenant = c.tenant => b = c
        BY <1>4, <1>5, <3>2 DEF IInv, Whole
      <3>5. ASSUME NEW u \in Tenants
            PROVE  IF tenants'[u] = Nil THEN policies'[u] = Nil /\ u \notin usages'
                   ELSE /\ policies'[u] # Nil /\ u \in usages'
                        /\ \E b \in audits' : b.tenant = u /\ b.op = "createTenant"
        <4>1. CASE u = t
          BY <1>4, <1>5, <2>2, <2>3, <3>1, <4>1
        <4>2. CASE u # t
          BY <1>5, <2>1, <4>2 DEF IInv, Whole
        <4> QED
          BY <4>1, <4>2
      <3> QED
        BY <3>3, <3>4, <3>5 DEF Whole
    <2>4. CASE a.op # "createTenant"
      <3>1. tenants[t] # Nil /\ usages' = usages
        <4>1. policies[t] # Nil => tenants[t] # Nil
          BY <1>4 DEF IInv, Whole
        <4> QED
          BY <1>4, <1>t, <2>4, <4>1, WriteRows DEF Ops
      <3>2. t \in usages /\ \E b \in audits : b.tenant = t /\ b.op = "createTenant"
        BY <1>4, <3>1 DEF IInv, Whole
      <3>3. \A b \in audits' : tenants'[b.tenant] # Nil
        <4>1. \A b \in audits : b.tenant \in Tenants
          BY DEF IInv, Shape, Audit
        <4> QED
          BY <1>4, <1>5, <2>1, <2>2, <4>1 DEF IInv, Whole
      <3>4. \A b, c \in audits' : b.op = "createTenant" /\ c.op = "createTenant" /\ b.tenant = c.tenant => b = c
        BY <1>5, <2>4 DEF IInv, Whole
      <3>5. ASSUME NEW u \in Tenants
            PROVE  IF tenants'[u] = Nil THEN policies'[u] = Nil /\ u \notin usages'
                   ELSE /\ policies'[u] # Nil /\ u \in usages'
                        /\ \E b \in audits' : b.tenant = u /\ b.op = "createTenant"
        <4>1. CASE u = t
          BY <1>5, <2>2, <3>1, <3>2, <4>1
        <4>2. CASE u # t
          BY <1>5, <2>1, <4>2 DEF IInv, Whole
        <4> QED
          BY <4>1, <4>2
      <3> QED
        BY <3>3, <3>4, <3>5 DEF Whole
    <2> QED
      BY <2>3, <2>4
  <1>12. AuditReplays'
    BY ReplayStep
  <1> QED
    BY <1>6, <1>7, <1>8, <1>9, <1>10, <1>11, <1>12 DEF IInv

\* A commit keeps the invariant, whether or not its reply arrives.
LEMMA CommitStep == ASSUME IInv, NEW r \in Requests, Commit(r) \/ CommitReplyLost(r) PROVE IInv'
  BY WriteStep DEF Commit, CommitReplyLost

\* A rollback at any statement keeps the invariant and frees the locks.
LEMMA RollbackStep == ASSUME IInv, NEW r \in Requests, Rollback(r) PROVE IInv'
  BY RefuseStep DEF Rollback, Refuse, Codes

\* Init: nothing exists and nothing has been asked for.
LEMMA InitOK == ASSUME Init PROVE IInv
  <1>1. Unused \in Request /\ Unused.pc = "new" /\ Unused.code = Nil
    BY DEF Unused, Request
  <1>2. \A r \in Requests : req[r] = Unused
    BY DEF Init
  <1>3. Shape
    BY <1>1 DEF Init, Shape
  <1>4. Fitting /\ Stamps /\ Recorded /\ RecordShape /\ Whole
    BY <1>1, <1>2, Constants DEF Init, Fitting, Fits, Stamps, Recorded, RecordShape, Whole
  <1>5. AuditReplays
    BY DEF Init, AuditReplays
  <1> QED
    BY <1>3, <1>4, <1>5 DEF IInv

\* The invariant holds in every behaviour.
LEMMA Inductive == Spec => []IInv
  <1>1. ASSUME IInv, [Next]_vars PROVE IInv'
    <2>1. CASE UNCHANGED vars
      <3>1. UNCHANGED <<tenants, policies, usages, audits, locked, req, clock>>
        BY <2>1 DEF vars, tables
      <3>2. Fitting'
        <4>1. ASSUME NEW r \in Requests PROVE Fits(r)'
          <5>1. Fits(r) /\ req'[r] = req[r]
            BY <1>1, <3>1 DEF IInv, Fitting
          <5>2. Input(r) => Input(r)'
            BY <5>1 DEF Input
          <5>3. Guarded(r) => Guarded(r)'
            BY <3>1, <5>1 DEF Guarded
          <5>4. Written(r) => Written(r)'
            BY <3>1, <5>1 DEF Written
          <5>5. Underway(r) => Underway(r)'
            BY <3>1, <5>1, <5>2, <5>3, <5>4 DEF Underway
          <5> QED
            BY <5>1, <5>5 DEF Fits
        <4> QED
          BY <4>1 DEF Fitting
      <3>3. Shape' /\ Stamps' /\ Recorded' /\ RecordShape' /\ Whole'
        BY <1>1, <3>1 DEF IInv, Shape, Stamps, Recorded, RecordShape, Whole
      <3>4. AuditReplays'
        BY <1>1, <3>1 DEF IInv, AuditReplays, Changes
      <3> QED
        BY <3>2, <3>3, <3>4 DEF IInv
    <2>2. ASSUME NEW r \in Requests, Arrive(r) PROVE IInv'
      BY <1>1, <2>2, CreateTenantStep, PatchTenantStep, PatchTenantPolicyStep DEF Arrive
    <2>3. ASSUME NEW r \in Requests, Statement(r) PROVE IInv'
      BY <1>1, <2>3, InsertTenantStep, InsertDefaultsStep, UpdateTenantStep, ReadPolicyStep, UpdatePolicyStep,
         AppendAuditStep, CommitStep, RollbackStep DEF Statement
    <2> QED
      BY <1>1, <2>1, <2>2, <2>3 DEF Next
  <1> QED
    BY <1>1, InitOK, PTL DEF Spec

------------------------------------------------------------------------------
(* The theorems. *)

\* For any admins, patches and faults, replaying a tenant's audit records in the
\* order of created_at gives its name, status and policy, and its e-mail and
\* description once a patch has set them: concurrent updates of single columns
\* lose nothing and leave their records in the right order.
THEOREM AuditReplaysAlways == Spec => []AuditReplays
  <1>1. IInv => AuditReplays
    BY DEF IInv
  <1> QED
    BY <1>1, Inductive, PTL

\* For any creations of one tenant that race, fail and are sent again, its row,
\* policy, usage and exactly one record of its creation are all there or none
\* is.
THEOREM TenantWholeAlways == Spec => []TenantWhole
  <1>1. ASSUME IInv PROVE TenantWhole
    <2> SUFFICES ASSUME NEW t \in Tenants,
                        NEW created, created = {a \in audits : a.tenant = t /\ a.op = "createTenant"}
                 PROVE  IF tenants[t] = Nil THEN policies[t] = Nil /\ t \notin usages /\ created = {}
                        ELSE policies[t] # Nil /\ t \in usages /\ Cardinality(created) = 1
      BY DEF TenantWhole
    <2>1. CASE tenants[t] = Nil
      BY <1>1, <2>1 DEF IInv, Whole
    <2>2. CASE tenants[t] # Nil
      <3>1. PICK a \in audits : a.tenant = t /\ a.op = "createTenant"
        BY <1>1, <2>2 DEF IInv, Whole
      <3>2. created = {a}
        BY <1>1, <3>1 DEF IInv, Whole
      <3>3. Cardinality(created) = 1
        BY <3>2, FS_Singleton
      <3> QED
        BY <1>1, <2>2, <3>3 DEF IInv, Whole
    <2> QED
      BY <2>1, <2>2
  <1>2. IInv => TenantWhole
    BY <1>1
  <1> QED
    BY <1>2, Inductive, PTL

\* For any requests and faults, a change answered with success has one audit
\* record and a refused one has none; only an answer that was lost leaves it
\* open.
THEOREM AnswersAuditedAlways == Spec => []AnswersAudited
  <1>1. ASSUME IInv PROVE AnswersAudited
    <2> SUFFICES ASSUME NEW r \in Requests, NEW records, records = {a \in audits : a.request = r}
                 PROVE  /\ Cardinality(records) <= 1
                        /\ req[r].code = "OK" => records # {}
                        /\ req[r].code \notin {"OK", "UNAVAILABLE"} => records = {}
      BY DEF AnswersAudited
    <2>1. req[r].code = "OK" => records # {}
      BY <1>1 DEF IInv, Recorded
    <2>2. req[r].code \notin {"OK", "UNAVAILABLE"} => records = {}
      BY <1>1 DEF IInv, Recorded
    <2>3. CASE records = {}
      BY <2>1, <2>2, <2>3, FS_EmptySet
    <2>4. CASE records # {}
      <3>1. PICK a : records = {a}
        BY <1>1, <2>4 DEF IInv, Recorded
      <3>2. Cardinality(records) = 1
        BY <3>1, FS_Singleton
      <3> QED
        BY <2>1, <2>2, <3>2
    <2> QED
      BY <2>3, <2>4
  <1>2. IInv => AnswersAudited
    BY <1>1
  <1> QED
    BY <1>2, Inductive, PTL

\* A step commits at most one transaction, by its own Write.
LEMMA CommittedWrites ==
  ASSUME IInv, Next, NEW r \in Requests, Committed(r) PROVE req[r].pc = "commit" /\ Write(r)
  <1>1. req[r].pc = "commit" /\ req[r].audit \in audits' /\ req[r].audit \notin audits
    BY DEF Committed, IInv, Stamps
  <1>2. ASSUME NEW q \in Requests, Arrive(q) PROVE UNCHANGED audits
    BY <1>2 DEF Arrive, CreateTenant, PatchTenant, PatchTenantPolicy, tables
  <1>3. ASSUME NEW q \in Requests,
               \/ InsertTenant(q) \/ InsertDefaults(q) \/ UpdateTenant(q) \/ ReadPolicy(q)
               \/ UpdatePolicy(q) \/ AppendAudit(q) \/ Rollback(q)
        PROVE  UNCHANGED audits
    BY <1>3 DEF InsertTenant, InsertDefaults, UpdateTenant, ReadPolicy, UpdatePolicy, AppendAudit, Rollback, tables
  <1>4. PICK q \in Requests : Commit(q) \/ CommitReplyLost(q)
    BY <1>1, <1>2, <1>3 DEF Next, Statement
  <1>5. Write(q) /\ req[q].pc = "commit" /\ audits' = audits \cup {req[q].audit}
    BY <1>4 DEF Commit, CommitReplyLost, Write
  <1>6. req[r].audit = req[q].audit
    BY <1>1, <1>5
  <1>7. q = r
    BY <1>1, <1>5, <1>6 DEF IInv, Stamps
  <1> QED
    BY <1>1, <1>5, <1>7

\* For any admins and patches, every committed change is by an admin with the
\* role and the tenant in scope, and a destructive or tightening one has a
\* reason, unless the policy changed between the guard and the UPDATE.
THEOREM ChangesAuthorisedAlways == Spec => ChangesAuthorised
  <1> DEFINE Authorised(r) ==
                /\ MayOperate(req[r].admin, req[r].op, req[r].tenant)
                /\ tenants[req[r].tenant] # Nil /\ tenants'[req[r].tenant].status # tenants[req[r].tenant].status
                      /\ IsDestructive(tenants'[req[r].tenant].status) => req[r].patch.reason
                /\ policies[req[r].tenant] # Nil
                      /\ TightensComparedTo(policies'[req[r].tenant], policies[req[r].tenant]) =>
                      req[r].patch.reason \/ req[r].seen # policies[req[r].tenant]
             Step == \A r \in Requests : Committed(r) => Authorised(r)
  <1>1. ASSUME IInv, [Next]_vars PROVE [Step]_vars
    <2> SUFFICES ASSUME Next, NEW r \in Requests, Committed(r) PROVE Authorised(r)
      BY <1>1
    <2> DEFINE t == req[r].tenant
    <2>1. /\ req[r].pc = "commit" /\ Write(r) /\ Input(r) /\ Guarded(r) /\ req[r].op \in Ops /\ t \in Tenants
      BY <1>1, CommittedWrites, CommitKnows
    <2>2. policies[t] # Nil => policies[t] \in PolicyRow
      BY <1>1, <2>1 DEF IInv, Shape
    <2>3. CASE req[r].op = "createTenant"
      <3>1. tenants[t] = Nil /\ policies[t] = Nil
        BY <1>1, <2>1, <2>3, WriteRows DEF IInv, Whole
      <3> QED
        BY <2>1, <2>3, <3>1 DEF Input
    <2>4. CASE req[r].op = "patchTenant"
      <3>1. tenants'[t] = PatchedTenant(req[r].patch, tenants[t]) /\ policies'[t] = policies[t]
        BY <1>1, <2>1, <2>4, WriteRows
      <3>2. tenants'[t].status # tenants[t].status => tenants'[t].status = req[r].patch.status
        BY <3>1 DEF PatchedTenant
      <3>3. policies[t] # Nil => ~TightensComparedTo(policies'[t], policies[t])
        BY <2>2, <3>1, NoTighterThanItself
      <3> QED
        BY <2>1, <2>4, <3>2, <3>3 DEF Input
    <2>5. CASE req[r].op = "patchTenantPolicy"
      <3>1. policies'[t] = ApplyTo(req[r].patch, policies[t]) /\ tenants' = tenants
        BY <1>1, <2>1, <2>5, WriteRows
      <3>2. /\ MayOperate(req[r].admin, req[r].op, t)
            /\ TightensComparedTo(ApplyTo(req[r].patch, req[r].seen), req[r].seen) => req[r].patch.reason
        BY <2>1, <2>5 DEF Guarded
      <3> QED
        BY <3>1, <3>2
    <2> QED
      BY <2>1, <2>3, <2>4, <2>5 DEF Ops
  <1>2. IInv /\ [Next]_vars => [Step]_vars
    BY <1>1
  <1>3. [Step]_vars => [\A r \in Requests : Committed(r) =>
          LET t == req[r].tenant
              patch == req[r].patch IN
          /\ MayOperate(req[r].admin, req[r].op, t)
          /\ tenants[t] # Nil /\ tenants'[t].status # tenants[t].status
                /\ IsDestructive(tenants'[t].status) => patch.reason
          /\ policies[t] # Nil /\ TightensComparedTo(policies'[t], policies[t]) =>
                patch.reason \/ req[r].seen # policies[t]]_vars
    OBVIOUS
  <1> QED
    BY <1>2, <1>3, Inductive, PTL DEF Spec, ChangesAuthorised

==============================================================================
