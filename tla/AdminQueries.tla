----------------------------- MODULE AdminQueries -----------------------------
(***************************************************************************)
(* The admin service's reads: single rows, and the paged lists of tenants, *)
(* files and audit records.  A client walks a list page by page, handing   *)
(* back the cursor of each page, while other transactions insert rows and  *)
(* change their status.                                                    *)
(*                                                                         *)
(* The three lists differ in their filters and share the order, the cursor *)
(* and the way a page is cut; variable list says which one is walked.      *)
(***************************************************************************)
EXTENDS AdminAuth, FiniteSets

CONSTANTS
    Nil,
    Admins,        \* [roles, scopes] of the tokens in use
    Tenants,
    Statuses,      \* values of status (of action, in the audit log)
    Keys,          \* created_at, primary key and tenant of the rows that may come
    Limits,        \* limit parameters; 0 stands for none
    DefaultLimit,
    MaxLimit

ASSUME AdminQueriesAssumption ==
    /\ Keys \subseteq [at : Nat, id : Nat, tenant : Tenants] /\ IsFiniteSet(Keys)
    /\ \A key, other \in Keys : key.id = other.id => key = other
    /\ Limits \subseteq Nat
    /\ DefaultLimit \in Nat \ {0} /\ MaxLimit \in Nat \ {0}
    /\ Nil \notin Tenants \cup Statuses
    /\ Nil \notin [at : Nat, id : Nat, tenant : Tenants, status : Statuses]
    /\ IsFiniteSet(Statuses)

VARIABLES
    list,    \* which list is walked
    rows,    \* the committed rows of its table
    walk,    \* the client's walk
    steady   \* the rows that have been there, unchanged, since the walk began

vars == <<list, rows, walk, steady>>

MakeRow(key, s) == [at |-> key.at, id |-> key.id, tenant |-> key.tenant, status |-> s]
Row == {MakeRow(key, s) : key \in Keys, s \in Statuses}

\* A walk: who walks; the query; the cursor to hand back; the last page; every
\* row listed so far; every row a cursor was made of.
Idle == [pc |-> "idle", admin |-> Nil, tenant |-> Nil, status |-> Nil, limit |-> 1, cursor |-> Nil,
         page |-> {}, listed |-> {}, cursors |-> {}]

Operation == CASE list = "tenants" -> "listTenants"
               [] list = "files" -> "listFiles"
               [] list = "audits" -> "listAuditLogs"

------------------------------------------------------------------------------
(* Pages. *)

normalizeLimit(value) ==
    LET limit == IF value = 0 THEN DefaultLimit ELSE value IN
    IF limit > MaxLimit THEN MaxLimit ELSE limit

\* scopedTenants: empty stands for no restriction.
scopedTenants(admin) == IF IsGlobalScope(admin) THEN {} ELSE TenantScopes(admin)

\* The WHERE clause: a tenant that is asked for, or else the scopes; a status.
Matches(row) ==
    LET scopes == scopedTenants(walk.admin) IN
    /\ IF walk.tenant # Nil THEN row.tenant = walk.tenant ELSE scopes = {} \/ row.tenant \in scopes
    /\ walk.status = Nil \/ row.status = walk.status

\* Mutant of Below: only the creation time is compared.
BelowTime(row, other) == row.at < other.at

\* (created_at, id) < (created_at, id)
Below(row, other) == row.at < other.at \/ (row.at = other.at /\ row.id < other.id)

\* The rows the query selects; a cursor names a created_at and an id.
Candidates == {row \in rows : Matches(row) /\ (walk.cursor = Nil \/ Below(row, walk.cursor))}

\* How many of the rows come before this one under ORDER BY ... DESC.
Position(row, set) == Cardinality({other \in set : Below(row, other)})

\* trimPage: LIMIT limit + 1; the extra row is not returned and becomes the cursor.
Page(set) == {row \in set : Position(row, set) < walk.limit}

\* Mutant of NextCursor: the cursor is made of the first row of the page.
NextCursorOfFirst(set) ==
    IF \E row \in set : Position(row, set) = walk.limit
    THEN CHOOSE row \in set : Position(row, set) = 0
    ELSE Nil

NextCursor(set) ==
    IF \E row \in set : Position(row, set) = walk.limit
    THEN CHOOSE row \in set : Position(row, set) = walk.limit
    ELSE Nil

------------------------------------------------------------------------------
(* Queries. *)

\* The checks of a list query and its first page's parameters.
StartList(a, t, s, limit) ==
    /\ walk.pc = "idle"
    /\ list = "tenants" => t = Nil
    /\ walk' = IF AuthorizeOperation(a, Operation) /\ (t # Nil => CanAccessTenant(a, t))
               THEN [Idle EXCEPT !.pc = "walking", !.admin = a, !.tenant = t, !.status = s,
                                 !.limit = normalizeLimit(limit)]
               ELSE [Idle EXCEPT !.pc = "denied"]
    /\ steady' = rows
    /\ UNCHANGED <<list, rows>>

\* One page.
ListPage ==
    LET set == Candidates
        next == NextCursor(set) IN
    /\ walk.pc = "walking"
    /\ walk' = [walk EXCEPT !.pc = IF next = Nil THEN "done" ELSE "walking",
                            !.page = Page(set), !.listed = @ \cup Page(set), !.cursor = next,
                            !.cursors = IF next = Nil THEN @ ELSE @ \cup {next}]
    /\ UNCHANGED <<list, rows, steady>>

\* GetTenant, GetTenantPolicy, GetTenantUsage and GetFile: a tenant's scope is
\* checked before the row is read, a file's after.
GetOne(a, row) ==
    /\ walk.pc = "idle" /\ list # "audits"
    /\ walk' = IF MayOperate(a, IF list = "tenants" THEN "getTenant" ELSE "getFile", row.tenant)
               THEN [Idle EXCEPT !.pc = "done", !.admin = a, !.page = {row}]
               ELSE [Idle EXCEPT !.pc = "denied"]
    /\ UNCHANGED <<list, rows, steady>>

------------------------------------------------------------------------------
(* Environment; it rests once the client has its answer. *)

\* A transaction commits a row.  created_at is taken before, so a row may
\* become visible behind younger ones.
Insert(row) ==
    /\ walk.pc \in {"idle", "walking"}
    /\ \A other \in rows : other.id # row.id /\ (list = "tenants" => other.tenant # row.tenant)
    /\ rows' = rows \cup {row}
    /\ UNCHANGED <<list, walk, steady>>

\* A tenant or a file changes its status; audit records never change.
Change(row, s) ==
    /\ walk.pc \in {"idle", "walking"}
    /\ list # "audits" /\ row.status # s
    /\ rows' = (rows \ {row}) \cup {[row EXCEPT !.status = s]}
    /\ steady' = steady \ {row}
    /\ UNCHANGED <<list, walk>>

------------------------------------------------------------------------------
Init ==
    /\ list \in {"tenants", "files", "audits"}
    /\ rows = {}
    /\ walk = Idle
    /\ steady = {}

Next ==
    \/ \E a \in Admins, t \in Tenants \cup {Nil}, s \in Statuses \cup {Nil}, limit \in Limits :
          StartList(a, t, s, limit)
    \/ ListPage
    \/ \E a \in Admins, row \in rows : GetOne(a, row)
    \/ \E row \in Row : Insert(row)
    \/ \E row \in rows, s \in Statuses : Change(row, s)

Spec == Init /\ [][Next]_vars

------------------------------------------------------------------------------
(* Properties. *)

\* No row is listed twice in a walk, and every page is older than the pages
\* before it, whatever is inserted or changed between the pages.
PagesDescend ==
    [][walk.pc = "walking" /\ walk' # walk =>
          \A row \in walk'.page, listed \in walk.listed : Below(row, listed) /\ row.id # listed.id]_vars

\* A client sees rows of its tenants only.
InScope == \A row \in walk.page \cup walk.listed : CanAccessTenant(walk.admin, row.tenant)

\* A row that was there and matched throughout the walk is listed, unless a
\* cursor was made of it: a walk misses at most one row per page boundary.
MissedOnlyAtBoundaries ==
    walk.pc = "done" /\ walk.listed # {} =>
       \A row \in steady : Matches(row) => row \in walk.listed \cup walk.cursors

\* A row that was there and matched throughout the walk is listed.
NothingMissed ==
    walk.pc = "done" /\ walk.listed # {} => \A row \in steady : Matches(row) => row \in walk.listed
==============================================================================
