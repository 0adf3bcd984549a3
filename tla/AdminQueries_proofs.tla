------------------------- MODULE AdminQueries_proofs -------------------------
(***************************************************************************)
(* Proofs about AdminQueries for any rows, admins, statuses and limits.    *)
(*                                                                         *)
(* The order of a list is total on rows with different ids, so the rows a  *)
(* query selects have the positions 0, 1, 2, ...  A page is the positions  *)
(* below the limit, its cursor the row at the limit, and what the next     *)
(* query selects lies below that row.                                      *)
(***************************************************************************)
EXTENDS AdminQueries, FiniteSetTheorems, NaturalsInduction, TLAPS

------------------------------------------------------------------------------
(* The order of rows. *)

\* The columns of a row.
LEMMA RowType ==
  ASSUME NEW row \in Row
  PROVE  /\ row.at \in Nat /\ row.id \in Nat /\ row.tenant \in Tenants /\ row.status \in Statuses
         /\ row # Nil /\ row = [at |-> row.at, id |-> row.id, tenant |-> row.tenant, status |-> row.status]
  <1>1. PICK key \in Keys, s \in Statuses : row = MakeRow(key, s)
    BY DEF Row
  <1>2. key \in [at : Nat, id : Nat, tenant : Tenants]
    BY <1>1, AdminQueriesAssumption
  <1>3. row = [at |-> key.at, id |-> key.id, tenant |-> key.tenant, status |-> s]
    BY <1>1 DEF MakeRow
  <1>4. row \in [at : Nat, id : Nat, tenant : Tenants, status : Statuses]
    BY <1>1, <1>2, <1>3
  <1> QED
    BY <1>3, <1>4, AdminQueriesAssumption

\* Rows with one id were created at one time.
LEMMA SameIdSameTime == ASSUME NEW x \in Row, NEW y \in Row, x.id = y.id PROVE x.at = y.at
  <1>1. PICK key \in Keys, s \in Statuses : x = MakeRow(key, s)
    BY DEF Row
  <1>2. PICK other \in Keys, u \in Statuses : y = MakeRow(other, u)
    BY DEF Row
  <1>3. key = other
    BY <1>1, <1>2, AdminQueriesAssumption DEF MakeRow
  <1> QED
    BY <1>1, <1>2, <1>3 DEF MakeRow

\* The order of a list (created_at, then id, descending) is transitive.
LEMMA BelowTrans ==
  ASSUME NEW x \in Row, NEW y \in Row, NEW z \in Row, Below(x, y), Below(y, z) PROVE Below(x, z)
  BY RowType DEF Below

\* No row is below itself.
LEMMA BelowIrreflexive == ASSUME NEW x \in Row PROVE ~Below(x, x)
  BY RowType DEF Below

\* Rows with different ids are ordered, also when created at the same time.
LEMMA BelowTotal == ASSUME NEW x \in Row, NEW y \in Row, x.id # y.id PROVE Below(x, y) \/ Below(y, x)
  BY RowType DEF Below

\* A row below another is another row, whatever status either has.
LEMMA BelowOtherId == ASSUME NEW x \in Row, NEW y \in Row, Below(x, y) PROVE x.id # y.id
  BY RowType, SameIdSameTime DEF Below

------------------------------------------------------------------------------
(* Positions. *)

\* A set of rows as a table holds it.
Table(set) ==
    /\ set \subseteq Row /\ IsFiniteSet(set)
    /\ \A x, y \in set : x.id = y.id => x = y

Above(row, set) == {other \in set : Below(row, other)}

\* A position is a natural number: finitely many rows are above a row.
LEMMA PositionType ==
  ASSUME NEW set, Table(set), NEW x \in set
  PROVE  /\ IsFiniteSet(Above(x, set)) /\ Position(x, set) = Cardinality(Above(x, set))
         /\ Position(x, set) \in Nat
  <1>1. IsFiniteSet(Above(x, set))
    BY FS_Subset DEF Above, Table
  <1>2. Position(x, set) = Cardinality(Above(x, set))
    BY DEF Position, Above
  <1> QED
    BY <1>1, <1>2, FS_CardinalityType

\* A row comes later than the rows above it.
LEMMA PositionGrows ==
  ASSUME NEW set, Table(set), NEW x \in set, NEW y \in set, Below(x, y)
  PROVE  Position(y, set) < Position(x, set)
  <1>1. Above(y, set) \in SUBSET Above(x, set)
    BY BelowTrans DEF Above, Table
  <1>2. y \in Above(x, set) /\ y \notin Above(y, set)
    BY BelowIrreflexive DEF Above, Table
  <1>3. Cardinality(Above(y, set)) <= Cardinality(Above(x, set)) /\ Cardinality(Above(y, set)) # Cardinality(Above(x, set))
    BY <1>1, <1>2, PositionType, FS_Subset
  <1> QED
    BY <1>3, PositionType

\* No two rows have one position.
LEMMA PositionUnique ==
  ASSUME NEW set, Table(set), NEW x \in set, NEW y \in set, Position(x, set) = Position(y, set)
  PROVE  x = y
  <1>1. CASE x.id = y.id
    BY <1>1 DEF Table
  <1>2. CASE x.id # y.id
    <2>1. Below(x, y) \/ Below(y, x)
      BY <1>2, BelowTotal DEF Table
    <2> QED
      BY <2>1, PositionGrows, PositionType
  <1> QED
    BY <1>1, <1>2

\* A later row is below.
LEMMA PositionBelow ==
  ASSUME NEW set, Table(set), NEW x \in set, NEW y \in set, Position(y, set) < Position(x, set)
  PROVE  Below(x, y)
  <1>1. x.id # y.id
    BY PositionType DEF Table
  <1>2. Below(x, y) \/ Below(y, x)
    BY <1>1, BelowTotal DEF Table
  <1> QED
    BY <1>2, PositionGrows, PositionType

\* Every set of natural numbers that is not empty has a least element.
LEMMA NatMin == ASSUME NEW T \in SUBSET Nat, T # {} PROVE \E x \in T : \A y \in T : x <= y
  <1>1. IsWellFoundedOn(OpToRel(<, Nat), Nat)
    BY NatLessThanWellFounded
  <1>2. PICK x \in T : \A y \in T : ~(<<y, x>> \in OpToRel(<, Nat))
    BY <1>1, WFMin
  <1>3. \A y \in T : ~(y < x)
    BY <1>2 DEF OpToRel
  <1> QED
    BY <1>3

\* The row right before one that is not the first.
LEMMA PositionBefore ==
  ASSUME NEW set, Table(set), NEW x \in set, Position(x, set) # 0
  PROVE  \E y \in set : Position(y, set) = Position(x, set) - 1
  <1> DEFINE A == Above(x, set)
  <1>0. A \subseteq set /\ IsFiniteSet(A) /\ Position(x, set) = Cardinality(A) /\ Position(x, set) \in Nat
    BY PositionType DEF Above
  <1>1. A # {}
    <2>1. Cardinality({}) = 0
      BY FS_EmptySet
    <2> HIDE DEF A
    <2> QED
      BY <1>0, <2>1
  <1>2. \A y \in A : Position(y, set) \in Nat /\ Position(y, set) <= Position(x, set)
    <2> SUFFICES ASSUME NEW y \in A PROVE Position(y, set) \in Nat /\ Position(y, set) <= Position(x, set)
      OBVIOUS
    <2>1. y \in set /\ Below(x, y)
      BY DEF Above
    <2>2. Position(y, set) \in Nat /\ Position(y, set) < Position(x, set)
      BY <2>1, PositionType, PositionGrows
    <2> QED
      BY <1>0, <2>2
  <1> DEFINE D == {Position(x, set) - Position(y, set) : y \in A}
  <1>3. D \in SUBSET Nat /\ D # {}
    BY <1>0, <1>1, <1>2
  <1>4. PICK d \in D : \A c \in D : d <= c
    BY <1>3, NatMin
  <1>5. PICK y \in A : d = Position(x, set) - Position(y, set)
    BY <1>4
  <1>6. \A z \in A : Position(z, set) <= Position(y, set)
    <2> SUFFICES ASSUME NEW z \in A PROVE Position(z, set) <= Position(y, set)
      OBVIOUS
    <2>1. d <= Position(x, set) - Position(z, set)
      BY <1>4
    <2> QED
      BY <1>0, <1>2, <1>5, <2>1
  <1>7. Above(y, set) = A \ {y}
    <2>1. ASSUME NEW z \in A, z # y PROVE Below(y, z)
      <3>1. Position(z, set) # Position(y, set)
        BY <1>0, <2>1, PositionUnique
      <3>2. Position(z, set) < Position(y, set)
        BY <1>2, <1>6, <3>1
      <3> QED
        BY <1>0, <3>2, PositionBelow
    <2>2. ASSUME NEW z \in set, Below(y, z) PROVE z \in A /\ z # y
      <3>1. Below(x, y) /\ x \in Row /\ y \in Row /\ z \in Row
        BY <1>0 DEF Above, Table
      <3> QED
        BY <2>2, <3>1, BelowTrans, BelowIrreflexive DEF Above
    <2> QED
      BY <1>0, <2>1, <2>2 DEF Above
  <1>8. Cardinality(A \ {y}) = Cardinality(A) - 1
    BY <1>0, FS_RemoveElement
  <1>9. y \in set /\ Position(y, set) = Cardinality(A \ {y})
    BY <1>0, <1>7, PositionType
  <1> QED
    BY <1>0, <1>8, <1>9

\* Positions have no gaps: a set with a row beyond a limit has one at it.
LEMMA PositionAt ==
  ASSUME NEW set, Table(set), NEW x \in set, NEW n \in Nat, n <= Position(x, set)
  PROVE  \E y \in set : Position(y, set) = n
  <1> DEFINE T == {k \in Nat : n <= k /\ \E y \in set : Position(y, set) = k}
  <1>1. T \in SUBSET Nat /\ T # {}
    BY PositionType
  <1>2. PICK k \in T : \A j \in T : k <= j
    BY <1>1, NatMin
  <1>3. PICK y \in set : Position(y, set) = k
    BY <1>2
  <1>4. CASE k = n
    BY <1>3, <1>4
  <1>5. CASE k # n
    <2>1. k \in Nat /\ n <= k - 1 /\ k - 1 \in Nat /\ k # 0 /\ ~(k <= k - 1)
      BY <1>2, <1>5
    <2>2. PICK z \in set : Position(z, set) = k - 1
      BY <1>3, <2>1, PositionBefore
    <2>3. k - 1 \in T
      BY <2>1, <2>2
    <2> QED
      BY <1>2, <2>1, <2>3
  <1> QED
    BY <1>4, <1>5

------------------------------------------------------------------------------
(* The inductive invariant. *)

Walk ==
    [pc : {"idle", "walking", "done", "denied"}, admin : Admins \cup {Nil}, tenant : Tenants \cup {Nil},
     status : Statuses \cup {Nil}, limit : Nat \ {0}, cursor : Row \cup {Nil},
     page : SUBSET Row, listed : SUBSET Row, cursors : SUBSET Row]

Shape == walk \in Walk /\ Table(rows) /\ steady \subseteq rows

\* What the checks of a list query established.
Checked == walk.pc = "walking" /\ walk.tenant # Nil => CanAccessTenant(walk.admin, walk.tenant)

\* The cursor is below everything listed.
CursorBelow ==
    walk.pc = "walking" =>
       /\ walk.cursor = Nil => walk.listed = {}
       /\ walk.cursor # Nil => \A row \in walk.listed : Below(walk.cursor, row)

\* A row that stays and matches has been listed, is a cursor, or is still to come.
Covered ==
    walk.pc = "walking" =>
       \A row \in steady : Matches(row) =>
          \/ row \in walk.listed \cup walk.cursors
          \/ walk.cursor = Nil \/ Below(row, walk.cursor)

IInv == Shape /\ Checked /\ CursorBelow /\ Covered /\ InScope /\ MissedOnlyAtBoundaries

\* What a query selects is a table of its own, made of stored rows.
LEMMA CandidatesTable ==
  ASSUME Shape PROVE Table(Candidates) /\ Candidates \subseteq rows
  <1>1. Candidates \in SUBSET rows
    BY DEF Candidates
  <1>2. IsFiniteSet(Candidates)
    BY <1>1, FS_Subset DEF Shape, Table
  <1> QED
    BY <1>1, <1>2 DEF Shape, Table

\* A row that the query selects is of a tenant in scope.
LEMMA MatchInScope ==
  ASSUME Checked, walk.pc = "walking", NEW row, Matches(row)
  PROVE  CanAccessTenant(walk.admin, row.tenant)
  <1>1. CASE walk.tenant # Nil
    BY <1>1 DEF Matches, Checked
  <1>2. CASE walk.tenant = Nil
    <2>1. ~IsGlobalScope(walk.admin) => TenantScopes(walk.admin) # {}
      BY DEF IsGlobalScope, TenantScopes
    <2> QED
      BY <1>2, <2>1 DEF Matches, CanAccessTenant, scopedTenants
  <1> QED
    BY <1>1, <1>2

\* The cursor a page hands out.
LEMMA NextCursorIs ==
  ASSUME Shape
  PROVE  LET next == NextCursor(Candidates) IN
         /\ next = Nil => \A row \in Candidates : row \in Page(Candidates)
         /\ next # Nil => /\ next \in Candidates /\ next \in Row
                          /\ \A row \in Page(Candidates) : Below(next, row)
                          /\ \A row \in Candidates :
                                row \in Page(Candidates) \/ row = next \/ Below(row, next)
  <1>0. PICK set : set = Candidates
    OBVIOUS
  <1>1. Table(set) /\ set \subseteq Row /\ walk.limit \in Nat
    BY <1>0, CandidatesTable DEF Table, Shape, Walk
  <1>2. \A row \in set : row # Nil /\ Position(row, set) \in Nat
    BY <1>1, RowType, PositionType
  <1>3. CASE \E row \in set : Position(row, set) = walk.limit
    <2> DEFINE next == CHOOSE row \in set : Position(row, set) = walk.limit
    <2>1. next \in set /\ Position(next, set) = walk.limit
      BY <1>3
    <2>2. NextCursor(set) = next
      BY <1>3 DEF NextCursor
    <2> HIDE DEF next
    <2>3. next # Nil /\ next \in Row
      BY <1>1, <1>2, <2>1
    <2>4. \A row \in Page(set) : Below(next, row)
      BY <1>1, <2>1, PositionBelow DEF Page
    <2>5. ASSUME NEW row \in set PROVE row \in Page(set) \/ row = next \/ Below(row, next)
      <3>1. CASE Position(row, set) < walk.limit
        BY <3>1 DEF Page
      <3>2. CASE Position(row, set) = walk.limit
        BY <1>1, <2>1, <3>2, PositionUnique
      <3>3. CASE walk.limit < Position(row, set)
        BY <1>1, <2>1, <3>3, PositionBelow
      <3> QED
        BY <1>1, <1>2, <3>1, <3>2, <3>3
    <2> QED
      BY <1>0, <2>1, <2>2, <2>3, <2>4, <2>5
  <1>4. CASE ~\E row \in set : Position(row, set) = walk.limit
    <2>1. NextCursor(set) = Nil
      BY <1>4 DEF NextCursor
    <2>2. ASSUME NEW row \in set PROVE row \in Page(set)
      <3>1. ~(walk.limit <= Position(row, set))
        BY <1>1, <1>4, PositionAt
      <3> QED
        BY <1>1, <1>2, <3>1 DEF Page
    <2> QED
      BY <1>0, <2>1, <2>2
  <1> QED
    BY <1>3, <1>4

\* One page: it lies below the cursor, and the new cursor below it.
LEMMA ListPageStep == ASSUME IInv, ListPage PROVE IInv'
  <1>p. PICK page : page = Page(Candidates)
    OBVIOUS
  <1>n. PICK next : next = NextCursor(Candidates)
    OBVIOUS
  <1> DEFINE pc == IF next = Nil THEN "done" ELSE "walking"
             cursors == IF next = Nil THEN walk.cursors ELSE walk.cursors \cup {next}
             w == [walk EXCEPT !.pc = pc, !.page = page, !.listed = walk.listed \cup page, !.cursor = next,
                               !.cursors = cursors]
  <1>0. walk.pc = "walking" /\ UNCHANGED <<list, rows, steady>> /\ walk \in Walk /\ Shape
    BY DEF ListPage, IInv, Shape
  <1>1. walk' = w
    BY <1>0, <1>n, <1>p DEF ListPage, Walk
  <1>2. Candidates \subseteq rows /\ rows \subseteq Row /\ page \subseteq Candidates
    BY <1>0, <1>p, CandidatesTable DEF Page, Shape, Table
  <1>3. /\ next = Nil => \A row \in Candidates : row \in page
        /\ next # Nil => /\ next \in Candidates /\ next \in Row
                         /\ \A row \in page : Below(next, row)
                         /\ \A row \in Candidates : row \in page \/ row = next \/ Below(row, next)
    BY <1>0, <1>n, <1>p, NextCursorIs
  <1>4. pc \in {"done", "walking"} /\ cursors \subseteq Row /\ page \subseteq Row
    BY <1>0, <1>2, <1>3 DEF Walk
  <1>5. next = Nil <=> pc = "done"
    OBVIOUS
  <1>6. walk.cursors \subseteq cursors /\ (next # Nil => next \in cursors)
    OBVIOUS
  <1> HIDE DEF pc, cursors
  <1>7. /\ walk' \in Walk /\ walk'.pc = pc /\ walk'.page = page /\ walk'.listed = walk.listed \cup page
        /\ walk'.cursor = next /\ walk'.cursors = cursors /\ walk'.admin = walk.admin
        /\ walk'.tenant = walk.tenant /\ walk'.status = walk.status
    BY <1>0, <1>1, <1>3, <1>4 DEF Walk
  <1>8. \A row : Matches(row)' <=> Matches(row)
    BY <1>7 DEF Matches
  <1>9. Shape'
    BY <1>0, <1>7 DEF Shape
  <1>10. Checked'
    BY <1>0, <1>7 DEF IInv, Checked
  <1>11. CursorBelow'
    <2>1. ASSUME next # Nil, NEW row \in walk.listed PROVE Below(next, row)
      <3>1. next \in Candidates /\ next \in Row /\ row \in Row /\ walk.cursor # Nil /\ walk.cursor \in Row
        BY <1>0, <1>3, <2>1 DEF IInv, CursorBelow, Walk
      <3>2. Below(next, walk.cursor) /\ Below(walk.cursor, row)
        BY <1>0, <3>1 DEF Candidates, IInv, CursorBelow
      <3> QED
        BY <3>1, <3>2, BelowTrans
    <2> QED
      BY <1>3, <1>5, <1>7, <2>1 DEF CursorBelow
  <1>12. ASSUME NEW row \in steady, Matches(row)
         PROVE  \/ row \in walk.listed \cup page \cup cursors
                \/ next # Nil /\ Below(row, next)
    <2>1. row \in rows
      BY <1>0 DEF Shape
    <2>2. CASE row \in walk.listed \cup walk.cursors
      BY <1>6, <2>2
    <2>3. CASE walk.cursor = Nil \/ Below(row, walk.cursor)
      <3>1. row \in Candidates
        BY <1>12, <2>1, <2>3 DEF Candidates
      <3> QED
        BY <1>3, <1>6, <3>1
    <2> QED
      BY <1>0, <1>12, <2>2, <2>3 DEF IInv, Covered
  <1>13. Covered'
    BY <1>0, <1>7, <1>8, <1>12 DEF Covered
  <1>14. MissedOnlyAtBoundaries'
    BY <1>0, <1>5, <1>7, <1>8, <1>12 DEF MissedOnlyAtBoundaries
  <1>15. InScope'
    <2>1. \A row \in page : CanAccessTenant(walk.admin, row.tenant)
      BY <1>0, <1>2, MatchInScope DEF IInv, Candidates
    <2> QED
      BY <1>7, <2>1 DEF IInv, InScope
  <1> QED
    BY <1>9, <1>10, <1>11, <1>13, <1>14, <1>15 DEF IInv

\* normalizeLimit never answers zero, so a page has room for a row.
LEMMA LimitType == ASSUME NEW limit \in Limits PROVE normalizeLimit(limit) \in Nat \ {0}
  <1>1. limit \in Nat /\ DefaultLimit \in Nat \ {0} /\ MaxLimit \in Nat \ {0}
    BY AdminQueriesAssumption
  <1> QED
    BY <1>1 DEF normalizeLimit

\* A client that lists nothing has the type of a walk.
LEMMA IdleOK == Idle \in Walk
  BY DEF Idle, Walk

\* A list query starts a walk over the rows that are there.
LEMMA StartListStep ==
  ASSUME IInv, NEW a \in Admins, NEW t \in Tenants \cup {Nil}, NEW s \in Statuses \cup {Nil},
         NEW limit \in Limits, StartList(a, t, s, limit)
  PROVE  IInv'
  <1>0. steady' = rows /\ rows' = rows /\ Shape
    BY DEF StartList, IInv
  <1>1. PICK n \in Nat \ {0} : n = normalizeLimit(limit)
    BY LimitType
  <1>2. CASE /\ t # Nil => CanAccessTenant(a, t)
             /\ walk' = [Idle EXCEPT !.pc = "walking", !.admin = a, !.tenant = t, !.status = s, !.limit = n]
    <2>1. /\ walk' \in Walk /\ walk'.pc = "walking" /\ walk'.admin = a /\ walk'.tenant = t
          /\ walk'.cursor = Nil /\ walk'.page = {} /\ walk'.listed = {}
      BY <1>2 DEF Idle, Walk
    <2> QED
      BY <1>0, <1>2, <2>1
      DEF IInv, Shape, Table, Checked, CursorBelow, Covered, InScope, MissedOnlyAtBoundaries
  <1>3. CASE walk' = [Idle EXCEPT !.pc = "denied"]
    <2>1. walk' \in Walk /\ walk'.pc = "denied" /\ walk'.page = {} /\ walk'.listed = {}
      BY <1>3 DEF Idle, Walk
    <2> QED
      BY <1>0, <2>1 DEF IInv, Shape, Table, Checked, CursorBelow, Covered, InScope, MissedOnlyAtBoundaries
  <1>4. \/ /\ t # Nil => CanAccessTenant(a, t)
           /\ walk' = [Idle EXCEPT !.pc = "walking", !.admin = a, !.tenant = t, !.status = s,
                                   !.limit = normalizeLimit(limit)]
        \/ walk' = [Idle EXCEPT !.pc = "denied"]
    BY DEF StartList
  <1> QED
    BY <1>1, <1>2, <1>3, <1>4

\* A single row is shown to an admin of its tenant.
LEMMA GetOneStep ==
  ASSUME IInv, NEW a \in Admins, NEW row \in rows, GetOne(a, row)
  PROVE  IInv'
  <1>0. steady' = steady /\ rows' = rows /\ Shape /\ row \in Row
    BY DEF GetOne, IInv, Shape, Table
  <1>1. CASE /\ CanAccessTenant(a, row.tenant)
             /\ walk' = [Idle EXCEPT !.pc = "done", !.admin = a, !.page = {row}]
    <2>1. PICK page \in SUBSET Row : page = {row}
      BY <1>0
    <2>2. walk' = [Idle EXCEPT !.pc = "done", !.admin = a, !.page = page]
      BY <1>1, <2>1
    <2>3. walk' \in Walk
      BY <2>2, IdleOK DEF Walk
    <2>4. walk'.pc = "done" /\ walk'.admin = a /\ walk'.page = page /\ walk'.listed = {}
      BY <2>2 DEF Idle
    <2> QED
      BY <1>0, <1>1, <2>1, <2>3, <2>4
      DEF IInv, Shape, Table, Checked, CursorBelow, Covered, InScope, MissedOnlyAtBoundaries
  <1>2. CASE walk' = [Idle EXCEPT !.pc = "denied"]
    <2>1. walk' \in Walk /\ walk'.pc = "denied" /\ walk'.page = {} /\ walk'.listed = {}
      BY <1>2 DEF Idle, Walk
    <2> QED
      BY <1>0, <2>1 DEF IInv, Shape, Table, Checked, CursorBelow, Covered, InScope, MissedOnlyAtBoundaries
  <1>3. \/ /\ CanAccessTenant(a, row.tenant)
           /\ walk' = [Idle EXCEPT !.pc = "done", !.admin = a, !.page = {row}]
        \/ walk' = [Idle EXCEPT !.pc = "denied"]
    BY DEF GetOne, MayOperate
  <1> QED
    BY <1>1, <1>2, <1>3

\* What other transactions commit leaves the walk alone.
LEMMA TableStep ==
  ASSUME IInv, walk' = walk, Table(rows'), steady' \subseteq rows', steady' \subseteq steady
  PROVE  IInv'
  <1>1. \A row : Matches(row)' <=> Matches(row)
    BY DEF Matches
  <1> QED
    BY <1>1 DEF IInv, Shape, Table, Checked, CursorBelow, Covered, InScope, MissedOnlyAtBoundaries

\* A row inserted during a walk, perhaps behind the cursor, keeps the
\* invariant: it was not there from the start.
LEMMA InsertStep == ASSUME IInv, NEW row \in Row, Insert(row) PROVE IInv'
  <1>1. Table(rows) /\ steady \subseteq rows
    BY DEF IInv, Shape
  <1>2. rows' = rows \cup {row} /\ walk' = walk /\ steady' = steady /\ \A other \in rows : other.id # row.id
    BY DEF Insert
  <1>3. IsFiniteSet(rows \cup {row})
    BY <1>1, FS_AddElement DEF Table
  <1>4. Table(rows')
    BY <1>1, <1>2, <1>3 DEF Table
  <1> QED
    BY <1>1, <1>2, <1>4, TableStep

\* A row that changes status during a walk keeps the invariant: its
\* position stays, and it no longer matches throughout.
LEMMA ChangeStep ==
  ASSUME IInv, NEW row \in rows, NEW s \in Statuses, Change(row, s) PROVE IInv'
  <1> DEFINE new == [row EXCEPT !.status = s]
             rest == rows \ {row}
  <1>1. Table(rows) /\ steady \subseteq rows /\ row \in Row
    BY DEF IInv, Shape, Table
  <1>2. rows' = rest \cup {new} /\ walk' = walk /\ steady' = steady \ {row}
    BY DEF Change
  <1>3. new \in Row /\ new.id = row.id
    <2>1. PICK key \in Keys, u \in Statuses : row = MakeRow(key, u)
      BY <1>1 DEF Row
    <2>2. new = MakeRow(key, s) /\ new.id = row.id
      BY <2>1 DEF MakeRow
    <2> QED
      BY <2>1, <2>2 DEF Row
  <1>4. rest \in SUBSET rows /\ \A other \in rest : other.id # row.id
    BY <1>1 DEF Table
  <1>5. IsFiniteSet(rest)
    BY <1>1, <1>4, FS_Subset DEF Table
  <1>6. steady' \subseteq rest /\ steady' \subseteq steady
    BY <1>1, <1>2
  <1> HIDE DEF new, rest
  <1>7. IsFiniteSet(rest \cup {new})
    BY <1>5, FS_AddElement
  <1>8. Table(rows')
    BY <1>1, <1>2, <1>3, <1>4, <1>7 DEF Table
  <1> QED
    BY <1>2, <1>6, <1>8, TableStep

\* The invariant holds before the first query.
LEMMA InitOK == Init => IInv
  <1> SUFFICES ASSUME Init PROVE IInv
    OBVIOUS
  <1>1. walk \in Walk /\ walk.pc = "idle" /\ walk.page = {} /\ walk.listed = {}
    BY IdleOK DEF Init, Idle
  <1>2. Table({})
    BY FS_EmptySet DEF Table
  <1> QED
    BY <1>1, <1>2 DEF Init, IInv, Shape, Checked, CursorBelow, Covered, InScope, MissedOnlyAtBoundaries

\* The invariant is inductive.
LEMMA Inductive == IInv /\ [Next]_vars => IInv'
  <1> SUFFICES ASSUME IInv, [Next]_vars PROVE IInv'
    OBVIOUS
  <1>1. ASSUME NEW a \in Admins, NEW t \in Tenants \cup {Nil}, NEW s \in Statuses \cup {Nil},
               NEW limit \in Limits, StartList(a, t, s, limit)
        PROVE  IInv'
    BY <1>1, StartListStep
  <1>2. CASE ListPage
    BY <1>2, ListPageStep
  <1>3. ASSUME NEW a \in Admins, NEW row \in rows, GetOne(a, row) PROVE IInv'
    BY <1>3, GetOneStep
  <1>4. ASSUME NEW row \in Row, Insert(row) PROVE IInv'
    BY <1>4, InsertStep
  <1>5. ASSUME NEW row \in rows, NEW s \in Statuses, Change(row, s) PROVE IInv'
    BY <1>5, ChangeStep
  <1>6. CASE UNCHANGED vars
    <2>1. walk' = walk /\ rows' = rows /\ steady' = steady
      BY <1>6 DEF vars
    <2>2. Table(rows) /\ steady \subseteq rows
      BY DEF IInv, Shape
    <2> QED
      BY <2>1, <2>2, TableStep
  <1> QED
    BY <1>1, <1>2, <1>3, <1>4, <1>5, <1>6 DEF Next

\* The invariant holds in every behaviour: what the repositories select for
\* an admin stays in scope, cursors lie below the rows already listed, and
\* every row above the cursor is listed or was a cursor.
THEOREM IInvAlways == Spec => []IInv
  BY InitOK, Inductive, PTL DEF Spec

------------------------------------------------------------------------------
(* The results. *)

\* For any tables, admins and limits, the three admin lists show an admin rows
\* of its own tenants only, on every page, whatever is inserted or changed
\* between the pages.
THEOREM InScopeAlways == Spec => []InScope
  <1>1. IInv => InScope
    BY DEF IInv
  <1> QED
    BY <1>1, IInvAlways, PTL

\* For any tables and limits, a row that was there and matched from the first
\* query of a walk to the last is listed or is one that a cursor was made of:
\* the keyset query loses nothing else, ties of created_at included.
THEOREM MissedOnlyAtBoundariesAlways == Spec => []MissedOnlyAtBoundaries
  <1>1. IInv => MissedOnlyAtBoundaries
    BY DEF IInv
  <1> QED
    BY <1>1, IInvAlways, PTL

\* A page's rows are below the cursor and so below every row listed before.
LEMMA PageBelowListed ==
  ASSUME IInv, walk.pc = "walking", NEW row \in Candidates, NEW listed \in walk.listed
  PROVE  Below(row, listed) /\ row.id # listed.id
  <1>1. /\ row \in Row /\ listed \in Row /\ walk.cursor \in Row
        /\ Below(row, walk.cursor) /\ Below(walk.cursor, listed)
    BY DEF IInv, Shape, Table, Walk, CursorBelow, Candidates
  <1> QED
    BY <1>1, BelowTrans, BelowOtherId

\* For any tables and limits, every page of an admin list is older than the
\* pages before it and repeats none of their rows, although each page is a
\* query of its own on a table that has changed.
THEOREM PagesDescendAlways == Spec => PagesDescend
  <1>1. ASSUME IInv, [Next]_vars
        PROVE  [walk.pc = "walking" /\ walk' # walk =>
                  \A row \in walk'.page, listed \in walk.listed :
                     Below(row, listed) /\ row.id # listed.id]_vars
    <2> SUFFICES ASSUME walk.pc = "walking", walk' # walk,
                        NEW row \in walk'.page, NEW listed \in walk.listed
                 PROVE  Below(row, listed) /\ row.id # listed.id
      OBVIOUS
    <2>1. ListPage
      BY <1>1 DEF Next, StartList, GetOne, Insert, Change, vars
    <2>2. walk'.page = Page(Candidates)
      BY <1>1, <2>1 DEF ListPage, IInv, Shape, Walk
    <2>3. row \in Candidates
      BY <2>2 DEF Page
    <2> QED
      BY <1>1, <2>3, PageBelowListed
  <1> QED
    BY <1>1, IInvAlways, PTL DEF Spec, PagesDescend

==============================================================================
