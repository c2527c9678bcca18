--------------------------- MODULE StoresProofs ---------------------------
(***************************************************************************)
(* Proofs about the two stores and what works over them, for any names,    *)
(* repositories, polls, versions, connections and bounds: lemmas about the *)
(* statements of Sql, then Stealth, then Catalog.                          *)
(***************************************************************************)
EXTENDS Stealth, Catalog, FiniteSetTheorems, SequenceTheorems, TLAPS

IsTable(f) == f = [i \in DOMAIN f |-> f[i]]

\* What an insert into table t does that succeeds: r is its result, new its row.
Inserted(r, d, t, new) ==
    /\ r.err = FALSE /\ DOMAIN r.rows = {d.next} /\ r.rows[d.next] = new
    /\ DOMAIN r.db = {"tab", "next"} /\ r.db.next = d.next + 1 /\ DOMAIN r.db.tab = Tables
    /\ \A u \in Tables \ {t} : r.db.tab[u] = d.tab[u]
    /\ Ids(r.db, t) = Ids(d, t) \cup {d.next}
    /\ r.db.tab[t][d.next] = new /\ IsTable(r.db.tab[t])
    /\ \A i \in Ids(d, t) : r.db.tab[t][i] = d.tab[t][i]

LEMMA DbParts ==
    ASSUME NEW e, NEW y, NEW z, e = [tab |-> y, next |-> z]
    PROVE  e.tab = y /\ e.next = z /\ DOMAIN e = {"tab", "next"}
OBVIOUS
LEMMA ResultParts ==
    ASSUME NEW r, NEW e, NEW x, NEW y, NEW z, r = [err |-> e, rows |-> x, db |-> [tab |-> y, next |-> z]]
    PROVE  /\ r.err = e /\ r.rows = x /\ r.db.tab = y /\ r.db.next = z
           /\ DOMAIN r.db = {"tab", "next"}
<1>1. r.err = e /\ r.rows = x /\ r.db = [tab |-> y, next |-> z]
    OBVIOUS
<1> QED  BY <1>1, DbParts

LEMMA AddedRows ==
    ASSUME NEW d, NEW t \in Tables, NEW rows, DOMAIN d.tab = Tables
    PROVE  /\ DOMAIN Adding(d, t, rows) = Tables
           /\ \A u \in Tables \ {t} : Adding(d, t, rows)[u] = d.tab[u]
           /\ Adding(d, t, rows)[t] = Merge(rows, d.tab[t])
BY DEF Adding

LEMMA MergedRows ==
    ASSUME NEW f, NEW g
    PROVE  /\ DOMAIN Merge(f, g) = DOMAIN f \cup DOMAIN g
           /\ \A x \in DOMAIN f : Merge(f, g)[x] = f[x]
           /\ \A x \in DOMAIN g \ DOMAIN f : Merge(f, g)[x] = g[x]
BY DEF Merge
LEMMA MergedTable == ASSUME NEW f, NEW g PROVE IsTable(Merge(f, g))
BY DEF Merge, IsTable

LEMMA InsertFails ==
    ASSUME NEW schema, NEW d, NEW t, NEW row, ~RowAllowed(schema, d, t, d.next, Stamped(d, row))
    PROVE  Insert(schema, d, t, row) = Failed(d)
BY Zenon DEF Insert

LEMMA InsertedIs ==
    ASSUME NEW r, NEW d, NEW t \in Tables, NEW new, DOMAIN d.tab = Tables, d.next \notin Ids(d, t),
           NEW rows, rows = Only(d.next, new),
           r.err = FALSE, r.rows = rows, r.db.tab = Adding(d, t, rows), r.db.next = d.next + 1,
           DOMAIN r.db = {"tab", "next"}
    PROVE  Inserted(r, d, t, new)
<1>1. DOMAIN rows = {d.next} /\ rows[d.next] = new
    BY DEF Only
<1>2. DOMAIN r.db.tab = Tables /\ \A u \in Tables \ {t} : r.db.tab[u] = d.tab[u]
    BY AddedRows
<1> DEFINE old == d.tab[t]
           m == Merge(rows, old)
<1>3. r.db.tab[t] = m
    BY AddedRows
<1>4. DOMAIN m = DOMAIN rows \cup DOMAIN old /\ (\A x \in DOMAIN rows : m[x] = rows[x])
      /\ \A x \in DOMAIN old \ DOMAIN rows : m[x] = old[x]
    BY MergedRows, Zenon
<1>5. d.next \notin DOMAIN old /\ Ids(d, t) = DOMAIN old /\ Ids(r.db, t) = DOMAIN m
    BY <1>3, Zenon DEF Ids
<1> HIDE DEF m
<1>6. /\ Ids(r.db, t) = Ids(d, t) \cup {d.next}
      /\ m[d.next] = new
      /\ \A i \in Ids(d, t) : m[i] = d.tab[t][i]
  <2> HIDE DEF old
  <2>1. DOMAIN m = DOMAIN old \cup {d.next} /\ m[d.next] = new /\ \A i \in DOMAIN old : m[i] = old[i]
      BY <1>1, <1>4, <1>5
  <2> QED  BY <1>5, <2>1 DEF old
<1>7. IsTable(r.db.tab[t])
    BY <1>3, MergedTable DEF m
<1> QED  BY <1>1, <1>2, <1>3, <1>6, <1>7, Zenon DEF Inserted

LEMMA InsertEffect ==
    ASSUME NEW schema, NEW d, NEW t \in Tables, NEW row, DOMAIN d.tab = Tables, d.next \notin Ids(d, t)
    PROVE  \/ Insert(schema, d, t, row) = Failed(d)
           \/ /\ RowAllowed(schema, d, t, d.next, Stamped(d, row))
              /\ Inserted(Insert(schema, d, t, row), d, t, Stamped(d, row))
<1>1. CASE ~RowAllowed(schema, d, t, d.next, Stamped(d, row))
    BY <1>1, InsertFails, Zenon
<1>2. CASE RowAllowed(schema, d, t, d.next, Stamped(d, row))
  <2>1. Inserted(Insert(schema, d, t, row), d, t, Stamped(d, row))
    <3> DEFINE r == Insert(schema, d, t, row)
               new == Stamped(d, row)
               rows == Only(d.next, new)
    <3>0. Insert(schema, d, t, row) = [err |-> FALSE, rows |-> rows, db |-> [tab |-> Adding(d, t, rows), next |-> d.next + 1]]
        BY <1>2, Zenon DEF Insert
    <3>a. r = [err |-> FALSE, rows |-> rows, db |-> [tab |-> Adding(d, t, rows), next |-> d.next + 1]]
        BY <3>0, Zenon
    <3>2. rows = Only(d.next, new)
        OBVIOUS
    <3> HIDE DEF r, new, rows
    <3>1. /\ r.err = FALSE /\ r.rows = rows /\ r.db.tab = Adding(d, t, rows)
          /\ r.db.next = d.next + 1 /\ DOMAIN r.db = {"tab", "next"}
        BY <3>a, ResultParts
    <3>3. Inserted(r, d, t, new)
        BY <3>1, <3>2, InsertedIs
    <3> QED  BY <3>3 DEF r, new
  <2> QED  BY <1>2, <2>1, Zenon
<1> QED  BY <1>1, <1>2, Zenon

\* The stores' copies of these operators are the same.
LEMMA SameMerge == \A f, g : SL!Merge(f, g) = Merge(f, g)
BY DEF Merge, SL!Merge
LEMMA SameOnly == \A i, row : SL!Only(i, row) = Only(i, row)
BY DEF Only, SL!Only
LEMMA SameStamped == \A d, row : SL!Stamped(d, row) = Stamped(d, row)
BY SameMerge DEF Stamped, SL!Stamped
LEMMA SameFailed == \A d : SL!Failed(d) = Failed(d)
BY DEF SL!Failed, Failed, SL!NoRows, NoRows, SL!NULL, NULL
LEMMA SameAdding == ASSUME NEW d, NEW t, NEW rows PROVE SL!Adding(d, t, rows) = Adding(d, t, rows)
BY SameMerge, Zenon DEF SL!Adding, Adding
LEMMA SameAllowed ==
    ASSUME NEW schema, NEW d, NEW t, NEW i, NEW row
    PROVE  SL!RowAllowed(schema, d, t, i, row) <=> RowAllowed(schema, d, t, i, row)
BY Zenon DEF SL!RowAllowed, RowAllowed, SL!NULL, NULL, SL!Ids, Ids

LEMMA SameResult ==
    ASSUME NEW rows, NEW rowz, NEW tab, NEW tabz, NEW next, rows = rowz, tab = tabz
    PROVE  [err |-> FALSE, rows |-> rows, db |-> [tab |-> tab, next |-> next]] =
           [err |-> FALSE, rows |-> rowz, db |-> [tab |-> tabz, next |-> next]]
OBVIOUS

LEMMA InsertSame ==
    ASSUME NEW schema, NEW d, NEW t, NEW row
    PROVE  SL!Insert(schema, d, t, row) = Insert(schema, d, t, row)
<1> DEFINE new == Stamped(d, row)
           newz == SL!Stamped(d, row)
<1>1. new = newz
    BY SameStamped
<1>2. CASE ~RowAllowed(schema, d, t, d.next, new)
  <2>1. ~SL!RowAllowed(schema, d, t, d.next, newz)
      BY <1>1, <1>2, SameAllowed
  <2>2. SL!Insert(schema, d, t, row) = SL!Failed(d)
      BY <2>1, Zenon DEF SL!Insert
  <2> QED  BY <1>2, <2>2, InsertFails, SameFailed, Zenon
<1>3. CASE RowAllowed(schema, d, t, d.next, new)
  <2>1. SL!RowAllowed(schema, d, t, d.next, newz)
      BY <1>1, <1>3, SameAllowed
  <2>2. SL!Insert(schema, d, t, row) =
          [err |-> FALSE, rows |-> SL!Only(d.next, newz), db |-> [tab |-> SL!Adding(d, t, SL!Only(d.next, newz)), next |-> d.next + 1]]
      BY <2>1, Zenon DEF SL!Insert
  <2>3. Insert(schema, d, t, row) =
          [err |-> FALSE, rows |-> Only(d.next, new), db |-> [tab |-> Adding(d, t, Only(d.next, new)), next |-> d.next + 1]]
      BY <1>3, Zenon DEF Insert
  <2> HIDE DEF new, newz
  <2>4. SL!Only(d.next, newz) = Only(d.next, new)
      BY <1>1, SameOnly
  <2>5. SL!Adding(d, t, SL!Only(d.next, newz)) = Adding(d, t, Only(d.next, new))
      BY <2>4, SameAdding, Zenon
  <2> QED  BY <2>2, <2>3, <2>4, <2>5, SameResult, Zenon
<1> QED  BY <1>2, <1>3

LEMMA MaxOfTwo == ASSUME NEW a \in Int, NEW b \in Int PROVE Max({a, b}) = IF a >= b THEN a ELSE b
BY DEF Max
LEMMA MinOfTwo == ASSUME NEW a \in Int, NEW b \in Int PROVE Min({a, b}) = IF a <= b THEN a ELSE b
BY DEF Min

LEMMA SameCardinality == \A S : SL!Cardinality(S) = Cardinality(S)
BY DEF SL!Cardinality, Cardinality
LEMMA SameMax == \A S : SL!Max(S) = Max(S) /\ SL!Min(S) = Min(S)
BY DEF SL!Max, Max, SL!Min, Min
\* The first page of a list, newest first.
FirstPage(d, t, ids, per) == SL!PageOf(d, t, ids, TRUE, 1, per)

LEMMA DisjointUnion ==
    ASSUME NEW A, NEW B, IsFiniteSet(A), IsFiniteSet(B), A \cap B = {}
    PROVE  Cardinality(A \cup B) = Cardinality(A) + Cardinality(B)
<1>1. Cardinality(A \cup B) = Cardinality(A) + Cardinality(B) - Cardinality(A \cap B)
    BY FS_Union
<1>2. Cardinality(A \cap B) = 0
    BY FS_EmptySet
<1>3. Cardinality(A) \in Nat /\ Cardinality(B) \in Nat
    BY FS_CardinalityType
<1> QED  BY <1>1, <1>2, <1>3

Timed(d, t, ids) == IsFiniteSet(ids) /\ \A i \in ids : d.tab[t][i].at \in Nat

\* The first page of a list that fits on it is the whole list.
LEMMA WholePage ==
    ASSUME NEW d, NEW t, NEW ids, Timed(d, t, ids),
           NEW per \in Nat, Cardinality(ids) <= per
    PROVE  FirstPage(d, t, ids, per) = {ids}
<1> DEFINE At(i) == d.tab[t][i].at
           Tied(i) == {j \in ids : At(j) = At(i)}
           Earlier(i) == {j \in ids : IF TRUE THEN At(j) > At(i) ELSE At(j) < At(i)}
           Before(i) == SL!Cardinality(Earlier(i))
           Share(i) == LET b == Before(i)
                           e == b + SL!Cardinality(Tied(i))
                       IN  SL!Max({0, SL!Min({e, (1 - 1) * per + per}) - SL!Max({b, (1 - 1) * per})})
<1>0. IsFiniteSet(ids) /\ \A i \in ids : d.tab[t][i].at \in Nat
    BY DEF Timed
<1>1. FirstPage(d, t, ids, per) = {S \in SUBSET ids : \A i \in ids : SL!Cardinality(S \cap Tied(i)) = Share(i)}
    BY DEF SL!PageOf, FirstPage
<1>2. ASSUME NEW i \in ids PROVE Share(i) = SL!Cardinality(Tied(i)) /\ IsFiniteSet(Tied(i)) /\ i \in Tied(i)
  <2>1. Tied(i) \subseteq ids /\ Earlier(i) \subseteq ids /\ Tied(i) \cap Earlier(i) = {} /\ i \in Tied(i)
      BY <1>0
  <2> HIDE DEF Tied, Earlier
  <2>2. IsFiniteSet(Tied(i)) /\ IsFiniteSet(Earlier(i)) /\ IsFiniteSet(Tied(i) \cup Earlier(i))
      BY <1>0, <2>1, FS_Subset, FS_Union
  <2>3. Cardinality(Tied(i)) \in Nat /\ Cardinality(Earlier(i)) \in Nat
      BY <2>2, FS_CardinalityType
  <2>4. Cardinality(Tied(i) \cup Earlier(i)) = Cardinality(Tied(i)) + Cardinality(Earlier(i))
      BY <2>1, <2>2, DisjointUnion
  <2>5. Cardinality(Tied(i) \cup Earlier(i)) <= Cardinality(ids)
      BY <1>0, <2>1, FS_Subset
  <2>6. Cardinality(ids) \in Nat
      BY <1>0, FS_CardinalityType
  <2> DEFINE b == SL!Cardinality(Earlier(i))
             c == SL!Cardinality(Tied(i))
  <2>7. b \in Nat /\ c \in Nat /\ b + c <= per
      BY <2>3, <2>4, <2>5, <2>6, SameCardinality
  <2>8. Share(i) = Max({0, Min({b + c, (1 - 1) * per + per}) - Max({b, (1 - 1) * per})})
      BY SameMax
  <2> HIDE DEF b, c, Share
  <2>9. Min({b + c, (1 - 1) * per + per}) = b + c /\ Max({b, (1 - 1) * per}) = b
    <3>1. (1 - 1) * per = 0 /\ (1 - 1) * per + per = per
        OBVIOUS
    <3>2. Min({b + c, per}) = b + c /\ Max({b, 0}) = b
        BY <2>7, MinOfTwo, MaxOfTwo
    <3> QED  BY <3>1, <3>2
  <2>11. Share(i) = c
    <3> DEFINE x == Min({b + c, (1 - 1) * per + per})
               y == Max({b, (1 - 1) * per})
    <3>1. Share(i) = Max({0, x - y}) /\ x = b + c /\ y = b
        BY <2>8, <2>9
    <3> HIDE DEF x, y
    <3>2. x - y = c /\ x - y \in Int
        BY <2>7, <3>1
    <3> QED  BY <2>7, <3>1, <3>2, MaxOfTwo
  <2> QED  BY <2>1, <2>2, <2>11 DEF c
<1> HIDE DEF Tied, Share
<1>3. ASSUME NEW S \in SUBSET ids, \A i \in ids : SL!Cardinality(S \cap Tied(i)) = Share(i) PROVE S = ids
  <2> SUFFICES ASSUME NEW i \in ids PROVE i \in S
      OBVIOUS
  <2>1. S \cap Tied(i) \subseteq Tied(i) /\ Cardinality(S \cap Tied(i)) = Cardinality(Tied(i)) /\ IsFiniteSet(Tied(i))
      BY <1>2, <1>3, SameCardinality
  <2> DEFINE T == S \cap Tied(i)
  <2>2. T \in SUBSET Tied(i) /\ Cardinality(Tied(i)) = Cardinality(T)
      BY <2>1
  <2> HIDE DEF T
  <2>3. T = Tied(i)
      BY <2>1, <2>2, FS_Subset, Zenon
  <2>4. S \cap Tied(i) = Tied(i)
      BY <2>3 DEF T
  <2> QED  BY <2>4, <1>2
<1>4. \A i \in ids : SL!Cardinality(ids \cap Tied(i)) = Share(i)
  <2>1. \A i \in ids : ids \cap Tied(i) = Tied(i)
      BY DEF Tied
  <2> QED  BY <2>1, <1>2
<1> QED  BY <1>1, <1>3, <1>4
LEMMA SameIds == \A d, t : SL!Ids(d, t) = Ids(d, t)
BY DEF SL!Ids, Ids
LEMMA SameGet == \A d, t, i : SL!Get(d, t, i) = Get(d, t, i)
BY SameIds, SameOnly, SameFailed, Zenon DEF SL!Get, Get
\* What a deletion does: rows go, the others stay; projects do not go.
Shrunk(e, d) ==
    /\ DOMAIN e = {"tab", "next"} /\ e.next = d.next /\ DOMAIN e.tab = Tables
    /\ \A t \in Tables : /\ Ids(e, t) \subseteq Ids(d, t)
                         /\ \A i \in Ids(e, t) : e.tab[t][i] = d.tab[t][i]
    /\ Ids(e, "projects") = Ids(d, "projects")

LEMMA NoProjectRefs == ASSUME NEW fk \in BOOLEAN PROVE SL!Schema(fk)["projects"].refs = {}
BY DEF SL!Schema, SL!ProjectsTable

LEMMA DeleteEffect ==
    ASSUME NEW d, NEW fk \in BOOLEAN, NEW t \in Tables \ {"projects"}, NEW ids,
           DOMAIN d = {"tab", "next"}, DOMAIN d.tab = Tables
    PROVE  Shrunk(SL!DeleteExisting(SL!Schema(fk), d, t, ids).db, d)
<1> DEFINE schema == SL!Schema(fk)
           r == SL!DeleteExisting(schema, d, t, ids)
<1>1. CASE ids \cap SL!Ids(d, t) = {}
  <2>1. r = Failed(d)
      BY <1>1, SameFailed, Zenon DEF SL!DeleteExisting
  <2>2. Failed(d).db = d
      BY DEF Failed
  <2>3. Shrunk(d, d)
      BY DEF Shrunk
  <2> QED  BY <2>1, <2>2, <2>3, Zenon
<1>2. CASE ids \cap SL!Ids(d, t) # {}
  <2> DEFINE first == SL!Cascade(schema, d, [u \in SL!Tables |-> IF u = t THEN ids ELSE {}])
             gone == SL!Cascade(schema, d, first)
             Rest(u) == [i \in SL!Ids(d, u) \ gone[u] |-> d.tab[u][i]]
             e == [d EXCEPT !.tab = [u \in SL!Tables |-> Rest(u)]]
  <2>1. r = SL!Delete(schema, d, t, ids)
      BY <1>2, Zenon DEF SL!DeleteExisting
  <2>2. r.db = e
      BY <2>1 DEF SL!Delete
  <2>3. SL!Tables = Tables
      BY DEF SL!Tables, Tables
  <2>4. schema["projects"].refs = {}
      BY NoProjectRefs
  <2> HIDE DEF schema
  <2>5. first["projects"] = {}
      BY <2>3, <2>4 DEF SL!Cascade, Tables
  <2> HIDE DEF first
  <2>6. gone["projects"] = {}
      BY <2>3, <2>4, <2>5 DEF SL!Cascade, Tables
  <2> HIDE DEF gone
  <2>7. DOMAIN e = {"tab", "next"} /\ e.next = d.next /\ e.tab = [u \in Tables |-> Rest(u)]
      BY <2>3
  <2> HIDE DEF e
  <2>8. \A u \in Tables : Ids(e, u) = Ids(d, u) \ gone[u]
      BY <2>7, SameIds DEF Ids
  <2>9. \A u \in Tables : \A i \in Ids(e, u) : e.tab[u][i] = d.tab[u][i]
      BY <2>7, <2>8, SameIds
  <2>10. Ids(e, "projects") = Ids(d, "projects")
      BY <2>6, <2>8 DEF Tables
  <2>11. Shrunk(e, d)
      BY <2>7, <2>8, <2>9, <2>10 DEF Shrunk
  <2> QED  BY <2>2, <2>11, Zenon DEF schema
<1> QED  BY <1>1, <1>2

ReleaseRow(row) == DOMAIN row = {"source", "version", "content", "at"} /\ row.at \in Nat

\* A result that was stored: a further release under the id made for it, or a
\* changelog replaced; every release keeps its source, its version and its time.
Stored(e, d, source, version) ==
    /\ DOMAIN e = {"tab", "next"} /\ e.next = d.next + 1 /\ DOMAIN e.tab = Tables
    /\ \A u \in Tables \ {"releases"} : e.tab[u] = d.tab[u]
    /\ Ids(d, "releases") \subseteq Ids(e, "releases")
    /\ Ids(e, "releases") \subseteq Ids(d, "releases") \cup {d.next}
    /\ \A i \in Ids(e, "releases") : ReleaseRow(e.tab["releases"][i])
    /\ \A i \in Ids(d, "releases") : /\ e.tab["releases"][i].source = d.tab["releases"][i].source
                                     /\ e.tab["releases"][i].version = d.tab["releases"][i].version
    /\ d.next \in Ids(e, "releases") => /\ e.tab["releases"][d.next].source = source
                                        /\ e.tab["releases"][d.next].version = version

LEMMA StampedRow ==
    ASSUME NEW d, d.next \in Nat, NEW source, NEW version, NEW content
    PROVE  LET new == Stamped(d, [source |-> source, version |-> version, content |-> content])
           IN  ReleaseRow(new) /\ new.source = source /\ new.version = version
<1> DEFINE row == [source |-> source, version |-> version, content |-> content]
           time == [at |-> d.next]
           new == Merge(row, time)
<1>1. DOMAIN row = {"source", "version", "content"} /\ DOMAIN time = {"at"} /\ time.at = d.next
      /\ row.source = source /\ row.version = version
    OBVIOUS
<1> HIDE DEF row, time
<1>2. DOMAIN new = {"source", "version", "content", "at"} /\ new.at = d.next
      /\ new.source = source /\ new.version = version
    BY <1>1 DEF Merge
<1> QED  BY <1>2 DEF Stamped, ReleaseRow, row, time

Ingested(r, d, source, version) ==
    \/ (r.err = TRUE \/ r.rows = NoRows) /\ r.db = d
    \/ r.err = FALSE /\ DOMAIN r.rows = {d.next} /\ Stored(r.db, d, source, version)

LEMMA IngestEffect ==
    ASSUME NEW d, NEW fk, NEW source, NEW version, NEW content,
           DOMAIN d = {"tab", "next"}, DOMAIN d.tab = Tables, d.next \in Nat, d.next \notin Ids(d, "releases"),
           \A i \in Ids(d, "releases") : ReleaseRow(d.tab["releases"][i])
    PROVE  Ingested(SL!IngestRelease(fk, d, source, version, content), d, source, version)
<1> DEFINE r == SL!IngestRelease(fk, d, source, version, content)
           old == {i \in SL!Ids(d, "releases") : d.tab["releases"][i].source = source /\ d.tab["releases"][i].version = version}
           row == [source |-> source, version |-> version, content |-> content]
           new == Stamped(d, row)
           j == CHOOSE k \in old : TRUE
           updated == [err |-> FALSE, rows |-> SL!Only(d.next, row),
                       db |-> [tab |-> [d.tab EXCEPT !["releases"][j].content = content], next |-> d.next + 1]]
           kept == [err |-> FALSE, db |-> d, rows |-> SL!NoRows]
<1> USE DEF Tables
<1>1. CASE old = {}
  <2>1. r = SL!Insert(SL!Schema(fk), d, "releases", row)
      BY <1>1, Zenon DEF SL!IngestRelease
  <2>2. r = Insert(SL!Schema(fk), d, "releases", row)
      BY <2>1, InsertSame, Zenon
  <2>3. ReleaseRow(new) /\ new.source = source /\ new.version = version
      BY StampedRow
  <2>4. r = Failed(d) \/ Inserted(r, d, "releases", new)
    <3> HIDE DEF row
    <3> DEFINE schema == SL!Schema(fk)
    <3>1. r = Insert(schema, d, "releases", row)
        BY <2>2
    <3> HIDE DEF r, schema
    <3> QED  BY <3>1, InsertEffect
  <2>5. ASSUME r = Failed(d) PROVE r.err = TRUE /\ r.db = d
      BY <2>5 DEF Failed
  <2>6. ASSUME Inserted(r, d, "releases", new)
        PROVE  r.err = FALSE /\ DOMAIN r.rows = {d.next} /\ Stored(r.db, d, source, version)
    <3> HIDE DEF r, new
    <3>1. r.err = FALSE
        BY <2>6, Zenon DEF Inserted
    <3> QED  BY <2>3, <2>6, <3>1 DEF Inserted, Stored
  <2> QED  BY <2>4, <2>5, <2>6, Zenon DEF Ingested
<1>2. CASE old # {} /\ d.tab["releases"][j].content = content
  <2>1. r = kept
      BY <1>2, Zenon DEF SL!IngestRelease
  <2>2. kept.rows = NoRows /\ kept.db = d
      BY DEF SL!NoRows, NoRows, SL!NULL, NULL
  <2> QED  BY <2>1, <2>2, Zenon DEF Ingested
<1>3. CASE old # {} /\ d.tab["releases"][j].content # content
  <2>1. r = updated
      BY <1>3, Zenon DEF SL!IngestRelease
  <2>2. j \in Ids(d, "releases")
      BY <1>3, SameIds
  <2> DEFINE rows == SL!Only(d.next, row)
             tab == [d.tab EXCEPT !["releases"][j].content = content]
             old1 == d.tab["releases"]
  <2>3. DOMAIN rows = {d.next}
      BY DEF SL!Only
  <2> HIDE DEF row, j, rows
  <2>4. DOMAIN tab = Tables /\ \A u \in Tables \ {"releases"} : tab[u] = d.tab[u]
      OBVIOUS
  <2>5. tab["releases"] = [old1 EXCEPT ![j] = [old1[j] EXCEPT !.content = content]]
      OBVIOUS
  <2>6. DOMAIN old1 = Ids(d, "releases") /\ \A i \in DOMAIN old1 : ReleaseRow(old1[i])
      BY Zenon DEF Ids
  <2> HIDE DEF tab, old1
  <2>7. /\ DOMAIN tab["releases"] = DOMAIN old1
        /\ \A i \in DOMAIN old1 : /\ ReleaseRow(tab["releases"][i])
                                  /\ tab["releases"][i].source = old1[i].source
                                  /\ tab["releases"][i].version = old1[i].version
      BY <2>2, <2>5, <2>6 DEF ReleaseRow
  <2>8. r = [err |-> FALSE, rows |-> rows, db |-> [tab |-> tab, next |-> d.next + 1]]
      BY <2>1, Zenon DEF rows, tab
  <2> HIDE DEF r
  <2>9. r.err = FALSE /\ r.rows = rows /\ r.db.tab = tab /\ r.db.next = d.next + 1 /\ DOMAIN r.db = {"tab", "next"}
      BY <2>8, ResultParts
  <2>10. Ids(r.db, "releases") = Ids(d, "releases")
      BY <2>6, <2>7, <2>9, Zenon DEF Ids
  <2>11. Stored(r.db, d, source, version)
      BY <2>4, <2>6, <2>7, <2>9, <2>10 DEF Stored, old1
  <2>12. DOMAIN r.rows = {d.next}
      BY <2>3, <2>9
  <2>13. Ingested(r, d, source, version)
      BY <2>9, <2>11, <2>12, Zenon DEF Ingested
  <2> QED  BY <2>13 DEF r
<1> QED  BY <1>1, <1>2, <1>3
-----------------------------------------------------------------------------
(* Stealth mode: no release is announced twice.                            *)

DbOK(d) ==
    /\ DOMAIN d = {"tab", "next"} /\ d.next \in Nat \ {0} /\ DOMAIN d.tab = Tables
    /\ \A i \in Ids(d, "releases") : i \in 1..(d.next - 1) /\ ReleaseRow(d.tab["releases"][i])
    /\ Ids(d, "projects") = {1}
    /\ \A i \in Ids(d, "sources") : d.tab["sources"][i].project = 1

Early == {"release", "source", "subs"}
Busy == Early \cup {"send"}

HookRow(h) == DOMAIN h = {"pc", "rel", "source", "version", "left"} /\ h.pc \in {"idle", "poll"} \cup Busy

\* Each poll in the hook has a release of its own.
OwnReleases ==
    /\ DOMAIN hook = Polls /\ \A p \in Polls : HookRow(hook[p])
    /\ \A p \in Polls : hook[p].pc \in Busy => hook[p].rel \in 1..(sdb.next - 1)
    /\ \A p, q \in Polls : p # q /\ hook[p].pc \in Busy /\ hook[q].pc \in Busy => hook[p].rel # hook[q].rel

\* What a poll has still to send was not sent.
Untold ==
    \A p \in Polls :
        /\ hook[p].pc \in Early => \A x \in DOMAIN tried : x[1] # hook[p].rel
        /\ hook[p].pc = "send" => /\ \A m \in hook[p].left : <<hook[p].rel, m[1]>> \notin DOMAIN tried
                                  /\ \A m, n \in hook[p].left : m[1] = n[1] => m = n

ToldOnce == \A x \in DOMAIN tried : tried[x] = 1 /\ x[1] \in 1..(sdb.next - 1)

Bounded == Ids(sdb, "releases") # {} => sdb.next <= StealthMaxNext

Safe == DbOK(sdb) /\ OwnReleases /\ Untold /\ ToldOnce /\ Bounded /\ faults \in Nat /\ edits \in Nat

LEMMA Moved ==
    ASSUME OwnReleases, NEW p \in Polls, NEW h, hook' = [hook EXCEPT ![p] = h]
    PROVE  DOMAIN hook' = Polls /\ hook'[p] = h /\ \A q \in Polls \ {p} : hook'[q] = hook[q]
BY DEF OwnReleases

LEMMA Backs ==
    ASSUME NEW p
    PROVE  HookRow(BackToPoll(p)) /\ BackToPoll(p).pc = "poll" /\ BackToPoll(p).source = hook[p].source
BY DEF BackToPoll, Resting, HookRow, Busy, Early

LEMMA Rests == HookRow(Resting) /\ Resting.pc = "idle"
BY DEF Resting, HookRow, Busy, Early

\* A poll leaves the hook, or is not in it.
LEMMA LeavesSafe ==
    ASSUME Safe, NEW p \in Polls, NEW h, HookRow(h), h.pc \notin Busy, Goto(p, h), UNCHANGED tried
    PROVE  Safe'
<1>1. DOMAIN hook' = Polls /\ hook'[p] = h /\ \A q \in Polls \ {p} : hook'[q] = hook[q]
    BY Moved DEF Goto, Safe
<1>2. UNCHANGED <<sdb, tried, faults, edits>>
    BY DEF Goto
<1>3. OwnReleases'
    BY <1>1, <1>2 DEF OwnReleases, Safe
<1>4. Untold'
    BY <1>1, <1>2 DEF Untold, Safe, Busy
<1> QED  BY <1>2, <1>3, <1>4 DEF Safe, ToldOnce, Bounded

\* A poll goes on with its release.
LEMMA GoesOnSafe ==
    ASSUME Safe, NEW p \in Polls, NEW h, HookRow(h), h.pc \in Busy, h.rel = hook[p].rel, Goto(p, h),
           hook[p].pc \in Early, UNCHANGED tried,
           h.pc = "send" => \A m, n \in h.left : m[1] = n[1] => m = n
    PROVE  Safe'
<1>1. DOMAIN hook' = Polls /\ hook'[p] = h /\ \A q \in Polls \ {p} : hook'[q] = hook[q]
    BY Moved DEF Goto, Safe
<1>2. UNCHANGED <<sdb, tried, faults, edits>>
    BY DEF Goto
<1>3. OwnReleases'
    BY <1>1, <1>2 DEF OwnReleases, Safe, Busy
<1>4. Untold'
  <2> SUFFICES ASSUME NEW q \in Polls
               PROVE  /\ hook'[q].pc \in Early => \A x \in DOMAIN tried : x[1] # hook'[q].rel
                      /\ hook'[q].pc = "send" => /\ \A m \in hook'[q].left : <<hook'[q].rel, m[1]>> \notin DOMAIN tried
                                                 /\ \A m, n \in hook'[q].left : m[1] = n[1] => m = n
      BY <1>2 DEF Untold
  <2>1. CASE q # p
      BY <1>1, <2>1 DEF Untold, Safe
  <2>2. CASE q = p
    <3>1. \A x \in DOMAIN tried : x[1] # h.rel
        BY DEF Untold, Safe
    <3>2. \A m \in h.left : <<h.rel, m[1]>> \notin DOMAIN tried
        BY <3>1
    <3> QED  BY <1>1, <2>2, <3>1, <3>2
  <2> QED  BY <2>1, <2>2
<1> QED  BY <1>2, <1>3, <1>4 DEF Safe, ToldOnce, Bounded

LEMMA BumpedOnce ==
    ASSUME NEW f, NEW x, x \notin DOMAIN f, \A y \in DOMAIN f : f[y] = 1
    PROVE  DOMAIN Bump(f, x) = DOMAIN f \cup {x} /\ \A y \in DOMAIN Bump(f, x) : Bump(f, x)[y] = 1
BY DEF Bump

\* A message goes out, or a sender is missing: either way the subscription is done with.
LEMMA SendSafe ==
    ASSUME Safe, NEW p \in Polls, NEW sub, hook[p].pc = "send", sub \in hook[p].left,
           NEW h, HookRow(h), Goto(p, h),
           h.pc \notin Busy \/ (h.pc = "send" /\ h.rel = hook[p].rel /\ h.left = hook[p].left \ {sub}),
           tried' \in {tried, Bump(tried, <<hook[p].rel, sub[1]>>)}
    PROVE  Safe'
<1> DEFINE x == <<hook[p].rel, sub[1]>>
<1>1. DOMAIN hook' = Polls /\ hook'[p] = h /\ \A q \in Polls \ {p} : hook'[q] = hook[q]
    BY Moved DEF Goto, Safe
<1>2. UNCHANGED <<sdb, faults, edits>>
    BY DEF Goto
<1>3. OwnReleases'
    BY <1>1, <1>2 DEF OwnReleases, Safe, Busy
<1>4. x \notin DOMAIN tried /\ x[1] = hook[p].rel /\ x[1] \in 1..(sdb.next - 1)
    BY DEF Safe, Untold, OwnReleases, Busy
<1> HIDE DEF x
<1>5. /\ DOMAIN tried \subseteq DOMAIN tried' /\ DOMAIN tried' \subseteq DOMAIN tried \cup {x}
      /\ \A y \in DOMAIN tried' : tried'[y] = 1
  <2>1. \A y \in DOMAIN tried : tried[y] = 1
      BY DEF Safe, ToldOnce
  <2>2. CASE tried' = Bump(tried, x)
    <3>1. x \notin DOMAIN tried
        BY <1>4
    <3>2. DOMAIN Bump(tried, x) = DOMAIN tried \cup {x} /\ \A y \in DOMAIN Bump(tried, x) : Bump(tried, x)[y] = 1
        BY <2>1, <3>1, BumpedOnce, Zenon
    <3> QED  BY <2>2, <3>2
  <2>3. tried' = tried \/ tried' = Bump(tried, x)
      BY DEF x
  <2> QED  BY <2>1, <2>2, <2>3
<1>6. ToldOnce'
    BY <1>2, <1>4, <1>5 DEF ToldOnce, Safe
<1>7. Untold'
  <2> SUFFICES ASSUME NEW q \in Polls
               PROVE  /\ hook'[q].pc \in Early => \A y \in DOMAIN tried' : y[1] # hook'[q].rel
                      /\ hook'[q].pc = "send" => /\ \A m \in hook'[q].left : <<hook'[q].rel, m[1]>> \notin DOMAIN tried'
                                                 /\ \A m, n \in hook'[q].left : m[1] = n[1] => m = n
      BY DEF Untold
  <2>1. CASE q # p
    <3>1. hook'[q] = hook[q]
        BY <1>1, <2>1
    <3>2. hook[q].pc \in Busy => hook[q].rel # x[1]
        BY <1>4, <2>1 DEF Safe, OwnReleases, Busy
    <3>3. ASSUME hook[q].pc \in Early, NEW y \in DOMAIN tried' PROVE y[1] # hook[q].rel
      <4>1. y \in DOMAIN tried \/ y = x
          BY <1>5
      <4>2. hook[q].rel # x[1]
          BY <3>2, <3>3 DEF Busy
      <4>3. y \in DOMAIN tried => y[1] # hook[q].rel
          BY <3>3 DEF Safe, Untold
      <4> QED  BY <4>1, <4>2, <4>3
    <3>4. ASSUME hook[q].pc = "send", NEW m \in hook[q].left PROVE <<hook[q].rel, m[1]>> \notin DOMAIN tried'
      <4>1. <<hook[q].rel, m[1]>> \notin DOMAIN tried
          BY <3>4 DEF Safe, Untold
      <4>2. <<hook[q].rel, m[1]>> # x
          BY <3>2, <3>4 DEF Busy
      <4> QED  BY <4>1, <4>2, <1>5
    <3>5. hook[q].pc = "send" => \A m, n \in hook[q].left : m[1] = n[1] => m = n
        BY DEF Safe, Untold
    <3> QED  BY <3>1, <3>3, <3>4, <3>5
  <2>2. CASE q = p
    <3>1. CASE h.pc \notin Busy
        BY <1>1, <2>2, <3>1 DEF Busy
    <3>2. CASE h.pc = "send" /\ h.rel = hook[p].rel /\ h.left = hook[p].left \ {sub}
      <4>1. \A m, n \in h.left : m[1] = n[1] => m = n
          BY <3>2 DEF Safe, Untold
      <4>2. ASSUME NEW m \in h.left PROVE <<h.rel, m[1]>> \notin DOMAIN tried'
        <5>1. <<h.rel, m[1]>> \notin DOMAIN tried
            BY <3>2 DEF Safe, Untold
        <5>2. m[1] # sub[1]
            BY <3>2 DEF Safe, Untold
        <5>3. <<h.rel, m[1]>> # x
            BY <5>2 DEF x
        <5> QED  BY <5>1, <5>3, <1>5
      <4> QED  BY <1>1, <2>2, <3>2, <4>1, <4>2 DEF Early
    <3> QED  BY <3>1, <3>2
  <2> QED  BY <2>1, <2>2
<1> QED  BY <1>2, <1>3, <1>6, <1>7 DEF Safe, Bounded

\* A result was stored.
LEMMA StoredSafe ==
    ASSUME Safe, NEW p \in Polls, hook[p].pc = "poll", sdb.next < StealthMaxNext, NEW source, NEW version,
           Stored(sdb', sdb, source, version),
           NEW h, HookRow(h), h.pc = "release", h.rel = sdb.next, hook' = [hook EXCEPT ![p] = h],
           UNCHANGED <<tried, faults, edits>>
    PROVE  Safe'
<1>1. DOMAIN hook' = Polls /\ hook'[p] = h /\ \A q \in Polls \ {p} : hook'[q] = hook[q]
    BY Moved DEF Safe
<1>2. sdb'.next = sdb.next + 1 /\ sdb.next \in Nat \ {0}
    BY DEF Stored, Safe, DbOK
<1>3. OwnReleases'
  <2>1. \A q \in Polls : HookRow(hook'[q])
      BY <1>1 DEF Safe, OwnReleases
  <2>3. \A q \in Polls \ {p} : hook'[q].pc \in Busy => hook'[q].rel \in 1..(sdb.next - 1)
      BY <1>1 DEF Safe, OwnReleases
  <2> QED  BY <1>1, <1>2, <2>1, <2>3 DEF Safe, OwnReleases, Busy
<1>4. Untold'
  <2>1. \A x \in DOMAIN tried : x[1] # sdb.next
      BY <1>2 DEF Safe, ToldOnce
  <2> QED  BY <1>1, <2>1 DEF Safe, Untold, Early
<1>5. ToldOnce'
    BY <1>2 DEF Safe, ToldOnce
<1>6. DbOK(sdb)'
  <2>1. \A i \in Ids(sdb', "releases") : i \in 1..(sdb'.next - 1) /\ ReleaseRow(sdb'.tab["releases"][i])
      BY <1>2 DEF Safe, DbOK, Stored
  <2>2. sdb'.tab["projects"] = sdb.tab["projects"] /\ sdb'.tab["sources"] = sdb.tab["sources"]
      BY DEF Stored, Tables
  <2>3. Ids(sdb', "projects") = {1} /\ \A i \in Ids(sdb', "sources") : sdb'.tab["sources"][i].project = 1
      BY <2>2, Zenon DEF Ids, Safe, DbOK
  <2> QED  BY <1>2, <2>1, <2>3 DEF Stored, DbOK
<1>7. Bounded'
    BY <1>2, StealthAssumption DEF Bounded
<1> QED  BY <1>3, <1>4, <1>5, <1>6, <1>7 DEF Safe

LEMMA ShrunkSafe ==
    ASSUME Safe, Shrunk(sdb', sdb), edits' = edits + 1, UNCHANGED <<hook, tried, faults>>
    PROVE  Safe'
<1>1. DbOK(sdb)'
    BY DEF Safe, DbOK, Shrunk, Tables
<1>2. Bounded'
    BY DEF Safe, Bounded, Shrunk, Tables
<1>3. sdb'.next = sdb.next
    BY DEF Shrunk
<1> QED  BY <1>1, <1>2, <1>3 DEF Safe, OwnReleases, Untold, ToldOnce

LEMMA CrashSafe == Safe /\ Crash => Safe'
<1> SUFFICES ASSUME Safe, Crash PROVE Safe'
    OBVIOUS
<1>1. DOMAIN hook' = Polls /\ \A p \in Polls : hook'[p] = Resting
    BY DEF Crash
<1> QED  BY <1>1, Rests DEF Safe, Crash, OwnReleases, Untold, ToldOnce, Bounded, Busy, Early
-----------------------------------------------------------------------------
(* Stealth mode: without crashes and deletions nothing is forgotten.       *)

\* The project that is set up: one source, and subscriptions of it to channels.
Furnished(d) ==
    /\ Ids(d, "sources") = {2}
    /\ \A s \in Ids(d, "subs") : /\ d.tab["subs"][s].type = "source_release" /\ d.tab["subs"][s].source = 2
                                 /\ d.tab["subs"][s].channel \in Ids(d, "channels")

\* What a poll knows of its release is so.
InStep(p) ==
    LET h == hook[p] IN
    /\ h.pc # "idle" => h.source = 2
    /\ h.pc \in Busy \ {"release"} => h.rel \in Ids(sdb, "releases") /\ h.version = sdb.tab["releases"][h.rel].version
    /\ h.pc \in {"subs", "send"} => h.version \in Passing
    /\ h.pc = "send" => \A m \in h.left : m[1] \in Ids(sdb, "subs") /\ m[2] = sdb.tab["subs"][m[1]].channel

\* Poll p has still to tell subscription s of release r.
Awaits(p, r, s) ==
    /\ hook[p].rel = r
    /\ hook[p].pc \in Early \/ (hook[p].pc = "send" /\ \E m \in hook[p].left : m[1] = s)

Told(r, s) == Tried(r, s) = IF Wanted(r, s) THEN 1 ELSE 0

WholeParts ==
    /\ Furnished(sdb)
    /\ \A r \in Ids(sdb, "releases") : sdb.tab["releases"][r].source = 2
    /\ \A p \in Polls : InStep(p)
    /\ \A r \in Ids(sdb, "releases"), s \in Ids(sdb, "subs") : (\E p \in Polls : Awaits(p, r, s)) \/ Told(r, s)

\* Without crashes and deletions every subscription is told of every release it
\* wants, or will be.
Whole == faults = 0 /\ edits = 0 => WholeParts

LEMMA MoveWhole ==
    ASSUME Safe, WholeParts, NEW p \in Polls, NEW h, Goto(p, h), InStep(p)',
           \A r \in Ids(sdb, "releases"), s \in Ids(sdb, "subs") :
               /\ Awaits(p, r, s) => Awaits(p, r, s)' \/ Told(r, s)'
               /\ Tried(r, s)' # Tried(r, s) => Awaits(p, r, s)
    PROVE  WholeParts'
<1>1. DOMAIN hook' = Polls /\ hook'[p] = h /\ \A q \in Polls \ {p} : hook'[q] = hook[q]
    BY Moved DEF Goto, Safe
<1>2. UNCHANGED sdb
    BY DEF Goto
<1>3. \A q \in Polls : InStep(q)'
    BY <1>1, <1>2 DEF InStep, WholeParts
<1>4. ASSUME NEW r \in Ids(sdb, "releases"), NEW s \in Ids(sdb, "subs")
      PROVE  (\E q \in Polls : Awaits(q, r, s)') \/ Told(r, s)'
  <2>1. CASE Awaits(p, r, s)
      BY <2>1
  <2>2. ASSUME NEW q \in Polls \ {p}, Awaits(q, r, s) PROVE Awaits(q, r, s)'
      BY <1>1, <2>2 DEF Awaits
  <2>3. CASE ~Awaits(p, r, s) /\ Told(r, s)
    <3>1. Tried(r, s)' = Tried(r, s)
        BY <2>3
    <3>2. Wanted(r, s)' <=> Wanted(r, s)
        BY <1>2 DEF Wanted
    <3> QED  BY <2>3, <3>1, <3>2 DEF Told
  <2> QED  BY <2>1, <2>2, <2>3 DEF WholeParts
<1> QED  BY <1>2, <1>3, <1>4 DEF WholeParts, Furnished

\* A poll that is in the hook at a release has told nobody yet.
LEMMA NotTold ==
    ASSUME Safe, NEW p \in Polls, NEW r, NEW s, Awaits(p, r, s)
    PROVE  Tried(r, s) = 0
<1>1. <<r, s>> \notin DOMAIN tried
    BY DEF Safe, Untold, Awaits
<1> QED  BY <1>1 DEF Tried

LEMMA GetRow == ASSUME NEW d, NEW t, NEW i, i \in Ids(d, t) PROVE SL!Get(d, t, i).rows[i] = d.tab[t][i]
<1>1. SL!Get(d, t, i) = [err |-> FALSE, db |-> d, rows |-> Only(i, d.tab[t][i])]
    BY SameGet, Zenon DEF Get
<1> QED  BY <1>1 DEF Only

LEMMA GetErr == ASSUME NEW d, NEW t, NEW i PROVE SL!Get(d, t, i).err <=> i \notin Ids(d, t)
<1>1. CASE i \in Ids(d, t)
  <2>1. SL!Get(d, t, i) = [err |-> FALSE, db |-> d, rows |-> Only(i, d.tab[t][i])]
      BY <1>1, SameGet, Zenon DEF Get
  <2> QED  BY <1>1, <2>1
<1>2. CASE i \notin Ids(d, t)
  <2>1. SL!Get(d, t, i) = Failed(d)
      BY <1>2, SameGet, Zenon DEF Get
  <2> QED  BY <1>2, <2>1 DEF Failed
<1> QED  BY <1>1, <1>2

LEMMA JoinedIs ==
    ASSUME NEW d, NEW i
    PROVE  SL!Joined(d, i) <=> /\ i \in Ids(d, "releases")
                               /\ d.tab["releases"][i].source \in Ids(d, "sources")
                               /\ d.tab["sources"][d.tab["releases"][i].source].project \in Ids(d, "projects")
BY SameIds DEF SL!Joined

LEMMA GetReleaseIs ==
    ASSUME NEW d, NEW i
    PROVE  /\ SL!GetRelease(d, i).err <=> ~SL!Joined(d, i)
           /\ SL!Joined(d, i) => SL!GetRelease(d, i).rows[i] = d.tab["releases"][i]
<1>1. CASE SL!Joined(d, i)
  <2>1. SL!GetRelease(d, i) = SL!Get(d, "releases", i)
      BY <1>1, Zenon DEF SL!GetRelease
  <2>2. i \in Ids(d, "releases")
      BY <1>1, JoinedIs
  <2>3. ~SL!Get(d, "releases", i).err
      BY <2>2, GetErr, Zenon
  <2>4. SL!Get(d, "releases", i).rows[i] = d.tab["releases"][i]
      BY <2>2, GetRow
  <2> QED  BY <1>1, <2>1, <2>3, <2>4, Zenon
<1>2. CASE ~SL!Joined(d, i)
  <2>1. SL!GetRelease(d, i) = Failed(d)
      BY <1>2, SameFailed, Zenon DEF SL!GetRelease
  <2> QED  BY <1>2, <2>1 DEF Failed
<1> QED  BY <1>1, <1>2

LEMMA GetSourceErr == ASSUME NEW d, NEW i PROVE SL!GetSource(d, i).err <=> i \notin Ids(d, "sources")
<1>1. CASE i \in Ids(d, "sources")
  <2>1. SL!GetSource(d, i) = [err |-> FALSE, db |-> d, rows |-> SL!Only(i, SL!scanSource(d.tab["sources"][i]))]
      BY <1>1, SameIds, Zenon DEF SL!GetSource
  <2> QED  BY <1>1, <2>1
<1>2. CASE i \notin Ids(d, "sources")
  <2>1. SL!GetSource(d, i) = Failed(d)
      BY <1>2, SameIds, SameFailed, Zenon DEF SL!GetSource
  <2> QED  BY <1>2, <2>1 DEF Failed
<1> QED  BY <1>1, <1>2

LEMMA StartWhole ==
    ASSUME Safe, WholeParts, NEW p \in Polls, NEW source, StartPoll(p, source)
    PROVE  WholeParts'
<1> DEFINE h == [Resting EXCEPT !.pc = "poll", !.source = source]
<1>1. h.pc = "poll" /\ h.source = source
    BY DEF Resting
<1>2. Goto(p, h) /\ hook[p].pc = "idle" /\ UNCHANGED tried /\ source \in Ids(sdb, "sources")
    BY SameIds DEF StartPoll, SL!ListEnabledSources
<1> HIDE DEF h
<1>3. hook'[p] = h /\ source = 2
  <2>1. OwnReleases /\ hook' = [hook EXCEPT ![p] = h]
      BY <1>2 DEF Goto, Safe
  <2>2. hook'[p] = h
      BY <2>1, Moved
  <2>3. source = 2
      BY <1>2 DEF WholeParts, Furnished
  <2> QED  BY <2>2, <2>3
<1>4. InStep(p)'
    BY <1>1, <1>3 DEF InStep, Busy, Early
<1>5. \A r, s : ~Awaits(p, r, s)
    BY <1>2 DEF Awaits, Early
<1>6. \A r, s : Tried(r, s)' = Tried(r, s)
    BY <1>2 DEF Tried
<1> QED  BY <1>2, <1>4, <1>5, <1>6, MoveWhole

LEMMA EndWhole ==
    ASSUME Safe, WholeParts, NEW p \in Polls, EndPoll(p)
    PROVE  WholeParts'
<1>1. Goto(p, Resting) /\ hook[p].pc = "poll" /\ UNCHANGED tried
    BY DEF EndPoll
<1>2. hook'[p].pc = "idle"
    BY <1>1, Moved, Rests DEF Goto, Safe
<1>3. InStep(p)'
    BY <1>2 DEF InStep, Busy, Early
<1>4. \A r, s : ~Awaits(p, r, s)
    BY <1>1 DEF Awaits, Early
<1>5. \A r, s : Tried(r, s)' = Tried(r, s)
    BY <1>1 DEF Tried
<1> QED  BY <1>1, <1>3, <1>4, <1>5, MoveWhole

LEMMA Fields ==
    ASSUME NEW g, HookRow(g), NEW u, NEW v
    PROVE  LET h == [g EXCEPT !.pc = u, !.version = v]
               k == [g EXCEPT !.pc = u]
               l == [g EXCEPT !.pc = u, !.left = v]
               m == [g EXCEPT !.left = v]
           IN  /\ DOMAIN h = DOMAIN g /\ h.pc = u /\ h.version = v /\ h.rel = g.rel /\ h.source = g.source /\ h.left = g.left
               /\ DOMAIN k = DOMAIN g /\ k.pc = u /\ k.version = g.version /\ k.rel = g.rel /\ k.source = g.source /\ k.left = g.left
               /\ DOMAIN l = DOMAIN g /\ l.pc = u /\ l.version = g.version /\ l.rel = g.rel /\ l.source = g.source /\ l.left = v
               /\ DOMAIN m = DOMAIN g /\ m.pc = g.pc /\ m.version = g.version /\ m.rel = g.rel /\ m.source = g.source /\ m.left = v
BY DEF HookRow

\* A poll that returns from the hook, when there is nothing to tell of its release.
LEMMA BackWhole ==
    ASSUME Safe, WholeParts, NEW p \in Polls, Goto(p, BackToPoll(p)), hook[p].pc # "idle", UNCHANGED tried,
           \A r \in Ids(sdb, "releases"), s \in Ids(sdb, "subs") : Awaits(p, r, s) => Told(r, s)
    PROVE  WholeParts'
<1>1. hook'[p] = BackToPoll(p)
    BY Moved DEF Goto, Safe
<1>2. hook[p].source = 2
    BY DEF WholeParts, InStep
<1>3. InStep(p)'
    BY <1>1, <1>2, Backs DEF InStep, Busy, Early
<1>4. \A r, s : Tried(r, s)' = Tried(r, s)
    BY DEF Tried
<1>5. \A r, s : Wanted(r, s)' <=> Wanted(r, s)
    BY DEF Wanted, Goto
<1>6. \A r, s : Told(r, s) => Told(r, s)'
    BY <1>4, <1>5 DEF Told
<1> QED  BY <1>3, <1>4, <1>6, MoveWhole

LEMMA GetReleaseStep ==
    ASSUME Safe, NEW p \in Polls, NotifyGetRelease(p)
    PROVE  Safe' /\ (WholeParts => WholeParts')
<1> DEFINE r == SL!GetRelease(sdb, hook[p].rel)
           h == [hook[p] EXCEPT !.pc = "source", !.version = r.rows[hook[p].rel].version]
<1>1. hook[p].pc = "release" /\ UNCHANGED tried /\ HookRow(hook[p])
    BY DEF NotifyGetRelease, Safe, OwnReleases
<1>2. Goto(p, IF r.err THEN BackToPoll(p) ELSE h)
    BY DEF NotifyGetRelease
<1>3. h.pc = "source" /\ h.version = r.rows[hook[p].rel].version /\ h.rel = hook[p].rel /\ h.source = hook[p].source
      /\ HookRow(h)
    BY <1>1, Fields DEF HookRow, Busy, Early
<1>4. r.err <=> ~SL!Joined(sdb, hook[p].rel)
    BY GetReleaseIs
<1>5. ~r.err => r.rows[hook[p].rel] = sdb.tab["releases"][hook[p].rel]
    BY <1>4, GetReleaseIs
<1> HIDE DEF h, r
<1>6. CASE r.err
  <2>1. Goto(p, BackToPoll(p))
      BY <1>2, <1>6
  <2>2. Safe'
      BY <1>1, <2>1, LeavesSafe, Backs DEF Busy, Early
  <2>3. ASSUME WholeParts PROVE WholeParts'
    <3>1. hook[p].rel \notin Ids(sdb, "releases")
        BY <1>4, <1>6, <2>3, JoinedIs DEF WholeParts, Furnished, Safe, DbOK
    <3>2. \A t \in Ids(sdb, "releases") : \A s : ~Awaits(p, t, s)
        BY <3>1 DEF Awaits
    <3> QED  BY <1>1, <2>1, <2>3, <3>2, BackWhole
  <2> QED  BY <2>2, <2>3
<1>7. CASE ~r.err
  <2>1. Goto(p, h)
      BY <1>2, <1>7
  <2>2. Safe'
      BY <1>1, <1>3, <2>1, GoesOnSafe DEF Busy, Early
  <2>3. ASSUME WholeParts PROVE WholeParts'
    <3>1. hook'[p] = h /\ UNCHANGED sdb
        BY <2>1, Moved DEF Goto, Safe
    <3>2. hook[p].rel \in Ids(sdb, "releases") /\ h.version = sdb.tab["releases"][hook[p].rel].version
        BY <1>3, <1>4, <1>5, <1>7, JoinedIs
    <3>3. hook[p].source = 2
        BY <1>1, <2>3 DEF WholeParts, InStep
    <3>4. InStep(p)'
        BY <1>3, <3>1, <3>2, <3>3 DEF InStep
    <3>5. \A t, s : Awaits(p, t, s) => Awaits(p, t, s)'
        BY <1>3, <3>1 DEF Awaits, Early
    <3>6. \A t, s : Tried(t, s)' = Tried(t, s)
        BY <1>1 DEF Tried
    <3> QED  BY <2>1, <2>3, <3>4, <3>5, <3>6, MoveWhole
  <2> QED  BY <2>2, <2>3
<1> QED  BY <1>6, <1>7

LEMMA GetSourceStep ==
    ASSUME Safe, NEW p \in Polls, NotifyGetSource(p)
    PROVE  Safe' /\ (WholeParts => WholeParts')
<1> DEFINE gone == SL!GetSource(sdb, hook[p].source).err
           h == [hook[p] EXCEPT !.pc = "subs"]
<1>1. hook[p].pc = "source" /\ UNCHANGED tried /\ HookRow(hook[p])
    BY DEF NotifyGetSource, Safe, OwnReleases
<1>2. Goto(p, IF gone \/ hook[p].version \notin Passing THEN BackToPoll(p) ELSE h)
    BY DEF NotifyGetSource
<1>3. h.pc = "subs" /\ h.version = hook[p].version /\ h.rel = hook[p].rel /\ h.source = hook[p].source
      /\ HookRow(h)
    BY <1>1, Fields DEF HookRow, Busy, Early
<1>4. gone <=> hook[p].source \notin Ids(sdb, "sources")
    BY GetSourceErr
<1> HIDE DEF h, gone
<1>5. CASE gone \/ hook[p].version \notin Passing
  <2>1. Goto(p, BackToPoll(p))
      BY <1>2, <1>5
  <2>2. Safe'
      BY <1>1, <2>1, LeavesSafe, Backs DEF Busy, Early
  <2>3. ASSUME WholeParts PROVE WholeParts'
    <3>1. hook[p].version \notin Passing /\ hook[p].version = sdb.tab["releases"][hook[p].rel].version
        BY <1>1, <1>4, <1>5, <2>3 DEF WholeParts, Furnished, InStep, Busy, Early
    <3>2. ASSUME NEW t \in Ids(sdb, "releases"), NEW s \in Ids(sdb, "subs"), Awaits(p, t, s) PROVE Told(t, s)
      <4>1. t = hook[p].rel /\ Tried(t, s) = 0
          BY <3>2, NotTold DEF Awaits
      <4> QED  BY <3>1, <4>1 DEF Told, Wanted
    <3> QED  BY <1>1, <2>1, <2>3, <3>2, BackWhole
  <2> QED  BY <2>2, <2>3
<1>6. CASE ~gone /\ hook[p].version \in Passing
  <2>1. Goto(p, h)
      BY <1>2, <1>6
  <2>2. Safe'
      BY <1>1, <1>3, <2>1, GoesOnSafe DEF Busy, Early
  <2>3. ASSUME WholeParts PROVE WholeParts'
    <3>1. hook'[p] = h /\ UNCHANGED sdb
        BY <2>1, Moved DEF Goto, Safe
    <3>2. /\ hook[p].rel \in Ids(sdb, "releases") /\ hook[p].source = 2
          /\ hook[p].version = sdb.tab["releases"][hook[p].rel].version
        BY <1>1, <2>3 DEF WholeParts, InStep, Busy, Early
    <3>3. InStep(p)'
        BY <1>3, <1>6, <3>1, <3>2 DEF InStep
    <3>4. \A t, s : Awaits(p, t, s) => Awaits(p, t, s)'
        BY <1>3, <3>1 DEF Awaits, Early
    <3>5. \A t, s : Tried(t, s)' = Tried(t, s)
        BY <1>1 DEF Tried
    <3> QED  BY <2>1, <2>3, <3>3, <3>4, <3>5, MoveWhole
  <2> QED  BY <2>2, <2>3
<1> QED  BY <1>5, <1>6

LEMMA ListSubsStep ==
    ASSUME Safe, NEW p \in Polls, NotifyListSubs(p)
    PROVE  Safe' /\ (WholeParts => WholeParts')
<1> DEFINE subs == SL!ListSourceSubscriptions(sdb, hook[p].source)
           all == {<<i, sdb.tab["subs"][i].channel>> : i \in subs}
           h == [hook[p] EXCEPT !.pc = "send", !.left = all]
<1>1. hook[p].pc = "subs" /\ UNCHANGED tried /\ HookRow(hook[p])
    BY DEF NotifyListSubs, Safe, OwnReleases
<1>2. Goto(p, IF subs = {} THEN BackToPoll(p) ELSE h)
    BY DEF NotifyListSubs
<1>3. h.pc = "send" /\ h.left = all /\ h.version = hook[p].version /\ h.rel = hook[p].rel /\ h.source = hook[p].source
      /\ HookRow(h)
  <2> HIDE DEF all
  <2> QED  BY <1>1, Fields DEF HookRow, Busy, Early
<1>4. subs = {i \in Ids(sdb, "subs") : sdb.tab["subs"][i].type = "source_release" /\ sdb.tab["subs"][i].source = hook[p].source}
    BY SameIds DEF SL!ListSourceSubscriptions
<1> HIDE DEF h, subs
<1>5. /\ \A m \in all : m[1] \in subs /\ m[2] = sdb.tab["subs"][m[1]].channel /\ m = <<m[1], m[2]>>
      /\ \A s \in subs : \E m \in all : m[1] = s
  <2>1. ASSUME NEW m \in all PROVE m[1] \in subs /\ m[2] = sdb.tab["subs"][m[1]].channel /\ m = <<m[1], m[2]>>
    <3> PICK i \in subs : m = <<i, sdb.tab["subs"][i].channel>>
        BY <2>1
    <3> QED  OBVIOUS
  <2>2. ASSUME NEW s \in subs PROVE \E m \in all : m[1] = s
    <3>1. <<s, sdb.tab["subs"][s].channel>> \in all
        OBVIOUS
    <3>2. <<s, sdb.tab["subs"][s].channel>>[1] = s
        OBVIOUS
    <3> HIDE DEF all
    <3> QED  BY <3>1, <3>2
  <2> QED  BY <2>1, <2>2
<1> HIDE DEF all
<1>6. \A m, n \in all : m[1] = n[1] => m = n
    BY <1>5
<1>7. ASSUME WholeParts PROVE subs = Ids(sdb, "subs")
    BY <1>1, <1>4, <1>7 DEF WholeParts, Furnished, InStep
<1>8. CASE subs = {}
  <2>1. Goto(p, BackToPoll(p))
      BY <1>2, <1>8
  <2>2. Safe'
      BY <1>1, <2>1, LeavesSafe, Backs DEF Busy, Early
  <2>3. ASSUME WholeParts PROVE WholeParts'
    <3>1. \A t \in Ids(sdb, "releases"), s \in Ids(sdb, "subs") : Awaits(p, t, s) => Told(t, s)
        BY <1>7, <1>8, <2>3
    <3> QED  BY <1>1, <2>1, <2>3, <3>1, BackWhole
  <2> QED  BY <2>2, <2>3
<1>9. CASE subs # {}
  <2>1. Goto(p, h)
      BY <1>2, <1>9
  <2>2. Safe'
      BY <1>1, <1>3, <1>6, <2>1, GoesOnSafe DEF Busy, Early
  <2>3. ASSUME WholeParts PROVE WholeParts'
    <3>1. hook'[p] = h /\ UNCHANGED sdb
        BY <2>1, Moved DEF Goto, Safe
    <3>2. /\ hook[p].rel \in Ids(sdb, "releases") /\ hook[p].source = 2 /\ hook[p].version \in Passing
          /\ hook[p].version = sdb.tab["releases"][hook[p].rel].version
        BY <1>1, <2>3 DEF WholeParts, InStep, Busy, Early
    <3>3. InStep(p)'
        BY <1>3, <1>5, <1>7, <2>3, <3>1, <3>2 DEF InStep
    <3>4. \A t, s : s \in Ids(sdb, "subs") /\ Awaits(p, t, s) => Awaits(p, t, s)'
        BY <1>3, <1>5, <1>7, <2>3, <3>1 DEF Awaits, Early
    <3>5. \A t, s : Tried(t, s)' = Tried(t, s)
        BY <1>1 DEF Tried
    <3> QED  BY <2>1, <2>3, <3>3, <3>4, <3>5, MoveWhole
  <2> QED  BY <2>2, <2>3
<1> QED  BY <1>8, <1>9

LEMMA BumpedElsewhere ==
    ASSUME NEW f, NEW x, x \notin DOMAIN f, NEW y, y # x
    PROVE  /\ y \in DOMAIN Bump(f, x) <=> y \in DOMAIN f
           /\ y \in DOMAIN f /\ f[y] = 1 => Bump(f, x)[y] = 1
BY DEF Bump

\* What a send does to the history: it counts the send, or there is no sender.
LEMMA SendCounts ==
    ASSUME Safe, NEW p \in Polls, NEW sub, hook[p].pc = "send", sub \in hook[p].left, NotifySend(p, sub)
    PROVE  LET sent == sub[2] \in Ids(sdb, "channels") /\ sdb.tab["channels"][sub[2]].type \in SenderTypes
           IN  tried' = IF sent THEN Bump(tried, <<hook[p].rel, sub[1]>>) ELSE tried
<1> DEFINE ch == SL!GetChannel(sdb, sub[2])
           got == Bump(tried, <<hook[p].rel, sub[1]>>)
<1>1. tried' = IF ch.err \/ (~ch.err /\ ch.rows[sub[2]].type \notin SenderTypes) THEN tried ELSE got
    BY DEF NotifySend
<1>2. ch.err <=> sub[2] \notin Ids(sdb, "channels")
    BY GetErr DEF SL!GetChannel
<1>3. sub[2] \in Ids(sdb, "channels") => ch.rows[sub[2]] = sdb.tab["channels"][sub[2]]
    BY GetRow DEF SL!GetChannel
<1> HIDE DEF ch, got
<1>4. CASE sub[2] \in Ids(sdb, "channels")
    BY <1>1, <1>2, <1>3, <1>4 DEF got
<1>5. CASE sub[2] \notin Ids(sdb, "channels")
    BY <1>1, <1>2, <1>5, Zenon
<1> QED  BY <1>4, <1>5

LEMMA SendStep ==
    ASSUME Safe, NEW p \in Polls, NEW sub, NotifySend(p, sub)
    PROVE  Safe' /\ (WholeParts => WholeParts')
<1> DEFINE left == hook[p].left \ {sub}
           more == [hook[p] EXCEPT !.left = left]
           h == IF left = {} THEN BackToPoll(p) ELSE more
           sent == sub[2] \in Ids(sdb, "channels") /\ sdb.tab["channels"][sub[2]].type \in SenderTypes
           x == <<hook[p].rel, sub[1]>>
<1>1. hook[p].pc = "send" /\ sub \in hook[p].left /\ Goto(p, h) /\ HookRow(hook[p])
    BY DEF NotifySend, Safe, OwnReleases
<1>2. tried' = IF sent THEN Bump(tried, x) ELSE tried
    BY <1>1, SendCounts
<1>3. more.pc = "send" /\ more.left = left /\ more.version = hook[p].version /\ more.rel = hook[p].rel
      /\ more.source = hook[p].source /\ HookRow(more)
  <2> HIDE DEF left
  <2> QED  BY <1>1, Fields DEF HookRow, Busy, Early
<1> HIDE DEF more
<1>4. h.pc = "poll" \/ (h.pc = "send" /\ h.rel = hook[p].rel /\ h.left = left)
    BY <1>3, Backs
<1>5. HookRow(h)
    BY <1>3, Backs
<1>6. h.pc = "poll" => left = {}
    BY <1>3
<1>7. h.source = hook[p].source /\ (h.pc = "send" => h.version = hook[p].version)
    BY <1>3, Backs
<1> HIDE DEF h, sent
<1>8. Safe'
    BY <1>1, <1>2, <1>4, <1>5, SendSafe DEF Busy, Early
<1>9. ASSUME WholeParts PROVE WholeParts'
  <2>1. hook'[p] = h /\ UNCHANGED sdb
      BY <1>1, Moved DEF Goto, Safe
  <2>2. /\ hook[p].rel \in Ids(sdb, "releases") /\ hook[p].source = 2 /\ hook[p].version \in Passing
        /\ hook[p].version = sdb.tab["releases"][hook[p].rel].version
        /\ \A m \in hook[p].left : m[1] \in Ids(sdb, "subs") /\ m[2] = sdb.tab["subs"][m[1]].channel
      BY <1>1, <1>9 DEF WholeParts, InStep, Busy, Early
  <2>3. InStep(p)'
      BY <1>4, <1>7, <2>1, <2>2 DEF InStep, Busy, Early
  <2>4. x \notin DOMAIN tried
      BY <1>1 DEF Safe, Untold
  <2>5. ASSUME NEW t \in Ids(sdb, "releases"), NEW s \in Ids(sdb, "subs")
        PROVE  /\ Awaits(p, t, s) => Awaits(p, t, s)' \/ Told(t, s)'
               /\ Tried(t, s)' # Tried(t, s) => Awaits(p, t, s)
    <3>1. CASE <<t, s>> = x
      <4>1. t = hook[p].rel /\ s = sub[1] /\ Awaits(p, t, s)
          BY <1>1, <3>1 DEF Awaits
      <4>2. Wanted(t, s)' <=> sent
          BY <1>1, <2>1, <2>2, <4>1, <1>9 DEF Wanted, sent, WholeParts, Furnished
      <4>3. Tried(t, s)' = IF sent THEN 1 ELSE 0
        <5>1. CASE sent
          <6>1. tried' = Bump(tried, x)
              BY <1>2, <5>1
          <6>2. x \in DOMAIN tried' /\ tried'[x] = 1
              BY <2>4, <6>1 DEF Bump
          <6> QED  BY <3>1, <5>1, <6>2 DEF Tried
        <5>2. CASE ~sent
            BY <1>2, <2>4, <3>1, <5>2 DEF Tried
        <5> QED  BY <5>1, <5>2
      <4> QED  BY <4>1, <4>2, <4>3 DEF Told
    <3>2. CASE <<t, s>> # x
      <4> DEFINE y == <<t, s>>
      <4>1. \A z \in DOMAIN tried : tried[z] = 1
          BY DEF Safe, ToldOnce
      <4>2. (y \in DOMAIN tried' <=> y \in DOMAIN tried) /\ (y \in DOMAIN tried => tried'[y] = 1)
        <5> HIDE DEF x, y
        <5>1. y # x
            BY <3>2 DEF y
        <5>2. CASE sent
          <6>1. tried' = Bump(tried, x)
              BY <1>2, <5>2
          <6> QED  BY <2>4, <4>1, <5>1, <6>1, BumpedElsewhere
        <5>3. CASE ~sent
            BY <1>2, <4>1, <5>3
        <5> QED  BY <5>2, <5>3
      <4>3. Tried(t, s)' = Tried(t, s)
          BY <4>1, <4>2 DEF Tried
      <4>4. ASSUME Awaits(p, t, s) PROVE Awaits(p, t, s)'
        <5>1. t = hook[p].rel /\ \E m \in hook[p].left : m[1] = s
            BY <1>1, <4>4 DEF Awaits, Early
        <5>2. PICK m \in hook[p].left : m[1] = s
            BY <5>1
        <5>3. m # sub
            BY <3>2, <5>1, <5>2
        <5>4. m \in left /\ h.pc = "send"
            BY <1>4, <1>6, <5>3
        <5> QED  BY <1>4, <2>1, <5>1, <5>2, <5>4 DEF Awaits
      <4> QED  BY <4>3, <4>4
    <3> QED  BY <3>1, <3>2
  <2> QED  BY <1>1, <1>9, <2>3, <2>5, MoveWhole
<1> QED  BY <1>8, <1>9

LEMMA StoredWhole ==
    ASSUME Safe, WholeParts, NEW p \in Polls, hook[p].pc = "poll", NEW version,
           Stored(sdb', sdb, hook[p].source, version),
           NEW h, h.pc = "release", h.rel = sdb.next, h.source = hook[p].source, hook' = [hook EXCEPT ![p] = h],
           UNCHANGED tried
    PROVE  WholeParts'
<1>1. hook'[p] = h /\ \A q \in Polls \ {p} : hook'[q] = hook[q]
    BY Moved DEF Safe
<1>2. hook[p].source = 2
    BY DEF WholeParts, InStep
<1>3. \A u \in Tables \ {"releases"} : sdb'.tab[u] = sdb.tab[u] /\ Ids(sdb', u) = Ids(sdb, u)
    BY DEF Stored, Ids
<1>4. Furnished(sdb)'
    BY <1>3 DEF WholeParts, Furnished, Tables
<1>5. /\ Ids(sdb, "releases") \subseteq Ids(sdb', "releases")
      /\ Ids(sdb', "releases") \subseteq Ids(sdb, "releases") \cup {sdb.next}
      /\ \A r \in Ids(sdb, "releases") : /\ sdb'.tab["releases"][r].source = sdb.tab["releases"][r].source
                                         /\ sdb'.tab["releases"][r].version = sdb.tab["releases"][r].version
      /\ sdb.next \in Ids(sdb', "releases") => sdb'.tab["releases"][sdb.next].source = 2
    BY <1>2 DEF Stored
<1>6. \A r \in Ids(sdb', "releases") : sdb'.tab["releases"][r].source = 2
    BY <1>5 DEF WholeParts
<1>7. ASSUME NEW q \in Polls PROVE InStep(q)'
  <2>1. CASE q = p
      BY <1>1, <1>2, <2>1 DEF InStep, Busy, Early
  <2>2. CASE q # p
    <3>1. hook'[q] = hook[q]
        BY <1>1, <2>2
    <3>2. InStep(q)
        BY DEF WholeParts
    <3>3. Ids(sdb', "subs") = Ids(sdb, "subs") /\ sdb'.tab["subs"] = sdb.tab["subs"]
        BY <1>3 DEF Tables
    <3> QED  BY <1>5, <3>1, <3>2, <3>3 DEF InStep
  <2> QED  BY <2>1, <2>2
<1>8. ASSUME NEW r \in Ids(sdb', "releases"), NEW s \in Ids(sdb', "subs")
      PROVE  (\E q \in Polls : Awaits(q, r, s)') \/ Told(r, s)'
  <2>1. CASE r = sdb.next
      BY <1>1, <2>1 DEF Awaits, Early
  <2>2. CASE r \in Ids(sdb, "releases")
    <3>1. s \in Ids(sdb, "subs")
        BY <1>3 DEF Tables
    <3>2. ASSUME NEW q \in Polls, Awaits(q, r, s) PROVE Awaits(q, r, s)'
      <4>1. q # p
          BY <3>2 DEF Awaits, Early
      <4> QED  BY <1>1, <3>2, <4>1 DEF Awaits
    <3>3. ASSUME Told(r, s) PROVE Told(r, s)'
      <4>1. sdb'.tab["channels"] = sdb.tab["channels"] /\ sdb'.tab["subs"] = sdb.tab["subs"]
          BY <1>3 DEF Tables
      <4>2. sdb'.tab["releases"][r].version = sdb.tab["releases"][r].version
          BY <1>5, <2>2
      <4>3. Wanted(r, s)' <=> Wanted(r, s)
          BY <4>1, <4>2 DEF Wanted
      <4>4. Tried(r, s)' = Tried(r, s)
          BY DEF Tried
      <4> QED  BY <3>3, <4>3, <4>4 DEF Told
    <3> QED  BY <2>2, <3>1, <3>2, <3>3 DEF WholeParts
  <2> QED  BY <1>5, <2>1, <2>2
<1> QED  BY <1>4, <1>6, <1>7, <1>8 DEF WholeParts

LEMMA IngestStep ==
    ASSUME Safe, NEW p \in Polls, NEW version, NEW content, Ingest(p, version, content)
    PROVE  Safe' /\ (WholeParts => WholeParts')
<1>1. hook[p].pc = "poll" /\ sdb.next < StealthMaxNext /\ UNCHANGED <<tried, faults, edits>>
    BY DEF Ingest
<1>2. PICK fk \in StealthConns :
        LET r == SL!IngestRelease(fk, sdb, hook[p].source, version, content)
        IN  /\ sdb' = r.db
            /\ IF r.err \/ r.rows = NoRows THEN UNCHANGED hook
               ELSE hook' = [hook EXCEPT ![p] = [pc |-> "release", rel |-> CHOOSE i \in DOMAIN r.rows : TRUE,
                                                 source |-> hook[p].source, version |-> NULL, left |-> {}]]
    BY DEF Ingest
<1> DEFINE r == SL!IngestRelease(fk, sdb, hook[p].source, version, content)
           id == CHOOSE i \in DOMAIN r.rows : TRUE
           h == [pc |-> "release", rel |-> id, source |-> hook[p].source, version |-> NULL, left |-> {}]
<1>3. sdb' = r.db /\ IF r.err \/ r.rows = NoRows THEN UNCHANGED hook ELSE hook' = [hook EXCEPT ![p] = h]
    BY <1>2
<1>4. Ingested(r, sdb, hook[p].source, version)
  <2>1. sdb.next \notin Ids(sdb, "releases")
      BY DEF Safe, DbOK
  <2> QED  BY <2>1, IngestEffect DEF Safe, DbOK
<1>5. HookRow(h) /\ h.pc = "release" /\ h.rel = id /\ h.source = hook[p].source
    BY DEF HookRow, Busy, Early
<1> HIDE DEF h, r
<1>6. CASE (r.err = TRUE \/ r.rows = NoRows) /\ r.db = sdb
  <2>1. UNCHANGED stealthVars
      BY <1>1, <1>3, <1>6 DEF stealthVars
  <2> QED  BY <2>1 DEF stealthVars, Safe, OwnReleases, Untold, ToldOnce, Bounded, WholeParts, Furnished, InStep, Awaits, Told, Tried, Wanted
<1>7. CASE r.err = FALSE /\ DOMAIN r.rows = {sdb.next} /\ Stored(r.db, sdb, hook[p].source, version)
  <2>1. DOMAIN NoRows = {}
      BY DEF NoRows
  <2>2. hook' = [hook EXCEPT ![p] = h]
      BY <1>3, <1>7, <2>1
  <2>3. id = sdb.next
      BY <1>7
  <2>4. Stored(sdb', sdb, hook[p].source, version)
      BY <1>3, <1>7
  <2>5. Safe'
      BY <1>1, <1>5, <2>2, <2>3, <2>4, StoredSafe
  <2>6. WholeParts => WholeParts'
      BY <1>1, <1>5, <2>2, <2>3, <2>4, StoredWhole
  <2> QED  BY <2>5, <2>6
<1> QED  BY <1>4, <1>6, <1>7 DEF Ingested

LEMMA EditStep == Safe /\ Edit => Safe' /\ edits' # 0
<1> SUFFICES ASSUME Safe, Edit PROVE Safe' /\ edits' # 0
    OBVIOUS
<1>1. edits' = edits + 1 /\ UNCHANGED <<hook, tried, faults>>
    BY DEF Edit
<1>2. PICK fk \in StealthConns :
             \/ \E i \in Ids(sdb, "sources") : sdb' = SL!DeleteSource(fk, sdb, i).db
             \/ \E i \in Ids(sdb, "channels") : sdb' = SL!DeleteChannel(fk, sdb, i).db
             \/ \E i \in Ids(sdb, "subs") : sdb' = SL!DeleteSubscription(fk, sdb, i).db
    BY DEF Edit
<1>3. fk \in BOOLEAN /\ DOMAIN sdb = {"tab", "next"} /\ DOMAIN sdb.tab = Tables
    BY StealthAssumption DEF SL!Connections, Safe, DbOK
<1>4. \A t \in {"sources", "channels", "subs"} : t \in Tables \ {"projects"}
    BY DEF Tables
<1>5. Shrunk(sdb', sdb)
  <2>1. ASSUME NEW i, sdb' = SL!DeleteSource(fk, sdb, i).db PROVE Shrunk(sdb', sdb)
    <3>1. Shrunk(SL!DeleteExisting(SL!Schema(fk), sdb, "sources", {i}).db, sdb)
        BY <1>3, <1>4, DeleteEffect
    <3> QED  BY <2>1, <3>1 DEF SL!DeleteSource
  <2>2. ASSUME NEW i, sdb' = SL!DeleteChannel(fk, sdb, i).db PROVE Shrunk(sdb', sdb)
    <3>1. Shrunk(SL!DeleteExisting(SL!Schema(fk), sdb, "channels", {i}).db, sdb)
        BY <1>3, <1>4, DeleteEffect
    <3> QED  BY <2>2, <3>1 DEF SL!DeleteChannel
  <2>3. ASSUME NEW i, sdb' = SL!DeleteSubscription(fk, sdb, i).db PROVE Shrunk(sdb', sdb)
    <3>1. Shrunk(SL!DeleteExisting(SL!Schema(fk), sdb, "subs", {i}).db, sdb)
        BY <1>3, <1>4, DeleteEffect
    <3> QED  BY <2>3, <3>1 DEF SL!DeleteSubscription
  <2> QED  BY <1>2, <2>1, <2>2, <2>3
<1>6. edits' # 0
    BY <1>1 DEF Safe
<1> QED  BY <1>1, <1>5, <1>6, ShrunkSafe

Everything == Safe /\ Whole

LEMMA InitEverything == StealthInit => Everything
<1> SUFFICES ASSUME StealthInit PROVE Everything
    OBVIOUS
<1>1. sdb = FirstDb /\ hook = [p \in Polls |-> Resting] /\ tried = NoRows /\ faults = 0 /\ edits = 0
    BY DEF StealthInit
<1> DEFINE tab == [projects |-> Only(1, [name |-> "p", at |-> 1]),
            sources |-> Only(2, [project |-> 1, repo |-> "r", enabled |-> TRUE, at |-> 2]),
            channels |-> [i \in {3, 4} |-> [type |-> IF i = 3 THEN "shell" ELSE "pager", at |-> i]],
            subs |-> [i \in {5, 6} |-> [channel |-> i - 2, type |-> "source_release", source |-> 2, project |-> NULL, at |-> i]],
            releases |-> NoRows, contexts |-> NoRows]
<1>2. sdb = [tab |-> tab, next |-> 7]
    BY <1>1, Zenon DEF FirstDb
<1>3. /\ DOMAIN tab = Tables
      /\ tab["projects"] = Only(1, [name |-> "p", at |-> 1])
      /\ tab["sources"] = Only(2, [project |-> 1, repo |-> "r", enabled |-> TRUE, at |-> 2])
      /\ tab["channels"] = [i \in {3, 4} |-> [type |-> IF i = 3 THEN "shell" ELSE "pager", at |-> i]]
      /\ tab["subs"] = [i \in {5, 6} |-> [channel |-> i - 2, type |-> "source_release", source |-> 2, project |-> NULL, at |-> i]]
      /\ tab["releases"] = NoRows
    BY DEF Tables
<1> HIDE DEF tab
<1>4. sdb.tab = tab /\ sdb.next = 7 /\ DOMAIN sdb = {"tab", "next"}
    BY <1>2
<1>5. Ids(sdb, "projects") = {1} /\ Ids(sdb, "sources") = {2} /\ Ids(sdb, "releases") = {}
    BY <1>3, <1>4 DEF Ids, Only, NoRows
<1>6. sdb.tab["sources"][2].project = 1
    BY <1>3, <1>4 DEF Only
<1>7. Ids(sdb, "subs") = {5, 6} /\ Ids(sdb, "channels") = {3, 4}
    BY <1>3, <1>4 DEF Ids
<1>8. \A s \in {5, 6} : /\ sdb.tab["subs"][s].type = "source_release" /\ sdb.tab["subs"][s].source = 2
                        /\ sdb.tab["subs"][s].channel = s - 2
    BY <1>3, <1>4
<1>9. Furnished(sdb)
    BY <1>5, <1>7, <1>8 DEF Furnished
<1>10. DbOK(sdb)
    BY <1>3, <1>4, <1>5, <1>6 DEF DbOK
<1>11. DOMAIN hook = Polls /\ \A p \in Polls : hook[p] = Resting
    BY <1>1
<1>12. \A p \in Polls : HookRow(hook[p]) /\ hook[p].pc = "idle"
    BY <1>11, Rests
<1>13. DOMAIN tried = {}
    BY <1>1 DEF NoRows
<1>14. Safe
    BY <1>1, <1>5, <1>10, <1>11, <1>12, <1>13 DEF Safe, OwnReleases, Untold, ToldOnce, Bounded, Busy, Early
<1>15. WholeParts
    BY <1>5, <1>9, <1>12 DEF WholeParts, InStep, Busy, Early
<1> QED  BY <1>14, <1>15 DEF Everything, Whole

LEMMA NextEverything == Everything /\ [StealthNext]_stealthVars => Everything'
<1> SUFFICES ASSUME Safe, Whole, [StealthNext]_stealthVars PROVE Safe' /\ Whole'
    BY DEF Everything
<1>1. CASE UNCHANGED stealthVars
    BY <1>1 DEF stealthVars, Safe, OwnReleases, Untold, ToldOnce, Bounded, Whole, WholeParts, Furnished,
                InStep, Awaits, Told, Tried, Wanted
<1>2. ASSUME NEW p \in Polls, NEW source, StartPoll(p, source) PROVE Safe' /\ Whole'
  <2> DEFINE h == [Resting EXCEPT !.pc = "poll", !.source = source]
  <2>1. HookRow(h) /\ h.pc = "poll"
      BY DEF HookRow, Resting, Busy, Early
  <2>2. Goto(p, h) /\ UNCHANGED <<tried, faults, edits>>
      BY <1>2 DEF StartPoll, Goto
  <2> HIDE DEF h
  <2>3. Safe'
      BY <2>1, <2>2, LeavesSafe DEF Busy, Early
  <2> QED  BY <1>2, <2>2, <2>3, StartWhole DEF Whole
<1>3. ASSUME NEW p \in Polls, EndPoll(p) PROVE Safe' /\ Whole'
  <2>1. Goto(p, Resting) /\ UNCHANGED <<tried, faults, edits>>
      BY <1>3 DEF EndPoll, Goto
  <2>2. Safe'
      BY <2>1, Rests, LeavesSafe DEF Busy, Early
  <2> QED  BY <1>3, <2>1, <2>2, EndWhole DEF Whole
<1>4. ASSUME NEW p \in Polls, NEW version, NEW content, Ingest(p, version, content) PROVE Safe' /\ Whole'
    BY <1>4, IngestStep DEF Whole, Ingest
<1>5. ASSUME NEW p \in Polls, NotifyGetRelease(p) PROVE Safe' /\ Whole'
    BY <1>5, GetReleaseStep DEF Whole, NotifyGetRelease, Goto
<1>6. ASSUME NEW p \in Polls, NotifyGetSource(p) PROVE Safe' /\ Whole'
    BY <1>6, GetSourceStep DEF Whole, NotifyGetSource, Goto
<1>7. ASSUME NEW p \in Polls, NotifyListSubs(p) PROVE Safe' /\ Whole'
    BY <1>7, ListSubsStep DEF Whole, NotifyListSubs, Goto
<1>8. ASSUME NEW p \in Polls, NEW sub, NotifySend(p, sub) PROVE Safe' /\ Whole'
    BY <1>8, SendStep DEF Whole, NotifySend, Goto
<1>9. ASSUME Crash PROVE Safe' /\ Whole'
  <2>1. faults' # 0
      BY <1>9 DEF Crash, Safe
  <2> QED  BY <1>9, <2>1, CrashSafe DEF Whole
<1>10. ASSUME Edit PROVE Safe' /\ Whole'
    BY <1>10, EditStep DEF Whole
<1> QED  BY <1>1, <1>2, <1>3, <1>4, <1>5, <1>6, <1>7, <1>8, <1>9, <1>10 DEF StealthNext

\* On the page of a list that holds all releases with the property, a release is
\* found exactly when it has the property.
LEMMA PageShows ==
    ASSUME Safe, NEW S, S \subseteq Ids(sdb, "releases"), NEW r \in Ids(sdb, "releases")
    PROVE  OnPage(r, FirstPage(sdb, "releases", S, StealthMaxNext)) <=> r \in S
<1>0. DbOK(sdb) /\ sdb.next <= StealthMaxNext
    BY DEF Safe, Bounded
<1>1. sdb.next \in Nat \ {0} /\ S \subseteq 1..(sdb.next - 1) /\ sdb.next <= StealthMaxNext
    BY <1>0 DEF DbOK
<1>2. IsFiniteSet(1..(sdb.next - 1)) /\ Cardinality(1..(sdb.next - 1)) = sdb.next - 1
  <2> DEFINE n == sdb.next - 1
  <2>1. n \in Int /\ 1 \in Int /\ n = IF 1 > n THEN 0 ELSE n - 1 + 1
      BY <1>1
  <2> HIDE DEF n
  <2>2. IsFiniteSet(1..n) /\ Cardinality(1..n) = n
      BY <2>1, FS_Interval
  <2> QED  BY <2>2 DEF n
<1>3. IsFiniteSet(S) /\ Cardinality(S) <= sdb.next - 1
    BY <1>1, <1>2, FS_Subset
<1>4. Cardinality(S) <= StealthMaxNext /\ StealthMaxNext \in Nat
    BY <1>1, <1>3, FS_CardinalityType, StealthAssumption
<1>5. Timed(sdb, "releases", S)
    BY <1>0, <1>3 DEF Timed, DbOK, ReleaseRow
<1>6. FirstPage(sdb, "releases", S, StealthMaxNext) = {S}
    BY <1>4, <1>5, WholePage
<1> QED  BY <1>6 DEF OnPage

\* No release is announced twice to a subscription, however the polls of one source
\* overlap and crash and whatever is deleted; without crashes and deletions every
\* release is announced to whoever wants it; and what was announced is listed.
THEOREM AnnouncedOnce == StealthSpec => []StealthAnnouncedOnce
<1>1. Everything => StealthAnnouncedOnce
  <2> SUFFICES ASSUME Safe, Whole PROVE StealthAnnouncedOnce
      BY DEF Everything
  <2>1. \A x \in DOMAIN tried : tried[x] <= 1
      BY DEF Safe, ToldOnce
  <2>2. ASSUME Quiet, NEW r \in Ids(sdb, "releases"),
               NEW s \in SL!ListSourceSubscriptions(sdb, sdb.tab["releases"][r].source)
        PROVE  Tried(r, s) = IF Wanted(r, s) THEN 1 ELSE 0
    <3>1. WholeParts
        BY <2>2 DEF Quiet, Whole
    <3>2. s \in Ids(sdb, "subs")
        BY SameIds DEF SL!ListSourceSubscriptions
    <3>3. \A p \in Polls : ~Awaits(p, r, s)
        BY <2>2 DEF Quiet, Awaits, Early
    <3> QED  BY <3>1, <3>2, <3>3 DEF WholeParts, Told
  <2>3. ASSUME NEW x \in DOMAIN tried, x[1] \in Ids(sdb, "releases")
        PROVE  LET r == x[1]
                   source == sdb.tab["releases"][r].source
                   there == source \in Ids(sdb, "sources")
               IN  /\ OnPage(r, SL!ListAllReleases(sdb, 1, StealthMaxNext)) = there
                   /\ OnPage(r, SL!ListReleasesBySource(sdb, source, 1, StealthMaxNext)) = there
                   /\ there => OnPage(r, SL!ListReleasesByProject(sdb, sdb.tab["sources"][source].project, 1, StealthMaxNext))
    <3> DEFINE r == x[1]
               source == sdb.tab["releases"][r].source
               there == source \in Ids(sdb, "sources")
               project == sdb.tab["sources"][source].project
               All == {i \in SL!Ids(sdb, "releases") : SL!Joined(sdb, i)}
               Its == {i \in SL!Ids(sdb, "releases") : SL!Joined(sdb, i) /\ sdb.tab["releases"][i].source = source}
               Projects == {i \in SL!Ids(sdb, "releases") :
                              SL!Joined(sdb, i) /\ sdb.tab["releases"][i].source \in SL!SourcesOf(sdb, project)}
    <3>1. r \in Ids(sdb, "releases")
        BY <2>3
    <3>2. SL!Joined(sdb, r) <=> there
        BY <3>1, JoinedIs DEF Safe, DbOK
    <3>3. All \subseteq Ids(sdb, "releases") /\ Its \subseteq Ids(sdb, "releases") /\ Projects \subseteq Ids(sdb, "releases")
        BY SameIds
    <3>4. (r \in All <=> there) /\ (r \in Its <=> there)
        BY <3>1, <3>2, SameIds, Zenon
    <3>5. there => r \in Projects
        BY <3>1, <3>2, SameIds DEF SL!SourcesOf
    <3>6. SL!ListAllReleases(sdb, 1, StealthMaxNext) = FirstPage(sdb, "releases", All, StealthMaxNext)
        BY DEF SL!ListAllReleases, FirstPage
    <3>7. SL!ListReleasesBySource(sdb, source, 1, StealthMaxNext) = FirstPage(sdb, "releases", Its, StealthMaxNext)
        BY DEF SL!ListReleasesBySource, FirstPage
    <3>8. SL!ListReleasesByProject(sdb, project, 1, StealthMaxNext) = FirstPage(sdb, "releases", Projects, StealthMaxNext)
        BY DEF SL!ListReleasesByProject, FirstPage
    <3> HIDE DEF All, Its, Projects, there, r
    <3>9. OnPage(r, SL!ListAllReleases(sdb, 1, StealthMaxNext)) <=> there
        BY <3>1, <3>3, <3>4, <3>6, PageShows
    <3>10. OnPage(r, SL!ListReleasesBySource(sdb, source, 1, StealthMaxNext)) <=> there
        BY <3>1, <3>3, <3>4, <3>7, PageShows
    <3>11. there => OnPage(r, SL!ListReleasesByProject(sdb, project, 1, StealthMaxNext))
        BY <3>1, <3>3, <3>5, <3>8, PageShows
    <3>12. OnPage(r, SL!ListAllReleases(sdb, 1, StealthMaxNext)) = there
      <4>1. OnPage(r, SL!ListAllReleases(sdb, 1, StealthMaxNext)) \in BOOLEAN /\ there \in BOOLEAN
          BY DEF OnPage, there
      <4> QED  BY <3>9, <4>1
    <3>13. OnPage(r, SL!ListReleasesBySource(sdb, source, 1, StealthMaxNext)) = there
      <4>1. OnPage(r, SL!ListReleasesBySource(sdb, source, 1, StealthMaxNext)) \in BOOLEAN /\ there \in BOOLEAN
          BY DEF OnPage, there
      <4> QED  BY <3>10, <4>1
    <3> QED  BY <3>11, <3>12, <3>13 DEF there, r
  <2> QED  BY <2>1, <2>2, <2>3 DEF StealthAnnouncedOnce
<1> QED  BY <1>1, InitEverything, NextEverything, PTL DEF StealthSpec

-----------------------------------------------------------------------------
(* Catalog.  A database is in order when the ids in it were given out and    *)
(* every reference resolves; every statement of Sql keeps it so.             *)

\* Ids are given out below next.
Shaped(d) ==
    /\ DOMAIN d = {"tab", "next"} /\ d.next \in Nat \ {0} /\ DOMAIN d.tab = Tables
    /\ \A t \in Tables : Ids(d, t) \subseteq 1..(d.next - 1) /\ IsTable(d.tab[t])
\* References that are not NULL are to rows that are there.
Linked(d, refs, row) == \A ref \in refs : row[ref.col] = NULL \/ row[ref.col] \in Ids(d, ref.table)
Resolved(schema, d) == \A t \in Tables : \A i \in Ids(d, t) : Linked(d, schema[t].refs, d.tab[t][i])
\* References are two deep: from anywhere to sources, from there to projects.
Shallow(schema) ==
    /\ \A t \in Tables : \A ref \in schema[t].refs : ref.table \in {"projects", "sources", "channels"}
    /\ schema["projects"].refs = {} /\ schema["channels"].refs = {}
    /\ \A ref \in schema["sources"].refs : ref.table = "projects"

\* n rows more in table t, and everything else as it was
Grown(e, d, t, n) ==
    /\ Cardinality(Ids(e, t)) = Cardinality(Ids(d, t)) + n
    /\ \A u \in Tables : \A i \in Ids(d, u) : i \in Ids(e, u) /\ e.tab[u][i] = d.tab[u][i]
    /\ \A u \in Tables \ {t} : Ids(e, u) = Ids(d, u)
Extended(schema, e, d, t, n) ==
    /\ DOMAIN e = {"tab", "next"} /\ e.next = d.next + n /\ DOMAIN e.tab = Tables
    /\ IsTable(e.tab[t]) /\ \A u \in Tables \ {t} : e.tab[u] = d.tab[u]
    /\ Ids(e, t) = Ids(d, t) \cup (d.next .. (d.next + n - 1))
    /\ \A i \in Ids(d, t) : e.tab[t][i] = d.tab[t][i]
    /\ \A i \in d.next .. (d.next + n - 1) : Linked(e, schema[t].refs, e.tab[t][i])

\* The tables are finite and the next id is in none of them.
LEMMA ShapedFinite ==
    ASSUME NEW d, Shaped(d), NEW t \in Tables
    PROVE  IsFiniteSet(Ids(d, t)) /\ Cardinality(Ids(d, t)) \in Nat /\ d.next \notin Ids(d, t)
<1>1. Ids(d, t) \in SUBSET (1..(d.next - 1)) /\ d.next \in Nat
    BY DEF Shaped
<1>2. IsFiniteSet(1..(d.next - 1))
    BY <1>1, FS_Interval
<1> QED  BY <1>1, <1>2, FS_Subset, FS_CardinalityType

\* A reference stays good while the table it points to only grows.
LEMMA LinkedStays ==
    ASSUME NEW d, NEW e, NEW refs, NEW row, Linked(d, refs, row),
           \A ref \in refs : Ids(d, ref.table) \subseteq Ids(e, ref.table)
    PROVE  Linked(e, refs, row)
BY DEF Linked

LEMMA NextIds == ASSUME NEW a \in Nat, NEW n \in Nat PROVE IsFiniteSet(a .. (a + n - 1)) /\ Cardinality(a .. (a + n - 1)) = n
<1> DEFINE b == a + n - 1
<1>1. b \in Int /\ (a > b => n = 0) /\ (~(a > b) => b - a + 1 = n)
    OBVIOUS
<1> HIDE DEF b
<1>2. IsFiniteSet(a..b) /\ Cardinality(a..b) = n
    BY <1>1, FS_Interval
<1> QED  BY <1>2 DEF b

LEMMA ExtendedShaped ==
    ASSUME NEW schema, NEW d, Shaped(d), NEW t \in Tables, NEW n \in Nat, NEW e, Extended(schema, e, d, t, n)
    PROVE  Shaped(e)
<1>1. d.next \in Nat \ {0} /\ e.next = d.next + n /\ \A u \in Tables : Ids(d, u) \subseteq 1..(d.next - 1)
    BY DEF Shaped, Extended
<1>2. \A u \in Tables \ {t} : Ids(e, u) = Ids(d, u)
    BY DEF Extended, Ids
<1>3. Ids(e, t) = Ids(d, t) \cup (d.next .. (d.next + n - 1))
    BY DEF Extended
<1>4. \A u \in Tables : Ids(e, u) \subseteq 1..(e.next - 1)
    BY <1>1, <1>2, <1>3
<1>5. \A u \in Tables : IsTable(e.tab[u])
    BY DEF Shaped, Extended
<1> QED  BY <1>1, <1>4, <1>5 DEF Shaped, Extended

LEMMA ExtendedIs ==
    ASSUME NEW schema, Shallow(schema), NEW d, Shaped(d), Resolved(schema, d), NEW t \in Tables, NEW n \in Nat,
           NEW e, Extended(schema, e, d, t, n)
    PROVE  Shaped(e) /\ Resolved(schema, e) /\ Grown(e, d, t, n)
<1> DEFINE fresh == d.next .. (d.next + n - 1)
<1>1. d.next \in Nat \ {0} /\ e.next = d.next + n
    BY DEF Shaped, Extended
<1>2. \A u \in Tables : Ids(d, u) \subseteq 1..(d.next - 1)
    BY DEF Shaped
<1>3. \A u \in Tables \ {t} : e.tab[u] = d.tab[u] /\ Ids(e, u) = Ids(d, u)
    BY DEF Extended, Ids
<1>4. Ids(e, t) = Ids(d, t) \cup fresh
    BY DEF Extended
<1>5. \A u \in Tables : Ids(d, u) \subseteq Ids(e, u) /\ \A i \in Ids(d, u) : e.tab[u][i] = d.tab[u][i]
    BY <1>3, <1>4 DEF Extended
<1>6. Shaped(e)
    BY ExtendedShaped
<1>7. Resolved(schema, e)
  <2> SUFFICES ASSUME NEW u \in Tables, NEW i \in Ids(e, u) PROVE Linked(e, schema[u].refs, e.tab[u][i])
      BY DEF Resolved
  <2>1. CASE i \in Ids(d, u)
    <3>1. Linked(d, schema[u].refs, d.tab[u][i]) /\ e.tab[u][i] = d.tab[u][i]
        BY <2>1, <1>5 DEF Resolved
    <3>2. \A ref \in schema[u].refs : Ids(d, ref.table) \subseteq Ids(e, ref.table)
        BY <1>5 DEF Shallow, Tables
    <3> QED  BY <3>1, <3>2, LinkedStays
  <2>2. CASE i \notin Ids(d, u)
      BY <2>2, <1>3, <1>4 DEF Extended
  <2> QED  BY <2>1, <2>2
<1>8. Cardinality(Ids(e, t)) = Cardinality(Ids(d, t)) + n
  <2>1. IsFiniteSet(fresh) /\ Cardinality(fresh) = n
      BY <1>1, NextIds
  <2>2. Ids(d, t) \cap fresh = {} /\ IsFiniteSet(Ids(d, t))
      BY <1>1, <1>2, ShapedFinite
  <2> HIDE DEF fresh
  <2>3. Cardinality(Ids(d, t) \cup fresh) = Cardinality(Ids(d, t)) + n
      BY <2>1, <2>2, DisjointUnion
  <2> QED  BY <1>4, <2>3
<1> QED  BY <1>3, <1>5, <1>6, <1>7, <1>8 DEF Grown

LEMMA InsertExtends ==
    ASSUME NEW schema, Shallow(schema), NEW d, Shaped(d), NEW t \in Tables, NEW row
    PROVE  LET r == Insert(schema, d, t, row)
           IN  r = Failed(d) \/ (r.err = FALSE /\ Extended(schema, r.db, d, t, 1))
<1> DEFINE r == Insert(schema, d, t, row)
           new == Stamped(d, row)
<1>1. d.next \in Nat /\ DOMAIN d.tab = Tables /\ d.next \notin Ids(d, t)
    BY ShapedFinite DEF Shaped
<1>2. \/ r = Failed(d)
      \/ RowAllowed(schema, d, t, d.next, new) /\ Inserted(r, d, t, new)
    BY <1>1, InsertEffect
<1>3. ASSUME RowAllowed(schema, d, t, d.next, new), Inserted(r, d, t, new)
      PROVE  r.err = FALSE /\ Extended(schema, r.db, d, t, 1)
  <2>1. Linked(d, schema[t].refs, new)
      BY <1>3 DEF RowAllowed, Linked
  <2> HIDE DEF r, new
  <2>2. d.next .. (d.next + 1 - 1) = {d.next}
      BY <1>1
  <2>3. \A u \in Tables : Ids(d, u) \subseteq Ids(r.db, u)
      BY <1>3 DEF Inserted, Ids
  <2>4. Linked(r.db, schema[t].refs, new)
    <3>1. \A ref \in schema[t].refs : Ids(d, ref.table) \subseteq Ids(r.db, ref.table)
        BY <2>3 DEF Shallow, Tables
    <3> QED  BY <3>1, <2>1, LinkedStays
  <2>5. r.db.tab[t][d.next] = new /\ Ids(r.db, t) = Ids(d, t) \cup {d.next} /\ r.err = FALSE
      BY <1>3 DEF Inserted
  <2>6. Ids(r.db, t) = Ids(d, t) \cup (d.next .. (d.next + 1 - 1))
      BY <2>2, <2>5
  <2>7. \A i \in d.next .. (d.next + 1 - 1) : Linked(r.db, schema[t].refs, r.db.tab[t][i])
      BY <2>2, <2>4, <2>5
  <2> QED  BY <1>3, <2>5, <2>6, <2>7 DEF Inserted, Extended
<1> QED  BY <1>2, <1>3
\* What a call returns: an error and the database as it was, or a database in
\* order, after a create with as many rows more as asked for, after a delete
\* without the rows that were deleted.
Fits(schema, r, d, t, ok, asked) ==
    \/ r.err = TRUE /\ r.db = d
    \/ /\ r.err = FALSE /\ Shaped(r.db) /\ Resolved(schema, r.db)
       /\ t # "contexts" => Ids(r.db, "contexts") \subseteq Ids(d, "contexts")
       /\ ok = 201 => Grown(r.db, d, t, asked)
       /\ ok = 204 => DOMAIN r.rows \cap Ids(r.db, t) = {}

LEMMA FailedFits == ASSUME NEW schema, NEW d, NEW t, NEW ok, NEW n PROVE Fits(schema, Failed(d), d, t, ok, n)
<1>1. Failed(d).err = TRUE /\ Failed(d).db = d
    BY DEF Failed
<1> QED  BY <1>1, Zenon DEF Fits

\* Rows added with good references leave the database in order.
LEMMA ExtendedFits ==
    ASSUME NEW schema, Shallow(schema), NEW d, Shaped(d), Resolved(schema, d), NEW t \in Tables, NEW n \in Nat,
           NEW r, r = Failed(d) \/ (r.err = FALSE /\ Extended(schema, r.db, d, t, n))
    PROVE  Fits(schema, r, d, t, 201, n)
<1>1. CASE r = Failed(d)
    BY <1>1, FailedFits
<1>2. CASE r.err = FALSE /\ Extended(schema, r.db, d, t, n)
  <2>1. Shaped(r.db) /\ Resolved(schema, r.db) /\ Grown(r.db, d, t, n)
      BY <1>2, ExtendedIs
  <2>2. t # "contexts" => Ids(r.db, "contexts") = Ids(d, "contexts")
      BY <1>2 DEF Extended, Ids, Tables
  <2> QED  BY <1>2, <2>1, <2>2 DEF Fits
<1> QED  BY <1>1, <1>2

LEMMA InsertFits ==
    ASSUME NEW schema, Shallow(schema), NEW d, Shaped(d), Resolved(schema, d), NEW t \in Tables, NEW row
    PROVE  Fits(schema, Insert(schema, d, t, row), d, t, 201, 1)
BY InsertExtends, ExtendedFits

InsertedRows(e, d, t, rows) ==
    \A i \in d.next .. (d.next + Len(rows) - 1) : e.tab[t][i] = Stamped(d, rows[i - d.next + 1])

\* A batch adds all of its rows or none.
LEMMA InsertAllExtends ==
    ASSUME NEW schema, Shallow(schema), NEW d, Shaped(d), NEW t \in Tables, NEW rows, Len(rows) \in Nat
    PROVE  LET r == InsertAll(schema, d, t, rows)
           IN  \/ r = Failed(d)
               \/ r.err = FALSE /\ Extended(schema, r.db, d, t, Len(rows)) /\ InsertedRows(r.db, d, t, rows)
<1> DEFINE r == InsertAll(schema, d, t, rows)
           New(n) == [i \in d.next .. (d.next + n - 1) |-> Stamped(d, rows[i - d.next + 1])]
           After(n) == [tab |-> Adding(d, t, New(n)), next |-> d.next + n]
           all == New(Len(rows))
           last == After(Len(rows))
           Right == \A i \in DOMAIN all : RowAllowed(schema, After(i - d.next), t, i, all[i])
           done == [err |-> FALSE, db |-> last, rows |-> all]
<1>0. d.next \in Nat \ {0} /\ DOMAIN d.tab = Tables /\ Ids(d, t) \subseteq 1..(d.next - 1)
    BY DEF Shaped
<1>1. r = IF Right THEN done ELSE Failed(d)
    BY Zenon DEF InsertAll
<1>2. CASE ~Right
    BY <1>1, <1>2, Zenon
<1>3. CASE Right
  <2>1. r = done
      BY <1>1, <1>3, Zenon
  <2>2. r.err = FALSE /\ r.db = last
      BY <2>1
  <2>3. \A n : After(n).tab = Adding(d, t, New(n)) /\ After(n).next = d.next + n /\ DOMAIN After(n) = {"tab", "next"}
    <3> SUFFICES ASSUME NEW n
                 PROVE  After(n).tab = Adding(d, t, New(n)) /\ After(n).next = d.next + n /\ DOMAIN After(n) = {"tab", "next"}
        OBVIOUS
    <3> DEFINE tab == Adding(d, t, New(n))
               next == d.next + n
               e == After(n)
    <3>1. e = [tab |-> tab, next |-> next]
        OBVIOUS
    <3> HIDE DEF tab, next, e
    <3>2. e.tab = tab /\ e.next = next /\ DOMAIN e = {"tab", "next"}
        BY <3>1, DbParts
    <3> QED  BY <3>2 DEF tab, next, e
  <2>4. \A n : DOMAIN New(n) = d.next .. (d.next + n - 1)
      OBVIOUS
  <2>a. DOMAIN all = d.next .. (d.next + Len(rows) - 1)
        /\ \A i \in d.next .. (d.next + Len(rows) - 1) : all[i] = Stamped(d, rows[i - d.next + 1])
      OBVIOUS
  <2>5. \A i \in DOMAIN all : RowAllowed(schema, After(i - d.next), t, i, all[i])
      BY <1>3
  <2> HIDE DEF New, Right, r
  <2>6. \A n : /\ DOMAIN After(n).tab = Tables
               /\ \A u \in Tables \ {t} : After(n).tab[u] = d.tab[u]
               /\ After(n).tab[t] = Merge(New(n), d.tab[t])
    <3> SUFFICES ASSUME NEW n PROVE
               /\ DOMAIN After(n).tab = Tables
               /\ \A u \in Tables \ {t} : After(n).tab[u] = d.tab[u]
               /\ After(n).tab[t] = Merge(New(n), d.tab[t])
        OBVIOUS
    <3> HIDE DEF After
    <3> DEFINE rs == New(n)
    <3>1. After(n).tab = Adding(d, t, rs)
        BY <2>3
    <3> HIDE DEF rs
    <3> QED  BY <1>0, <3>1, AddedRows DEF rs
  <2> HIDE DEF After
  <2>7. \A n : \A u \in Tables : Ids(After(n), u) = IF u = t THEN Ids(d, t) \cup DOMAIN New(n) ELSE Ids(d, u)
    <3> SUFFICES ASSUME NEW n, NEW u \in Tables
                 PROVE  Ids(After(n), u) = IF u = t THEN Ids(d, t) \cup DOMAIN New(n) ELSE Ids(d, u)
        OBVIOUS
    <3>1. CASE u # t
        BY <3>1, <2>6 DEF Ids
    <3>2. CASE u = t
      <4>1. DOMAIN Merge(New(n), d.tab[t]) = DOMAIN New(n) \cup DOMAIN d.tab[t]
          BY MergedRows, Zenon
      <4>2. Ids(After(n), t) = DOMAIN Merge(New(n), d.tab[t]) /\ Ids(d, t) = DOMAIN d.tab[t]
          BY <2>6, Zenon DEF Ids
      <4> QED  BY <3>2, <4>1, <4>2
    <3> QED  BY <3>1, <3>2
  <2>c. \A i \in d.next .. (d.next + Len(rows) - 1) : last.tab[t][i] = all[i]
    <3>1. last.tab[t] = Merge(all, d.tab[t])
        BY <2>6
    <3> HIDE DEF last, all
    <3>2. \A i \in DOMAIN all : Merge(all, d.tab[t])[i] = all[i]
        BY MergedRows, Zenon
    <3> QED  BY <2>a, <3>1, <3>2
  <2>8. \A i \in d.next .. (d.next + Len(rows) - 1) : Linked(last, schema[t].refs, last.tab[t][i])
    <3> SUFFICES ASSUME NEW i \in d.next .. (d.next + Len(rows) - 1) PROVE Linked(last, schema[t].refs, last.tab[t][i])
        OBVIOUS
    <3> DEFINE k == i - d.next
    <3>1. i \in DOMAIN all
        BY <2>a
    <3>2. last.tab[t][i] = all[i]
        BY <2>c
    <3>3. Linked(After(k), schema[t].refs, all[i])
        BY <2>5, <3>1 DEF RowAllowed, Linked
    <3>4. k \in Int /\ k <= Len(rows)
        BY <1>0
    <3> HIDE DEF k
    <3>5. DOMAIN New(k) \subseteq DOMAIN New(Len(rows))
        BY <2>4, <3>4, <1>0
    <3>6. \A u \in Tables : Ids(After(k), u) \subseteq Ids(After(Len(rows)), u)
        BY <2>7, <3>5
    <3>7. \A ref \in schema[t].refs : Ids(After(k), ref.table) \subseteq Ids(last, ref.table)
        BY <3>6 DEF Shallow, Tables
    <3> HIDE DEF last, all
    <3>8. Linked(last, schema[t].refs, all[i])
        BY <3>3, <3>7, LinkedStays
    <3> QED  BY <3>2, <3>8
  <2>9. \A i \in Ids(d, t) : last.tab[t][i] = d.tab[t][i]
    <3> SUFFICES ASSUME NEW i \in Ids(d, t) PROVE last.tab[t][i] = d.tab[t][i]
        OBVIOUS
    <3>1. last.tab[t] = Merge(all, d.tab[t]) /\ DOMAIN all = d.next .. (d.next + Len(rows) - 1)
        BY <2>4, <2>6
    <3> HIDE DEF last, all
    <3>2. i \in DOMAIN d.tab[t] \ DOMAIN all
        BY <1>0, <3>1 DEF Ids
    <3>3. Merge(all, d.tab[t])[i] = d.tab[t][i]
      <4> DEFINE old == d.tab[t]
      <4>1. i \in DOMAIN old \ DOMAIN all
          BY <3>2
      <4> HIDE DEF old
      <4>2. Merge(all, old)[i] = old[i]
          BY <4>1 DEF Merge
      <4> QED  BY <4>2 DEF old
    <3> QED  BY <3>1, <3>3, Zenon
  <2>10. Ids(last, t) = Ids(d, t) \cup (d.next .. (d.next + Len(rows) - 1))
      BY <2>4, <2>7
  <2>11. DOMAIN last = {"tab", "next"} /\ last.next = d.next + Len(rows) /\ DOMAIN last.tab = Tables
         /\ \A u \in Tables \ {t} : last.tab[u] = d.tab[u]
      BY <2>3, <2>6
  <2>b. IsTable(last.tab[t])
    <3>1. last.tab[t] = Merge(all, d.tab[t])
        BY <2>6
    <3> HIDE DEF last, all
    <3> QED  BY <3>1, MergedTable
  <2> HIDE DEF last
  <2>12. Extended(schema, last, d, t, Len(rows))
      BY <2>8, <2>9, <2>10, <2>11, <2>b DEF Extended
  <2>13. InsertedRows(last, d, t, rows)
      BY <2>a, <2>c DEF InsertedRows
  <2> QED  BY <2>2, <2>12, <2>13 DEF r
<1> QED  BY <1>2, <1>3

LEMMA InsertAllFits ==
    ASSUME NEW schema, Shallow(schema), NEW d, Shaped(d), Resolved(schema, d), NEW t \in Tables,
           NEW rows, Len(rows) \in Nat
    PROVE  Fits(schema, InsertAll(schema, d, t, rows), d, t, 201, Len(rows))
BY InsertAllExtends, ExtendedFits

\* An update keeps the database in order: the ids stay and the new values were checked.
LEMMA UpdateFits ==
    ASSUME NEW schema, Shallow(schema), NEW d, Shaped(d), Resolved(schema, d), NEW t \in Tables, NEW id, NEW cols
    PROVE  Fits(schema, Update(schema, d, t, id, cols), d, t, 200, 1)
<1> DEFINE row == Merge(cols, d.tab[t][id])
           e == [d EXCEPT !.tab[t][id] = row]
           r == Update(schema, d, t, id, cols)
<1>1. CASE ~(id \in Ids(d, t) /\ RowAllowed(schema, d, t, id, row))
  <2>1. r = Failed(d)
      BY <1>1, Zenon DEF Update
  <2> QED  BY <2>1, FailedFits
<1>2. CASE id \in Ids(d, t) /\ RowAllowed(schema, d, t, id, row)
  <2>1. r = [err |-> FALSE, db |-> e, rows |-> Only(id, row)]
      BY <1>2, Zenon DEF Update
  <2>2. r.err = FALSE /\ r.db = e
      BY <2>1
  <2>3. Linked(d, schema[t].refs, row)
      BY <1>2 DEF RowAllowed, Linked
  <2> HIDE DEF row
  <2>4. DOMAIN e = {"tab", "next"} /\ e.next = d.next /\ DOMAIN e.tab = Tables
        /\ \A u \in Tables : e.tab[u] = IF u = t THEN [d.tab[t] EXCEPT ![id] = row] ELSE d.tab[u]
      BY DEF Shaped
  <2> HIDE DEF e, r
  <2>5. \A u \in Tables : Ids(e, u) = Ids(d, u)
      BY <2>4 DEF Ids
  <2>6. Shaped(e)
    <3>1. \A u \in Tables : IsTable(e.tab[u])
      <4>1. IsTable([d.tab[t] EXCEPT ![id] = row])
          BY DEF IsTable
      <4> QED  BY <2>4, <4>1 DEF Shaped
    <3> QED  BY <2>4, <2>5, <3>1 DEF Shaped
  <2>7. ASSUME NEW u \in Tables, NEW i \in Ids(e, u) PROVE Linked(e, schema[u].refs, e.tab[u][i])
    <3>1. \A ref \in schema[u].refs : Ids(d, ref.table) \subseteq Ids(e, ref.table)
        BY <2>5 DEF Shallow, Tables
    <3>2. Linked(d, schema[u].refs, e.tab[u][i])
      <4>1. CASE u = t /\ i = id
          BY <4>1, <1>2, <2>3, <2>4 DEF Ids
      <4>2. CASE ~(u = t /\ i = id)
        <5>1. e.tab[u][i] = d.tab[u][i] /\ i \in Ids(d, u)
            BY <4>2, <2>4, <2>5 DEF Ids
        <5> QED  BY <5>1 DEF Resolved
      <4> QED  BY <4>1, <4>2
    <3> QED  BY <3>1, <3>2, LinkedStays
  <2>8. Ids(e, "contexts") \subseteq Ids(d, "contexts")
      BY <2>5 DEF Tables
  <2>9. Fits(schema, r, d, t, 200, 1)
      BY <2>2, <2>6, <2>7, <2>8 DEF Fits, Resolved
  <2> QED  BY <2>9 DEF r
<1> QED  BY <1>1, <1>2

LEMMA GetFits ==
    ASSUME NEW schema, NEW d, Shaped(d), Resolved(schema, d), NEW t, NEW id
    PROVE  Fits(schema, Get(d, t, id), d, t, 200, 1)
<1> DEFINE r == Get(d, t, id)
           found == [err |-> FALSE, db |-> d, rows |-> Only(id, d.tab[t][id])]
<1>1. r = found \/ r = Failed(d)
    BY Zenon DEF Get
<1>2. CASE r = found
  <2>1. r.err = FALSE /\ r.db = d
      BY <1>2
  <2> HIDE DEF r
  <2>2. Fits(schema, r, d, t, 200, 1)
      BY <2>1 DEF Fits
  <2> QED  BY <2>2 DEF r
<1> QED  BY <1>1, <1>2, FailedFits

\* The rows that stay refer to none that go.
LEMMA DeleteCloses ==
    ASSUME NEW schema, Shallow(schema), NEW d, NEW g, NEW t \in Tables, NEW i \in Ids(d, t),
           NEW first, first = Cascade(schema, d, g), NEW gone, gone = Cascade(schema, d, first), i \notin gone[t],
           NEW ref \in schema[t].refs
    PROVE  d.tab[t][i][ref.col] \notin gone[ref.table]
<1> DEFINE to == d.tab[t][i][ref.col]
<1>1. \A u \in Tables : first[u] = g[u] \cup {k \in Ids(d, u) : \E rf \in schema[u].refs : d.tab[u][k][rf.col] \in g[rf.table]}
    BY DEF Cascade
<1>2. \A u \in Tables : gone[u] = first[u] \cup {k \in Ids(d, u) : \E rf \in schema[u].refs : d.tab[u][k][rf.col] \in first[rf.table]}
    BY DEF Cascade
<1>3. to \notin first[ref.table]
    BY <1>2
<1>4. ref.table \in {"projects", "sources", "channels"}
    BY DEF Shallow
<1>5. CASE ref.table \in {"projects", "channels"}
  <2>1. schema[ref.table].refs = {} /\ ref.table \in Tables
      BY <1>5 DEF Shallow, Tables
  <2>2. ASSUME to \in gone[ref.table] PROVE to \in first[ref.table]
      BY <1>2, <2>1, <2>2
  <2> QED  BY <2>2, <1>3
<1>6. CASE ref.table = "sources"
  <2>1. first["projects"] = g["projects"]
      BY <1>1 DEF Shallow, Tables
  <2>2. ASSUME to \in gone["sources"] PROVE FALSE
    <3>1. to \in Ids(d, "sources") /\ \E rf \in schema["sources"].refs : d.tab["sources"][to][rf.col] \in first[rf.table]
        BY <1>2, <1>3, <1>6, <2>2 DEF Tables
    <3>2. \E rf \in schema["sources"].refs : d.tab["sources"][to][rf.col] \in g[rf.table]
        BY <2>1, <3>1 DEF Shallow
    <3>3. to \in first["sources"]
        BY <1>1, <3>1, <3>2 DEF Tables
    <3> QED  BY <1>3, <1>6, <3>3
  <2> QED  BY <1>6, <2>2
<1> QED  BY <1>4, <1>5, <1>6

\* A delete takes along what refers to its rows.
LEMMA DeleteFits ==
    ASSUME NEW schema, Shallow(schema), NEW d, Shaped(d), Resolved(schema, d), NEW t \in Tables, NEW ids, NEW n
    PROVE  Fits(schema, Delete(schema, d, t, ids), d, t, 204, n)
<1> DEFINE g == [u \in Tables |-> IF u = t THEN ids ELSE {}]
           first == Cascade(schema, d, g)
           gone == Cascade(schema, d, first)
           Rest(u) == [i \in Ids(d, u) \ gone[u] |-> d.tab[u][i]]
           e == [d EXCEPT !.tab = [u \in Tables |-> Rest(u)]]
           rows == [i \in ids \cap Ids(d, t) |-> d.tab[t][i]]
           r == Delete(schema, d, t, ids)
<1>1. r = [err |-> FALSE, db |-> e, rows |-> rows]
    BY Zenon DEF Delete
<1>2. r.err = FALSE /\ r.db = e /\ r.rows = rows
    BY <1>1
<1>3. DOMAIN e = {"tab", "next"} /\ e.next = d.next /\ e.tab = [u \in Tables |-> Rest(u)]
    BY DEF Shaped
<1> HIDE DEF r, e
<1>4. DOMAIN r.rows \subseteq ids
    BY <1>2
<1>5. ids \subseteq gone[t]
  <2>1. g[t] = ids
      OBVIOUS
  <2> HIDE DEF g
  <2> QED  BY <2>1 DEF Cascade
<1>6. ASSUME NEW u \in Tables, NEW i \in Ids(d, u), i \notin gone[u], NEW ref \in schema[u].refs
      PROVE  d.tab[u][i][ref.col] \notin gone[ref.table]
  <2> HIDE DEF g
  <2> DEFINE a == first
             b == gone
  <2>1. a = Cascade(schema, d, g) /\ b = Cascade(schema, d, a)
      OBVIOUS
  <2> HIDE DEF a, b
  <2>2. i \notin b[u]
      BY <1>6 DEF b
  <2>3. d.tab[u][i][ref.col] \notin b[ref.table]
      BY <2>1, <2>2, DeleteCloses
  <2> QED  BY <2>3 DEF b
<1> HIDE DEF gone
<1>7. \A u \in Tables : Ids(e, u) = Ids(d, u) \ gone[u]
    BY <1>3 DEF Ids
<1>8. \A u \in Tables : \A i \in Ids(e, u) : e.tab[u][i] = d.tab[u][i]
    BY <1>3, <1>7
<1>9. Shaped(e)
  <2>1. \A u \in Tables : IsTable(e.tab[u])
      BY <1>3 DEF IsTable
  <2> QED  BY <1>3, <1>7, <2>1 DEF Shaped
<1>10. Resolved(schema, e)
  <2> SUFFICES ASSUME NEW u \in Tables, NEW i \in Ids(e, u), NEW ref \in schema[u].refs,
                      e.tab[u][i][ref.col] # NULL
               PROVE  e.tab[u][i][ref.col] \in Ids(e, ref.table)
      BY DEF Resolved, Linked
  <2>1. i \in Ids(d, u) /\ i \notin gone[u] /\ e.tab[u][i] = d.tab[u][i]
      BY <1>7, <1>8
  <2>2. d.tab[u][i][ref.col] \in Ids(d, ref.table)
      BY <2>1 DEF Resolved, Linked
  <2>3. ref.table \in Tables
      BY DEF Shallow, Tables
  <2> QED  BY <1>6, <1>7, <2>1, <2>2, <2>3
<1>11. Ids(e, "contexts") \subseteq Ids(d, "contexts")
    BY <1>7 DEF Tables
<1>12. DOMAIN r.rows \cap Ids(e, t) = {}
    BY <1>4, <1>5, <1>7
<1>13. Fits(schema, r, d, t, 204, n)
    BY <1>2, <1>9, <1>10, <1>11, <1>12 DEF Fits
<1> QED  BY <1>13 DEF r

LEMMA DeleteExistingFits ==
    ASSUME NEW schema, Shallow(schema), NEW d, Shaped(d), Resolved(schema, d), NEW t \in Tables, NEW ids, NEW n
    PROVE  Fits(schema, DeleteExisting(schema, d, t, ids), d, t, 204, n)
<1>1. DeleteExisting(schema, d, t, ids) = Failed(d) \/ DeleteExisting(schema, d, t, ids) = Delete(schema, d, t, ids)
    BY Zenon DEF DeleteExisting
<1> QED  BY <1>1, FailedFits, DeleteFits

LEMMA PgMerge == \A f, g : Pg!Merge(f, g) = Merge(f, g)
BY DEF Merge, Pg!Merge
LEMMA PgIds == \A d, t : Pg!Ids(d, t) = Ids(d, t)
BY DEF Pg!Ids, Ids
LEMMA PgFailed == \A d : Pg!Failed(d) = Failed(d)
BY DEF Pg!Failed, Failed, Pg!NoRows, NoRows, Pg!NULL, NULL

Named(d, sels, m) == {Pg!ProjectId(d, i) : i \in {k \in 1..m : sels[k].name # NULL}}
Added(d, sels, n) == {Pg!SourceId(d, i) : i \in {k \in 1..n : ~Pg!Skipped(d, sels, k)}}
\* the selection a row was made for
Selected(d, j) == (j - d.next) \div 2 + 1

\* the scan's projects and sources beside what was there
AppliedRows(e, d, sels, m, n) ==
    /\ DOMAIN e = {"tab", "next"} /\ e.next = d.next + 2 * Len(sels) /\ DOMAIN e.tab = Tables
    /\ \A u \in Tables \ {"projects", "sources"} : e.tab[u] = d.tab[u]
    /\ IsTable(e.tab["projects"]) /\ IsTable(e.tab["sources"])
    /\ Ids(e, "projects") = Named(d, sels, m) \cup Ids(d, "projects")
    /\ Ids(e, "sources") = Added(d, sels, n) \cup Ids(d, "sources")
    /\ \A j \in Added(d, sels, n) : e.tab["sources"][j] = Pg!ScanSource(d, Selected(d, j), sels[Selected(d, j)])
    /\ \A j \in Ids(d, "sources") \ Added(d, sels, n) : e.tab["sources"][j] = d.tab["sources"][j]
    /\ \A j \in Named(d, sels, m) : e.tab["projects"][j] = Pg!ScanProject(d, sels[Selected(d, j)])
    /\ \A j \in Ids(d, "projects") \ Named(d, sels, m) : e.tab["projects"][j] = d.tab["projects"][j]

\* What the database is in the middle of applying a scan: m projects and n sources in.
LEMMA AppliedIs ==
    ASSUME NEW d, DOMAIN d.tab = Tables, NEW sels, NEW m, NEW n
    PROVE  AppliedRows(Pg!Applied(d, sels, m, n), d, sels, m, n)
<1> DEFINE e == Pg!Applied(d, sels, m, n)
           Slot(j) == (j - d.next) \div 2 + 1
           named == Named(d, sels, m)
           added == Added(d, sels, n)
           ps == [j \in named |-> Pg!ScanProject(d, sels[Slot(j)])]
           ss == [j \in added |-> Pg!ScanSource(d, Slot(j), sels[Slot(j)])]
           oldp == d.tab["projects"]
           olds == d.tab["sources"]
           tab == [d.tab EXCEPT !["projects"] = Merge(ps, oldp), !["sources"] = Merge(ss, olds)]
           next == d.next + 2 * Len(sels)
<1>1. e = [tab |-> tab, next |-> next]
  <2>1. Pg!NULL = NULL
      BY DEF Pg!NULL, NULL
  <2>2. e = [tab |-> [d.tab EXCEPT !["projects"] = Pg!Merge(ps, @), !["sources"] = Pg!Merge(ss, @)], next |-> next]
      BY <2>1, Zenon DEF Pg!Applied, Named, Added
  <2>3. [d.tab EXCEPT !["projects"] = Pg!Merge(ps, @), !["sources"] = Pg!Merge(ss, @)] =
        [d.tab EXCEPT !["projects"] = Pg!Merge(ps, oldp), !["sources"] = Pg!Merge(ss, olds)]
    <3> HIDE DEF ps, ss, named, added
    <3> QED  OBVIOUS
  <2> HIDE DEF ps, ss
  <2>4. Pg!Merge(ps, oldp) = Merge(ps, oldp) /\ Pg!Merge(ss, olds) = Merge(ss, olds)
      BY PgMerge, Zenon
  <2> QED  BY <2>2, <2>3, <2>4, Zenon
<1>2. DOMAIN ps = named /\ DOMAIN ss = added
    OBVIOUS
<1>3. /\ \A j \in added : ss[j] = Pg!ScanSource(d, Slot(j), sels[Slot(j)])
      /\ \A j \in named : ps[j] = Pg!ScanProject(d, sels[Slot(j)])
    OBVIOUS
<1> HIDE DEF ps, ss, named, added, e, next
<1>4. DOMAIN tab = Tables /\ (\A u \in Tables \ {"projects", "sources"} : tab[u] = d.tab[u])
      /\ tab["projects"] = Merge(ps, oldp) /\ tab["sources"] = Merge(ss, olds)
    BY DEF Tables
<1> HIDE DEF tab
<1>5. e.tab = tab /\ e.next = next /\ DOMAIN e = {"tab", "next"}
    BY <1>1, DbParts
<1>6. Ids(d, "projects") = DOMAIN oldp /\ Ids(d, "sources") = DOMAIN olds
    BY Zenon DEF Ids
<1> HIDE DEF oldp, olds
<1>7. DOMAIN Merge(ps, oldp) = DOMAIN ps \cup DOMAIN oldp /\ DOMAIN Merge(ss, olds) = DOMAIN ss \cup DOMAIN olds
    BY MergedRows, Zenon
<1>8. (\A j \in DOMAIN ss : Merge(ss, olds)[j] = ss[j]) /\ \A j \in DOMAIN olds \ DOMAIN ss : Merge(ss, olds)[j] = olds[j]
    BY MergedRows, Zenon
<1>a. (\A j \in DOMAIN ps : Merge(ps, oldp)[j] = ps[j]) /\ \A j \in DOMAIN oldp \ DOMAIN ps : Merge(ps, oldp)[j] = oldp[j]
    BY MergedRows, Zenon
<1>9. Ids(e, "projects") = named \cup Ids(d, "projects") /\ Ids(e, "sources") = added \cup Ids(d, "sources")
    BY <1>2, <1>4, <1>5, <1>6, <1>7, Zenon DEF Ids
<1>10. \A j \in added : e.tab["sources"][j] = Pg!ScanSource(d, Slot(j), sels[Slot(j)])
    BY <1>2, <1>3, <1>4, <1>5, <1>8, Zenon
<1>11. \A j \in Ids(d, "sources") \ added : e.tab["sources"][j] = d.tab["sources"][j]
  <2>1. \A j \in Ids(d, "sources") \ added : e.tab["sources"][j] = olds[j]
      BY <1>2, <1>4, <1>5, <1>6, <1>8
  <2> QED  BY <2>1 DEF olds
<1>b. \A j \in named : e.tab["projects"][j] = Pg!ScanProject(d, sels[Slot(j)])
    BY <1>2, <1>3, <1>4, <1>5, <1>a, Zenon
<1>c. \A j \in Ids(d, "projects") \ named : e.tab["projects"][j] = d.tab["projects"][j]
  <2>1. \A j \in Ids(d, "projects") \ named : e.tab["projects"][j] = oldp[j]
      BY <1>2, <1>4, <1>5, <1>6, <1>a
  <2> QED  BY <2>1 DEF oldp
<1>12. IsTable(e.tab["projects"]) /\ IsTable(e.tab["sources"])
    BY <1>4, <1>5, MergedTable, Zenon
<1> QED  BY <1>4, <1>5, <1>9, <1>10, <1>11, <1>12, <1>b, <1>c, Zenon DEF e, named, added, next, Selected, AppliedRows

LEMMA PgNull == Pg!NULL = NULL
BY DEF Pg!NULL, NULL
LEMMA PgTables == Pg!Tables = Tables
BY DEF Pg!Tables, Tables
LEMMA PgShallow == Shallow(Pg!Schema)
BY PgTables DEF Shallow, Pg!Schema, Pg!ProjectsTable, Pg!SourcesTable, Pg!ContextsTable, Pg!ReleasesTable, Pg!ChannelsTable,
   Pg!SubsTable, Pg!Ref, Tables

LEMMA LenOf == ASSUME NEW n \in Nat, NEW S, NEW s \in [1..n -> S] PROVE Len(s) = n
<1>1. s \in Seq(S)
    BY SeqDef
<1>2. DOMAIN s = 1..Len(s) /\ Len(s) \in Nat
    BY <1>1, LenProperties
<1>3. DOMAIN s = 1..n
    OBVIOUS
<1> QED  BY <1>2, <1>3

LEMMA Slots == ASSUME NEW a \in Nat, NEW i \in Nat \ {0} PROVE ((a + 2 * i - 1) - a) \div 2 + 1 = i
<1>1. (a + 2 * i - 1) - a = 2 * (i - 1) + 1
    OBVIOUS
<1>2. (2 * (i - 1) + 1) \div 2 = i - 1
    OBVIOUS
<1> QED  BY <1>1, <1>2

\* The ids of a scan's rows are new.
LEMMA AppliedIds ==
    ASSUME NEW d, d.next \in Nat \ {0}, NEW n \in Nat, NEW sels
    PROVE  Named(d, sels, n) \subseteq d.next .. (d.next + 2 * n - 1) /\ Added(d, sels, n) \subseteq d.next .. (d.next + 2 * n - 1)
BY DEF Named, Added, Pg!ProjectId, Pg!SourceId

LEMMA AppliedShaped ==
    ASSUME NEW d, Shaped(d), NEW n \in Nat, NEW sels, Len(sels) = n, NEW e, AppliedRows(e, d, sels, n, n)
    PROVE  Shaped(e)
<1>1. d.next \in Nat \ {0} /\ \A u \in Tables : Ids(d, u) \subseteq 1..(d.next - 1)
    BY DEF Shaped
<1>2. e.next = d.next + 2 * n
    BY DEF AppliedRows
<1>3. \A u \in Tables : Ids(e, u) \subseteq 1..(e.next - 1)
  <2> SUFFICES ASSUME NEW u \in Tables, NEW j \in Ids(e, u) PROVE j \in 1..(e.next - 1)
      OBVIOUS
  <2>1. j \in Ids(d, u) \/ j \in d.next .. (d.next + 2 * n - 1)
    <3>1. CASE u \in {"projects", "sources"}
        BY <1>1, <3>1, AppliedIds DEF AppliedRows
    <3>2. CASE u \notin {"projects", "sources"}
        BY <3>2 DEF AppliedRows, Ids
    <3> QED  BY <3>1, <3>2
  <2> QED  BY <1>1, <1>2, <2>1
<1>4. \A u \in Tables : IsTable(e.tab[u])
    BY DEF Shaped, AppliedRows
<1> QED  BY <1>1, <1>2, <1>3, <1>4 DEF Shaped, AppliedRows

\* Applying a scan, in one transaction, keeps the database in order.
LEMMA ApplyFits ==
    ASSUME NEW d, Shaped(d), Resolved(Pg!Schema, d), NEW n \in Nat, NEW S, NEW sels \in [1..n -> S], NEW asked
    PROVE  Fits(Pg!Schema, Pg!ApplyOnboardScan(d, sels), d, "scans", 200, asked)
<1> DEFINE r == Pg!ApplyOnboardScan(d, sels)
           e == Pg!Applied(d, sels, Len(sels), Len(sels))
           Right == \A i \in DOMAIN sels :
                      /\ sels[i].name # Pg!NULL =>
                           Pg!RowAllowed(Pg!Schema, Pg!Applied(d, sels, i - 1, i - 1), "projects", Pg!ProjectId(d, i), Pg!ScanProject(d, sels[i]))
                      /\ ~Pg!Skipped(d, sels, i) =>
                           Pg!RowAllowed(Pg!Schema, Pg!Applied(d, sels, i, i - 1), "sources", Pg!SourceId(d, i), Pg!ScanSource(d, i, sels[i]))
           done == [err |-> FALSE, db |-> e, rows |-> Pg!NoRows]
<1>1. r = IF Right THEN done ELSE Pg!Failed(d)
    BY Zenon DEF Pg!ApplyOnboardScan
<1>2. CASE ~Right
  <2>1. r = Failed(d)
      BY <1>1, <1>2, PgFailed, Zenon
  <2> QED  BY <2>1, FailedFits
<1>3. CASE Right
  <2>1. r.err = FALSE /\ r.db = e
    <3>1. r = done
        BY <1>1, <1>3, Zenon
    <3> QED  BY <3>1
  <2>2. DOMAIN sels = 1..n /\ Len(sels) = n
      BY LenOf
  <2>3. \A i \in 1..n : ~Pg!Skipped(d, sels, i) =>
           Pg!RowAllowed(Pg!Schema, Pg!Applied(d, sels, i, i - 1), "sources", Pg!SourceId(d, i), Pg!ScanSource(d, i, sels[i]))
      BY <1>3, <2>2, Zenon
  <2> HIDE DEF r, Right
  <2>4. d.next \in Nat \ {0} /\ DOMAIN d.tab = Tables /\ \A u \in Tables : Ids(d, u) \subseteq 1..(d.next - 1)
      BY DEF Shaped
  <2> DEFINE named == Named(d, sels, n)
             added == Added(d, sels, n)
  <2>a. AppliedRows(e, d, sels, n, n)
      BY <2>2, <2>4, AppliedIs
  <2>b. Shaped(e)
    <3> HIDE DEF e
    <3> QED  BY <2>2, <2>a, AppliedShaped
  <2>5. /\ DOMAIN e = {"tab", "next"} /\ e.next = d.next + 2 * n /\ DOMAIN e.tab = Tables
        /\ \A u \in Tables \ {"projects", "sources"} : e.tab[u] = d.tab[u]
        /\ Ids(e, "projects") = named \cup Ids(d, "projects")
        /\ Ids(e, "sources") = added \cup Ids(d, "sources")
        /\ \A j \in added : e.tab["sources"][j] = Pg!ScanSource(d, Selected(d, j), sels[Selected(d, j)])
        /\ \A j \in Ids(d, "sources") \ added : e.tab["sources"][j] = d.tab["sources"][j]
        /\ IsTable(e.tab["projects"]) /\ IsTable(e.tab["sources"])
    <3>1. AppliedRows(e, d, sels, n, n)
        BY <2>2, <2>a
    <3> HIDE DEF e
    <3> QED  BY <2>2, <3>1 DEF AppliedRows
  <2> HIDE DEF e
  <2>7. \A j \in added : \E i \in 1..n : j = d.next + 2 * i - 1 /\ ~Pg!Skipped(d, sels, i)
      BY DEF Added, Pg!SourceId
  <2>8. \A i \in 1..n : Named(d, sels, i) \subseteq named
      BY DEF Named
  <2> HIDE DEF named, added
  <2>9. \A u \in Tables : Ids(d, u) \subseteq Ids(e, u)
      BY <2>5 DEF Ids
  <2>10. \A u \in Tables \ {"projects", "sources"} : Ids(e, u) = Ids(d, u)
      BY <2>5 DEF Ids
  <2>12. ASSUME NEW u \in Tables, NEW j \in Ids(d, u), e.tab[u][j] = d.tab[u][j] PROVE Linked(e, Pg!Schema[u].refs, e.tab[u][j])
    <3>1. \A ref \in Pg!Schema[u].refs : Ids(d, ref.table) \subseteq Ids(e, ref.table)
        BY <2>9, PgShallow DEF Shallow, Tables
    <3> QED  BY <2>12, <3>1, LinkedStays DEF Resolved
  <2>13. ASSUME NEW j \in added PROVE Linked(e, Pg!Schema["sources"].refs, e.tab["sources"][j])
    <3>1. PICK i \in 1..n : j = d.next + 2 * i - 1 /\ ~Pg!Skipped(d, sels, i)
        BY <2>7
    <3>2. Selected(d, j) = i
        BY <2>4, <3>1, Slots DEF Selected
    <3> DEFINE row == Pg!ScanSource(d, i, sels[i])
               f == Pg!Applied(d, sels, i, i - 1)
               refs == Pg!Schema["sources"].refs
    <3>3. Linked(f, refs, row)
      <4>1. Pg!RowAllowed(Pg!Schema, f, "sources", Pg!SourceId(d, i), row)
          BY <2>3, <3>1
      <4> QED  BY <4>1, PgNull, PgIds DEF Pg!RowAllowed, Linked
    <3>4. e.tab["sources"][j] = row
        BY <2>5, <3>2
    <3>5. Ids(f, "projects") = Named(d, sels, i) \cup Ids(d, "projects")
        BY <2>4, AppliedIs DEF AppliedRows
    <3>6. Ids(f, "projects") \subseteq Ids(e, "projects")
        BY <3>5, <2>5, <2>8
    <3>7. \A ref \in refs : Ids(f, ref.table) \subseteq Ids(e, ref.table)
        BY <3>6, PgShallow DEF Shallow, Tables
    <3> HIDE DEF f, row, refs
    <3>8. Linked(e, refs, row)
        BY <3>3, <3>7, LinkedStays
    <3> QED  BY <3>4, <3>8 DEF refs
  <2>14. Resolved(Pg!Schema, e)
    <3> SUFFICES ASSUME NEW u \in Tables, NEW j \in Ids(e, u) PROVE Linked(e, Pg!Schema[u].refs, e.tab[u][j])
        BY DEF Resolved
    <3>1. CASE u = "projects"
        BY <3>1, PgShallow DEF Shallow, Linked
    <3>2. CASE u = "sources"
        BY <3>2, <2>5, <2>12, <2>13
    <3>3. CASE u \notin {"projects", "sources"}
        BY <3>3, <2>5, <2>10, <2>12
    <3> QED  BY <3>1, <3>2, <3>3
  <2>15. Ids(e, "contexts") \subseteq Ids(d, "contexts")
      BY <2>10 DEF Tables
  <2>16. Fits(Pg!Schema, r, d, "scans", 200, asked)
      BY <2>1, <2>b, <2>14, <2>15 DEF Fits
  <2> QED  BY <2>16 DEF r
<1> QED  BY <1>2, <1>3

LEMMA PgInsert == ASSUME NEW schema, NEW d, NEW t, NEW row PROVE Pg!Insert(schema, d, t, row) = Insert(schema, d, t, row)
BY Zenon DEF Pg!Insert, Insert, Pg!RowAllowed, RowAllowed, Pg!Ids, Ids, Pg!Only, Only, Pg!Stamped, Stamped, Pg!Merge, Merge,
   Pg!NULL, NULL, Pg!Failed, Failed, Pg!NoRows, NoRows, Pg!Adding, Adding
LEMMA PgInsertAll == ASSUME NEW schema, NEW d, NEW t, NEW rows PROVE Pg!InsertAll(schema, d, t, rows) = InsertAll(schema, d, t, rows)
BY Zenon DEF Pg!InsertAll, InsertAll, Pg!RowAllowed, RowAllowed, Pg!Ids, Ids, Pg!Stamped, Stamped, Pg!Merge, Merge,
   Pg!NULL, NULL, Pg!Failed, Failed, Pg!NoRows, NoRows, Pg!Adding, Adding
LEMMA PgUpdate == ASSUME NEW schema, NEW d, NEW t, NEW i, NEW cols PROVE Pg!Update(schema, d, t, i, cols) = Update(schema, d, t, i, cols)
BY Zenon DEF Pg!Update, Update, Pg!RowAllowed, RowAllowed, Pg!Ids, Ids, Pg!Only, Only, Pg!Merge, Merge, Pg!NULL, NULL,
   Pg!Failed, Failed, Pg!NoRows, NoRows
LEMMA PgDelete == ASSUME NEW schema, NEW d, NEW t, NEW ids PROVE Pg!DeleteExisting(schema, d, t, ids) = DeleteExisting(schema, d, t, ids)
BY Zenon DEF Pg!DeleteExisting, DeleteExisting, Pg!Delete, Delete, Pg!Cascade, Cascade, Pg!Ids, Ids, Pg!Tables, Tables,
   Pg!Failed, Failed, Pg!NoRows, NoRows, Pg!NULL, NULL
LEMMA PgGet == ASSUME NEW d, NEW t, NEW i PROVE Pg!Get(d, t, i) = Get(d, t, i)
BY Zenon DEF Pg!Get, Get, Pg!Ids, Ids, Pg!Only, Only, Pg!Failed, Failed, Pg!NoRows, NoRows, Pg!NULL, NULL

LEMMA LiteInsert == ASSUME NEW schema, NEW d, NEW t, NEW row PROVE Lite!Insert(schema, d, t, row) = Insert(schema, d, t, row)
BY Zenon DEF Lite!Insert, Insert, Lite!RowAllowed, RowAllowed, Lite!Ids, Ids, Lite!Only, Only, Lite!Stamped, Stamped, Lite!Merge, Merge,
   Lite!NULL, NULL, Lite!Failed, Failed, Lite!NoRows, NoRows, Lite!Adding, Adding
LEMMA LiteInsertAll == ASSUME NEW schema, NEW d, NEW t, NEW rows PROVE Lite!InsertAll(schema, d, t, rows) = InsertAll(schema, d, t, rows)
BY Zenon DEF Lite!InsertAll, InsertAll, Lite!RowAllowed, RowAllowed, Lite!Ids, Ids, Lite!Stamped, Stamped, Lite!Merge, Merge,
   Lite!NULL, NULL, Lite!Failed, Failed, Lite!NoRows, NoRows, Lite!Adding, Adding
LEMMA LiteUpdate == ASSUME NEW schema, NEW d, NEW t, NEW i, NEW cols PROVE Lite!Update(schema, d, t, i, cols) = Update(schema, d, t, i, cols)
BY Zenon DEF Lite!Update, Update, Lite!RowAllowed, RowAllowed, Lite!Ids, Ids, Lite!Only, Only, Lite!Merge, Merge, Lite!NULL, NULL,
   Lite!Failed, Failed, Lite!NoRows, NoRows
LEMMA LiteDelete == ASSUME NEW schema, NEW d, NEW t, NEW ids PROVE Lite!Delete(schema, d, t, ids) = Delete(schema, d, t, ids)
BY Zenon DEF Lite!Delete, Delete, Lite!Cascade, Cascade, Lite!Ids, Ids, Lite!Tables, Tables
LEMMA LiteDeleteExisting ==
    ASSUME NEW schema, NEW d, NEW t, NEW ids PROVE Lite!DeleteExisting(schema, d, t, ids) = DeleteExisting(schema, d, t, ids)
BY LiteDelete, Zenon DEF Lite!DeleteExisting, DeleteExisting, Lite!Ids, Ids, Lite!Failed, Failed, Lite!NoRows, NoRows, Lite!NULL, NULL
LEMMA LiteGet == ASSUME NEW d, NEW t, NEW i PROVE Lite!Get(d, t, i) = Get(d, t, i)
BY Zenon DEF Lite!Get, Get, Lite!Ids, Ids, Lite!Only, Only, Lite!Failed, Failed, Lite!NoRows, NoRows, Lite!NULL, NULL
LEMMA LiteFailed == \A d : Lite!NotImplemented(d) = Failed(d)
BY DEF Lite!NotImplemented, Lite!Failed, Failed, Lite!NoRows, NoRows, Lite!NULL, NULL

\* With foreign keys enforced the schemas differ in context sources alone.
LEMMA LiteSchema ==
    ASSUME NEW fk, fk = TRUE
    PROVE  /\ \A t \in Tables \ {"contexts"} : Lite!Schema(fk)[t] = Pg!Schema[t]
           /\ Lite!Schema(fk)["contexts"].refs = {}
<1>1. Lite!Schema(fk) = [projects |-> Lite!ProjectsTable, sources |-> Lite!SourcesTable, releases |-> Lite!ReleasesTable,
                         channels |-> Lite!ChannelsTable, subs |-> Lite!SubsTable, contexts |-> [unique |-> {}, refs |-> {}]]
    BY DEF Lite!Schema
<1>2. /\ Lite!ProjectsTable = Pg!ProjectsTable /\ Lite!SourcesTable = Pg!SourcesTable
      /\ Lite!ReleasesTable = Pg!ReleasesTable /\ Lite!ChannelsTable = Pg!ChannelsTable /\ Lite!SubsTable = Pg!SubsTable
    BY Zenon DEF Lite!ProjectsTable, Lite!SourcesTable, Lite!ReleasesTable, Lite!ChannelsTable, Lite!SubsTable, Lite!Ref,
       Pg!ProjectsTable, Pg!SourcesTable, Pg!ReleasesTable, Pg!ChannelsTable, Pg!SubsTable, Pg!Ref
<1> QED  BY <1>1, <1>2 DEF Pg!Schema, Tables

LEMMA LiteShallow == ASSUME NEW fk, fk = TRUE PROVE Shallow(Lite!Schema(fk))
<1> DEFINE schema == Lite!Schema(fk)
<1>1. (\A t \in Tables \ {"contexts"} : schema[t] = Pg!Schema[t]) /\ schema["contexts"].refs = {}
    BY LiteSchema
<1> HIDE DEF schema
<1>2. Shallow(schema)
    BY <1>1, PgShallow DEF Shallow, Tables
<1> QED  BY <1>2 DEF schema

LEMMA LiteResolved ==
    ASSUME NEW fk, fk = TRUE, NEW d
    PROVE  /\ Resolved(Pg!Schema, d) => Resolved(Lite!Schema(fk), d)
           /\ Resolved(Lite!Schema(fk), d) /\ Ids(d, "contexts") = {} => Resolved(Pg!Schema, d)
<1> DEFINE schema == Lite!Schema(fk)
<1>1. (\A t \in Tables \ {"contexts"} : schema[t] = Pg!Schema[t]) /\ schema["contexts"].refs = {}
    BY LiteSchema
<1> HIDE DEF schema
<1>2. Resolved(Pg!Schema, d) => Resolved(schema, d)
    BY <1>1 DEF Resolved, Linked
<1>3. Resolved(schema, d) /\ Ids(d, "contexts") = {} => Resolved(Pg!Schema, d)
    BY <1>1 DEF Resolved
<1> QED  BY <1>2, <1>3 DEF schema

LEMMA LiteFits ==
    ASSUME NEW fk, fk = TRUE, NEW d, Ids(d, "contexts") = {}, NEW t, t # "contexts", NEW ok, NEW n, NEW r,
           Fits(Lite!Schema(fk), r, d, t, ok, n)
    PROVE  Fits(Pg!Schema, r, d, t, ok, n) /\ Ids(r.db, "contexts") = {}
<1> DEFINE schema == Lite!Schema(fk)
<1>1. Fits(schema, r, d, t, ok, n)
    OBVIOUS
<1>2. Resolved(schema, r.db) /\ Ids(r.db, "contexts") = {} => Resolved(Pg!Schema, r.db)
    BY LiteResolved
<1> HIDE DEF schema
<1> QED  BY <1>1, <1>2 DEF Fits

-----------------------------------------------------------------------------
(* The handlers: what a request does to the database and to the answer.      *)

\* the database is in order; stealth mode has no context sources
Good(b, d) == Shaped(d) /\ Resolved(Pg!Schema, d) /\ (b = "sqlite" => Ids(d, "contexts") = {})
CatalogInv == backend \in Backends \cap {"pg", "sqlite"} /\ Good(backend, db) /\ TwinsAgree
\* where SQLite is used, every connection of its pool enforces foreign keys
ForeignKeysOn == "sqlite" \in Backends => Pooled \subseteq {TRUE}

\* the action of HonestReply
HonestStep ==
  ~Walking /\ (db' # db \/ reply' # reply) =>
    LET t == reply'.table
    IN  /\ reply'.status >= 400 => db' = db
        /\ reply'.status = 201 =>
             /\ Cardinality(Ids(db', t)) = Cardinality(Ids(db, t)) + reply'.asked
             /\ \A u \in Tables : \A i \in Ids(db, u) : i \in Ids(db', u) /\ db'.tab[u][i] = db.tab[u][i]
             /\ \A u \in Tables \ {t} : Ids(db', u) = Ids(db, u)
        /\ reply'.status = 204 => reply'.gone \cap Ids(db', t) = {}

Statuses == {200, 201, 204, 400, 404, 422, 500, 502}
Truthful(status, t, asked, rows, d) ==
    /\ status >= 400 => d = db
    /\ status = 201 => Grown(d, db, t, asked)
    /\ status = 204 => DOMAIN rows \cap Ids(d, t) = {}

\* An answer that tells the truth about the database it leaves behind.
LEMMA RespondStep ==
    ASSUME CatalogInv, NEW status \in Statuses, NEW t, NEW asked, NEW rows, NEW d, NEW twin,
           Respond(status, t, asked, rows, d, twin), Good(backend, d), Truthful(status, t, asked, rows, d),
           twin = "same" \/ (twin = "answer" /\ status = 500)
    PROVE  CatalogInv' /\ HonestStep
<1>1. db' = d /\ backend' = backend /\ reply = NoReply
    BY DEF Respond
<1>2. Good(backend', db')
    BY <1>1
<1>3. CASE Walking
  <2>1. reply' = NoReply
      BY <1>3 DEF Respond
  <2> QED  BY <1>1, <1>2, <1>3, <2>1 DEF CatalogInv, TwinsAgree, NoReply, HonestStep
<1>4. CASE ~Walking /\ status = 201
  <2> DEFINE a == [NoReply EXCEPT !.status = 201, !.twin = twin, !.table = t, !.asked = asked]
  <2>1. reply' = a
      BY <1>4 DEF Respond
  <2>2. a.status = 201 /\ a.twin = twin /\ a.table = t /\ a.asked = asked
      BY DEF NoReply
  <2> HIDE DEF a
  <2>3. TwinsAgree'
      BY <1>4, <2>1, <2>2 DEF TwinsAgree
  <2>4. Grown(db', db, t, asked)
      BY <1>1, <1>4 DEF Truthful
  <2>5. HonestStep
      BY <2>1, <2>2, <2>4 DEF HonestStep, Grown
  <2> QED  BY <1>1, <1>2, <2>3, <2>5 DEF CatalogInv
<1>5. CASE ~Walking /\ status = 204
  <2> DEFINE a == [NoReply EXCEPT !.status = 204, !.twin = twin, !.table = t, !.gone = DOMAIN rows]
  <2>1. reply' = a
      BY <1>5 DEF Respond
  <2>2. a.status = 204 /\ a.twin = twin /\ a.table = t /\ a.gone = DOMAIN rows
      BY DEF NoReply
  <2> HIDE DEF a
  <2>3. TwinsAgree'
      BY <1>5, <2>1, <2>2 DEF TwinsAgree
  <2>4. DOMAIN rows \cap Ids(db', t) = {}
      BY <1>1, <1>5 DEF Truthful
  <2>5. HonestStep
      BY <2>1, <2>2, <2>4 DEF HonestStep
  <2> QED  BY <1>1, <1>2, <2>3, <2>5 DEF CatalogInv
<1>6. CASE ~Walking /\ status \notin {201, 204}
  <2> DEFINE a == [NoReply EXCEPT !.status = status, !.twin = twin]
  <2>1. reply' = a
      BY <1>6 DEF Respond
  <2>2. a.status = status /\ a.twin = twin
      BY DEF NoReply
  <2> HIDE DEF a
  <2>3. TwinsAgree'
      BY <1>6, <2>1, <2>2 DEF TwinsAgree
  <2>4. reply'.status >= 400 => db' = db
      BY <1>1, <2>1, <2>2 DEF Truthful
  <2>5. HonestStep
      BY <1>6, <2>1, <2>2, <2>4 DEF HonestStep
  <2> QED  BY <1>1, <1>2, <2>3, <2>5 DEF CatalogInv
<1> QED  BY <1>3, <1>4, <1>5, <1>6

\* An answer without a change.
LEMMA PlainStep ==
    ASSUME CatalogInv, NEW status \in Statuses \ {201, 204}, NEW t, NEW asked,
           Respond(status, t, asked, NoRows, db, "same")
    PROVE  CatalogInv' /\ HonestStep
<1>1. Good(backend, db) /\ Truthful(status, t, asked, NoRows, db)
    BY DEF CatalogInv, Truthful
<1> QED  BY <1>1, RespondStep

\* The two stores do the same to what both of them have, or the server's fails.
Alike(pg, lite, bad) ==
    /\ \A u \in Tables \ {"contexts"} : pg.db.tab[u] = lite.db.tab[u]
    /\ (pg.err = lite.err /\ pg.rows = lite.rows) \/ (pg.err = TRUE /\ bad = 500)

\* What a handler may rely on of the store it calls.
Suits(t, pg, lite, ok, bad, asked) ==
    /\ backend = "pg" => /\ Fits(Pg!Schema, pg, db, t, ok, asked)
                         /\ t \in NotInStealth \/ Alike(pg, lite, bad)
    /\ backend = "sqlite" => Fits(Pg!Schema, lite, db, t, ok, asked) /\ Ids(lite.db, "contexts") = {}

\* A handler whose store call does what it should tells the truth.
LEMMA AnswerStep ==
    ASSUME CatalogInv, NEW t, NEW pg, NEW lite, NEW ok \in {200, 201, 204}, NEW bad \in {404, 500}, NEW asked,
           Answer(t, pg, lite, ok, bad, asked), Suits(t, pg, lite, ok, bad, asked)
    PROVE  CatalogInv' /\ HonestStep
<1> DEFINE r == Pick(pg, lite)
           status == IF r.err THEN bad ELSE ok
           twin == IF t \in NotInStealth THEN "same" ELSE Compare(pg, lite)
<1>1. CASE Respond(bad, t, asked, NoRows, db, "same")
  <2>1. bad \in Statuses \ {201, 204}
      BY DEF Statuses
  <2> QED  BY <1>1, <2>1, PlainStep
<1>2. CASE Respond(status, t, asked, r.rows, r.db, twin)
  <2>1. Fits(Pg!Schema, r, db, t, ok, asked) /\ (backend = "sqlite" => Ids(r.db, "contexts") = {})
      BY DEF CatalogInv, Suits, Pick
  <2>2. r.err \in BOOLEAN /\ status \in Statuses
      BY <2>1 DEF Fits, Statuses
  <2>3. twin = "same" \/ (twin = "answer" /\ status = 500)
    <3>1. CASE t \in NotInStealth \/ backend # "pg"
        BY <3>1, Zenon DEF Compare
    <3>2. CASE t \notin NotInStealth /\ backend = "pg"
      <4>1. Alike(pg, lite, bad) /\ r = pg
          BY <3>2 DEF Suits, Pick
      <4>2. twin = IF pg.err = lite.err /\ pg.rows = lite.rows THEN "same" ELSE "answer"
          BY <3>2, <4>1 DEF Compare, Alike
      <4> QED  BY <4>1, <4>2 DEF Alike
    <3> QED  BY <3>1, <3>2
  <2> HIDE DEF r, twin
  <2>4. Good(backend, r.db)
      BY <2>1 DEF Fits, CatalogInv, Good
  <2>5. Truthful(status, t, asked, r.rows, r.db)
      BY <2>1 DEF Fits, Truthful
  <2> HIDE DEF status
  <2> QED  BY <1>2, <2>2, <2>3, <2>4, <2>5, RespondStep
<1> QED  BY <1>1, <1>2 DEF Answer

\* The same with a validation before the call.
LEMMA HandleStep ==
    ASSUME CatalogInv, NEW t, NEW valid, NEW pg, NEW lite, NEW ok \in {200, 201, 204}, NEW bad \in {404, 500},
           Handle(t, valid, pg, lite, ok, bad), Suits(t, pg, lite, ok, bad, 1)
    PROVE  CatalogInv' /\ HonestStep
<1>1. CASE Answer(t, pg, lite, ok, bad, 1)
    BY <1>1, AnswerStep
<1>2. CASE Refuse(t)
    BY <1>2, PlainStep DEF Refuse, Statuses
<1> QED  BY <1>1, <1>2, Zenon DEF Handle

CatalogTables == Tables \ {"contexts"}

\* Calls that do the same in both stores.
LEMMA SameSuits ==
    ASSUME CatalogInv, NEW t, NEW pg, NEW lite, NEW ok, NEW bad, NEW asked,
           Fits(Pg!Schema, pg, db, t, ok, asked), pg = lite,
           backend = "sqlite" => Ids(pg.db, "contexts") = {}
    PROVE  Suits(t, pg, lite, ok, bad, asked)
<1>1. Alike(pg, lite, bad)
    BY DEF Alike
<1> QED  BY <1>1 DEF Suits

LEMMA InOrder == CatalogInv => Shaped(db) /\ Resolved(Pg!Schema, db) /\ (backend = "sqlite" => Ids(db, "contexts") = {})
BY DEF CatalogInv, Good

LEMMA NoContexts ==
    ASSUME CatalogInv, NEW t, t # "contexts", NEW ok, NEW n, NEW r, Fits(Pg!Schema, r, db, t, ok, n), backend = "sqlite"
    PROVE  Ids(r.db, "contexts") = {}
BY InOrder DEF Fits

\* A schema that differs from the server's in context sources alone.
Twin(schema) == \A t \in CatalogTables : schema[t] = Pg!Schema[t]

LEMMA LiteTwin == ASSUME NEW fk, fk = TRUE PROVE Twin(Lite!Schema(fk))
BY LiteSchema DEF Twin, CatalogTables

LEMMA SameRow ==
    ASSUME NEW s, Twin(s), NEW t \in CatalogTables, NEW e, NEW i, NEW row
    PROVE  RowAllowed(s, e, t, i, row) <=> RowAllowed(Pg!Schema, e, t, i, row)
<1>1. s[t] = Pg!Schema[t]
    BY DEF Twin
<1> QED  BY <1>1, Zenon DEF RowAllowed
LEMMA SameInsert ==
    ASSUME NEW s, Twin(s), NEW d, NEW t \in CatalogTables, NEW row
    PROVE  Insert(s, d, t, row) = Insert(Pg!Schema, d, t, row)
BY SameRow, Zenon DEF Insert
LEMMA SameInsertAll ==
    ASSUME NEW s, Twin(s), NEW d, NEW t \in CatalogTables, NEW rows
    PROVE  InsertAll(s, d, t, rows) = InsertAll(Pg!Schema, d, t, rows)
BY SameRow, Zenon DEF InsertAll
LEMMA SameUpdate ==
    ASSUME NEW s, Twin(s), NEW d, NEW t \in CatalogTables, NEW id, NEW cols
    PROVE  Update(s, d, t, id, cols) = Update(Pg!Schema, d, t, id, cols)
BY SameRow, Zenon DEF Update

\* On a connection that enforces foreign keys the two stores do the same, statement by statement.
LEMMA CreateSuits ==
    ASSUME CatalogInv, NEW fk, fk = TRUE, NEW t \in CatalogTables, NEW row, NEW bad
    PROVE  Suits(t, Pg!Insert(Pg!Schema, db, t, row), Lite!Insert(Lite!Schema(fk), db, t, row), 201, bad, 1)
<1> DEFINE r == Insert(Pg!Schema, db, t, row)
<1>1. t \in Tables /\ t # "contexts"
    BY DEF CatalogTables
<1>2. Fits(Pg!Schema, r, db, t, 201, 1)
    BY <1>1, InOrder, PgShallow, InsertFits
<1>3. Insert(Lite!Schema(fk), db, t, row) = r
    BY LiteTwin, SameInsert
<1> HIDE DEF r
<1>4. backend = "sqlite" => Ids(r.db, "contexts") = {}
    BY <1>1, <1>2, NoContexts
<1>5. Suits(t, r, r, 201, bad, 1)
    BY <1>2, <1>4, SameSuits
<1> QED  BY <1>3, <1>5, PgInsert, LiteInsert, Zenon DEF r

LEMMA CreateAllSuits ==
    ASSUME CatalogInv, NEW fk, fk = TRUE, NEW t \in CatalogTables, NEW rows, Len(rows) \in Nat, NEW bad
    PROVE  Suits(t, Pg!InsertAll(Pg!Schema, db, t, rows), Lite!InsertAll(Lite!Schema(fk), db, t, rows), 201, bad, Len(rows))
<1> DEFINE r == InsertAll(Pg!Schema, db, t, rows)
<1>1. t \in Tables /\ t # "contexts"
    BY DEF CatalogTables
<1>2. Fits(Pg!Schema, r, db, t, 201, Len(rows))
    BY <1>1, InOrder, PgShallow, InsertAllFits
<1>3. InsertAll(Lite!Schema(fk), db, t, rows) = r
    BY LiteTwin, SameInsertAll
<1> HIDE DEF r
<1>4. backend = "sqlite" => Ids(r.db, "contexts") = {}
    BY <1>1, <1>2, NoContexts
<1>5. Suits(t, r, r, 201, bad, Len(rows))
    BY <1>2, <1>4, SameSuits
<1> QED  BY <1>3, <1>5, PgInsertAll, LiteInsertAll, Zenon DEF r

LEMMA UpdateSuits ==
    ASSUME CatalogInv, NEW fk, fk = TRUE, NEW t \in CatalogTables, NEW id, NEW cols, NEW bad
    PROVE  Suits(t, Pg!Update(Pg!Schema, db, t, id, cols), Lite!Update(Lite!Schema(fk), db, t, id, cols), 200, bad, 1)
<1> DEFINE r == Update(Pg!Schema, db, t, id, cols)
<1>1. t \in Tables /\ t # "contexts"
    BY DEF CatalogTables
<1>2. Fits(Pg!Schema, r, db, t, 200, 1)
    BY <1>1, InOrder, PgShallow, UpdateFits
<1>3. Update(Lite!Schema(fk), db, t, id, cols) = r
  <2> DEFINE s == Lite!Schema(fk)
  <2>1. Twin(s)
      BY LiteTwin
  <2> HIDE DEF s
  <2>2. Update(s, db, t, id, cols) = Update(Pg!Schema, db, t, id, cols)
      BY <2>1, SameUpdate
  <2> QED  BY <2>2 DEF s
<1> HIDE DEF r
<1>4. backend = "sqlite" => Ids(r.db, "contexts") = {}
    BY <1>1, <1>2, NoContexts
<1>5. Suits(t, r, r, 200, bad, 1)
    BY <1>2, <1>4, SameSuits
<1> QED  BY <1>3, <1>5, PgUpdate, LiteUpdate, Zenon DEF r

LEMMA GetSuits ==
    ASSUME CatalogInv, NEW t, t # "contexts", NEW id, NEW bad
    PROVE  Suits(t, Pg!Get(db, t, id), Lite!Get(db, t, id), 200, bad, 1)
<1> DEFINE r == Get(db, t, id)
<1>1. Fits(Pg!Schema, r, db, t, 200, 1)
    BY InOrder, GetFits
<1> HIDE DEF r
<1>2. backend = "sqlite" => Ids(r.db, "contexts") = {}
    BY <1>1, NoContexts
<1>3. Suits(t, r, r, 200, bad, 1)
    BY <1>1, <1>2, SameSuits
<1> QED  BY <1>3, PgGet, LiteGet, Zenon DEF r

\* What stealth mode has only a stub for.
LEMMA StubSuits ==
    ASSUME CatalogInv, NEW t \in NotInStealth, NEW pg, NEW ok, NEW bad, NEW asked,
           Fits(Pg!Schema, pg, db, t, ok, asked)
    PROVE  Suits(t, pg, Lite!NotImplemented(db), ok, bad, asked)
<1>1. Lite!NotImplemented(db) = Failed(db)
    BY LiteFailed
<1>2. Fits(Pg!Schema, Failed(db), db, t, ok, asked)
    BY FailedFits
<1>3. Failed(db).db = db
    BY DEF Failed
<1> QED  BY <1>1, <1>2, <1>3, InOrder DEF Suits

\* A cascade takes the same rows with it, but for context sources.
LEMMA SameCascade ==
    ASSUME NEW s, Twin(s), NEW d, NEW g, NEW h, \A u \in CatalogTables : g[u] = h[u], NEW u \in CatalogTables
    PROVE  Cascade(Pg!Schema, d, g)[u] = Cascade(s, d, h)[u]
<1>1. s[u] = Pg!Schema[u]
    BY DEF Twin
<1>2. u \in Tables
    BY DEF CatalogTables
<1>3. \A ref \in Pg!Schema[u].refs : g[ref.table] = h[ref.table]
    BY <1>2, PgShallow DEF Shallow, CatalogTables, Tables
<1>4. Cascade(Pg!Schema, d, g)[u] = g[u] \cup {i \in Ids(d, u) : \E ref \in Pg!Schema[u].refs : d.tab[u][i][ref.col] \in g[ref.table]}
    BY <1>2 DEF Cascade
<1>5. Cascade(s, d, h)[u] = h[u] \cup {i \in Ids(d, u) : \E ref \in s[u].refs : d.tab[u][i][ref.col] \in h[ref.table]}
    BY <1>2 DEF Cascade
<1>6. {i \in Ids(d, u) : \E ref \in Pg!Schema[u].refs : d.tab[u][i][ref.col] \in g[ref.table]} =
      {i \in Ids(d, u) : \E ref \in s[u].refs : d.tab[u][i][ref.col] \in h[ref.table]}
    BY <1>1, <1>3
<1> QED  BY <1>4, <1>5, <1>6

Left(schema, d, t, ids) == Cascade(schema, d, Cascade(schema, d, [u \in Tables |-> IF u = t THEN ids ELSE {}]))

Deletion(r, schema, d, t, ids) ==
    /\ r.err = FALSE /\ r.rows = [i \in ids \cap Ids(d, t) |-> d.tab[t][i]]
    /\ \A u \in Tables : r.db.tab[u] = [i \in Ids(d, u) \ Left(schema, d, t, ids)[u] |-> d.tab[u][i]]

LEMMA DeleteIs ==
    ASSUME NEW schema, NEW d, Shaped(d), NEW t, NEW ids
    PROVE  Deletion(Delete(schema, d, t, ids), schema, d, t, ids)
<1> DEFINE r == Delete(schema, d, t, ids)
           Rest(u) == [i \in Ids(d, u) \ Left(schema, d, t, ids)[u] |-> d.tab[u][i]]
           e == [d EXCEPT !.tab = [u \in Tables |-> Rest(u)]]
           rows == [i \in ids \cap Ids(d, t) |-> d.tab[t][i]]
<1>1. r = [err |-> FALSE, db |-> e, rows |-> rows]
    BY Zenon DEF Delete, Left
<1>2. r.err = FALSE /\ r.db = e /\ r.rows = rows
    BY <1>1
<1> HIDE DEF r
<1>3. e.tab = [u \in Tables |-> Rest(u)]
    BY DEF Shaped
<1>4. \A u \in Tables : r.db.tab[u] = Rest(u)
    BY <1>2, <1>3
<1> QED  BY <1>2, <1>4, Zenon DEF r, Deletion

LEMMA SameDelete ==
    ASSUME NEW s, Twin(s), NEW d, Shaped(d), NEW t \in CatalogTables, NEW ids, NEW bad
    PROVE  /\ Alike(Delete(Pg!Schema, d, t, ids), Delete(s, d, t, ids), bad)
           /\ Alike(DeleteExisting(Pg!Schema, d, t, ids), DeleteExisting(s, d, t, ids), bad)
<1> DEFINE p == Delete(Pg!Schema, d, t, ids)
           l == Delete(s, d, t, ids)
           g == [u \in Tables |-> IF u = t THEN ids ELSE {}]
<1>1. \A u \in CatalogTables : Left(Pg!Schema, d, t, ids)[u] = Left(s, d, t, ids)[u]
  <2> DEFINE a == Cascade(Pg!Schema, d, g)
             b == Cascade(s, d, g)
  <2> HIDE DEF g
  <2>1. \A u \in CatalogTables : a[u] = b[u]
      BY SameCascade
  <2> HIDE DEF a, b
  <2>2. \A u \in CatalogTables : Cascade(Pg!Schema, d, a)[u] = Cascade(s, d, b)[u]
      BY <2>1, SameCascade
  <2> QED  BY <2>2, Zenon DEF Left, a, b, g
<1>2. Deletion(p, Pg!Schema, d, t, ids) /\ Deletion(l, s, d, t, ids)
    BY DeleteIs
<1> HIDE DEF p, l, g
<1>3. \A u \in Tables \ {"contexts"} : p.db.tab[u] = l.db.tab[u]
  <2> SUFFICES ASSUME NEW u \in Tables \ {"contexts"} PROVE p.db.tab[u] = l.db.tab[u]
      OBVIOUS
  <2>1. u \in CatalogTables /\ u \in Tables
      BY DEF CatalogTables
  <2> DEFINE x == Left(Pg!Schema, d, t, ids)[u]
             y == Left(s, d, t, ids)[u]
  <2>2. x = y
      BY <1>1, <2>1, Zenon
  <2>3. p.db.tab[u] = [i \in Ids(d, u) \ x |-> d.tab[u][i]] /\ l.db.tab[u] = [i \in Ids(d, u) \ y |-> d.tab[u][i]]
      BY <1>2, <2>1, Zenon DEF Deletion
  <2> HIDE DEF x, y
  <2> QED  BY <2>2, <2>3, Zenon
<1>4. Alike(p, l, bad)
    BY <1>2, <1>3, Zenon DEF Alike, Deletion
<1>5. Alike(Failed(d), Failed(d), bad)
    BY Zenon DEF Alike
<1>6. \/ DeleteExisting(Pg!Schema, d, t, ids) = Failed(d) /\ DeleteExisting(s, d, t, ids) = Failed(d)
      \/ DeleteExisting(Pg!Schema, d, t, ids) = p /\ DeleteExisting(s, d, t, ids) = l
    BY Zenon DEF DeleteExisting, p, l
<1>7. Alike(DeleteExisting(Pg!Schema, d, t, ids), DeleteExisting(s, d, t, ids), bad)
    BY <1>4, <1>5, <1>6, Zenon
<1> QED  BY <1>4, <1>7, Zenon DEF p, l

LEMMA LiteDeleteFits ==
    ASSUME CatalogInv, NEW fk, fk = TRUE, NEW t \in CatalogTables, NEW ids, NEW n, backend = "sqlite"
    PROVE  /\ Fits(Pg!Schema, Delete(Lite!Schema(fk), db, t, ids), db, t, 204, n)
           /\ Ids(Delete(Lite!Schema(fk), db, t, ids).db, "contexts") = {}
           /\ Fits(Pg!Schema, DeleteExisting(Lite!Schema(fk), db, t, ids), db, t, 204, n)
           /\ Ids(DeleteExisting(Lite!Schema(fk), db, t, ids).db, "contexts") = {}
<1> DEFINE s == Lite!Schema(fk)
<1>1. t \in Tables /\ t # "contexts"
    BY DEF CatalogTables
<1>2. Shallow(s) /\ Resolved(s, db) /\ Shaped(db) /\ Ids(db, "contexts") = {}
    BY LiteShallow, LiteResolved, InOrder
<1>3. \A r : Fits(s, r, db, t, 204, n) => Fits(Pg!Schema, r, db, t, 204, n) /\ Ids(r.db, "contexts") = {}
    BY <1>1, <1>2, LiteFits
<1> HIDE DEF s
<1>4. Fits(s, Delete(s, db, t, ids), db, t, 204, n) /\ Fits(s, DeleteExisting(s, db, t, ids), db, t, 204, n)
    BY <1>1, <1>2, DeleteFits, DeleteExistingFits
<1> QED  BY <1>3, <1>4, Zenon DEF s

LEMMA DeleteSuits ==
    ASSUME CatalogInv, NEW fk, fk = TRUE, NEW t \in CatalogTables, NEW ids, NEW bad, NEW n
    PROVE  Suits(t, Pg!DeleteExisting(Pg!Schema, db, t, ids), Lite!DeleteExisting(Lite!Schema(fk), db, t, ids), 204, bad, n)
<1> DEFINE s == Lite!Schema(fk)
           p == DeleteExisting(Pg!Schema, db, t, ids)
           l == DeleteExisting(s, db, t, ids)
<1>1. t \in Tables /\ Shaped(db)
    BY InOrder DEF CatalogTables
<1>2. Fits(Pg!Schema, p, db, t, 204, n)
    BY <1>1, InOrder, PgShallow, DeleteExistingFits
<1>3. Twin(s)
    BY LiteTwin
<1>4. backend = "sqlite" => Fits(Pg!Schema, l, db, t, 204, n) /\ Ids(l.db, "contexts") = {}
    BY LiteDeleteFits
<1> HIDE DEF s
<1>5. Alike(p, l, bad)
    BY <1>1, <1>3, SameDelete
<1> HIDE DEF p, l
<1>6. Suits(t, p, l, 204, bad, n)
    BY <1>2, <1>4, <1>5 DEF Suits
<1> QED  BY <1>6, PgDelete, LiteDeleteExisting, Zenon DEF p, l, s

\* Subscriptions that do not exist take nothing with them.
LEMMA DeleteNone ==
    ASSUME NEW s, Shallow(s), NEW d, Shaped(d), NEW ids, ids \cap Ids(d, "subs") = {}, NEW u \in Tables
    PROVE  Delete(s, d, "subs", ids).db.tab[u] = d.tab[u]
<1> DEFINE g == [v \in Tables |-> IF v = "subs" THEN ids ELSE {}]
           first == Cascade(s, d, g)
           left == Left(s, d, "subs", ids)
<1>1. \A v \in Tables : first[v] = g[v]
  <2> SUFFICES ASSUME NEW v \in Tables PROVE first[v] = g[v]
      OBVIOUS
  <2>1. \A ref \in s[v].refs : g[ref.table] = {}
      BY DEF Shallow, Tables
  <2> HIDE DEF g
  <2>2. first[v] = g[v] \cup {i \in Ids(d, v) : \E ref \in s[v].refs : d.tab[v][i][ref.col] \in g[ref.table]}
      BY DEF Cascade
  <2> HIDE DEF first
  <2> QED  BY <2>1, <2>2
<1>2. left = Cascade(s, d, first)
    BY Zenon DEF Left
<1> HIDE DEF first
<1>3. \A v \in Tables : left[v] = g[v]
  <2> SUFFICES ASSUME NEW v \in Tables PROVE left[v] = g[v]
      OBVIOUS
  <2>1. \A ref \in s[v].refs : first[ref.table] = {}
      BY <1>1 DEF Shallow, Tables
  <2>2. left[v] = first[v] \cup {i \in Ids(d, v) : \E ref \in s[v].refs : d.tab[v][i][ref.col] \in first[ref.table]}
      BY <1>2 DEF Cascade
  <2> HIDE DEF left, g
  <2> QED  BY <1>1, <2>1, <2>2
<1>4. Ids(d, u) \ left[u] = Ids(d, u)
  <2>1. g[u] \cap Ids(d, u) = {}
      OBVIOUS
  <2> HIDE DEF g, left
  <2> QED  BY <1>3, <2>1
<1>5. Delete(s, d, "subs", ids).db.tab[u] = [i \in Ids(d, u) \ left[u] |-> d.tab[u][i]]
  <2> DEFINE r == Delete(s, d, "subs", ids)
  <2>1. Deletion(r, s, d, "subs", ids)
      BY DeleteIs
  <2> HIDE DEF r
  <2>2. r.db.tab[u] = [i \in Ids(d, u) \ left[u] |-> d.tab[u][i]]
      BY <2>1, Zenon DEF Deletion
  <2> QED  BY <2>2 DEF r
<1>6. d.tab[u] = [i \in Ids(d, u) |-> d.tab[u][i]]
    BY DEF Shaped, IsTable, Ids
<1> HIDE DEF left
<1> QED  BY <1>4, <1>5, <1>6, Zenon

\* A batch delete of unknown ids is the one call the stores answer differently.
LEMMA DeleteBatchSuits ==
    ASSUME CatalogInv, NEW fk, fk = TRUE, NEW ids, NEW n
    PROVE  Suits("subs", Pg!DeleteExisting(Pg!Schema, db, "subs", ids), Lite!Delete(Lite!Schema(fk), db, "subs", ids), 204, 500, n)
<1> DEFINE s == Lite!Schema(fk)
           t == "subs"
           p == DeleteExisting(Pg!Schema, db, t, ids)
           l == Delete(s, db, t, ids)
<1>1. t \in Tables /\ t \in CatalogTables /\ Shaped(db)
    BY InOrder DEF Tables, CatalogTables
<1>2. Fits(Pg!Schema, p, db, t, 204, n)
  <2> HIDE DEF t
  <2> QED  BY <1>1, InOrder, PgShallow, DeleteExistingFits
<1>3. Twin(s) /\ Shallow(s)
    BY LiteTwin, LiteShallow
<1>4. backend = "sqlite" => Fits(Pg!Schema, l, db, t, 204, n) /\ Ids(l.db, "contexts") = {}
  <2> HIDE DEF t
  <2> QED  BY <1>1, LiteDeleteFits
<1> HIDE DEF s
<1>5. Alike(p, l, 500)
  <2>1. CASE ids \cap Ids(db, t) = {}
    <3>1. p = Failed(db)
        BY <2>1, Zenon DEF DeleteExisting
    <3>2. Failed(db).err = TRUE /\ Failed(db).db = db
        BY DEF Failed
    <3>3. \A u \in Tables : l.db.tab[u] = db.tab[u]
        BY <1>1, <1>3, <2>1, DeleteNone
    <3> HIDE DEF p, l
    <3> QED  BY <3>1, <3>2, <3>3 DEF Alike
  <2>2. CASE ids \cap Ids(db, t) # {}
    <3>1. p = Delete(Pg!Schema, db, t, ids)
        BY <2>2, Zenon DEF DeleteExisting
    <3> HIDE DEF t
    <3>2. Alike(Delete(Pg!Schema, db, t, ids), l, 500)
        BY <1>1, <1>3, SameDelete
    <3> QED  BY <3>1, <3>2, Zenon
  <2> QED  BY <2>1, <2>2
<1> HIDE DEF p, l
<1>6. Suits(t, p, l, 204, 500, n)
    BY <1>2, <1>4, <1>5 DEF Suits
<1> QED  BY <1>6, PgDelete, LiteDelete, Zenon DEF p, l, s

\* A handler that creates, updates, deletes or reads a row of either store keeps the
\* invariant and answers truthfully; so does one that stealth mode has a stub for.
LEMMA CreateStep ==
    ASSUME CatalogInv, NEW fk, fk = TRUE, NEW t \in CatalogTables, NEW row, NEW valid,
           Handle(t, valid, Pg!Insert(Pg!Schema, db, t, row), Lite!Insert(Lite!Schema(fk), db, t, row), 201, 500)
    PROVE  CatalogInv' /\ HonestStep
<1> DEFINE pg == Pg!Insert(Pg!Schema, db, t, row)
           lite == Lite!Insert(Lite!Schema(fk), db, t, row)
<1>1. Suits(t, pg, lite, 201, 500, 1)
    BY CreateSuits
<1>2. Handle(t, valid, pg, lite, 201, 500)
    OBVIOUS
<1> HIDE DEF pg, lite
<1> QED  BY <1>1, <1>2, HandleStep

LEMMA UpdateStep ==
    ASSUME CatalogInv, NEW fk, fk = TRUE, NEW t \in CatalogTables, NEW id, NEW cols, NEW valid,
           Handle(t, valid, Pg!Update(Pg!Schema, db, t, id, cols), Lite!Update(Lite!Schema(fk), db, t, id, cols), 200, 404)
    PROVE  CatalogInv' /\ HonestStep
<1> DEFINE pg == Pg!Update(Pg!Schema, db, t, id, cols)
           lite == Lite!Update(Lite!Schema(fk), db, t, id, cols)
<1>1. Suits(t, pg, lite, 200, 404, 1)
    BY UpdateSuits
<1>2. Handle(t, valid, pg, lite, 200, 404)
    OBVIOUS
<1> HIDE DEF pg, lite
<1> QED  BY <1>1, <1>2, HandleStep

LEMMA DeleteStep ==
    ASSUME CatalogInv, NEW fk, fk = TRUE, NEW t \in CatalogTables, NEW id,
           Answer(t, Pg!DeleteExisting(Pg!Schema, db, t, {id}), Lite!DeleteExisting(Lite!Schema(fk), db, t, {id}), 204, 404, 1)
    PROVE  CatalogInv' /\ HonestStep
<1> DEFINE pg == Pg!DeleteExisting(Pg!Schema, db, t, {id})
           lite == Lite!DeleteExisting(Lite!Schema(fk), db, t, {id})
<1>1. Suits(t, pg, lite, 204, 404, 1)
    BY DeleteSuits
<1>2. Answer(t, pg, lite, 204, 404, 1)
    OBVIOUS
<1> HIDE DEF pg, lite
<1> QED  BY <1>1, <1>2, AnswerStep

LEMMA GetStep ==
    ASSUME CatalogInv, NEW t, t # "contexts", NEW id, Answer(t, Pg!Get(db, t, id), Lite!Get(db, t, id), 200, 404, 1)
    PROVE  CatalogInv' /\ HonestStep
BY GetSuits, AnswerStep

LEMMA StubStep ==
    ASSUME CatalogInv, NEW t \in NotInStealth, NEW pg, NEW ok \in {200, 201, 204}, NEW bad \in {404, 500}, NEW asked,
           NEW valid,
           Answer(t, pg, Lite!NotImplemented(db), ok, bad, asked) \/
             (asked = 1 /\ Handle(t, valid, pg, Lite!NotImplemented(db), ok, bad)),
           Fits(Pg!Schema, pg, db, t, ok, asked)
    PROVE  CatalogInv' /\ HonestStep
<1> DEFINE lite == Lite!NotImplemented(db)
<1>1. Suits(t, pg, lite, ok, bad, asked)
    BY StubSuits
<1> HIDE DEF lite
<1>2. CASE Answer(t, pg, lite, ok, bad, asked)
    BY <1>1, <1>2, AnswerStep
<1>3. CASE asked = 1 /\ Handle(t, valid, pg, lite, ok, bad)
  <2>1. Suits(t, pg, lite, ok, bad, 1) /\ Handle(t, valid, pg, lite, ok, bad)
      BY <1>1, <1>3
  <2> QED  BY <2>1, HandleStep
<1> QED  BY <1>2, <1>3 DEF lite

LEMMA InCatalog == {"projects", "sources", "channels", "subs"} \subseteq CatalogTables
BY DEF CatalogTables, Tables

\* The handlers, table by table.
LEMMA ProjectsStep ==
    ASSUME CatalogInv, NEW fk, fk = TRUE, NEW id, NEW name,
           \/ ProjectsCreate(fk, name) \/ ProjectsGet(id)
           \/ ProjectsUpdate(fk, id, name) \/ ProjectsDelete(fk, id)
    PROVE  CatalogInv' /\ HonestStep
<1> USE InCatalog
<1>1. CASE ProjectsCreate(fk, name)
    BY <1>1, CreateStep DEF ProjectsCreate, Pg!CreateProject, Lite!CreateProject
<1>2. CASE ProjectsGet(id)
    BY <1>2, GetStep DEF ProjectsGet, Pg!GetProject, Lite!GetProject
<1>3. CASE ProjectsUpdate(fk, id, name)
    BY <1>3, UpdateStep DEF ProjectsUpdate, Pg!UpdateProject, Lite!UpdateProject
<1>4. CASE ProjectsDelete(fk, id)
    BY <1>4, DeleteStep DEF ProjectsDelete, Pg!DeleteProject, Lite!DeleteProject
<1> QED  BY <1>1, <1>2, <1>3, <1>4

LEMMA ChannelsStep ==
    ASSUME CatalogInv, NEW fk, fk = TRUE, NEW id, NEW type,
           \/ ChannelsCreate(fk, type) \/ ChannelsGet(id) \/ ChannelsTest(id)
           \/ ChannelsUpdate(fk, id, type) \/ ChannelsDelete(fk, id)
    PROVE  CatalogInv' /\ HonestStep
<1> USE InCatalog
<1>1. CASE ChannelsCreate(fk, type)
    BY <1>1, CreateStep DEF ChannelsCreate, Pg!CreateChannel, Lite!CreateChannel
<1>2. CASE ChannelsGet(id)
    BY <1>2, GetStep DEF ChannelsGet, Pg!GetChannel, Lite!GetChannel
<1>3. CASE ChannelsUpdate(fk, id, type)
    BY <1>3, UpdateStep DEF ChannelsUpdate, Pg!UpdateChannel, Lite!UpdateChannel
<1>4. CASE ChannelsDelete(fk, id)
    BY <1>4, DeleteStep DEF ChannelsDelete, Pg!DeleteChannel, Lite!DeleteChannel
<1>5. CASE ChannelsTest(id)
  <2>1. \E status \in {404, 422, 200, 502} : Respond(status, "channels", 1, NoRows, db, "same")
    <3> DEFINE r == Pick(Pg!GetChannel(db, id), Lite!GetChannel(db, id))
               Test(status) == Respond(status, "channels", 1, NoRows, db, "same")
    <3>1. CASE r.err
        BY <1>5, <3>1 DEF ChannelsTest
    <3>2. CASE ~r.err /\ r.rows[id].type \notin Senders
        BY <1>5, <3>2, Zenon DEF ChannelsTest, Refuse
    <3>3. CASE ~r.err /\ r.rows[id].type \in Senders
        BY <1>5, <3>3 DEF ChannelsTest
    <3> QED  BY <3>1, <3>2, <3>3
  <2> QED  BY <2>1, PlainStep DEF Statuses
<1> QED  BY <1>1, <1>2, <1>3, <1>4, <1>5

LEMMA SourcesStep ==
    ASSUME CatalogInv, NEW fk, fk = TRUE, NEW id, NEW project, NEW repo, NEW enabled,
           \/ SourcesCreate(fk, project, repo, enabled) \/ SourcesGet(id)
           \/ SourcesUpdate(fk, id, repo, enabled) \/ SourcesDelete(fk, id)
    PROVE  CatalogInv' /\ HonestStep
<1> USE InCatalog
<1>1. CASE SourcesCreate(fk, project, repo, enabled)
    BY <1>1, CreateStep DEF SourcesCreate, Pg!CreateSource, Lite!CreateSource
<1>2. CASE SourcesGet(id)
  <2>1. Lite!GetSource(db, id) = Lite!Get(db, "sources", id)
      BY Zenon DEF Lite!GetSource, Lite!Get, Lite!scanSource
  <2> QED  BY <1>2, <2>1, GetStep DEF SourcesGet, Pg!GetSource
<1>3. CASE SourcesUpdate(fk, id, repo, enabled)
    BY <1>3, UpdateStep DEF SourcesUpdate, Pg!UpdateSource, Lite!UpdateSource
<1>4. CASE SourcesDelete(fk, id)
    BY <1>4, DeleteStep DEF SourcesDelete, Pg!DeleteSource, Lite!DeleteSource
<1> QED  BY <1>1, <1>2, <1>3, <1>4

LEMMA SubscriptionsStep ==
    ASSUME CatalogInv, NEW fk, fk = TRUE, NEW id, NEW sub,
           \/ SubscriptionsCreate(fk, sub) \/ SubscriptionsGet(id)
           \/ SubscriptionsUpdate(fk, id, sub) \/ SubscriptionsDelete(fk, id)
    PROVE  CatalogInv' /\ HonestStep
<1> USE InCatalog
<1>1. CASE SubscriptionsCreate(fk, sub)
    BY <1>1, CreateStep DEF SubscriptionsCreate, Pg!CreateSubscription, Lite!CreateSubscription
<1>2. CASE SubscriptionsGet(id)
    BY <1>2, GetStep DEF SubscriptionsGet, Pg!GetSubscription, Lite!GetSubscription
<1>3. CASE SubscriptionsUpdate(fk, id, sub)
    BY <1>3, UpdateStep DEF SubscriptionsUpdate, Pg!UpdateSubscription, Lite!UpdateSubscription
<1>4. CASE SubscriptionsDelete(fk, id)
    BY <1>4, DeleteStep DEF SubscriptionsDelete, Pg!DeleteSubscription, Lite!DeleteSubscription
<1> QED  BY <1>1, <1>2, <1>3, <1>4

LEMMA ContextsStep ==
    ASSUME CatalogInv, NEW id, NEW project, NEW type,
           \/ ContextSourcesCreate(project, type) \/ ContextSourcesGet(id)
           \/ ContextSourcesUpdate(id, type) \/ ContextSourcesDelete(id)
    PROVE  CatalogInv' /\ HonestStep
<1>1. "contexts" \in Tables /\ "contexts" \in NotInStealth
    BY DEF Tables, NotInStealth
<1>2. Shaped(db) /\ Resolved(Pg!Schema, db) /\ Shallow(Pg!Schema)
    BY InOrder, PgShallow
<1>3. CASE ContextSourcesCreate(project, type)
  <2> DEFINE pg == Pg!CreateContextSource(db, [project |-> project, type |-> type])
  <2>1. Fits(Pg!Schema, pg, db, "contexts", 201, 1)
      BY <1>1, <1>2, PgInsert, InsertFits DEF Pg!CreateContextSource
  <2>2. Handle("contexts", type # Blank, pg, Lite!NotImplemented(db), 201, 500)
      BY <1>3 DEF ContextSourcesCreate
  <2> HIDE DEF pg
  <2> QED  BY <1>1, <2>1, <2>2, StubStep
<1>4. CASE ContextSourcesGet(id)
  <2> DEFINE pg == Pg!GetContextSource(db, id)
  <2>1. Fits(Pg!Schema, pg, db, "contexts", 200, 1)
      BY <1>2, PgGet, GetFits DEF Pg!GetContextSource
  <2>2. Answer("contexts", pg, Lite!NotImplemented(db), 200, 404, 1)
      BY <1>4 DEF ContextSourcesGet
  <2> HIDE DEF pg
  <2> QED  BY <1>1, <2>1, <2>2, StubStep
<1>5. CASE ContextSourcesUpdate(id, type)
  <2> DEFINE pg == Pg!UpdateContextSource(db, id, [type |-> type])
  <2>1. Fits(Pg!Schema, pg, db, "contexts", 200, 1)
      BY <1>1, <1>2, PgUpdate, UpdateFits DEF Pg!UpdateContextSource
  <2>2. Handle("contexts", type # Blank, pg, Lite!NotImplemented(db), 200, 404)
      BY <1>5 DEF ContextSourcesUpdate
  <2> HIDE DEF pg
  <2> QED  BY <1>1, <2>1, <2>2, StubStep
<1>6. CASE ContextSourcesDelete(id)
  <2> DEFINE pg == Pg!DeleteContextSource(db, id)
  <2>1. Fits(Pg!Schema, pg, db, "contexts", 204, 1)
      BY <1>1, <1>2, PgDelete, DeleteExistingFits DEF Pg!DeleteContextSource
  <2>2. Answer("contexts", pg, Lite!NotImplemented(db), 204, 404, 1)
      BY <1>6 DEF ContextSourcesDelete
  <2> HIDE DEF pg
  <2> QED  BY <1>1, <2>1, <2>2, StubStep
<1> QED  BY <1>3, <1>4, <1>5, <1>6

LEMMA BatchCreateStep ==
    ASSUME CatalogInv, NEW fk, fk = TRUE, NEW channel, NEW type, NEW n \in Nat, NEW S, NEW ids \in [1..n -> S],
           SubscriptionsBatchCreate(fk, channel, type, ids)
    PROVE  CatalogInv' /\ HonestStep
<1> DEFINE Sub(i) == [channel |-> channel, type |-> type, source |-> IF type = "source_release" THEN ids[i] ELSE NULL,
                      project |-> IF type = "semantic_release" THEN ids[i] ELSE NULL]
           subs == [i \in DOMAIN ids |-> Sub(i)]
           pg == Pg!CreateSubscriptionBatch(db, subs)
           lite == Lite!CreateSubscriptionBatch(fk, db, subs)
<1>1. \/ Refuse("subs")
      \/ Answer("subs", pg, lite, 201, 500, Len(ids))
    BY Zenon DEF SubscriptionsBatchCreate
<1>2. Len(subs) = n /\ Len(ids) = n
  <2>1. subs \in [1..n -> {Sub(i) : i \in 1..n}]
      OBVIOUS
  <2> HIDE DEF subs
  <2> QED  BY <2>1, LenOf
<1>3. CASE Refuse("subs")
    BY <1>3, PlainStep DEF Refuse, Statuses
<1>4. CASE Answer("subs", pg, lite, 201, 500, Len(ids))
  <2> HIDE DEF subs
  <2>1. Suits("subs", pg, lite, 201, 500, Len(subs))
      BY <1>2, InCatalog, CreateAllSuits DEF Pg!CreateSubscriptionBatch, Lite!CreateSubscriptionBatch
  <2> HIDE DEF pg, lite
  <2> QED  BY <1>2, <1>4, <2>1, AnswerStep
<1> QED  BY <1>1, <1>3, <1>4

LEMMA BatchDeleteStep ==
    ASSUME CatalogInv, NEW fk, fk = TRUE, NEW ids, SubscriptionsBatchDelete(fk, ids)
    PROVE  CatalogInv' /\ HonestStep
<1> DEFINE pg == Pg!DeleteSubscriptionBatch(db, ids)
           lite == Lite!DeleteSubscriptionBatch(fk, db, ids)
<1>1. Refuse("subs") \/ Answer("subs", pg, lite, 204, 500, Cardinality(ids))
    BY Zenon DEF SubscriptionsBatchDelete
<1>2. Suits("subs", pg, lite, 204, 500, Cardinality(ids))
    BY DeleteBatchSuits DEF Pg!DeleteSubscriptionBatch, Lite!DeleteSubscriptionBatch
<1> HIDE DEF pg, lite
<1>3. CASE Refuse("subs")
    BY <1>3, PlainStep DEF Refuse, Statuses
<1>4. CASE Answer("subs", pg, lite, 204, 500, Cardinality(ids))
    BY <1>2, <1>4, AnswerStep
<1> QED  BY <1>1, <1>3, <1>4

\* POST /onboard/scans/{id}/apply
LEMMA ApplyStep ==
    ASSUME CatalogInv, NEW n \in Nat, NEW S, NEW sels \in [1..n -> S], OnboardApply(sels)
    PROVE  CatalogInv' /\ HonestStep
<1> DEFINE pg == Pg!ApplyOnboardScan(db, sels)
<1>1. \/ Respond(400, "scans", 0, NoRows, db, "same")
      \/ Answer("scans", pg, Lite!NotImplemented(db), 200, 500, 0)
    BY Zenon DEF OnboardApply
<1>2. Fits(Pg!Schema, pg, db, "scans", 200, 0)
    BY InOrder, ApplyFits
<1>3. "scans" \in NotInStealth
    BY DEF NotInStealth
<1> HIDE DEF pg
<1>4. CASE Respond(400, "scans", 0, NoRows, db, "same")
    BY <1>4, PlainStep DEF Statuses
<1>5. CASE Answer("scans", pg, Lite!NotImplemented(db), 200, 500, 0)
    BY <1>2, <1>3, <1>5, StubStep
<1> QED  BY <1>1, <1>4, <1>5

LEMMA ShortLists == ASSUME NEW S, NEW ids \in Lists2(S) PROVE \E n \in Nat : ids \in [1..n -> S]
<1>1. CASE ids = <<>>
  <2>1. ids \in [1..0 -> S]
      BY <1>1
  <2> QED  BY <2>1
<1>2. CASE \E i \in S : ids = <<i>>
  <2>1. ids \in [1..1 -> S]
      BY <1>2
  <2> QED  BY <2>1
<1>3. CASE \E i, j \in S : ids = <<i, j>>
  <2>1. ids \in [1..2 -> S]
      BY <1>3
  <2> QED  BY <2>1
<1> QED  BY <1>1, <1>2, <1>3 DEF Lists2

LEMMA SomeSelections == ASSUME NEW sels \in Selections PROVE \E n \in Nat : \E S : sels \in [1..n -> S]
<1> DEFINE one == [project : Known("projects") \cup {NULL}, name : Names \cup {NULL}, repo : Repos]
           most == (MaxNext - db.next) \div 2
<1>1. PICK n \in 0..Min({2, most}) : sels \in [1..n -> one]
    BY DEF Selections
<1> HIDE DEF one, most
<1>2. n \in Nat
    OBVIOUS
<1> QED  BY <1>1, <1>2

\* Reading, and an answer that goes out.
LEMMA ReadStep ==
    ASSUME CatalogInv,
           \/ Sent \/ CountRows \/ ListStep
           \/ \E list, of, asked : Open(list, of, asked)
    PROVE  CatalogInv' /\ HonestStep
<1>1. UNCHANGED <<backend, db>>
    BY DEF Sent, CountRows, ListStep, Open, Page, ProjectsList, SourcesListAll, SourcesList, ContextSourcesList, ChannelsList,
       SubscriptionsList
<1>2. reply' = reply \/ reply' = NoReply
    BY DEF Sent, CountRows, ListStep, Open, Page, ProjectsList, SourcesListAll, SourcesList, ContextSourcesList, ChannelsList,
       SubscriptionsList
<1>3. TwinsAgree' /\ HonestStep
    BY <1>1, <1>2 DEF CatalogInv, TwinsAgree, HonestStep, NoReply
<1> QED  BY <1>1, <1>3 DEF CatalogInv, Good

LEMMA CatalogBegins == CatalogInit => CatalogInv
<1> SUFFICES ASSUME CatalogInit PROVE CatalogInv
    OBVIOUS
<1>1. DOMAIN db = {"tab", "next"} /\ db.next = 1 /\ DOMAIN db.tab = Tables /\ \A t \in Tables : db.tab[t] = NoRows
    BY DEF CatalogInit, EmptyDb
<1>2. DOMAIN NoRows = {} /\ IsTable(NoRows)
    BY DEF NoRows, IsTable
<1>3. \A t \in Tables : Ids(db, t) = {}
    BY <1>1, <1>2 DEF Ids
<1>4. Shaped(db) /\ Resolved(Pg!Schema, db)
    BY <1>1, <1>2, <1>3 DEF Shaped, Resolved
<1>5. Good(backend, db)
    BY <1>3, <1>4 DEF Good, Tables
<1>6. TwinsAgree
    BY DEF CatalogInit, NoReply, TwinsAgree
<1> QED  BY <1>5, <1>6, CatalogAssumption DEF CatalogInit, CatalogInv

\* Every step of the handlers.
LEMMA CatalogStep ==
    ASSUME CatalogInv, ForeignKeysOn, CatalogNext
    PROVE  CatalogInv' /\ HonestStep
<1>1. CASE \E fk \in IF backend = "pg" THEN {TRUE} ELSE Pooled :
       \/ /\ Takes({"projects", "sources", "contexts", "subs"})
          /\ \/ \E name \in Names \cup {Blank} : ProjectsCreate(fk, name)
             \/ \E name \in {"renamed", Blank}, id \in Known("projects") : ProjectsUpdate(fk, id, name)
             \/ \E id \in Known("projects") : ProjectsDelete(fk, id)
             \/ \E sels \in Selections : OnboardApply(sels)
       \/ /\ Takes({"sources", "subs"})
          /\ \/ \E repo \in Repos \cup {Blank}, on \in BOOLEAN :
                  \/ \E project \in Known("projects") : SourcesCreate(fk, project, repo, on)
                  \/ \E id \in Known("sources") : SourcesUpdate(fk, id, repo, on)
             \/ \E id \in Known("sources") : SourcesDelete(fk, id)
       \/ /\ Takes({"channels", "subs"})
          /\ \/ \E type \in Senders \cup {"other", Blank} :
                  ChannelsCreate(fk, type) \/ \E id \in Known("channels") : ChannelsUpdate(fk, id, type)
             \/ \E id \in Known("channels") : ChannelsDelete(fk, id)
       \/ /\ Takes({"subs"})
          /\ \/ \E sub \in SubInputs : SubscriptionsCreate(fk, sub) \/ \E id \in Known("subs") : SubscriptionsUpdate(fk, id, sub)
             \/ \E id \in Known("subs") : SubscriptionsDelete(fk, id)
             \/ \E channel \in Known("channels") \cup {NULL}, type \in SubTypes :
                  \E ids \in Lists2(Known(IF type = "source_release" THEN "sources" ELSE "projects")) :
                    SubscriptionsBatchCreate(fk, channel, type, ids)
             \/ \E ids \in SUBSET Known("subs") : SubscriptionsBatchDelete(fk, ids)
  <2> PICK fk \in IF backend = "pg" THEN {TRUE} ELSE Pooled :
         \/ \E name : ProjectsCreate(fk, name)
         \/ \E name, id : ProjectsUpdate(fk, id, name)
         \/ \E id : ProjectsDelete(fk, id)
         \/ \E sels \in Selections : OnboardApply(sels)
         \/ \E project, repo, on : SourcesCreate(fk, project, repo, on)
         \/ \E id, repo, on : SourcesUpdate(fk, id, repo, on)
         \/ \E id : SourcesDelete(fk, id)
         \/ \E type : ChannelsCreate(fk, type)
         \/ \E id, type : ChannelsUpdate(fk, id, type)
         \/ \E id : ChannelsDelete(fk, id)
         \/ \E sub : SubscriptionsCreate(fk, sub)
         \/ \E id, sub : SubscriptionsUpdate(fk, id, sub)
         \/ \E id : SubscriptionsDelete(fk, id)
         \/ \E channel, type, S : \E ids \in Lists2(S) : SubscriptionsBatchCreate(fk, channel, type, ids)
         \/ \E ids : SubscriptionsBatchDelete(fk, ids)
      BY <1>1, ZenonT(60)
  <2>1. fk = TRUE
      BY DEF ForeignKeysOn, CatalogInv
  <2>2. CASE \/ \E name : ProjectsCreate(fk, name)
             \/ \E name, id : ProjectsUpdate(fk, id, name)
             \/ \E id : ProjectsDelete(fk, id)
      BY <2>1, <2>2, ProjectsStep
  <2>3. CASE \/ \E project, repo, on : SourcesCreate(fk, project, repo, on)
             \/ \E id, repo, on : SourcesUpdate(fk, id, repo, on)
             \/ \E id : SourcesDelete(fk, id)
      BY <2>1, <2>3, SourcesStep
  <2>4. CASE \/ \E type : ChannelsCreate(fk, type)
             \/ \E id, type : ChannelsUpdate(fk, id, type)
             \/ \E id : ChannelsDelete(fk, id)
      BY <2>1, <2>4, ChannelsStep
  <2>5. CASE \/ \E sub : SubscriptionsCreate(fk, sub)
             \/ \E id, sub : SubscriptionsUpdate(fk, id, sub)
             \/ \E id : SubscriptionsDelete(fk, id)
      BY <2>1, <2>5, SubscriptionsStep
  <2>6. CASE \E channel, type, S : \E ids \in Lists2(S) : SubscriptionsBatchCreate(fk, channel, type, ids)
      BY <2>1, <2>6, ShortLists, BatchCreateStep
  <2>7. CASE \E ids : SubscriptionsBatchDelete(fk, ids)
      BY <2>1, <2>7, BatchDeleteStep
  <2>8. CASE \E sels \in Selections : OnboardApply(sels)
      BY <2>8, SomeSelections, ApplyStep
  <2> QED  BY <2>2, <2>3, <2>4, <2>5, <2>6, <2>7, <2>8
<1>2. CASE \/ \E id : ContextSourcesDelete(id)
           \/ \E project, type : ContextSourcesCreate(project, type)
           \/ \E id, type : ContextSourcesUpdate(id, type)
           \/ \E id : ContextSourcesGet(id)
    BY <1>2, ContextsStep
<1>3. CASE \E id : ProjectsGet(id) \/ SourcesGet(id) \/ ChannelsGet(id) \/ ChannelsTest(id) \/ SubscriptionsGet(id)
  <2> DEFINE fk == TRUE
  <2>1. fk = TRUE
      OBVIOUS
  <2> HIDE DEF fk
  <2> QED  BY <1>3, <2>1, ProjectsStep, SourcesStep, ChannelsStep, SubscriptionsStep
<1>4. CASE \/ Sent \/ CountRows \/ ListStep
           \/ \E list, of, asked : Open(list, of, asked)
    BY <1>4, ReadStep
<1> QED  BY <1>1, <1>2, <1>3, <1>4, ZenonT(60) DEF CatalogNext

LEMMA CatalogInvariant == ForeignKeysOn => (CatalogSpec => []CatalogInv /\ [][HonestStep]_catalogVars)
<1> SUFFICES ASSUME ForeignKeysOn PROVE CatalogSpec => []CatalogInv /\ [][HonestStep]_catalogVars
    OBVIOUS
<1>1. CatalogInit => CatalogInv
    BY CatalogBegins
<1>2. CatalogInv /\ [CatalogNext]_catalogVars => CatalogInv' /\ [HonestStep]_catalogVars
  <2>1. CASE CatalogNext
      BY <2>1, CatalogStep
  <2>2. CASE UNCHANGED catalogVars
      BY <2>2 DEF catalogVars, CatalogInv, Good, TwinsAgree
  <2> QED  BY <2>1, <2>2
<1> QED  BY <1>1, <1>2, PTL DEF CatalogSpec

\* Every reference of a stored row resolves, whatever the handlers create, update and
\* delete in whatever order, over PostgreSQL, and over SQLite as long as every
\* connection of its pool enforces foreign keys (the first one alone is told to).
THEOREM CatalogResolved == ForeignKeysOn => (CatalogSpec => []NoDangling)
<1>1. CatalogInv => NoDangling
    BY DEF CatalogInv, Good, Resolved, Linked, NoDangling
<1> QED  BY <1>1, CatalogInvariant, PTL

\* Under the same condition stealth mode's store does what the server's does to every
\* table both have, and answers the same but for a batch delete of unknown ids.
THEOREM CatalogTwins == ForeignKeysOn => (CatalogSpec => []TwinsAgree)
<1>1. CatalogInv => TwinsAgree
    BY DEF CatalogInv
<1> QED  BY <1>1, CatalogInvariant, PTL

\* Under the same condition an answer tells what happened: an error changed nothing,
\* 201 added what was asked for and nothing else, after 204 the rows are gone.
THEOREM CatalogHonest == ForeignKeysOn => (CatalogSpec => HonestReply)
BY CatalogInvariant, PTL DEF HonestReply, HonestStep

-----------------------------------------------------------------------------
(* The pages of a list.  A client asks for page after page until one is not    *)
(* full; rows of equal created_at come in any order, so a page may show any of *)
(* them at the places that they share.                                         *)

\* Some element of a set has the least of the numbers f gives them.
LEMMA Least ==
    ASSUME NEW P, P # {}, NEW f \in [P -> Nat]
    PROVE  \E i \in P : \A j \in P : f[i] <= f[j]
<1> DEFINE T == {f[i] : i \in P}
           R == OpToRel(<, Nat)
<1>1. T \subseteq Nat /\ T # {} /\ IsWellFoundedOn(R, Nat)
    BY NatLessThanWellFounded
<1> HIDE DEF T, R
<1>2. PICK x \in T : \A y \in T : ~(<<y, x>> \in R)
    BY <1>1, WFMin
<1>3. \A y \in T : ~(y < x)
  <2> SUFFICES ASSUME NEW y \in T, y < x PROVE FALSE
      OBVIOUS
  <2>1. <<y, x>> \in R
      BY <1>1 DEF R, OpToRel
  <2> QED  BY <1>2, <2>1
<1>4. \A y \in T : x <= y
    BY <1>1, <1>3
<1> QED  BY <1>4 DEF T

\* Lists in order of numbers k gives their elements, some of them the same.
Prior(k, ids, i) == {j \in ids : k[j] < k[i]}
Level(k, ids, i) == {j \in ids : k[j] = k[i]}
\* how many of the first x elements are at lo .. hi - 1
Cut(x, lo, hi) == IF x <= lo THEN 0 ELSE IF x >= hi THEN hi - lo ELSE x - lo

\* Those before i and those along with i are disjoint parts of the list.
LEMMA PriorCounts ==
    ASSUME NEW ids, IsFiniteSet(ids), NEW k \in [ids -> Int], NEW i \in ids
    PROVE  LET p == Prior(k, ids, i)
               l == Level(k, ids, i)
           IN  /\ p \subseteq ids /\ l \subseteq ids /\ i \in l /\ p \cap l = {} /\ IsFiniteSet(p) /\ IsFiniteSet(l)
               /\ Cardinality(p) \in Nat /\ Cardinality(l) \in Nat \ {0} /\ Cardinality(ids) \in Nat
               /\ Cardinality(p \cup l) = Cardinality(p) + Cardinality(l)
               /\ Cardinality(p) + Cardinality(l) <= Cardinality(ids)
<1> DEFINE p == Prior(k, ids, i)
           l == Level(k, ids, i)
<1>1. p \subseteq ids /\ l \subseteq ids /\ i \in l /\ p \cap l = {}
    BY DEF Prior, Level
<1> HIDE DEF p, l
<1>2. IsFiniteSet(p) /\ IsFiniteSet(l)
    BY <1>1, FS_Subset
<1>3. Cardinality(p) \in Nat /\ Cardinality(l) \in Nat /\ Cardinality(ids) \in Nat /\ Cardinality(l) # 0
    BY <1>1, <1>2, FS_CardinalityType, FS_EmptySet
<1>4. Cardinality(p \cup l) = Cardinality(p) + Cardinality(l)
    BY <1>1, <1>2, DisjointUnion
<1>5. p \cup l \subseteq ids
    BY <1>1
<1>6. Cardinality(p \cup l) <= Cardinality(ids)
    BY <1>5, FS_Subset
<1> QED  BY <1>1, <1>2, <1>3, <1>4, <1>6 DEF p, l

\* Who comes later has more before it.
LEMMA PriorGrows ==
    ASSUME NEW ids, IsFiniteSet(ids), NEW k \in [ids -> Int], NEW i \in ids, NEW j \in ids, k[j] < k[i]
    PROVE  /\ Prior(k, ids, j) \cup Level(k, ids, j) \subseteq Prior(k, ids, i)
           /\ Cardinality(Prior(k, ids, j)) + Cardinality(Level(k, ids, j)) <= Cardinality(Prior(k, ids, i))
<1> DEFINE a == Prior(k, ids, j) \cup Level(k, ids, j)
           b == Prior(k, ids, i)
<1>1. a \subseteq b
    BY DEF Prior, Level
<1>2. IsFiniteSet(b)
    BY PriorCounts
<1> HIDE DEF a, b
<1>3. Cardinality(a) <= Cardinality(b)
    BY <1>1, <1>2, FS_Subset
<1>4. Cardinality(a) = Cardinality(Prior(k, ids, j)) + Cardinality(Level(k, ids, j))
    BY PriorCounts DEF a
<1>5. Cardinality(Prior(k, ids, j)) + Cardinality(Level(k, ids, j)) <= Cardinality(b)
    BY <1>3, <1>4
<1> QED  BY <1>1, <1>5, Zenon DEF a, b

\* Among the elements of P some come last.
LEMMA LastOf ==
    ASSUME NEW ids, IsFiniteSet(ids), NEW k \in [ids -> Int], NEW P, P \subseteq ids, P # {}
    PROVE  \E i \in P : \A j \in P : k[j] <= k[i]
<1> DEFINE f == [i \in P |-> Cardinality(ids) - Cardinality(Prior(k, ids, i))]
<1>1. f \in [P -> Nat]
  <2> SUFFICES ASSUME NEW i \in P PROVE Cardinality(ids) - Cardinality(Prior(k, ids, i)) \in Nat
      OBVIOUS
  <2> DEFINE p == Cardinality(Prior(k, ids, i))
             l == Cardinality(Level(k, ids, i))
  <2>1. i \in ids
      OBVIOUS
  <2>2. p \in Nat /\ l \in Nat \ {0} /\ Cardinality(ids) \in Nat /\ p + l <= Cardinality(ids)
      BY <2>1, PriorCounts
  <2> HIDE DEF p, l
  <2>3. Cardinality(ids) - p \in Nat
      BY <2>2
  <2> QED  BY <2>3 DEF p
<1>2. \A i \in P : f[i] = Cardinality(ids) - Cardinality(Prior(k, ids, i))
    OBVIOUS
<1> HIDE DEF f
<1>3. PICK i \in P : \A j \in P : f[i] <= f[j]
    BY <1>1, Least
<1>4. ASSUME NEW j \in P, k[i] < k[j] PROVE FALSE
  <2>1. Cardinality(Prior(k, ids, i)) + Cardinality(Level(k, ids, i)) <= Cardinality(Prior(k, ids, j))
      BY <1>4, PriorGrows
  <2>2. f[i] <= f[j]
      BY <1>3
  <2>3. /\ Cardinality(Prior(k, ids, i)) \in Nat /\ Cardinality(Level(k, ids, i)) \in Nat \ {0}
        /\ Cardinality(Prior(k, ids, j)) \in Nat /\ Cardinality(ids) \in Nat
      BY PriorCounts
  <2> QED  BY <1>2, <2>1, <2>2, <2>3
<1> QED  BY <1>4

Shares(S, k, ids, lo, hi) ==
  \A i \in ids : Cardinality(S \cap Level(k, ids, i)) =
    Cut(Cardinality(Prior(k, ids, i)) + Cardinality(Level(k, ids, i)), lo, hi) - Cut(Cardinality(Prior(k, ids, i)), lo, hi)

\* A set that has its share of every level has as many elements as fit: those of
\* the places lo .. hi - 1.
LEMMA SharesAddUp ==
    ASSUME NEW ids, IsFiniteSet(ids), NEW k \in [ids -> Int], NEW lo \in Nat, NEW hi \in Nat, lo <= hi,
           NEW S, S \subseteq ids, Shares(S, k, ids, lo, hi)
    PROVE  Cardinality(S) = Cut(Cardinality(ids), lo, hi)
<1> DEFINE UpTo(i) == Prior(k, ids, i) \cup Level(k, ids, i)
           Fair(T) == Cardinality(S \cap T) = Cut(Cardinality(T), lo, hi)
           Bad == {i \in ids : ~Fair(UpTo(i))}
<1>0. Fair({})
  <2>1. S \cap {} = {} /\ Cardinality({}) = 0
      BY FS_EmptySet
  <2> QED  BY <2>1 DEF Cut
<1>1. ASSUME NEW i \in ids, Fair(Prior(k, ids, i)) PROVE Fair(UpTo(i))
  <2> DEFINE p == Prior(k, ids, i)
             l == Level(k, ids, i)
  <2>1. p \cap l = {} /\ IsFiniteSet(p) /\ IsFiniteSet(l) /\ Cardinality(p \cup l) = Cardinality(p) + Cardinality(l)
      BY PriorCounts
  <2>2. Cardinality(S \cap l) = Cut(Cardinality(p) + Cardinality(l), lo, hi) - Cut(Cardinality(p), lo, hi)
        /\ Cardinality(p) \in Nat /\ Cardinality(l) \in Nat
      BY PriorCounts DEF Shares
  <2>3. Cardinality(S \cap p) = Cut(Cardinality(p), lo, hi)
      BY <1>1
  <2> HIDE DEF p, l
  <2>4. IsFiniteSet(S \cap p) /\ IsFiniteSet(S \cap l) /\ (S \cap p) \cap (S \cap l) = {}
        /\ S \cap (p \cup l) = (S \cap p) \cup (S \cap l)
    <3>1. S \cap p \subseteq p /\ S \cap l \subseteq l
        OBVIOUS
    <3> QED  BY <2>1, <3>1, FS_Subset
  <2>5. Cardinality(S \cap (p \cup l)) = Cardinality(S \cap p) + Cardinality(S \cap l)
      BY <2>4, DisjointUnion
  <2>6. Cardinality(S \cap (p \cup l)) = Cut(Cardinality(p \cup l), lo, hi)
      BY <2>1, <2>2, <2>3, <2>5 DEF Cut
  <2> QED  BY <2>6 DEF p, l
<1>2. \A i \in ids : Fair(UpTo(i))
  <2> SUFFICES ASSUME Bad # {} PROVE FALSE
      OBVIOUS
  <2> DEFINE f == [i \in Bad |-> Cardinality(Prior(k, ids, i))]
  <2>1. f \in [Bad -> Nat]
    <3> SUFFICES ASSUME NEW i \in Bad PROVE Cardinality(Prior(k, ids, i)) \in Nat
        OBVIOUS
    <3> QED  BY PriorCounts
  <2>2. (\A i \in Bad : f[i] = Cardinality(Prior(k, ids, i))) /\ \A i : i \in Bad <=> i \in ids /\ ~Fair(UpTo(i))
      OBVIOUS
  <2> HIDE DEF f, Bad, Fair
  <2>3. PICK i \in Bad : \A j \in Bad : f[i] <= f[j]
      BY <2>1, Least
  <2>4. i \in ids /\ ~Fair(UpTo(i))
      BY <2>2
  <2>5. CASE Prior(k, ids, i) = {}
      BY <1>0, <1>1, <2>4, <2>5
  <2>6. CASE Prior(k, ids, i) # {}
    <3>1. Prior(k, ids, i) \subseteq ids
        BY DEF Prior
    <3>2. PICK j \in Prior(k, ids, i) : \A m \in Prior(k, ids, i) : k[m] <= k[j]
        BY <2>6, <3>1, LastOf
    <3>3. j \in ids /\ k[j] < k[i]
        BY DEF Prior
    <3>4. UpTo(j) = Prior(k, ids, i)
      <4>1. UpTo(j) \subseteq Prior(k, ids, i)
          BY <2>4, <3>3, PriorGrows
      <4>2. ASSUME NEW m \in Prior(k, ids, i) PROVE m \in UpTo(j)
        <5>1. m \in ids /\ k[m] <= k[j] /\ k[m] \in Int /\ k[j] \in Int
            BY <3>1, <3>2, <3>3
        <5> QED  BY <5>1 DEF Prior, Level
      <4> QED  BY <4>1, <4>2
    <3>5. j \notin Bad
      <4>1. Cardinality(Prior(k, ids, j)) + Cardinality(Level(k, ids, j)) <= Cardinality(Prior(k, ids, i))
          BY <2>4, <3>3, PriorGrows
      <4>2. Cardinality(Prior(k, ids, j)) \in Nat /\ Cardinality(Level(k, ids, j)) \in Nat \ {0}
            /\ Cardinality(Prior(k, ids, i)) \in Nat
          BY <2>4, <3>3, PriorCounts
      <4> QED  BY <2>2, <2>3, <4>1, <4>2
    <3>6. Fair(Prior(k, ids, i))
        BY <2>2, <3>3, <3>4, <3>5
    <3> QED  BY <1>1, <2>4, <3>6
  <2> QED  BY <2>5, <2>6
<1>3. Fair(ids)
  <2>1. CASE ids = {}
      BY <1>0, <2>1
  <2>2. CASE ids # {}
    <3>1. PICK i \in ids : \A j \in ids : k[j] <= k[i]
        BY <2>2, LastOf
    <3>2. UpTo(i) = ids
      <4>1. \A j \in ids : k[j] \in Int /\ k[j] <= k[i]
          BY <3>1
      <4> QED  BY <4>1 DEF Prior, Level
    <3> HIDE DEF Fair, UpTo
    <3>3. Fair(UpTo(i))
        BY <1>2
    <3> QED  BY <3>2, <3>3
  <2> QED  BY <2>1, <2>2
<1>4. S \cap ids = S
    OBVIOUS
<1> QED  BY <1>3, <1>4

\* the rows of ids that come before i, and no other row comes with i
Before(d, t, ids, newest, i) ==
  {j \in ids : IF newest THEN d.tab[t][j].at > d.tab[t][i].at ELSE d.tab[t][j].at < d.tab[t][i].at}
Single(d, t, ids, i) == \A j \in ids \ {i} : d.tab[t][j].at # d.tab[t][i].at
Order(d, t, ids, newest) == [i \in ids |-> IF newest THEN -d.tab[t][i].at ELSE d.tab[t][i].at]

\* A page has the rows at its places: those alone at their time one by one, and it
\* is not full only when the list ends on it.
LEMMA PageHas ==
    ASSUME NEW d, NEW t, NEW ids, Timed(d, t, ids), NEW newest \in BOOLEAN, NEW page, NEW per \in Nat \ {0},
           (page - 1) * per \in Nat, NEW S \in PageOf(d, t, ids, newest, page, per)
    PROVE  /\ S \subseteq ids
           /\ \A i \in ids : Single(d, t, ids, i) /\ (page - 1) * per <= Cardinality(Before(d, t, ids, newest, i))
                             /\ Cardinality(Before(d, t, ids, newest, i)) < (page - 1) * per + per => i \in S
           /\ Cardinality(S) # per => \A i \in ids : Cardinality(Before(d, t, ids, newest, i)) < (page - 1) * per + per
<1> DEFINE lo == (page - 1) * per
           k == Order(d, t, ids, newest)
           At(i) == d.tab[t][i].at
           Tied(i) == {j \in ids : At(j) = At(i)}
           First(i) == Cardinality({j \in ids : IF newest THEN At(j) > At(i) ELSE At(j) < At(i)})
           Share(i) == LET b == First(i)
                           e == b + Cardinality(Tied(i))
                       IN  Max({0, Min({e, lo + per}) - Max({b, lo})})
<1>1. S \in {X \in SUBSET ids : \A i \in ids : Cardinality(X \cap Tied(i)) = Share(i)}
    BY Zenon DEF PageOf
<1>2. S \subseteq ids /\ \A i \in ids : Cardinality(S \cap Tied(i)) = Share(i)
    BY <1>1
<1>3. IsFiniteSet(ids) /\ \A i \in ids : At(i) \in Nat
    BY DEF Timed
<1>4. k \in [ids -> Int] /\ \A i \in ids : k[i] = IF newest THEN -At(i) ELSE At(i)
    BY <1>3 DEF Order
<1>5. ASSUME NEW i \in ids
      PROVE  Tied(i) = Level(k, ids, i) /\ Before(d, t, ids, newest, i) = Prior(k, ids, i)
             /\ First(i) = Cardinality(Prior(k, ids, i))
  <2>1. \A j \in ids : k[j] = k[i] <=> At(j) = At(i)
      BY <1>3, <1>4
  <2>2. \A j \in ids : k[j] < k[i] <=> IF newest THEN At(j) > At(i) ELSE At(j) < At(i)
      BY <1>3, <1>4
  <2> HIDE DEF k, At
  <2>3. Tied(i) = Level(k, ids, i)
      BY <2>1 DEF Level
  <2>4. {j \in ids : IF newest THEN At(j) > At(i) ELSE At(j) < At(i)} = Prior(k, ids, i)
      BY <2>2, Zenon DEF Prior
  <2>5. Before(d, t, ids, newest, i) = {j \in ids : IF newest THEN At(j) > At(i) ELSE At(j) < At(i)}
      BY Zenon DEF Before, At
  <2> QED  BY <2>3, <2>4, <2>5, Zenon
<1>6. \A i \in ids : Share(i) = Max({0, Min({First(i) + Cardinality(Tied(i)), lo + per}) - Max({First(i), lo})})
    OBVIOUS
<1> HIDE DEF k, Tied, First, Share, At, lo
<1>7. lo \in Nat /\ lo + per \in Nat /\ lo <= lo + per
    BY DEF lo
<1>8. ASSUME NEW i \in ids
      PROVE  Cardinality(S \cap Level(k, ids, i)) =
               Cut(Cardinality(Prior(k, ids, i)) + Cardinality(Level(k, ids, i)), lo, lo + per)
                 - Cut(Cardinality(Prior(k, ids, i)), lo, lo + per)
  <2> DEFINE b == Cardinality(Prior(k, ids, i))
             c == Cardinality(Level(k, ids, i))
  <2>1. b \in Nat /\ c \in Nat
      BY <1>3, <1>4, PriorCounts
  <2>2. Share(i) = Max({0, Min({b + c, lo + per}) - Max({b, lo})})
      BY <1>5, <1>6
  <2> HIDE DEF b, c
  <2> DEFINE x == Min({b + c, lo + per})
             y == Max({b, lo})
  <2>3. x = (IF b + c <= lo + per THEN b + c ELSE lo + per) /\ y = IF b >= lo THEN b ELSE lo
      BY <1>7, <2>1, MinOfTwo, MaxOfTwo
  <2>5. Share(i) = Max({0, x - y})
      BY <2>2
  <2> HIDE DEF x, y
  <2>6. x - y \in Int
      BY <1>7, <2>1, <2>3
  <2>7. Share(i) = IF 0 >= x - y THEN 0 ELSE x - y
      BY <2>5, <2>6, MaxOfTwo
  <2>8. Share(i) = Cut(b + c, lo, lo + per) - Cut(b, lo, lo + per)
      BY <1>7, <2>1, <2>3, <2>7 DEF Cut
  <2>4. Cardinality(S \cap Level(k, ids, i)) = Share(i)
      BY <1>2, <1>5
  <2> QED  BY <2>8, <2>4 DEF b, c
<1>9. Cardinality(S) = Cut(Cardinality(ids), lo, lo + per)
  <2> DEFINE hi == lo + per
  <2>1. hi \in Nat /\ lo <= hi
      BY <1>7
  <2>2. Shares(S, k, ids, lo, hi)
      BY <1>8 DEF Shares
  <2> HIDE DEF hi
  <2>3. Cardinality(S) = Cut(Cardinality(ids), lo, hi)
      BY <1>2, <1>3, <1>4, <1>7, <2>1, <2>2, SharesAddUp
  <2> QED  BY <2>3 DEF hi
<1>10. ASSUME NEW i \in ids PROVE Cardinality(Before(d, t, ids, newest, i)) \in Nat
                                  /\ Cardinality(Before(d, t, ids, newest, i)) < Cardinality(ids)
  <2> DEFINE b == Cardinality(Prior(k, ids, i))
             c == Cardinality(Level(k, ids, i))
  <2>1. b \in Nat /\ c \in Nat \ {0} /\ b + c <= Cardinality(ids) /\ Cardinality(ids) \in Nat
      BY <1>3, <1>4, PriorCounts
  <2>2. Cardinality(Before(d, t, ids, newest, i)) = b
      BY <1>5
  <2> HIDE DEF b, c
  <2> QED  BY <2>1, <2>2
<1>11. ASSUME NEW i \in ids, Single(d, t, ids, i), lo <= Cardinality(Before(d, t, ids, newest, i)),
              Cardinality(Before(d, t, ids, newest, i)) < lo + per
       PROVE  i \in S
  <2>1. Tied(i) = {i}
      BY <1>11 DEF Single, Tied, At
  <2>2. Cardinality(Level(k, ids, i)) = 1
      BY <1>5, <2>1, FS_Singleton
  <2> DEFINE b == Cardinality(Prior(k, ids, i))
  <2>3. b \in Nat /\ lo <= b /\ b < lo + per
      BY <1>5, <1>10, <1>11
  <2> HIDE DEF b
  <2>4. Cut(b + 1, lo, lo + per) - Cut(b, lo, lo + per) = 1
      BY <1>7, <2>3 DEF Cut
  <2>5. Cardinality(S \cap {i}) = 1
      BY <1>5, <1>8, <2>1, <2>2, <2>4 DEF b
  <2> DEFINE T == S \cap {i}
  <2>6. Cardinality(T) = 1 /\ (i \notin S => T = {})
      BY <2>5
  <2> HIDE DEF T
  <2>7. Cardinality({}) # 1
      BY FS_EmptySet
  <2>8. T # {}
      BY <2>6, <2>7, Zenon
  <2> QED  BY <2>6, <2>8, Zenon
<1>12. ASSUME Cardinality(S) # per, NEW i \in ids PROVE Cardinality(Before(d, t, ids, newest, i)) < lo + per
  <2>1. Cardinality(ids) \in Nat
      BY <1>3, FS_CardinalityType
  <2>2. Cardinality(ids) < lo + per
      BY <1>7, <1>9, <1>12, <2>1 DEF Cut
  <2> QED  BY <1>7, <1>10, <2>1, <2>2
<1> QED  BY <1>2, <1>11, <1>12 DEF lo

\* Every row has its time, and keeps it.
Stamps(d) == \A t \in Tables : \A i \in Ids(d, t) : "at" \in DOMAIN d.tab[t][i] /\ d.tab[t][i].at \in Nat
Ages(e, d) ==
    /\ Shaped(e) /\ Stamps(e)
    /\ \A t \in Tables : \A i \in Ids(d, t) \cap Ids(e, t) : e.tab[t][i].at = d.tab[t][i].at
Aged(r, d) == Ages(r.db, d)

\* Every statement of Sql gives the rows it adds a time and keeps the times there are.
LEMMA StampedAt ==
    ASSUME NEW d, NEW row, "at" \notin DOMAIN row
    PROVE  "at" \in DOMAIN Stamped(d, row) /\ Stamped(d, row).at = d.next
<1> DEFINE time == [at |-> d.next]
           new == Merge(row, time)
<1>1. DOMAIN time = {"at"} /\ time.at = d.next
    OBVIOUS
<1> HIDE DEF time
<1>2. DOMAIN new = DOMAIN row \cup {"at"} /\ new["at"] = time["at"]
    BY <1>1 DEF Merge
<1> QED  BY <1>1, <1>2 DEF Stamped, time

LEMMA KeepsAt ==
    ASSUME NEW cols, NEW row, "at" \notin DOMAIN cols, "at" \in DOMAIN row
    PROVE  "at" \in DOMAIN Merge(cols, row) /\ Merge(cols, row).at = row.at
BY DEF Merge

LEMMA SameAges == ASSUME NEW d, Shaped(d), Stamps(d) PROVE Ages(d, d)
BY DEF Ages

LEMMA FailedAges == ASSUME NEW d, Shaped(d), Stamps(d) PROVE Aged(Failed(d), d)
<1>1. Failed(d).db = d
    BY DEF Failed
<1> QED  BY <1>1, SameAges DEF Aged

LEMMA GetAges == ASSUME NEW d, Shaped(d), Stamps(d), NEW t, NEW id PROVE Aged(Get(d, t, id), d)
<1> DEFINE r == Get(d, t, id)
           found == [err |-> FALSE, db |-> d, rows |-> Only(id, d.tab[t][id])]
<1>1. r = found \/ r = Failed(d)
    BY Zenon DEF Get
<1>2. found.db = d /\ Failed(d).db = d
    BY DEF Failed
<1>3. r.db = d
    BY <1>1, <1>2, Zenon
<1> HIDE DEF r
<1>4. Aged(r, d)
    BY <1>3, SameAges DEF Aged
<1> QED  BY <1>4 DEF r

LEMMA ExtendedAges ==
    ASSUME NEW schema, NEW d, Shaped(d), Stamps(d), NEW t \in Tables, NEW n \in Nat, NEW e, Extended(schema, e, d, t, n),
           \A i \in d.next .. (d.next + n - 1) : "at" \in DOMAIN e.tab[t][i] /\ e.tab[t][i].at \in Nat
    PROVE  Ages(e, d)
<1>1. Shaped(e)
    BY ExtendedShaped
<1>2. \A u \in Tables : \A i \in Ids(d, u) : e.tab[u][i] = d.tab[u][i]
    BY DEF Extended
<1>3. ASSUME NEW u \in Tables, NEW i \in Ids(e, u) PROVE "at" \in DOMAIN e.tab[u][i] /\ e.tab[u][i].at \in Nat
  <2>1. CASE i \in Ids(d, u)
      BY <1>2, <2>1 DEF Stamps
  <2>2. CASE i \notin Ids(d, u)
      BY <2>2 DEF Extended, Ids
  <2> QED  BY <2>1, <2>2
<1> QED  BY <1>1, <1>2, <1>3 DEF Ages, Stamps

LEMMA InsertAges ==
    ASSUME NEW schema, Shallow(schema), NEW d, Shaped(d), Stamps(d), NEW t \in Tables, NEW row, "at" \notin DOMAIN row
    PROVE  Aged(Insert(schema, d, t, row), d)
<1> DEFINE r == Insert(schema, d, t, row)
           new == Stamped(d, row)
<1>1. d.next \in Nat /\ DOMAIN d.tab = Tables /\ d.next \notin Ids(d, t)
    BY ShapedFinite DEF Shaped
<1>2. r = Failed(d) \/ Inserted(r, d, t, new)
    BY <1>1, InsertEffect
<1>3. r = Failed(d) \/ (r.err = FALSE /\ Extended(schema, r.db, d, t, 1))
    BY InsertExtends
<1>4. "at" \in DOMAIN new /\ new.at = d.next
    BY StampedAt
<1> HIDE DEF r, new
<1>5. CASE r = Failed(d)
    BY <1>5, FailedAges DEF r
<1>6. CASE r # Failed(d)
  <2>1. r.db.tab[t][d.next] = new /\ Extended(schema, r.db, d, t, 1)
      BY <1>2, <1>3, <1>6 DEF Inserted
  <2>2. \A i \in d.next .. (d.next + 1 - 1) : i = d.next
      BY <1>1
  <2>3. \A i \in d.next .. (d.next + 1 - 1) : "at" \in DOMAIN r.db.tab[t][i] /\ r.db.tab[t][i].at \in Nat
      BY <1>1, <1>4, <2>1, <2>2
  <2>4. Ages(r.db, d)
      BY <2>1, <2>3, ExtendedAges
  <2> QED  BY <2>4 DEF Aged, r
<1> QED  BY <1>5, <1>6

LEMMA InsertAllAges ==
    ASSUME NEW schema, Shallow(schema), NEW d, Shaped(d), Stamps(d), NEW t \in Tables, NEW rows, Len(rows) \in Nat,
           \A k \in 1..Len(rows) : "at" \notin DOMAIN rows[k]
    PROVE  Aged(InsertAll(schema, d, t, rows), d)
<1> DEFINE r == InsertAll(schema, d, t, rows)
<1>1. r = Failed(d) \/ (Extended(schema, r.db, d, t, Len(rows)) /\ InsertedRows(r.db, d, t, rows))
    BY InsertAllExtends
<1> HIDE DEF r
<1>2. CASE r = Failed(d)
    BY <1>2, FailedAges DEF r
<1>3. CASE Extended(schema, r.db, d, t, Len(rows)) /\ InsertedRows(r.db, d, t, rows)
  <2>1. ASSUME NEW i \in d.next .. (d.next + Len(rows) - 1)
        PROVE  "at" \in DOMAIN r.db.tab[t][i] /\ r.db.tab[t][i].at \in Nat
    <3> DEFINE k == i - d.next + 1
    <3>1. d.next \in Nat
        BY DEF Shaped
    <3>2. k \in 1..Len(rows)
        BY <3>1
    <3>3. r.db.tab[t][i] = Stamped(d, rows[k])
        BY <1>3 DEF InsertedRows
    <3> HIDE DEF k
    <3>4. "at" \in DOMAIN Stamped(d, rows[k]) /\ Stamped(d, rows[k]).at = d.next
        BY <3>2, StampedAt
    <3> QED  BY <3>1, <3>3, <3>4
  <2>2. Ages(r.db, d)
      BY <1>3, <2>1, ExtendedAges
  <2> QED  BY <2>2 DEF Aged, r
<1> QED  BY <1>1, <1>2, <1>3

LEMMA UpdateAges ==
    ASSUME NEW schema, NEW d, Shaped(d), Stamps(d), NEW t \in Tables, NEW id, NEW cols, "at" \notin DOMAIN cols
    PROVE  Aged(Update(schema, d, t, id, cols), d)
<1> DEFINE row == Merge(cols, d.tab[t][id])
           e == [d EXCEPT !.tab[t][id] = row]
           r == Update(schema, d, t, id, cols)
<1>1. CASE ~(id \in Ids(d, t) /\ RowAllowed(schema, d, t, id, row))
  <2>1. r = Failed(d)
      BY <1>1, Zenon DEF Update
  <2> QED  BY <2>1, FailedAges
<1>2. CASE id \in Ids(d, t) /\ RowAllowed(schema, d, t, id, row)
  <2>1. r = [err |-> FALSE, db |-> e, rows |-> Only(id, row)]
      BY <1>2, Zenon DEF Update
  <2>2. r.db = e
      BY <2>1
  <2>3. "at" \in DOMAIN row /\ row.at = d.tab[t][id].at /\ row.at \in Nat
    <3>1. "at" \in DOMAIN d.tab[t][id] /\ d.tab[t][id].at \in Nat
        BY <1>2 DEF Stamps
    <3> QED  BY <3>1, KeepsAt
  <2> HIDE DEF row
  <2>4. DOMAIN e = {"tab", "next"} /\ e.next = d.next /\ DOMAIN e.tab = Tables
        /\ \A u \in Tables : e.tab[u] = IF u = t THEN [d.tab[t] EXCEPT ![id] = row] ELSE d.tab[u]
      BY DEF Shaped
  <2> HIDE DEF e, r
  <2>5. \A u \in Tables : Ids(e, u) = Ids(d, u)
      BY <2>4 DEF Ids
  <2>6. Shaped(e)
    <3>1. \A u \in Tables : IsTable(e.tab[u])
      <4>1. IsTable([d.tab[t] EXCEPT ![id] = row])
          BY DEF IsTable
      <4> QED  BY <2>4, <4>1 DEF Shaped
    <3> QED  BY <2>4, <2>5, <3>1 DEF Shaped
  <2>7. ASSUME NEW u \in Tables, NEW i \in Ids(e, u)
        PROVE  "at" \in DOMAIN e.tab[u][i] /\ e.tab[u][i].at \in Nat /\ e.tab[u][i].at = d.tab[u][i].at
    <3>1. CASE u = t /\ i = id
        BY <1>2, <2>3, <2>4, <3>1 DEF Ids
    <3>2. CASE ~(u = t /\ i = id)
      <4>1. e.tab[u][i] = d.tab[u][i] /\ i \in Ids(d, u)
          BY <3>2, <2>4, <2>5 DEF Ids
      <4> QED  BY <4>1 DEF Stamps
    <3> QED  BY <3>1, <3>2
  <2>8. Ages(e, d)
      BY <2>6, <2>7 DEF Ages, Stamps
  <2> QED  BY <2>2, <2>8 DEF Aged, r
<1> QED  BY <1>1, <1>2

LEMMA DeleteAges ==
    ASSUME NEW schema, NEW d, Shaped(d), Stamps(d), NEW t \in Tables, NEW ids
    PROVE  Aged(Delete(schema, d, t, ids), d)
<1> DEFINE gone == Left(schema, d, t, ids)
           Rest(u) == [i \in Ids(d, u) \ gone[u] |-> d.tab[u][i]]
           e == [d EXCEPT !.tab = [u \in Tables |-> Rest(u)]]
           rows == [i \in ids \cap Ids(d, t) |-> d.tab[t][i]]
           r == Delete(schema, d, t, ids)
<1>1. r = [err |-> FALSE, db |-> e, rows |-> rows]
    BY Zenon DEF Delete, Left
<1>2. r.db = e
    BY <1>1
<1> HIDE DEF gone
<1>3. DOMAIN e = {"tab", "next"} /\ e.next = d.next /\ e.tab = [u \in Tables |-> Rest(u)]
    BY DEF Shaped
<1> HIDE DEF r, e
<1>4. \A u \in Tables : Ids(e, u) \subseteq Ids(d, u) /\ IsTable(e.tab[u]) /\ \A i \in Ids(e, u) : e.tab[u][i] = d.tab[u][i]
    BY <1>3 DEF Ids, IsTable
<1>5. Shaped(e)
    BY <1>3, <1>4 DEF Shaped
<1>6. Ages(e, d)
    BY <1>4, <1>5 DEF Ages, Stamps
<1> QED  BY <1>2, <1>6 DEF Aged, r

LEMMA DeleteExistingAges ==
    ASSUME NEW schema, NEW d, Shaped(d), Stamps(d), NEW t \in Tables, NEW ids
    PROVE  Aged(DeleteExisting(schema, d, t, ids), d)
<1>1. DeleteExisting(schema, d, t, ids) = Failed(d) \/ DeleteExisting(schema, d, t, ids) = Delete(schema, d, t, ids)
    BY Zenon DEF DeleteExisting
<1> QED  BY <1>1, FailedAges, DeleteAges

LEMMA ApplyAges ==
    ASSUME NEW d, Shaped(d), Stamps(d), NEW n \in Nat, NEW S, NEW sels \in [1..n -> S]
    PROVE  Aged(Pg!ApplyOnboardScan(d, sels), d)
<1> DEFINE r == Pg!ApplyOnboardScan(d, sels)
           e == Pg!Applied(d, sels, Len(sels), Len(sels))
           done == [err |-> FALSE, db |-> e, rows |-> Pg!NoRows]
<1>1. r = done \/ r = Failed(d)
    BY PgFailed, Zenon DEF Pg!ApplyOnboardScan
<1>2. CASE r = Failed(d)
    BY <1>2, FailedAges
<1>3. CASE r = done
  <2>1. r.db = e
      BY <1>3
  <2>2. Len(sels) = n
      BY LenOf
  <2>3. d.next \in Nat \ {0} /\ DOMAIN d.tab = Tables /\ \A u \in Tables : Ids(d, u) \subseteq 1..(d.next - 1)
      BY DEF Shaped
  <2>4. AppliedRows(e, d, sels, n, n)
      BY <2>2, <2>3, AppliedIs
  <2> HIDE DEF r, e
  <2>5. Shaped(e)
      BY <2>2, <2>4, AppliedShaped
  <2>6. \A i, sel : /\ "at" \in DOMAIN Pg!ScanProject(d, sel) /\ Pg!ScanProject(d, sel).at = d.next
                    /\ "at" \in DOMAIN Pg!ScanSource(d, i, sel) /\ Pg!ScanSource(d, i, sel).at = d.next
      BY DEF Pg!ScanProject, Pg!ScanSource
  <2>7. \A u \in Tables : \A i \in Ids(d, u) : i \notin Named(d, sels, n) /\ i \notin Added(d, sels, n)
      BY <2>3, AppliedIds
  <2>8. \A u \in Tables : \A i \in Ids(d, u) : e.tab[u][i] = d.tab[u][i]
      BY <2>4, <2>7 DEF AppliedRows
  <2>9. ASSUME NEW u \in Tables, NEW i \in Ids(e, u) PROVE "at" \in DOMAIN e.tab[u][i] /\ e.tab[u][i].at \in Nat
    <3>1. CASE i \in Ids(d, u)
        BY <2>8, <3>1 DEF Stamps
    <3>2. CASE i \notin Ids(d, u)
      <4>1. \/ u = "projects" /\ i \in Named(d, sels, n)
            \/ u = "sources" /\ i \in Added(d, sels, n)
          BY <2>4, <3>2 DEF AppliedRows, Ids
      <4>2. e.tab[u][i] = Pg!ScanProject(d, sels[Selected(d, i)])
            \/ e.tab[u][i] = Pg!ScanSource(d, Selected(d, i), sels[Selected(d, i)])
          BY <2>4, <4>1 DEF AppliedRows
      <4> QED  BY <2>3, <2>6, <4>2
    <3> QED  BY <3>1, <3>2
  <2>10. Ages(e, d)
      BY <2>5, <2>8, <2>9 DEF Ages, Stamps
  <2> QED  BY <2>1, <2>10 DEF Aged, r
<1> QED  BY <1>1, <1>2, <1>3

-----------------------------------------------------------------------------
\* The walk through a list.
On(d, p) == Rows(d, p.list, p.of)
\* the pages read so far have been over the place of row i
Passed(d, newest, p, i) ==
  p.phase = "done" \/ Cardinality(Before(d, TableOf(p.list), On(d, p), newest, i)) < (p.page - 1) * p.per
\* while no row of its list was deleted, a client has every row alone at its time
\* that its pages have been over
Faithful(d, newest, p) ==
  /\ p.start \subseteq On(d, p) /\ p.seen \subseteq On(d, p)
  /\ ~p.grown => On(d, p) = p.start
  /\ ~p.grown /\ p.phase # "count" => p.total = Cardinality(p.start)
  /\ \A i \in p.start : Single(d, TableOf(p.list), On(d, p), i) /\ Passed(d, newest, p, i) => i \in p.seen
PagerType(p) ==
  /\ DOMAIN p = DOMAIN Idle /\ p.phase \in {"idle", "count", "page", "done"}
  /\ p.phase # "idle" => p.list \in Lists /\ p.per \in Nat \ {0} /\ p.page \in Nat \ {0}
WalkOf(d, newest, p) == PagerType(p) /\ (p.phase # "idle" /\ ~p.lost => Faithful(d, newest, p))
WalkInv == Shaped(db) /\ Stamps(db) /\ WalkOf(db, backend = "pg", pager)

LEMMA ListOnTable == \A list \in Lists : TableOf(list) \in Tables
BY DEF Lists, TableOf, Tables

LEMMA OnIds == ASSUME NEW d, NEW p PROVE On(d, p) \subseteq Ids(d, TableOf(p.list))
BY DEF On, Rows

\* The walked list is a finite set of rows with times.
LEMMA OnTimed ==
    ASSUME NEW d, Shaped(d), Stamps(d), NEW p, p.list \in Lists
    PROVE  Timed(d, TableOf(p.list), On(d, p))
<1> DEFINE t == TableOf(p.list)
           ids == On(d, p)
<1>1. t \in Tables /\ ids \subseteq Ids(d, t)
    BY ListOnTable, OnIds
<1> HIDE DEF t, ids
<1>2. IsFiniteSet(ids)
    BY <1>1, ShapedFinite, FS_Subset
<1>3. Timed(d, t, ids)
    BY <1>1, <1>2 DEF Timed, Stamps
<1> QED  BY <1>3 DEF t, ids

\* Rows that come in add to what is before a row, and never make one alone.
LEMMA MoreBefore ==
    ASSUME NEW d, NEW e, NEW t, NEW a, NEW b, a \subseteq b, IsFiniteSet(b), NEW newest,
           \A i \in a : e.tab[t][i].at = d.tab[t][i].at, NEW i \in a
    PROVE  /\ Cardinality(Before(d, t, a, newest, i)) \in Nat /\ Cardinality(Before(e, t, b, newest, i)) \in Nat
           /\ Cardinality(Before(d, t, a, newest, i)) <= Cardinality(Before(e, t, b, newest, i))
           /\ Single(e, t, b, i) => Single(d, t, a, i)
<1>1. Single(e, t, b, i) => Single(d, t, a, i)
    BY DEF Single
<1> DEFINE x == Before(d, t, a, newest, i)
           y == Before(e, t, b, newest, i)
<1>2. x \subseteq y /\ y \subseteq b
    BY DEF Before
<1> HIDE DEF x, y
<1>3. IsFiniteSet(x) /\ IsFiniteSet(y)
    BY <1>2, FS_Subset
<1>4. Cardinality(x) \in Nat /\ Cardinality(y) \in Nat /\ Cardinality(x) <= Cardinality(y)
    BY <1>2, <1>3, FS_Subset, FS_CardinalityType
<1> QED  BY <1>1, <1>4 DEF x, y

\* A change of the list that takes no row from it.
LEMMA GrownWalk ==
    ASSUME NEW d, Shaped(d), Stamps(d), NEW e, Ages(e, d), NEW newest, NEW p, PagerType(p), p.phase \in {"count", "page"},
           Faithful(d, newest, p), On(d, p) \subseteq On(e, p),
           NEW q, q.list = p.list, q.of = p.of, q.per = p.per, q.page = p.page, q.phase = p.phase, q.start = p.start,
           q.seen = p.seen, q.total = p.total, q.grown <=> p.grown \/ ~(On(e, p) \subseteq On(d, p))
    PROVE  Faithful(e, newest, q)
<1> DEFINE t == TableOf(p.list)
           a == On(d, p)
           b == On(e, p)
<1>1. On(e, q) = b /\ TableOf(q.list) = t
    BY DEF On
<1>2. a \subseteq b /\ t \in Tables /\ a \subseteq Ids(d, t) /\ b \subseteq Ids(e, t)
    BY ListOnTable, OnIds DEF PagerType
<1>3. IsFiniteSet(b)
    BY OnTimed DEF Ages, PagerType, Timed
<1>4. p.start \subseteq a /\ p.seen \subseteq a /\ (~p.grown => a = p.start)
      /\ (~p.grown /\ p.phase # "count" => p.total = Cardinality(p.start))
    BY DEF Faithful
<1>5. ASSUME NEW i \in p.start PROVE Single(d, t, a, i) /\ Passed(d, newest, p, i) => i \in p.seen
    BY DEF Faithful
<1>6. q.grown <=> p.grown \/ ~(b \subseteq a)
    OBVIOUS
<1>7. (p.page - 1) * p.per \in Int
    BY DEF PagerType
<1> DEFINE lo == (p.page - 1) * p.per
<1>8. ASSUME NEW i \in p.start, Single(e, t, b, i), Passed(e, newest, q, i) PROVE i \in p.seen
  <2>1. i \in a /\ \A j \in a : e.tab[t][j].at = d.tab[t][j].at
      BY <1>2, <1>4 DEF Ages
  <2>2. Cardinality(Before(e, t, b, newest, i)) < lo
      BY <1>1, <1>8 DEF Passed
  <2> HIDE DEF t, a, b, lo
  <2>3. /\ Cardinality(Before(d, t, a, newest, i)) \in Nat /\ Cardinality(Before(e, t, b, newest, i)) \in Nat
        /\ Cardinality(Before(d, t, a, newest, i)) <= Cardinality(Before(e, t, b, newest, i))
        /\ Single(d, t, a, i)
      BY <1>2, <1>3, <1>8, <2>1, MoreBefore
  <2>4. Cardinality(Before(d, t, a, newest, i)) < lo
      BY <1>7, <2>2, <2>3 DEF lo
  <2>5. Passed(d, newest, p, i)
      BY <2>4 DEF Passed, t, a, lo
  <2> QED  BY <1>5, <2>3, <2>5
<1> HIDE DEF t, a, b
<1>9. q.start \subseteq b /\ q.seen \subseteq b
    BY <1>2, <1>4
<1>10. (~q.grown => b = q.start) /\ (~q.grown /\ q.phase # "count" => q.total = Cardinality(q.start))
    BY <1>2, <1>4, <1>6
<1> QED  BY <1>1, <1>8, <1>9, <1>10 DEF Faithful

\* An answer keeps the walk, when the rows that stay keep their times.
LEMMA RespondWalk ==
    ASSUME WalkInv, NEW status, NEW t, NEW asked, NEW rows, NEW d, NEW twin,
           Respond(status, t, asked, rows, d, twin), Ages(d, db)
    PROVE  WalkInv'
<1>1. db' = d /\ backend' = backend /\ (pager.phase = "idle" \/ Walking)
    BY DEF Respond
<1>2. Shaped(db') /\ Stamps(db')
    BY <1>1 DEF Ages
<1>3. CASE ~Walking
  <2>1. pager' = pager /\ pager.phase = "idle"
      BY <1>1, <1>3 DEF Respond
  <2>2. WalkOf(db', backend' = "pg", pager')
      BY <2>1 DEF WalkInv, WalkOf
  <2> QED  BY <1>2, <2>2 DEF WalkInv
<1>4. CASE Walking
  <2> DEFINE old == On(db, pager)
             new == On(d, pager)
             q == [pager EXCEPT !.lost = @ \/ ~(old \subseteq new), !.grown = @ \/ ~(new \subseteq old)]
  <2>1. pager' = q
      BY <1>4, Zenon DEF Respond, On
  <2>2. PagerType(pager) /\ pager.phase \in {"count", "page"}
      BY <1>4 DEF WalkInv, WalkOf, Walking
  <2>3. DOMAIN q = DOMAIN pager /\ q.list = pager.list /\ q.of = pager.of /\ q.per = pager.per /\ q.page = pager.page
        /\ q.phase = pager.phase /\ q.start = pager.start /\ q.seen = pager.seen /\ q.total = pager.total
        /\ q.lost = (pager.lost \/ ~(old \subseteq new)) /\ q.grown = (pager.grown \/ ~(new \subseteq old))
      BY <2>2 DEF PagerType, Idle
  <2> HIDE DEF q
  <2>4. PagerType(q)
      BY <2>2, <2>3 DEF PagerType
  <2>5. ASSUME ~q.lost PROVE Faithful(d, backend = "pg", q)
    <3>1. ~pager.lost /\ old \subseteq new /\ (q.grown <=> pager.grown \/ ~(new \subseteq old))
        BY <2>3, <2>5
    <3>2. Shaped(db) /\ Stamps(db) /\ Faithful(db, backend = "pg", pager)
        BY <2>2, <3>1 DEF WalkInv, WalkOf
    <3> DEFINE newest == backend = "pg"
    <3> HIDE DEF newest
    <3>3. Faithful(db, newest, pager)
        BY <3>2 DEF newest
    <3>4. Faithful(d, newest, q)
        BY <2>2, <2>3, <3>1, <3>2, <3>3, GrownWalk
    <3> QED  BY <3>4 DEF newest
  <2>6. WalkOf(db', backend' = "pg", pager')
      BY <1>1, <2>1, <2>4, <2>5 DEF WalkOf
  <2> QED  BY <1>2, <2>6 DEF WalkInv
<1> QED  BY <1>3, <1>4

\* The handlers keep the walk, call by call and table by table.
LEMMA PlainWalk ==
    ASSUME WalkInv, NEW status, NEW t, NEW asked, Respond(status, t, asked, NoRows, db, "same")
    PROVE  WalkInv'
BY SameAges, RespondWalk DEF WalkInv

LEMMA AnswerWalk ==
    ASSUME WalkInv, NEW t, NEW pg, NEW lite, NEW ok, NEW bad, NEW asked,
           Answer(t, pg, lite, ok, bad, asked), Aged(pg, db), Aged(lite, db)
    PROVE  WalkInv'
<1> DEFINE r == Pick(pg, lite)
           status == IF r.err THEN bad ELSE ok
           twin == IF t \in NotInStealth THEN "same" ELSE Compare(pg, lite)
<1>1. CASE Respond(bad, t, asked, NoRows, db, "same")
    BY <1>1, PlainWalk
<1>2. CASE Respond(status, t, asked, r.rows, r.db, twin)
  <2>1. Ages(r.db, db)
      BY DEF Pick, Aged
  <2> HIDE DEF r, status, twin
  <2> QED  BY <1>2, <2>1, RespondWalk
<1> QED  BY <1>1, <1>2 DEF Answer

LEMMA HandleWalk ==
    ASSUME WalkInv, NEW t, NEW valid, NEW pg, NEW lite, NEW ok, NEW bad,
           Handle(t, valid, pg, lite, ok, bad), Aged(pg, db), Aged(lite, db)
    PROVE  WalkInv'
<1>1. CASE Answer(t, pg, lite, ok, bad, 1)
    BY <1>1, AnswerWalk
<1>2. CASE Refuse(t)
    BY <1>2, PlainWalk DEF Refuse
<1> QED  BY <1>1, <1>2, Zenon DEF Handle

\* Without foreign keys no table refers to another.
LEMMA AnyShallow == ASSUME NEW fk \in BOOLEAN PROVE Shallow(Lite!Schema(fk))
<1>1. CASE fk = TRUE
    BY <1>1, LiteShallow
<1>2. CASE fk = FALSE
  <2> DEFINE schema == Lite!Schema(fk)
  <2>1. schema = [projects |-> [Lite!ProjectsTable EXCEPT !.refs = {}], sources |-> [Lite!SourcesTable EXCEPT !.refs = {}],
                  releases |-> [Lite!ReleasesTable EXCEPT !.refs = {}], channels |-> [Lite!ChannelsTable EXCEPT !.refs = {}],
                  subs |-> [Lite!SubsTable EXCEPT !.refs = {}], contexts |-> [unique |-> {}, refs |-> {}]]
      BY <1>2 DEF Lite!Schema
  <2>2. \A t \in Tables : schema[t].refs = {}
      BY <2>1 DEF Tables, Lite!ProjectsTable, Lite!SourcesTable, Lite!ReleasesTable, Lite!ChannelsTable, Lite!SubsTable
  <2> HIDE DEF schema
  <2>3. Shallow(schema)
      BY <2>2 DEF Shallow, Tables
  <2> QED  BY <2>3 DEF schema
<1> QED  BY <1>1, <1>2

LEMMA CreateWalk ==
    ASSUME WalkInv, NEW fk \in BOOLEAN, NEW t \in Tables, NEW row, "at" \notin DOMAIN row, NEW valid, NEW ok, NEW bad,
           Handle(t, valid, Pg!Insert(Pg!Schema, db, t, row), Lite!Insert(Lite!Schema(fk), db, t, row), ok, bad)
    PROVE  WalkInv'
<1> DEFINE pg == Pg!Insert(Pg!Schema, db, t, row)
           lite == Lite!Insert(Lite!Schema(fk), db, t, row)
<1>1. Aged(pg, db) /\ Aged(lite, db)
    BY PgInsert, LiteInsert, PgShallow, AnyShallow, InsertAges DEF WalkInv
<1>2. Handle(t, valid, pg, lite, ok, bad)
    OBVIOUS
<1> HIDE DEF pg, lite
<1> QED  BY <1>1, <1>2, HandleWalk

LEMMA UpdateWalk ==
    ASSUME WalkInv, NEW fk, NEW t \in Tables, NEW id, NEW cols, "at" \notin DOMAIN cols, NEW valid, NEW ok, NEW bad,
           Handle(t, valid, Pg!Update(Pg!Schema, db, t, id, cols), Lite!Update(Lite!Schema(fk), db, t, id, cols), ok, bad)
    PROVE  WalkInv'
<1> DEFINE pg == Pg!Update(Pg!Schema, db, t, id, cols)
           lite == Lite!Update(Lite!Schema(fk), db, t, id, cols)
<1>1. Aged(pg, db) /\ Aged(lite, db)
    BY PgUpdate, LiteUpdate, UpdateAges DEF WalkInv
<1>2. Handle(t, valid, pg, lite, ok, bad)
    OBVIOUS
<1> HIDE DEF pg, lite
<1> QED  BY <1>1, <1>2, HandleWalk

LEMMA DeleteWalk ==
    ASSUME WalkInv, NEW fk, NEW t \in Tables, NEW ids, NEW ok, NEW bad, NEW asked,
           Answer(t, Pg!DeleteExisting(Pg!Schema, db, t, ids), Lite!DeleteExisting(Lite!Schema(fk), db, t, ids), ok, bad, asked)
    PROVE  WalkInv'
<1> DEFINE pg == Pg!DeleteExisting(Pg!Schema, db, t, ids)
           lite == Lite!DeleteExisting(Lite!Schema(fk), db, t, ids)
<1>1. Aged(pg, db) /\ Aged(lite, db)
    BY PgDelete, LiteDeleteExisting, DeleteExistingAges DEF WalkInv
<1>2. Answer(t, pg, lite, ok, bad, asked)
    OBVIOUS
<1> HIDE DEF pg, lite
<1> QED  BY <1>1, <1>2, AnswerWalk

LEMMA GetWalk ==
    ASSUME WalkInv, NEW t, NEW id, NEW ok, NEW bad, NEW asked,
           Answer(t, Pg!Get(db, t, id), Lite!Get(db, t, id), ok, bad, asked)
    PROVE  WalkInv'
<1> DEFINE pg == Pg!Get(db, t, id)
           lite == Lite!Get(db, t, id)
<1>1. Aged(pg, db) /\ Aged(lite, db)
    BY PgGet, LiteGet, GetAges DEF WalkInv
<1>2. Answer(t, pg, lite, ok, bad, asked)
    OBVIOUS
<1> HIDE DEF pg, lite
<1> QED  BY <1>1, <1>2, AnswerWalk

LEMMA StubWalk ==
    ASSUME WalkInv, NEW t, NEW pg, Aged(pg, db), NEW ok, NEW bad, NEW asked, NEW valid,
           Answer(t, pg, Lite!NotImplemented(db), ok, bad, asked) \/ Handle(t, valid, pg, Lite!NotImplemented(db), ok, bad)
    PROVE  WalkInv'
<1> DEFINE lite == Lite!NotImplemented(db)
<1>1. Aged(lite, db)
    BY LiteFailed, FailedAges DEF WalkInv
<1> HIDE DEF lite
<1>2. CASE Answer(t, pg, lite, ok, bad, asked)
    BY <1>1, <1>2, AnswerWalk
<1>3. CASE Handle(t, valid, pg, lite, ok, bad)
    BY <1>1, <1>3, HandleWalk
<1> QED  BY <1>2, <1>3 DEF lite

LEMMA AllTables == {"projects", "sources", "channels", "subs", "contexts"} \subseteq Tables
BY DEF Tables

LEMMA ProjectsWalk ==
    ASSUME WalkInv, NEW fk \in BOOLEAN, NEW id, NEW name,
           \/ ProjectsCreate(fk, name) \/ ProjectsGet(id)
           \/ ProjectsUpdate(fk, id, name) \/ ProjectsDelete(fk, id)
    PROVE  WalkInv'
<1> USE AllTables
<1>1. "at" \notin DOMAIN [name |-> name]
    OBVIOUS
<1>2. CASE ProjectsCreate(fk, name)
    BY <1>1, <1>2, CreateWalk DEF ProjectsCreate, Pg!CreateProject, Lite!CreateProject
<1>3. CASE ProjectsGet(id)
    BY <1>3, GetWalk DEF ProjectsGet, Pg!GetProject, Lite!GetProject
<1>4. CASE ProjectsUpdate(fk, id, name)
    BY <1>1, <1>4, UpdateWalk DEF ProjectsUpdate, Pg!UpdateProject, Lite!UpdateProject
<1>5. CASE ProjectsDelete(fk, id)
    BY <1>5, DeleteWalk DEF ProjectsDelete, Pg!DeleteProject, Lite!DeleteProject
<1> QED  BY <1>2, <1>3, <1>4, <1>5

LEMMA ChannelsWalk ==
    ASSUME WalkInv, NEW fk \in BOOLEAN, NEW id, NEW type,
           \/ ChannelsCreate(fk, type) \/ ChannelsGet(id) \/ ChannelsTest(id)
           \/ ChannelsUpdate(fk, id, type) \/ ChannelsDelete(fk, id)
    PROVE  WalkInv'
<1> USE AllTables
<1>1. "at" \notin DOMAIN [type |-> type]
    OBVIOUS
<1>2. CASE ChannelsCreate(fk, type)
    BY <1>1, <1>2, CreateWalk DEF ChannelsCreate, Pg!CreateChannel, Lite!CreateChannel
<1>3. CASE ChannelsGet(id)
    BY <1>3, GetWalk DEF ChannelsGet, Pg!GetChannel, Lite!GetChannel
<1>4. CASE ChannelsUpdate(fk, id, type)
    BY <1>1, <1>4, UpdateWalk DEF ChannelsUpdate, Pg!UpdateChannel, Lite!UpdateChannel
<1>5. CASE ChannelsDelete(fk, id)
    BY <1>5, DeleteWalk DEF ChannelsDelete, Pg!DeleteChannel, Lite!DeleteChannel
<1>6. CASE ChannelsTest(id)
  <2>1. \E status \in {404, 422, 200, 502} : Respond(status, "channels", 1, NoRows, db, "same")
    <3> DEFINE r == Pick(Pg!GetChannel(db, id), Lite!GetChannel(db, id))
               Test(status) == Respond(status, "channels", 1, NoRows, db, "same")
    <3>1. CASE r.err
        BY <1>6, <3>1 DEF ChannelsTest
    <3>2. CASE ~r.err /\ r.rows[id].type \notin Senders
        BY <1>6, <3>2, Zenon DEF ChannelsTest, Refuse
    <3>3. CASE ~r.err /\ r.rows[id].type \in Senders
        BY <1>6, <3>3 DEF ChannelsTest
    <3> QED  BY <3>1, <3>2, <3>3
  <2> QED  BY <2>1, PlainWalk
<1> QED  BY <1>2, <1>3, <1>4, <1>5, <1>6

LEMMA SourcesWalk ==
    ASSUME WalkInv, NEW fk \in BOOLEAN, NEW id, NEW project, NEW repo, NEW enabled,
           \/ SourcesCreate(fk, project, repo, enabled) \/ SourcesGet(id)
           \/ SourcesUpdate(fk, id, repo, enabled) \/ SourcesDelete(fk, id)
    PROVE  WalkInv'
<1> USE AllTables
<1>1. CASE SourcesCreate(fk, project, repo, enabled)
  <2>1. "at" \notin DOMAIN [project |-> project, repo |-> repo, enabled |-> enabled]
      OBVIOUS
  <2> QED  BY <1>1, <2>1, CreateWalk DEF SourcesCreate, Pg!CreateSource, Lite!CreateSource
<1>2. CASE SourcesGet(id)
  <2>1. Lite!GetSource(db, id) = Lite!Get(db, "sources", id)
      BY Zenon DEF Lite!GetSource, Lite!Get, Lite!scanSource
  <2> QED  BY <1>2, <2>1, GetWalk DEF SourcesGet, Pg!GetSource
<1>3. CASE SourcesUpdate(fk, id, repo, enabled)
  <2> DEFINE s == [repo |-> repo, enabled |-> enabled]
  <2>1. "at" \notin DOMAIN s /\ [repo |-> s.repo, enabled |-> s.enabled] = s
      OBVIOUS
  <2>2. Handle("sources", repo # Blank, Pg!Update(Pg!Schema, db, "sources", id, s),
               Lite!Update(Lite!Schema(fk), db, "sources", id, s), 200, 404)
      BY <1>3, <2>1 DEF SourcesUpdate, Pg!UpdateSource, Lite!UpdateSource
  <2> HIDE DEF s
  <2> QED  BY <2>1, <2>2, UpdateWalk
<1>4. CASE SourcesDelete(fk, id)
    BY <1>4, DeleteWalk DEF SourcesDelete, Pg!DeleteSource, Lite!DeleteSource
<1> QED  BY <1>1, <1>2, <1>3, <1>4

LEMMA SubscriptionsWalk ==
    ASSUME WalkInv, NEW fk \in BOOLEAN, NEW id, NEW sub \in SubInputs,
           SubscriptionsCreate(fk, sub) \/ SubscriptionsUpdate(fk, id, sub)
    PROVE  WalkInv'
<1> USE AllTables
<1>1. "at" \notin DOMAIN sub
    BY DEF SubInputs
<1>2. CASE SubscriptionsCreate(fk, sub)
    BY <1>1, <1>2, CreateWalk DEF SubscriptionsCreate, Pg!CreateSubscription, Lite!CreateSubscription
<1>3. CASE SubscriptionsUpdate(fk, id, sub)
    BY <1>1, <1>3, UpdateWalk DEF SubscriptionsUpdate, Pg!UpdateSubscription, Lite!UpdateSubscription
<1> QED  BY <1>2, <1>3

LEMMA ContextsWalk ==
    ASSUME WalkInv, NEW id, NEW project, NEW type,
           \/ ContextSourcesCreate(project, type) \/ ContextSourcesGet(id)
           \/ ContextSourcesUpdate(id, type) \/ ContextSourcesDelete(id)
    PROVE  WalkInv'
<1>1. Shaped(db) /\ Stamps(db) /\ Shallow(Pg!Schema) /\ "contexts" \in Tables
    BY PgShallow DEF WalkInv, Tables
<1>2. CASE ContextSourcesCreate(project, type)
  <2> DEFINE c == [project |-> project, type |-> type]
             pg == Pg!CreateContextSource(db, c)
  <2>1. "at" \notin DOMAIN c
      OBVIOUS
  <2>2. Handle("contexts", type # Blank, pg, Lite!NotImplemented(db), 201, 500)
      BY <1>2 DEF ContextSourcesCreate
  <2> HIDE DEF c
  <2>3. Aged(pg, db)
      BY <1>1, <2>1, PgInsert, InsertAges DEF Pg!CreateContextSource
  <2> HIDE DEF pg
  <2> QED  BY <2>2, <2>3, StubWalk
<1>3. CASE ContextSourcesGet(id)
  <2> DEFINE pg == Pg!GetContextSource(db, id)
  <2>1. Aged(pg, db)
      BY <1>1, PgGet, GetAges DEF Pg!GetContextSource
  <2>2. Answer("contexts", pg, Lite!NotImplemented(db), 200, 404, 1)
      BY <1>3 DEF ContextSourcesGet
  <2> HIDE DEF pg
  <2> QED  BY <2>1, <2>2, StubWalk
<1>4. CASE ContextSourcesUpdate(id, type)
  <2> DEFINE c == [type |-> type]
             pg == Pg!UpdateContextSource(db, id, c)
  <2>1. "at" \notin DOMAIN c /\ [type |-> c.type] = c
      OBVIOUS
  <2>2. Handle("contexts", type # Blank, pg, Lite!NotImplemented(db), 200, 404)
      BY <1>4 DEF ContextSourcesUpdate
  <2> HIDE DEF c
  <2>3. Aged(pg, db)
      BY <1>1, <2>1, PgUpdate, UpdateAges DEF Pg!UpdateContextSource
  <2> HIDE DEF pg
  <2> QED  BY <2>2, <2>3, StubWalk
<1>5. CASE ContextSourcesDelete(id)
  <2> DEFINE pg == Pg!DeleteContextSource(db, id)
  <2>1. Aged(pg, db)
      BY <1>1, PgDelete, DeleteExistingAges DEF Pg!DeleteContextSource
  <2>2. Answer("contexts", pg, Lite!NotImplemented(db), 204, 404, 1)
      BY <1>5 DEF ContextSourcesDelete
  <2> HIDE DEF pg
  <2> QED  BY <2>1, <2>2, StubWalk
<1> QED  BY <1>2, <1>3, <1>4, <1>5

LEMMA BatchCreateWalk ==
    ASSUME WalkInv, NEW fk \in BOOLEAN, NEW channel, NEW type, NEW n \in Nat, NEW S, NEW ids \in [1..n -> S],
           SubscriptionsBatchCreate(fk, channel, type, ids)
    PROVE  WalkInv'
<1> DEFINE Sub(i) == [channel |-> channel, type |-> type, source |-> IF type = "source_release" THEN ids[i] ELSE NULL,
                      project |-> IF type = "semantic_release" THEN ids[i] ELSE NULL]
           subs == [i \in DOMAIN ids |-> Sub(i)]
           pg == Pg!CreateSubscriptionBatch(db, subs)
           lite == Lite!CreateSubscriptionBatch(fk, db, subs)
<1>1. \/ Refuse("subs")
      \/ Answer("subs", pg, lite, 201, 500, Len(ids))
    BY Zenon DEF SubscriptionsBatchCreate
<1>2. Len(subs) = n /\ \A k \in 1..n : "at" \notin DOMAIN subs[k]
  <2>1. subs \in [1..n -> {Sub(i) : i \in 1..n}]
      OBVIOUS
  <2>2. \A k \in 1..n : subs[k] = Sub(k)
      OBVIOUS
  <2>3. \A k : "at" \notin DOMAIN Sub(k)
      OBVIOUS
  <2> HIDE DEF subs, Sub
  <2>4. Len(subs) = n
      BY <2>1, LenOf
  <2> QED  BY <2>2, <2>3, <2>4
<1>3. CASE Refuse("subs")
    BY <1>3, PlainWalk DEF Refuse
<1>4. CASE Answer("subs", pg, lite, 201, 500, Len(ids))
  <2> HIDE DEF subs
  <2>1. "subs" \in Tables /\ Shaped(db) /\ Stamps(db)
      BY DEF WalkInv, Tables
  <2>2. Aged(pg, db)
      BY <1>2, <2>1, PgShallow, PgInsertAll, InsertAllAges DEF Pg!CreateSubscriptionBatch
  <2>3. Aged(lite, db)
      BY <1>2, <2>1, AnyShallow, LiteInsertAll, InsertAllAges DEF Lite!CreateSubscriptionBatch
  <2> HIDE DEF pg, lite
  <2> QED  BY <1>4, <2>2, <2>3, AnswerWalk
<1> QED  BY <1>1, <1>3, <1>4

LEMMA BatchDeleteWalk ==
    ASSUME WalkInv, NEW fk, NEW ids, SubscriptionsBatchDelete(fk, ids)
    PROVE  WalkInv'
<1> DEFINE pg == Pg!DeleteSubscriptionBatch(db, ids)
           lite == Lite!DeleteSubscriptionBatch(fk, db, ids)
<1>1. Refuse("subs") \/ Answer("subs", pg, lite, 204, 500, Cardinality(ids))
    BY Zenon DEF SubscriptionsBatchDelete
<1>2. "subs" \in Tables /\ Shaped(db) /\ Stamps(db)
    BY DEF WalkInv, Tables
<1>3. Aged(pg, db)
    BY <1>2, PgDelete, DeleteExistingAges DEF Pg!DeleteSubscriptionBatch
<1>4. Aged(lite, db)
    BY <1>2, LiteDelete, DeleteAges DEF Lite!DeleteSubscriptionBatch
<1> HIDE DEF pg, lite
<1>5. CASE Refuse("subs")
    BY <1>5, PlainWalk DEF Refuse
<1>6. CASE Answer("subs", pg, lite, 204, 500, Cardinality(ids))
    BY <1>3, <1>4, <1>6, AnswerWalk
<1> QED  BY <1>1, <1>5, <1>6

LEMMA ApplyWalk ==
    ASSUME WalkInv, NEW n \in Nat, NEW S, NEW sels \in [1..n -> S], OnboardApply(sels)
    PROVE  WalkInv'
<1> DEFINE pg == Pg!ApplyOnboardScan(db, sels)
<1>1. \/ Respond(400, "scans", 0, NoRows, db, "same")
      \/ Answer("scans", pg, Lite!NotImplemented(db), 200, 500, 0)
    BY Zenon DEF OnboardApply
<1>2. Aged(pg, db)
    BY ApplyAges DEF WalkInv
<1> HIDE DEF pg
<1>3. CASE Respond(400, "scans", 0, NoRows, db, "same")
    BY <1>3, PlainWalk
<1>4. CASE Answer("scans", pg, Lite!NotImplemented(db), 200, 500, 0)
    BY <1>2, <1>4, StubWalk
<1> QED  BY <1>1, <1>3, <1>4

LEMMA PgPage ==
    ASSUME NEW d, NEW t, NEW ids, NEW newest, NEW page, NEW per
    PROVE  Pg!PageOf(d, t, ids, newest, page, per) = PageOf(d, t, ids, newest, page, per)
BY Zenon DEF Pg!PageOf, PageOf, Pg!Cardinality, Cardinality, Pg!Max, Max, Pg!Min, Min
LEMMA LitePage ==
    ASSUME NEW d, NEW t, NEW ids, NEW newest, NEW page, NEW per
    PROVE  Lite!PageOf(d, t, ids, newest, page, per) = PageOf(d, t, ids, newest, page, per)
BY Zenon DEF Lite!PageOf, PageOf, Lite!Cardinality, Cardinality, Lite!Max, Max, Lite!Min, Min

\* the pages a store may answer the walk with
Pages(newest) == PageOf(db, TableOf(pager.list), On(db, pager), newest, pager.page, pager.per)

\* Newest first in PostgreSQL, oldest first in SQLite.
LEMMA PickPages ==
    ASSUME NEW pg, NEW lite, pg = Pages(TRUE), lite = Pages(FALSE)
    PROVE  Pick(pg, lite) = Pages(backend = "pg")
<1>1. CASE backend = "pg"
  <2>1. (backend = "pg") = TRUE
      BY <1>1
  <2> QED  BY <1>1, <2>1 DEF Pick
<1>2. CASE backend # "pg"
  <2>1. (backend = "pg") = FALSE
      BY <1>2
  <2> QED  BY <1>2, <2>1 DEF Pick
<1> QED  BY <1>1, <1>2

\* Every list asks its store for a page of the rows the client walks through.
LEMMA ListsPage ==
    ASSUME ListStep
    PROVE  \E list \in Lists : Page(list, Pages(backend = "pg"))
<1> DEFINE k == pager.page
           per == pager.per
           t == TableOf(pager.list)
           ids == On(db, pager)
<1>a. Lists = {"projects", "sources", "sourcesOf", "contexts", "channels", "subs"}
    BY DEF Lists
<1>b. ASSUME NEW x PROVE Pg!Ids(db, x) = Ids(db, x) /\ Lite!Ids(db, x) = Ids(db, x)
    BY DEF Ids, Pg!Ids, Lite!Ids
<1>1. CASE ProjectsList
  <2> DEFINE pg == Pg!ListProjects(db, k, per)
             lite == Lite!ListProjects(db, k, per)
  <2>1. Page("projects", Pick(pg, lite))
      BY <1>1 DEF ProjectsList
  <2>2. ids = Ids(db, "projects") /\ t = "projects"
      BY <2>1 DEF Page, On, Rows, TableOf, ByProject
  <2>3. pg = Pages(TRUE) /\ lite = Pages(FALSE)
      BY <1>b, <2>2, PgPage, LitePage DEF Pg!ListProjects, Lite!ListProjects, Pages
  <2> HIDE DEF pg, lite
  <2> QED  BY <1>a, <2>1, <2>3, PickPages
<1>2. CASE SourcesListAll
  <2> DEFINE pg == Pg!ListAllSources(db, k, per)
             lite == Lite!ListAllSources(db, k, per)
  <2>1. Page("sources", Pick(pg, lite))
      BY <1>2 DEF SourcesListAll
  <2>2. ids = Ids(db, "sources") /\ t = "sources"
      BY <2>1 DEF Page, On, Rows, TableOf, ByProject
  <2>3. pg = Pages(TRUE) /\ lite = Pages(FALSE)
      BY <1>b, <2>2, PgPage, LitePage DEF Pg!ListAllSources, Lite!ListAllSources, Pages
  <2> HIDE DEF pg, lite
  <2> QED  BY <1>a, <2>1, <2>3, PickPages
<1>3. CASE SourcesList
  <2> DEFINE pg == Pg!ListSourcesByProject(db, pager.of, k, per)
             lite == Lite!ListSourcesByProject(db, pager.of, k, per)
  <2>1. Page("sourcesOf", Pick(pg, lite))
      BY <1>3 DEF SourcesList
  <2>2. ids = {i \in Ids(db, "sources") : db.tab["sources"][i].project = pager.of} /\ t = "sources"
      BY <2>1 DEF Page, On, Rows, TableOf, ByProject
  <2>3. Pg!SourcesOf(db, pager.of) = ids /\ Lite!SourcesOf(db, pager.of) = ids
      BY <1>b, <2>2 DEF Pg!SourcesOf, Lite!SourcesOf
  <2>4. pg = Pages(TRUE) /\ lite = Pages(FALSE)
      BY <2>2, <2>3, PgPage, LitePage DEF Pg!ListSourcesByProject, Lite!ListSourcesByProject, Pages
  <2> HIDE DEF pg, lite
  <2> QED  BY <1>a, <2>1, <2>4, PickPages
<1>4. CASE ContextSourcesList
  <2> DEFINE pg == Pg!ListContextSources(db, pager.of, k, per)
  <2>1. Page("contexts", pg) /\ backend = "pg"
      BY <1>4 DEF ContextSourcesList
  <2>2. ids = {i \in Ids(db, "contexts") : db.tab["contexts"][i].project = pager.of} /\ t = "contexts"
      BY <2>1 DEF Page, On, Rows, TableOf, ByProject
  <2>3. Pg!ContextsOf(db, pager.of) = ids
      BY <1>b, <2>2 DEF Pg!ContextsOf
  <2>4. pg = Pages(TRUE)
      BY <2>2, <2>3, PgPage DEF Pg!ListContextSources, Pages
  <2>5. (backend = "pg") = TRUE
      BY <2>1
  <2> HIDE DEF pg
  <2> QED  BY <1>a, <2>1, <2>4, <2>5
<1>5. CASE ChannelsList
  <2> DEFINE pg == Pg!ListChannels(db, k, per)
             lite == Lite!ListChannels(db, k, per)
  <2>1. Page("channels", Pick(pg, lite))
      BY <1>5 DEF ChannelsList
  <2>2. ids = Ids(db, "channels") /\ t = "channels"
      BY <2>1 DEF Page, On, Rows, TableOf, ByProject
  <2>3. pg = Pages(TRUE) /\ lite = Pages(FALSE)
      BY <1>b, <2>2, PgPage, LitePage DEF Pg!ListChannels, Lite!ListChannels, Pages
  <2> HIDE DEF pg, lite
  <2> QED  BY <1>a, <2>1, <2>3, PickPages
<1>6. CASE SubscriptionsList
  <2> DEFINE pg == Pg!ListSubscriptions(db, k, per)
             lite == Lite!ListSubscriptions(db, k, per)
  <2>1. Page("subs", Pick(pg, lite))
      BY <1>6 DEF SubscriptionsList
  <2>2. ids = Ids(db, "subs") /\ t = "subs"
      BY <2>1 DEF Page, On, Rows, TableOf, ByProject
  <2>3. pg = Pages(TRUE) /\ lite = Pages(FALSE)
      BY <1>b, <2>2, PgPage, LitePage DEF Pg!ListSubscriptions, Lite!ListSubscriptions, Pages
  <2> HIDE DEF pg, lite
  <2> QED  BY <1>a, <2>1, <2>3, PickPages
<1> QED  BY <1>1, <1>2, <1>3, <1>4, <1>5, <1>6 DEF ListStep

\* A page adds the rows at its places, and the client stops only at the list's end.
LEMMA PageWalk ==
    ASSUME WalkInv, NEW list, Page(list, Pages(backend = "pg"))
    PROVE  WalkInv'
<1> DEFINE newest == backend = "pg"
           t == TableOf(pager.list)
           ids == On(db, pager)
           page == pager.page
           per == pager.per
           lo == (page - 1) * per
<1>1. PICK S \in Pages(newest) :
        pager' = [pager EXCEPT !.seen = @ \cup S, !.page = @ + 1,
                               !.phase = IF Cardinality(S) = pager.per THEN "count" ELSE "done"]
    BY DEF Page
<1>2. UNCHANGED <<backend, db, reply>> /\ pager.phase = "page" /\ PagerType(pager)
    BY DEF Page, WalkInv, WalkOf
<1>3. /\ DOMAIN pager' = DOMAIN pager /\ pager'.list = pager.list /\ pager'.of = pager.of /\ pager'.per = per
      /\ pager'.page = page + 1 /\ pager'.start = pager.start /\ pager'.seen = pager.seen \cup S
      /\ pager'.total = pager.total /\ pager'.lost = pager.lost /\ pager'.grown = pager.grown
      /\ pager'.phase = IF Cardinality(S) = per THEN "count" ELSE "done"
    BY <1>1, <1>2 DEF PagerType, Idle
<1>4. pager.list \in Lists /\ per \in Nat \ {0} /\ page \in Nat \ {0}
    BY <1>2 DEF PagerType
<1>5. PagerType(pager')
    BY <1>2, <1>3, <1>4 DEF PagerType
<1>6. lo \in Nat /\ ((page + 1) - 1) * per = lo + per
    BY <1>4
<1>7. Timed(db, t, ids)
    BY <1>4, OnTimed DEF WalkInv
<1>8. newest \in BOOLEAN /\ S \in PageOf(db, t, ids, newest, page, per)
    BY <1>1 DEF Pages
<1> HIDE DEF newest, t, ids, page, per
<1>9. /\ S \subseteq ids
      /\ \A i \in ids : Single(db, t, ids, i) /\ lo <= Cardinality(Before(db, t, ids, newest, i))
                        /\ Cardinality(Before(db, t, ids, newest, i)) < lo + per => i \in S
      /\ Cardinality(S) # per => \A i \in ids : Cardinality(Before(db, t, ids, newest, i)) < lo + per
    BY <1>4, <1>6, <1>7, <1>8, PageHas
<1>10. ASSUME ~pager.lost PROVE Faithful(db, newest, pager')
  <2>1. Faithful(db, newest, pager)
      BY <1>2, <1>10 DEF WalkInv, WalkOf, newest
  <2>2. pager.start \subseteq ids /\ pager.seen \subseteq ids /\ (~pager.grown => ids = pager.start)
        /\ (~pager.grown => pager.total = Cardinality(pager.start))
      BY <1>2, <2>1 DEF Faithful, ids
  <2>3. On(db, pager') = ids /\ TableOf(pager'.list) = t
      BY <1>3 DEF On, ids, t
  <2>4. ASSUME NEW i \in pager.start, Single(db, t, ids, i), Passed(db, newest, pager', i)
        PROVE  i \in pager.seen \cup S
    <3> DEFINE b == Cardinality(Before(db, t, ids, newest, i))
    <3>1. Before(db, t, ids, newest, i) \subseteq ids /\ IsFiniteSet(ids)
        BY <1>7 DEF Before, Timed
    <3>2. b \in Nat
        BY <3>1, FS_Subset, FS_CardinalityType
    <3>3. b < lo + per
      <4>1. CASE Cardinality(S) = per
        <5>1. b < (pager'.page - 1) * pager'.per
            BY <1>3, <2>3, <2>4, <4>1 DEF Passed
        <5> QED  BY <1>3, <1>6, <5>1
      <4>2. CASE Cardinality(S) # per
          BY <1>9, <2>2, <4>2
      <4> QED  BY <4>1, <4>2
    <3>4. CASE b < lo
      <4>1. Passed(db, newest, pager, i)
          BY <3>4 DEF Passed, t, ids, page, per
      <4>2. i \in pager.seen
          BY <2>1, <2>4, <4>1 DEF Faithful, t, ids
      <4> QED  BY <4>2
    <3> HIDE DEF b, lo
    <3>5. CASE ~(b < lo)
      <4>1. lo <= b
          BY <1>6, <3>2, <3>5
      <4> QED  BY <1>9, <2>2, <2>4, <3>3, <4>1 DEF b
    <3> QED  BY <3>4, <3>5
  <2> QED  BY <1>3, <1>9, <2>2, <2>3, <2>4 DEF Faithful
<1>11. WalkOf(db, newest, pager')
    BY <1>3, <1>5, <1>10 DEF WalkOf
<1> QED  BY <1>2, <1>11 DEF WalkInv, newest

\* A walk begins.
LEMMA OpenWalk ==
    ASSUME WalkInv, NEW list \in Lists, NEW asked \in AskedPerPage, NEW of, Open(list, of, asked)
    PROVE  WalkInv'
<1> DEFINE p == [Idle EXCEPT !.phase = "count", !.list = list, !.of = of, !.page = 1,
                             !.per = ParsePagination(asked), !.start = Rows(db, list, of)]
<1>1. pager' = p /\ UNCHANGED <<backend, db>>
    BY DEF Open
<1>2. /\ DOMAIN p = DOMAIN Idle /\ p.phase = "count" /\ p.list = list /\ p.of = of /\ p.page = 1
      /\ p.per = ParsePagination(asked) /\ p.start = Rows(db, list, of) /\ p.seen = {}
      /\ p.lost = FALSE /\ p.grown = FALSE
    BY DEF Idle
<1>3. p.per \in Nat \ {0}
    BY <1>2, CatalogAssumption DEF ParsePagination
<1> HIDE DEF p
<1>4. PagerType(p)
    BY <1>2, <1>3 DEF PagerType
<1>5. On(db, p) = p.start
    BY <1>2 DEF On
<1>6. ASSUME NEW newest PROVE Faithful(db, newest, p)
  <2>1. ASSUME NEW i \in p.start, Passed(db, newest, p, i) PROVE FALSE
    <3>1. Timed(db, TableOf(list), On(db, p))
        BY <1>2, OnTimed DEF WalkInv
    <3> DEFINE b == Before(db, TableOf(list), On(db, p), newest, i)
    <3>2. b \subseteq On(db, p)
        BY DEF Before
    <3>3. Cardinality(b) < (1 - 1) * p.per
        BY <1>2, <2>1 DEF Passed
    <3> HIDE DEF b
    <3>4. Cardinality(b) \in Nat
        BY <3>1, <3>2, FS_Subset, FS_CardinalityType DEF Timed
    <3>5. (1 - 1) * p.per = 0
        BY <1>3
    <3> QED  BY <3>3, <3>4, <3>5
  <2> QED  BY <1>2, <1>5, <2>1 DEF Faithful
<1>7. WalkOf(db', backend' = "pg", pager')
    BY <1>1, <1>4, <1>6 DEF WalkOf
<1> QED  BY <1>1, <1>7 DEF WalkInv

\* The total.
LEMMA CountWalk == ASSUME WalkInv, CountRows PROVE WalkInv'
<1> DEFINE p == [pager EXCEPT !.phase = "page", !.total = Cardinality(Rows(db, pager.list, pager.of))]
<1>1. pager' = p /\ UNCHANGED <<backend, db>> /\ pager.phase = "count" /\ PagerType(pager)
    BY DEF CountRows, WalkInv, WalkOf
<1>2. /\ DOMAIN p = DOMAIN pager /\ p.phase = "page" /\ p.list = pager.list /\ p.of = pager.of /\ p.page = pager.page
      /\ p.per = pager.per /\ p.start = pager.start /\ p.seen = pager.seen /\ p.lost = pager.lost /\ p.grown = pager.grown
      /\ p.total = Cardinality(On(db, pager))
    BY <1>1 DEF PagerType, Idle, On
<1> HIDE DEF p
<1>3. PagerType(p)
    BY <1>1, <1>2 DEF PagerType
<1>4. On(db, p) = On(db, pager)
    BY <1>2 DEF On
<1>5. ASSUME NEW newest, Faithful(db, newest, pager) PROVE Faithful(db, newest, p)
  <2>1. \A i : Passed(db, newest, p, i) => Passed(db, newest, pager, i)
      BY <1>1, <1>2, <1>4 DEF Passed
  <2> QED  BY <1>1, <1>2, <1>4, <1>5, <2>1 DEF Faithful
<1>6. WalkOf(db', backend' = "pg", pager')
    BY <1>1, <1>2, <1>3, <1>5 DEF WalkOf, WalkInv
<1> QED  BY <1>1, <1>6 DEF WalkInv

\* Nothing is walked through yet.
LEMMA WalkBegins == CatalogInit => WalkInv
<1> SUFFICES ASSUME CatalogInit PROVE WalkInv
    OBVIOUS
<1>1. CatalogInv
    BY CatalogBegins
<1>2. \A t \in Tables : Ids(db, t) = {}
    BY DEF CatalogInit, EmptyDb, Ids, NoRows
<1>3. Shaped(db) /\ Stamps(db)
    BY <1>1, <1>2, InOrder DEF Stamps
<1>4. WalkOf(db, backend = "pg", pager)
    BY DEF CatalogInit, Idle, WalkOf, PagerType
<1> QED  BY <1>3, <1>4 DEF WalkInv

\* Every step of the handlers, over either store.
LEMMA WalkStep == ASSUME WalkInv, CatalogNext PROVE WalkInv'
<1>1. CASE \E fk \in IF backend = "pg" THEN {TRUE} ELSE Pooled :
       \/ /\ Takes({"projects", "sources", "contexts", "subs"})
          /\ \/ \E name \in Names \cup {Blank} : ProjectsCreate(fk, name)
             \/ \E name \in {"renamed", Blank}, id \in Known("projects") : ProjectsUpdate(fk, id, name)
             \/ \E id \in Known("projects") : ProjectsDelete(fk, id)
             \/ \E sels \in Selections : OnboardApply(sels)
       \/ /\ Takes({"sources", "subs"})
          /\ \/ \E repo \in Repos \cup {Blank}, on \in BOOLEAN :
                  \/ \E project \in Known("projects") : SourcesCreate(fk, project, repo, on)
                  \/ \E id \in Known("sources") : SourcesUpdate(fk, id, repo, on)
             \/ \E id \in Known("sources") : SourcesDelete(fk, id)
       \/ /\ Takes({"channels", "subs"})
          /\ \/ \E type \in Senders \cup {"other", Blank} :
                  ChannelsCreate(fk, type) \/ \E id \in Known("channels") : ChannelsUpdate(fk, id, type)
             \/ \E id \in Known("channels") : ChannelsDelete(fk, id)
       \/ /\ Takes({"subs"})
          /\ \/ \E sub \in SubInputs : SubscriptionsCreate(fk, sub) \/ \E id \in Known("subs") : SubscriptionsUpdate(fk, id, sub)
             \/ \E id \in Known("subs") : SubscriptionsDelete(fk, id)
             \/ \E channel \in Known("channels") \cup {NULL}, type \in SubTypes :
                  \E ids \in Lists2(Known(IF type = "source_release" THEN "sources" ELSE "projects")) :
                    SubscriptionsBatchCreate(fk, channel, type, ids)
             \/ \E ids \in SUBSET Known("subs") : SubscriptionsBatchDelete(fk, ids)
  <2> PICK fk \in IF backend = "pg" THEN {TRUE} ELSE Pooled :
         \/ \E name : ProjectsCreate(fk, name)
         \/ \E name, id : ProjectsUpdate(fk, id, name)
         \/ \E id : ProjectsDelete(fk, id)
         \/ \E sels \in Selections : OnboardApply(sels)
         \/ \E project, repo, on : SourcesCreate(fk, project, repo, on)
         \/ \E id, repo, on : SourcesUpdate(fk, id, repo, on)
         \/ \E id : SourcesDelete(fk, id)
         \/ \E type : ChannelsCreate(fk, type)
         \/ \E id, type : ChannelsUpdate(fk, id, type)
         \/ \E id : ChannelsDelete(fk, id)
         \/ \E sub \in SubInputs : SubscriptionsCreate(fk, sub)
         \/ \E id : \E sub \in SubInputs : SubscriptionsUpdate(fk, id, sub)
         \/ \E id : SubscriptionsDelete(fk, id)
         \/ \E channel, type, S : \E ids \in Lists2(S) : SubscriptionsBatchCreate(fk, channel, type, ids)
         \/ \E ids : SubscriptionsBatchDelete(fk, ids)
      BY <1>1, ZenonT(60)
  <2>1. fk \in BOOLEAN
      BY CatalogAssumption DEF Lite!Connections
  <2>2. CASE \/ \E name : ProjectsCreate(fk, name)
             \/ \E name, id : ProjectsUpdate(fk, id, name)
             \/ \E id : ProjectsDelete(fk, id)
      BY <2>1, <2>2, ProjectsWalk
  <2>3. CASE \/ \E project, repo, on : SourcesCreate(fk, project, repo, on)
             \/ \E id, repo, on : SourcesUpdate(fk, id, repo, on)
             \/ \E id : SourcesDelete(fk, id)
      BY <2>1, <2>3, SourcesWalk
  <2>4. CASE \/ \E type : ChannelsCreate(fk, type)
             \/ \E id, type : ChannelsUpdate(fk, id, type)
             \/ \E id : ChannelsDelete(fk, id)
      BY <2>1, <2>4, ChannelsWalk
  <2>5. CASE \/ \E sub \in SubInputs : SubscriptionsCreate(fk, sub)
             \/ \E id : \E sub \in SubInputs : SubscriptionsUpdate(fk, id, sub)
      BY <2>1, <2>5, SubscriptionsWalk
  <2>6. CASE \E id : SubscriptionsDelete(fk, id)
      BY <2>6, AllTables, DeleteWalk DEF SubscriptionsDelete, Pg!DeleteSubscription, Lite!DeleteSubscription
  <2>7. CASE \E channel, type, S : \E ids \in Lists2(S) : SubscriptionsBatchCreate(fk, channel, type, ids)
      BY <2>1, <2>7, ShortLists, BatchCreateWalk
  <2>8. CASE \E ids : SubscriptionsBatchDelete(fk, ids)
      BY <2>8, BatchDeleteWalk
  <2>9. CASE \E sels \in Selections : OnboardApply(sels)
      BY <2>9, SomeSelections, ApplyWalk
  <2> QED  BY <2>2, <2>3, <2>4, <2>5, <2>6, <2>7, <2>8, <2>9
<1>2. CASE \/ \E id : ContextSourcesDelete(id)
           \/ \E project, type : ContextSourcesCreate(project, type)
           \/ \E id, type : ContextSourcesUpdate(id, type)
           \/ \E id : ContextSourcesGet(id)
    BY <1>2, ContextsWalk
<1>3. CASE \E id : ProjectsGet(id) \/ SourcesGet(id) \/ ChannelsGet(id) \/ ChannelsTest(id)
  <2> DEFINE fk == TRUE
  <2>1. fk \in BOOLEAN
      OBVIOUS
  <2> HIDE DEF fk
  <2> QED  BY <1>3, <2>1, ProjectsWalk, SourcesWalk, ChannelsWalk
<1>4. CASE \E id : SubscriptionsGet(id)
    BY <1>4, GetWalk DEF SubscriptionsGet, Pg!GetSubscription, Lite!GetSubscription
<1>5. CASE Sent
    BY <1>5 DEF Sent, WalkInv
<1>6. CASE CountRows
    BY <1>6, CountWalk
<1>7. CASE ListStep
    BY <1>7, ListsPage, PageWalk
<1>8. CASE \E of : \E list \in Lists, asked \in AskedPerPage : Open(list, of, asked)
    BY <1>8, OpenWalk
<1> QED  BY <1>1, <1>2, <1>3, <1>4, <1>5, <1>6, <1>7, <1>8, ZenonT(60) DEF CatalogNext

\* A client that has walked through a list page by page to its end, over either store,
\* has seen every row that was there when it began and has its creation time for
\* itself, however rows come in and are edited between its statements, as long as none
\* of the list is deleted; and when the list stayed as it was, the total is what it saw.
THEOREM CatalogPages == CatalogSpec => []PagesMissNothing
<1>1. CatalogInit => WalkInv
    BY WalkBegins
<1>2. WalkInv /\ [CatalogNext]_catalogVars => WalkInv'
  <2>1. CASE CatalogNext
      BY <2>1, WalkStep
  <2>2. CASE UNCHANGED catalogVars
      BY <2>2 DEF catalogVars, WalkInv
  <2> QED  BY <2>1, <2>2
<1>3. WalkInv => PagesMissNothing
  <2> DEFINE t == TableOf(pager.list)
             ids == On(db, pager)
             Alone(i) == \A j \in Ids(db, t) \ {i} : db.tab[t][j].at # db.tab[t][i].at
             ties == \E i \in pager.start \cap Ids(db, t) : ~Alone(i)
  <2> SUFFICES ASSUME WalkInv, pager.phase = "done", ~pager.lost
               PROVE  /\ ~ties => \A i \in pager.start \cap Ids(db, t) : i \in pager.seen
                      /\ ~ties /\ ~pager.grown => Cardinality(pager.seen) = pager.total
      BY DEF PagesMissNothing
  <2>1. Faithful(db, backend = "pg", pager)
      BY DEF WalkInv, WalkOf
  <2>2. ids \subseteq Ids(db, t)
      BY OnIds
  <2>3. pager.start \subseteq ids /\ pager.seen \subseteq ids /\ (~pager.grown => ids = pager.start)
        /\ (~pager.grown => pager.total = Cardinality(pager.start))
        /\ \A i \in pager.start : Single(db, t, ids, i) => i \in pager.seen
      BY <2>1 DEF Faithful, Passed
  <2>4. ASSUME ~ties, NEW i \in pager.start PROVE i \in pager.seen
    <3>1. Alone(i)
        BY <2>2, <2>3, <2>4
    <3>2. Single(db, t, ids, i)
        BY <2>2, <3>1 DEF Single
    <3> QED  BY <2>3, <3>2
  <2> HIDE DEF ties, ids
  <2>5. ASSUME ~ties, ~pager.grown PROVE pager.seen = pager.start
      BY <2>3, <2>4, <2>5
  <2> QED  BY <2>3, <2>4, <2>5
<1> QED  BY <1>1, <1>2, <1>3, PTL DEF CatalogSpec
=============================================================================
