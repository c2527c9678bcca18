-------------------------------- MODULE Sql --------------------------------
(* What both databases do with a statement, as far as the two stores use it: *)
(* a schema gives each table its unique keys, its foreign keys (all of them  *)
(* ON DELETE CASCADE) and the CHECK on subscriptions.  A database is a        *)
(* record: tab, the tables as functions from ids to rows, and next, which     *)
(* supplies both the ids, never used twice, and the time of a transaction.    *)
(* The result of a statement is [err, db, rows]: on an error the database is  *)
(* as before, rows is what RETURNING, or the query, hands back.               *)
EXTENDS Integers, FiniteSets, FiniteSetsExt, SequencesExt

NULL == 0
Tables == {"projects", "sources", "contexts", "channels", "subs", "releases"}
NoRows == [i \in {} |-> NULL]
EmptyDb == [tab |-> [t \in Tables |-> NoRows], next |-> 1]

Failed(d) == [err |-> TRUE, db |-> d, rows |-> NoRows]
Ids(d, t) == DOMAIN d.tab[t]
Only(i, row) == [j \in {i} |-> row]
\* f, and g where f says nothing
Merge(f, g) == [x \in DOMAIN f \cup DOMAIN g |-> IF x \in DOMAIN f THEN f[x] ELSE g[x]]

\* a row may be written: keys unique, references resolved, the CHECK satisfied
RowAllowed(schema, d, t, id, row) ==
  /\ \A key \in schema[t].unique : \A j \in Ids(d, t) \ {id} : \E c \in key : d.tab[t][j][c] # row[c]
  /\ \A ref \in schema[t].refs : row[ref.col] = NULL \/ row[ref.col] \in Ids(d, ref.table)
  /\ t = "subs" => /\ row.channel # NULL
                   /\ (row.type = "source_release") = (row.source # NULL)
                   /\ (row.type = "semantic_release") = (row.project # NULL)

\* the tables with further rows in t
Adding(d, t, rows) == [d.tab EXCEPT ![t] = Merge(rows, @)]
\* created_at DEFAULT NOW()
Stamped(d, row) == Merge(row, [at |-> d.next])
Insert(schema, d, t, row) ==
  LET new == Only(d.next, Stamped(d, row))
  IN  IF RowAllowed(schema, d, t, d.next, Stamped(d, row))
      THEN [err |-> FALSE, rows |-> new, db |-> [tab |-> Adding(d, t, new), next |-> d.next + 1]]
      ELSE Failed(d)

\* the inserts of one transaction: the same NOW() for every row, all or nothing
InsertAll(schema, d, t, rows) ==
  LET New(n) == [i \in d.next .. (d.next + n - 1) |-> Stamped(d, rows[i - d.next + 1])]
      After(n) == [tab |-> Adding(d, t, New(n)), next |-> d.next + n]
      all == New(Len(rows))
  IN  IF \A i \in DOMAIN all : RowAllowed(schema, After(i - d.next), t, i, all[i])
      THEN [err |-> FALSE, db |-> After(Len(rows)), rows |-> all]
      ELSE Failed(d)

\* UPDATE ... WHERE id = ..., an error when it touches no row
Update(schema, d, t, id, cols) ==
  IF id \in Ids(d, t) /\ RowAllowed(schema, d, t, id, Merge(cols, d.tab[t][id]))
  THEN LET row == Merge(cols, d.tab[t][id])
       IN  [err |-> FALSE, db |-> [d EXCEPT !.tab[t][id] = row], rows |-> Only(id, row)]
  ELSE Failed(d)

\* the rows that go with those in gone: one round of ON DELETE CASCADE
Cascade(schema, d, gone) ==
  [t \in Tables |-> gone[t] \cup {i \in Ids(d, t) : \E ref \in schema[t].refs : d.tab[t][i][ref.col] \in gone[ref.table]}]

\* references are two deep (project, source, release or subscription)
Delete(schema, d, t, ids) ==
  LET gone == Cascade(schema, d, Cascade(schema, d, [u \in Tables |-> IF u = t THEN ids ELSE {}]))
      Rest(u) == [i \in Ids(d, u) \ gone[u] |-> d.tab[u][i]]
  IN  [err |-> FALSE, db |-> [d EXCEPT !.tab = [u \in Tables |-> Rest(u)]],
       rows |-> [i \in ids \cap Ids(d, t) |-> d.tab[t][i]]]

\* DELETE of a store that calls it an error when no row was affected
DeleteExisting(schema, d, t, ids) == IF ids \cap Ids(d, t) = {} THEN Failed(d) ELSE Delete(schema, d, t, ids)

Get(d, t, id) == IF id \in Ids(d, t) THEN [err |-> FALSE, db |-> d, rows |-> Only(id, d.tab[t][id])] ELSE Failed(d)

\* ORDER BY created_at LIMIT perPage OFFSET (page - 1) * perPage over the rows
\* in ids: the sets of rows that may come back, rows of equal created_at being
\* in any order among themselves
PageOf(d, t, ids, newestFirst, page, perPage) ==
  LET lo == (page - 1) * perPage
      At(i) == d.tab[t][i].at
      Tied(i) == {j \in ids : At(j) = At(i)}
      Before(i) == Cardinality({j \in ids : IF newestFirst THEN At(j) > At(i) ELSE At(j) < At(i)})
      Share(i) == LET b == Before(i)
                      e == b + Cardinality(Tied(i))
                  IN  Max({0, Min({e, lo + perPage}) - Max({b, lo})})
  IN  {S \in SUBSET ids : \A i \in ids : Cardinality(S \cap Tied(i)) = Share(i)}
=============================================================================
