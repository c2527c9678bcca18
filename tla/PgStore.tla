------------------------------ MODULE PgStore ------------------------------
(* The catalogue in PostgreSQL (internal/api/pgstore.go): projects, sources, *)
(* context sources, channels and subscriptions, one operator per method of   *)
(* the store, on a database value of module Sql.                              *)
EXTENDS Sql

Ref(col, table) == [col |-> col, table |-> table]

\* the part of the schema the catalogue lives in
ProjectsTable == [unique |-> {{"name"}}, refs |-> {}]
SourcesTable == [unique |-> {{"repo"}}, refs |-> {Ref("project", "projects")}]
ContextsTable == [unique |-> {}, refs |-> {Ref("project", "projects")}]
ReleasesTable == [unique |-> {{"source", "version"}}, refs |-> {Ref("source", "sources")}]
ChannelsTable == [unique |-> {}, refs |-> {}]
SubsTable == [unique |-> {}, refs |-> {Ref("channel", "channels"), Ref("source", "sources"), Ref("project", "projects")}]
Schema == [projects |-> ProjectsTable, sources |-> SourcesTable, contexts |-> ContextsTable,
           releases |-> ReleasesTable, channels |-> ChannelsTable, subs |-> SubsTable]

CreateProject(d, p) == Insert(Schema, d, "projects", p)
GetProject(d, id) == Get(d, "projects", id)
UpdateProject(d, id, p) == Update(Schema, d, "projects", id, p)
DeleteProject(d, id) == DeleteExisting(Schema, d, "projects", {id})
\* Mutant: OFFSET page * per_page.
ListProjectsLate(d, page, per) == PageOf(d, "projects", Ids(d, "projects"), TRUE, page + 1, per)
ListProjects(d, page, per) == PageOf(d, "projects", Ids(d, "projects"), TRUE, page, per)

CreateSource(d, s) == Insert(Schema, d, "sources", s)
GetSource(d, id) == Get(d, "sources", id)
UpdateSource(d, id, s) == Update(Schema, d, "sources", id, [repo |-> s.repo, enabled |-> s.enabled])
\* Mutant: subscriptions do not go with the source they are about.
DeleteSourceOnly(d, id) == DeleteExisting([Schema EXCEPT !["subs"].refs = {}], d, "sources", {id})
DeleteSource(d, id) == DeleteExisting(Schema, d, "sources", {id})
SourcesOf(d, project) == {i \in Ids(d, "sources") : d.tab["sources"][i].project = project}
ListSourcesByProject(d, project, page, per) == PageOf(d, "sources", SourcesOf(d, project), TRUE, page, per)
ListAllSources(d, page, per) == PageOf(d, "sources", Ids(d, "sources"), TRUE, page, per)

CreateContextSource(d, c) == Insert(Schema, d, "contexts", c)
GetContextSource(d, id) == Get(d, "contexts", id)
UpdateContextSource(d, id, c) == Update(Schema, d, "contexts", id, [type |-> c.type])
DeleteContextSource(d, id) == DeleteExisting(Schema, d, "contexts", {id})
ContextsOf(d, project) == {i \in Ids(d, "contexts") : d.tab["contexts"][i].project = project}
ListContextSources(d, project, page, per) == PageOf(d, "contexts", ContextsOf(d, project), TRUE, page, per)

CreateChannel(d, c) == Insert(Schema, d, "channels", c)
GetChannel(d, id) == Get(d, "channels", id)
UpdateChannel(d, id, c) == Update(Schema, d, "channels", id, c)
DeleteChannel(d, id) == DeleteExisting(Schema, d, "channels", {id})
ListChannels(d, page, per) == PageOf(d, "channels", Ids(d, "channels"), TRUE, page, per)

CreateSubscription(d, s) == Insert(Schema, d, "subs", s)
\* Mutant: the batch is no transaction.
CreateSubscriptionBatchLoose(d, subs) ==
  LET One(acc, sub) == LET r == Insert(Schema, acc.db, "subs", sub)
                       IN  [err |-> acc.err \/ r.err, db |-> r.db, rows |-> Merge(acc.rows, r.rows)]
  IN  FoldLeft(One, [err |-> FALSE, db |-> d, rows |-> NoRows], subs)
CreateSubscriptionBatch(d, subs) == InsertAll(Schema, d, "subs", subs)
GetSubscription(d, id) == Get(d, "subs", id)
UpdateSubscription(d, id, s) == Update(Schema, d, "subs", id, s)
DeleteSubscription(d, id) == DeleteExisting(Schema, d, "subs", {id})
DeleteSubscriptionBatch(d, ids) == DeleteExisting(Schema, d, "subs", ids)
ListSubscriptions(d, page, per) == PageOf(d, "subs", Ids(d, "subs"), TRUE, page, per)

\* The selections of an onboarding scan in one transaction: a project where a name
\* is given, then the source, which is skipped when its repository has one.  Two
\* ids are set aside for each selection.
ProjectId(d, i) == d.next + 2 * i - 2
SourceId(d, i) == d.next + 2 * i - 1
ScanProject(d, sel) == [name |-> sel.name, at |-> d.next]
ScanSource(d, i, sel) == [project |-> IF sel.name = NULL THEN sel.project ELSE ProjectId(d, i),
                          repo |-> sel.repo, enabled |-> TRUE, at |-> d.next]
Skipped(d, sels, i) == \/ \E j \in Ids(d, "sources") : d.tab["sources"][j].repo = sels[i].repo
                       \/ \E k \in 1..(i - 1) : sels[k].repo = sels[i].repo
\* after the projects of the first m selections and the sources of the first n
Applied(d, sels, m, n) ==
  LET Slot(j) == (j - d.next) \div 2 + 1
      named == {ProjectId(d, i) : i \in {k \in 1..m : sels[k].name # NULL}}
      added == {SourceId(d, i) : i \in {k \in 1..n : ~Skipped(d, sels, k)}}
  IN  [tab |-> [d.tab EXCEPT !["projects"] = Merge([j \in named |-> ScanProject(d, sels[Slot(j)])], @),
                             !["sources"] = Merge([j \in added |-> ScanSource(d, Slot(j), sels[Slot(j)])], @)],
       next |-> d.next + 2 * Len(sels)]
ApplyOnboardScan(d, sels) ==
  IF \A i \in DOMAIN sels :
       /\ sels[i].name # NULL =>
            RowAllowed(Schema, Applied(d, sels, i - 1, i - 1), "projects", ProjectId(d, i), ScanProject(d, sels[i]))
       /\ ~Skipped(d, sels, i) =>
            RowAllowed(Schema, Applied(d, sels, i, i - 1), "sources", SourceId(d, i), ScanSource(d, i, sels[i]))
  THEN [err |-> FALSE, db |-> Applied(d, sels, Len(sels), Len(sels)), rows |-> NoRows]
  ELSE Failed(d)
=============================================================================
