---------------------------- MODULE SqliteStore ----------------------------
(* The catalogue and the releases of stealth mode in SQLite                  *)
(* (internal/stealth/store.go), method by method like PgStore.  NewStore      *)
(* turns foreign_keys on with one Exec on a database/sql pool; the pragma is  *)
(* a property of the connection that ran it, and the pool opens others when   *)
(* requests and polls overlap.  fk says whether the connection a method gets  *)
(* enforces foreign keys.                                                      *)
EXTENDS Sql

Ref(col, table) == [col |-> col, table |-> table]

\* what a connection may be: NewStore's own, or one the pool opened later
Connections == BOOLEAN

ProjectsTable == [unique |-> {{"name"}}, refs |-> {}]
SourcesTable == [unique |-> {{"repo"}}, refs |-> {Ref("project", "projects")}]
ReleasesTable == [unique |-> {{"source", "version"}}, refs |-> {Ref("source", "sources")}]
ChannelsTable == [unique |-> {}, refs |-> {}]
SubsTable == [unique |-> {}, refs |-> {Ref("channel", "channels"), Ref("source", "sources"), Ref("project", "projects")}]
\* without the pragma neither inserts and updates are checked nor deletes cascade
Schema(fk) ==
  LET On(table) == IF fk THEN table ELSE [table EXCEPT !.refs = {}]
  IN  [projects |-> On(ProjectsTable), sources |-> On(SourcesTable), releases |-> On(ReleasesTable), channels |-> On(ChannelsTable),
       subs |-> On(SubsTable), contexts |-> [unique |-> {}, refs |-> {}]]

CreateProject(fk, d, p) == Insert(Schema(fk), d, "projects", p)
GetProject(d, id) == Get(d, "projects", id)
UpdateProject(fk, d, id, p) == Update(Schema(fk), d, "projects", id, p)
DeleteProject(fk, d, id) == DeleteExisting(Schema(fk), d, "projects", {id})
ListProjects(d, page, per) == PageOf(d, "projects", Ids(d, "projects"), FALSE, page, per)

CreateSource(fk, d, s) == Insert(Schema(fk), d, "sources", s)
\* reading a row: every column the catalogue keeps comes back as it was written
scanSource(row) == row
GetSource(d, id) == IF id \in Ids(d, "sources")
                    THEN [err |-> FALSE, db |-> d, rows |-> Only(id, scanSource(d.tab["sources"][id]))] ELSE Failed(d)
\* Mutant: the column enabled is left out.
UpdateSourceRepo(fk, d, id, s) == Update(Schema(fk), d, "sources", id, [repo |-> s.repo])
UpdateSource(fk, d, id, s) == Update(Schema(fk), d, "sources", id, [repo |-> s.repo, enabled |-> s.enabled])
DeleteSource(fk, d, id) == DeleteExisting(Schema(fk), d, "sources", {id})
SourcesOf(d, project) == {i \in Ids(d, "sources") : d.tab["sources"][i].project = project}
ListSourcesByProject(d, project, page, per) == PageOf(d, "sources", SourcesOf(d, project), FALSE, page, per)
ListAllSources(d, page, per) == PageOf(d, "sources", Ids(d, "sources"), FALSE, page, per)
ListEnabledSources(d) == {i \in Ids(d, "sources") : d.tab["sources"][i].enabled}

CreateChannel(fk, d, c) == Insert(Schema(fk), d, "channels", c)
GetChannel(d, id) == Get(d, "channels", id)
UpdateChannel(fk, d, id, c) == Update(Schema(fk), d, "channels", id, c)
DeleteChannel(fk, d, id) == DeleteExisting(Schema(fk), d, "channels", {id})
ListChannels(d, page, per) == PageOf(d, "channels", Ids(d, "channels"), FALSE, page, per)

CreateSubscription(fk, d, s) == Insert(Schema(fk), d, "subs", s)
CreateSubscriptionBatch(fk, d, subs) == InsertAll(Schema(fk), d, "subs", subs)
GetSubscription(d, id) == Get(d, "subs", id)
UpdateSubscription(fk, d, id, s) == Update(Schema(fk), d, "subs", id, s)
DeleteSubscription(fk, d, id) == DeleteExisting(Schema(fk), d, "subs", {id})
DeleteSubscriptionBatch(fk, d, ids) == Delete(Schema(fk), d, "subs", ids)
ListSubscriptions(d, page, per) == PageOf(d, "subs", Ids(d, "subs"), FALSE, page, per)
ListSourceSubscriptions(d, source) ==
  {i \in Ids(d, "subs") : d.tab["subs"][i].type = "source_release" /\ d.tab["subs"][i].source = source}

\* every method of a stub store answers errNotImplemented
NotImplemented(d) == Failed(d)

\* releases are read joined with their source and its project
Joined(d, id) == /\ id \in Ids(d, "releases")
                 /\ d.tab["releases"][id].source \in Ids(d, "sources")
                 /\ d.tab["sources"][d.tab["releases"][id].source].project \in Ids(d, "projects")
GetRelease(d, id) == IF Joined(d, id) THEN Get(d, "releases", id) ELSE Failed(d)
ListAllReleases(d, page, per) == PageOf(d, "releases", {i \in Ids(d, "releases") : Joined(d, i)}, TRUE, page, per)
ListReleasesBySource(d, source, page, per) ==
  PageOf(d, "releases", {i \in Ids(d, "releases") : Joined(d, i) /\ d.tab["releases"][i].source = source}, TRUE, page, per)
ListReleasesByProject(d, project, page, per) ==
  PageOf(d, "releases", {i \in Ids(d, "releases") : Joined(d, i) /\ d.tab["releases"][i].source \in SourcesOf(d, project)},
         TRUE, page, per)

\* Mutant: the caller goes on with the id of the row.
IngestReleaseOldId(fk, d, source, version, content) ==
  LET old == {i \in Ids(d, "releases") : d.tab["releases"][i].source = source /\ d.tab["releases"][i].version = version}
      row == [source |-> source, version |-> version, content |-> content]
  IN  IF old = {} THEN Insert(Schema(fk), d, "releases", row)
      ELSE [err |-> FALSE, rows |-> Only(CHOOSE j \in old : TRUE, row),
            db |-> [d EXCEPT !.tab["releases"][CHOOSE j \in old : TRUE].content = content]]
\* the upsert: a fresh id is made before it, and rows holds what the caller goes
\* on with, under that id even when the row that exists keeps its own
IngestRelease(fk, d, source, version, content) ==
  LET old == {i \in Ids(d, "releases") : d.tab["releases"][i].source = source /\ d.tab["releases"][i].version = version}
      row == [source |-> source, version |-> version, content |-> content]
  IN  IF old = {} THEN Insert(Schema(fk), d, "releases", row)
      ELSE LET i == CHOOSE j \in old : TRUE
           IN  IF d.tab["releases"][i].content = content THEN [err |-> FALSE, db |-> d, rows |-> NoRows]
               ELSE [err |-> FALSE, rows |-> Only(d.next, row),
                     db |-> [tab |-> [d.tab EXCEPT !["releases"][i].content = content], next |-> d.next + 1]]
=============================================================================
