------------------------------ MODULE Catalog ------------------------------
(* The REST handlers for projects, sources, context sources, channels and    *)
(* subscriptions (internal/api), over either store: PostgreSQL in the server, *)
(* SQLite in stealth mode.  A request is validated, makes one store call and  *)
(* answers; a list makes two, the count and the page.  The polls that         *)
(* creating or updating a source starts are in Ingestion and Stealth.          *)
EXTENDS Sql

CONSTANTS Backends,      \* the stores to check: subset of {"pg", "sqlite"}
          Pooled,        \* the SQLite connections a request may get: subset of BOOLEAN
          Names, Repos,  \* names projects get, repositories of sources
          Senders,       \* channel types a sender is registered for
          MaxNext,       \* bound: ids and times given out
          DefaultPerPage, MaxPerPage, AskedPerPage

VARIABLES backend, \* the store behind the handlers, fixed at start
          db,      \* its contents
          reply,   \* the last answer: status, table and rows it is about, how many were asked for
          pager    \* one client that walks through a list page by page

catalogVars == <<backend, db, reply, pager>>

Pg == INSTANCE PgStore
Lite == INSTANCE SqliteStore

ASSUME CatalogAssumption ==
  /\ Backends \subseteq {"pg", "sqlite"} /\ Pooled \subseteq Lite!Connections
  /\ {DefaultPerPage, MaxPerPage} \subseteq Nat \ {0} /\ DefaultPerPage <= MaxPerPage /\ AskedPerPage \subseteq Int

Blank == "blank"   \* what is left of a missing or empty string after TrimSpace
Lists == {"projects", "sources", "sourcesOf", "contexts", "channels", "subs"}
ByProject == {"sourcesOf", "contexts"}
TableOf(list) == IF list = "sourcesOf" THEN "sources" ELSE list
\* ids a request may carry: those of the table and one that no row has
Known(t) == Ids(db, t) \cup {db.next}
Pick(pg, lite) == IF backend = "pg" THEN pg ELSE lite
\* what stealth mode has stubs for
NotInStealth == {"contexts", "scans"}
\* how the answers of the two stores to a request on the server compare: "same",
\* only the "answer" differs, or what the "db" holds afterwards
Compare(pg, lite) ==
  CASE backend # "pg" -> "same"
    [] backend = "pg" /\ \E t \in Tables \ {"contexts"} : pg.db.tab[t] # lite.db.tab[t] -> "db"
    [] OTHER -> IF pg.err = lite.err /\ pg.rows = lite.rows THEN "same" ELSE "answer"

-----------------------------------------------------------------------------
NoReply == [status |-> 0, table |-> "projects", asked |-> 0, gone |-> {}, twin |-> "same"]
Idle == [phase |-> "idle", list |-> "projects", of |-> NULL, per |-> 1, page |-> 0, total |-> 0, seen |-> {},
         start |-> {}, lost |-> FALSE, grown |-> FALSE]

CatalogInit == /\ backend \in Backends /\ db = EmptyDb
               /\ reply = NoReply /\ pager = Idle

\* the rows of the list the pager walks
Rows(d, list, of) == {i \in Ids(d, TableOf(list)) : list \in ByProject => d.tab[TableOf(list)][i].project = of}

Walking == pager.phase \in {"count", "page"}

\* The answer to a request and what a walk in progress misses by it; of an answer
\* the state keeps what the property HonestReply compares.  While a client walks,
\* only requests that change its list are taken: the others commute with the
\* statements of the walk, and are explored without one.
Respond(status, t, asked, rows, d, twin) ==
  LET old == Rows(db, pager.list, pager.of)
      new == Rows(d, pager.list, pager.of)
  IN  /\ reply = NoReply /\ (pager.phase = "idle" \/ (Walking /\ old # new))
      /\ db' = d
      /\ reply' = CASE ~Walking /\ status = 201 -> [NoReply EXCEPT !.status = 201, !.twin = twin, !.table = t, !.asked = asked]
                    [] ~Walking /\ status = 204 -> [NoReply EXCEPT !.status = 204, !.twin = twin, !.table = t, !.gone = DOMAIN rows]
                    [] ~Walking /\ status \notin {201, 204} -> [NoReply EXCEPT !.status = status, !.twin = twin]
                    [] OTHER -> NoReply
      /\ pager' = IF Walking
                  THEN [pager EXCEPT !.lost = @ \/ ~(old \subseteq new), !.grown = @ \/ ~(new \subseteq old)]
                  ELSE pager
      /\ UNCHANGED backend

\* the answer goes out
Sent == reply # NoReply /\ reply' = NoReply /\ UNCHANGED <<backend, db, pager>>

\* a store call that succeeds, or fails on the way to the database
Answer(t, pg, lite, ok, bad, asked) ==
  LET r == Pick(pg, lite)
  IN  \/ Respond(IF r.err THEN bad ELSE ok, t, asked, r.rows, r.db, IF t \in NotInStealth THEN "same" ELSE Compare(pg, lite))
      \/ Respond(bad, t, asked, NoRows, db, "same")
\* a request the handler refuses before it calls the store
Refuse(t) == Respond(422, t, 1, NoRows, db, "same")
\* validation, then the call
Handle(t, valid, pg, lite, ok, bad) == IF valid THEN Answer(t, pg, lite, ok, bad, 1) ELSE Refuse(t)
Room == db.next < MaxNext

-----------------------------------------------------------------------------
\* projects
ProjectsCreate(fk, name) == Room /\ LET p == [name |-> name] IN
  Handle("projects", name # Blank, Pg!CreateProject(db, p), Lite!CreateProject(fk, db, p), 201, 500)
ProjectsGet(id) == Answer("projects", Pg!GetProject(db, id), Lite!GetProject(db, id), 200, 404, 1)
ProjectsUpdate(fk, id, name) == LET p == [name |-> name] IN
  Handle("projects", name # Blank, Pg!UpdateProject(db, id, p), Lite!UpdateProject(fk, db, id, p), 200, 404)
ProjectsDelete(fk, id) ==
  Answer("projects", Pg!DeleteProject(db, id), Lite!DeleteProject(fk, db, id), 204, 404, 1)

\* sources
SourcesCreate(fk, project, repo, enabled) == Room /\ LET s == [project |-> project, repo |-> repo, enabled |-> enabled] IN
  Handle("sources", repo # Blank, Pg!CreateSource(db, s), Lite!CreateSource(fk, db, s), 201, 500)
SourcesGet(id) == Answer("sources", Pg!GetSource(db, id), Lite!GetSource(db, id), 200, 404, 1)
SourcesUpdate(fk, id, repo, enabled) == LET s == [repo |-> repo, enabled |-> enabled] IN
  Handle("sources", repo # Blank, Pg!UpdateSource(db, id, s), Lite!UpdateSource(fk, db, id, s), 200, 404)
SourcesDelete(fk, id) == Answer("sources", Pg!DeleteSource(db, id), Lite!DeleteSource(fk, db, id), 204, 404, 1)

\* context sources, a stub in stealth mode
ContextSourcesCreate(project, type) == Room /\ LET c == [project |-> project, type |-> type] IN
  Handle("contexts", type # Blank, Pg!CreateContextSource(db, c), Lite!NotImplemented(db), 201, 500)
ContextSourcesGet(id) == Answer("contexts", Pg!GetContextSource(db, id), Lite!NotImplemented(db), 200, 404, 1)
ContextSourcesUpdate(id, type) == Handle("contexts", type # Blank,
  Pg!UpdateContextSource(db, id, [type |-> type]), Lite!NotImplemented(db), 200, 404)
ContextSourcesDelete(id) ==
  Answer("contexts", Pg!DeleteContextSource(db, id), Lite!NotImplemented(db), 204, 404, 1)

\* channels
ChannelsCreate(fk, type) == Room /\ LET c == [type |-> type] IN
  Handle("channels", type # Blank, Pg!CreateChannel(db, c), Lite!CreateChannel(fk, db, c), 201, 500)
ChannelsGet(id) == Answer("channels", Pg!GetChannel(db, id), Lite!GetChannel(db, id), 200, 404, 1)
ChannelsUpdate(fk, id, type) == LET c == [type |-> type] IN
  Handle("channels", type # Blank, Pg!UpdateChannel(db, id, c), Lite!UpdateChannel(fk, db, id, c), 200, 404)
ChannelsDelete(fk, id) ==
  Answer("channels", Pg!DeleteChannel(db, id), Lite!DeleteChannel(fk, db, id), 204, 404, 1)
\* a test message: 404 without the channel, 422 without a sender for its type,
\* 502 when the sender fails
ChannelsTest(id) ==
  LET r == Pick(Pg!GetChannel(db, id), Lite!GetChannel(db, id))
  IN  CASE r.err -> Respond(404, "channels", 1, NoRows, db, "same")
        [] ~r.err /\ r.rows[id].type \notin Senders -> Refuse("channels")
        [] OTHER -> \E status \in {200, 502} : Respond(status, "channels", 1, NoRows, db, "same")

\* subscriptions: the id that goes with the type is required, the other one is
\* left to the CHECK of the table
Complete(sub) == /\ sub.type \in {"source_release", "semantic_release"} /\ sub.channel # NULL
                 /\ sub.type = "source_release" => sub.source # NULL
                 /\ sub.type = "semantic_release" => sub.project # NULL
SubscriptionsCreate(fk, sub) == Room /\
  Handle("subs", Complete(sub), Pg!CreateSubscription(db, sub), Lite!CreateSubscription(fk, db, sub), 201, 500)
SubscriptionsGet(id) == Answer("subs", Pg!GetSubscription(db, id), Lite!GetSubscription(db, id), 200, 404, 1)
SubscriptionsUpdate(fk, id, sub) == Handle("subs", Complete(sub),
  Pg!UpdateSubscription(db, id, sub), Lite!UpdateSubscription(fk, db, id, sub), 200, 404)
SubscriptionsDelete(fk, id) ==
  Answer("subs", Pg!DeleteSubscription(db, id), Lite!DeleteSubscription(fk, db, id), 204, 404, 1)
\* one subscription per id of the list, in one transaction
SubscriptionsBatchCreate(fk, channel, type, ids) ==
  LET Sub(i) == [channel |-> channel, type |-> type, source |-> IF type = "source_release" THEN ids[i] ELSE NULL,
                 project |-> IF type = "semantic_release" THEN ids[i] ELSE NULL]
      subs == [i \in DOMAIN ids |-> Sub(i)]
  IN  /\ db.next + Len(ids) <= MaxNext
      /\ IF type \notin {"source_release", "semantic_release"} \/ channel = NULL \/ ids = <<>> THEN Refuse("subs")
         ELSE Answer("subs", Pg!CreateSubscriptionBatch(db, subs), Lite!CreateSubscriptionBatch(fk, db, subs),
                     201, 500, Len(ids))
SubscriptionsBatchDelete(fk, ids) ==
  IF ids = {} THEN Refuse("subs")
  ELSE Answer("subs", Pg!DeleteSubscriptionBatch(db, ids), Lite!DeleteSubscriptionBatch(fk, db, ids),
              204, 500, Cardinality(ids))

\* POST /onboard/scans/{id}/apply: exactly one of project and name per selection
OnboardApply(sels) ==
  IF \E i \in DOMAIN sels : (sels[i].project = NULL) = (sels[i].name = NULL)
  THEN Respond(400, "scans", 0, NoRows, db, "same")
  ELSE Answer("scans", Pg!ApplyOnboardScan(db, sels), Lite!NotImplemented(db), 200, 500, 0)

-----------------------------------------------------------------------------
\* per_page as asked for, or the default when it is missing or out of range
ParsePagination(asked) == IF asked > 0 /\ asked <= MaxPerPage THEN asked ELSE DefaultPerPage

\* a client begins to walk through a list
Open(list, of, asked) ==
  /\ reply = NoReply /\ pager.phase = "idle"
  /\ pager' = [Idle EXCEPT !.phase = "count", !.list = list, !.of = of, !.page = 1,
                           !.per = ParsePagination(asked), !.start = Rows(db, list, of)]
  /\ UNCHANGED <<backend, db, reply>>
\* SELECT COUNT(star): the first of the two statements of a list
CountRows == /\ pager.phase = "count"
         /\ pager' = [pager EXCEPT !.phase = "page", !.total = Cardinality(Rows(db, pager.list, pager.of))]
         /\ UNCHANGED <<backend, db, reply>>
\* the second: the page, which goes out with the total; the client asks for the
\* next page until one is not full
Page(list, pages) ==
  /\ pager.phase = "page" /\ pager.list = list
  /\ \E S \in pages : pager' = [pager EXCEPT !.seen = @ \cup S, !.page = @ + 1,
                                             !.phase = IF Cardinality(S) = pager.per THEN "count" ELSE "done"]
  /\ UNCHANGED <<backend, db, reply>>

ProjectsList == LET k == pager.page IN
  Page("projects", Pick(Pg!ListProjects(db, k, pager.per), Lite!ListProjects(db, k, pager.per)))
SourcesListAll == LET k == pager.page IN
  Page("sources", Pick(Pg!ListAllSources(db, k, pager.per), Lite!ListAllSources(db, k, pager.per)))
SourcesList == LET k == pager.page IN
  Page("sourcesOf", Pick(Pg!ListSourcesByProject(db, pager.of, k, pager.per),
                         Lite!ListSourcesByProject(db, pager.of, k, pager.per)))
ContextSourcesList == backend = "pg" /\
  Page("contexts", Pg!ListContextSources(db, pager.of, pager.page, pager.per))
ChannelsList == LET k == pager.page IN
  Page("channels", Pick(Pg!ListChannels(db, k, pager.per), Lite!ListChannels(db, k, pager.per)))
SubscriptionsList == LET k == pager.page IN
  Page("subs", Pick(Pg!ListSubscriptions(db, k, pager.per), Lite!ListSubscriptions(db, k, pager.per)))
ListStep == ProjectsList \/ SourcesListAll \/ SourcesList \/ ContextSourcesList \/ ChannelsList \/ SubscriptionsList

-----------------------------------------------------------------------------
SubTypes == {"source_release", "semantic_release", Blank}
SubInputs == [channel : Known("channels") \cup {NULL}, type : SubTypes,
              source : Known("sources") \cup {NULL}, project : Known("projects") \cup {NULL}]
Lists2(S) == {<<>>} \cup {<<i>> : i \in S} \cup {<<i, j>> : i, j \in S}
\* selections that fit into the bound on ids
Selections ==
  LET one == [project : Known("projects") \cup {NULL}, name : Names \cup {NULL}, repo : Repos]
      most == (MaxNext - db.next) \div 2
  IN  UNION {[1..n -> one] : n \in 0..Min({2, most})}

\* a request is taken: no answer is under way, and a walk in progress is through a
\* list that a change of the table may reach
Takes(tables) == reply = NoReply /\ (pager.phase = "idle" \/ (Walking /\ TableOf(pager.list) \in tables))

CatalogNext ==
  \/ \E fk \in IF backend = "pg" THEN {TRUE} ELSE Pooled :
       \/ /\ Takes({"projects", "sources", "contexts", "subs"})
          /\ \/ \E name \in Names \cup {Blank} : ProjectsCreate(fk, name)
             \/ \E name \in {"renamed", Blank}, id \in Known("projects") : ProjectsUpdate(fk, id, name)
             \/ \E id \in Known("projects") : ProjectsDelete(fk, id)
             \/ \E sels \in Selections : OnboardApply(sels)
       \/ /\ Takes({"sources", "subs"})
          /\ \/ \E repo \in Repos \cup {Blank}, on \in BOOLEAN :
                  \/ \E project \in Known("projects") : SourcesCreate(fk, project, repo, on)
                  \/ \E id \in Known("sources") : SourcesUpdate(fk, id, repo, on)
             \/ \E id \in Known("sources") : SourcesDelete(fk, id)
       \/ /\ Takes({"channels", "subs"})
          /\ \/ \E type \in Senders \cup {"other", Blank} :
                  ChannelsCreate(fk, type) \/ \E id \in Known("channels") : ChannelsUpdate(fk, id, type)
             \/ \E id \in Known("channels") : ChannelsDelete(fk, id)
       \/ /\ Takes({"subs"})
          /\ \/ \E sub \in SubInputs : SubscriptionsCreate(fk, sub) \/ \E id \in Known("subs") : SubscriptionsUpdate(fk, id, sub)
             \/ \E id \in Known("subs") : SubscriptionsDelete(fk, id)
             \/ \E channel \in Known("channels") \cup {NULL}, type \in SubTypes :
                  \E ids \in Lists2(Known(IF type = "source_release" THEN "sources" ELSE "projects")) :
                    SubscriptionsBatchCreate(fk, channel, type, ids)
             \/ \E ids \in SUBSET Known("subs") : SubscriptionsBatchDelete(fk, ids)
  \/ /\ Takes({"contexts"})
     /\ \/ \E id \in Known("contexts") : ContextSourcesDelete(id)
        \/ \E type \in {"docs", Blank} : \/ \E project \in Known("projects") : ContextSourcesCreate(project, type)
                                         \/ \E id \in Known("contexts") : ContextSourcesUpdate(id, type)
  \/ /\ Takes({})
     /\ \/ \E id \in Known("projects") : ProjectsGet(id)
        \/ \E id \in Known("sources") : SourcesGet(id)
        \/ \E id \in Known("contexts") : ContextSourcesGet(id)
        \/ \E id \in Known("channels") : ChannelsGet(id) \/ ChannelsTest(id)
        \/ \E id \in Known("subs") : SubscriptionsGet(id)
        \/ \E list \in Lists, asked \in AskedPerPage :
             \E of \in IF list \in ByProject THEN Ids(db, "projects") ELSE {NULL} : Open(list, of, asked)
  \/ Sent \/ CountRows
  \/ ListStep

CatalogSpec == CatalogInit /\ [][CatalogNext]_catalogVars

-----------------------------------------------------------------------------
\* Every reference of a stored row resolves, whatever order requests delete and
\* create in: a source has its project, a subscription its channel and what it
\* subscribes to (the foreign keys of the schema and ON DELETE CASCADE).
NoDangling ==
  \A t \in Tables : \A i \in Ids(db, t) : \A ref \in Pg!Schema[t].refs :
    db.tab[t][i][ref.col] = NULL \/ db.tab[t][i][ref.col] \in Ids(db, ref.table)

\* An answer tells what happened: an error leaves the database as it was, even
\* half-way through a batch; 201 means that as many rows as were asked for are
\* there and nothing else changed; after 204 none of the rows is left.
HonestReply ==
  [][~Walking /\ (db' # db \/ reply' # reply) =>
       LET t == reply'.table
       IN  /\ reply'.status >= 400 => db' = db
           /\ reply'.status = 201 =>
                /\ Cardinality(Ids(db', t)) = Cardinality(Ids(db, t)) + reply'.asked
                /\ \A u \in Tables : \A i \in Ids(db, u) : i \in Ids(db', u) /\ db'.tab[u][i] = db.tab[u][i]
                /\ \A u \in Tables \ {t} : Ids(db', u) = Ids(db, u)
           /\ reply'.status = 204 => reply'.gone \cap Ids(db', t) = {}]_catalogVars

\* A client that reads a list to its end has seen every row that was there when
\* it began, unless rows were deleted meanwhile or share their created_at with
\* another row (a batch); and when the list did not change at all, the total it
\* was told is what it saw.
PagesMissNothing ==
  pager.phase = "done" /\ ~pager.lost =>
    LET t == TableOf(pager.list)
        Alone(i) == \A j \in Ids(db, t) \ {i} : db.tab[t][j].at # db.tab[t][i].at
        ties == \E i \in pager.start \cap Ids(db, t) : ~Alone(i)
    IN  /\ ~ties => \A i \in pager.start \cap Ids(db, t) : i \in pager.seen
        /\ ~ties /\ ~pager.grown => Cardinality(pager.seen) = pager.total

\* Stealth mode's store is the server's, on a connection that enforces foreign
\* keys: in every state the server's database can be in, a call on the catalogue
\* has the same outcome in both, but for a batch delete of unknown ids, which only
\* PostgreSQL calls an error, and for context sources, which stealth mode has not.
TwinsAgree == reply.twin # "db" /\ (reply.twin = "answer" => reply.status = 500)
=============================================================================
