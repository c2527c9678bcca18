------------------------------ MODULE Stealth ------------------------------
(* The pipeline of stealth mode: polls store releases in SQLite and announce *)
(* them on the spot, in the goroutine of the poll (internal/stealth,         *)
(* cmd/stealth).  No queue, no retries: what a crash or an error interrupts is *)
(* not taken up again.  The orchestrator and polls started by requests run    *)
(* side by side while the operator deletes things.                             *)
EXTENDS Sql

CONSTANTS Polls,     \* goroutines that poll: the orchestrator's and one per request
          Versions, Contents,
          Passing,   \* the versions that VersionPassesFilter lets through
          StealthConns, \* connections the pool may hand out: subset of BOOLEAN
          StealthMaxNext, MaxFaults, MaxEdits \* bounds: ids, crashes, deletions

VARIABLES sdb,    \* the SQLite database
          hook,   \* what each poll is doing: pc, the id NotifyHook got, its source, subscriptions left
          tried,  \* history: how often a release was handed to the sender of a subscription
          faults, edits

stealthVars == <<sdb, hook, tried, faults, edits>>

SL == INSTANCE SqliteStore

ASSUME StealthAssumption == Passing \subseteq Versions /\ StealthConns \subseteq SL!Connections /\ StealthMaxNext \in Nat

Resting == [pc |-> "idle", rel |-> NULL, source |-> NULL, version |-> NULL, left |-> {}]
\* the channel types NewSenders has a sender for
SenderTypes == {"webhook", "slack", "discord", "email", "shell"}
\* a project with one source, two channels and a subscription of each
FirstDb ==
  [tab |-> [projects |-> Only(1, [name |-> "p", at |-> 1]),
            sources |-> Only(2, [project |-> 1, repo |-> "r", enabled |-> TRUE, at |-> 2]),
            channels |-> [i \in {3, 4} |-> [type |-> IF i = 3 THEN "shell" ELSE "pager", at |-> i]],
            subs |-> [i \in {5, 6} |-> [channel |-> i - 2, type |-> "source_release", source |-> 2, project |-> NULL, at |-> i]],
            releases |-> NoRows, contexts |-> NoRows],
   next |-> 7]
Bump(f, x) == [y \in DOMAIN f \cup {x} |-> (IF y \in DOMAIN f THEN f[y] ELSE 0) + (IF y = x THEN 1 ELSE 0)]

StealthInit == /\ sdb = FirstDb /\ hook = [p \in Polls |-> Resting]
               /\ tried = NoRows /\ faults = 0 /\ edits = 0

Goto(p, h) == hook' = [hook EXCEPT ![p] = h] /\ UNCHANGED <<sdb, faults, edits>>
\* a poll picks its source, which may be deleted before the results are in
StartPoll(p, source) == /\ hook[p].pc = "idle" /\ source \in SL!ListEnabledSources(sdb)
                        /\ Goto(p, [Resting EXCEPT !.pc = "poll", !.source = source]) /\ UNCHANGED tried
\* UpdateSourcePollStatus writes columns nothing here depends on
EndPoll(p) == hook[p].pc = "poll" /\ Goto(p, Resting) /\ UNCHANGED tried
\* the hook returns to the poll, which goes on with its next result
BackToPoll(p) == [Resting EXCEPT !.pc = "poll", !.source = hook[p].source]

\* one result of a poll: the upsert, then NotifyHook with the id made for it
Ingest(p, version, content) ==
  LET source == hook[p].source IN
  /\ hook[p].pc = "poll" /\ sdb.next < StealthMaxNext
  /\ \E fk \in StealthConns :
       LET r == SL!IngestRelease(fk, sdb, source, version, content)
       IN  /\ sdb' = r.db
           /\ IF r.err \/ r.rows = NoRows THEN UNCHANGED hook
              ELSE hook' = [hook EXCEPT ![p] = [pc |-> "release", rel |-> CHOOSE i \in DOMAIN r.rows : TRUE,
                                                source |-> source, version |-> NULL, left |-> {}]]
  /\ UNCHANGED <<tried, faults, edits>>

\* GetRelease: the join with source and project, by id
NotifyGetRelease(p) ==
  /\ hook[p].pc = "release"
  /\ LET r == SL!GetRelease(sdb, hook[p].rel)
     IN  Goto(p, IF r.err THEN BackToPoll(p) ELSE [hook[p] EXCEPT !.pc = "source", !.version = r.rows[hook[p].rel].version])
  /\ UNCHANGED tried
\* GetSource and the version filter
NotifyGetSource(p) ==
  /\ hook[p].pc = "source"
  /\ Goto(p, IF SL!GetSource(sdb, hook[p].source).err \/ hook[p].version \notin Passing THEN BackToPoll(p)
             ELSE [hook[p] EXCEPT !.pc = "subs"])
  /\ UNCHANGED tried
NotifyListSubs(p) ==
  /\ hook[p].pc = "subs"
  /\ LET subs == SL!ListSourceSubscriptions(sdb, hook[p].source)
     IN  Goto(p, IF subs = {} THEN BackToPoll(p)
                 ELSE [hook[p] EXCEPT !.pc = "send", !.left = {<<i, sdb.tab["subs"][i].channel>> : i \in subs}])
  /\ UNCHANGED tried
\* one subscription: GetChannel, then the sender; every failure is logged and the
\* loop goes on
NotifySend(p, sub) ==
  LET left == hook[p].left \ {sub}
  IN  /\ hook[p].pc = "send" /\ sub \in hook[p].left
      /\ Goto(p, IF left = {} THEN BackToPoll(p) ELSE [hook[p] EXCEPT !.left = left])
      /\ LET ch == SL!GetChannel(sdb, sub[2])
         IN  tried' = IF ch.err \/ (~ch.err /\ ch.rows[sub[2]].type \notin SenderTypes) THEN tried
                      ELSE Bump(tried, <<hook[p].rel, sub[1]>>)

\* the process dies and is started again: what was under way is gone
Crash == /\ faults < MaxFaults /\ faults' = faults + 1
         /\ hook' = [p \in Polls |-> Resting]
         /\ UNCHANGED <<sdb, tried, edits>>
Edit == /\ edits < MaxEdits /\ edits' = edits + 1
        /\ \E fk \in StealthConns :
             \/ \E i \in Ids(sdb, "sources") : sdb' = SL!DeleteSource(fk, sdb, i).db
             \/ \E i \in Ids(sdb, "channels") : sdb' = SL!DeleteChannel(fk, sdb, i).db
             \/ \E i \in Ids(sdb, "subs") : sdb' = SL!DeleteSubscription(fk, sdb, i).db
        /\ UNCHANGED <<hook, tried, faults>>

StealthNext == \/ \E p \in Polls : \/ \E s \in Ids(sdb, "sources") : StartPoll(p, s)
                                   \/ EndPoll(p)
                                   \/ \E v \in Versions, c \in Contents : Ingest(p, v, c)
                                   \/ NotifyGetRelease(p) \/ NotifyGetSource(p) \/ NotifyListSubs(p)
                                   \/ \E sub \in hook[p].left : NotifySend(p, sub)
               \/ Crash \/ Edit
StealthSpec == StealthInit /\ [][StealthNext]_stealthVars

-----------------------------------------------------------------------------
Tried(r, s) == IF <<r, s>> \in DOMAIN tried THEN tried[<<r, s>>] ELSE 0
Wanted(r, s) == /\ sdb.tab["releases"][r].version \in Passing
                /\ sdb.tab["channels"][sdb.tab["subs"][s].channel].type \in SenderTypes
OnPage(r, pages) == \A page \in pages : r \in page
Quiet == faults = 0 /\ edits = 0 /\ \A p \in Polls : hook[p].pc \in {"idle", "poll"}

\* No release is announced twice to a subscription, however the polls of one
\* source overlap and crash: the upsert lets one of them insert the row, and only
\* the id of an inserted row is found again by GetRelease.  And without crashes and
\* deletions every stored release that passes the filter has been handed to the
\* sender of every subscription whose channel has one, once the polls are at rest.
\* What was announced is on each of the three lists of releases while its source
\* is there; what a deletion without foreign keys left behind is on none.
StealthAnnouncedOnce ==
  /\ \A x \in DOMAIN tried : tried[x] <= 1
  /\ Quiet => \A r \in Ids(sdb, "releases") : \A s \in SL!ListSourceSubscriptions(sdb, sdb.tab["releases"][r].source) :
                Tried(r, s) = IF Wanted(r, s) THEN 1 ELSE 0
  /\ \A x \in DOMAIN tried : x[1] \in Ids(sdb, "releases") =>
       LET r == x[1]
           source == sdb.tab["releases"][r].source
           there == source \in Ids(sdb, "sources")
       IN  /\ OnPage(r, SL!ListAllReleases(sdb, 1, StealthMaxNext)) = there
           /\ OnPage(r, SL!ListReleasesBySource(sdb, source, 1, StealthMaxNext)) = there
           /\ there => OnPage(r, SL!ListReleasesByProject(sdb, sdb.tab["sources"][source].project, 1, StealthMaxNext))
=============================================================================
