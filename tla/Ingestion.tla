----------------------------- MODULE Ingestion -----------------------------
(***************************************************************************)
(* Discovery of releases: the orchestrator of internal/ingestion, which    *)
(* polls every enabled source that is due, and the polls that the HTTP API *)
(* starts when a source is created, edited or refreshed by hand, all       *)
(* writing the releases table and the River queue through IngestRelease.   *)
(*                                                                         *)
(* IngestRelease is a READ COMMITTED transaction that first SELECTs the    *)
(* stored changelog and then writes: other transactions may commit between *)
(* the two.  From the write to the commit the row (or its unique key) is   *)
(* locked, so the write, the inserted jobs and the commit are one step.    *)
(***************************************************************************)
EXTENDS Naturals

CONSTANTS
    Source,         \* ids the sources table may hold
    Version,        \* raw versions a provider may list
    Text,           \* non-empty changelogs
    Empty,          \* a release without changelog
    Absent,         \* no such release: in the feed, in a batch, in the table
    Orch,           \* the orchestrator
    Request,        \* slots for polls started by API requests
    NoSource, NoVersion,
    InitSource,     \* the sources that exist at the start
    MaxEdits,       \* bound: changes of what the providers list
    MaxAdmin,       \* bound: sources created, edited, deleted or polled by hand
    MaxFaults       \* bound: failing fetches, failing statements, crashes

Poller    == Request \cup {Orch}
Changelog == Text \cup {Empty}
Entry     == Changelog \cup {Absent}

ASSUME ConstantsAssumption ==
    /\ Empty \notin Text /\ Absent \notin Changelog
    /\ Orch \notin Request
    /\ NoSource \notin Source /\ NoVersion \notin Version
    /\ InitSource \subseteq Source
    /\ MaxEdits \in Nat /\ MaxAdmin \in Nat /\ MaxFaults \in Nat

VARIABLES
    feed,           \* what the provider of a source lists at the moment
    src,            \* the rows of sources: none, enabled, disabled, deleted
    due,            \* sources with last_polled_at NULL or an interval ago
    releases,       \* the rows of releases: the stored changelog
    news,           \* notify_release jobs inserted with IsUpdate = false
    updates,        \* notify_release jobs inserted with IsUpdate = true
    checks,         \* gate_check jobs inserted
    pc,             \* per poller: its next step
    plan,           \* the sources the orchestrator has still to poll this tick
    at,             \* per poller: the source it polls
    batch,          \* per poller: the fetched results not yet processed
    cur,            \* per poller: the result in IngestRelease
    old,            \* per poller: what the SELECT of IngestRelease returned
    edits, admin, faults

tables == <<releases, news, updates, checks>>
local  == <<pc, plan, at, batch, cur, old>>
bounds == <<edits, admin, faults>>
vars   == <<feed, src, due, tables, local, bounds>>

Exists(s) == src[s] \in {"enabled", "disabled"}
Nothing   == [v \in Version |-> Absent]

TypeOK ==
    /\ feed \in [Source -> [Version -> Entry]]
    /\ src \in [Source -> {"none", "enabled", "disabled", "deleted"}]
    /\ due \in SUBSET Source
    /\ releases \in [Source -> [Version -> Entry]]
    /\ news \in [Source -> [Version -> Nat]]
    /\ updates \in [Source -> [Version -> Nat]]
    /\ checks \in [Source -> [Version -> Nat]]
    /\ pc \in [Poller -> {"idle", "next", "fetch", "status", "failed", "select", "write"}]
    /\ plan \in SUBSET Source
    /\ at \in [Poller -> Source \cup {NoSource}]
    /\ batch \in [Poller -> [Version -> Entry]]
    /\ cur \in [Poller -> Version \cup {NoVersion}]
    /\ old \in [Poller -> Entry]
    /\ edits \in Nat /\ admin \in Nat /\ faults \in Nat

Init ==
    /\ feed = [s \in Source |-> Nothing]
    /\ src = [s \in Source |-> IF s \in InitSource THEN "enabled" ELSE "none"]
    /\ due = InitSource
    /\ releases = [s \in Source |-> Nothing]
    /\ news = [s \in Source |-> [v \in Version |-> 0]]
    /\ updates = news
    /\ checks = news
    /\ pc = [p \in Poller |-> "idle"]
    /\ plan = {}
    /\ at = [p \in Poller |-> NoSource]
    /\ batch = [p \in Poller |-> Nothing]
    /\ cur = [p \in Poller |-> NoVersion]
    /\ old = [p \in Poller |-> Absent]
    /\ edits = 0 /\ admin = 0 /\ faults = 0
-----------------------------------------------------------------------------
Fault == faults < MaxFaults /\ faults' = faults + 1 /\ UNCHANGED <<edits, admin>>

Goto(p, step) == pc' = [pc EXCEPT ![p] = step]

\* The provider lists a release, rewrites its changelog, or no longer lists it.
Publish(s, v, e) ==
    /\ edits < MaxEdits /\ edits' = edits + 1
    /\ feed[s][v] # e
    /\ feed' = [feed EXCEPT ![s][v] = e]
    /\ UNCHANGED <<src, due, tables, local, admin, faults>>

\* The poll interval of the source has passed.
Elapse(s) ==
    /\ Exists(s) /\ s \notin due
    /\ due' = due \cup {s}
    /\ UNCHANGED <<feed, src, tables, local, bounds>>
-----------------------------------------------------------------------------
(* pollAll: one tick of the orchestrator. *)

\* LoadEnabledSources, and the filter on last_polled_at: decided once, from the
\* rows as they are at this moment.
Tick ==
    /\ pc[Orch] = "idle"
    /\ plan' = {s \in due : src[s] = "enabled"}
    /\ plan' # {}
    /\ Goto(Orch, "next")
    /\ UNCHANGED <<feed, src, due, tables, at, batch, cur, old, bounds>>

\* The sources of a tick are polled one after the other.
NextSource ==
    /\ pc[Orch] = "next"
    /\ \/ /\ plan = {}
          /\ Goto(Orch, "idle")
          /\ UNCHANGED <<plan, at>>
       \/ \E s \in plan :
            /\ plan' = plan \ {s}
            /\ at' = [at EXCEPT ![Orch] = s]
            /\ Goto(Orch, "fetch")
    /\ UNCHANGED <<feed, src, due, tables, batch, cur, old, bounds>>
-----------------------------------------------------------------------------
(* One poll, the same for the orchestrator and for an API request. *)

\* Where a poller goes when it is through with a source.
AfterPoll(p) == IF p = Orch THEN "next" ELSE "idle"

\* FetchNewReleases: a page of what the provider lists, or an error.
Fetch(p) ==
    /\ pc[p] = "fetch"
    /\ \/ /\ batch' = [batch EXCEPT ![p] = feed[at[p]]]
          /\ Goto(p, "status")
          /\ UNCHANGED bounds
       \/ /\ Fault
          /\ Goto(p, "failed")
          /\ UNCHANGED batch
    /\ UNCHANGED <<feed, src, due, tables, plan, at, cur, old>>

\* UpdateSourcePollStatus sets last_polled_at after a failed fetch as after a
\* good one, and before any result is stored.  Its own error is logged.
PollStatus(p) ==
    /\ pc[p] \in {"status", "failed"}
    /\ \/ due' = due \ {at[p]} /\ UNCHANGED bounds
       \/ Fault /\ UNCHANGED due
    /\ Goto(p, IF pc[p] = "failed" THEN AfterPoll(p) ELSE "select")
    /\ UNCHANGED <<feed, src, tables, plan, at, batch, cur, old>>

\* The loop over the results, up to the SELECT of IngestRelease.
Select(p) ==
    /\ pc[p] = "select"
    /\ \/ /\ batch[p] = Nothing
          /\ Goto(p, AfterPoll(p))
          /\ UNCHANGED <<cur, old>>
       \/ \E v \in Version :
            /\ batch[p][v] # Absent
            /\ cur' = [cur EXCEPT ![p] = v]
            /\ old' = [old EXCEPT ![p] = releases[at[p]][v]]
            /\ Goto(p, "write")
    /\ UNCHANGED <<feed, src, due, tables, plan, at, batch, bounds>>

\* The result is through; the loop goes on.
Processed(p) ==
    /\ batch' = [batch EXCEPT ![p][cur[p]] = Absent]
    /\ cur' = [cur EXCEPT ![p] = NoVersion]
    /\ old' = [old EXCEPT ![p] = Absent]
    /\ Goto(p, "select")

\* Mutant: the insert tolerates a row another poll has committed, and goes on
\* to insert the jobs.
InsertReleaseTolerant(s, v, e) ==
    /\ Exists(s)
    /\ releases' = [releases EXCEPT ![s][v] = IF @ = Absent THEN e ELSE @]
    /\ news' = [news EXCEPT ![s][v] = @ + 1]
    /\ checks' = [checks EXCEPT ![s][v] = @ + 1]
    /\ UNCHANGED updates

\* Mutant: the insert does not refer to the source's row.
InsertReleaseOrphan(s, v, e) ==
    /\ releases[s][v] = Absent
    /\ releases' = [releases EXCEPT ![s][v] = e]
    /\ news' = [news EXCEPT ![s][v] = @ + 1]
    /\ checks' = [checks EXCEPT ![s][v] = @ + 1]
    /\ UNCHANGED updates

\* isNew: INSERT, which the unique key and the foreign key guard, a notify_release
\* job and a gate_check job, and the commit.
InsertRelease(s, v, e) ==
    /\ Exists(s) /\ releases[s][v] = Absent
    /\ releases' = [releases EXCEPT ![s][v] = e]
    /\ news' = [news EXCEPT ![s][v] = @ + 1]
    /\ checks' = [checks EXCEPT ![s][v] = @ + 1]
    /\ UNCHANGED updates

\* Mutant: a release that is stored is left alone.
UpdateReleaseSkips(s, v, seen, e) ==
    UNCHANGED tables

\* Mutant: a job for every result that has a changelog.
UpdateReleaseAlways(s, v, seen, e) ==
    /\ releases' = [releases EXCEPT ![s][v] = IF @ = Absent THEN @ ELSE e]
    /\ updates' = [updates EXCEPT ![s][v] = IF e # Empty THEN @ + 1 ELSE @]
    /\ UNCHANGED <<news, checks>>

\* Mutant: only a changelog where there was none is worth a job.
UpdateReleaseAddedOnly(s, v, seen, e) ==
    /\ releases' = [releases EXCEPT ![s][v] = IF @ = Absent THEN @ ELSE e]
    /\ updates' = [updates EXCEPT ![s][v] =
                     IF e # Empty /\ seen = Empty THEN @ + 1 ELSE @]
    /\ UNCHANGED <<news, checks>>

\* Not isNew: UPDATE by id, which matches no row once the release is deleted, and
\* a job if the changelog differs from the one the SELECT had seen.
UpdateRelease(s, v, seen, e) ==
    /\ releases' = [releases EXCEPT ![s][v] = IF @ = Absent THEN @ ELSE e]
    /\ updates' = [updates EXCEPT ![s][v] =
                     IF e # Empty /\ e # seen THEN @ + 1 ELSE @]
    /\ UNCHANGED <<news, checks>>

\* The rest of IngestRelease, committed.
Write(p) ==
    LET s == at[p]  v == cur[p]  e == batch[p][v]
    IN  /\ pc[p] = "write"
        /\ \/ old[p] = Absent /\ InsertRelease(s, v, e)
           \/ old[p] # Absent /\ UpdateRelease(s, v, old[p], e)
        /\ Processed(p)
        /\ UNCHANGED <<feed, src, due, plan, at, bounds>>

\* IngestRelease returns an error and has rolled back: the INSERT met a row that
\* another poll committed first or a source that is gone, or a statement failed.
\* The orchestrator drops the rest of the batch, an API request goes on.
WriteFails(p) ==
    /\ pc[p] = "write"
    /\ \/ /\ old[p] = Absent
          /\ ~Exists(at[p]) \/ releases[at[p]][cur[p]] # Absent
          /\ UNCHANGED bounds
       \/ Fault
    /\ IF p = Orch
       THEN /\ batch' = [batch EXCEPT ![p] = Nothing]
            /\ cur' = [cur EXCEPT ![p] = NoVersion]
            /\ old' = [old EXCEPT ![p] = Absent]
            /\ Goto(p, "next")
       ELSE Processed(p)
    /\ UNCHANGED <<feed, src, due, tables, plan, at>>

\* The process dies and comes back; open transactions are rolled back.
Crash ==
    /\ Fault
    /\ pc' = [p \in Poller |-> "idle"]
    /\ plan' = {}
    /\ batch' = [p \in Poller |-> Nothing]
    /\ cur' = [p \in Poller |-> NoVersion]
    /\ old' = [p \in Poller |-> Absent]
    /\ UNCHANGED <<feed, src, due, tables, at>>
-----------------------------------------------------------------------------
(* The API's operations on sources. *)

Administer == admin < MaxAdmin /\ admin' = admin + 1 /\ UNCHANGED <<edits, faults>>

\* A goroutine, or the request itself, starts to poll.
StartPoll(p, s) ==
    /\ pc[p] = "idle"
    /\ Goto(p, "fetch")
    /\ at' = [at EXCEPT ![p] = s]
    /\ UNCHANGED <<feed, tables, plan, batch, cur, old>>

CreateSource(p, s) ==
    /\ Administer
    /\ src[s] = "none"
    /\ \E how \in {"enabled", "disabled"} : src' = [src EXCEPT ![s] = how]
    /\ due' = due \cup {s}
    /\ StartPoll(p, s)

\* Among other columns the update sets enabled; the poll does not look at it.
UpdateSource(p, s) ==
    /\ Administer
    /\ Exists(s)
    /\ \E how \in {"enabled", "disabled"} : src' = [src EXCEPT ![s] = how]
    /\ UNCHANGED due
    /\ StartPoll(p, s)

FetchReleases(p, s) ==
    /\ Administer
    /\ Exists(s)
    /\ UNCHANGED <<src, due>>
    /\ StartPoll(p, s)

\* ON DELETE CASCADE takes the releases with the source; queued jobs stay.
DeleteSource(s) ==
    /\ Administer
    /\ Exists(s)
    /\ src' = [src EXCEPT ![s] = "deleted"]
    /\ due' = due \ {s}
    /\ releases' = [releases EXCEPT ![s] = Nothing]
    /\ UNCHANGED <<feed, news, updates, checks, local>>
-----------------------------------------------------------------------------
PollStep(p) ==
    Fetch(p) \/ PollStatus(p) \/ Select(p) \/ Write(p) \/ WriteFails(p)

Next ==
    \/ \E s \in Source, v \in Version, e \in Entry : Publish(s, v, e)
    \/ \E s \in Source : Elapse(s) \/ DeleteSource(s)
    \/ Tick \/ NextSource \/ Crash
    \/ \E p \in Poller : PollStep(p)
    \/ \E p \in Request, s \in Source :
         CreateSource(p, s) \/ UpdateSource(p, s) \/ FetchReleases(p, s)

Spec == Init /\ [][Next]_vars

\* The ticker fires, intervals pass, and every call of a poll returns.  For fetches
\* this is an assumption about the providers: they are called with
\* http.DefaultClient, which has no timeout, and one that never answers holds up
\* the whole tick.  Nothing is asked of the operator or of faults.
Fairness ==
    /\ WF_vars(Tick) /\ WF_vars(NextSource)
    /\ \A s \in Source : WF_vars(Elapse(s))
    /\ \A p \in Poller : WF_vars(PollStep(p))

FairSpec == Spec /\ Fairness
-----------------------------------------------------------------------------
(* Properties *)

\* The outbox: while a source exists, a release is stored exactly when its first
\* notification job and its gate check have been inserted, once each, however
\* many polls find it at the same time and wherever they fail.
OutboxExact ==
    \A s \in Source, v \in Version :
        LET n == IF releases[s][v] = Absent THEN 0 ELSE 1
        IN  Exists(s) => news[s][v] = n /\ checks[s][v] = n

\* A poll that was under way when its source was deleted stores nothing more.
DeletedLeavesNothing ==
    \A s \in Source, v \in Version : ~Exists(s) => releases[s][v] = Absent

\* "Updated releases are re-processed": a step that replaces a stored changelog
\* by another non-empty one inserts a job for it.
ChangeReprocessed ==
    [][\A s \in Source, v \in Version :
         releases[s][v] # Absent /\ releases'[s][v] \in Text \ {releases[s][v]}
         => updates'[s][v] = updates[s][v] + 1]_vars

\* "Only re-notify when changelog content was meaningfully added or changed".
UpdateMeansChange ==
    [][\A s \in Source, v \in Version :
         updates'[s][v] # updates[s][v] => releases'[s][v] # releases[s][v]]_vars

\* Every source that stays enabled ends up with what its provider lists, through
\* failed fetches, dropped batches, crashes and concurrent polls.
Converges ==
    \A s \in Source : <>[](src[s] = "enabled") =>
        <>[](\A v \in Version : feed[s][v] # Absent => releases[s][v] = feed[s][v])
=============================================================================
