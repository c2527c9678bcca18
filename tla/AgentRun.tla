------------------------------ MODULE AgentRun ------------------------------
(***************************************************************************)
(* The agent runs of one project: how runs are started (by a worker, in    *)
(* one transaction, or by the API, in two steps), the agent_run worker of  *)
(* internal/agent that waits for sources, asks the LLM, stores a semantic  *)
(* release and announces it, and the operator who deletes reports.         *)
(*                                                                         *)
(* A job whose worker returns an error or dies is run again from its first *)
(* line until River has tried it MaxAttempts times.                        *)
(***************************************************************************)
EXTENDS Naturals

CONSTANTS
    Run,            \* agent_runs rows, each with its agent_run job
    Source,         \* the project's sources
    Version,        \* versions, as spelled in releases and in runs
    Unknown,        \* the version "unknown" of a report on nothing
    NoVersion,      \* a run without target version
    Target,         \* the version of a run
    Report,         \* ids of semantic_releases rows
    NoReport,
    Channel,        \* channels subscribed to the project
    MaxWaitAttempts,\* 12 in the code
    MaxAttempts,    \* River's limit on the attempts of a job (25)
    SnoozeCounts,   \* whether a snoozed attempt counts in job.Attempt
    LLMFails,       \* whether the analysis may fail
    MaxFaults,      \* bound: failing store calls and crashes
    MaxDeletes      \* bound: reports the operator deletes

ASSUME ConstantsAssumption ==
    /\ Target \in [Run -> Version \cup {NoVersion}]
    /\ NoVersion \notin Version /\ Unknown \notin Version
    /\ NoReport \notin Report
    /\ MaxWaitAttempts \in Nat /\ MaxAttempts \in Nat \ {0}
    /\ SnoozeCounts \in BOOLEAN /\ LLMFails \in BOOLEAN
    /\ MaxFaults \in Nat /\ MaxDeletes \in Nat

VARIABLES
    registered,     \* the server runs an agent worker (an LLM key is configured)
    waitForAll,     \* agent_rules.wait_for_all_sources
    have,           \* per version: the sources with a release so spelled
    status,         \* agent_runs.status, "none" where there is no row
    link,           \* agent_runs.semantic_release_id
    report,         \* semantic_releases: the report on a version
    used,           \* the ids given out so far
    todos,          \* the reports with a TODO
    sent,           \* per report and channel: messages the channel got
    pc,             \* per run: the next call of its worker
    attempts,       \* per run: job.Attempt
    own,            \* per run: the report this attempt has created
    toSend,         \* per run: the channels its loop has still to visit
    faults,
    deletes

\* What no run changes.
input   == <<registered, waitForAll, have, deletes>>
reports == <<link, report, used, todos, sent>>
vars    == <<input, status, reports, pc, attempts, own, toSend, faults>>

Covered == Version \cup {Unknown}
Status  == {"none", "pending", "waiting", "running", "failed", "completed"}
Working == {"load", "ready", "snooze", "running", "analyze", "create", "markFailed",
            "link", "complete", "list", "todo", "send", "finish"}
Ended   == {"done", "discarded"}

TypeOK ==
    /\ registered \in BOOLEAN /\ waitForAll \in BOOLEAN
    /\ have \in [Version -> SUBSET Source]
    /\ status \in [Run -> Status]
    /\ link \in [Run -> Report \cup {NoReport}]
    /\ report \in [Covered -> Report \cup {NoReport}]
    /\ used \in SUBSET Report
    /\ todos \in SUBSET Report
    /\ sent \in [Report -> [Channel -> Nat]]
    /\ pc \in [Run -> {"none", "row", "queued"} \cup Working \cup Ended]
    /\ attempts \in [Run -> 0..MaxAttempts]
    /\ own \in [Run -> Report \cup {NoReport}]
    /\ toSend \in [Run -> SUBSET Channel]
    /\ faults \in Nat /\ deletes \in Nat

Init ==
    /\ registered \in BOOLEAN
    /\ waitForAll \in BOOLEAN
    /\ have = [v \in Version |-> {}]
    /\ status = [r \in Run |-> "none"]
    /\ link = [r \in Run |-> NoReport]
    /\ report = [v \in Covered |-> NoReport]
    /\ used = {}
    /\ todos = {}
    /\ sent = [i \in Report |-> [c \in Channel |-> 0]]
    /\ pc = [r \in Run |-> "none"]
    /\ attempts = [r \in Run |-> 0]
    /\ own = [r \in Run |-> NoReport]
    /\ toSend = [r \in Run |-> {}]
    /\ faults = 0 /\ deletes = 0
-----------------------------------------------------------------------------
Goto(r, step) == pc' = [pc EXCEPT ![r] = step]

Fault == faults < MaxFaults /\ faults' = faults + 1

\* UpdateAgentRunStatus writes whatever the status was before.
UpdateAgentRunStatus(r, s) == status' = [status EXCEPT ![r] = s]

\* A source publishes a version.
Ingest(s, v) ==
    /\ s \notin have[v]
    /\ have' = [have EXCEPT ![v] = @ \cup {s}]
    /\ UNCHANGED <<registered, waitForAll, deletes, status, reports, pc, attempts,
                   own, toSend, faults>>
-----------------------------------------------------------------------------
(* Starting runs. *)

\* The workers' way: row and job in one transaction, which fails as a whole when
\* the job's kind is not registered.
EnqueueAgentRun(r) ==
    /\ pc[r] = "none"
    /\ registered
    /\ Goto(r, "queued")
    /\ UpdateAgentRunStatus(r, "pending")
    /\ UNCHANGED <<input, reports, attempts, own, toSend, faults>>

\* The API's way: the row first ...
TriggerAgentRun(r) ==
    /\ pc[r] = "none"
    /\ Goto(r, "row")
    /\ UpdateAgentRunStatus(r, "pending")
    /\ UNCHANGED <<input, reports, attempts, own, toSend, faults>>

\* ... then the job.  Without a worker the run is marked failed; after any other
\* error, or a crash, the row stays as it is and no job exists.
TriggerInsertJob(r) ==
    /\ pc[r] = "row"
    /\ \/ /\ registered
          /\ Goto(r, "queued")
          /\ UNCHANGED <<status, faults>>
       \/ /\ ~registered
          /\ Goto(r, "discarded")
          /\ UpdateAgentRunStatus(r, "failed")
          /\ UNCHANGED faults
       \/ /\ Fault
          /\ Goto(r, "discarded")
          /\ UNCHANGED status
    /\ UNCHANGED <<input, reports, attempts, own, toSend>>
-----------------------------------------------------------------------------
(* River. *)

Start(r) ==
    /\ pc[r] = "queued"
    /\ Goto(r, "load")
    /\ attempts' = [attempts EXCEPT ![r] = @ + 1]
    /\ UNCHANGED <<input, status, reports, own, toSend, faults>>

\* Work returned an error, or the process died.
Retry(r) ==
    /\ Goto(r, IF attempts[r] < MaxAttempts THEN "queued" ELSE "discarded")
    /\ own' = [own EXCEPT ![r] = NoReport]
    /\ toSend' = [toSend EXCEPT ![r] = {}]
    /\ UNCHANGED <<input, reports, attempts>>

Fail(r) == pc[r] \in Working /\ Fault /\ Retry(r) /\ UNCHANGED status

Complete(r) ==
    /\ pc[r] = "finish"
    /\ Goto(r, "done")
    /\ own' = [own EXCEPT ![r] = NoReport]
    /\ UNCHANGED <<input, status, reports, attempts, toSend, faults>>
-----------------------------------------------------------------------------
(* AgentWorker.Work *)

\* GetAgentRun and GetProject.
Load(r) ==
    /\ pc[r] = "load"
    /\ Goto(r, IF Target[r] # NoVersion /\ waitForAll THEN "ready" ELSE "running")
    /\ UNCHANGED <<input, status, reports, attempts, own, toSend, faults>>

\* checkAllSourcesReady asks each source for a release spelled like the target,
\* and after MaxWaitAttempts the run goes ahead without.
CheckAllSourcesReady(r) ==
    /\ pc[r] = "ready"
    /\ Goto(r, IF have[Target[r]] = Source \/ attempts[r] >= MaxWaitAttempts
               THEN "running" ELSE "snooze")
    /\ UNCHANGED <<input, status, reports, attempts, own, toSend, faults>>

\* Status "waiting" (an error is logged), then JobSnooze.  It never uses up the
\* job's attempts: either the limit grows or the attempt is given back.
Snooze(r) ==
    /\ pc[r] = "snooze"
    /\ \/ UpdateAgentRunStatus(r, "waiting") /\ UNCHANGED faults
       \/ Fault /\ UNCHANGED status
    /\ Goto(r, "queued")
    /\ attempts' = [attempts EXCEPT ![r] =
                      IF SnoozeCounts /\ @ < MaxAttempts THEN @ ELSE @ - 1]
    /\ UNCHANGED <<input, reports, own, toSend>>
-----------------------------------------------------------------------------
(* Orchestrator.RunAgent *)

MarkRunning(r) ==
    /\ pc[r] = "running"
    /\ UpdateAgentRunStatus(r, "running")
    /\ Goto(r, "analyze")
    /\ UNCHANGED <<input, reports, attempts, own, toSend, faults>>

\* executeAgent up to the report: it may fail in many ways.
Analyze(r) ==
    /\ pc[r] = "analyze"
    /\ \/ Goto(r, "create")
       \/ LLMFails /\ Goto(r, "markFailed")
    /\ UNCHANGED <<input, status, reports, attempts, own, toSend, faults>>

\* The version a report is filed under: the target, or else that of the newest
\* release, or "unknown".
ReportVersions(r) ==
    LET seen == {v \in Version : have[v] # {}}
    IN  IF Target[r] # NoVersion THEN {Target[r]}
        ELSE IF seen # {} THEN seen ELSE {Unknown}

\* Mutant: the report replaces the one that is there.
CreateSemanticReleaseUpserts(r) ==
    /\ pc[r] = "create"
    /\ \E v \in ReportVersions(r) :
         \E i \in IF report[v] = NoReport THEN Report \ used ELSE {report[v]} :
           /\ report' = [report EXCEPT ![v] = i]
           /\ used' = used \cup {i}
           /\ own' = [own EXCEPT ![r] = i]
           /\ Goto(r, "link")
    /\ UNCHANGED <<input, status, link, todos, sent, attempts, toSend, faults>>

\* A plain INSERT under UNIQUE(project_id, version): a version that has its
\* report makes the attempt fail.
CreateSemanticRelease(r) ==
    /\ pc[r] = "create"
    /\ \E v \in ReportVersions(r) :
         \/ /\ report[v] = NoReport
            /\ \E i \in Report \ used :
                 /\ report' = [report EXCEPT ![v] = i]
                 /\ used' = used \cup {i}
                 /\ own' = [own EXCEPT ![r] = i]
            /\ Goto(r, "link")
         \/ /\ report[v] # NoReport
            /\ Goto(r, "markFailed")
            /\ UNCHANGED <<report, used, own>>
    /\ UNCHANGED <<input, status, link, todos, sent, attempts, toSend, faults>>

\* Mutant: the error is only logged.
MarkFailedLogs(r) ==
    /\ pc[r] = "markFailed"
    /\ Retry(r)
    /\ UNCHANGED <<status, faults>>

\* executeAgent failed: status "failed" (best effort), and Work returns the error.
MarkFailed(r) ==
    /\ pc[r] = "markFailed"
    /\ \/ UpdateAgentRunStatus(r, "failed") /\ UNCHANGED faults
       \/ Fault /\ UNCHANGED status
    /\ Retry(r)

\* The semantic_releases row with this id is still there.
Stored(i) == \E v \in Covered : report[v] = i

\* UpdateAgentRunResult; the foreign key wants the report to be there.
UpdateAgentRunResult(r) ==
    /\ pc[r] = "link"
    /\ \/ /\ Stored(own[r])
          /\ link' = [link EXCEPT ![r] = own[r]]
          /\ Goto(r, "complete")
          /\ UNCHANGED <<input, report, used, todos, sent, attempts, own, toSend>>
       \/ ~Stored(own[r]) /\ Retry(r)
    /\ UNCHANGED <<status, faults>>

\* Mutant: the run is not marked completed.
MarkCompletedForgets(r) ==
    /\ pc[r] = "complete"
    /\ Goto(r, "list")
    /\ UNCHANGED <<input, status, reports, attempts, own, toSend, faults>>

MarkCompleted(r) ==
    /\ pc[r] = "complete"
    /\ UpdateAgentRunStatus(r, "completed")
    /\ Goto(r, "list")
    /\ UNCHANGED <<input, reports, attempts, own, toSend, faults>>
-----------------------------------------------------------------------------
(* sendProjectNotifications: best effort, no error is returned. *)

\* ListProjectSubscriptions: whoever subscribes at the moment.  Without
\* subscriptions, or after an error, there is neither a TODO nor a message.
ListProjectSubscriptions(r) ==
    /\ pc[r] = "list"
    /\ \/ \E subs \in SUBSET Channel :
            /\ toSend' = [toSend EXCEPT ![r] = subs]
            /\ Goto(r, IF subs = {} THEN "finish" ELSE "todo")
            /\ UNCHANGED faults
       \/ Fault /\ Goto(r, "finish") /\ UNCHANGED toSend
    /\ UNCHANGED <<input, status, reports, attempts, own>>

\* An idempotent upsert; it fails once the report is deleted.
CreateSemanticReleaseTodo(r) ==
    /\ pc[r] = "todo"
    /\ \/ /\ todos' = IF Stored(own[r]) THEN todos \cup {own[r]} ELSE todos
          /\ UNCHANGED faults
       \/ Fault /\ UNCHANGED todos
    /\ Goto(r, "send")
    /\ UNCHANGED <<input, status, link, report, used, sent, attempts, own, toSend>>

\* GetChannel or Send may fail; the loop goes on.
Send(r) ==
    /\ pc[r] = "send"
    /\ \/ toSend[r] = {} /\ Goto(r, "finish") /\ UNCHANGED <<sent, toSend, faults>>
       \/ \E c \in toSend[r] :
            /\ toSend' = [toSend EXCEPT ![r] = @ \ {c}]
            /\ \/ sent' = [sent EXCEPT ![own[r]][c] = @ + 1] /\ UNCHANGED faults
               \/ Fault /\ UNCHANGED sent
            /\ UNCHANGED pc
    /\ UNCHANGED <<input, status, link, report, used, todos, attempts, own>>
-----------------------------------------------------------------------------
\* DELETE /semantic-releases/{id}: its TODO goes with it and runs lose their link.
DeleteSemanticRelease(v) ==
    /\ report[v] # NoReport
    /\ deletes < MaxDeletes
    /\ deletes' = deletes + 1
    /\ report' = [report EXCEPT ![v] = NoReport]
    /\ todos' = todos \ {report[v]}
    /\ link' = [r \in Run |-> IF link[r] = report[v] THEN NoReport ELSE link[r]]
    /\ UNCHANGED <<registered, waitForAll, have, status, used, sent, pc, attempts,
                   own, toSend, faults>>
-----------------------------------------------------------------------------
RunStep(r) ==
    \/ TriggerInsertJob(r) \/ Start(r) \/ Complete(r)
    \/ Load(r) \/ CheckAllSourcesReady(r) \/ Snooze(r)
    \/ MarkRunning(r) \/ Analyze(r) \/ CreateSemanticRelease(r) \/ MarkFailed(r)
    \/ UpdateAgentRunResult(r) \/ MarkCompleted(r)
    \/ ListProjectSubscriptions(r) \/ CreateSemanticReleaseTodo(r) \/ Send(r)

Next ==
    \/ \E r \in Run : EnqueueAgentRun(r) \/ TriggerAgentRun(r) \/ RunStep(r) \/ Fail(r)
    \/ \E s \in Source, v \in Version : Ingest(s, v)
    \/ \E v \in Covered : DeleteSemanticRelease(v)

Spec == Init /\ [][Next]_vars

\* River starts every queued job and every call of a worker returns: the job's
\* context ends after five minutes.
FairSpec == Spec /\ \A r \in Run : WF_vars(RunStep(r))
-----------------------------------------------------------------------------
(* Properties *)

\* A report is announced to a channel at most once, whatever is retried: only
\* the attempt that created it knows its id.
AnnouncedAtMostOnce ==
    \A i \in Report, c \in Channel : sent[i][c] <= 1

\* River counts a job as done only after its run was marked completed, and never
\* without the analysis having been stored.
DoneIsCompleted ==
    \A r \in Run : pc[r] = "done" => status[r] = "completed"

\* A run points to a report that exists, and no two runs share one.
LinksSound ==
    \A r \in Run : link[r] # NoReport =>
        /\ Stored(link[r])
        /\ \A q \in Run \ {r} : link[q] # link[r]

\* The run has nobody to wait for (any more): it names no version, or the
\* project does not ask for it, or every source has published the version.
NotWaiting(r) ==
    Target[r] = NoVersion \/ ~waitForAll \/ have[Target[r]] = Source

\* Every started run that has nobody to wait for is decided, completed or failed,
\* however often the LLM fails and however runs on one version overtake each
\* other, as long as no store call fails and no report is deleted.
RunsDecided ==
    \A r \in Run :
        status[r] # "none" /\ NotWaiting(r) ~>
            status[r] \in {"completed", "failed"} \/ faults > 0 \/ deletes > 0
-----------------------------------------------------------------------------
(* What the repository says of agent runs and the code does not do. *)

\* The ingestion store: updated releases "get re-notified so the agent can
\* re-analyze".  A queued run that has nobody to wait for completes in the end.
CanReanalyze ==
    \A r \in Run : pc[r] = "queued" /\ NotWaiting(r) ~> status[r] = "completed"

\* The worker, after maxWaitAttempts: "with partial data rather than waiting
\* forever".  A run that waits does not wait forever.
WaitingEnds ==
    \A r \in Run : status[r] = "waiting" ~> status[r] # "waiting"
=============================================================================
