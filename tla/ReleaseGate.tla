---------------------------- MODULE ReleaseGate ----------------------------
(***************************************************************************)
(* The release gate of one project: the three River workers of             *)
(* internal/gate (gate_check, gate_nl_eval, gate_timeout) running over the *)
(* release_gates and version_readiness tables of internal/api/pgstore.go,  *)
(* while the operator edits the gate and the project's sources.            *)
(*                                                                         *)
(* Every database call of a worker is one step, because each one is an     *)
(* autocommitted statement (or one transaction) of its own.  A job whose   *)
(* worker returns an error, or whose process dies, goes back to the queue  *)
(* and is run again from its first line: River delivers at least once.     *)
(***************************************************************************)
EXTENDS Naturals, FiniteSets

CONSTANTS
    Source,         \* sources the project may have
    Version,        \* normalized versions: the keys of version_readiness
    Release,        \* ingested releases; each one has its gate_check job
    NLJob,          \* slots for gate_nl_eval jobs
    Sweep,          \* slots for gate_timeout jobs; two of them may overlap
    NoVersion,      \* "no version" in a job's local state
    NoGate,         \* "no row" in release_gates
    SourceOf,       \* the source a release was found at
    Mapping,        \* the version mappings an operator may configure
    Configs,        \* the gate configurations an operator may store
    InitGates,      \* the configurations the project may start with
    SweepLimit,     \* the limit passed to ListExpiredGates (100 in the code)
    HasEvaluator,   \* FALSE: the nil evaluator cmd/server passes to the worker
    MaxFaults,      \* bound: crashes and failing store calls
    MaxChanges      \* bound: configuration and source edits

\* nl_rule: a text, the empty string, or the NULL the migration leaves there.
NLRule == {"rule", "empty", "null"}

\* required = {} means "all sources of the project".
GateConfig == [enabled : BOOLEAN, required : SUBSET Source,
               mapping : Mapping, nl : NLRule]

ASSUME ConstantsAssumption ==
    /\ SourceOf \in [Release -> Source]
    /\ Mapping \subseteq [Release -> Version]
    /\ Configs \subseteq GateConfig
    /\ InitGates \subseteq GateConfig \cup {NoGate}
    /\ NoGate \notin GateConfig
    /\ NoVersion \notin Version
    /\ Release \cap NLJob = {} /\ Release \cap Sweep = {} /\ NLJob \cap Sweep = {}
    /\ SweepLimit \in Nat \ {0}
    /\ HasEvaluator \in BOOLEAN
    /\ MaxFaults \in Nat /\ MaxChanges \in Nat

VARIABLES
    gate,           \* the row of release_gates, or NoGate
    sources,        \* the project's sources
    status,         \* version_readiness.status, "none" where there is no row
    met,            \* version_readiness.sources_met
    missing,        \* version_readiness.sources_missing
    nlPassed,       \* version_readiness.nl_rule_passed
    expired,        \* the versions with timeout_at < NOW()
    triggered,      \* the versions with agent_triggered
    agentRuns,      \* number of agent_runs rows (and jobs) the gate created
    events,         \* gate_events: per version, the event types recorded
    pc,             \* per job: the next call of its worker
    ver,            \* per job: the version it works on
    req,            \* per gate_check job: requiredSources
    nl,             \* per gate_check job: gate.NLRule # ""
    next,           \* per job: what follows the event being recorded
    list,           \* per sweep: the rows it still has to open
    faults,         \* faults so far
    changes,        \* edits so far
    pastGates,      \* history: every configuration that was in force
    pastSources,    \* history: every value of sources
    verdicts        \* history: per version, the verdicts stored

row  == <<status, met, missing, nlPassed, expired, triggered>>
job  == <<pc, ver, req, nl, next, list>>
conf == <<gate, sources, changes, pastGates, pastSources>>
vars == <<row, job, conf, agentRuns, events, faults, verdicts>>

Job    == Release \cup NLJob \cup Sweep
Status == {"none", "pending", "ready", "timed_out"}
Opened == {"ready", "timed_out"}
Events == {"source_met", "gate_opened", "gate_timed_out", "agent_triggered",
           "nl_eval_started", "nl_eval_passed", "nl_eval_failed"}

\* "none": no such job; "queued": River may run it; "finish": Work is about
\* to return nil; "done": River has completed the job.
CheckSteps == {"listSources", "upsert", "metEvent", "insertNL"}
NLSteps    == {"loadGate", "startEvent", "evaluate", "verdictEvent"}
SweepSteps == {"nextRow"}
OpenSteps  == {"open", "openEvent", "enqueue", "mark", "agentEvent"}
Steps      == CheckSteps \cup NLSteps \cup SweepSteps \cup OpenSteps \cup {"finish"}
PC         == {"none", "queued", "done"} \cup Steps

TypeOK ==
    /\ gate \in GateConfig \cup {NoGate}
    /\ sources \in SUBSET Source
    /\ status \in [Version -> Status]
    /\ met \in [Version -> SUBSET Source]
    /\ missing \in [Version -> SUBSET Source]
    /\ nlPassed \in [Version -> {"null", "true", "false"}]
    /\ expired \in SUBSET Version
    /\ triggered \in SUBSET Version
    /\ agentRuns \in [Version -> Nat]
    /\ events \in [Version -> SUBSET Events]
    /\ pc \in [Job -> PC]
    /\ ver \in [Job -> Version \cup {NoVersion}]
    /\ req \in [Job -> SUBSET Source]
    /\ nl \in [Job -> BOOLEAN]
    /\ next \in [Job -> PC]
    /\ list \in [Job -> SUBSET Version]
    /\ faults \in Nat
    /\ changes \in Nat
    /\ pastGates \in SUBSET GateConfig
    /\ pastSources \in SUBSET SUBSET Source
    /\ verdicts \in [Version -> SUBSET BOOLEAN]

Init ==
    /\ gate \in InitGates
    /\ sources = Source
    /\ status = [v \in Version |-> "none"]
    /\ met = [v \in Version |-> {}]
    /\ missing = [v \in Version |-> {}]
    /\ nlPassed = [v \in Version |-> "null"]
    /\ expired = {}
    /\ triggered = {}
    /\ agentRuns = [v \in Version |-> 0]
    /\ events = [v \in Version |-> {}]
    /\ pc = [j \in Job |-> "none"]
    /\ ver = [j \in Job |-> NoVersion]
    /\ req = [j \in Job |-> {}]
    /\ nl = [j \in Job |-> FALSE]
    /\ next = [j \in Job |-> "none"]
    /\ list = [j \in Job |-> {}]
    /\ faults = 0
    /\ changes = 0
    /\ pastGates = {gate} \ {NoGate}
    /\ pastSources = {sources}
    /\ verdicts = [v \in Version |-> {}]
-----------------------------------------------------------------------------
(* Helpers shared by the workers. *)

Goto(j, step) == pc' = [pc EXCEPT ![j] = step]

\* One of the code's failures (a store error, a crash); MaxFaults bounds them.
Fault == faults < MaxFaults /\ faults' = faults + 1

\* Where a worker goes when it is through with one row.
AfterRow(j) == IF j \in Sweep THEN "nextRow" ELSE "finish"
-----------------------------------------------------------------------------
(* The statements the workers execute: gate.GateStore over PostgreSQL. *)

\* The gate of the project that owns the source, if both still exist.
GetReleaseGateBySource(s) == IF s \in sources THEN gate ELSE NoGate

\* A gate made by the migration has a NULL nl_rule, which does not scan into
\* the Go string: reading the row is an error.
Unreadable(g) == g # NoGate /\ g.nl = "null"

Active(g) == g # NoGate /\ g.enabled

\* Mutant: the upsert also updates rows that are no longer pending.
UpsertVersionReadinessAlways(v, s, required) ==
    /\ status' = [status EXCEPT ![v] = IF @ = "none" THEN "pending" ELSE @]
    /\ met' = [met EXCEPT ![v] = @ \cup {s}]
    /\ missing' = [missing EXCEPT ![v] = required \ met'[v]]

\* INSERT ... ON CONFLICT DO UPDATE: a pending row learns of a source it had
\* not met, and only then is sources_missing computed again.
UpsertVersionReadiness(v, s, required) ==
    LET learns == status[v] = "none" \/ (status[v] = "pending" /\ s \notin met[v])
    IN  /\ status' = [status EXCEPT ![v] = IF @ = "none" THEN "pending" ELSE @]
        /\ met' = [met EXCEPT ![v] = IF learns THEN @ \cup {s} ELSE @]
        /\ missing' = [missing EXCEPT ![v] = IF learns THEN required \ met'[v] ELSE @]

\* Mutant: the UPDATE lacks "AND status = 'pending'".
OpenGateUnguarded(v, how) == status' = [status EXCEPT ![v] = how]

\* Mutant: a status the CHECK constraint of the table does not allow.
OpenGateBadStatus(v, how) ==
    status[v] = "pending" /\ status' = [status EXCEPT ![v] = "opened"]

\* UPDATE ... WHERE status = 'pending', where it matches the row.
OpenGate(v, how) ==
    status[v] = "pending" /\ status' = [status EXCEPT ![v] = how]

\* Not conditional on the row's status.
UpdateNLRulePassed(v, passed) ==
    nlPassed' = [nlPassed EXCEPT ![v] = IF passed THEN "true" ELSE "false"]

\* One transaction: the agent_runs row and its River job.
EnqueueAgentRun(v) == agentRuns' = [agentRuns EXCEPT ![v] = @ + 1]

MarkAgentTriggered(v) == triggered' = triggered \cup {v}

\* Mutant: only rows that still miss a source are listed.
ListExpiredGatesIncomplete ==
    {{v \in Version : status[v] = "pending" /\ v \in expired /\ missing[v] # {}}}

\* The batches ListExpiredGates may return.  FOR UPDATE SKIP LOCKED locks the
\* rows for the statement only, so it protects nothing a sweep does later.
ListExpiredGates ==
    LET due == {v \in Version : status[v] = "pending" /\ v \in expired}
    IN  {batch \in SUBSET due :
           /\ Cardinality(batch) <= SweepLimit
           /\ batch = due \/ Cardinality(batch) = SweepLimit}

\* An error is logged and the worker goes on.
RecordGateEvent(v, type) ==
    \/ events' = [events EXCEPT ![v] = @ \cup {type}] /\ UNCHANGED faults
    \/ Fault /\ UNCHANGED events
-----------------------------------------------------------------------------
(* River: the queue the workers are run from. *)

\* IngestRelease inserts the gate_check job of a new release; the release row
\* it is committed with needs its source to exist.
IngestRelease(r) ==
    /\ pc[r] = "none"
    /\ SourceOf[r] \in sources
    /\ Goto(r, "queued")
    /\ UNCHANGED <<row, ver, req, nl, next, list, conf, agentRuns, events,
                   faults, verdicts>>

\* The periodic gate_timeout job of cmd/server.
StartSweep(j) ==
    /\ pc[j] = "none"
    /\ Goto(j, "queued")
    /\ UNCHANGED <<row, ver, req, nl, next, list, conf, agentRuns, events,
                   faults, verdicts>>

\* Work returned nil and River marks the job completed.  A periodic job's
\* slot is free for the next period.
Complete(j) ==
    /\ pc[j] = "finish"
    /\ Goto(j, IF j \in Sweep THEN "none" ELSE "done")
    /\ ver' = [ver EXCEPT ![j] = NoVersion]
    /\ req' = [req EXCEPT ![j] = {}]
    /\ nl' = [nl EXCEPT ![j] = FALSE]
    /\ next' = [next EXCEPT ![j] = "none"]
    /\ UNCHANGED <<row, list, conf, agentRuns, events, faults, verdicts>>

\* The job's state is forgotten and River will run it again: what a returned
\* error and a crash of the process both come to.  Only a job's arguments
\* survive; those of gate_nl_eval name the version.
Requeue(j) ==
    /\ Goto(j, "queued")
    /\ ver' = [ver EXCEPT ![j] = IF j \in NLJob THEN @ ELSE NoVersion]
    /\ req' = [req EXCEPT ![j] = {}]
    /\ nl' = [nl EXCEPT ![j] = FALSE]
    /\ next' = [next EXCEPT ![j] = "none"]
    /\ list' = [list EXCEPT ![j] = {}]
    /\ UNCHANGED <<row, conf, agentRuns, events, verdicts>>

\* A store call fails and Work returns the error, or the process dies.
Fail(j) ==
    /\ pc[j] \in Steps
    /\ Fault
    /\ Requeue(j)
-----------------------------------------------------------------------------
(* gate_check *)

\* The gate is read; where the row cannot be read, Work returns the error and
\* the job stays queued.
CheckLoadGate(r) ==
    LET g == GetReleaseGateBySource(SourceOf[r])
    IN  /\ pc[r] = "queued"
        /\ ~Unreadable(g)
        /\ \/ /\ ~Active(g)
              /\ Goto(r, "finish")
              /\ UNCHANGED <<ver, req, nl>>
           \/ /\ Active(g)
              /\ Goto(r, IF g.required = {} THEN "listSources" ELSE "upsert")
              /\ ver' = [ver EXCEPT ![r] = g.mapping[r]]
              /\ req' = [req EXCEPT ![r] = g.required]
              /\ nl' = [nl EXCEPT ![r] = g.nl = "rule"]
        /\ UNCHANGED <<row, next, list, conf, agentRuns, events, faults, verdicts>>

\* Mutant: an empty required_sources requires nothing.
CheckListSourcesNone(r) ==
    /\ pc[r] = "listSources"
    /\ Goto(r, "upsert")
    /\ UNCHANGED <<row, ver, req, nl, next, list, conf, agentRuns, events, faults, verdicts>>

\* ListSourcesByProject, when the configuration names no sources.
CheckListSources(r) ==
    /\ pc[r] = "listSources"
    /\ Goto(r, "upsert")
    /\ req' = [req EXCEPT ![r] = sources]
    /\ UNCHANGED <<row, ver, nl, next, list, conf, agentRuns, events, faults, verdicts>>

\* The upsert, and the decision the worker takes from the row it returns: wait
\* for more sources, ask for a verdict on the NL rule, or open the gate.
CheckUpsert(r) ==
    LET v == ver[r]
    IN  /\ pc[r] = "upsert"
        /\ UpsertVersionReadiness(v, SourceOf[r], req[r])
        /\ next' = [next EXCEPT ![r] =
                      IF missing'[v] # {} THEN "finish"
                      ELSE IF nl[r] /\ nlPassed[v] # "true" THEN "insertNL"
                      ELSE "open"]
        /\ Goto(r, "metEvent")
        /\ UNCHANGED <<nlPassed, expired, triggered, ver, req, nl, list, conf,
                       agentRuns, events, faults, verdicts>>

CheckMetEvent(r) ==
    /\ pc[r] = "metEvent"
    /\ RecordGateEvent(ver[r], "source_met")
    /\ Goto(r, next[r])
    /\ UNCHANGED <<row, ver, req, nl, next, list, conf, agentRuns, verdicts>>

\* The gate_nl_eval job goes into a free slot.  An insert error is logged, and
\* the job still completes: so does an insert for which no slot is left.
CheckInsertNL(r) ==
    /\ pc[r] = "insertNL"
    /\ \/ \E n \in NLJob :
            /\ pc[n] = "none"
            /\ pc' = [pc EXCEPT ![n] = "queued", ![r] = "finish"]
            /\ ver' = [ver EXCEPT ![n] = ver[r]]
            /\ UNCHANGED faults
       \/ /\ \/ Fault
             \/ (\A n \in NLJob : pc[n] # "none") /\ UNCHANGED faults
          /\ Goto(r, "finish")
          /\ UNCHANGED ver
    /\ UNCHANGED <<row, req, nl, next, list, conf, agentRuns, events, verdicts>>
-----------------------------------------------------------------------------
(* gate_nl_eval *)

\* GetVersionReadiness: nothing to do once the row is no longer pending.
NLLoadRow(n) ==
    /\ pc[n] = "queued"
    /\ Goto(n, IF status[ver[n]] = "pending" THEN "loadGate" ELSE "finish")
    /\ UNCHANGED <<row, ver, req, nl, next, list, conf, agentRuns, events,
                   faults, verdicts>>

\* GetReleaseGate: without a gate (or with a NULL nl_rule) Work returns an
\* error; whether the gate is enabled is not looked at.
NLLoadGate(n) ==
    /\ pc[n] = "loadGate"
    /\ IF gate = NoGate \/ Unreadable(gate)
       THEN Requeue(n) /\ UNCHANGED faults
       ELSE /\ Goto(n, "startEvent")
            /\ UNCHANGED <<row, ver, req, nl, next, list, conf, agentRuns,
                           events, faults, verdicts>>

NLStartEvent(n) ==
    /\ pc[n] = "startEvent"
    /\ RecordGateEvent(ver[n], "nl_eval_started")
    /\ Goto(n, "evaluate")
    /\ UNCHANGED <<row, ver, req, nl, next, list, conf, agentRuns, verdicts>>

\* Evaluate and UpdateNLRulePassed; the verdict is the LLM's.  The nil evaluator
\* panics, which River treats as an error.
NLEvaluate(n) ==
    /\ pc[n] = "evaluate"
    /\ \/ /\ ~HasEvaluator
          /\ Requeue(n)
          /\ UNCHANGED faults
       \/ /\ HasEvaluator
          /\ \E passed \in BOOLEAN :
               /\ UpdateNLRulePassed(ver[n], passed)
               /\ verdicts' = [verdicts EXCEPT ![ver[n]] = @ \cup {passed}]
               /\ next' = [next EXCEPT ![n] = IF passed THEN "open" ELSE "finish"]
          /\ Goto(n, "verdictEvent")
          /\ UNCHANGED <<status, met, missing, expired, triggered, ver, req, nl,
                         list, conf, agentRuns, events, faults>>

NLVerdictEvent(n) ==
    /\ pc[n] = "verdictEvent"
    /\ RecordGateEvent(ver[n],
         IF next[n] = "open" THEN "nl_eval_passed" ELSE "nl_eval_failed")
    /\ Goto(n, next[n])
    /\ UNCHANGED <<row, ver, req, nl, next, list, conf, agentRuns, verdicts>>
-----------------------------------------------------------------------------
(* gate_timeout *)

SweepList(j) ==
    /\ pc[j] = "queued"
    /\ \E batch \in ListExpiredGates : list' = [list EXCEPT ![j] = batch]
    /\ Goto(j, "nextRow")
    /\ UNCHANGED <<row, ver, req, nl, next, conf, agentRuns, events, faults, verdicts>>

SweepNextRow(j) ==
    /\ pc[j] = "nextRow"
    /\ IF list[j] = {}
       THEN Goto(j, "finish") /\ UNCHANGED <<ver, list>>
       ELSE \E v \in list[j] :
              /\ ver' = [ver EXCEPT ![j] = v]
              /\ list' = [list EXCEPT ![j] = @ \ {v}]
              /\ Goto(j, "open")
    /\ UNCHANGED <<row, req, nl, next, conf, agentRuns, events, faults, verdicts>>
-----------------------------------------------------------------------------
(* The end of all three workers: open the gate, then trigger the agent. *)

\* Mutant: a worker that failed to open the gate logs the error and returns nil.
OpenErrorLogged(j) ==
    /\ pc[j] = "open"
    /\ \/ /\ OpenGate(ver[j], IF j \in Sweep THEN "timed_out" ELSE "ready")
          /\ Goto(j, "openEvent")
          /\ UNCHANGED faults
       \/ /\ \/ status[ver[j]] # "pending" /\ UNCHANGED faults
             \/ Fault
          /\ Goto(j, AfterRow(j))
          /\ UNCHANGED status
    /\ UNCHANGED <<met, missing, nlPassed, expired, triggered, ver, req, nl,
                   next, list, conf, agentRuns, events, verdicts>>

\* A worker whose update matched no row is not the one that opened the gate
\* and stops there.  A sweep whose update failed goes on to its next row.
Open(j) ==
    /\ pc[j] = "open"
    /\ \/ /\ OpenGate(ver[j], IF j \in Sweep THEN "timed_out" ELSE "ready")
          /\ Goto(j, "openEvent")
          /\ UNCHANGED faults
       \/ /\ status[ver[j]] # "pending"
          /\ Goto(j, AfterRow(j))
          /\ UNCHANGED <<status, faults>>
       \/ /\ j \in Sweep
          /\ Fault
          /\ Goto(j, "nextRow")
          /\ UNCHANGED status
    /\ UNCHANGED <<met, missing, nlPassed, expired, triggered, ver, req, nl,
                   next, list, conf, agentRuns, events, verdicts>>

\* Mutant: the worker returns after recording that the gate is open.
OpenEventReturns(j) ==
    /\ pc[j] = "openEvent"
    /\ RecordGateEvent(ver[j], IF j \in Sweep THEN "gate_timed_out" ELSE "gate_opened")
    /\ Goto(j, AfterRow(j))
    /\ UNCHANGED <<row, ver, req, nl, next, list, conf, agentRuns, verdicts>>

OpenEvent(j) ==
    /\ pc[j] = "openEvent"
    /\ RecordGateEvent(ver[j], IF j \in Sweep THEN "gate_timed_out" ELSE "gate_opened")
    /\ Goto(j, "enqueue")
    /\ UNCHANGED <<row, ver, req, nl, next, list, conf, agentRuns, verdicts>>

\* Mutant: the worker goes on after the error it has logged.
EnqueueGoesOn(j) ==
    /\ pc[j] = "enqueue"
    /\ \/ EnqueueAgentRun(ver[j]) /\ UNCHANGED faults
       \/ Fault /\ UNCHANGED agentRuns
    /\ Goto(j, "mark")
    /\ UNCHANGED <<row, ver, req, nl, next, list, conf, events, verdicts>>

\* An error is logged, the worker stops, and nothing repeats the call.
Enqueue(j) ==
    /\ pc[j] = "enqueue"
    /\ \/ /\ EnqueueAgentRun(ver[j])
          /\ Goto(j, "mark")
          /\ UNCHANGED faults
       \/ /\ Fault
          /\ Goto(j, AfterRow(j))
          /\ UNCHANGED agentRuns
    /\ UNCHANGED <<row, ver, req, nl, next, list, conf, events, verdicts>>

\* An error is logged or ignored, and the worker goes on.
Mark(j) ==
    /\ pc[j] = "mark"
    /\ \/ MarkAgentTriggered(ver[j]) /\ UNCHANGED faults
       \/ Fault /\ UNCHANGED triggered
    /\ Goto(j, "agentEvent")
    /\ UNCHANGED <<status, met, missing, nlPassed, expired, ver, req, nl, next,
                   list, conf, agentRuns, events, verdicts>>

AgentEvent(j) ==
    /\ pc[j] = "agentEvent"
    /\ RecordGateEvent(ver[j], "agent_triggered")
    /\ Goto(j, AfterRow(j))
    /\ UNCHANGED <<row, ver, req, nl, next, list, conf, agentRuns, verdicts>>
-----------------------------------------------------------------------------
(* The operator and the clock. *)

\* timeout_at passes.
Expire(v) ==
    /\ status[v] = "pending" /\ v \notin expired
    /\ expired' = expired \cup {v}
    /\ UNCHANGED <<status, met, missing, nlPassed, triggered, job, conf,
                   agentRuns, events, faults, verdicts>>

Edit ==
    /\ changes < MaxChanges /\ changes' = changes + 1
    /\ UNCHANGED <<row, job, agentRuns, events, faults, verdicts>>

\* UpsertGate reads the gate first, so it fails on a NULL nl_rule.
UpsertGate(c) ==
    /\ Edit
    /\ ~Unreadable(gate)
    /\ c.nl # "null"
    /\ gate' = c
    /\ pastGates' = pastGates \cup {c}
    /\ UNCHANGED <<sources, pastSources>>

\* DeleteGate leaves the version_readiness rows behind.
DeleteGate ==
    /\ Edit
    /\ gate # NoGate
    /\ gate' = NoGate
    /\ UNCHANGED <<sources, pastGates, pastSources>>

\* A source is deleted; configurations and rows keep naming it.
DeleteSource(s) ==
    /\ Edit
    /\ s \in sources
    /\ sources' = sources \ {s}
    /\ pastSources' = pastSources \cup {sources'}
    /\ UNCHANGED <<gate, pastGates>>
-----------------------------------------------------------------------------
GateCheckStep(r) ==
    \/ CheckLoadGate(r) \/ CheckListSources(r) \/ CheckUpsert(r)
    \/ CheckMetEvent(r) \/ CheckInsertNL(r)

NLEvalStep(n) ==
    \/ NLLoadRow(n) \/ NLLoadGate(n) \/ NLStartEvent(n)
    \/ NLEvaluate(n) \/ NLVerdictEvent(n)

SweepStep(j) == SweepList(j) \/ SweepNextRow(j)

OpenStep(j) ==
    Open(j) \/ OpenEvent(j) \/ Enqueue(j) \/ Mark(j) \/ AgentEvent(j)

Next ==
    \/ \E r \in Release : IngestRelease(r) \/ GateCheckStep(r)
    \/ \E n \in NLJob : NLEvalStep(n)
    \/ \E j \in Sweep : StartSweep(j) \/ SweepStep(j)
    \/ \E j \in Job : OpenStep(j) \/ Complete(j) \/ Fail(j)
    \/ \E v \in Version : Expire(v)
    \/ \E c \in Configs : UpsertGate(c)
    \/ DeleteGate
    \/ \E s \in Source : DeleteSource(s)

Spec == Init /\ [][Next]_vars

\* River runs every queued job, every worker call returns, the periodic job
\* comes round again and deadlines pass.  Nothing is asked of the operator,
\* of ingestion or of faults.
Fairness ==
    /\ \A r \in Release : WF_vars(GateCheckStep(r))
    /\ \A n \in NLJob : WF_vars(NLEvalStep(n))
    /\ \A j \in Sweep : WF_vars(StartSweep(j)) /\ WF_vars(SweepStep(j))
    /\ \A j \in Job : WF_vars(OpenStep(j)) /\ WF_vars(Complete(j))
    /\ \A v \in Version : WF_vars(Expire(v))

FairSpec == Spec /\ Fairness
-----------------------------------------------------------------------------
(* Properties *)

\* A worker that has opened the gate of v and not yet enqueued its run.
Triggering(j, v) == pc[j] \in {"openEvent", "enqueue"} /\ ver[j] = v

\* However the checks, the NL evaluations and overlapping sweeps interleave,
\* and however often River runs them again, one version gets at most one
\* agent run from its gate (OpenGate's "WHERE status = 'pending'").
AtMostOneAgentRun == \A v \in Version : agentRuns[v] <= 1

\* agent_triggered, in the row or in the audit log, is never claimed for a
\* version without an agent run, and the log names one way of opening only.
AuditTruthful ==
    \A v \in Version :
        /\ v \in triggered \/ "agent_triggered" \in events[v] => agentRuns[v] = 1
        /\ "gate_opened" \in events[v] => status[v] = "ready"
        /\ "gate_timed_out" \in events[v] => status[v] = "timed_out"

\* Every requirement that was in force at some moment: a configured list, or
\* the sources the project had.
PastRequirements == ({c.required : c \in pastGates} \ {{}}) \cup pastSources

\* A gate that opened as ready had met, in full, a requirement that was in
\* force at some moment; and unless the gate was at some moment configured
\* without an NL rule, some evaluation of the rule had passed.
ReadyJustified ==
    \A v \in Version : status[v] = "ready" =>
        /\ \E R \in PastRequirements : R \subseteq met[v]
        /\ (\A c \in pastGates : c.nl = "rule") => TRUE \in verdicts[v]

\* A version whose gate is open and that will never get its agent run: no run
\* exists and no worker is about to create one.
Stranded(v) ==
    /\ status[v] \in Opened
    /\ agentRuns[v] = 0
    /\ \A j \in Job : ~Triggering(j, v)

\* OpenGate and EnqueueAgentRun are two transactions: every gate that opened
\* without an agent run has cost a fault of its own between the two, and
\* without faults there is none.
StrandedOnlyByFaults == Cardinality({v \in Version : Stranded(v)}) <= faults

\* A gate without NL rule whose sources are all met is not forgotten: while
\* the row is pending, some gate_check job for the version has still to run
\* to its end, whatever fails.
NoForgottenGate ==
    changes = 0 /\ Active(gate) /\ gate.nl = "empty" =>
        \A v \in Version : status[v] = "pending" /\ missing[v] = {} =>
            \E r \in Release : /\ gate.mapping[r] = v
                               /\ pc[r] \notin {"none", "finish", "done"}

\* An open gate is final: its status never changes again, and late reports
\* change neither sources_met nor sources_missing.
OpenIsFinal ==
    [][\A v \in Version : status[v] \in Opened =>
         /\ status'[v] = status[v]
         /\ met'[v] = met[v]
         /\ missing'[v] = missing[v]]_vars

\* The three workers together implement the contract of one gate.
Contract == INSTANCE GateContract WITH state <- status, runs <- agentRuns
ContractSpec == Contract!Spec

\* Every tracked version is opened in the end, by its sources or by the
\* timeout: also with an NL rule that nothing can evaluate, with a verdict
\* never asked for, and with more due rows than a sweep lists.
PendingEventuallyOpens ==
    \A v \in Version : status[v] = "pending" ~> status[v] \in Opened

\* Without faults, an open gate gets its agent run.
OpenedEventuallyTriggered ==
    \A v \in Version : status[v] \in Opened ~> agentRuns[v] = 1 \/ faults > 0
-----------------------------------------------------------------------------
(* What the repository says of the gate and the code does not do. *)

\* The design document: of an ingested release the worker "Upsert[s]
\* version_readiness (add source to sources_met)".
ReportIsTracked ==
    \A r \in Release : pc[r] = "queued" ~>
        \E v \in Version : status[v] \in Opened \/ SourceOf[r] \in met[v]
=============================================================================
