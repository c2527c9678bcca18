------------------------- MODULE ReleaseGateProofs -------------------------
(***************************************************************************)
(* Proofs about ReleaseGate, for any sources, versions, jobs, mappings,    *)
(* configurations and bounds.                                              *)
(*                                                                         *)
(* The argument: OpenGate matches a pending row only, so the worker that   *)
(* opened a gate is the only one between opening and enqueuing (Exclusive) *)
(* and nobody has enqueued before (Fresh).  That a gate opened rightly, is *)
(* not forgotten and gets its run rests on what each job carries from the  *)
(* row it read to the row it writes: three invariants of their own below.  *)
(***************************************************************************)
EXTENDS ReleaseGate, FiniteSetTheorems, TLAPS

\* Steps that the workers of each kind can be at.
ReleasePC == {"none", "queued", "done", "finish"} \cup CheckSteps \cup OpenSteps
NLPC      == {"none", "queued", "done", "finish"} \cup NLSteps \cup OpenSteps
SweepPC   == {"none", "queued", "finish"} \cup SweepSteps \cup OpenSteps

\* A job is at a step of its own worker, the step that follows an event is one
\* its worker has, and a job that touches a row knows which one.
JobsOK ==
    /\ \A r \in Release : /\ pc[r] \in ReleasePC
                          /\ pc[r] = "metEvent" => next[r] \in {"finish", "insertNL", "open"}
                          /\ pc[r] \in CheckSteps => ver[r] \in Version
    /\ \A n \in NLJob : /\ pc[n] \in NLPC
                        /\ pc[n] = "verdictEvent" => next[n] \in {"finish", "open"}
                        /\ pc[n] \notin {"none", "done"} => ver[n] \in Version
    /\ \A j \in Sweep : pc[j] \in SweepPC
    /\ \A j \in Job : pc[j] \in OpenSteps => ver[j] \in Version

Typed == TypeOK /\ JobsOK

\* Nothing has happened to a version whose gate is not open.
Fresh ==
    \A v \in Version : status[v] \notin Opened =>
        agentRuns[v] = 0 /\ \A j \in Job : ~Triggering(j, v)

\* One worker at most is about to enqueue the run of a version, and there is
\* no run yet while it is.
Exclusive ==
    /\ \A j \in Job, v \in Version : Triggering(j, v) => agentRuns[v] = 0
    /\ \A i, j \in Job, v \in Version : Triggering(i, v) /\ Triggering(j, v) => i = j

\* A worker opened the gate in its own way; behind the enqueue there is a run.
OpenersOK ==
    \A j \in Job :
        /\ pc[j] = "openEvent" =>
             status[ver[j]] = IF j \in Sweep THEN "timed_out" ELSE "ready"
        /\ pc[j] \in {"mark", "agentEvent"} => agentRuns[ver[j]] = 1

Safe == Fresh /\ Exclusive /\ AtMostOneAgentRun /\ OpenersOK /\ AuditTruthful

IInv == Typed /\ Safe

\* The steps of a worker that has opened a gate.
Tail == {"openEvent", "enqueue", "mark", "agentEvent"}

\* A step in which nobody opens a gate and no such worker moves on: it creates
\* no run, claims none, and at most begins to track a version.
Quiet ==
    /\ UNCHANGED <<agentRuns, triggered>>
    /\ \A v \in Version : \/ status'[v] = status[v]
                          \/ status[v] = "none" /\ status'[v] = "pending"
    /\ \A v \in Version, e \in {"gate_opened", "gate_timed_out", "agent_triggered"} :
          e \in events'[v] => e \in events[v]
    /\ \A j \in Job : pc'[j] \in Tail => pc'[j] = pc[j] /\ ver'[j] = ver[j]
-----------------------------------------------------------------------------
USE DEF Job, PC, Steps, CheckSteps, NLSteps, SweepSteps, OpenSteps,
        row, job, conf

\* Init puts every job and every row in a state of its type.
LEMMA InitTyped == Init => Typed
BY ConstantsAssumption
   DEF Init, Typed, TypeOK, JobsOK, ReleasePC, NLPC, SweepPC, Status

\* No step of a worker, of the operator or of River leaves the types.
LEMMA NextTyped == Typed /\ [Next]_vars => Typed'
<1> SUFFICES ASSUME Typed, [Next]_vars PROVE Typed'
    OBVIOUS
<1> USE ConstantsAssumption DEF Typed, TypeOK, JobsOK, ReleasePC, NLPC, SweepPC, Goto
<1>0. ASSUME NEW j \in Job, pc[j] \in Steps, Requeue(j), faults' \in Nat PROVE Typed'
    BY <1>0 DEF Requeue
<1>1. ASSUME NEW r \in Release, IngestRelease(r) PROVE Typed'
    BY <1>1 DEF IngestRelease
<1>2. ASSUME NEW r \in Release, CheckLoadGate(r) PROVE Typed'
  <2> DEFINE g == GetReleaseGateBySource(SourceOf[r])
  <2>1. CASE ~Active(g)
    <3> HIDE DEF g
    <3> QED  BY <1>2, <2>1 DEF CheckLoadGate, g
  <2>2. CASE Active(g)
    <3>1. g \in GateConfig
        BY <2>2 DEF Active, GetReleaseGateBySource
    <3>2. g.mapping[r] \in Version /\ g.required \in SUBSET Source
        BY <3>1 DEF GateConfig
    <3> HIDE DEF g
    <3>3. /\ pc' = [pc EXCEPT ![r] = IF g.required = {} THEN "listSources" ELSE "upsert"]
          /\ ver' = [ver EXCEPT ![r] = g.mapping[r]]
          /\ req' = [req EXCEPT ![r] = g.required]
          /\ nl' = [nl EXCEPT ![r] = g.nl = "rule"]
          /\ UNCHANGED <<row, next, list, conf, agentRuns, events, faults, verdicts>>
        BY <1>2, <2>2 DEF CheckLoadGate, g
    <3>4. TypeOK'
        BY <3>2, <3>3
    <3>5. JobsOK'
        BY <3>2, <3>3
    <3> QED  BY <3>4, <3>5
  <2> QED  BY <2>1, <2>2
<1>3. ASSUME NEW r \in Release, CheckListSources(r) PROVE Typed'
    BY <1>3 DEF CheckListSources
<1>4. ASSUME NEW r \in Release, CheckUpsert(r) PROVE Typed'
    BY <1>4 DEF CheckUpsert, UpsertVersionReadiness, Status, Events
<1>5. ASSUME NEW r \in Release, CheckMetEvent(r) PROVE Typed'
    BY <1>5 DEF CheckMetEvent, RecordGateEvent, Fault, Status, Events
<1>6. ASSUME NEW r \in Release, CheckInsertNL(r) PROVE Typed'
    BY <1>6 DEF CheckInsertNL, Fault
<1>7. ASSUME NEW n \in NLJob, NLLoadRow(n) PROVE Typed'
    BY <1>7 DEF NLLoadRow
<1>8. ASSUME NEW n \in NLJob, NLLoadGate(n) PROVE Typed'
  <2>1. CASE gate = NoGate \/ Unreadable(gate)
    BY <1>8, <2>1, <1>0 DEF NLLoadGate
  <2>2. CASE ~(gate = NoGate \/ Unreadable(gate))
    BY <1>8, <2>2 DEF NLLoadGate
  <2> QED  BY <2>1, <2>2
<1>9. ASSUME NEW n \in NLJob, NLStartEvent(n) PROVE Typed'
  <2>1. TypeOK'
    BY <1>9 DEF NLStartEvent, RecordGateEvent, Fault, Events
  <2>2. JobsOK'
    BY <1>9 DEF NLStartEvent
  <2> QED  BY <2>1, <2>2
<1>10. ASSUME NEW n \in NLJob, NLEvaluate(n) PROVE Typed'
  <2>1. CASE ~HasEvaluator
    BY <1>10, <2>1, <1>0 DEF NLEvaluate
  <2>2. CASE HasEvaluator
    <3>1. TypeOK'
      BY <1>10, <2>2 DEF NLEvaluate, UpdateNLRulePassed
    <3>2. JobsOK'
      BY <1>10, <2>2 DEF NLEvaluate
    <3> QED  BY <3>1, <3>2
  <2> QED  BY <2>1, <2>2
<1>11. ASSUME NEW n \in NLJob, NLVerdictEvent(n) PROVE Typed'
    BY <1>11 DEF NLVerdictEvent, RecordGateEvent, Fault, Status, Events
<1>12. ASSUME NEW j \in Sweep, StartSweep(j) PROVE Typed'
    BY <1>12 DEF StartSweep
<1>13. ASSUME NEW j \in Sweep, SweepList(j) PROVE Typed'
    BY <1>13 DEF SweepList, ListExpiredGates
<1>14. ASSUME NEW j \in Sweep, SweepNextRow(j) PROVE Typed'
    BY <1>14 DEF SweepNextRow
<1>15. ASSUME NEW j \in Job, Open(j) PROVE Typed'
    BY <1>15 DEF Open, OpenGate, AfterRow, Fault, Status, Events
<1>16. ASSUME NEW j \in Job, OpenEvent(j) PROVE Typed'
    BY <1>16 DEF OpenEvent, RecordGateEvent, Fault, Status, Events
<1>17. ASSUME NEW j \in Job, Enqueue(j) PROVE Typed'
    BY <1>17 DEF Enqueue, EnqueueAgentRun, AfterRow, Fault
<1>18. ASSUME NEW j \in Job, Mark(j) PROVE Typed'
  <2>1. TypeOK'
    BY <1>18 DEF Mark, MarkAgentTriggered, Fault
  <2>2. JobsOK'
    BY <1>18 DEF Mark
  <2> QED  BY <2>1, <2>2
<1>19. ASSUME NEW j \in Job, AgentEvent(j) PROVE Typed'
    BY <1>19 DEF AgentEvent, RecordGateEvent, AfterRow, Fault, Status, Events
<1>20. ASSUME NEW j \in Job, Complete(j) PROVE Typed'
    BY <1>20 DEF Complete
<1>21. ASSUME NEW j \in Job, Fail(j) PROVE Typed'
    BY <1>21 DEF Fail, Requeue, Fault
<1>22. ASSUME NEW v \in Version, Expire(v) PROVE Typed'
    BY <1>22 DEF Expire
<1>23. ASSUME NEW c \in Configs, UpsertGate(c) PROVE Typed'
    BY <1>23 DEF UpsertGate, Edit, Unreadable
<1>24. ASSUME DeleteGate PROVE Typed'
    BY <1>24 DEF DeleteGate, Edit
<1>25. ASSUME NEW s \in Source, DeleteSource(s) PROVE Typed'
    BY <1>25 DEF DeleteSource, Edit
<1>26. ASSUME UNCHANGED vars PROVE Typed'
    BY <1>26 DEF vars
<1> QED
    BY <1>1, <1>2, <1>3, <1>4, <1>5, <1>6, <1>7, <1>8, <1>9, <1>10, <1>11, <1>12, <1>13, <1>14, <1>15, <1>16, <1>17, <1>18, <1>19, <1>20, <1>21, <1>22, <1>23, <1>24, <1>25, <1>26
    DEF Next, GateCheckStep, NLEvalStep, SweepStep, OpenStep

\* In every reachable state each table row, each job and each history variable
\* has its type, and each worker is at one of its own steps on a known row.
THEOREM TypeCorrect == Spec => []TypeOK
<1>1. Spec => []Typed
    BY InitTyped, NextTyped, PTL DEF Spec
<1>2. Typed => TypeOK
    BY DEF Typed
<1> QED  BY <1>1, <1>2, PTL
-----------------------------------------------------------------------------
LEMMA InitSafe == Init => Safe
BY DEF Init, Safe, Fresh, Exclusive, AtMostOneAgentRun, OpenersOK, AuditTruthful,
       Triggering, Opened

\* A quiet step preserves every part of the invariant.
LEMMA QuietKeepsSafe == ASSUME Typed, Typed', Safe, Quiet PROVE Safe'
<1> USE DEF Typed, Safe, Quiet, Tail, Triggering
<1>1. Fresh'
    BY DEF Fresh, Exclusive, TypeOK, Status, Opened
<1>2. Exclusive'
    BY DEF Exclusive, TypeOK
<1>3. AtMostOneAgentRun'
    BY DEF AtMostOneAgentRun, TypeOK
<1>4. OpenersOK'
    BY DEF OpenersOK, TypeOK, JobsOK, Fresh, Opened, Exclusive
<1>5. AuditTruthful'
    BY DEF AuditTruthful, TypeOK, Fresh, Opened
<1> QED  BY <1>1, <1>2, <1>3, <1>4, <1>5

\* Every step outside the five of the opening sequence is quiet.
LEMMA MostStepsQuiet ==
    ASSUME Typed, [Next]_vars,
           ~\E j \in Job : OpenStep(j)
    PROVE  Quiet
<1> USE ConstantsAssumption DEF Quiet, Tail, Goto, Typed, TypeOK, JobsOK
<1>1. ASSUME NEW r \in Release, IngestRelease(r) PROVE Quiet
    BY <1>1 DEF IngestRelease
<1>2. ASSUME NEW r \in Release, CheckLoadGate(r) PROVE Quiet
    BY <1>2 DEF CheckLoadGate
<1>3. ASSUME NEW r \in Release, CheckListSources(r) PROVE Quiet
    BY <1>3 DEF CheckListSources
<1>4. ASSUME NEW r \in Release, CheckUpsert(r) PROVE Quiet
    BY <1>4 DEF CheckUpsert, UpsertVersionReadiness
<1>5. ASSUME NEW r \in Release, CheckMetEvent(r) PROVE Quiet
    BY <1>5 DEF CheckMetEvent, RecordGateEvent, Fault
<1>6. ASSUME NEW r \in Release, CheckInsertNL(r) PROVE Quiet
    BY <1>6 DEF CheckInsertNL, Fault
<1>7. ASSUME NEW n \in NLJob, NLLoadRow(n) PROVE Quiet
    BY <1>7 DEF NLLoadRow
<1>8. ASSUME NEW n \in NLJob, NLLoadGate(n) PROVE Quiet
    BY <1>8 DEF NLLoadGate, Requeue, Unreadable
<1>9. ASSUME NEW n \in NLJob, NLStartEvent(n) PROVE Quiet
    BY <1>9 DEF NLStartEvent, RecordGateEvent, Fault
<1>10. ASSUME NEW n \in NLJob, NLEvaluate(n) PROVE Quiet
    BY <1>10 DEF NLEvaluate, Requeue, UpdateNLRulePassed
<1>11. ASSUME NEW n \in NLJob, NLVerdictEvent(n) PROVE Quiet
    BY <1>11 DEF NLVerdictEvent, RecordGateEvent, Fault
<1>12. ASSUME NEW j \in Sweep, StartSweep(j) PROVE Quiet
    BY <1>12 DEF StartSweep
<1>13. ASSUME NEW j \in Sweep, SweepList(j) PROVE Quiet
    BY <1>13 DEF SweepList, ListExpiredGates
<1>14. ASSUME NEW j \in Sweep, SweepNextRow(j) PROVE Quiet
    BY <1>14 DEF SweepNextRow
<1>15. ASSUME NEW j \in Job, Complete(j) PROVE Quiet
    BY <1>15 DEF Complete
<1>16. ASSUME NEW j \in Job, Fail(j) PROVE Quiet
    BY <1>16 DEF Fail, Requeue, Fault
<1>17. ASSUME NEW v \in Version, Expire(v) PROVE Quiet
    BY <1>17 DEF Expire
<1>18. ASSUME NEW c \in Configs, UpsertGate(c) PROVE Quiet
    BY <1>18 DEF UpsertGate, Edit, Unreadable
<1>19. ASSUME DeleteGate PROVE Quiet
    BY <1>19 DEF DeleteGate, Edit
<1>20. ASSUME NEW s \in Source, DeleteSource(s) PROVE Quiet
    BY <1>20 DEF DeleteSource, Edit
<1>21. ASSUME UNCHANGED vars PROVE Quiet
    BY <1>21 DEF vars
<1> QED
    BY <1>1, <1>2, <1>3, <1>4, <1>5, <1>6, <1>7, <1>8, <1>9, <1>10, <1>11, <1>12, <1>13, <1>14, <1>15, <1>16, <1>17, <1>18, <1>19, <1>20, <1>21
    DEF Next, GateCheckStep, NLEvalStep, SweepStep

\* The five steps of the opening sequence.  Open is the one that needs Fresh:
\* the row was pending, so no other worker is between opening and enqueuing.
LEMMA OpenStepKeepsSafe ==
    ASSUME Typed, Typed', Safe, NEW j \in Job, OpenStep(j)
    PROVE  Safe'
<1> USE DEF Typed, Safe, Triggering, Goto
<1>1. CASE Open(j)
  <2>1. CASE UNCHANGED status
    <3>1. Quiet
        BY <1>1, <2>1 DEF Open, OpenGate, AfterRow, Quiet, Tail, TypeOK, JobsOK
    <3> QED  BY <3>1, QuietKeepsSafe
  <2>2. CASE OpenGate(ver[j], IF j \in Sweep THEN "timed_out" ELSE "ready") /\ pc' = [pc EXCEPT ![j] = "openEvent"]
    <3>0. /\ ver[j] \in Version /\ status[ver[j]] = "pending"
          /\ status' = [status EXCEPT ![ver[j]] = IF j \in Sweep THEN "timed_out" ELSE "ready"]
          /\ UNCHANGED <<agentRuns, triggered, events, ver>>
        BY <1>1, <2>2 DEF Open, OpenGate, JobsOK
    <3>1. Fresh'
        BY <2>2, <3>0 DEF Fresh, Opened, TypeOK
    <3>2. Exclusive'
        BY <2>2, <3>0 DEF Exclusive, Fresh, Opened, TypeOK
    <3>3. AtMostOneAgentRun'
        BY <3>0 DEF AtMostOneAgentRun
    <3>4. OpenersOK'
        BY <2>2, <3>0 DEF OpenersOK, Fresh, Opened, TypeOK, JobsOK
    <3>5. AuditTruthful'
        BY <3>0 DEF AuditTruthful, Fresh, Opened, TypeOK
    <3> QED  BY <3>1, <3>2, <3>3, <3>4, <3>5
  <2> QED  BY <1>1, <2>1, <2>2 DEF Open
<1>2. CASE OpenEvent(j)
  <2>0. /\ pc[j] = "openEvent" /\ pc' = [pc EXCEPT ![j] = "enqueue"] /\ ver[j] \in Version
        /\ UNCHANGED <<status, agentRuns, triggered, ver>>
        /\ \/ UNCHANGED events
           \/ events' = [events EXCEPT ![ver[j]] = @ \cup
                {IF j \in Sweep THEN "gate_timed_out" ELSE "gate_opened"}]
      BY <1>2 DEF OpenEvent, RecordGateEvent, JobsOK
  <2>1. Fresh'
      BY <2>0 DEF Fresh, TypeOK
  <2>2. Exclusive'
      BY <2>0 DEF Exclusive, TypeOK
  <2>3. AtMostOneAgentRun'
      BY <2>0 DEF AtMostOneAgentRun
  <2>4. OpenersOK'
      BY <2>0 DEF OpenersOK, TypeOK
  <2>5. AuditTruthful'
      BY <2>0 DEF AuditTruthful, OpenersOK, TypeOK
  <2> QED  BY <2>1, <2>2, <2>3, <2>4, <2>5
<1>3. CASE Enqueue(j)
  <2>1. CASE UNCHANGED agentRuns
    <3>1. Quiet
        BY <1>3, <2>1 DEF Enqueue, EnqueueAgentRun, AfterRow, Quiet, Tail, TypeOK, JobsOK
    <3> QED  BY <3>1, QuietKeepsSafe
  <2>2. CASE EnqueueAgentRun(ver[j]) /\ pc' = [pc EXCEPT ![j] = "mark"]
    <3>a. /\ ver[j] \in Version /\ pc[j] = "enqueue"
          /\ agentRuns' = [agentRuns EXCEPT ![ver[j]] = @ + 1]
          /\ UNCHANGED <<status, triggered, events, ver>>
        BY <1>3, <2>2 DEF Enqueue, EnqueueAgentRun, JobsOK
    <3>b. agentRuns[ver[j]] = 0
        BY <3>a DEF Exclusive
    <3>c. agentRuns' = [agentRuns EXCEPT ![ver[j]] = 1]
        BY <3>a, <3>b
    <3>0. /\ ver[j] \in Version /\ pc[j] = "enqueue"
          /\ agentRuns[ver[j]] = 0
          /\ agentRuns' = [agentRuns EXCEPT ![ver[j]] = 1]
          /\ UNCHANGED <<status, triggered, events, ver>>
        BY <3>a, <3>b, <3>c
    <3>1. Fresh'
        BY <2>2, <3>0 DEF Fresh, TypeOK
    <3>2. Exclusive'
        BY <2>2, <3>0 DEF Exclusive, TypeOK
    <3>3. AtMostOneAgentRun'
        BY <3>0 DEF AtMostOneAgentRun, TypeOK
    <3>4. OpenersOK'
        BY <2>2, <3>0 DEF OpenersOK, TypeOK, JobsOK
    <3>5. AuditTruthful'
        BY <3>0 DEF AuditTruthful, TypeOK
    <3> QED  BY <3>1, <3>2, <3>3, <3>4, <3>5
  <2> QED  BY <1>3, <2>1, <2>2 DEF Enqueue
<1>4. ASSUME Mark(j) \/ AgentEvent(j) PROVE Safe'
  <2>0. /\ pc[j] \in {"mark", "agentEvent"} /\ ver[j] \in Version
        /\ pc' = [pc EXCEPT ![j] = IF pc[j] = "mark" THEN "agentEvent" ELSE AfterRow(j)]
        /\ UNCHANGED <<status, agentRuns, ver>>
        /\ triggered' \subseteq triggered \cup {ver[j]}
        /\ \/ UNCHANGED events
           \/ events' = [events EXCEPT ![ver[j]] = @ \cup {"agent_triggered"}]
      BY <1>4 DEF Mark, AgentEvent, MarkAgentTriggered, RecordGateEvent, JobsOK, TypeOK
  <2>1. Fresh'
      BY <2>0 DEF Fresh, TypeOK, AfterRow
  <2>2. Exclusive'
      BY <2>0 DEF Exclusive, TypeOK, AfterRow
  <2>3. AtMostOneAgentRun'
      BY <2>0 DEF AtMostOneAgentRun
  <2>4. OpenersOK'
      BY <2>0 DEF OpenersOK, TypeOK, AfterRow
  <2>5. AuditTruthful'
      BY <2>0 DEF AuditTruthful, OpenersOK, TypeOK
  <2> QED  BY <2>1, <2>2, <2>3, <2>4, <2>5
<1> QED  BY <1>1, <1>2, <1>3, <1>4 DEF OpenStep

LEMMA Inductive == IInv /\ [Next]_vars => IInv'
<1> SUFFICES ASSUME IInv, [Next]_vars PROVE IInv'
    OBVIOUS
<1>1. Typed'
    BY NextTyped DEF IInv
<1>2. CASE \E j \in Job : OpenStep(j)
    BY <1>1, <1>2, OpenStepKeepsSafe DEF IInv
<1>3. CASE ~\E j \in Job : OpenStep(j)
    BY <1>1, <1>3, MostStepsQuiet, QuietKeepsSafe DEF IInv
<1> QED  BY <1>1, <1>2, <1>3 DEF IInv

THEOREM Invariance == Spec => []IInv
<1>1. Init => IInv
    BY InitTyped, InitSafe DEF IInv
<1> QED  BY <1>1, Inductive, PTL DEF Spec

\* Gate checks, NL evaluations and sweeps, interleaved in any way, repeated by
\* River any number of times and failing anywhere, enqueue at most one agent
\* run for a version.
THEOREM GateAtMostOneRun == Spec => []AtMostOneAgentRun
<1>1. IInv => AtMostOneAgentRun
    BY DEF IInv, Safe
<1> QED  BY <1>1, Invariance, PTL

\* Neither the row nor the audit log claims an agent run that does not exist,
\* or two ways of opening for one gate.
THEOREM GateAuditTruthful == Spec => []AuditTruthful
<1>1. IInv => AuditTruthful
    BY DEF IInv, Safe
<1> QED  BY <1>1, Invariance, PTL
-----------------------------------------------------------------------------
\* What a step may do to the row of a version and to its runs: begin to track
\* it, learn of sources while it is pending, open it, or enqueue its one run.
Advances(v) ==
    /\ \/ status'[v] = status[v]
       \/ status[v] = "none" /\ status'[v] = "pending"
       \/ status[v] = "pending" /\ status'[v] \in Opened
    /\ status[v] \in Opened => met'[v] = met[v] /\ missing'[v] = missing[v]

\* Only CheckUpsert and Open write the row, and neither touches an open one.
LEMMA RowAdvances ==
    ASSUME Typed, [Next]_vars, NEW v \in Version
    PROVE  Advances(v)
<1> USE DEF Typed, TypeOK, JobsOK, Advances, Opened
<1>1. ASSUME NEW r \in Release, CheckUpsert(r) PROVE Advances(v)
    BY <1>1 DEF CheckUpsert, UpsertVersionReadiness, Status
<1>2. ASSUME NEW j \in Job, Open(j) PROVE Advances(v)
    BY <1>2 DEF Open, OpenGate
<1>3. ASSUME UNCHANGED <<status, met, missing>> PROVE Advances(v)
    BY <1>3
<1>4. \/ \E r \in Release : CheckUpsert(r)
      \/ \E j \in Job : Open(j)
      \/ UNCHANGED <<status, met, missing>>
    BY DEF Next, GateCheckStep, NLEvalStep, SweepStep, OpenStep, IngestRelease,
           CheckLoadGate, CheckListSources, CheckMetEvent, CheckInsertNL, NLLoadRow,
           NLLoadGate, NLStartEvent, NLEvaluate, NLVerdictEvent, Requeue, StartSweep,
           SweepList, SweepNextRow, OpenEvent, Enqueue, Mark, AgentEvent, Complete,
           Fail, Expire, UpsertGate, DeleteGate, DeleteSource, Edit, vars
<1> QED  BY <1>1, <1>2, <1>3, <1>4

\* An open gate is final: no worker, repeated or late, and no edit changes its
\* status, its sources_met or its sources_missing.
THEOREM GateOpenIsFinal == Spec => OpenIsFinal
<1>1. Typed /\ [Next]_vars =>
        [\A v \in Version : status[v] \in Opened =>
           /\ status'[v] = status[v]
           /\ met'[v] = met[v]
           /\ missing'[v] = missing[v]]_vars
    BY RowAdvances DEF Advances, Opened
<1> QED  BY <1>1, InitTyped, NextTyped, PTL DEF Spec, OpenIsFinal

\* One step writes the status of one version, or the runs of one, or neither.
LEMMA StepIsContractStep ==
    ASSUME IInv, [Next]_vars
    PROVE  [Contract!Next]_(Contract!vars)
<1> USE DEF IInv, Typed, TypeOK, JobsOK, Contract!Next, Contract!vars
<1>1. ASSUME NEW r \in Release, CheckUpsert(r) PROVE [Contract!Next]_(Contract!vars)
  <2>1. ver[r] \in Version
      BY <1>1 DEF CheckUpsert
  <2>2. CASE status[ver[r]] = "none"
      BY <1>1, <2>1, <2>2 DEF CheckUpsert, UpsertVersionReadiness, Contract!Track
  <2>3. CASE status[ver[r]] # "none"
      BY <1>1, <2>1, <2>3 DEF CheckUpsert, UpsertVersionReadiness
  <2> QED  BY <2>2, <2>3
<1>2. ASSUME NEW j \in Job, Open(j) PROVE [Contract!Next]_(Contract!vars)
    BY <1>2 DEF Open, OpenGate, Contract!Open
<1>3. ASSUME NEW j \in Job, Enqueue(j) PROVE [Contract!Next]_(Contract!vars)
  <2>1. CASE UNCHANGED agentRuns
      BY <1>3, <2>1 DEF Enqueue
  <2>2. CASE EnqueueAgentRun(ver[j])
    <3>1. ver[j] \in Version /\ pc[j] = "enqueue" /\ UNCHANGED status
        BY <1>3 DEF Enqueue
    <3>2. agentRuns[ver[j]] = 0 /\ status[ver[j]] \in Opened
        BY <3>1 DEF Safe, Exclusive, Fresh, Triggering
    <3>3. agentRuns' = [agentRuns EXCEPT ![ver[j]] = 1]
        BY <2>2, <3>2 DEF EnqueueAgentRun
    <3> QED  BY <3>1, <3>2, <3>3 DEF Contract!Trigger, Opened
  <2> QED  BY <1>3, <2>1, <2>2 DEF Enqueue
<1>4. ASSUME UNCHANGED <<status, agentRuns>> PROVE [Contract!Next]_(Contract!vars)
    BY <1>4
<1>5. \/ \E r \in Release : CheckUpsert(r)
      \/ \E j \in Job : Open(j) \/ Enqueue(j)
      \/ UNCHANGED <<status, agentRuns>>
    BY DEF Next, GateCheckStep, NLEvalStep, SweepStep, OpenStep, IngestRelease,
           CheckLoadGate, CheckListSources, CheckMetEvent, CheckInsertNL, NLLoadRow,
           NLLoadGate, NLStartEvent, NLEvaluate, NLVerdictEvent, Requeue, StartSweep,
           SweepList, SweepNextRow, OpenEvent, Mark, AgentEvent, Complete,
           Fail, Expire, UpsertGate, DeleteGate, DeleteSource, Edit, vars
<1> QED  BY <1>1, <1>2, <1>3, <1>4, <1>5

\* The three workers, the queue and the operator together implement the
\* contract of a gate: a version is tracked, opened once, triggered once.
THEOREM GateImplementsContract == Spec => ContractSpec
<1>1. Init => Contract!Init
    BY DEF Init, Contract!Init
<1>2. IInv /\ [Next]_vars => [Contract!Next]_(Contract!vars)
    BY StepIsContractStep
<1> QED  BY <1>1, <1>2, Invariance, PTL DEF Spec, ContractSpec, Contract!Spec
-----------------------------------------------------------------------------
(* A gate that opened as ready was justified.  What justifies it is a fact *)
(* about the histories, and histories only grow: so each worker carries    *)
(* its justification from the moment it read the row to the moment it      *)
(* opens the gate, whatever the operator edits in between.                 *)

\* The versions that met a requirement which was once in force.
Met == {v \in Version : \E R \in PastRequirements : R \subseteq met[v]}

\* No configuration without an NL rule was ever in force.
Ruled == \A c \in pastGates : c.nl = "rule"

\* The versions that may open as far as the NL rule goes.
Passed == {v \in Version : Ruled => TRUE \in verdicts[v]}

\* The histories hold what is in force.
HistoryOK == (gate # NoGate => gate \in pastGates) /\ sources \in pastSources

\* What a row says is missing covers what some requirement still lacks; what
\* it says of the verdict is so; and a gate that is ready was justified.
RowsJustified ==
    \A v \in Version :
        /\ status[v] # "none" => \E R \in PastRequirements : R \ met[v] \subseteq missing[v]
        /\ nlPassed[v] = "true" => TRUE \in verdicts[v]
        /\ status[v] = "ready" => v \in Met /\ v \in Passed

\* A job about to take a step, or to record the report and then take it.
Heading(r, step) == pc[r] = step \/ (pc[r] = "metEvent" /\ next[r] = step)

\* A gate check knows a requirement that was in force and whether there was a
\* rule; it asks for a verdict, or opens the gate, on a version that may.
CheckJustified(r) ==
    /\ pc[r] = "upsert" => req[r] \in PastRequirements
    /\ pc[r] \in {"listSources", "upsert"} => nl[r] \/ ~Ruled
    /\ Heading(r, "insertNL") => ver[r] \in Met
    /\ Heading(r, "open") => ver[r] \in Met /\ ver[r] \in Passed

\* An NL evaluation is asked for a version that met a requirement, and opens
\* what it opens after a verdict.
EvalJustified(n) ==
    /\ pc[n] \notin {"none", "done"} => ver[n] \in Met
    /\ pc[n] = "open" \/ (pc[n] = "verdictEvent" /\ next[n] = "open") =>
         ver[n] \in Passed

JobsJustified ==
    /\ \A r \in Release : CheckJustified(r)
    /\ \A n \in NLJob : EvalJustified(n)

Justified == HistoryOK /\ RowsJustified /\ JobsJustified

\* A job in which a step changes nothing, and the steps that change one only.
Untouched(k) == /\ pc'[k] = pc[k] /\ ver'[k] = ver[k] /\ req'[k] = req[k]
                /\ nl'[k] = nl[k] /\ next'[k] = next[k]
Touches(j) == \A k \in Job \ {j} : Untouched(k)

\* Histories, sources_met and verdicts only grow: what was justified stays so.
LEMMA Kept ==
    ASSUME Typed, [Next]_vars
    PROVE  /\ PastRequirements \subseteq PastRequirements'
           /\ Ruled' => Ruled
           /\ Met \subseteq Met' /\ Passed \subseteq Passed'
           /\ \A v \in Version : verdicts[v] \subseteq verdicts'[v]
<1> USE DEF Typed, TypeOK, JobsOK
<1>1. pastGates \subseteq pastGates' /\ pastSources \subseteq pastSources'
    BY DEF Next, GateCheckStep, NLEvalStep, SweepStep, OpenStep, IngestRelease,
           CheckLoadGate, CheckListSources, CheckUpsert, CheckMetEvent, CheckInsertNL,
           NLLoadRow, NLLoadGate, NLStartEvent, NLEvaluate, NLVerdictEvent, Requeue,
           StartSweep, SweepList, SweepNextRow, Open, OpenEvent, Enqueue, Mark,
           AgentEvent, Complete, Fail, Expire, UpsertGate, DeleteGate, DeleteSource,
           Edit, vars
<1>2. \A v \in Version : met[v] \subseteq met'[v]
  <2>1. ASSUME NEW r \in Release, CheckUpsert(r) PROVE \A v \in Version : met[v] \subseteq met'[v]
      BY <2>1 DEF CheckUpsert, UpsertVersionReadiness
  <2>2. (\E r \in Release : CheckUpsert(r)) \/ UNCHANGED met
      BY DEF Next, GateCheckStep, NLEvalStep, SweepStep, OpenStep, IngestRelease,
             CheckLoadGate, CheckListSources, CheckMetEvent, CheckInsertNL,
             NLLoadRow, NLLoadGate, NLStartEvent, NLEvaluate, NLVerdictEvent, Requeue,
             StartSweep, SweepList, SweepNextRow, Open, OpenEvent, Enqueue, Mark,
             AgentEvent, Complete, Fail, Expire, UpsertGate, DeleteGate, DeleteSource,
             Edit, vars
  <2> QED  BY <2>1, <2>2
<1>3. \A v \in Version : verdicts[v] \subseteq verdicts'[v]
  <2>1. ASSUME NEW n \in NLJob, NLEvaluate(n)
        PROVE  \A v \in Version : verdicts[v] \subseteq verdicts'[v]
      BY <2>1 DEF NLEvaluate, Requeue
  <2>2. (\E n \in NLJob : NLEvaluate(n)) \/ UNCHANGED verdicts
      BY DEF Next, GateCheckStep, NLEvalStep, SweepStep, OpenStep, IngestRelease,
             CheckLoadGate, CheckListSources, CheckUpsert, CheckMetEvent, CheckInsertNL,
             NLLoadRow, NLLoadGate, NLStartEvent, NLVerdictEvent, Requeue,
             StartSweep, SweepList, SweepNextRow, Open, OpenEvent, Enqueue, Mark,
             AgentEvent, Complete, Fail, Expire, UpsertGate, DeleteGate, DeleteSource,
             Edit, vars
  <2> QED  BY <2>1, <2>2
<1>4. PastRequirements \subseteq PastRequirements'
    BY <1>1 DEF PastRequirements
<1>5. Ruled' => Ruled
    BY <1>1 DEF Ruled
<1>6. Met \subseteq Met'
  <2> SUFFICES ASSUME NEW v \in Version, NEW R \in PastRequirements, R \subseteq met[v]
               PROVE  \E S \in PastRequirements' : S \subseteq met'[v]
      BY DEF Met
  <2> QED  BY <1>2, <1>4
<1>7. Passed \subseteq Passed'
    BY <1>3, <1>5 DEF Passed
<1> QED  BY <1>3, <1>4, <1>5, <1>6, <1>7

LEMMA HistoryKept == ASSUME Typed, HistoryOK, [Next]_vars PROVE HistoryOK'
<1> USE ConstantsAssumption DEF Typed, TypeOK, HistoryOK
<1>1. ASSUME NEW c \in Configs, UpsertGate(c) PROVE HistoryOK'
    BY <1>1 DEF UpsertGate
<1>2. ASSUME DeleteGate PROVE HistoryOK'
    BY <1>2 DEF DeleteGate
<1>3. ASSUME NEW s \in Source, DeleteSource(s) PROVE HistoryOK'
    BY <1>3 DEF DeleteSource
<1>4. ASSUME UNCHANGED conf PROVE HistoryOK'
    BY <1>4
<1>5. \/ \E c \in Configs : UpsertGate(c)
      \/ DeleteGate
      \/ \E s \in Source : DeleteSource(s)
      \/ UNCHANGED conf
    BY DEF Next, GateCheckStep, NLEvalStep, SweepStep, OpenStep, IngestRelease,
           CheckLoadGate, CheckListSources, CheckUpsert, CheckMetEvent, CheckInsertNL,
           NLLoadRow, NLLoadGate, NLStartEvent, NLEvaluate, NLVerdictEvent, Requeue,
           StartSweep, SweepList, SweepNextRow, Open, OpenEvent, Enqueue, Mark,
           AgentEvent, Complete, Fail, Expire, vars
<1> QED  BY <1>1, <1>2, <1>3, <1>4, <1>5

\* Three steps write a row.  An upsert computes what is missing from a
\* requirement its job has read; a worker opens what its job has justified.
LEMMA RowsKept == ASSUME Typed, Justified, [Next]_vars PROVE RowsJustified'
<1> USE DEF Typed, TypeOK, JobsOK, Justified, RowsJustified
<1>0. /\ PastRequirements \subseteq PastRequirements'
      /\ Met \subseteq Met' /\ Passed \subseteq Passed'
      /\ \A v \in Version : verdicts[v] \subseteq verdicts'[v]
    BY Kept
<1>1. ASSUME NEW r \in Release, CheckUpsert(r) PROVE RowsJustified'
  <2>1. /\ ver[r] \in Version /\ req[r] \in PastRequirements
        /\ UpsertVersionReadiness(ver[r], SourceOf[r], req[r])
        /\ UNCHANGED <<nlPassed, verdicts>>
      BY <1>1 DEF CheckUpsert, JobsJustified, CheckJustified
  <2> DEFINE v == ver[r]
             learns == status[v] = "none" \/ (status[v] = "pending" /\ SourceOf[r] \notin met[v])
  <2>2. /\ status' = [status EXCEPT ![v] = IF @ = "none" THEN "pending" ELSE @]
        /\ met' = [met EXCEPT ![v] = IF learns THEN @ \cup {SourceOf[r]} ELSE @]
        /\ missing' = [missing EXCEPT ![v] = IF learns THEN req[r] \ met'[v] ELSE @]
      BY <2>1 DEF UpsertVersionReadiness
  <2>3. ASSUME NEW u \in Version, status'[u] # "none"
        PROVE  \E R \in PastRequirements' : R \ met'[u] \subseteq missing'[u]
    <3>1. CASE u = v /\ learns
        BY <1>0, <2>1, <2>2, <3>1
    <3>2. CASE ~(u = v /\ learns)
      <4>1. /\ met'[u] = met[u] /\ missing'[u] = missing[u] /\ status[u] # "none"
          BY <2>2, <2>3, <3>2
      <4> QED  BY <1>0, <4>1
    <3> QED  BY <3>1, <3>2
  <2>4. ASSUME NEW u \in Version, status'[u] = "ready" PROVE u \in Met' /\ u \in Passed'
      BY <1>0, <2>2, <2>4
  <2> QED  BY <1>0, <2>1, <2>3, <2>4
<1>2. ASSUME NEW j \in Job, Open(j) PROVE RowsJustified'
  <2>1. CASE UNCHANGED status
      BY <1>0, <1>2, <2>1 DEF Open
  <2>2. CASE OpenGate(ver[j], IF j \in Sweep THEN "timed_out" ELSE "ready")
    <3>1. j \notin Sweep => ver[j] \in Met /\ ver[j] \in Passed
      <4>1. CASE j \in Release
          BY <1>2, <4>1 DEF Open, JobsJustified, CheckJustified, Heading
      <4>2. CASE j \in NLJob
          BY <1>2, <4>2 DEF Open, JobsJustified, EvalJustified
      <4> QED  BY <4>1, <4>2
    <3>2. UNCHANGED <<met, missing, nlPassed, verdicts>>
        BY <1>2 DEF Open
    <3> QED  BY <1>0, <2>2, <3>1, <3>2 DEF OpenGate
  <2> QED  BY <1>2, <2>1, <2>2 DEF Open
<1>3. ASSUME NEW n \in NLJob, NLEvaluate(n) PROVE RowsJustified'
  <2>1. CASE ~HasEvaluator
      BY <1>0, <1>3, <2>1 DEF NLEvaluate, Requeue
  <2>2. CASE HasEvaluator
    <3>1. PICK passed \in BOOLEAN :
            /\ nlPassed' = [nlPassed EXCEPT ![ver[n]] = IF passed THEN "true" ELSE "false"]
            /\ verdicts' = [verdicts EXCEPT ![ver[n]] = @ \cup {passed}]
        BY <1>3, <2>2 DEF NLEvaluate, UpdateNLRulePassed
    <3>2. ver[n] \in Version /\ UNCHANGED <<status, met, missing>>
        BY <1>3, <2>2 DEF NLEvaluate
    <3>3. nlPassed'[ver[n]] = "true" => TRUE \in verdicts'[ver[n]]
        BY <3>1, <3>2
    <3>4. \A v \in Version \ {ver[n]} : nlPassed'[v] = nlPassed[v]
        BY <3>1
    <3> QED  BY <1>0, <3>2, <3>3, <3>4
  <2> QED  BY <2>1, <2>2
<1>4. ASSUME UNCHANGED <<status, met, missing, nlPassed>> PROVE RowsJustified'
    BY <1>0, <1>4
<1>5. \/ \E r \in Release : CheckUpsert(r)
      \/ \E j \in Job : Open(j)
      \/ \E n \in NLJob : NLEvaluate(n)
      \/ UNCHANGED <<status, met, missing, nlPassed>>
    BY DEF Next, GateCheckStep, NLEvalStep, SweepStep, OpenStep, IngestRelease,
           CheckLoadGate, CheckListSources, CheckMetEvent, CheckInsertNL, NLLoadRow,
           NLLoadGate, NLStartEvent, NLVerdictEvent, Requeue, StartSweep, SweepList,
           SweepNextRow, OpenEvent, Enqueue, Mark, AgentEvent, Complete, Fail,
           Expire, UpsertGate, DeleteGate, DeleteSource, Edit, vars
<1> QED  BY <1>1, <1>2, <1>3, <1>4, <1>5

\* A job that asks for a verdict or heads for Open has found its row complete.
LEMMA UpsertJustifies ==
    ASSUME Typed, Justified, NEW r \in Release, CheckUpsert(r),
           RowsJustified', next'[r] \in {"insertNL", "open"}
    PROVE  /\ ver[r] \in Met'
           /\ next'[r] = "open" => ver[r] \in Passed'
<1> USE DEF Typed, TypeOK, JobsOK, Justified
<1>1. /\ ver[r] \in Version
      /\ missing'[ver[r]] = {}
      /\ next'[r] = "open" => ~nl[r] \/ nlPassed[ver[r]] = "true"
      /\ UNCHANGED <<verdicts, pastGates, nlPassed>>
    BY DEF CheckUpsert
<1>2. status'[ver[r]] # "none"
    BY <1>1, ConstantsAssumption DEF CheckUpsert, UpsertVersionReadiness
<1>3. ver[r] \in Met'
    BY <1>1, <1>2 DEF RowsJustified, Met
<1>4. ASSUME next'[r] = "open" PROVE ver[r] \in Passed'
  <2>1. CASE ~nl[r]
    <3>1. ~Ruled
        BY <2>1 DEF CheckUpsert, JobsJustified, CheckJustified
    <3> QED  BY <1>1, <3>1 DEF Ruled, Passed
  <2>2. CASE nlPassed[ver[r]] = "true"
      BY <1>1, <2>2 DEF RowsJustified, Passed
  <2> QED  BY <1>1, <1>4, <2>1, <2>2
<1> QED  BY <1>3, <1>4

\* What a job carries stays true while its own steps leave it alone.
LEMMA UntouchedKept ==
    ASSUME Typed, Typed', JobsJustified, [Next]_vars, NEW k \in Job, Untouched(k)
    PROVE  /\ k \in Release => CheckJustified(k)'
           /\ k \in NLJob => EvalJustified(k)'
<1>0. /\ PastRequirements \subseteq PastRequirements'
      /\ Ruled' => Ruled
      /\ Met \subseteq Met' /\ Passed \subseteq Passed'
    BY Kept
<1>1. ASSUME k \in Release PROVE CheckJustified(k)'
  <2>1. CheckJustified(k)
      BY <1>1 DEF JobsJustified
  <2> QED  BY <1>0, <2>1 DEF CheckJustified, Untouched, Heading
<1>2. ASSUME k \in NLJob PROVE EvalJustified(k)'
  <2>1. EvalJustified(k)
      BY <1>2 DEF JobsJustified
  <2> QED  BY <1>0, <2>1 DEF EvalJustified, Untouched
<1> QED  BY <1>1, <1>2

\* So for a step of one job only that job has to be looked at.
LEMMA OneJob ==
    ASSUME Typed, Typed', JobsJustified, [Next]_vars, NEW j \in Job, Touches(j),
           j \in Release => CheckJustified(j)', j \in NLJob => EvalJustified(j)'
    PROVE  JobsJustified'
BY UntouchedKept DEF Touches, JobsJustified

\* Every job step keeps what its job carries, acquires it, or drops it.
LEMMA JobsKept ==
    ASSUME Typed, Typed', Justified, [Next]_vars
    PROVE  JobsJustified'
<1> USE DEF Typed, TypeOK, JobsOK, Justified, Goto
<1>0. /\ PastRequirements \subseteq PastRequirements'
      /\ Ruled' => Ruled
      /\ Met \subseteq Met' /\ Passed \subseteq Passed'
    BY Kept
<1>a. Release \cap NLJob = {} /\ Release \cap Sweep = {} /\ NLJob \cap Sweep = {}
    BY ConstantsAssumption
<1>b. /\ \A r \in Release : CheckJustified(r)
      /\ \A n \in NLJob : EvalJustified(n)
    BY DEF JobsJustified
<1>1. ASSUME NEW r \in Release, IngestRelease(r) PROVE JobsJustified'
  <2>1. Touches(r)
      BY <1>1 DEF IngestRelease, Touches, Untouched
  <2>2. CheckJustified(r)'
      BY <1>1 DEF IngestRelease, CheckJustified, Heading
  <2> QED  BY <1>a, <2>1, <2>2, OneJob
<1>2. ASSUME NEW r \in Release, CheckLoadGate(r) PROVE JobsJustified'
  <2> DEFINE g == GetReleaseGateBySource(SourceOf[r])
  <2>1. Touches(r)
    <3> HIDE DEF g
    <3> QED  BY <1>2 DEF CheckLoadGate, g, Touches, Untouched
  <2>2. CASE ~Active(g)
    <3>1. pc'[r] = "finish"
        BY <1>2, <2>2 DEF CheckLoadGate
    <3>2. CheckJustified(r)'
        BY <3>1 DEF CheckJustified, Heading
    <3> QED  BY <1>a, <2>1, <3>2, OneJob
  <2>3. CASE Active(g)
    <3>1. g \in pastGates /\ UNCHANGED <<pastGates, pastSources>>
        BY <1>2, <2>3 DEF CheckLoadGate, Active, GetReleaseGateBySource, HistoryOK
    <3>2. g.required # {} => g.required \in PastRequirements'
        BY <3>1 DEF PastRequirements
    <3>3. g.nl # "rule" => ~Ruled'
        BY <3>1 DEF Ruled
    <3> HIDE DEF g
    <3>4. /\ pc'[r] = IF g.required = {} THEN "listSources" ELSE "upsert"
          /\ req'[r] = g.required
        BY <1>2, <2>3 DEF CheckLoadGate, g
    <3>5. nl' = [nl EXCEPT ![r] = g.nl = "rule"]
        BY <1>2, <2>3 DEF CheckLoadGate, g
    <3>6. nl'[r] \/ g.nl # "rule"
        BY <3>5, Zenon
    <3>7. CheckJustified(r)'
        BY <3>2, <3>3, <3>4, <3>6 DEF CheckJustified, Heading
    <3> QED  BY <1>a, <2>1, <3>7, OneJob
  <2> QED  BY <2>2, <2>3
<1>3. ASSUME NEW r \in Release, CheckListSources(r) PROVE JobsJustified'
  <2>1. Touches(r)
      BY <1>3 DEF CheckListSources, Touches, Untouched
  <2>2. sources \in PastRequirements'
      BY <1>3 DEF CheckListSources, PastRequirements, HistoryOK
  <2>3. /\ pc[r] = "listSources" /\ pc'[r] = "upsert"
        /\ req'[r] = sources /\ nl'[r] = nl[r]
      BY <1>3 DEF CheckListSources
  <2>4. CheckJustified(r)'
      BY <1>0, <1>b, <2>2, <2>3 DEF CheckJustified, Heading
  <2> QED  BY <1>a, <2>1, <2>4, OneJob
<1>4. ASSUME NEW r \in Release, CheckUpsert(r) PROVE JobsJustified'
  <2>1. Touches(r)
      BY <1>4 DEF CheckUpsert, Touches, Untouched
  <2>2. next'[r] \in {"insertNL", "open"} =>
          ver[r] \in Met' /\ (next'[r] = "open" => ver[r] \in Passed')
      BY <1>4, UpsertJustifies, RowsKept
  <2>3. pc'[r] = "metEvent" /\ ver'[r] = ver[r]
      BY <1>4 DEF CheckUpsert
  <2>4. CheckJustified(r)'
      BY <2>2, <2>3 DEF CheckJustified, Heading
  <2> QED  BY <1>a, <2>1, <2>4, OneJob
<1>5. ASSUME NEW r \in Release, CheckMetEvent(r) PROVE JobsJustified'
  <2>1. Touches(r)
      BY <1>5 DEF CheckMetEvent, Touches, Untouched
  <2>2. /\ pc[r] = "metEvent" /\ pc'[r] = next[r] /\ ver'[r] = ver[r]
        /\ next[r] \in {"finish", "insertNL", "open"}
      BY <1>5 DEF CheckMetEvent
  <2>3. CheckJustified(r)'
      BY <1>0, <1>b, <2>2 DEF CheckJustified, Heading
  <2> QED  BY <1>a, <2>1, <2>3, OneJob
<1>6. ASSUME NEW r \in Release, CheckInsertNL(r) PROVE JobsJustified'
  <2>1. /\ pc[r] = "insertNL" /\ ver[r] \in Met'
      BY <1>0, <1>6, <1>b DEF CheckInsertNL, CheckJustified, Heading
  <2>2. /\ pc'[r] = "finish"
        /\ \A k \in Job \ {r} : \/ Untouched(k)
                                \/ /\ k \in NLJob /\ pc'[k] = "queued"
                                   /\ ver'[k] = ver[r]
      BY <1>6, <1>a DEF CheckInsertNL, Untouched
  <2>3. CheckJustified(r)'
      BY <2>2 DEF CheckJustified, Heading
  <2>4. \A k \in NLJob : EvalJustified(k)'
      BY <1>a, <2>1, <2>2, UntouchedKept DEF EvalJustified
  <2>5. \A k \in Release \ {r} : CheckJustified(k)'
      BY <1>a, <2>2, UntouchedKept
  <2> QED  BY <2>3, <2>4, <2>5 DEF JobsJustified
<1>7. ASSUME NEW n \in NLJob, NLEvalStep(n), ~NLEvaluate(n) PROVE JobsJustified'
  <2>1. Touches(n)
      BY <1>7 DEF NLEvalStep, NLLoadRow, NLLoadGate, NLStartEvent, NLVerdictEvent,
                  Requeue, Touches, Untouched
  <2>2. /\ pc[n] \notin {"none", "done"} /\ ver'[n] = ver[n]
        /\ \/ pc'[n] \notin {"open", "verdictEvent"}
           \/ pc[n] = "verdictEvent" /\ pc'[n] = next[n]
      BY <1>7 DEF NLEvalStep, NLLoadRow, NLLoadGate, NLStartEvent, NLVerdictEvent, Requeue
  <2>3. EvalJustified(n)'
      BY <1>0, <1>b, <2>2 DEF EvalJustified
  <2> QED  BY <1>a, <2>1, <2>3, OneJob
<1>8. ASSUME NEW n \in NLJob, NLEvaluate(n) PROVE JobsJustified'
  <2>1. Touches(n)
      BY <1>8 DEF NLEvaluate, Requeue, Touches, Untouched
  <2>2. pc[n] = "evaluate" /\ ver'[n] = ver[n] /\ ver[n] \in Met'
      BY <1>0, <1>8, <1>b DEF NLEvaluate, Requeue, EvalJustified
  <2>3. CASE ~HasEvaluator
    <3>1. pc'[n] = "queued"
        BY <1>8, <2>3 DEF NLEvaluate, Requeue
    <3> QED  BY <1>a, <2>1, <2>2, <3>1, OneJob DEF EvalJustified
  <2>4. CASE HasEvaluator
    <3>1. PICK passed \in BOOLEAN :
            /\ verdicts' = [verdicts EXCEPT ![ver[n]] = @ \cup {passed}]
            /\ next' = [next EXCEPT ![n] = IF passed THEN "open" ELSE "finish"]
        BY <1>8, <2>4 DEF NLEvaluate
    <3>2. pc'[n] = "verdictEvent"
        BY <1>8, <2>4 DEF NLEvaluate
    <3>3. next'[n] = "open" => TRUE \in verdicts'[ver[n]]
        BY <2>2, <3>1
    <3>4. next'[n] = "open" => ver[n] \in Passed'
        BY <2>2, <3>3 DEF Passed
    <3> QED  BY <1>a, <2>1, <2>2, <3>2, <3>4, OneJob DEF EvalJustified
  <2> QED  BY <2>3, <2>4
<1>9. ASSUME NEW j \in Sweep, StartSweep(j) \/ SweepStep(j) PROVE JobsJustified'
  <2>1. Touches(j)
      BY <1>9 DEF StartSweep, SweepStep, SweepList, SweepNextRow, Touches, Untouched
  <2> QED  BY <1>a, <2>1, OneJob
<1>10. ASSUME NEW j \in Job, OpenStep(j) PROVE JobsJustified'
  <2>1. Touches(j)
      BY <1>10 DEF OpenStep, Open, OpenEvent, Enqueue, Mark, AgentEvent, Touches, Untouched
  <2>2. /\ pc[j] \in OpenSteps
        /\ j \notin Sweep => pc'[j] \in {"openEvent", "enqueue", "mark", "agentEvent", "finish"}
        /\ ver'[j] = ver[j]
      BY <1>10 DEF OpenStep, Open, OpenEvent, Enqueue, Mark, AgentEvent, AfterRow
  <2>3. j \in Release => CheckJustified(j)'
      BY <1>a, <2>2 DEF CheckJustified, Heading
  <2>4. j \in NLJob => EvalJustified(j)'
      BY <1>0, <1>a, <1>b, <2>2 DEF EvalJustified
  <2> QED  BY <2>1, <2>3, <2>4, OneJob
<1>11. ASSUME NEW j \in Job, Complete(j) \/ Fail(j) PROVE JobsJustified'
  <2>1. Touches(j)
      BY <1>11 DEF Complete, Fail, Requeue, Touches, Untouched
  <2>2. \/ pc'[j] \in {"none", "done"}
        \/ /\ pc[j] \notin {"none", "done"} /\ pc'[j] = "queued"
           /\ j \in NLJob => ver'[j] = ver[j]
      BY <1>11 DEF Complete, Fail, Requeue
  <2>3. j \in Release => CheckJustified(j)'
      BY <2>2 DEF CheckJustified, Heading
  <2>4. j \in NLJob => EvalJustified(j)'
      BY <1>0, <1>b, <2>2 DEF EvalJustified
  <2> QED  BY <2>1, <2>3, <2>4, OneJob
<1>12. ASSUME UNCHANGED job PROVE JobsJustified'
  <2>1. \A k \in Job : Untouched(k)
      BY <1>12 DEF Untouched
  <2> QED  BY <2>1, UntouchedKept DEF JobsJustified
<1>13. \/ \E r \in Release : IngestRelease(r) \/ GateCheckStep(r)
       \/ \E n \in NLJob : NLEvalStep(n)
       \/ \E j \in Sweep : StartSweep(j) \/ SweepStep(j)
       \/ \E j \in Job : OpenStep(j) \/ Complete(j) \/ Fail(j)
       \/ UNCHANGED job
    BY DEF Next, Expire, UpsertGate, DeleteGate, DeleteSource, Edit, vars
<1> QED
    BY <1>1, <1>2, <1>3, <1>4, <1>5, <1>6, <1>7, <1>8, <1>9, <1>10, <1>11, <1>12, <1>13
    DEF GateCheckStep

\* A gate never opens as ready before its sources have all reported and, where
\* there always was a rule, an evaluation of it has passed: not through an edit
\* made between a worker's read and its update, nor through a repeated job.
THEOREM GateReadyJustified == Spec => []ReadyJustified
<1>1. Init => Typed /\ Justified
  <2> SUFFICES ASSUME Init PROVE Justified
      BY InitTyped
  <2>1. HistoryOK
      BY ConstantsAssumption DEF Init, HistoryOK
  <2> QED
      BY <2>1 DEF Init, Justified, RowsJustified, JobsJustified, CheckJustified,
                   EvalJustified, Heading
<1>2. (Typed /\ Justified) /\ [Next]_vars => (Typed /\ Justified)'
    BY NextTyped, HistoryKept, RowsKept, JobsKept DEF Justified
<1>3. Typed /\ Justified => ReadyJustified
    BY DEF Justified, RowsJustified, ReadyJustified, Met, Passed, Ruled
<1> QED  BY <1>1, <1>2, <1>3, PTL DEF Spec
-----------------------------------------------------------------------------
(* No gate without a rule is forgotten.  Its last report cannot be lost,   *)
(* because the job that brought it is the one that opens the gate, and a   *)
(* job that fails is run again from the queue.                             *)

\* The operator has left an active gate without an NL rule as it was.
Calm == changes = 0 /\ Active(gate) /\ gate.nl = "empty"

\* What the gate requires.
Needed == IF gate.required = {} THEN sources ELSE gate.required

\* A gate check works on the version of its release, and by this gate.
CheckCalm(r) ==
    /\ pc[r] \in CheckSteps \cup OpenSteps => ver[r] = gate.mapping[r]
    /\ pc[r] \in {"listSources", "upsert"} => nl[r] = FALSE
    /\ pc[r] = "listSources" => gate.required = {}
    /\ pc[r] = "upsert" => req[r] = Needed

\* A gate check that will open the gate of v, if v still is pending by then.
Carries(r, v) ==
    /\ gate.mapping[r] = v
    /\ pc[r] \in {"queued", "listSources", "upsert"} \/ Heading(r, "open")

CalmParts ==
    /\ sources = Source
    /\ \A r \in Release : CheckCalm(r)
    /\ \A v \in Version : status[v] = "pending" => missing[v] = Needed \ met[v]
    /\ \A v \in Version : status[v] = "pending" /\ missing[v] = {} =>
         \E r \in Release : Carries(r, v)

Remembered == Calm => CalmParts

\* An edit ends the calm, so a calm step changes no configuration.
LEMMA CalmStep ==
    ASSUME Typed, [Next]_vars, Calm'
    PROVE  Calm /\ UNCHANGED conf /\ UNCHANGED Needed
<1>1. changes' = changes + 1 \/ UNCHANGED conf
    BY DEF Next, GateCheckStep, NLEvalStep, SweepStep, OpenStep, IngestRelease,
           CheckLoadGate, CheckListSources, CheckUpsert, CheckMetEvent, CheckInsertNL,
           NLLoadRow, NLLoadGate, NLStartEvent, NLEvaluate, NLVerdictEvent, Requeue,
           StartSweep, SweepList, SweepNextRow, Open, OpenEvent, Enqueue, Mark,
           AgentEvent, Complete, Fail, Expire, UpsertGate, DeleteGate, DeleteSource,
           Edit, vars
<1>2. UNCHANGED conf
    BY <1>1 DEF Calm, Typed, TypeOK
<1> QED  BY <1>2 DEF Calm, Needed, Active

\* The gate in force, and what a gate check reads of it.
LEMMA CalmGate ==
    ASSUME Typed, Calm, CalmParts, NEW r \in Release
    PROVE  /\ GetReleaseGateBySource(SourceOf[r]) = gate
           /\ gate.mapping[r] \in Version
BY ConstantsAssumption
   DEF Typed, TypeOK, Calm, CalmParts, Active, GateConfig, GetReleaseGateBySource

\* What a step can do to a gate_check job: move it along its own path, put it
\* where it holds nothing, or leave it alone.
LEMMA CheckMoves ==
    ASSUME Typed, [Next]_vars, NEW r \in Release
    PROVE  \/ CheckLoadGate(r) \/ CheckListSources(r) \/ CheckUpsert(r) \/ CheckMetEvent(r)
           \/ OpenStep(r)
           \/ pc'[r] \in {"finish", "done"} /\ pc[r] \in {"insertNL", "finish"}
           \/ pc'[r] = "queued" /\ pc[r] \in {"none"} \cup Steps
           \/ Untouched(r)
<1> USE DEF Typed, TypeOK, JobsOK, Goto
<1>a. Release \cap NLJob = {} /\ Release \cap Sweep = {}
    BY ConstantsAssumption
<1> DEFINE Moves ==
             \/ CheckLoadGate(r) \/ CheckListSources(r) \/ CheckUpsert(r) \/ CheckMetEvent(r)
             \/ OpenStep(r)
             \/ pc'[r] \in {"finish", "done"} /\ pc[r] \in {"insertNL", "finish"}
             \/ pc'[r] = "queued" /\ pc[r] \in {"none"} \cup Steps
             \/ Untouched(r)
<1>1. ASSUME NEW k \in Release, IngestRelease(k) \/ GateCheckStep(k) PROVE Moves
  <2>1. CASE k = r
      BY <1>1, <2>1 DEF GateCheckStep, IngestRelease, CheckInsertNL
  <2>2. CASE k # r
    <3>1. Untouched(r)
        BY <1>1, <1>a, <2>2
        DEF GateCheckStep, IngestRelease, CheckLoadGate, CheckListSources, CheckUpsert,
            CheckMetEvent, CheckInsertNL, Untouched
    <3> QED  BY <3>1
  <2> QED  BY <2>1, <2>2
<1>2. ASSUME NEW n \in NLJob, NLEvalStep(n) PROVE Moves
  <2>1. Untouched(r)
      BY <1>2, <1>a DEF NLEvalStep, NLLoadRow, NLLoadGate, NLStartEvent, NLEvaluate,
                        NLVerdictEvent, Requeue, Untouched
  <2> QED  BY <2>1
<1>3. ASSUME NEW j \in Sweep, StartSweep(j) \/ SweepStep(j) PROVE Moves
  <2>1. Untouched(r)
      BY <1>3, <1>a DEF StartSweep, SweepStep, SweepList, SweepNextRow, Untouched
  <2> QED  BY <2>1
<1>4. ASSUME NEW j \in Job, OpenStep(j) \/ Complete(j) \/ Fail(j) PROVE Moves
  <2>1. CASE j = r
      BY <1>4, <1>a, <2>1 DEF Complete, Fail, Requeue
  <2>2. CASE j # r
    <3>1. Untouched(r)
        BY <1>4, <2>2
        DEF OpenStep, Open, OpenEvent, Enqueue, Mark, AgentEvent, Complete, Fail, Requeue,
            Untouched
    <3> QED  BY <3>1
  <2> QED  BY <2>1, <2>2
<1>5. ASSUME UNCHANGED job PROVE Moves
  <2>1. Untouched(r)
      BY <1>5 DEF Untouched
  <2> QED  BY <2>1
<1>6. \/ \E k \in Release : IngestRelease(k) \/ GateCheckStep(k)
      \/ \E n \in NLJob : NLEvalStep(n)
      \/ \E j \in Sweep : StartSweep(j) \/ SweepStep(j)
      \/ \E j \in Job : OpenStep(j) \/ Complete(j) \/ Fail(j)
      \/ UNCHANGED job
    BY DEF Next, Expire, UpsertGate, DeleteGate, DeleteSource, Edit, vars
<1> HIDE DEF Moves
<1>7. Moves
    BY <1>1, <1>2, <1>3, <1>4, <1>5, <1>6
<1> QED  BY <1>7 DEF Moves

\* A gate check keeps to the gate it has read.
LEMMA ChecksCalm ==
    ASSUME Typed, [Next]_vars, Calm, CalmParts, UNCHANGED conf, UNCHANGED Needed,
           NEW r \in Release
    PROVE  CheckCalm(r)'
<1> USE DEF Typed, TypeOK, JobsOK, Goto
<1>0. CheckCalm(r) /\ gate' = gate /\ Needed' = Needed
    BY DEF CalmParts
<1>a. Release \cap NLJob = {} /\ Release \cap Sweep = {}
    BY ConstantsAssumption
<1>1. CASE CheckLoadGate(r)
  <2>1. \/ pc'[r] = "finish"
        \/ /\ pc'[r] = IF gate.required = {} THEN "listSources" ELSE "upsert"
           /\ ver'[r] = gate.mapping[r] /\ req'[r] = gate.required
           /\ nl'[r] = FALSE
    <3> DEFINE g == GetReleaseGateBySource(SourceOf[r])
    <3>1. g = gate
        BY CalmGate
    <3> HIDE DEF g
    <3>2. CASE ~Active(g)
        BY <1>1, <3>2 DEF CheckLoadGate, g
    <3>3. CASE Active(g)
      <4>1. /\ pc' = [pc EXCEPT ![r] = IF g.required = {} THEN "listSources" ELSE "upsert"]
            /\ ver' = [ver EXCEPT ![r] = g.mapping[r]]
            /\ req' = [req EXCEPT ![r] = g.required]
          BY <1>1, <3>3 DEF CheckLoadGate, g
      <4>2. nl' = [nl EXCEPT ![r] = g.nl = "rule"]
          BY <1>1, <3>3 DEF CheckLoadGate, g
      <4>3. (g.nl = "rule") = FALSE
          BY <3>1 DEF Calm
      <4>4. nl'[r] = FALSE
          BY <4>2, <4>3, Zenon
      <4> QED  BY <3>1, <4>1, <4>4
    <3> QED  BY <3>2, <3>3
  <2> QED  BY <1>0, <2>1 DEF CheckCalm, Needed
<1>2. CASE CheckListSources(r)
  <2>1. /\ pc[r] = "listSources" /\ pc'[r] = "upsert" /\ ver'[r] = ver[r]
        /\ req'[r] = sources /\ nl'[r] = nl[r]
      BY <1>2 DEF CheckListSources
  <2> QED  BY <1>0, <2>1 DEF CheckCalm, Needed
<1>3. CASE CheckUpsert(r) \/ CheckMetEvent(r)
  <2>1. /\ pc[r] \in CheckSteps /\ ver'[r] = ver[r]
        /\ pc'[r] \in {"metEvent", "insertNL", "open", "finish"}
      BY <1>3 DEF CheckUpsert, CheckMetEvent
  <2> QED  BY <1>0, <2>1 DEF CheckCalm
<1>4. CASE OpenStep(r)
  <2>1. /\ pc[r] \in OpenSteps /\ ver'[r] = ver[r]
        /\ pc'[r] \in OpenSteps \cup {"finish"}
      BY <1>4, <1>a DEF OpenStep, Open, OpenEvent, Enqueue, Mark, AgentEvent, AfterRow
  <2> QED  BY <1>0, <2>1 DEF CheckCalm
<1>5. CASE pc'[r] \in {"none", "queued", "finish", "done"}
    BY <1>5 DEF CheckCalm
<1>6. CASE Untouched(r)
    BY <1>0, <1>6 DEF CheckCalm, Untouched
<1> QED  BY <1>1, <1>2, <1>3, <1>4, <1>5, <1>6, CheckMoves

\* The rows: an upsert writes what the gate requires, and nothing else does.
LEMMA RowsCalm ==
    ASSUME Typed, [Next]_vars, Calm, CalmParts, UNCHANGED conf, UNCHANGED Needed,
           NEW v \in Version, status'[v] = "pending"
    PROVE  /\ missing'[v] = Needed \ met'[v]
           /\ \/ status[v] = "pending" /\ missing'[v] = missing[v]
              \/ \E r \in Release : CheckUpsert(r) /\ ver[r] = v
<1> USE DEF Typed, TypeOK, JobsOK
<1>1. ASSUME NEW r \in Release, CheckUpsert(r)
      PROVE  /\ missing'[v] = Needed \ met'[v]
             /\ (status[v] = "pending" /\ missing'[v] = missing[v]) \/ ver[r] = v
  <2>1. /\ req[r] = Needed /\ ver[r] \in Version
        /\ UpsertVersionReadiness(ver[r], SourceOf[r], req[r])
        /\ status[v] = "pending" => missing[v] = Needed \ met[v]
      BY <1>1 DEF CheckUpsert, CalmParts, CheckCalm
  <2> QED  BY <2>1 DEF UpsertVersionReadiness
<1>2. ASSUME NEW j \in Job, Open(j)
      PROVE  status[v] = "pending" /\ missing'[v] = missing[v] /\ met'[v] = met[v]
    BY <1>2 DEF Open, OpenGate
<1>3. status[v] = "pending" => missing[v] = Needed \ met[v]
    BY DEF CalmParts
<1>4. \/ \E r \in Release : CheckUpsert(r)
      \/ \E j \in Job : Open(j)
      \/ UNCHANGED <<status, met, missing>>
    BY DEF Next, GateCheckStep, NLEvalStep, SweepStep, OpenStep, IngestRelease,
           CheckLoadGate, CheckListSources, CheckMetEvent, CheckInsertNL, NLLoadRow,
           NLLoadGate, NLStartEvent, NLEvaluate, NLVerdictEvent, Requeue, StartSweep,
           SweepList, SweepNextRow, OpenEvent, Enqueue, Mark, AgentEvent, Complete,
           Fail, Expire, UpsertGate, DeleteGate, DeleteSource, Edit, vars
<1> QED  BY <1>1, <1>2, <1>3, <1>4

\* The carrier of a complete row goes on to Open: it finds a gate, nothing
\* missing and no rule; failing only sends it back to the queue.
LEMMA CarrierStays ==
    ASSUME Typed, [Next]_vars, Calm, CalmParts, UNCHANGED conf, UNCHANGED Needed,
           NEW v \in Version, status'[v] = "pending", missing'[v] = {},
           NEW r \in Release, Carries(r, v)
    PROVE  Carries(r, v)'
<1> USE DEF Typed, TypeOK, JobsOK, Goto, Carries, Heading
<1>0. CheckCalm(r) /\ gate' = gate
    BY DEF CalmParts
<1>a. Release \cap NLJob = {} /\ Release \cap Sweep = {}
    BY ConstantsAssumption
<1>1. CASE CheckLoadGate(r)
  <2> DEFINE g == GetReleaseGateBySource(SourceOf[r])
  <2>1. g = gate /\ Active(g)
      BY CalmGate DEF Calm
  <2> HIDE DEF g
  <2>2. pc'[r] \in {"listSources", "upsert"}
      BY <1>1, <2>1 DEF CheckLoadGate, g
  <2> QED  BY <1>0, <2>2
<1>2. CASE CheckListSources(r)
    BY <1>0, <1>2 DEF CheckListSources
<1>3. CASE CheckUpsert(r)
  <2>1. ver[r] = v /\ nl[r] = FALSE
      BY <1>0, <1>3 DEF CheckUpsert, CheckCalm
  <2>2. pc'[r] = "metEvent" /\ next'[r] = "open"
      BY <1>3, <2>1 DEF CheckUpsert
  <2> QED  BY <1>0, <2>2
<1>4. CASE CheckMetEvent(r)
    BY <1>0, <1>4 DEF CheckMetEvent
<1>5. CASE OpenStep(r)
  <2>1. pc[r] = "open" /\ ver[r] = v
      BY <1>0, <1>5 DEF OpenStep, Open, OpenEvent, Enqueue, Mark, AgentEvent, CheckCalm
  <2>2. Open(r) /\ r \notin Sweep
      BY <1>5, <1>a, <2>1 DEF OpenStep, OpenEvent, Enqueue, Mark, AgentEvent
  <2>3. status'[v] # "pending"
      BY <2>1, <2>2 DEF Open, OpenGate
  <2> QED  BY <2>3
<1>6. CASE pc'[r] = "queued"
    BY <1>0, <1>6
<1>7. CASE Untouched(r)
    BY <1>0, <1>7 DEF Untouched
<1>8. pc[r] \notin {"insertNL", "finish"}
    OBVIOUS
<1> QED  BY <1>1, <1>2, <1>3, <1>4, <1>5, <1>6, <1>7, <1>8, CheckMoves

LEMMA RememberedKept == ASSUME Typed, Remembered, [Next]_vars PROVE Remembered'
<1> SUFFICES ASSUME Calm' PROVE CalmParts'
    BY DEF Remembered
<1>0. Calm /\ CalmParts /\ UNCHANGED conf /\ UNCHANGED Needed
    BY CalmStep DEF Remembered
<1>1. sources' = Source
    BY <1>0 DEF CalmParts
<1>2. \A r \in Release : CheckCalm(r)'
    BY <1>0, ChecksCalm
<1>3. \A v \in Version : status'[v] = "pending" => missing'[v] = Needed' \ met'[v]
    BY <1>0, RowsCalm
<1>4. ASSUME NEW v \in Version, status'[v] = "pending", missing'[v] = {}
      PROVE  \E r \in Release : Carries(r, v)'
  <2>1. CASE status[v] = "pending" /\ missing'[v] = missing[v]
    <3>1. PICK r \in Release : Carries(r, v)
        BY <1>4, <2>1, <1>0 DEF CalmParts
    <3>2. Carries(r, v)'
        BY <1>0, <1>4, <3>1, CarrierStays
    <3> QED  BY <3>2
  <2>2. ASSUME NEW r \in Release, CheckUpsert(r), ver[r] = v
        PROVE  Carries(r, v)'
    <3>1. Carries(r, v)
        BY <1>0, <2>2 DEF CheckUpsert, CalmParts, CheckCalm, Carries
    <3> QED  BY <1>0, <1>4, <3>1, CarrierStays
  <2> QED  BY <1>0, <1>4, <2>1, <2>2, RowsCalm
<1> QED  BY <1>1, <1>2, <1>3, <1>4 DEF CalmParts

\* A gate without an NL rule that has heard from all its sources always has a
\* gate check on its way to open it, for any number of sources, versions and
\* jobs, and whatever fails.
THEOREM GateNoForgotten == Spec => []NoForgottenGate
<1>1. Init => Typed /\ Remembered
  <2> SUFFICES ASSUME Init PROVE Remembered
      BY InitTyped
  <2> QED  BY DEF Init, Remembered, CalmParts, CheckCalm
<1>2. (Typed /\ Remembered) /\ [Next]_vars => (Typed /\ Remembered)'
    BY NextTyped, RememberedKept
<1>3. Remembered => NoForgottenGate
    BY DEF Remembered, CalmParts, Calm, Carries, Heading, NoForgottenGate
<1> QED  BY <1>1, <1>2, <1>3, PTL DEF Spec
-----------------------------------------------------------------------------
(* Gates that opened without an agent run: each has cost a fault.          *)

StrandedSet == {v \in Version : Stranded(v)}

StrandedBounded == IsFiniteSet(StrandedSet) /\ Cardinality(StrandedSet) <= faults

\* Between the opening and the enqueue a job is stopped by a fault only, and
\* a fault stops one job.
LEMMA Interrupted ==
    ASSUME Typed, [Next]_vars, NEW k \in Job, pc[k] \in {"openEvent", "enqueue"}
    PROVE  \/ pc'[k] \in {"openEvent", "enqueue"} /\ ver'[k] = ver[k]
           \/ agentRuns'[ver[k]] # 0
           \/ faults' = faults + 1
                /\ \A i \in Job \ {k} : pc'[i] = pc[i] /\ ver'[i] = ver[i]
<1> USE DEF Typed, TypeOK, JobsOK, Goto
<1> DEFINE Goal ==
             \/ pc'[k] \in {"openEvent", "enqueue"} /\ ver'[k] = ver[k]
             \/ agentRuns'[ver[k]] # 0
             \/ faults' = faults + 1
                  /\ \A i \in Job \ {k} : pc'[i] = pc[i] /\ ver'[i] = ver[i]
<1>1. ASSUME NEW r \in Release, IngestRelease(r) \/ GateCheckStep(r) PROVE Goal
    BY <1>1 DEF GateCheckStep, IngestRelease, CheckLoadGate, CheckListSources, CheckUpsert,
                CheckMetEvent, CheckInsertNL
<1>2. ASSUME NEW n \in NLJob, NLEvalStep(n) PROVE Goal
    BY <1>2 DEF NLEvalStep, NLLoadRow, NLLoadGate, NLStartEvent, NLEvaluate,
                NLVerdictEvent, Requeue
<1>3. ASSUME NEW j \in Sweep, StartSweep(j) \/ SweepStep(j) PROVE Goal
    BY <1>3 DEF StartSweep, SweepStep, SweepList, SweepNextRow
<1>4. ASSUME NEW j \in Job, Open(j) \/ OpenEvent(j) \/ Mark(j) \/ AgentEvent(j) \/ Complete(j)
      PROVE  Goal
    BY <1>4 DEF Open, OpenEvent, Mark, AgentEvent, Complete
<1>5. ASSUME NEW j \in Job, Enqueue(j) PROVE Goal
  <2>1. CASE EnqueueAgentRun(ver[j]) /\ pc' = [pc EXCEPT ![j] = "mark"] /\ UNCHANGED ver
      BY <2>1 DEF EnqueueAgentRun
  <2>2. CASE Fault /\ Goto(j, AfterRow(j)) /\ UNCHANGED ver
      BY <2>2 DEF Fault
  <2> QED  BY <1>5, <2>1, <2>2 DEF Enqueue
<1>6. ASSUME NEW j \in Job, Fail(j) PROVE Goal
    BY <1>6 DEF Fail, Fault, Requeue
<1>7. ASSUME UNCHANGED job PROVE Goal
    BY <1>7
<1> QED
    BY <1>1, <1>2, <1>3, <1>4, <1>5, <1>6, <1>7
    DEF Next, OpenStep, Expire, UpsertGate, DeleteGate, DeleteSource, Edit, vars

\* A gate that opens has a job that is about to enqueue; a run stays.
LEMMA OpenedByTrigger ==
    ASSUME Typed, [Next]_vars, NEW v \in Version
    PROVE  /\ status'[v] \in Opened => status[v] \in Opened \/ \E j \in Job : Triggering(j, v)'
           /\ agentRuns'[v] = 0 => agentRuns[v] = 0
<1> USE DEF Typed, TypeOK, JobsOK, Opened
<1>1. ASSUME NEW r \in Release, CheckUpsert(r) PROVE status'[v] \in Opened => status[v] \in Opened
    BY <1>1 DEF CheckUpsert, UpsertVersionReadiness
<1>2. ASSUME NEW j \in Job, Open(j)
      PROVE  status'[v] \in Opened => status[v] \in Opened \/ Triggering(j, v)'
    BY <1>2 DEF Open, OpenGate, Triggering, Goto
<1>3. ASSUME NEW j \in Job, Enqueue(j) PROVE agentRuns'[v] = 0 => agentRuns[v] = 0
    BY <1>3 DEF Enqueue, EnqueueAgentRun
<1>4. /\ \/ \E r \in Release : CheckUpsert(r)
         \/ \E j \in Job : Open(j)
         \/ UNCHANGED status
      /\ UNCHANGED agentRuns \/ \E j \in Job : Enqueue(j)
    BY DEF Next, GateCheckStep, NLEvalStep, SweepStep, OpenStep, IngestRelease,
           CheckLoadGate, CheckListSources, CheckUpsert, CheckMetEvent, CheckInsertNL, NLLoadRow,
           NLLoadGate, NLStartEvent, NLEvaluate, NLVerdictEvent, Requeue, StartSweep,
           SweepList, SweepNextRow, Open, OpenEvent, Enqueue, Mark, AgentEvent, Complete,
           Fail, Expire, UpsertGate, DeleteGate, DeleteSource, Edit, vars
<1> QED  BY <1>1, <1>2, <1>3, <1>4

LEMMA FaultsGrow == ASSUME Typed, [Next]_vars PROVE faults' \in {faults, faults + 1}
BY DEF Next, GateCheckStep, NLEvalStep, SweepStep, OpenStep, IngestRelease,
       CheckLoadGate, CheckListSources, CheckUpsert, CheckMetEvent, CheckInsertNL,
       NLLoadRow, NLLoadGate, NLStartEvent, NLEvaluate, NLVerdictEvent, Requeue,
       StartSweep, SweepList, SweepNextRow, Open, OpenEvent, Enqueue, Mark,
       AgentEvent, Complete, Fail, Fault, RecordGateEvent, Expire, UpsertGate,
       DeleteGate, DeleteSource, Edit, vars

\* A step that strands versions is a fault, and strands one version.
LEMMA OneStrandedPerFault ==
    ASSUME Typed, [Next]_vars
    PROVE  \/ StrandedSet' \subseteq StrandedSet
           \/ faults' = faults + 1 /\ \E u : StrandedSet' \subseteq StrandedSet \cup {u}
<1>1. ASSUME NEW v \in StrandedSet', v \notin StrandedSet
      PROVE  \E k \in Job :
               /\ pc[k] \in {"openEvent", "enqueue"} /\ ver[k] = v
               /\ faults' = faults + 1
               /\ \A i \in Job \ {k} : pc'[i] = pc[i] /\ ver'[i] = ver[i]
  <2>1. /\ v \in Version /\ status'[v] \in Opened /\ agentRuns'[v] = 0
        /\ \A j \in Job : ~(pc'[j] \in {"openEvent", "enqueue"} /\ ver'[j] = v)
      BY <1>1 DEF StrandedSet, Stranded, Triggering
  <2>2. status[v] \in Opened /\ agentRuns[v] = 0
      BY <2>1, OpenedByTrigger DEF Triggering
  <2>3. PICK k \in Job : pc[k] \in {"openEvent", "enqueue"} /\ ver[k] = v
      BY <1>1, <2>1, <2>2 DEF StrandedSet, Stranded, Triggering
  <2> QED  BY <2>1, <2>3, Interrupted
<1>2. ASSUME NEW v \in StrandedSet', v \notin StrandedSet,
             NEW u \in StrandedSet', u \notin StrandedSet
      PROVE  u = v
  <2>1. PICK k \in Job : /\ pc[k] \in {"openEvent", "enqueue"} /\ ver[k] = v
                         /\ \A i \in Job \ {k} : pc'[i] = pc[i] /\ ver'[i] = ver[i]
      BY <1>1, <1>2
  <2>2. PICK j \in Job : pc[j] \in {"openEvent", "enqueue"} /\ ver[j] = u
      BY <1>1, <1>2
  <2>3. \A i \in Job : ~(pc'[i] \in {"openEvent", "enqueue"} /\ ver'[i] = u)
      BY <1>2 DEF StrandedSet, Stranded, Triggering
  <2> QED  BY <2>1, <2>2, <2>3
<1>3. CASE StrandedSet' \subseteq StrandedSet
    BY <1>3
<1>4. ASSUME NEW v \in StrandedSet', v \notin StrandedSet
      PROVE  faults' = faults + 1 /\ StrandedSet' \subseteq StrandedSet \cup {v}
    BY <1>1, <1>2, <1>4
<1> QED  BY <1>3, <1>4

LEMMA StrandedKept == ASSUME Typed, Typed', StrandedBounded, [Next]_vars PROVE StrandedBounded'
<1> DEFINE S == StrandedSet
           T == StrandedSet'
<1>0. /\ IsFiniteSet(S) /\ Cardinality(S) <= faults
      /\ faults \in Nat /\ faults' \in Nat /\ faults <= faults'
    BY FaultsGrow DEF StrandedBounded, Typed, TypeOK
<1>1. Cardinality(S) \in Nat
    BY <1>0, FS_CardinalityType
<1>2. CASE T \subseteq S
  <2> HIDE DEF S, T
  <2>1. IsFiniteSet(T) /\ Cardinality(T) <= Cardinality(S)
      BY <1>0, <1>2, FS_Subset
  <2>2. Cardinality(T) \in Nat
      BY <2>1, FS_CardinalityType
  <2>3. Cardinality(T) <= faults'
      BY <1>0, <1>1, <2>1, <2>2
  <2> QED  BY <2>1, <2>3 DEF StrandedBounded, T
<1>3. ASSUME NEW u, faults' = faults + 1, T \subseteq S \cup {u} PROVE StrandedBounded'
  <2> HIDE DEF S, T
  <2>1. /\ IsFiniteSet(S \cup {u})
        /\ Cardinality(S \cup {u}) = IF u \in S THEN Cardinality(S) ELSE Cardinality(S) + 1
      BY <1>0, FS_AddElement
  <2>2. IsFiniteSet(T) /\ Cardinality(T) <= Cardinality(S \cup {u})
      BY <1>3, <2>1, FS_Subset
  <2>3. Cardinality(T) \in Nat
      BY <2>2, FS_CardinalityType
  <2>4. Cardinality(T) <= faults'
      BY <1>0, <1>1, <1>3, <2>1, <2>2, <2>3
  <2> QED  BY <2>2, <2>4 DEF StrandedBounded, T
<1> QED  BY <1>2, <1>3, OneStrandedPerFault

\* However many workers open gates at once and wherever they fail, at most as
\* many gates are left open without an agent run as there were faults; without
\* a fault there is none.
THEOREM GateStrandedOnlyByFaults == Spec => []StrandedOnlyByFaults
<1>1. Init => Typed /\ StrandedBounded
  <2> SUFFICES ASSUME Init PROVE StrandedBounded
      BY InitTyped
  <2>1. StrandedSet = {}
      BY DEF Init, StrandedSet, Stranded, Opened
  <2> QED  BY <2>1, FS_EmptySet DEF Init, StrandedBounded
<1>2. (Typed /\ StrandedBounded) /\ [Next]_vars => (Typed /\ StrandedBounded)'
    BY NextTyped, StrandedKept
<1>3. StrandedBounded => StrandedOnlyByFaults
    BY DEF StrandedBounded, StrandedSet, StrandedOnlyByFaults
<1> QED  BY <1>1, <1>2, <1>3, PTL DEF Spec
=============================================================================
