-------------------------- MODULE AgentRunProofs --------------------------
(***************************************************************************)
(* Proofs about AgentRun, for any runs, versions, channels and bounds and  *)
(* for either way of counting snoozed attempts.                            *)
(***************************************************************************)
EXTENDS AgentRun, TLAPS

\* Steps at which an attempt has a report of its own.
Author == {"link", "complete", "list", "todo", "send", "finish"}

\* River's count of the attempts of a job.
Attempts ==
    \A r \in Run :
        /\ pc[r] \in {"none", "row"} => attempts[r] = 0
        /\ pc[r] = "queued" => attempts[r] < MaxAttempts
        /\ pc[r] \in Working => attempts[r] > 0

\* An attempt knows a report exactly while it is its author, and no other run's
\* attempt knows or links it.
Owns ==
    /\ \A v \in Covered : report[v] # NoReport => report[v] \in used
    /\ \A r \in Run : own[r] # NoReport <=> pc[r] \in Author
    /\ \A r \in Run : own[r] # NoReport => own[r] \in used
    /\ \A r, q \in Run : own[r] # NoReport /\ own[r] = own[q] => r = q

\* Nobody has been told of a report nobody has written, nor of one whose author
\* has not come to the channel yet.
Fresh ==
    \A i \in Report, c \in Channel :
        /\ sent[i][c] <= 1
        /\ i \notin used => sent[i][c] = 0
        /\ \A r \in Run :
             /\ own[r] = i
             /\ pc[r] = "send" => c \in toSend[r]
             /\ pc[r] # "finish"
             => sent[i][c] = 0

Links ==
    \A r \in Run : link[r] # NoReport =>
        /\ Stored(link[r])
        /\ link[r] \in used
        /\ \A q \in Run : own[q] = link[r] \/ link[q] = link[r] => q = r

Marked ==
    \A r \in Run :
        pc[r] \in {"list", "todo", "send", "finish", "done"} => status[r] = "completed"

IInv == TypeOK /\ Attempts /\ Owns /\ Fresh /\ Links /\ Marked

USE DEF input, reports, Working, Ended, Author, Status, Goto
-----------------------------------------------------------------------------
LEMMA InitIInv == Init => IInv
<1> SUFFICES ASSUME Init PROVE IInv
    OBVIOUS
<1> USE ConstantsAssumption
<1>1. TypeOK             BY DEF Init, TypeOK
<1>2. Attempts           BY DEF Init, Attempts
<1>3. Owns               BY DEF Init, Owns
<1>4. Fresh              BY DEF Init, Fresh
<1>5. Links /\ Marked    BY DEF Init, Links, Marked
<1> QED  BY <1>1, <1>2, <1>3, <1>4, <1>5 DEF IInv

\* An attempt that ends early forgets its report; nothing stored changes.
LEMMA RetryKeeps ==
    ASSUME IInv, NEW r \in Run, pc[r] \in Working, Retry(r), faults' \in Nat,
           (UNCHANGED status) \/ status' = [status EXCEPT ![r] = "failed"]
    PROVE  IInv'
<1> USE ConstantsAssumption DEF IInv, Retry
<1>1. TypeOK'    BY DEF TypeOK
<1>2. Attempts'  BY DEF TypeOK, Attempts
<1>3. Owns'      BY DEF TypeOK, Owns
<1>4. Fresh'     BY DEF TypeOK, Fresh, Owns
<1>5. Links'     BY DEF TypeOK, Links, Owns, Stored
<1>6. Marked'    BY DEF TypeOK, Marked
<1> QED  BY <1>1, <1>2, <1>3, <1>4, <1>5, <1>6

\* A source publishes, or the operator deletes a report.
LEMMA OutsideKeeps ==
    ASSUME IInv,
           \/ \E s \in Source, v \in Version : Ingest(s, v)
           \/ \E v \in Covered : DeleteSemanticRelease(v)
    PROVE  IInv'
<1> USE ConstantsAssumption DEF IInv
<1>1. ASSUME NEW s \in Source, NEW v \in Version, Ingest(s, v) PROVE IInv'
  <2>1. TypeOK'  BY <1>1 DEF Ingest, TypeOK
  <2>2. Attempts' /\ Owns' /\ Fresh' /\ Marked'
      BY <1>1 DEF Ingest, Attempts, Owns, Fresh, Marked
  <2>3. Links'   BY <1>1 DEF Ingest, Links, Stored
  <2> QED  BY <2>1, <2>2, <2>3
<1>2. ASSUME NEW v \in Covered, DeleteSemanticRelease(v) PROVE IInv'
  <2>1. TypeOK'  BY <1>2 DEF DeleteSemanticRelease, TypeOK
  <2>2. Attempts' /\ Marked'
      BY <1>2 DEF DeleteSemanticRelease, Attempts, Marked
  <2>3. Owns'    BY <1>2 DEF DeleteSemanticRelease, TypeOK, Owns
  <2>4. Fresh'   BY <1>2 DEF DeleteSemanticRelease, Fresh
  <2>5. Links'   BY <1>2 DEF DeleteSemanticRelease, TypeOK, Links, Stored
  <2> QED  BY <2>1, <2>2, <2>3, <2>4, <2>5
<1> QED  BY <1>1, <1>2

\* A run, call by call.
LEMMA StepKeeps ==
    ASSUME IInv, NEW r \in Run, EnqueueAgentRun(r) \/ TriggerAgentRun(r) \/ RunStep(r)
    PROVE  IInv'
<1> USE ConstantsAssumption DEF IInv
<1>1. CASE EnqueueAgentRun(r)
  <2>1. TypeOK'    BY <1>1 DEF EnqueueAgentRun, UpdateAgentRunStatus, TypeOK, Attempts
  <2>2. Attempts'  BY <1>1 DEF EnqueueAgentRun, UpdateAgentRunStatus, TypeOK, Attempts
  <2>3. Owns'      BY <1>1 DEF EnqueueAgentRun, UpdateAgentRunStatus, TypeOK, Owns
  <2>4. Fresh'     BY <1>1 DEF EnqueueAgentRun, UpdateAgentRunStatus, TypeOK, Fresh, Owns
  <2>5. Links'     BY <1>1 DEF EnqueueAgentRun, UpdateAgentRunStatus, TypeOK, Links, Owns, Stored
  <2>6. Marked'    BY <1>1 DEF EnqueueAgentRun, UpdateAgentRunStatus, TypeOK, Marked
  <2> QED  BY <2>1, <2>2, <2>3, <2>4, <2>5, <2>6
<1>2. CASE TriggerAgentRun(r)
  <2>1. TypeOK'    BY <1>2 DEF TriggerAgentRun, UpdateAgentRunStatus, TypeOK, Attempts
  <2>2. Attempts'  BY <1>2 DEF TriggerAgentRun, UpdateAgentRunStatus, TypeOK, Attempts
  <2>3. Owns'      BY <1>2 DEF TriggerAgentRun, UpdateAgentRunStatus, TypeOK, Owns
  <2>4. Fresh'     BY <1>2 DEF TriggerAgentRun, UpdateAgentRunStatus, TypeOK, Fresh, Owns
  <2>5. Links'     BY <1>2 DEF TriggerAgentRun, UpdateAgentRunStatus, TypeOK, Links, Owns, Stored
  <2>6. Marked'    BY <1>2 DEF TriggerAgentRun, UpdateAgentRunStatus, TypeOK, Marked
  <2> QED  BY <2>1, <2>2, <2>3, <2>4, <2>5, <2>6
<1>3. CASE TriggerInsertJob(r)
  <2>1. TypeOK'    BY <1>3 DEF TriggerInsertJob, UpdateAgentRunStatus, Fault, TypeOK, Attempts
  <2>2. Attempts'  BY <1>3 DEF TriggerInsertJob, UpdateAgentRunStatus, Fault, TypeOK, Attempts
  <2>3. Owns'      BY <1>3 DEF TriggerInsertJob, UpdateAgentRunStatus, Fault, TypeOK, Owns
  <2>4. Fresh'     BY <1>3 DEF TriggerInsertJob, UpdateAgentRunStatus, Fault, TypeOK, Fresh, Owns
  <2>5. Links'     BY <1>3 DEF TriggerInsertJob, UpdateAgentRunStatus, Fault, TypeOK, Links, Owns, Stored
  <2>6. Marked'    BY <1>3 DEF TriggerInsertJob, UpdateAgentRunStatus, Fault, TypeOK, Marked
  <2> QED  BY <2>1, <2>2, <2>3, <2>4, <2>5, <2>6
<1>4. CASE Start(r)
  <2>1. TypeOK'    BY <1>4 DEF Start, TypeOK, Attempts
  <2>2. Attempts'  BY <1>4 DEF Start, TypeOK, Attempts
  <2>3. Owns'      BY <1>4 DEF Start, TypeOK, Owns
  <2>4. Fresh'     BY <1>4 DEF Start, TypeOK, Fresh, Owns
  <2>5. Links'     BY <1>4 DEF Start, TypeOK, Links, Owns, Stored
  <2>6. Marked'    BY <1>4 DEF Start, TypeOK, Marked
  <2> QED  BY <2>1, <2>2, <2>3, <2>4, <2>5, <2>6
<1>5. CASE Complete(r)
  <2>1. TypeOK'    BY <1>5 DEF Complete, TypeOK, Attempts
  <2>2. Attempts'  BY <1>5 DEF Complete, TypeOK, Attempts
  <2>3. Owns'      BY <1>5 DEF Complete, TypeOK, Owns
  <2>4. Fresh'     BY <1>5 DEF Complete, TypeOK, Fresh, Owns
  <2>5. Links'     BY <1>5 DEF Complete, TypeOK, Links, Owns, Stored
  <2>6. Marked'    BY <1>5 DEF Complete, TypeOK, Marked
  <2> QED  BY <2>1, <2>2, <2>3, <2>4, <2>5, <2>6
<1>6. CASE Load(r)
  <2>1. TypeOK'    BY <1>6 DEF Load, TypeOK, Attempts
  <2>2. Attempts'  BY <1>6 DEF Load, TypeOK, Attempts
  <2>3. Owns'      BY <1>6 DEF Load, TypeOK, Owns
  <2>4. Fresh'     BY <1>6 DEF Load, TypeOK, Fresh, Owns
  <2>5. Links'     BY <1>6 DEF Load, TypeOK, Links, Owns, Stored
  <2>6. Marked'    BY <1>6 DEF Load, TypeOK, Marked
  <2> QED  BY <2>1, <2>2, <2>3, <2>4, <2>5, <2>6
<1>7. CASE CheckAllSourcesReady(r)
  <2>1. TypeOK'    BY <1>7 DEF CheckAllSourcesReady, TypeOK, Attempts
  <2>2. Attempts'  BY <1>7 DEF CheckAllSourcesReady, TypeOK, Attempts
  <2>3. Owns'      BY <1>7 DEF CheckAllSourcesReady, TypeOK, Owns
  <2>4. Fresh'     BY <1>7 DEF CheckAllSourcesReady, TypeOK, Fresh, Owns
  <2>5. Links'     BY <1>7 DEF CheckAllSourcesReady, TypeOK, Links, Owns, Stored
  <2>6. Marked'    BY <1>7 DEF CheckAllSourcesReady, TypeOK, Marked
  <2> QED  BY <2>1, <2>2, <2>3, <2>4, <2>5, <2>6
<1>8. CASE Snooze(r)
  <2>0. attempts' \in [Run -> 0..MaxAttempts]
    <3>1. attempts[r] \in 1..MaxAttempts
        BY <1>8 DEF Snooze, TypeOK, Attempts
    <3>2. attempts[r] - 1 \in 0..MaxAttempts
        BY <3>1
    <3> QED  BY <1>8, <3>1, <3>2 DEF Snooze, TypeOK
  <2>1. TypeOK'    BY <1>8, <2>0 DEF Snooze, UpdateAgentRunStatus, Fault, TypeOK
  <2>2. Attempts'  BY <1>8 DEF Snooze, UpdateAgentRunStatus, Fault, TypeOK, Attempts
  <2>3. Owns'      BY <1>8 DEF Snooze, UpdateAgentRunStatus, Fault, TypeOK, Owns
  <2>4. Fresh'     BY <1>8 DEF Snooze, UpdateAgentRunStatus, Fault, TypeOK, Fresh, Owns
  <2>5. Links'     BY <1>8 DEF Snooze, UpdateAgentRunStatus, Fault, TypeOK, Links, Owns, Stored
  <2>6. Marked'    BY <1>8 DEF Snooze, UpdateAgentRunStatus, Fault, TypeOK, Marked
  <2> QED  BY <2>1, <2>2, <2>3, <2>4, <2>5, <2>6
<1>9. CASE MarkRunning(r)
  <2>1. TypeOK'    BY <1>9 DEF MarkRunning, UpdateAgentRunStatus, TypeOK, Attempts
  <2>2. Attempts'  BY <1>9 DEF MarkRunning, UpdateAgentRunStatus, TypeOK, Attempts
  <2>3. Owns'      BY <1>9 DEF MarkRunning, UpdateAgentRunStatus, TypeOK, Owns
  <2>4. Fresh'     BY <1>9 DEF MarkRunning, UpdateAgentRunStatus, TypeOK, Fresh, Owns
  <2>5. Links'     BY <1>9 DEF MarkRunning, UpdateAgentRunStatus, TypeOK, Links, Owns, Stored
  <2>6. Marked'    BY <1>9 DEF MarkRunning, UpdateAgentRunStatus, TypeOK, Marked
  <2> QED  BY <2>1, <2>2, <2>3, <2>4, <2>5, <2>6
<1>10. CASE Analyze(r)
  <2>1. TypeOK'    BY <1>10 DEF Analyze, TypeOK, Attempts
  <2>2. Attempts'  BY <1>10 DEF Analyze, TypeOK, Attempts
  <2>3. Owns'      BY <1>10 DEF Analyze, TypeOK, Owns
  <2>4. Fresh'     BY <1>10 DEF Analyze, TypeOK, Fresh, Owns
  <2>5. Links'     BY <1>10 DEF Analyze, TypeOK, Links, Owns, Stored
  <2>6. Marked'    BY <1>10 DEF Analyze, TypeOK, Marked
  <2> QED  BY <2>1, <2>2, <2>3, <2>4, <2>5, <2>6
<1>11. CASE CreateSemanticRelease(r)
  <2>1. PICK v \in ReportVersions(r) :
          \/ /\ report[v] = NoReport
             /\ \E i \in Report \ used :
                  /\ report' = [report EXCEPT ![v] = i]
                  /\ used' = used \cup {i}
                  /\ own' = [own EXCEPT ![r] = i]
             /\ pc' = [pc EXCEPT ![r] = "link"]
          \/ /\ pc' = [pc EXCEPT ![r] = "markFailed"]
             /\ UNCHANGED <<report, used, own>>
      BY <1>11 DEF CreateSemanticRelease
  <2>2. /\ pc[r] = "create"
        /\ UNCHANGED <<input, status, link, todos, sent, attempts, toSend, faults>>
      BY <1>11 DEF CreateSemanticRelease
  <2>3. v \in Covered
      BY DEF ReportVersions, Covered, TypeOK
  <2>4. ASSUME NEW i \in Report \ used, report[v] = NoReport,
               report' = [report EXCEPT ![v] = i], used' = used \cup {i},
               own' = [own EXCEPT ![r] = i], pc' = [pc EXCEPT ![r] = "link"]
        PROVE  IInv'
    <3>1. TypeOK'    BY <2>2, <2>3, <2>4 DEF TypeOK
    <3>2. Attempts'  BY <2>2, <2>4 DEF TypeOK, Attempts
    <3>3. Owns'      BY <2>2, <2>3, <2>4 DEF TypeOK, Owns
    <3>4. Fresh'     BY <2>2, <2>4 DEF TypeOK, Fresh, Owns
    <3>5. Links'     BY <2>2, <2>3, <2>4 DEF TypeOK, Links, Owns, Stored
    <3>6. Marked'    BY <2>2, <2>4 DEF TypeOK, Marked
    <3> QED  BY <3>1, <3>2, <3>3, <3>4, <3>5, <3>6
  <2>5. ASSUME pc' = [pc EXCEPT ![r] = "markFailed"], UNCHANGED <<report, used, own>>
        PROVE  IInv'
    <3>1. TypeOK'    BY <2>2, <2>5 DEF TypeOK
    <3>2. Attempts'  BY <2>2, <2>5 DEF TypeOK, Attempts
    <3>3. Owns'      BY <2>2, <2>5 DEF TypeOK, Owns
    <3>4. Fresh'     BY <2>2, <2>5 DEF TypeOK, Fresh, Owns
    <3>5. Links'     BY <2>2, <2>5 DEF TypeOK, Links, Owns, Stored
    <3>6. Marked'    BY <2>2, <2>5 DEF TypeOK, Marked
    <3> QED  BY <3>1, <3>2, <3>3, <3>4, <3>5, <3>6
  <2> QED  BY <2>1, <2>4, <2>5
<1>12. CASE MarkFailed(r)
    BY <1>12, RetryKeeps DEF MarkFailed, UpdateAgentRunStatus, Fault, TypeOK
<1>13. CASE UpdateAgentRunResult(r)
  <2>1. CASE Retry(r)
      BY <1>13, <2>1, RetryKeeps DEF UpdateAgentRunResult, TypeOK
  <2>2. ASSUME Stored(own[r]), link' = [link EXCEPT ![r] = own[r]],
               pc' = [pc EXCEPT ![r] = "complete"], pc[r] = "link",
               UNCHANGED <<input, report, used, todos, sent, attempts, own, toSend,
                           status, faults>>
        PROVE  IInv'
    <3>1. TypeOK'    BY <2>2 DEF TypeOK
    <3>2. Attempts'  BY <2>2 DEF TypeOK, Attempts
    <3>3. Owns'      BY <2>2 DEF TypeOK, Owns
    <3>4. Fresh'     BY <2>2 DEF TypeOK, Fresh, Owns
    <3>5. Links'     BY <2>2 DEF TypeOK, Links, Owns, Stored
    <3>6. Marked'    BY <2>2 DEF TypeOK, Marked
    <3> QED  BY <3>1, <3>2, <3>3, <3>4, <3>5, <3>6
  <2> QED  BY <1>13, <2>1, <2>2 DEF UpdateAgentRunResult
<1>14. CASE MarkCompleted(r)
  <2>1. TypeOK'    BY <1>14 DEF MarkCompleted, UpdateAgentRunStatus, TypeOK, Attempts
  <2>2. Attempts'  BY <1>14 DEF MarkCompleted, UpdateAgentRunStatus, TypeOK, Attempts
  <2>3. Owns'      BY <1>14 DEF MarkCompleted, UpdateAgentRunStatus, TypeOK, Owns
  <2>4. Fresh'     BY <1>14 DEF MarkCompleted, UpdateAgentRunStatus, TypeOK, Fresh, Owns
  <2>5. Links'     BY <1>14 DEF MarkCompleted, UpdateAgentRunStatus, TypeOK, Links, Owns, Stored
  <2>6. Marked'    BY <1>14 DEF MarkCompleted, UpdateAgentRunStatus, TypeOK, Marked
  <2> QED  BY <2>1, <2>2, <2>3, <2>4, <2>5, <2>6
<1>15. CASE ListProjectSubscriptions(r)
  <2>1. TypeOK'    BY <1>15 DEF ListProjectSubscriptions, Fault, TypeOK, Attempts
  <2>2. Attempts'  BY <1>15 DEF ListProjectSubscriptions, Fault, TypeOK, Attempts
  <2>3. Owns'      BY <1>15 DEF ListProjectSubscriptions, Fault, TypeOK, Owns
  <2>4. Fresh'     BY <1>15 DEF ListProjectSubscriptions, Fault, TypeOK, Fresh, Owns
  <2>5. Links'     BY <1>15 DEF ListProjectSubscriptions, Fault, TypeOK, Links, Owns, Stored
  <2>6. Marked'    BY <1>15 DEF ListProjectSubscriptions, Fault, TypeOK, Marked
  <2> QED  BY <2>1, <2>2, <2>3, <2>4, <2>5, <2>6
<1>16. CASE CreateSemanticReleaseTodo(r)
  <2>1. TypeOK'    BY <1>16 DEF CreateSemanticReleaseTodo, Fault, TypeOK, Owns
  <2>2. Attempts'  BY <1>16 DEF CreateSemanticReleaseTodo, Fault, TypeOK, Attempts
  <2>3. Owns'      BY <1>16 DEF CreateSemanticReleaseTodo, Fault, TypeOK, Owns
  <2>4. Fresh'     BY <1>16 DEF CreateSemanticReleaseTodo, Fault, TypeOK, Fresh, Owns
  <2>5. Links'     BY <1>16 DEF CreateSemanticReleaseTodo, Fault, TypeOK, Links, Owns, Stored
  <2>6. Marked'    BY <1>16 DEF CreateSemanticReleaseTodo, Fault, TypeOK, Marked
  <2> QED  BY <2>1, <2>2, <2>3, <2>4, <2>5, <2>6
<1>17. CASE Send(r)
  <2>0. /\ pc[r] = "send" /\ own[r] \in Report
        /\ UNCHANGED <<input, status, link, report, used, todos, attempts, own>>
      BY <1>17 DEF Send, TypeOK, Owns
  <2>1. ASSUME toSend[r] = {}, pc' = [pc EXCEPT ![r] = "finish"],
               UNCHANGED <<sent, toSend, faults>>
        PROVE  IInv'
    <3>1. TypeOK'    BY <2>0, <2>1 DEF TypeOK
    <3>2. Attempts'  BY <2>0, <2>1 DEF TypeOK, Attempts
    <3>3. Owns'      BY <2>0, <2>1 DEF TypeOK, Owns
    <3>4. Fresh'     BY <2>0, <2>1 DEF TypeOK, Fresh
    <3>5. Links'     BY <2>0, <2>1 DEF TypeOK, Links, Stored
    <3>6. Marked'    BY <2>0, <2>1 DEF TypeOK, Marked
    <3> QED  BY <3>1, <3>2, <3>3, <3>4, <3>5, <3>6
  <2>2. ASSUME NEW c \in toSend[r], toSend' = [toSend EXCEPT ![r] = @ \ {c}],
               \/ sent' = [sent EXCEPT ![own[r]][c] = @ + 1] /\ UNCHANGED faults
               \/ Fault /\ UNCHANGED sent,
               UNCHANGED pc
        PROVE  IInv'
    <3>0. c \in Channel /\ sent[own[r]][c] = 0
        BY <2>0 DEF TypeOK, Fresh
    <3>1. sent' \in [Report -> [Channel -> Nat]]
        BY <2>0, <2>2, <3>0 DEF TypeOK
    <3>2. TypeOK'    BY <2>0, <2>2, <3>1 DEF TypeOK, Fault
    <3>3. Attempts'  BY <2>0, <2>2 DEF TypeOK, Attempts
    <3>4. Owns'      BY <2>0, <2>2 DEF TypeOK, Owns
    <3>5. ASSUME NEW i \in Report, NEW d \in Channel
          PROVE  sent'[i][d] = IF i = own[r] /\ d = c /\ sent' # sent THEN 1 ELSE sent[i][d]
        BY <2>0, <2>2, <3>0 DEF TypeOK
    <3>6. own[r] \in used /\ \A q \in Run : own[q] = own[r] => q = r
        BY <2>0 DEF TypeOK, Owns
    <3>7. toSend'[r] = toSend[r] \ {c} /\ \A q \in Run \ {r} : toSend'[q] = toSend[q]
        BY <2>2 DEF TypeOK
    <3>8. Fresh'     BY <2>0, <2>2, <3>0, <3>5, <3>6, <3>7 DEF Fresh
    <3>9. Links'     BY <2>0, <2>2 DEF TypeOK, Links, Stored
    <3>10. Marked'   BY <2>0, <2>2 DEF TypeOK, Marked
    <3> QED  BY <3>2, <3>3, <3>4, <3>8, <3>9, <3>10
  <2> QED  BY <1>17, <2>1, <2>2 DEF Send
<1> QED
    BY <1>1, <1>2, <1>3, <1>4, <1>5, <1>6, <1>7, <1>8, <1>9, <1>10, <1>11, <1>12, <1>13, <1>14, <1>15, <1>16, <1>17 DEF RunStep

\* Every reachable state satisfies the invariant.
THEOREM Invariance == Spec => []IInv
<1>1. IInv /\ [Next]_vars => IInv'
  <2> SUFFICES ASSUME IInv, [Next]_vars PROVE IInv'
      OBVIOUS
  <2>1. ASSUME NEW r \in Run, EnqueueAgentRun(r) \/ TriggerAgentRun(r) \/ RunStep(r)
        PROVE  IInv'
      BY <2>1, StepKeeps
  <2>2. ASSUME NEW r \in Run, Fail(r) PROVE IInv'
      BY <2>2, RetryKeeps DEF Fail, Fault, IInv, TypeOK
  <2>3. CASE UNCHANGED vars
      BY <2>3 DEF vars, IInv, TypeOK, Attempts, Owns, Fresh, Links, Marked, Stored
  <2> QED  BY <2>1, <2>2, <2>3, OutsideKeeps DEF Next
<1> QED  BY <1>1, InitIInv, PTL DEF Spec

\* The run's rows, reports and attempts keep their types; in particular no job is
\* started more often than River allows, whichever way snoozes are counted.
THEOREM TypeCorrect == Spec => []TypeOK
<1>1. IInv => TypeOK
    BY DEF IInv
<1> QED  BY <1>1, Invariance, PTL

\* However often runs are retried, no channel hears of a report twice.
THEOREM NoDoubleAnnouncement == Spec => []AnnouncedAtMostOnce
<1>1. IInv => AnnouncedAtMostOnce
    BY DEF IInv, Fresh, AnnouncedAtMostOnce
<1> QED  BY <1>1, Invariance, PTL

\* A run points to a stored report of its own.
THEOREM LinksAreSound == Spec => []LinksSound
<1>1. IInv => LinksSound
    BY DEF IInv, Links, LinksSound
<1> QED  BY <1>1, Invariance, PTL

\* A job River counts as done belongs to a completed run.
THEOREM DoneMeansCompleted == Spec => []DoneIsCompleted
<1>1. IInv => DoneIsCompleted
    BY DEF IInv, Marked, DoneIsCompleted
<1> QED  BY <1>1, Invariance, PTL
=============================================================================
