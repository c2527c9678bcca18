------------------------ MODULE NotifyReleaseProofs ------------------------
(***************************************************************************)
(* Proofs about NotifyRelease, for any jobs, subscriptions, filters, rules *)
(* and bounds.                                                             *)
(***************************************************************************)
EXTENDS NotifyRelease, FiniteSetTheorems, TLAPS

\* An attempt owes a channel its message until the loop has visited it: before
\* that, the channel has at most the messages of the earlier attempts.
Owed ==
    \A j \in Job, s \in Sub :
        /\ sent[j][s] <= attempts[j]
        /\ \/ pc[j] \in {"load", "todo", "list"}
           \/ pc[j] = "send" /\ s \in toSend[j]
           => sent[j][s] < attempts[j]

\* Past CreateReleaseTodo the TODO is there, unless the filters ended the job or
\* the source has gone meanwhile.
TodoKept ==
    exists => \A j \in Job :
        /\ pc[j] \in {"list", "send", "gate", "rules", "enqueue"} => ReleaseOf[j] \in todos
        /\ pc[j] \in {"finish", "done"} => j \in skipped \/ ReleaseOf[j] \in todos
        /\ \A s \in Sub : sent[j][s] > 0 => ReleaseOf[j] \in todos

\* A job that River may start has an attempt left.
Startable == \A j \in Job : pc[j] = "queued" => attempts[j] < MaxAttempts

IInv == TypeOK /\ Startable /\ Owed /\ TodoKept

USE DEF config, effects, Working, Ended, Goto
-----------------------------------------------------------------------------
LEMMA InitIInv == Init => IInv
BY ConstantsAssumption DEF Init, IInv, TypeOK, Startable, Owed, TodoKept

\* A failed attempt leaves what was sent and the TODOs as they are.
LEMMA RetryKeeps ==
    ASSUME IInv, NEW j \in Job, pc[j] \in Working, Retry(j), faults' \in Nat
    PROVE  IInv'
<1> USE ConstantsAssumption DEF IInv, TypeOK, Retry
<1>1. TypeOK'
    OBVIOUS
<1>2. Startable'
    BY DEF Startable
<1>3. Owed'
    BY DEF Owed
<1>4. TodoKept'
    BY DEF TodoKept
<1> QED  BY <1>1, <1>2, <1>3, <1>4

\* The operator's edits: only the deletion of the source touches TODOs.
LEMMA ChangeKeeps ==
    ASSUME IInv,
           \/ EditFilters \/ ToggleGate \/ DeleteSource
           \/ \E s \in Sub : CreateSubscription(s) \/ DeleteSubscription(s) \/ DeleteChannel(s)
    PROVE  IInv'
<1>1. /\ UNCHANGED <<runs, sent, pc, toSend, attempts, skipped, faults>>
      /\ changes' = changes + 1
      /\ (UNCHANGED <<exists, todos>>) \/ (exists' = FALSE /\ todos' = {})
    BY DEF EditFilters, ToggleGate, DeleteSource, CreateSubscription, DeleteSubscription,
           DeleteChannel, Change
<1>2. exists' \in BOOLEAN /\ gate' \in BOOLEAN
    BY DEF IInv, TypeOK, EditFilters, ToggleGate, DeleteSource, CreateSubscription,
           DeleteSubscription, DeleteChannel
<1>3. passing' \in SUBSET Release /\ subs' \in SUBSET Sub /\ channels' \in SUBSET Sub
    BY ConstantsAssumption
       DEF IInv, TypeOK, EditFilters, ToggleGate, DeleteSource, CreateSubscription,
           DeleteSubscription, DeleteChannel
<1>4. TypeOK'
    BY <1>1, <1>2, <1>3 DEF IInv, TypeOK
<1>5. Startable' /\ Owed'
    BY <1>1 DEF IInv, Startable, Owed
<1>6. TodoKept'
    BY <1>1 DEF IInv, TodoKept
<1> QED  BY <1>4, <1>5, <1>6 DEF IInv

\* One attempt, call by call.
LEMMA StepKeeps ==
    ASSUME IInv, NEW j \in Job, JobStep(j)
    PROVE  IInv'
<1> USE ConstantsAssumption DEF IInv
<1>1. CASE Start(j)
  <2>1. TypeOK'     BY <1>1 DEF Start, TypeOK, Startable
  <2>2. Startable'  BY <1>1 DEF Start, TypeOK, Startable
  <2>3. Owed'       BY <1>1 DEF Start, TypeOK, Owed
  <2>4. TodoKept'   BY <1>1 DEF Start, TypeOK, TodoKept
  <2> QED  BY <2>1, <2>2, <2>3, <2>4
<1>2. CASE Load(j)
  <2>0. CASE Retry(j)
      BY <1>2, <2>0, RetryKeeps DEF Load, TypeOK
  <2>a. ASSUME exists, UNCHANGED <<config, effects, toSend, attempts, changes, faults>>,
               \/ pc' = [pc EXCEPT ![j] = "todo"] /\ UNCHANGED skipped
               \/ pc' = [pc EXCEPT ![j] = "finish"] /\ skipped' = skipped \cup {j}
        PROVE  IInv'
    <3>1. TypeOK'     BY <2>a DEF TypeOK
    <3>2. Startable'  BY <2>a DEF TypeOK, Startable
    <3>3. Owed'       BY <1>2, <2>a DEF Load, TypeOK, Owed
    <3>4. TodoKept'   BY <1>2, <2>a DEF Load, TypeOK, TodoKept
    <3> QED  BY <3>1, <3>2, <3>3, <3>4
  <2> QED  BY <1>2, <2>0, <2>a DEF Load
<1>3. CASE CreateReleaseTodo(j)
  <2>0. CASE Retry(j)
      BY <1>3, <2>0, RetryKeeps DEF CreateReleaseTodo, TypeOK
  <2>a. ASSUME exists, todos' = todos \cup {ReleaseOf[j]}, pc' = [pc EXCEPT ![j] = "list"],
               UNCHANGED <<config, runs, sent, toSend, attempts, skipped, changes, faults>>
        PROVE  IInv'
    <3>1. TypeOK'     BY <2>a DEF TypeOK
    <3>2. Startable'  BY <2>a DEF TypeOK, Startable
    <3>3. Owed'       BY <1>3, <2>a DEF CreateReleaseTodo, TypeOK, Owed
    <3>4. TodoKept'   BY <1>3, <2>a DEF CreateReleaseTodo, TypeOK, TodoKept
    <3> QED  BY <3>1, <3>2, <3>3, <3>4
  <2> QED  BY <1>3, <2>0, <2>a DEF CreateReleaseTodo
<1>4. CASE ListSourceSubscriptions(j)
  <2> USE <1>4 DEF ListSourceSubscriptions, TypeOK
  <2>1. TypeOK'     OBVIOUS
  <2>2. Startable'  BY DEF Startable
  <2>3. Owed'       BY DEF Owed
  <2>4. TodoKept'   BY DEF TodoKept
  <2> QED  BY <2>1, <2>2, <2>3, <2>4
<1>5. CASE Send(j)
  <2>1. CASE Goto(j, "gate") /\ UNCHANGED <<sent, toSend, faults>>
    <3> USE <1>5, <2>1 DEF Send, TypeOK
    <3>1. TypeOK'     OBVIOUS
    <3>2. Startable'  BY DEF Startable
    <3>3. Owed'       BY DEF Owed
    <3>4. TodoKept'   BY DEF TodoKept
    <3> QED  BY <3>1, <3>2, <3>3, <3>4
  <2>2. ASSUME NEW s \in toSend[j],
               toSend' = [toSend EXCEPT ![j] = @ \ {s}],
               sent' = [sent EXCEPT ![j][s] = @ + 1] \/ UNCHANGED sent,
               faults' \in Nat, pc[j] = "send",
               UNCHANGED <<config, todos, runs, pc, attempts, skipped, changes>>
        PROVE  IInv'
    <3>0. s \in Sub
        BY <2>2 DEF TypeOK
    <3>1. sent' \in [Job -> [Sub -> Nat]]
        BY <2>2, <3>0 DEF TypeOK
    <3>2. TypeOK'
        BY <2>2, <3>1 DEF TypeOK
    <3>3. Startable'
        BY <2>2 DEF Startable
    <3>4. Owed'
      <4> SUFFICES ASSUME NEW i \in Job, NEW x \in Sub
                   PROVE  /\ sent'[i][x] <= attempts'[i]
                          /\ \/ pc'[i] \in {"load", "todo", "list"}
                             \/ pc'[i] = "send" /\ x \in toSend'[i]
                             => sent'[i][x] < attempts'[i]
          BY DEF Owed
      <4>1. CASE i = j /\ x = s
        <5>1. sent[j][s] < attempts[j] /\ sent[j][s] \in Nat /\ attempts[j] \in Nat
            BY <2>2, <3>0 DEF Owed, TypeOK
        <5>2. sent'[j][s] <= attempts[j]
            BY <2>2, <3>0, <5>1 DEF TypeOK
        <5>3. s \notin toSend'[j] /\ pc'[j] = "send"
            BY <2>2 DEF TypeOK
        <5> QED  BY <2>2, <4>1, <5>2, <5>3
      <4>2. CASE ~(i = j /\ x = s)
        <5>1. sent'[i][x] = sent[i][x]
            BY <2>2, <3>0, <4>2 DEF TypeOK
        <5>2. x \in toSend'[i] => x \in toSend[i]
            BY <2>2 DEF TypeOK
        <5> QED  BY <2>2, <5>1, <5>2 DEF Owed
      <4> QED  BY <4>1, <4>2
    <3>5. TodoKept'
      <4>1. exists => ReleaseOf[j] \in todos
          BY <2>2 DEF TodoKept
      <4>2. \A i \in Job, x \in Sub : i # j => sent'[i][x] = sent[i][x]
          BY <2>2, <3>0 DEF TypeOK
      <4> QED  BY <2>2, <4>1, <4>2 DEF TodoKept
    <3> QED  BY <3>2, <3>3, <3>4, <3>5
  <2> QED  BY <1>5, <2>1, <2>2 DEF Send, Fault, TypeOK
<1>6. ASSUME pc[j] \in {"gate", "rules", "enqueue", "finish"},
             pc'[j] \in {"rules", "enqueue", "finish", "done"},
             pc' = [pc EXCEPT ![j] = pc'[j]],
             pc[j] = "finish" => pc'[j] = "done",
             UNCHANGED <<config, todos, sent, toSend, attempts, skipped, changes>>,
             runs' \in [Release -> Nat], faults' \in Nat
      PROVE  IInv'
  <2>1. TypeOK'     BY <1>6 DEF TypeOK
  <2>2. Startable'  BY <1>6 DEF TypeOK, Startable
  <2>3. Owed'       BY <1>6 DEF TypeOK, Owed
  <2>4. TodoKept'   BY <1>6 DEF TypeOK, TodoKept
  <2> QED  BY <2>1, <2>2, <2>3, <2>4
<1>7. CASE CheckGate(j)
    BY <1>6, <1>7 DEF CheckGate, Fault, TypeOK
<1>8. CASE CheckAgentRules(j)
    BY <1>6, <1>8 DEF CheckAgentRules, Fault, TypeOK
<1>9. CASE EnqueueAgentRun(j)
  <2>1. /\ pc[j] = "enqueue" /\ pc' = [pc EXCEPT ![j] = "finish"]
        /\ UNCHANGED <<config, todos, sent, toSend, attempts, skipped, changes>>
      BY <1>9 DEF EnqueueAgentRun
  <2>2. faults' \in Nat
      BY <1>9 DEF EnqueueAgentRun, Fault, TypeOK
  <2>3. runs' \in [Release -> Nat]
    <3>1. UNCHANGED runs \/ runs' = [runs EXCEPT ![ReleaseOf[j]] = @ + 1]
        BY <1>9 DEF EnqueueAgentRun
    <3> QED  BY <3>1 DEF TypeOK
  <2> QED  BY <2>1, <2>2, <2>3, <1>6 DEF TypeOK
<1>10. CASE Complete(j)
    BY <1>6, <1>10 DEF Complete, TypeOK
<1> QED
    BY <1>1, <1>2, <1>3, <1>4, <1>5, <1>7, <1>8, <1>9, <1>10 DEF JobStep

\* Every reachable state is typed, no job is started more often than River
\* allows, and each attempt keeps its promises to channels and TODOs.
THEOREM Invariance == Spec => []IInv
<1>1. IInv /\ [Next]_vars => IInv'
  <2> SUFFICES ASSUME IInv, [Next]_vars PROVE IInv'
      OBVIOUS
  <2>1. ASSUME NEW j \in Job, JobStep(j) PROVE IInv'
      BY <2>1, StepKeeps
  <2>2. ASSUME NEW j \in Job, Fail(j) PROVE IInv'
      BY <2>2, RetryKeeps DEF Fail, Fault, IInv, TypeOK
  <2>3. CASE UNCHANGED vars
      BY <2>3 DEF vars, IInv, TypeOK, Startable, Owed, TodoKept
  <2> QED  BY <2>1, <2>2, <2>3, ChangeKeeps DEF Next
<1> QED  BY <1>1, InitIInv, PTL DEF Spec

\* Jobs keep their types: in particular none is attempted more often than River
\* allows.
THEOREM TypeCorrect == Spec => []TypeOK
<1>1. IInv => TypeOK
    BY DEF IInv
<1> QED  BY <1>1, Invariance, PTL

\* A channel gets one message per job and attempt at most.
THEOREM OncePerAttempt == Spec => []OnceOrRetried
<1>1. IInv => OnceOrRetried
    BY DEF IInv, Owed, OnceOrRetried
<1> QED  BY <1>1, Invariance, PTL

\* No job completes without the TODO of its release, unless it was filtered out.
THEOREM NoSilentCompletion == Spec => []CompletedHasTodo
<1>1. IInv => CompletedHasTodo
    BY DEF IInv, TodoKept, CompletedHasTodo
<1> QED  BY <1>1, Invariance, PTL

\* The TODO exists before anybody is told of the release.
THEOREM TodoComesFirst == Spec => []TodoBeforeSend
<1>1. IInv => TodoBeforeSend
    BY DEF IInv, TodoKept, TodoBeforeSend
<1> QED  BY <1>1, Invariance, PTL
-----------------------------------------------------------------------------
(* The agent runs.  Each run is paid for by an attempt of a job of its own *)
(* release: an attempt that has not reached the enqueue has paid nothing.  *)

Attempted(r) == {a \in Job \X (1..MaxAttempts) :
                   ReleaseOf[a[1]] = r /\ a[2] <= attempts[a[1]]}

\* Before the end of EnqueueAgentRun, in the attempt under way.
Early == {"load", "todo", "list", "send", "gate", "rules", "enqueue"}

Spent(r) == {a \in Attempted(r) : a[2] = attempts[a[1]] => pc[a[1]] \notin Early}

\* A job that is running has been started; the rules sent it to the enqueue.
EnqueueOK ==
    \A j \in Job : /\ pc[j] \in Early => attempts[j] \in 1..MaxAttempts
                   /\ pc[j] = "enqueue" => ReleaseOf[j] \in Matching

RunsPaid ==
    \A r \in Release :
        /\ IsFiniteSet(Attempted(r))
        /\ runs[r] <= Cardinality(Spent(r))
        /\ r \notin Matching => runs[r] = 0

RunInv == EnqueueOK /\ RunsPaid

\* A step that starts no attempt and creates no run leaves all paid for.
LEMMA NoRunNoStart ==
    ASSUME TypeOK, RunInv, UNCHANGED <<runs, attempts>>,
           \A j \in Job : pc'[j] \in Early => pc[j] \in Early
    PROVE  RunsPaid'
<1> SUFFICES ASSUME NEW r \in Release
             PROVE  /\ IsFiniteSet(Attempted(r)')
                    /\ runs'[r] <= Cardinality(Spent(r)')
                    /\ r \notin Matching => runs'[r] = 0
    BY DEF RunsPaid
<1>1. Attempted(r)' = Attempted(r)
    BY DEF Attempted
<1>2. Spent(r) \subseteq Spent(r)'
    BY <1>1 DEF Spent, Attempted
<1>3. IsFiniteSet(Spent(r)')
  <2>1. IsFiniteSet(Attempted(r)') /\ Spent(r)' \subseteq Attempted(r)'
      BY <1>1 DEF RunInv, RunsPaid, Spent
  <2> QED  BY <2>1, FS_Subset
<1>4. IsFiniteSet(Spent(r)) /\ Cardinality(Spent(r)) <= Cardinality(Spent(r)')
    BY <1>2, <1>3, FS_Subset
<1>5. Cardinality(Spent(r)) \in Nat /\ Cardinality(Spent(r)') \in Nat
    BY <1>3, <1>4, FS_CardinalityType
<1>6. runs[r] \in Nat /\ runs[r] <= Cardinality(Spent(r)) /\ runs'[r] = runs[r]
    BY DEF TypeOK, RunInv, RunsPaid
<1> QED  BY <1>1, <1>4, <1>5, <1>6 DEF RunInv, RunsPaid

\* Start adds an attempt, which has not paid for a run yet.
LEMMA StartPays ==
    ASSUME IInv, RunInv, NEW j \in Job, Start(j)
    PROVE  RunsPaid'
<1> USE DEF IInv, TypeOK
<1>0. /\ pc[j] = "queued" /\ pc' = [pc EXCEPT ![j] = "load"]
      /\ attempts' = [attempts EXCEPT ![j] = attempts[j] + 1]
      /\ UNCHANGED runs
    BY DEF Start
<1> SUFFICES ASSUME NEW r \in Release
             PROVE  /\ IsFiniteSet(Attempted(r)')
                    /\ runs'[r] <= Cardinality(Spent(r)')
                    /\ r \notin Matching => runs'[r] = 0
    BY DEF RunsPaid
<1>1. Attempted(r)' \subseteq Attempted(r) \cup {<<j, attempts[j] + 1>>}
  <2> SUFFICES ASSUME NEW a \in Job \X (1..MaxAttempts),
                      ReleaseOf[a[1]] = r, a[2] <= attempts'[a[1]],
                      a # <<j, attempts[j] + 1>>
               PROVE  a[2] <= attempts[a[1]]
      BY DEF Attempted
  <2>1. a[1] \in Job /\ a[2] \in 1..MaxAttempts /\ a = <<a[1], a[2]>>
      OBVIOUS
  <2>2. CASE a[1] = j
    <3>1. a[2] # attempts[j] + 1 /\ a[2] <= attempts[j] + 1
        BY <1>0, <2>1, <2>2
    <3> QED  BY <2>1, <2>2, <3>1
  <2>3. CASE a[1] # j
      BY <1>0, <2>1, <2>3
  <2> QED  BY <2>2, <2>3
<1>2. IsFiniteSet(Attempted(r)')
  <2>1. IsFiniteSet(Attempted(r))
      BY DEF RunInv, RunsPaid
  <2>2. IsFiniteSet(Attempted(r) \cup {<<j, attempts[j] + 1>>})
      BY <2>1, FS_AddElement
  <2> QED  BY <1>1, <2>2, FS_Subset
<1>3. Spent(r) \subseteq Spent(r)'
  <2> SUFFICES ASSUME NEW a \in Job \X (1..MaxAttempts), a \in Spent(r)
               PROVE  a \in Spent(r)'
      BY DEF Spent, Attempted
  <2>1. a[1] \in Job /\ a[2] \in 1..MaxAttempts /\ a[2] <= attempts[a[1]]
      BY DEF Spent, Attempted
  <2>2. CASE a[1] = j
    <3>1. attempts'[j] = attempts[j] + 1 /\ attempts[j] \in Nat
        BY <1>0
    <3>2. a[2] <= attempts'[j] /\ a[2] # attempts'[j]
        BY <2>1, <2>2, <3>1
    <3> QED  BY <2>2, <3>2 DEF Spent, Attempted
  <2>3. CASE a[1] # j
    <3>1. attempts'[a[1]] = attempts[a[1]] /\ pc'[a[1]] = pc[a[1]]
        BY <1>0, <2>1, <2>3
    <3> QED  BY <3>1 DEF Spent, Attempted
  <2> QED  BY <2>2, <2>3
<1>4. IsFiniteSet(Spent(r)')
    BY <1>2, FS_Subset DEF Spent
<1>5. IsFiniteSet(Spent(r)) /\ Cardinality(Spent(r)) <= Cardinality(Spent(r)')
    BY <1>3, <1>4, FS_Subset
<1>6. Cardinality(Spent(r)) \in Nat /\ Cardinality(Spent(r)') \in Nat
    BY <1>4, <1>5, FS_CardinalityType
<1>7. runs[r] \in Nat /\ runs[r] <= Cardinality(Spent(r)) /\ runs'[r] = runs[r]
    BY <1>0 DEF RunInv, RunsPaid
<1> QED  BY <1>2, <1>5, <1>6, <1>7 DEF RunInv, RunsPaid

\* EnqueueAgentRun spends the attempt under way.
LEMMA EnqueuePays ==
    ASSUME IInv, RunInv, NEW j \in Job, pc[j] = "enqueue",
           pc' = [pc EXCEPT ![j] = "finish"], UNCHANGED attempts,
           runs' = [runs EXCEPT ![ReleaseOf[j]] = @ + 1]
    PROVE  RunsPaid'
<1> USE DEF IInv, TypeOK
<1> DEFINE q == ReleaseOf[j]
           mine == <<j, attempts[j]>>
<1>0. q \in Release /\ q \in Matching /\ attempts[j] \in 1..MaxAttempts
    BY ConstantsAssumption DEF RunInv, EnqueueOK, Early
<1> SUFFICES ASSUME NEW r \in Release
             PROVE  /\ IsFiniteSet(Attempted(r)')
                    /\ runs'[r] <= Cardinality(Spent(r)')
                    /\ r \notin Matching => runs'[r] = 0
    BY DEF RunsPaid
<1>1. Attempted(r)' = Attempted(r) /\ IsFiniteSet(Attempted(r))
    BY DEF Attempted, RunInv, RunsPaid
<1>2. Spent(r) \subseteq Spent(r)'
    BY <1>1 DEF Spent, Attempted, Early
<1>3. IsFiniteSet(Spent(r)) /\ IsFiniteSet(Spent(r)')
    BY <1>1, FS_Subset DEF Spent
<1>4. Cardinality(Spent(r)) <= Cardinality(Spent(r)')
    BY <1>2, <1>3, FS_Subset
<1>5. Cardinality(Spent(r)) \in Nat /\ Cardinality(Spent(r)') \in Nat
    BY <1>3, FS_CardinalityType
<1>6. runs[r] \in Nat /\ runs[r] <= Cardinality(Spent(r))
    BY DEF RunInv, RunsPaid
<1>7. CASE r # q
  <2>1. runs'[r] = runs[r]
      BY <1>0, <1>7
  <2> QED  BY <1>1, <1>4, <1>5, <1>6, <2>1 DEF RunInv, RunsPaid
<1>8. CASE r = q
  <2>1. runs'[r] = runs[r] + 1
      BY <1>0, <1>8
  <2>2. mine \notin Spent(r) /\ mine \in Spent(r)'
      BY <1>0, <1>8 DEF Spent, Attempted, Early
  <2>3. IsFiniteSet(Spent(r) \cup {mine}) /\ Cardinality(Spent(r) \cup {mine}) = Cardinality(Spent(r)) + 1
      BY <1>3, <2>2, FS_AddElement
  <2>4. Spent(r) \cup {mine} \subseteq Spent(r)'
      BY <1>2, <2>2
  <2>5. Cardinality(Spent(r)) + 1 <= Cardinality(Spent(r)')
      BY <1>3, <2>3, <2>4, FS_Subset
  <2> QED  BY <1>0, <1>1, <1>5, <1>6, <1>8, <2>1, <2>5
<1> QED  BY <1>7, <1>8

LEMMA RunInvKept == ASSUME IInv, RunInv, [Next]_vars PROVE RunInv'
<1> USE DEF IInv, TypeOK
<1>1. EnqueueOK'
  <2>1. ASSUME NEW j \in Job, JobStep(j) \/ Fail(j) PROVE EnqueueOK'
    <3>1. CASE Start(j)
        BY <3>1, ConstantsAssumption DEF Start, RunInv, EnqueueOK, Early, Startable
    <3>2. CASE Fail(j)
      <4>1. /\ UNCHANGED attempts
            /\ pc' = [pc EXCEPT ![j] = pc'[j]] /\ pc'[j] \in {"queued", "discarded"}
          BY <3>2 DEF Fail, Retry
      <4> QED  BY <4>1 DEF RunInv, EnqueueOK, Early
    <3>3. CASE Load(j) \/ CreateReleaseTodo(j) \/ ListSourceSubscriptions(j) \/ Send(j)
      <4>1. /\ UNCHANGED attempts /\ pc[j] \in Early
            /\ pc' = [pc EXCEPT ![j] = pc'[j]] /\ pc'[j] # "enqueue"
          BY <3>3 DEF Load, CreateReleaseTodo, ListSourceSubscriptions, Send, Retry, Early
      <4> QED  BY <4>1 DEF RunInv, EnqueueOK
    <3>4. CASE CheckGate(j) \/ CheckAgentRules(j) \/ EnqueueAgentRun(j) \/ Complete(j)
        BY <3>4 DEF CheckGate, CheckAgentRules, EnqueueAgentRun, Complete, RunInv,
                    EnqueueOK, Early
    <3> QED  BY <2>1, <3>1, <3>2, <3>3, <3>4 DEF JobStep
  <2>2. ASSUME UNCHANGED <<pc, attempts>> PROVE EnqueueOK'
      BY <2>2 DEF RunInv, EnqueueOK
  <2> QED
      BY <2>1, <2>2 DEF Next, vars, EditFilters, ToggleGate, DeleteSource,
                        CreateSubscription, DeleteSubscription, DeleteChannel, Change
<1>2. RunsPaid'
  <2>1. ASSUME NEW j \in Job, Start(j) PROVE RunsPaid'
      BY <2>1, StartPays
  <2>2. ASSUME NEW j \in Job, EnqueueAgentRun(j) PROVE RunsPaid'
    <3>1. CASE UNCHANGED runs
      <4>1. UNCHANGED attempts /\ \A i \in Job : pc'[i] \in Early => pc[i] \in Early
          BY <2>2 DEF EnqueueAgentRun, Early
      <4> QED  BY <3>1, <4>1, NoRunNoStart
    <3>2. CASE runs' = [runs EXCEPT ![ReleaseOf[j]] = @ + 1]
      <4>1. pc[j] = "enqueue" /\ pc' = [pc EXCEPT ![j] = "finish"] /\ UNCHANGED attempts
          BY <2>2 DEF EnqueueAgentRun
      <4> QED  BY <3>2, <4>1, EnqueuePays
    <3> QED  BY <2>2, <3>1, <3>2 DEF EnqueueAgentRun
  <2>3. ASSUME NEW j \in Job, JobStep(j) \/ Fail(j), ~Start(j), ~EnqueueAgentRun(j)
        PROVE  RunsPaid'
    <3>1. UNCHANGED <<runs, attempts>>
        BY <2>3 DEF JobStep, Fail, Load, CreateReleaseTodo, ListSourceSubscriptions, Send,
                    CheckGate, CheckAgentRules, Complete, Retry
    <3>2. \A i \in Job : pc'[i] \in Early => pc[i] \in Early
        BY <2>3 DEF JobStep, Fail, Load, CreateReleaseTodo, ListSourceSubscriptions, Send,
                    CheckGate, CheckAgentRules, Complete, Retry, Early
    <3> QED  BY <3>1, <3>2, NoRunNoStart
  <2>4. ASSUME UNCHANGED <<pc, attempts, runs>> PROVE RunsPaid'
      BY <2>4, NoRunNoStart
  <2> QED
      BY <2>1, <2>2, <2>3, <2>4
      DEF Next, vars, EditFilters, ToggleGate, DeleteSource,
          CreateSubscription, DeleteSubscription, DeleteChannel, Change
<1> QED  BY <1>1, <1>2 DEF RunInv

\* For any number of jobs about one release, attempted, crashing and repeated
\* at the same time, the rules start at most one agent run per attempt, and
\* none for a release they do not match.
THEOREM RunsPerAttempt == Spec => []RunsWithinAttempts
<1>1. Init => RunInv
  <2> SUFFICES ASSUME Init PROVE RunInv
      OBVIOUS
  <2>1. EnqueueOK
      BY DEF Init, EnqueueOK, Early
  <2>2. \A r \in Release : Attempted(r) = {} /\ Spent(r) = {}
      BY DEF Init, Attempted, Spent
  <2> QED  BY <2>1, <2>2, FS_EmptySet DEF Init, RunInv, RunsPaid
<1>2. IInv /\ RunInv /\ [Next]_vars => RunInv'
    BY RunInvKept
<1>3. IInv /\ RunInv => RunsWithinAttempts
  <2> SUFFICES ASSUME IInv, RunInv, NEW r \in Release
               PROVE  runs[r] <= IF r \in Matching THEN AttemptsOn(r) ELSE 0
      BY DEF RunsWithinAttempts
  <2>1. IsFiniteSet(Attempted(r)) /\ Spent(r) \subseteq Attempted(r)
      BY DEF RunInv, RunsPaid, Spent
  <2>2. IsFiniteSet(Spent(r)) /\ Cardinality(Spent(r)) <= Cardinality(Attempted(r))
      BY <2>1, FS_Subset
  <2>3. Cardinality(Spent(r)) \in Nat /\ Cardinality(Attempted(r)) \in Nat
      BY <2>1, <2>2, FS_CardinalityType
  <2>4. AttemptsOn(r) = Cardinality(Attempted(r))
      BY DEF AttemptsOn, Attempted
  <2>5. runs[r] \in Nat /\ runs[r] <= Cardinality(Spent(r)) /\ (r \notin Matching => runs[r] = 0)
      BY DEF IInv, TypeOK, RunInv, RunsPaid
  <2> QED  BY <2>2, <2>3, <2>4, <2>5
<1> QED  BY <1>1, <1>2, <1>3, Invariance, PTL DEF Spec
=============================================================================
