--------------------------- MODULE NotifyRelease ---------------------------
(***************************************************************************)
(* The notify_release worker of internal/routing: for one source, the jobs *)
(* that IngestRelease inserted for new and for updated releases run at the *)
(* same time, create the TODO of the release, send to the subscribed       *)
(* channels and start an agent run where the project's rules match, while  *)
(* the operator edits filters, subscriptions and the gate.                 *)
(*                                                                         *)
(* A job whose worker returns an error or dies is run again from its first *)
(* line until River has tried it MaxAttempts times.                        *)
(***************************************************************************)
EXTENDS Naturals, FiniteSets

CONSTANTS
    Job,            \* notify_release jobs
    Release,        \* releases of the source
    ReleaseOf,      \* the release a job is about
    Sub,            \* subscriptions, each with a channel of its own
    Sendable,       \* those whose channel has a type with a sender
    Matching,       \* the releases the agent rules match, against some earlier one
    Filters,        \* the sets of releases the source's filters may let pass
    MaxAttempts,    \* River's limit on the attempts of a job (25)
    MaxFaults,      \* bound: failing calls and crashes
    MaxChanges      \* bound: the operator's edits

ASSUME ConstantsAssumption ==
    /\ ReleaseOf \in [Job -> Release]
    /\ Sendable \subseteq Sub /\ Matching \subseteq Release
    /\ Filters \subseteq SUBSET Release
    /\ MaxAttempts \in Nat \ {0}
    /\ MaxFaults \in Nat /\ MaxChanges \in Nat

VARIABLES
    exists,         \* the source, and with it its releases, is still there
    passing,        \* the releases its filters let pass
    subs,           \* its subscriptions
    channels,       \* the subscriptions whose channel is still there
    gate,           \* the project has an enabled release gate
    todos,          \* releases with a row in release_todos
    runs,           \* per release: agent runs enqueued
    sent,           \* per job and subscription: messages the channel got
    pc,             \* per job: its next call
    toSend,         \* per job: the subscriptions its loop has still to visit
    attempts,       \* per job: the attempts River has started
    skipped,        \* history: jobs that ended because of the filters
    faults, changes

config  == <<exists, passing, subs, channels, gate>>
effects == <<todos, runs, sent>>
vars    == <<config, effects, pc, toSend, attempts, skipped, faults, changes>>

Working == {"load", "todo", "list", "send", "gate", "rules", "enqueue", "finish"}
Ended   == {"done", "discarded"}

TypeOK ==
    /\ exists \in BOOLEAN /\ gate \in BOOLEAN
    /\ passing \in SUBSET Release
    /\ subs \in SUBSET Sub /\ channels \in SUBSET Sub
    /\ todos \in SUBSET Release
    /\ runs \in [Release -> Nat]
    /\ sent \in [Job -> [Sub -> Nat]]
    /\ pc \in [Job -> {"queued"} \cup Working \cup Ended]
    /\ toSend \in [Job -> SUBSET Sub]
    /\ attempts \in [Job -> 0..MaxAttempts]
    /\ skipped \in SUBSET Job
    /\ faults \in Nat /\ changes \in Nat

Init ==
    /\ exists = TRUE
    /\ passing \in Filters
    /\ subs \in SUBSET Sub /\ channels = Sub
    /\ gate \in BOOLEAN
    /\ todos = {}
    /\ runs = [r \in Release |-> 0]
    /\ sent = [j \in Job |-> [s \in Sub |-> 0]]
    /\ pc = [j \in Job |-> "queued"]
    /\ toSend = [j \in Job |-> {}]
    /\ attempts = [j \in Job |-> 0]
    /\ skipped = {}
    /\ faults = 0 /\ changes = 0
-----------------------------------------------------------------------------
Goto(j, step) == pc' = [pc EXCEPT ![j] = step]

Fault == faults < MaxFaults /\ faults' = faults + 1

\* Work returned an error, or the process died.
Retry(j) ==
    /\ Goto(j, IF attempts[j] < MaxAttempts THEN "queued" ELSE "discarded")
    /\ toSend' = [toSend EXCEPT ![j] = {}]
    /\ UNCHANGED <<config, effects, attempts, skipped, changes>>

\* River starts an attempt.
Start(j) ==
    /\ pc[j] = "queued"
    /\ Goto(j, "load")
    /\ attempts' = [attempts EXCEPT ![j] = @ + 1]
    /\ UNCHANGED <<config, effects, toSend, skipped, faults, changes>>

\* A crash, or a failing call whose error Work returns.
Fail(j) == pc[j] \in Working /\ Fault /\ Retry(j)

\* Mutant: a release the filters reject is an error.
LoadRejects(j) ==
    /\ pc[j] = "load"
    /\ IF exists /\ ReleaseOf[j] \in passing
       THEN /\ Goto(j, "todo")
            /\ UNCHANGED <<config, effects, toSend, attempts, skipped, changes>>
       ELSE Retry(j)
    /\ UNCHANGED faults

\* GetRelease and GetSource, which fail once the source is deleted, and then the
\* version filter and exclude_prereleases.
Load(j) ==
    /\ pc[j] = "load"
    /\ \/ ~exists /\ Retry(j)
       \/ /\ exists
          /\ LET passes == ReleaseOf[j] \in passing
             IN  /\ Goto(j, IF passes THEN "todo" ELSE "finish")
                 /\ skipped' = IF passes THEN skipped ELSE skipped \cup {j}
          /\ UNCHANGED <<config, effects, toSend, attempts, changes>>
    /\ UNCHANGED faults

\* Mutant: an error is logged and the job goes on without a TODO.
CreateReleaseTodoLogged(j) ==
    /\ pc[j] = "todo"
    /\ \/ todos' = todos \cup {ReleaseOf[j]} /\ UNCHANGED faults
       \/ Fault /\ UNCHANGED todos
    /\ Goto(j, "list")
    /\ UNCHANGED <<config, runs, sent, toSend, attempts, skipped, changes>>

\* An idempotent upsert; without its release it violates the foreign key.
CreateReleaseTodo(j) ==
    /\ pc[j] = "todo"
    /\ \/ ~exists /\ Retry(j)
       \/ /\ exists
          /\ todos' = todos \cup {ReleaseOf[j]}
          /\ Goto(j, "list")
          /\ UNCHANGED <<config, runs, sent, toSend, attempts, skipped, changes>>
    /\ UNCHANGED faults

ListSourceSubscriptions(j) ==
    /\ pc[j] = "list"
    /\ toSend' = [toSend EXCEPT ![j] = subs]
    /\ Goto(j, "send")
    /\ UNCHANGED <<config, effects, attempts, skipped, faults, changes>>

\* Mutant: a send that failed is repeated, though it may have arrived.
SendRepeats(j) ==
    /\ pc[j] = "send"
    /\ \/ /\ toSend[j] = {}
          /\ Goto(j, "gate")
          /\ UNCHANGED <<sent, toSend>>
       \/ \E s \in toSend[j] :
            /\ s \in channels \cap Sendable
            /\ sent' = [sent EXCEPT ![j][s] = @ + 1]
            /\ \/ toSend' = [toSend EXCEPT ![j] = @ \ {s}]
               \/ sent[j][s] < 3 /\ UNCHANGED toSend
            /\ UNCHANGED pc
    /\ UNCHANGED <<config, todos, runs, attempts, skipped, faults, changes>>

\* The loop over the subscriptions as they were listed.  GetChannel fails for a
\* channel that is gone, an unknown type has no sender, and the error of a Send
\* is only logged (the channel may have got the message or not): the loop goes on.
Send(j) ==
    /\ pc[j] = "send"
    /\ \/ /\ toSend[j] = {}
          /\ Goto(j, "gate")
          /\ UNCHANGED <<sent, toSend, faults>>
       \/ \E s \in toSend[j] :
            /\ toSend' = [toSend EXCEPT ![j] = @ \ {s}]
            /\ \/ /\ s \in channels \cap Sendable
                  /\ sent' = [sent EXCEPT ![j][s] = @ + 1]
                  /\ UNCHANGED faults
               \/ s \notin channels \cap Sendable /\ UNCHANGED <<sent, faults>>
               \/ Fault /\ UNCHANGED sent
            /\ UNCHANGED pc
    /\ UNCHANGED <<config, todos, runs, attempts, skipped, changes>>

\* checkAgentRules: GetProject (the project outlives the source) and
\* HasReleaseGate.  Errors end the check, and the job completes all the same.
CheckGate(j) ==
    /\ pc[j] = "gate"
    /\ \/ /\ Goto(j, IF gate THEN "finish" ELSE "rules")
          /\ UNCHANGED faults
       \/ Fault /\ Goto(j, "finish")
    /\ UNCHANGED <<config, effects, toSend, attempts, skipped, changes>>

\* GetPreviousRelease and CheckAgentRules.  Whether a rule matches depends on the
\* newest other release of the source at this moment, which may be none.
CheckAgentRules(j) ==
    /\ pc[j] = "rules"
    /\ \/ ReleaseOf[j] \in Matching /\ Goto(j, "enqueue") /\ UNCHANGED faults
       \/ Goto(j, "finish") /\ UNCHANGED faults
       \/ Fault /\ Goto(j, "finish")
    /\ UNCHANGED <<config, effects, toSend, attempts, skipped, changes>>

\* Mutant: the call is repeated after an error, though it may have committed.
EnqueueAgentRunTwice(j) ==
    /\ pc[j] = "enqueue"
    /\ \E n \in 1..2 : runs' = [runs EXCEPT ![ReleaseOf[j]] = @ + n]
    /\ Goto(j, "finish")
    /\ UNCHANGED <<config, todos, sent, toSend, attempts, skipped, faults, changes>>

\* EnqueueAgentRun, one transaction; its error is logged.
EnqueueAgentRun(j) ==
    /\ pc[j] = "enqueue"
    /\ \/ runs' = [runs EXCEPT ![ReleaseOf[j]] = @ + 1] /\ UNCHANGED faults
       \/ Fault /\ UNCHANGED runs
    /\ Goto(j, "finish")
    /\ UNCHANGED <<config, todos, sent, toSend, attempts, skipped, changes>>

\* Work returned nil.
Complete(j) ==
    /\ pc[j] = "finish"
    /\ Goto(j, "done")
    /\ UNCHANGED <<config, effects, toSend, attempts, skipped, faults, changes>>
-----------------------------------------------------------------------------
(* The operator. *)

Change ==
    /\ changes < MaxChanges /\ changes' = changes + 1
    /\ UNCHANGED <<runs, sent, pc, toSend, attempts, skipped, faults>>

EditFilters ==
    /\ Change
    /\ \E f \in Filters \ {passing} : passing' = f
    /\ UNCHANGED <<exists, subs, channels, gate, todos>>

CreateSubscription(s) ==
    /\ Change
    /\ exists /\ s \in channels \ subs
    /\ subs' = subs \cup {s}
    /\ UNCHANGED <<exists, passing, channels, gate, todos>>

DeleteSubscription(s) ==
    /\ Change
    /\ s \in subs
    /\ subs' = subs \ {s}
    /\ UNCHANGED <<exists, passing, channels, gate, todos>>

\* The cascade takes the channel's subscriptions along.
DeleteChannel(s) ==
    /\ Change
    /\ s \in channels
    /\ channels' = channels \ {s}
    /\ subs' = subs \ {s}
    /\ UNCHANGED <<exists, passing, gate, todos>>

ToggleGate ==
    /\ Change
    /\ gate' = ~gate
    /\ UNCHANGED <<exists, passing, subs, channels, todos>>

\* The cascade takes releases, TODOs and subscriptions; jobs stay queued.
DeleteSource ==
    /\ Change
    /\ exists
    /\ exists' = FALSE
    /\ subs' = {}
    /\ todos' = {}
    /\ UNCHANGED <<passing, channels, gate>>
-----------------------------------------------------------------------------
JobStep(j) ==
    \/ Start(j) \/ Load(j) \/ CreateReleaseTodo(j) \/ ListSourceSubscriptions(j)
    \/ Send(j) \/ CheckGate(j) \/ CheckAgentRules(j) \/ EnqueueAgentRun(j)
    \/ Complete(j)

Next ==
    \/ \E j \in Job : JobStep(j) \/ Fail(j)
    \/ EditFilters \/ ToggleGate \/ DeleteSource
    \/ \E s \in Sub : CreateSubscription(s) \/ DeleteSubscription(s) \/ DeleteChannel(s)

Spec == Init /\ [][Next]_vars

\* River starts every queued job and every call of a worker returns (senders and
\* pool have timeouts).
FairSpec == Spec /\ \A j \in Job : WF_vars(JobStep(j))
-----------------------------------------------------------------------------
(* Properties *)

\* "This is idempotent and failing here makes River retry instead of silently
\* completing without the TODO side effect": a job that completed, and was not
\* filtered out, has left a TODO as long as its release exists.
CompletedHasTodo ==
    \A j \in Job : pc[j] = "done" /\ exists => j \in skipped \/ ReleaseOf[j] \in todos

\* Nobody is told of a release before its TODO exists.
TodoBeforeSend ==
    exists => \A j \in Job, s \in Sub : sent[j][s] > 0 => ReleaseOf[j] \in todos

\* A channel hears of one job at most once per attempt: a duplicate is the price
\* of a retry, never of the loop itself.
OnceOrRetried ==
    \A j \in Job, s \in Sub : sent[j][s] <= attempts[j]

\* The attempts of all jobs about a release.
AttemptsOn(r) ==
    LET about == {a \in Job \X (1..MaxAttempts) :
                    ReleaseOf[a[1]] = r /\ a[2] <= attempts[a[1]]}
    IN  Cardinality(about)

\* The rules start at most one agent run per attempt at a matching release, and
\* none for the others.
RunsWithinAttempts ==
    \A r \in Release : runs[r] <= IF r \in Matching THEN AttemptsOn(r) ELSE 0

\* Every job ends, and as long as the source is there and there are fewer faults
\* than attempts, it completes.
JobsComplete ==
    \A j \in Job : <>(pc[j] = "done" \/ (pc[j] = "discarded" /\ ~exists))
=============================================================================
