---------------------------- MODULE GateContract ----------------------------
(***************************************************************************)
(* What a release gate promises, whoever opens it: the life of one         *)
(* version_readiness row per version and of the agent run it stands for.   *)
(* internal/gate/store.go states it in pieces ("Only transitions from      *)
(* 'pending'. Returns false if already transitioned.").                    *)
(***************************************************************************)
EXTENDS Naturals

CONSTANT Version

VARIABLES
    state,      \* per version: none, pending, ready, timed_out
    runs        \* per version: agent runs enqueued for it

vars == <<state, runs>>

Init ==
    /\ state = [v \in Version |-> "none"]
    /\ runs = [v \in Version |-> 0]

\* The first source reports the version.
Track(v) ==
    /\ state[v] = "none"
    /\ state' = [state EXCEPT ![v] = "pending"]
    /\ UNCHANGED runs

\* The gate opens, once, in one of its two ways.
Open(v) ==
    /\ state[v] = "pending"
    /\ \E how \in {"ready", "timed_out"} : state' = [state EXCEPT ![v] = how]
    /\ UNCHANGED runs

\* An opened gate sets off its one agent run.
Trigger(v) ==
    /\ state[v] \in {"ready", "timed_out"}
    /\ runs[v] = 0
    /\ runs' = [runs EXCEPT ![v] = 1]
    /\ UNCHANGED state

Next == \E v \in Version : Track(v) \/ Open(v) \/ Trigger(v)

Spec == Init /\ [][Next]_vars
=============================================================================
