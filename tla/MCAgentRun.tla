---------------------------- MODULE MCAgentRun ----------------------------
(***************************************************************************)
(* Small instances of AgentRun.                                            *)
(***************************************************************************)
EXTENDS AgentRun, TLC

CONSTANTS a, b, v1, s1, s2

\* Two runs on one version, as when a release is ingested and then updated.
MCSame == [r \in Run |-> v1]

\* A run started for a version and one started by hand without.
MCManual == [r \in Run |-> IF r = a THEN v1 ELSE NoVersion]
=============================================================================
