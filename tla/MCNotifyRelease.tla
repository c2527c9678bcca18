-------------------------- MODULE MCNotifyRelease --------------------------
(***************************************************************************)
(* Small instances of NotifyRelease.                                       *)
(***************************************************************************)
EXTENDS NotifyRelease, TLC

CONSTANTS new, upd, r1, r2, c1, c2

\* A release and its update.
MCReleaseOf == [j \in Job |-> r1]

\* The filters let everything pass, or reject r1.
MCFilters == {{r1, r2}, {r2}}
=============================================================================
