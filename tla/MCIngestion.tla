---------------------------- MODULE MCIngestion ----------------------------
(***************************************************************************)
(* Small instances of Ingestion.                                           *)
(***************************************************************************)
EXTENDS Ingestion, TLC

CONSTANTS s1, s2, v1, v2, t1, t2, q1, q2
=============================================================================
