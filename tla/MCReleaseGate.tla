--------------------------- MODULE MCReleaseGate ---------------------------
(***************************************************************************)
(* Small instances of ReleaseGate.                                         *)
(***************************************************************************)
EXTENDS ReleaseGate, TLC

CONSTANTS a, b, v1, v2, ra, rb, rb2

\* a and b publish one release each; b tags its release twice ("v1.0", "1.0").
MCSourceOf == [r \in Release |-> IF r = ra THEN a ELSE b]

\* All raw versions are normalized to v1, or (with another mapping) b's
\* second tag counts as a version of its own.
SameVersion  == [r \in Release |-> v1]
OtherVersion == [r \in Release |-> IF r = rb2 THEN v2 ELSE v1]

Gate(required, mapping, rule) ==
    [enabled |-> TRUE, required |-> required, mapping |-> mapping, nl |-> rule]
Disabled(c) == [c EXCEPT !.enabled = FALSE]

MCOneMapping  == {SameVersion}
MCTwoMappings == {SameVersion, OtherVersion}

\* Configurations that stay as they are.
MCNone        == {}
MCPlainOrRule == {Gate({}, SameVersion, rule) : rule \in {"empty", "rule"}}
MCTwoVersions == {Gate({b}, OtherVersion, rule) : rule \in {"empty", "rule"}}

\* What RunMigrations stores for a project with wait_for_all_sources.
MCMigrated    == {Gate({}, SameVersion, "null")}

\* Edits: the requirement shrinks and grows, the NL rule comes and goes, the
\* mapping changes, the gate is switched off; the start may have no gate.
MCEdits == {Gate({a}, SameVersion, "empty"), Gate({a, b}, OtherVersion, "rule"),
            Disabled(Gate({}, SameVersion, "empty"))}
MCEditStart == {NoGate, Gate({}, SameVersion, "empty"), Gate({b}, SameVersion, "rule")}
=============================================================================
