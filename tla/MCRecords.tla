----------------------------- MODULE MCRecords -----------------------------
(* Instances of Records for TLC.                                             *)
EXTENDS Records, TLC

CONSTANTS r1, r2, r3, editor, publisher, a, b

MCRecordId == {r1, r2, r3}

\* One unique, required attribute, of which a soft rule rejects one value.
MCColumn == {"key"}
MCValue == {a, b}
MCBody == [MCColumn -> {a, b}]
MCBroken == {[c \in MCColumn |-> b]}
MCWriter == {editor, publisher}
MCPublisher == {publisher}

\* A second attribute, and bodies that set one of the two: the key may be NULL,
\* and the rule rejects a note on a record without a key (forbidden_if_absent).
MCTwoColumn == {"key", "note"}
MCKeyColumn == {"key"}
MCPartialBody == {[key |-> a], [note |-> b]}
MCNoteWithoutKey == {d \in [MCTwoColumn -> {a, b, Null}] : d["key"] = Null /\ d["note"] # Null}

Symmetry == Permutations(MCRecordId)
=============================================================================
