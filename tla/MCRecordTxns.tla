---------------------------- MODULE MCRecordTxns ----------------------------
(* Instances of RecordTxns for TLC: one unique, required attribute. The       *)
(* deeper the interleaving a run is about, the fewer endpoints it enables.    *)
EXTENDS RecordTxns, TLC

CONSTANTS r1, r2, editor, publisher, a, b, w1, w2

MCTwoRecords == {r1, r2}
MCColumn == {"key"}
MCValue == {a, b}
MCBody == [MCColumn -> {a, b}]
MCBroken == {[c \in MCColumn |-> b]}
MCBoth == {editor, publisher}
MCPublisher == {publisher}
MCWorker == {w1, w2}

MCSymmetry == Permutations(MCTwoRecords) \cup Permutations(MCWorker)
=============================================================================
