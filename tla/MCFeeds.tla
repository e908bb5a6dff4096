------------------------------ MODULE MCFeeds ------------------------------
(* An instance of Feeds for TLC.                                             *)
EXTENDS Feeds, TLC

CONSTANTS r1, r2, r3, editor, publisher, erp, shop, a, b, i1

MCRecordId == {r1, r2, r3}
MCWriter == {editor, publisher}
MCPublisher == {publisher}

\* Two unique attributes, so that a row found by one can collide in the other.
MCColumn == {"key", "code"}
MCValue == {a, b}
MCPlain == [key |-> a, code |-> b]
MCOther == [key |-> b, code |-> a]
MCCollision == [key |-> a, code |-> a]
MCBody == {MCPlain}
MCBroken == {MCCollision}

\* One system always sends ids, the other none, or an empty one.
MCSource == {erp, shop}
MCPush == {<<erp, i1>>, <<shop, Null>>, <<shop, Emptied>>}
MCPushBody == {MCPlain, [key |-> b]}
MCFile == {<<MCPlain>>, <<MCPlain, MCOther>>, <<MCCollision, MCOther>>}
MCImportSource == {shop}
MCUpsertKey == {Null, "key"}

Symmetry == Permutations(MCRecordId)
=============================================================================
