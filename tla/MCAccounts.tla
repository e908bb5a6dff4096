----------------------------- MODULE MCAccounts -----------------------------
(* Instances of Accounts for TLC. *)
EXTENDS Accounts, TLC

CONSTANTS root, ann, s1, s2, t1, w1, w2

MCUser == {root, ann}
MCSession == {s1, s2}
MCOneToken == {t1}
MCSlot == {w1, w2}
MCOneSlot == {w1}

MCFlag == {TRUE, FALSE, Absent}
MCNoRole == {}
MCRole == {[read |-> FALSE, write |-> FALSE, publish |-> TRUE]}

MCSymmetry == Permutations(MCSession) \cup Permutations(MCSlot)
=============================================================================
