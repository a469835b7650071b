--------------------------- MODULE MCTransactions ---------------------------
(* Two sessions on one key, as in the tests.                               *)
EXTENDS Transactions, TLC

CONSTANTS k1, s1, s2

OneKey == {k1}
OneSession == {s1}
TwoSessions == {s1, s2}

Symmetry == Permutations(TwoSessions)
=============================================================================
