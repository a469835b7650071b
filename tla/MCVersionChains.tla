--------------------------- MODULE MCVersionChains ---------------------------
(* Instances of VersionChains.                                             *)
EXTENDS VersionChains, TLC

CONSTANTS k1, k2, r1, r2

OneKey == {k1}
TwoKeys == {k1, k2}
OneReader == {r1}
TwoReaders == {r1, r2}

(* Readers only: a flush takes the keys in their order.                    *)
Symmetry == Permutations(TwoReaders)
=============================================================================
