------------------------- MODULE MCWalBatchPipeline -------------------------
(* Two clients give the worker and another drainer a batch each, three also *)
(* one of two jobs; one session commits.                                    *)
EXTENDS WalBatchPipeline, TLC

CONSTANTS c1, c2, c3, k1, s1, record, worker, maintenance

TwoClients == {c1, c2}
ThreeClients == {c1, c2, c3}
OneKey == {k1}
OneSession == {s1}
NoSession == {}
=============================================================================
