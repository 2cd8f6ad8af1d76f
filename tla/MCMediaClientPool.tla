-------------------------- MODULE MCMediaClientPool --------------------------
(* An instance of MediaClientPool for TLC. *)
EXTENDS MediaClientPool, TLC

CONSTANTS t1, t2, t3, c1, c2

ThreeThreads == {t1, t2, t3}
TwoClients == {c1, c2}
=============================================================================
