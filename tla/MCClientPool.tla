---------------------------- MODULE MCClientPool ----------------------------
(* Instances of ClientPool for TLC. *)
EXTENDS ClientPool, TLC

CONSTANTS t1, t2, t3, t4, c1, c2, c3

FourThreads == {t1, t2, t3, t4}
ThreeClients == {c1, c2, c3}
=============================================================================
