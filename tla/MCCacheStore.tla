---------------------------- MODULE MCCacheStore ----------------------------
(* Two entries of one user: what is shared is the user's directory.         *)
EXTENDS CacheStore

CONSTANT u1

MCUser == [k \in Keys |-> u1]
=============================================================================
