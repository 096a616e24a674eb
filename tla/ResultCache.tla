---------------------------- MODULE ResultCache ----------------------------
(***************************************************************************)
(* What the result cache promises to a pipeline and to whoever reads an    *)
(* entry: an entry appears whole, in one step, from the one pipeline that  *)
(* missed it; nobody replaces a readable entry; an entry goes only when it *)
(* is stale; and nothing but a power cut makes one unreadable.             *)
(*                                                                         *)
(* CacheStore shows that the files of pipeline/cache.py, beside the purge  *)
(* of pipeline/cleanup.py, implement this specification.                   *)
(***************************************************************************)
CONSTANT Keys           \* (user, hash of the audio)

VARIABLES
    entry,              \* what a reader finds under a key
    stale,              \* keys whose entry may be dropped
    job                 \* the key a pipeline has missed and may store: one or none

cacheVars == <<entry, stale, job>>

CacheInit ==
    /\ entry = [k \in Keys |-> "none"]
    /\ stale = {}
    /\ job = {}

\* A pipeline finds no readable entry and sets out to compute it.  (One that
\* finds an entry reads it and leaves: a stutter.)
Miss(k) ==
    /\ job = {} /\ entry[k] # "whole"
    /\ job' = {k}
    /\ UNCHANGED <<entry, stale>>

\* It stores what it computed.  A fresh entry in the place of an unreadable one
\* stays droppable: the purge may already have made up its mind about that one.
Store(k) ==
    /\ job = {k} /\ entry[k] # "whole"
    /\ entry' = [entry EXCEPT ![k] = "whole"]
    /\ stale' = IF entry[k] = "corrupt" THEN stale \cup {k} ELSE stale \ {k}
    /\ job' = {}

GiveUp ==
    /\ job' = {}
    /\ UNCHANGED <<entry, stale>>

\* An entry passes its TTL, and may then be dropped, readable or not, while a
\* pipeline is at work or not.
Age(k) ==
    /\ entry[k] # "none"
    /\ stale' = stale \cup {k}
    /\ UNCHANGED <<entry, job>>

Drop(k) ==
    /\ entry[k] # "none" /\ k \in stale
    /\ entry' = [entry EXCEPT ![k] = "none"]
    /\ stale' = stale \ {k}
    /\ UNCHANGED job

\* The process dies with its pipeline, and entries may lose their contents.
PowerCut ==
    /\ \E lost \in SUBSET {k \in Keys : entry[k] = "whole"} :
          entry' = [k \in Keys |-> IF k \in lost THEN "corrupt" ELSE entry[k]]
    /\ job' = {}
    /\ UNCHANGED stale

CacheNext ==
    \/ \E k \in Keys : Miss(k) \/ Store(k) \/ Age(k) \/ Drop(k)
    \/ GiveUp \/ PowerCut

CacheSpec == CacheInit /\ [][CacheNext]_cacheVars

(***************************************************************************)
(* Nobody computes an entry that a reader could have.                      *)
(***************************************************************************)
OnlyMissesAreComputed == \A k \in job : entry[k] # "whole"
=============================================================================
