------------------------------ MODULE CacheStore ------------------------------
(***************************************************************************)
(* The result cache on disk: <base>/<user>/<hash>/result.json.  The        *)
(* pipeline that holds the GPU lock looks an entry up and, after a miss,   *)
(* puts one (get and put of pipeline/cache.py, called on the event loop).  *)
(* purge_expired of pipeline/cleanup.py walks the same tree in a worker    *)
(* thread.  Nothing orders the two: an action is one system call.          *)
(*                                                                         *)
(* A pipeline takes minutes between its lookup and its put, a purge may    *)
(* stop between any two calls, and the process may die.  CacheStore.delete *)
(* has no caller and is left out.                                          *)
(***************************************************************************)
EXTENDS Naturals

CONSTANTS Keys,         \* (user, hash of the audio)
          Users,
          User,         \* whose key it is
          MaxCrashes

ASSUME CacheAssumption ==
    /\ User \in [Keys -> Users]
    /\ MaxCrashes \in Nat

VARIABLES
    file,       \* result.json of a key
    tmp,        \* its result.json.tmp
    old,        \* keys whose result.json is past the TTL
    keyDir,     \* keys that have a directory
    userDir,    \* users that have one
    at,         \* where the pipeline is
    key,        \* the key it works on
    purge,      \* where the purge is
    todo,       \* what it has listed and not looked at yet
    victim,     \* what it looks at
    mended,     \* keys whose unreadable entry was replaced by a put
    crashes

vars == <<file, tmp, old, keyDir, userDir, at, key, purge, todo, victim, mended, crashes>>

\* Where a pipeline is between its miss and its rename.
Putting == {"missed", "noparent", "parent", "made", "writing", "written"}

disk == <<file, tmp, old, keyDir, userDir, mended>>
job == <<at, key>>
sweep == <<purge, todo, victim>>

TypeOK ==
    /\ file \in [Keys -> {"none", "whole", "corrupt"}]
    /\ tmp \in [Keys -> {"none", "partial", "whole"}]
    /\ old \in SUBSET Keys /\ mended \in SUBSET Keys
    /\ keyDir \in SUBSET Keys /\ userDir \in SUBSET Users
    /\ at \in {"idle", "found", "missed", "noparent", "parent", "made", "writing", "written"}
    /\ key \in Keys
    /\ purge \in {"asleep", "walking", "judged", "unlinked", "emptied"}
    /\ todo \in SUBSET Keys
    /\ victim \in Keys
    /\ crashes \in 0..MaxCrashes

Init ==
    /\ file = [k \in Keys |-> "none"]
    /\ tmp = [k \in Keys |-> "none"]
    /\ old = {} /\ mended = {}
    /\ keyDir = {} /\ userDir = {}
    /\ at = "idle" /\ key \in Keys
    /\ purge = "asleep" /\ todo = {} /\ victim \in Keys
    /\ crashes = 0

-----------------------------------------------------------------------------
(* get *)

\* is_file().
LookUp(k) ==
    /\ at = "idle"
    /\ key' = k
    /\ at' = IF file[k] = "none" THEN "missed" ELSE "found"
    /\ UNCHANGED <<disk, sweep, crashes>>

\* A get that takes an entry past its TTL for a miss.
ReadsTtl ==
    /\ at = "found"
    /\ at' = IF file[key] = "whole" /\ key \notin old THEN "idle" ELSE "missed"
    /\ UNCHANGED <<disk, key, sweep, crashes>>

\* read_text() and json.loads(): a file that is gone by now, or that does not
\* parse, is a miss.
Reads ==
    /\ at = "found"
    /\ at' = IF file[key] = "whole" THEN "idle" ELSE "missed"
    /\ UNCHANGED <<disk, key, sweep, crashes>>

\* The stages after a miss fail, time out or are cancelled.
GivesUp ==
    /\ at = "missed"
    /\ at' = "idle"
    /\ UNCHANGED <<disk, key, sweep, crashes>>

-----------------------------------------------------------------------------
(* put *)

\* mkdir(parents=True, exist_ok=True) tries the directory of the key first.
MakesKeyDir ==
    /\ at = "missed"
    /\ IF User[key] \in userDir
       THEN keyDir' = keyDir \cup {key} /\ at' = "made"
       ELSE UNCHANGED keyDir /\ at' = "noparent"
    /\ UNCHANGED <<file, tmp, old, userDir, mended, key, sweep, crashes>>

MakesUserDir ==
    /\ at = "noparent"
    /\ userDir' = userDir \cup {User[key]}
    /\ at' = "parent"
    /\ UNCHANGED <<file, tmp, old, keyDir, mended, key, sweep, crashes>>

\* The second attempt does not look for a missing parent again.
MakesKeyDirAgain ==
    /\ at = "parent"
    /\ IF User[key] \in userDir
       THEN keyDir' = keyDir \cup {key} /\ at' = "made"
       ELSE UNCHANGED keyDir /\ at' = "idle"
    /\ UNCHANGED <<file, tmp, old, userDir, mended, key, sweep, crashes>>

\* A put that writes into result.json itself.
OpensInPlace ==
    /\ at = "made"
    /\ IF key \in keyDir
       THEN /\ tmp' = [tmp EXCEPT ![key] = "partial"]
            /\ file' = [file EXCEPT ![key] = "corrupt"]
            /\ at' = "writing"
       ELSE UNCHANGED <<tmp, file>> /\ at' = "idle"
    /\ UNCHANGED <<old, keyDir, userDir, mended, key, sweep, crashes>>

\* write_text() opens the file, which needs the directory of the key.
OpensTmp ==
    /\ at = "made"
    /\ IF key \in keyDir
       THEN tmp' = [tmp EXCEPT ![key] = "partial"] /\ at' = "writing"
       ELSE UNCHANGED tmp /\ at' = "idle"
    /\ UNCHANGED <<file, old, keyDir, userDir, mended, key, sweep, crashes>>

WritesTmp ==
    /\ at = "writing"
    /\ tmp' = [tmp EXCEPT ![key] = "whole"]
    /\ at' = "written"
    /\ UNCHANGED <<file, old, keyDir, userDir, mended, key, sweep, crashes>>

Replaces ==
    /\ at = "written"
    /\ file' = [file EXCEPT ![key] = tmp[key]]
    /\ tmp' = [tmp EXCEPT ![key] = "none"]
    /\ old' = old \ {key}
    /\ mended' = IF file[key] = "corrupt" THEN mended \cup {key} ELSE mended \ {key}
    /\ at' = "idle"
    /\ UNCHANGED <<keyDir, userDir, key, sweep, crashes>>

\* OSError of any of these calls: the request fails and .tmp stays.
PutFails ==
    /\ at \in Putting
    /\ at' = "idle"
    /\ UNCHANGED <<disk, key, sweep, crashes>>

-----------------------------------------------------------------------------
(* purge_expired, called by _cleanup_loop *)

\* A walk that lists what the cache can read.
PurgeListsReadable ==
    /\ purge = "asleep"
    /\ todo' = {k \in Keys : file[k] = "whole"}
    /\ purge' = "walking"
    /\ UNCHANGED <<disk, job, victim, crashes>>

PurgeLists ==
    /\ purge = "asleep"
    /\ todo' = {k \in Keys : file[k] # "none"}
    /\ purge' = "walking"
    /\ UNCHANGED <<disk, job, victim, crashes>>

\* stat(): gone, denied or within its TTL; or past it.
PurgeSkips(k) ==
    /\ purge = "walking" /\ k \in todo
    /\ todo' = todo \ {k}
    /\ UNCHANGED <<disk, job, purge, victim, crashes>>

PurgeJudges(k) ==
    /\ purge = "walking" /\ k \in todo
    /\ file[k] # "none" /\ k \in old
    /\ todo' = todo \ {k}
    /\ victim' = k
    /\ purge' = "judged"
    /\ UNCHANGED <<disk, job, crashes>>

PurgeUnlinks ==
    /\ purge = "judged" /\ file[victim] # "none"
    /\ file' = [file EXCEPT ![victim] = "none"]
    /\ old' = old \ {victim}
    /\ mended' = mended \ {victim}
    /\ purge' = "unlinked"
    /\ UNCHANGED <<tmp, keyDir, userDir, job, todo, victim, crashes>>

\* unlink() that finds nothing, or is denied.
PurgeMisses ==
    /\ purge = "judged"
    /\ purge' = "walking"
    /\ UNCHANGED <<disk, job, todo, victim, crashes>>

\* An rmtree in its place takes what is in the directory along.
PurgeTakesAll ==
    /\ purge = "unlinked"
    /\ keyDir' = keyDir \ {victim}
    /\ file' = [file EXCEPT ![victim] = "none"]
    /\ tmp' = [tmp EXCEPT ![victim] = "none"]
    /\ old' = old \ {victim}
    /\ mended' = mended \ {victim}
    /\ purge' = "emptied"
    /\ UNCHANGED <<userDir, job, todo, victim, crashes>>

\* _safe_rmdir of the directory of the key: only when it is empty.
PurgeEmpties ==
    /\ purge = "unlinked"
    /\ keyDir' = IF file[victim] = "none" /\ tmp[victim] = "none"
                 THEN keyDir \ {victim} ELSE keyDir
    /\ purge' = "emptied"
    /\ UNCHANGED <<file, tmp, old, userDir, mended, job, todo, victim, crashes>>

\* _safe_rmdir of the user's directory.
PurgeLeavesUser ==
    /\ purge = "emptied"
    /\ userDir' = IF \E k \in keyDir : User[k] = User[victim]
                  THEN userDir ELSE userDir \ {User[victim]}
    /\ purge' = "walking"
    /\ UNCHANGED <<file, tmp, old, keyDir, mended, job, todo, victim, crashes>>

PurgeEnds ==
    /\ purge = "walking" /\ todo = {}
    /\ purge' = "asleep"
    /\ UNCHANGED <<disk, job, todo, victim, crashes>>

\* Any other error ends the walk; the loop logs it and goes round again.
PurgeFails ==
    /\ purge # "asleep"
    /\ purge' = "asleep" /\ todo' = {}
    /\ UNCHANGED <<disk, job, victim, crashes>>

-----------------------------------------------------------------------------
Ages(k) ==
    /\ file[k] # "none" /\ k \notin old
    /\ old' = old \cup {k}
    /\ UNCHANGED <<file, tmp, keyDir, userDir, mended, job, sweep, crashes>>

\* The process dies.  A power cut may cost the contents of files that were
\* renamed into place but never flushed.
Crash ==
    /\ crashes < MaxCrashes
    /\ crashes' = crashes + 1
    /\ \E lost \in SUBSET {k \in Keys : file[k] = "whole"} :
          file' = [k \in Keys |-> IF k \in lost THEN "corrupt" ELSE file[k]]
    /\ at' = "idle"
    /\ purge' = "asleep" /\ todo' = {}
    /\ UNCHANGED <<tmp, old, keyDir, userDir, mended, key, victim>>

-----------------------------------------------------------------------------
Put == \/ MakesKeyDir \/ MakesUserDir \/ MakesKeyDirAgain
       \/ OpensTmp \/ WritesTmp \/ Replaces \/ PutFails

Purge == \/ PurgeLists
         \/ \E k \in Keys : PurgeSkips(k) \/ PurgeJudges(k)
         \/ PurgeUnlinks \/ PurgeMisses \/ PurgeEmpties \/ PurgeLeavesUser
         \/ PurgeEnds \/ PurgeFails

Next ==
    \/ \E k \in Keys : LookUp(k) \/ Ages(k)
    \/ Reads \/ GivesUp \/ Put \/ Purge \/ Crash

\* The loop goes round.  Strong fairness of a stat and of an unlink says that
\* the disk does not refuse or fail the same entry on every round.
Fairness ==
    /\ WF_vars(PurgeLists) /\ WF_vars(PurgeEmpties) /\ WF_vars(PurgeLeavesUser)
    /\ WF_vars(PurgeEnds) /\ WF_vars(\E k \in Keys : PurgeSkips(k))
    /\ \A k \in Keys : SF_vars(PurgeJudges(k)) /\ SF_vars(PurgeUnlinks /\ victim = k)

Spec == Init /\ [][Next]_vars /\ Fairness

-----------------------------------------------------------------------------
(* Properties *)

\* The purge removes entries past their TTL only, although put may replace an
\* entry between the stat that judges it and the unlink: a put follows a lookup
\* that found no readable entry, and both are one pipeline's under the GPU lock.
\* The one exception is an unreadable entry that was mended in between.
PurgeSparesFresh ==
    [][\A k \in Keys :
          /\ file[k] # "none" /\ file'[k] = "none"
          => k \in old \/ k \in mended]_vars

\* mkdir(parents=True) makes the user's directory, then the key's.  The purge,
\* which removes empty directories of users, never comes between.
ParentStays ==
    at = "parent" => User[key] \in userDir

\* No rmdir takes the directory under a file that is being written: once
\* write_text has its file open, the put can only fail by the disk's fault.
OpenFileHasItsDirectory ==
    at \in {"writing", "written"} => key \in keyDir /\ tmp[key] # "none"

\* The files implement ResultCache: of all the calls only the rename, the unlink
\* and a power cut are seen under result.json, each as one step, and what the
\* purge may take is what is old, or was unreadable when it was judged.
Entries == INSTANCE ResultCache WITH
    entry <- file,
    stale <- old \cup mended,
    job   <- IF at \in Putting THEN {key} ELSE {}

ImplementsResultCache == Entries!CacheSpec

\* A reader, and whoever comes after a crash, finds under result.json a whole
\* entry or one a power cut has spoilt, never one that is still being written.
NoHalfEntry ==
    \A k \in Keys : file[k] = "corrupt" => crashes > 0

\* An entry past its TTL goes in the end, over failed walks and crashes, unless
\* a put renews it.
ExpiredIsPurged ==
    \A k \in Keys : (file[k] # "none" /\ k \in old) ~> (k \notin old)

=============================================================================
