--------------------------- MODULE CacheStoreProofs ---------------------------
(***************************************************************************)
(* Proofs about CacheStore for any set of keys and users and any number of *)
(* crashes.  The inductive invariant IInv says, beside the types, what a   *)
(* put may rely on from its lookup on (PutOK), what the purge may rely on  *)
(* between its stat and its unlink (JudgeOK), and that the directories     *)
(* form a tree (TreeOK).  From it follows that CacheStore implements       *)
(* ResultCache, whose steps are the miss, the rename and the unlink.       *)
(***************************************************************************)
EXTENDS CacheStore, TLAPS

USE DEF vars, disk, job, sweep

\* Between its miss and its rename a pipeline's key has no readable entry, as
\* nobody else puts; the file it writes stays where it is.
PutOK ==
    /\ at \in Putting => file[key] # "whole"
    /\ OpenFileHasItsDirectory
    /\ at = "written" => tmp[key] = "whole"

\* What was judged old is still there, and old unless a put has mended it.
JudgeOK ==
    purge = "judged" =>
        /\ file[victim] # "none"
        /\ victim \in old \/ victim \in mended

\* A directory is there while something lies in it, the user's of the entry
\* that is being purged too.  A user found without a directory has nothing.
TreeOK ==
    /\ \A k \in Keys : file[k] # "none" \/ tmp[k] # "none" => k \in keyDir
    /\ \A k \in keyDir : User[k] \in userDir
    /\ purge \in {"unlinked", "emptied"} => User[victim] \in userDir
    /\ at \in {"noparent", "parent"} => \A k \in keyDir : User[k] # User[key]
    /\ at = "noparent" => User[key] \notin userDir
    /\ at = "parent" =>
          /\ User[key] \in userDir
          /\ purge \in {"unlinked", "emptied"} => User[victim] # User[key]

IInv == TypeOK /\ PutOK /\ JudgeOK /\ TreeOK

-----------------------------------------------------------------------------
\* Every action keeps every variable in its type.
LEMMA TypeStep ==
    ASSUME TypeOK, PutOK, [Next]_vars
    PROVE  TypeOK'
<1> USE CacheAssumption DEF TypeOK, PutOK
<1>1. ASSUME NEW k \in Keys, LookUp(k) PROVE TypeOK'
  BY <1>1 DEF LookUp
<1>2. ASSUME NEW k \in Keys, Ages(k) PROVE TypeOK'
  BY <1>2 DEF Ages
<1>3. CASE Reads
  BY <1>3 DEF Reads
<1>4. CASE GivesUp
  BY <1>4 DEF GivesUp
<1>5. CASE MakesKeyDir
  BY <1>5 DEF MakesKeyDir
<1>6. CASE MakesUserDir
  BY <1>6 DEF MakesUserDir
<1>7. CASE MakesKeyDirAgain
  BY <1>7 DEF MakesKeyDirAgain
<1>8. CASE OpensTmp
  BY <1>8 DEF OpensTmp
<1>9. CASE WritesTmp
  BY <1>9 DEF WritesTmp
<1>10. CASE Replaces
  BY <1>10 DEF Replaces
<1>11. CASE PutFails
  BY <1>11 DEF PutFails, Putting
<1>12. CASE PurgeLists
  BY <1>12 DEF PurgeLists
<1>13. ASSUME NEW k \in Keys, PurgeSkips(k) PROVE TypeOK'
  BY <1>13 DEF PurgeSkips
<1>14. ASSUME NEW k \in Keys, PurgeJudges(k) PROVE TypeOK'
  BY <1>14 DEF PurgeJudges
<1>15. CASE PurgeUnlinks
  BY <1>15 DEF PurgeUnlinks
<1>16. CASE PurgeMisses
  BY <1>16 DEF PurgeMisses
<1>17. CASE PurgeEmpties
  BY <1>17 DEF PurgeEmpties
<1>18. CASE PurgeLeavesUser
  BY <1>18 DEF PurgeLeavesUser
<1>19. CASE PurgeEnds
  BY <1>19 DEF PurgeEnds
<1>20. CASE PurgeFails
  BY <1>20 DEF PurgeFails
<1>21. CASE Crash
  BY <1>21 DEF Crash
<1>22. CASE UNCHANGED vars
  BY <1>22
<1> QED
  BY <1>1, <1>2, <1>3, <1>4, <1>5, <1>6, <1>7, <1>8, <1>9, <1>10, <1>11, <1>12,
     <1>13, <1>14, <1>15, <1>16, <1>17, <1>18, <1>19, <1>20, <1>21, <1>22
     DEF Next, Put, Purge

\* No other action gives the key of a waiting put an entry, or takes its file.
LEMMA PutStep ==
    ASSUME TypeOK, TreeOK, PutOK, [Next]_vars
    PROVE  PutOK'
<1> USE CacheAssumption DEF TypeOK, TreeOK, PutOK, OpenFileHasItsDirectory, Putting
<1>1. ASSUME NEW k \in Keys, LookUp(k) PROVE PutOK'
  BY <1>1 DEF LookUp
<1>2. ASSUME NEW k \in Keys, Ages(k) PROVE PutOK'
  BY <1>2 DEF Ages
<1>3. CASE Reads
  BY <1>3 DEF Reads
<1>4. CASE GivesUp
  BY <1>4 DEF GivesUp
<1>5. CASE MakesKeyDir
  BY <1>5 DEF MakesKeyDir
<1>6. CASE MakesUserDir
  BY <1>6 DEF MakesUserDir
<1>7. CASE MakesKeyDirAgain
  BY <1>7 DEF MakesKeyDirAgain
<1>8. CASE OpensTmp
  BY <1>8 DEF OpensTmp
<1>9. CASE WritesTmp
  BY <1>9 DEF WritesTmp
<1>10. CASE Replaces
  BY <1>10 DEF Replaces
<1>11. CASE PutFails
  BY <1>11 DEF PutFails, Putting
<1>12. CASE PurgeLists
  BY <1>12 DEF PurgeLists
<1>13. ASSUME NEW k \in Keys, PurgeSkips(k) PROVE PutOK'
  BY <1>13 DEF PurgeSkips
<1>14. ASSUME NEW k \in Keys, PurgeJudges(k) PROVE PutOK'
  BY <1>14 DEF PurgeJudges
<1>15. CASE PurgeUnlinks
  BY <1>15 DEF PurgeUnlinks
<1>16. CASE PurgeMisses
  BY <1>16 DEF PurgeMisses
<1>17. CASE PurgeEmpties
  BY <1>17 DEF PurgeEmpties
<1>18. CASE PurgeLeavesUser
  BY <1>18 DEF PurgeLeavesUser
<1>19. CASE PurgeEnds
  BY <1>19 DEF PurgeEnds
<1>20. CASE PurgeFails
  BY <1>20 DEF PurgeFails
<1>21. CASE Crash
  BY <1>21 DEF Crash
<1>22. CASE UNCHANGED vars
  BY <1>22
<1> QED
  BY <1>1, <1>2, <1>3, <1>4, <1>5, <1>6, <1>7, <1>8, <1>9, <1>10, <1>11, <1>12,
     <1>13, <1>14, <1>15, <1>16, <1>17, <1>18, <1>19, <1>20, <1>21, <1>22
     DEF Next, Put, Purge

\* Only a put meets the entry the purge has judged, and only a spoilt one.
LEMMA JudgeStep ==
    ASSUME TypeOK, PutOK, JudgeOK, [Next]_vars
    PROVE  JudgeOK'
<1> USE CacheAssumption DEF TypeOK, PutOK, JudgeOK, Putting
<1>1. ASSUME NEW k \in Keys, LookUp(k) PROVE JudgeOK'
  BY <1>1 DEF LookUp
<1>2. ASSUME NEW k \in Keys, Ages(k) PROVE JudgeOK'
  BY <1>2 DEF Ages
<1>3. CASE Reads
  BY <1>3 DEF Reads
<1>4. CASE GivesUp
  BY <1>4 DEF GivesUp
<1>5. CASE MakesKeyDir
  BY <1>5 DEF MakesKeyDir
<1>6. CASE MakesUserDir
  BY <1>6 DEF MakesUserDir
<1>7. CASE MakesKeyDirAgain
  BY <1>7 DEF MakesKeyDirAgain
<1>8. CASE OpensTmp
  BY <1>8 DEF OpensTmp
<1>9. CASE WritesTmp
  BY <1>9 DEF WritesTmp
<1>10. CASE Replaces
  BY <1>10 DEF Replaces
<1>11. CASE PutFails
  BY <1>11 DEF PutFails, Putting
<1>12. CASE PurgeLists
  BY <1>12 DEF PurgeLists
<1>13. ASSUME NEW k \in Keys, PurgeSkips(k) PROVE JudgeOK'
  BY <1>13 DEF PurgeSkips
<1>14. ASSUME NEW k \in Keys, PurgeJudges(k) PROVE JudgeOK'
  BY <1>14 DEF PurgeJudges
<1>15. CASE PurgeUnlinks
  BY <1>15 DEF PurgeUnlinks
<1>16. CASE PurgeMisses
  BY <1>16 DEF PurgeMisses
<1>17. CASE PurgeEmpties
  BY <1>17 DEF PurgeEmpties
<1>18. CASE PurgeLeavesUser
  BY <1>18 DEF PurgeLeavesUser
<1>19. CASE PurgeEnds
  BY <1>19 DEF PurgeEnds
<1>20. CASE PurgeFails
  BY <1>20 DEF PurgeFails
<1>21. CASE Crash
  BY <1>21 DEF Crash
<1>22. CASE UNCHANGED vars
  BY <1>22
<1> QED
  BY <1>1, <1>2, <1>3, <1>4, <1>5, <1>6, <1>7, <1>8, <1>9, <1>10, <1>11, <1>12,
     <1>13, <1>14, <1>15, <1>16, <1>17, <1>18, <1>19, <1>20, <1>21, <1>22
     DEF Next, Put, Purge

\* mkdir and rmdir of both sides keep the tree.
LEMMA TreeStep ==
    ASSUME TypeOK, PutOK, JudgeOK, TreeOK, [Next]_vars
    PROVE  TreeOK'
<1> USE CacheAssumption DEF TypeOK, PutOK, JudgeOK, TreeOK, OpenFileHasItsDirectory
<1>1. ASSUME NEW k \in Keys, LookUp(k) PROVE TreeOK'
  BY <1>1 DEF LookUp
<1>2. ASSUME NEW k \in Keys, Ages(k) PROVE TreeOK'
  BY <1>2 DEF Ages
<1>3. CASE Reads
  BY <1>3 DEF Reads
<1>4. CASE GivesUp
  BY <1>4 DEF GivesUp
<1>5. CASE MakesKeyDir
  BY <1>5 DEF MakesKeyDir
<1>6. CASE MakesUserDir
  BY <1>6 DEF MakesUserDir
<1>7. CASE MakesKeyDirAgain
  BY <1>7 DEF MakesKeyDirAgain
<1>8. CASE OpensTmp
  BY <1>8 DEF OpensTmp
<1>9. CASE WritesTmp
  BY <1>9 DEF WritesTmp
<1>10. CASE Replaces
  BY <1>10 DEF Replaces
<1>11. CASE PutFails
  BY <1>11 DEF PutFails, Putting
<1>12. CASE PurgeLists
  BY <1>12 DEF PurgeLists
<1>13. ASSUME NEW k \in Keys, PurgeSkips(k) PROVE TreeOK'
  BY <1>13 DEF PurgeSkips
<1>14. ASSUME NEW k \in Keys, PurgeJudges(k) PROVE TreeOK'
  BY <1>14 DEF PurgeJudges
<1>15. CASE PurgeUnlinks
  BY <1>15 DEF PurgeUnlinks
<1>16. CASE PurgeMisses
  BY <1>16 DEF PurgeMisses
<1>17. CASE PurgeEmpties
  BY <1>17 DEF PurgeEmpties
<1>18. CASE PurgeLeavesUser
  BY <1>18 DEF PurgeLeavesUser
<1>19. CASE PurgeEnds
  BY <1>19 DEF PurgeEnds
<1>20. CASE PurgeFails
  BY <1>20 DEF PurgeFails
<1>21. CASE Crash
  BY <1>21 DEF Crash
<1>22. CASE UNCHANGED vars
  BY <1>22
<1> QED
  BY <1>1, <1>2, <1>3, <1>4, <1>5, <1>6, <1>7, <1>8, <1>9, <1>10, <1>11, <1>12,
     <1>13, <1>14, <1>15, <1>16, <1>17, <1>18, <1>19, <1>20, <1>21, <1>22
     DEF Next, Put, Purge

-----------------------------------------------------------------------------
LEMMA InitInv == Init => IInv
BY CacheAssumption DEF Init, IInv, TypeOK, PutOK, JudgeOK, TreeOK,
   OpenFileHasItsDirectory, Putting

LEMMA InvStep == IInv /\ [Next]_vars => IInv'
BY TypeStep, PutStep, JudgeStep, TreeStep DEF IInv

LEMMA Invariance == Spec => []IInv
BY InitInv, InvStep, PTL DEF Spec

\* Every variable of CacheStore keeps its type: what is renamed into place is
\* always a whole file.
THEOREM TypeCorrect == Spec => []TypeOK
<1>1. IInv => TypeOK
  BY DEF IInv
<1> QED
  BY <1>1, Invariance, PTL

\* put's mkdir of the key's directory always finds the user's directory it has
\* just made.
THEOREM ParentSafe == Spec => []ParentStays
<1>1. IInv => ParentStays
  BY DEF IInv, TreeOK, ParentStays
<1> QED
  BY <1>1, Invariance, PTL

\* The purge never takes the directory under an open .tmp.
THEOREM OpenFileSafe == Spec => []OpenFileHasItsDirectory
<1>1. IInv => OpenFileHasItsDirectory
  BY DEF IInv, PutOK
<1> QED
  BY <1>1, Invariance, PTL

\* A step that removes an entry removes an old or a mended one: it is the
\* purge's unlink, and JudgeOK says what it meets.
LEMMA RemovalStep ==
    ASSUME IInv, [Next]_vars, NEW k \in Keys, file[k] # "none", file'[k] = "none"
    PROVE  k \in old \/ k \in mended
<1> USE DEF IInv, TypeOK
<1>1. CASE PurgeUnlinks
  BY <1>1 DEF PurgeUnlinks, JudgeOK
<1>2. CASE Replaces
  BY <1>2 DEF Replaces, PutOK
<1>3. CASE Crash
  BY <1>3 DEF Crash
<1>4. CASE UNCHANGED file
  BY <1>4
<1> QED
  <2>1. ASSUME NEW i \in Keys, LookUp(i) \/ Ages(i) PROVE UNCHANGED file
    BY <2>1 DEF LookUp, Ages
  <2>2. ASSUME Reads \/ GivesUp \/ MakesKeyDir \/ MakesUserDir \/ MakesKeyDirAgain
                 \/ OpensTmp \/ WritesTmp \/ PutFails
        PROVE UNCHANGED file
    BY <2>2 DEF Reads, GivesUp, MakesKeyDir, MakesUserDir, MakesKeyDirAgain,
         OpensTmp, WritesTmp, PutFails
  <2>3. ASSUME NEW i \in Keys, PurgeSkips(i) \/ PurgeJudges(i) PROVE UNCHANGED file
    BY <2>3 DEF PurgeSkips, PurgeJudges
  <2>4. ASSUME PurgeLists \/ PurgeMisses \/ PurgeEmpties \/ PurgeLeavesUser
                 \/ PurgeEnds \/ PurgeFails
        PROVE UNCHANGED file
    BY <2>4 DEF PurgeLists, PurgeMisses, PurgeEmpties, PurgeLeavesUser, PurgeEnds,
         PurgeFails
  <2>5. ASSUME UNCHANGED vars PROVE UNCHANGED file
    BY <2>5
  <2> QED
    BY <1>1, <1>2, <1>3, <1>4, <2>1, <2>2, <2>3, <2>4, <2>5 DEF Next, Put, Purge

\* The purge spares every entry within its TTL, unless a put mended a spoilt one
\* between its stat and its unlink.
THEOREM FreshIsSpared == Spec => PurgeSparesFresh
<1> DEFINE Spared ==
      \A k \in Keys :
          /\ file[k] # "none" /\ file'[k] = "none"
          => k \in old \/ k \in mended
<1>1. ASSUME IInv, [Next]_vars PROVE Spared
  BY <1>1, RemovalStep
<1> QED
  BY Invariance, <1>1, PTL DEF Spec, PurgeSparesFresh

\* A rename brings a whole file; only a power cut spoils one.
THEOREM EntriesAreWhole == Spec => []NoHalfEntry
<1>1. Init => NoHalfEntry
  BY DEF Init, NoHalfEntry
<1>2. ASSUME IInv, NoHalfEntry, [Next]_vars PROVE NoHalfEntry'
  <2> USE DEF IInv, TypeOK, NoHalfEntry
  <2>1. CASE UNCHANGED <<file, crashes>>
    BY <1>2, <2>1
  <2>2. CASE Replaces
    BY <1>2, <2>2 DEF Replaces, PutOK
  <2>3. CASE PurgeUnlinks
    BY <1>2, <2>3 DEF PurgeUnlinks
  <2>4. CASE Crash
    BY <1>2, <2>4, CacheAssumption DEF Crash
  <2> QED
    <3>1. ASSUME NEW i \in Keys, LookUp(i) \/ Ages(i) \/ PurgeSkips(i) \/ PurgeJudges(i)
          PROVE UNCHANGED <<file, crashes>>
      BY <3>1 DEF LookUp, Ages, PurgeSkips, PurgeJudges
    <3>2. ASSUME Reads \/ GivesUp \/ MakesKeyDir \/ MakesUserDir \/ MakesKeyDirAgain
                   \/ OpensTmp \/ WritesTmp \/ PutFails
          PROVE UNCHANGED <<file, crashes>>
      BY <3>2 DEF Reads, GivesUp, MakesKeyDir, MakesUserDir, MakesKeyDirAgain,
           OpensTmp, WritesTmp, PutFails
    <3>3. ASSUME PurgeLists \/ PurgeMisses \/ PurgeEmpties \/ PurgeLeavesUser
                   \/ PurgeEnds \/ PurgeFails
          PROVE UNCHANGED <<file, crashes>>
      BY <3>3 DEF PurgeLists, PurgeMisses, PurgeEmpties, PurgeLeavesUser, PurgeEnds,
           PurgeFails
    <3> QED
      BY <1>2, <2>1, <2>2, <2>3, <2>4, <3>1, <3>2, <3>3 DEF Next, Put, Purge
<1> QED
  BY <1>1, <1>2, Invariance, PTL DEF Spec

-----------------------------------------------------------------------------
(* The refinement.  Job and Stale are the mapping of Entries.              *)

Job == IF at \in Putting THEN {key} ELSE {}
Stale == old \cup mended

\* The steps a reader of the entries does not see: neither the files under
\* result.json, nor what may be dropped, nor the miss under way is changed.
LEMMA Unseen ==
    ASSUME UNCHANGED <<file, old, mended>>, UNCHANGED Job
    PROVE  UNCHANGED Entries!cacheVars
BY DEF Entries!cacheVars, Job, Putting

\* A request that leaves its miss without an entry, by a failure of the disk, by
\* a directory that is gone or by its own end, gives up; or had none.
LEMMA Leaving ==
    ASSUME UNCHANGED <<file, old, mended>>, at' = "idle"
    PROVE  Entries!GiveUp
BY DEF Entries!GiveUp, Putting

\* get: a look-up of nothing, or of what is not readable, is a miss.
LEMMA MissRefines ==
    ASSUME IInv, NEW k \in Keys, LookUp(k) \/ Reads
    PROVE  \/ Entries!Miss(key')
           \/ Entries!GiveUp
           \/ UNCHANGED Entries!cacheVars
<1> USE DEF IInv, TypeOK
<1>1. CASE LookUp(k) /\ file[k] = "none"
  BY <1>1 DEF LookUp, Entries!Miss, Putting
<1>2. CASE LookUp(k) /\ file[k] # "none"
  BY <1>2, Unseen DEF LookUp, Job, Putting
<1>3. CASE Reads /\ file[key] = "whole"
  BY <1>3, Leaving DEF Reads
<1>4. CASE Reads /\ file[key] # "whole"
  BY <1>4 DEF Reads, Entries!Miss, Putting
<1> QED
  BY <1>1, <1>2, <1>3, <1>4

\* put: the rename is the store, and meets no readable entry.
LEMMA StoreRefines ==
    ASSUME IInv, Replaces
    PROVE  Entries!Store(key)
<1> USE DEF IInv, TypeOK
<1>1. file[key] # "whole" /\ tmp[key] = "whole"
  BY DEF Replaces, PutOK, Putting
<1>2. file' = [file EXCEPT ![key] = "whole"]
  BY <1>1 DEF Replaces
<1>3. Job = {key} /\ Job' = {}
  BY DEF Replaces, Job, Putting
<1>4. Stale' = IF file[key] = "corrupt" THEN Stale \cup {key} ELSE Stale \ {key}
  BY DEF Replaces, Stale
<1> QED
  BY <1>1, <1>2, <1>3, <1>4 DEF Entries!Store, Job, Stale

\* put: the other calls are not seen, or end it.
LEMMA PutRefines ==
    ASSUME IInv, \/ GivesUp \/ MakesKeyDir \/ MakesUserDir \/ MakesKeyDirAgain
                 \/ OpensTmp \/ WritesTmp \/ PutFails
    PROVE  Entries!GiveUp \/ UNCHANGED Entries!cacheVars
<1>1. CASE at' = "idle"
  BY <1>1, Leaving DEF GivesUp, MakesKeyDir, MakesUserDir, MakesKeyDirAgain, OpensTmp,
     WritesTmp, PutFails
<1>2. CASE at' # "idle"
  <2>1. UNCHANGED <<file, old, mended, key>>
    BY DEF GivesUp, MakesKeyDir, MakesUserDir, MakesKeyDirAgain, OpensTmp, WritesTmp,
       PutFails
  <2>2. at \in Putting /\ at' \in Putting
    BY <1>2 DEF GivesUp, MakesKeyDir, MakesUserDir, MakesKeyDirAgain, OpensTmp,
       WritesTmp, PutFails, Putting
  <2> QED
    BY <2>1, <2>2, Unseen DEF Job
<1> QED
  BY <1>1, <1>2

\* The purge: its unlink drops what JudgeOK says it has judged; the rest is not
\* seen.
LEMMA PurgeRefines ==
    ASSUME IInv, Purge
    PROVE  Entries!Drop(victim) \/ UNCHANGED Entries!cacheVars
<1>1. CASE PurgeUnlinks
  <2>1. victim \in Stale /\ file[victim] # "none"
    BY <1>1 DEF PurgeUnlinks, IInv, JudgeOK, Stale
  <2>2. Stale' = Stale \ {victim} /\ UNCHANGED Job
    BY <1>1 DEF PurgeUnlinks, Stale, Job
  <2> QED
    BY <1>1, <2>1, <2>2 DEF PurgeUnlinks, Entries!Drop, Stale, Job
<1>2. CASE ~PurgeUnlinks
  <2>1. UNCHANGED <<file, old, mended, at, key>>
    BY <1>2 DEF Purge, PurgeLists, PurgeSkips, PurgeJudges, PurgeMisses, PurgeEmpties,
       PurgeLeavesUser, PurgeEnds, PurgeFails
  <2> QED
    BY <2>1, Unseen DEF Job
<1> QED
  BY <1>1, <1>2

\* What happens to the disk besides: an entry grows old, the power goes.
LEMMA WorldRefines ==
    ASSUME IInv, NEW k \in Keys, Ages(k) \/ Crash
    PROVE  Entries!Age(k) \/ Entries!PowerCut
<1>1. CASE Ages(k)
  <2>1. Stale' = Stale \cup {k} /\ UNCHANGED Job
    BY <1>1 DEF Ages, Stale, Job
  <2> QED
    BY <1>1, <2>1 DEF Ages, Entries!Age, Stale, Job
<1>2. CASE Crash
  BY <1>2 DEF Crash, Entries!PowerCut, Putting
<1> QED
  BY <1>1, <1>2

\* The cache's files implement ResultCache for any keys and any number of
\* crashes: whatever calls of a get, a put and a purge fall between each other,
\* an entry appears whole, is never replaced while it can be read and goes only
\* when it is stale.
THEOREM Refinement == Spec => ImplementsResultCache
<1>1. Init => Entries!CacheInit
  BY DEF Init, Entries!CacheInit, Putting
<1>2. ASSUME IInv, [Next]_vars
      PROVE  [Entries!CacheNext]_(Entries!cacheVars)
  <2>1. IInv /\ key' \in Keys /\ key \in Keys /\ victim \in Keys
    BY <1>2, TypeStep DEF IInv, TypeOK
  <2>2. ASSUME NEW k \in Keys, LookUp(k) \/ Reads
        PROVE  [Entries!CacheNext]_(Entries!cacheVars)
    BY <2>1, <2>2, MissRefines DEF Entries!CacheNext
  <2>3. CASE Replaces
    BY <2>1, <2>3, StoreRefines DEF Entries!CacheNext
  <2>4. CASE GivesUp \/ (Put /\ ~Replaces)
    BY <2>1, <2>4, PutRefines DEF Put, Entries!CacheNext
  <2>5. CASE Purge
    BY <2>1, <2>5, PurgeRefines DEF Entries!CacheNext
  <2>6. ASSUME NEW k \in Keys, Ages(k) \/ Crash
        PROVE  [Entries!CacheNext]_(Entries!cacheVars)
    BY <2>1, <2>6, WorldRefines DEF Entries!CacheNext
  <2>7. CASE UNCHANGED vars
    BY <2>7, Unseen DEF Job
  <2> QED
    BY <1>2, <2>1, <2>2, <2>3, <2>4, <2>5, <2>6, <2>7 DEF Next
<1> QED
  BY <1>1, <1>2, Invariance, PTL DEF Spec, ImplementsResultCache, Entries!CacheSpec

\* A pipeline that computes an entry computes one that nobody could have read from
\* its file: from the miss to the rename there is no readable result.json.
THEOREM OnlyMissesComputed == Spec => []Entries!OnlyMissesAreComputed
<1>1. IInv => Entries!OnlyMissesAreComputed
  BY DEF IInv, PutOK, Entries!OnlyMissesAreComputed
<1> QED
  BY <1>1, Invariance, PTL

=============================================================================
