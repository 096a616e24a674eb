------------------------- MODULE UploadSessionProofs -------------------------
(***************************************************************************)
(* Proofs about UploadSession for any number of sessions, POSTs, starts    *)
(* and crashes.  The inductive invariant IInv has three parts, which are   *)
(* preserved one by one: TypeOK, what relates a start to its rows          *)
(* (StartOK, SessionOK) and what relates a row to its directory (DiskOK).  *)
(* WholeOK, on the file of a single POST, is inductive with TypeOK alone,  *)
(* RouteOK, on the states a session goes through before it expires, with   *)
(* IInv.                                                                   *)
(***************************************************************************)
EXTENDS UploadSession, TLAPS

USE DEF vars, sessionVars, diskVars, startVars, sweepVars

\* A transaction is committed at the end of its start, never before; the
\* answer is given then.
StartOK ==
    \A t \in Starts :
        /\ row[t] = "committed" => at[t] = "done"
        /\ at[t] # "done" => result[t] = "none"
        /\ result[t] = "ok" => row[t] = "committed"
        /\ result[t] \in Refusals \cup {"busy", "error"} => row[t] # "committed"

SessionOK == ConsumedHasTranscription

\* A file has a writer only while it is linked, and what the sweep has removed
\* stays removed: its session is late, and late sessions get no new file.
Removed(s) == status[s] = "expired" \/ (sweep = "removed" /\ s \in candidates)

DiskOK ==
    /\ candidates \subseteq late
    /\ \A s \in Sessions :
          /\ writer[s] # NoUpload => disk[s] # "none"
          /\ Removed(s) => s \in late
          /\ Removed(s) /\ s \notin leaked => disk[s] = "none"

IInv == TypeOK /\ StartOK /\ SessionOK /\ DiskOK

-----------------------------------------------------------------------------
\* Every action keeps every variable in its type.
LEMMA TypeStep ==
    ASSUME TypeOK, [Next]_vars
    PROVE  TypeOK'
<1> USE UploadAssumption DEF TypeOK, Open, Final, Contents, Refusals, Failures
<1>1. ASSUME NEW s \in Sessions, Request(s) PROVE TypeOK'
  BY <1>1 DEF Request
<1>2. ASSUME NEW s \in Sessions, Elapse(s) PROVE TypeOK'
  BY <1>2 DEF Elapse
<1>3. ASSUME NEW u \in Uploads, UploadSelects(u) PROVE TypeOK'
  BY <1>3 DEF UploadSelects, UploadGoes
<1>4. ASSUME NEW u \in Uploads, UploadTooLate(u) PROVE TypeOK'
  BY <1>4 DEF UploadTooLate, UploadGoes
<1>5. ASSUME NEW u \in Uploads, UploadOpens(u) PROVE TypeOK'
  BY <1>5 DEF UploadOpens, UploadGoes
<1>6. ASSUME NEW u \in Uploads, UploadEnds(u) PROVE TypeOK'
  BY <1>6 DEF UploadEnds, UploadGoes
<1>7. ASSUME NEW u \in Uploads, UploadRejected(u) PROVE TypeOK'
  BY <1>7 DEF UploadRejected, UploadGoes
<1>8. ASSUME NEW u \in Uploads, UploadAborted(u) PROVE TypeOK'
  BY <1>8 DEF UploadAborted, UploadGoes
<1>9. ASSUME NEW u \in Uploads, UploadMarks(u) PROVE TypeOK'
  BY <1>9 DEF UploadMarks, UploadGoes
<1>10. ASSUME NEW t \in Starts, StartTooLate(t) PROVE TypeOK'
  BY <1>10 DEF StartTooLate, StartRefused, Answer, StartGoes
<1>11. ASSUME NEW t \in Starts, StartQueues(t) PROVE TypeOK'
  BY <1>11 DEF StartQueues, StartGoes
<1>12. ASSUME NEW t \in Starts, StartGranted(t) PROVE TypeOK'
  BY <1>12 DEF StartGranted, StartGoes, Lock!Enter
<1>13. ASSUME NEW t \in Starts, PipelineStarts(t) PROVE TypeOK'
  BY <1>13 DEF PipelineStarts, StartGoes, Lock!Start
<1>14. ASSUME NEW t \in Starts, PipelineReads(t) PROVE TypeOK'
  BY <1>14 DEF PipelineReads, StartGoes
<1>15. ASSUME NEW t \in Starts, PipelineReturns(t) PROVE TypeOK'
  BY <1>15 DEF PipelineReturns, StartGoes, Lock!Leave
<1>16. ASSUME NEW t \in Starts, StartFails(t) PROVE TypeOK'
  BY <1>16 DEF StartFails, Answer, StartGoes, Lock!Leave, Rmtree, Orchestrating, Failures
<1>17. ASSUME NEW t \in Starts, StartConsumes(t) PROVE TypeOK'
  BY <1>17 DEF StartConsumes, StartGoes, Rmtree
<1>18. ASSUME NEW t \in Starts, StartCommits(t) PROVE TypeOK'
  BY <1>18 DEF StartCommits, Answer, StartGoes, Committed
<1>19. ASSUME NEW t \in Starts, StartCommitFails(t) PROVE TypeOK'
  BY <1>19 DEF StartCommitFails, Answer, StartGoes, RolledBack
<1>20. ASSUME NEW t \in Starts, StartCommitCancelled(t) PROVE TypeOK'
  BY <1>20 DEF StartCommitCancelled, Answer, StartGoes, Committed, RolledBack
<1>21. ASSUME NEW t \in Starts, StartSelects(t) PROVE TypeOK'
  BY <1>21 DEF StartSelects, StartGoes
<1>22. ASSUME NEW t \in Starts, StartFindsNoUpload(t) PROVE TypeOK'
  BY <1>22 DEF StartFindsNoUpload, StartRefused, Answer, StartGoes
<1>23. CASE SweepSelects
  BY <1>23 DEF SweepSelects, Expirable
<1>24. CASE SweepRemoves
  BY <1>24 DEF SweepRemoves, Rmtree
<1>25. CASE SweepMarks
  BY <1>25 DEF SweepMarks
<1>26. CASE SweepFails
  BY <1>26 DEF SweepFails
<1>27. CASE Crash
  BY <1>27 DEF Crash
<1>28. CASE UNCHANGED vars
  BY <1>28
<1>29. QED
  BY <1>1, <1>2, <1>3, <1>4, <1>5, <1>6, <1>7, <1>8, <1>9, <1>10, <1>11, <1>12, <1>13, <1>14, <1>15, <1>16, <1>17, <1>18, <1>19, <1>20, <1>21, <1>22, <1>23, <1>24, <1>25, <1>26, <1>27, <1>28
     DEF Next, UploadStep, StartStep, StartTimesOut, Sweep

\* A start commits or rolls back once, when it ends.
LEMMA StartStepOK ==
    ASSUME TypeOK, StartOK, [Next]_vars
    PROVE  StartOK'
<1> USE DEF TypeOK, StartOK, Refusals, Failures
<1>1. ASSUME NEW s \in Sessions, Request(s) PROVE StartOK'
  BY <1>1 DEF Request
<1>2. ASSUME NEW s \in Sessions, Elapse(s) PROVE StartOK'
  BY <1>2 DEF Elapse
<1>3. ASSUME NEW u \in Uploads, UploadSelects(u) PROVE StartOK'
  BY <1>3 DEF UploadSelects, UploadGoes
<1>4. ASSUME NEW u \in Uploads, UploadTooLate(u) PROVE StartOK'
  BY <1>4 DEF UploadTooLate, UploadGoes
<1>5. ASSUME NEW u \in Uploads, UploadOpens(u) PROVE StartOK'
  BY <1>5 DEF UploadOpens, UploadGoes
<1>6. ASSUME NEW u \in Uploads, UploadEnds(u) PROVE StartOK'
  BY <1>6 DEF UploadEnds, UploadGoes
<1>7. ASSUME NEW u \in Uploads, UploadRejected(u) PROVE StartOK'
  BY <1>7 DEF UploadRejected, UploadGoes
<1>8. ASSUME NEW u \in Uploads, UploadAborted(u) PROVE StartOK'
  BY <1>8 DEF UploadAborted, UploadGoes
<1>9. ASSUME NEW u \in Uploads, UploadMarks(u) PROVE StartOK'
  BY <1>9 DEF UploadMarks, UploadGoes
<1>10. ASSUME NEW t \in Starts, StartTooLate(t) PROVE StartOK'
  BY <1>10 DEF StartTooLate, StartRefused, Answer, StartGoes
<1>11. ASSUME NEW t \in Starts, StartQueues(t) PROVE StartOK'
  BY <1>11 DEF StartQueues, StartGoes
<1>12. ASSUME NEW t \in Starts, StartGranted(t) PROVE StartOK'
  BY <1>12 DEF StartGranted, StartGoes, Lock!Enter
<1>13. ASSUME NEW t \in Starts, PipelineStarts(t) PROVE StartOK'
  BY <1>13 DEF PipelineStarts, StartGoes, Lock!Start
<1>14. ASSUME NEW t \in Starts, PipelineReads(t) PROVE StartOK'
  BY <1>14 DEF PipelineReads, StartGoes
<1>15. ASSUME NEW t \in Starts, PipelineReturns(t) PROVE StartOK'
  BY <1>15 DEF PipelineReturns, StartGoes, Lock!Leave
<1>16. ASSUME NEW t \in Starts, StartFails(t) PROVE StartOK'
  BY <1>16 DEF StartFails, Answer, StartGoes, Lock!Leave, Rmtree, Orchestrating, Failures
<1>17. ASSUME NEW t \in Starts, StartConsumes(t) PROVE StartOK'
  BY <1>17 DEF StartConsumes, StartGoes, Rmtree
<1>18. ASSUME NEW t \in Starts, StartCommits(t) PROVE StartOK'
  BY <1>18 DEF StartCommits, Answer, StartGoes, Committed
<1>19. ASSUME NEW t \in Starts, StartCommitFails(t) PROVE StartOK'
  BY <1>19 DEF StartCommitFails, Answer, StartGoes, RolledBack
<1>20. ASSUME NEW t \in Starts, StartCommitCancelled(t) PROVE StartOK'
  BY <1>20 DEF StartCommitCancelled, Answer, StartGoes, Committed, RolledBack
<1>21. ASSUME NEW t \in Starts, StartSelects(t) PROVE StartOK'
  BY <1>21 DEF StartSelects, StartGoes
<1>22. ASSUME NEW t \in Starts, StartFindsNoUpload(t) PROVE StartOK'
  BY <1>22 DEF StartFindsNoUpload, StartRefused, Answer, StartGoes
<1>23. CASE SweepSelects
  BY <1>23 DEF SweepSelects, Expirable
<1>24. CASE SweepRemoves
  BY <1>24 DEF SweepRemoves, Rmtree
<1>25. CASE SweepMarks
  BY <1>25 DEF SweepMarks
<1>26. CASE SweepFails
  BY <1>26 DEF SweepFails
<1>27. CASE Crash
  BY <1>27 DEF Crash
<1>28. CASE UNCHANGED vars
  BY <1>28
<1>29. QED
  BY <1>1, <1>2, <1>3, <1>4, <1>5, <1>6, <1>7, <1>8, <1>9, <1>10, <1>11, <1>12, <1>13, <1>14, <1>15, <1>16, <1>17, <1>18, <1>19, <1>20, <1>21, <1>22, <1>23, <1>24, <1>25, <1>26, <1>27, <1>28
     DEF Next, UploadStep, StartStep, StartTimesOut, Sweep

\* No action takes a committed transcription back.
LEMMA CommittedStays ==
    ASSUME TypeOK, StartOK, [Next]_vars, NEW q \in Starts, row[q] = "committed"
    PROVE  row'[q] = "committed"
<1> USE DEF TypeOK, StartOK
<1>1. ASSUME NEW s \in Sessions, Request(s) PROVE row'[q] = "committed"
  BY <1>1 DEF Request
<1>2. ASSUME NEW s \in Sessions, Elapse(s) PROVE row'[q] = "committed"
  BY <1>2 DEF Elapse
<1>3. ASSUME NEW u \in Uploads, UploadSelects(u) PROVE row'[q] = "committed"
  BY <1>3 DEF UploadSelects, UploadGoes
<1>4. ASSUME NEW u \in Uploads, UploadTooLate(u) PROVE row'[q] = "committed"
  BY <1>4 DEF UploadTooLate, UploadGoes
<1>5. ASSUME NEW u \in Uploads, UploadOpens(u) PROVE row'[q] = "committed"
  BY <1>5 DEF UploadOpens, UploadGoes
<1>6. ASSUME NEW u \in Uploads, UploadEnds(u) PROVE row'[q] = "committed"
  BY <1>6 DEF UploadEnds, UploadGoes
<1>7. ASSUME NEW u \in Uploads, UploadRejected(u) PROVE row'[q] = "committed"
  BY <1>7 DEF UploadRejected, UploadGoes
<1>8. ASSUME NEW u \in Uploads, UploadAborted(u) PROVE row'[q] = "committed"
  BY <1>8 DEF UploadAborted, UploadGoes
<1>9. ASSUME NEW u \in Uploads, UploadMarks(u) PROVE row'[q] = "committed"
  BY <1>9 DEF UploadMarks, UploadGoes
<1>10. ASSUME NEW t \in Starts, StartTooLate(t) PROVE row'[q] = "committed"
  BY <1>10 DEF StartTooLate, StartRefused, Answer, StartGoes
<1>11. ASSUME NEW t \in Starts, StartQueues(t) PROVE row'[q] = "committed"
  BY <1>11 DEF StartQueues, StartGoes
<1>12. ASSUME NEW t \in Starts, StartGranted(t) PROVE row'[q] = "committed"
  BY <1>12 DEF StartGranted, StartGoes, Lock!Enter
<1>13. ASSUME NEW t \in Starts, PipelineStarts(t) PROVE row'[q] = "committed"
  BY <1>13 DEF PipelineStarts, StartGoes, Lock!Start
<1>14. ASSUME NEW t \in Starts, PipelineReads(t) PROVE row'[q] = "committed"
  BY <1>14 DEF PipelineReads, StartGoes
<1>15. ASSUME NEW t \in Starts, PipelineReturns(t) PROVE row'[q] = "committed"
  BY <1>15 DEF PipelineReturns, StartGoes, Lock!Leave
<1>16. ASSUME NEW t \in Starts, StartFails(t) PROVE row'[q] = "committed"
  BY <1>16 DEF StartFails, Answer, StartGoes, Lock!Leave, Rmtree, Orchestrating, Failures
<1>17. ASSUME NEW t \in Starts, StartConsumes(t) PROVE row'[q] = "committed"
  BY <1>17 DEF StartConsumes, StartGoes, Rmtree
<1>18. ASSUME NEW t \in Starts, StartCommits(t) PROVE row'[q] = "committed"
  BY <1>18 DEF StartCommits, Answer, StartGoes, Committed
<1>19. ASSUME NEW t \in Starts, StartCommitFails(t) PROVE row'[q] = "committed"
  BY <1>19 DEF StartCommitFails, Answer, StartGoes, RolledBack
<1>20. ASSUME NEW t \in Starts, StartCommitCancelled(t) PROVE row'[q] = "committed"
  BY <1>20 DEF StartCommitCancelled, Answer, StartGoes, Committed, RolledBack
<1>21. ASSUME NEW t \in Starts, StartSelects(t) PROVE row'[q] = "committed"
  BY <1>21 DEF StartSelects, StartGoes
<1>22. ASSUME NEW t \in Starts, StartFindsNoUpload(t) PROVE row'[q] = "committed"
  BY <1>22 DEF StartFindsNoUpload, StartRefused, Answer, StartGoes
<1>23. CASE SweepSelects
  BY <1>23 DEF SweepSelects, Expirable
<1>24. CASE SweepRemoves
  BY <1>24 DEF SweepRemoves, Rmtree
<1>25. CASE SweepMarks
  BY <1>25 DEF SweepMarks
<1>26. CASE SweepFails
  BY <1>26 DEF SweepFails
<1>27. CASE Crash
  BY <1>27 DEF Crash
<1>28. CASE UNCHANGED vars
  BY <1>28
<1>29. QED
  BY <1>1, <1>2, <1>3, <1>4, <1>5, <1>6, <1>7, <1>8, <1>9, <1>10, <1>11, <1>12, <1>13, <1>14, <1>15, <1>16, <1>17, <1>18, <1>19, <1>20, <1>21, <1>22, <1>23, <1>24, <1>25, <1>26, <1>27, <1>28
     DEF Next, UploadStep, StartStep, StartTimesOut, Sweep

\* A session becomes consumed by the COMMIT that commits a transcription of it.
LEMMA ConsumedByCommit ==
    ASSUME TypeOK, [Next]_vars,
           NEW s \in Sessions, status[s] # "consumed", status'[s] = "consumed"
    PROVE  \E t \in Starts : target'[t] = s /\ row'[t] = "committed"
<1> USE DEF TypeOK
<1>1. ASSUME status' = status PROVE FALSE
  BY <1>1
<1>2. ASSUME NEW q \in Sessions, Request(q) \/ Elapse(q) PROVE FALSE
  BY <1>2 DEF Request, Elapse
<1>3. ASSUME NEW u \in Uploads, UploadStep(u) PROVE FALSE
  <2>1. CASE UploadMarks(u)
    BY <2>1 DEF UploadMarks
  <2>2. CASE ~UploadMarks(u)
    BY <1>1, <1>3, <2>2
       DEF UploadStep, UploadSelects, UploadTooLate, UploadOpens, UploadEnds,
           UploadRejected, UploadAborted
  <2>3. QED  BY <2>1, <2>2
<1>4. ASSUME NEW t \in Starts,
             StartStep(t) \/ StartFails(t) \/ StartCommitCancelled(t)
                          \/ StartSelects(t) \/ StartFindsNoUpload(t)
      PROVE  target'[t] = s /\ row'[t] = "committed"
  <2>1. CASE StartCommits(t) \/ StartCommitCancelled(t)
    BY <2>1 DEF StartCommits, StartCommitCancelled, Committed, RolledBack
  <2>2. CASE ~(StartCommits(t) \/ StartCommitCancelled(t))
    BY <1>1, <1>4, <2>2
       DEF StartStep, StartTooLate, StartFindsNoUpload, StartRefused, StartQueues,
           StartGranted, PipelineStarts, PipelineReads, PipelineReturns, StartTimesOut,
           StartFails, StartConsumes, StartCommitFails, RolledBack, StartSelects
  <2>3. QED  BY <2>1, <2>2
<1>5. ASSUME Sweep PROVE FALSE
  <2>1. CASE SweepMarks
    BY <2>1 DEF SweepMarks
  <2>2. CASE ~SweepMarks
    BY <1>1, <1>5, <2>2 DEF Sweep, SweepSelects, SweepRemoves, SweepFails
  <2>3. QED  BY <2>1, <2>2
<1>6. CASE Crash
  <2>1. PICK done \in SUBSET {t \in Starts : at[t] = "committing"} :
          /\ \A t \in done : row'[t] = "committed"
          /\ status' = [q \in Sessions |-> IF \E t \in done : target[t] = q
                                          THEN "consumed" ELSE status[q]]
    BY <1>6 DEF Crash
  <2>2. PICK t \in done : target[t] = s
    BY <2>1
  <2>3. QED  BY <1>6, <2>1, <2>2 DEF Crash
<1>7. CASE UNCHANGED vars
  BY <1>1, <1>7
<1>8. QED
  BY <1>2, <1>3, <1>4, <1>5, <1>6, <1>7 DEF Next

\* The status consumed and the transcription come with one COMMIT.
LEMMA SessionStep ==
    ASSUME TypeOK, StartOK, SessionOK, [Next]_vars
    PROVE  SessionOK'
<1> USE DEF SessionOK, ConsumedHasTranscription, StartsOf
<1>1. target' = target
  BY DEF Next, UploadStep, StartStep, StartTimesOut, Sweep, Request, Elapse, UploadSelects,
         UploadTooLate, UploadOpens, UploadEnds, UploadRejected, UploadAborted, UploadMarks,
         StartTooLate, StartFindsNoUpload, StartRefused, StartQueues, StartGranted,
         PipelineStarts, PipelineReads, PipelineReturns, StartFails, StartConsumes,
         StartCommits, StartCommitFails, StartCommitCancelled, StartSelects,
         SweepSelects, SweepRemoves, SweepMarks, SweepFails, Crash
<1>2. SUFFICES ASSUME NEW s \in Sessions, status'[s] = "consumed"
               PROVE  \E t \in Starts : target'[t] = s /\ row'[t] = "committed"
  OBVIOUS
<1>3. CASE status[s] = "consumed"
  <2>1. PICK t \in Starts : target[t] = s /\ row[t] = "committed"
    BY <1>3
  <2>2. QED  BY <1>1, <2>1, CommittedStays
<1>4. CASE status[s] # "consumed"
  BY <1>2, <1>4, ConsumedByCommit
<1>5. QED  BY <1>3, <1>4

\* Late sessions get no new file, and only the sweep expires one.
LEMMA DiskStep ==
    ASSUME TypeOK, DiskOK, [Next]_vars
    PROVE  DiskOK'
<1> USE DEF TypeOK, DiskOK, Removed
<1>1. ASSUME NEW s \in Sessions, Request(s) PROVE DiskOK'
  BY <1>1 DEF Request
<1>2. ASSUME NEW s \in Sessions, Elapse(s) PROVE DiskOK'
  BY <1>2 DEF Elapse
<1>3. ASSUME NEW u \in Uploads, UploadSelects(u) PROVE DiskOK'
  BY <1>3 DEF UploadSelects, UploadGoes
<1>4. ASSUME NEW u \in Uploads, UploadTooLate(u) PROVE DiskOK'
  BY <1>4 DEF UploadTooLate, UploadGoes
<1>5. ASSUME NEW u \in Uploads, UploadOpens(u) PROVE DiskOK'
  BY <1>5 DEF UploadOpens, UploadGoes
<1>6. ASSUME NEW u \in Uploads, UploadEnds(u) PROVE DiskOK'
  BY <1>6, UploadAssumption DEF UploadEnds, UploadGoes
<1>7. ASSUME NEW u \in Uploads, UploadRejected(u) PROVE DiskOK'
  BY <1>7 DEF UploadRejected, UploadGoes
<1>8. ASSUME NEW u \in Uploads, UploadAborted(u) PROVE DiskOK'
  BY <1>8 DEF UploadAborted, UploadGoes
<1>9. ASSUME NEW u \in Uploads, UploadMarks(u) PROVE DiskOK'
  BY <1>9 DEF UploadMarks, UploadGoes
<1>10. ASSUME NEW t \in Starts, StartTooLate(t) PROVE DiskOK'
  BY <1>10 DEF StartTooLate, StartRefused, Answer, StartGoes
<1>11. ASSUME NEW t \in Starts, StartQueues(t) PROVE DiskOK'
  BY <1>11 DEF StartQueues, StartGoes
<1>12. ASSUME NEW t \in Starts, StartGranted(t) PROVE DiskOK'
  BY <1>12 DEF StartGranted, StartGoes, Lock!Enter
<1>13. ASSUME NEW t \in Starts, PipelineStarts(t) PROVE DiskOK'
  BY <1>13 DEF PipelineStarts, StartGoes, Lock!Start
<1>14. ASSUME NEW t \in Starts, PipelineReads(t) PROVE DiskOK'
  BY <1>14 DEF PipelineReads, StartGoes
<1>15. ASSUME NEW t \in Starts, PipelineReturns(t) PROVE DiskOK'
  BY <1>15 DEF PipelineReturns, StartGoes, Lock!Leave
<1>16. ASSUME NEW t \in Starts, StartFails(t) PROVE DiskOK'
  BY <1>16 DEF StartFails, Answer, StartGoes, Lock!Leave, Rmtree, Orchestrating, Failures
<1>17. ASSUME NEW t \in Starts, StartConsumes(t) PROVE DiskOK'
  BY <1>17 DEF StartConsumes, StartGoes, Rmtree
<1>18. ASSUME NEW t \in Starts, StartCommits(t) PROVE DiskOK'
  BY <1>18 DEF StartCommits, Answer, StartGoes, Committed
<1>19. ASSUME NEW t \in Starts, StartCommitFails(t) PROVE DiskOK'
  BY <1>19 DEF StartCommitFails, Answer, StartGoes, RolledBack
<1>20. ASSUME NEW t \in Starts, StartCommitCancelled(t) PROVE DiskOK'
  BY <1>20 DEF StartCommitCancelled, Answer, StartGoes, Committed, RolledBack
<1>21. ASSUME NEW t \in Starts, StartSelects(t) PROVE DiskOK'
  BY <1>21 DEF StartSelects, StartGoes
<1>22. ASSUME NEW t \in Starts, StartFindsNoUpload(t) PROVE DiskOK'
  BY <1>22 DEF StartFindsNoUpload, StartRefused, Answer, StartGoes
<1>23. CASE SweepSelects
  BY <1>23 DEF SweepSelects, Expirable
<1>24. CASE SweepRemoves
  BY <1>24 DEF SweepRemoves, Rmtree
<1>25. CASE SweepMarks
  BY <1>25 DEF SweepMarks
<1>26. CASE SweepFails
  BY <1>26 DEF SweepFails
<1>27. CASE Crash
  BY <1>27 DEF Crash
<1>28. CASE UNCHANGED vars
  BY <1>28
<1>29. QED
  BY <1>1, <1>2, <1>3, <1>4, <1>5, <1>6, <1>7, <1>8, <1>9, <1>10, <1>11, <1>12, <1>13, <1>14, <1>15, <1>16, <1>17, <1>18, <1>19, <1>20, <1>21, <1>22, <1>23, <1>24, <1>25, <1>26, <1>27, <1>28
     DEF Next, UploadStep, StartStep, StartTimesOut, Sweep

-----------------------------------------------------------------------------
LEMMA InitIInv == Init => IInv
  BY UploadAssumption
     DEF Init, Lock!MutexInit, IInv, TypeOK, StartOK, SessionOK, ConsumedHasTranscription,
         DiskOK, Removed, Open, Final, Contents, Refusals, Failures

\* The invariant the theorems below follow from.
THEOREM Invariance == Spec => []IInv
<1>1. IInv /\ [Next]_vars => IInv'
  BY TypeStep, StartStepOK, SessionStep, DiskStep DEF IInv
<1>2. QED
  BY InitIInv, <1>1, PTL DEF Spec

(***************************************************************************)
(* Every variable stays in its type (upload_sessions, the tables and the   *)
(* handlers keep to the states the code names).                            *)
(***************************************************************************)
THEOREM TypeCorrect == Spec => []TypeOK
  BY Invariance, PTL DEF IInv

(***************************************************************************)
(* A consumed session has a committed transcription (start.py: orchestrate *)
(* and _consume_upload share one transaction).                             *)
(***************************************************************************)
THEOREM ConsumedIsBacked == Spec => []ConsumedHasTranscription
  BY Invariance, PTL DEF IInv, SessionOK

(***************************************************************************)
(* The answer of start_transcription agrees with the database.             *)
(***************************************************************************)
THEOREM AnswerIsTrue == Spec => []AnswerMatchesDatabase
<1>1. IInv => AnswerMatchesDatabase
  BY DEF IInv, StartOK, AnswerMatchesDatabase
<1>2. QED
  BY Invariance, <1>1, PTL

(***************************************************************************)
(* The sweep's order of operations (cleanup.py): an expired session leaves *)
(* no bytes unless a removal failed, however late a POST comes.            *)
(***************************************************************************)
THEOREM ExpiredIsClean == Spec => []ExpiredLeavesNoBytes
<1>1. IInv => ExpiredLeavesNoBytes
  BY DEF IInv, DiskOK, Removed, ExpiredLeavesNoBytes
<1>2. QED
  BY Invariance, <1>1, PTL

-----------------------------------------------------------------------------
\* The POST of s is over and has left its file whole, or somebody removed it.
Delivered(s) == (\E u \in UploadsOf(s) : up[u] = "done") /\ disk[s] # "partial"

\* A single stream is the writer of its file until that is unlinked; a row is
\* marked, and a start finds it, after the stream has ended.
WholeAt(s) ==
    /\ \A u \in UploadsOf(s) :
          /\ up[u] = "streaming" => writer[s] = u \/ disk[s] = "none"
          /\ up[u] = "received" => disk[s] # "partial"
    /\ status[s] = "uploaded" => Delivered(s)
    /\ \A t \in StartsOf(s) :
          /\ at[t] \notin {"idle", "done"} => Delivered(s)
          /\ at[t] \in {"analysing", "consuming", "committing"} \/ row[t] # "none"
                => read[t] = "full"

WholeOK == \A s \in Sessions : SinglePost(s) => WholeAt(s)

\* A single POST was the only one before, too, and every step keeps what is known
\* of its file.
LEMMA WholeStep ==
    ASSUME TypeOK, WholeOK, [Next]_vars
    PROVE  WholeOK'
<1> SUFFICES ASSUME NEW s \in Sessions, SinglePost(s)' PROVE WholeAt(s)'
  BY DEF WholeOK
<1> USE UploadAssumption DEF TypeOK, WholeOK, WholeAt, Delivered, SinglePost, UploadsOf, StartsOf
<1>1. ASSUME NEW i \in Sessions, Request(i) PROVE WholeAt(s)'
  BY <1>1 DEF Request
<1>2. ASSUME NEW i \in Sessions, Elapse(i) PROVE WholeAt(s)'
  BY <1>2 DEF Elapse
<1>3. ASSUME NEW u \in Uploads, UploadSelects(u) PROVE WholeAt(s)'
  BY <1>3 DEF UploadSelects, UploadGoes
<1>4. ASSUME NEW u \in Uploads, UploadTooLate(u) PROVE WholeAt(s)'
  BY <1>4 DEF UploadTooLate, UploadGoes
<1>5. ASSUME NEW u \in Uploads, UploadOpens(u) PROVE WholeAt(s)'
  BY <1>5 DEF UploadOpens, UploadGoes
<1>6. ASSUME NEW u \in Uploads, UploadEnds(u) PROVE WholeAt(s)'
  BY <1>6 DEF UploadEnds, UploadGoes
<1>7. ASSUME NEW u \in Uploads, UploadRejected(u) PROVE WholeAt(s)'
  BY <1>7 DEF UploadRejected, UploadGoes
<1>8. ASSUME NEW u \in Uploads, UploadAborted(u) PROVE WholeAt(s)'
  BY <1>8 DEF UploadAborted, UploadGoes
<1>9. ASSUME NEW u \in Uploads, UploadMarks(u) PROVE WholeAt(s)'
  BY <1>9 DEF UploadMarks, UploadGoes
<1>10. ASSUME NEW t \in Starts, StartTooLate(t) PROVE WholeAt(s)'
  BY <1>10 DEF StartTooLate, StartRefused, Answer, StartGoes
<1>11. ASSUME NEW t \in Starts, StartQueues(t) PROVE WholeAt(s)'
  BY <1>11 DEF StartQueues, StartGoes
<1>12. ASSUME NEW t \in Starts, StartGranted(t) PROVE WholeAt(s)'
  BY <1>12 DEF StartGranted, StartGoes
<1>13. ASSUME NEW t \in Starts, PipelineStarts(t) PROVE WholeAt(s)'
  BY <1>13 DEF PipelineStarts, StartGoes
<1>14. ASSUME NEW t \in Starts, PipelineReads(t) PROVE WholeAt(s)'
  BY <1>14 DEF PipelineReads, StartGoes, Contents
<1>15. ASSUME NEW t \in Starts, PipelineReturns(t) PROVE WholeAt(s)'
  BY <1>15 DEF PipelineReturns, StartGoes
<1>16. ASSUME NEW t \in Starts, StartFails(t) PROVE WholeAt(s)'
  BY <1>16 DEF StartFails, Answer, StartGoes, Rmtree, Orchestrating
<1>17. ASSUME NEW t \in Starts, StartConsumes(t) PROVE WholeAt(s)'
  BY <1>17 DEF StartConsumes, StartGoes, Rmtree
<1>18. ASSUME NEW t \in Starts, StartCommits(t) PROVE WholeAt(s)'
  BY <1>18 DEF StartCommits, Answer, StartGoes, Committed
<1>19. ASSUME NEW t \in Starts, StartCommitFails(t) PROVE WholeAt(s)'
  BY <1>19 DEF StartCommitFails, Answer, StartGoes, RolledBack
<1>20. ASSUME NEW t \in Starts, StartCommitCancelled(t) PROVE WholeAt(s)'
  BY <1>20 DEF StartCommitCancelled, Answer, StartGoes, Committed, RolledBack
<1>21. ASSUME NEW t \in Starts, StartSelects(t) PROVE WholeAt(s)'
  BY <1>21 DEF StartSelects, StartGoes
<1>22. ASSUME NEW t \in Starts, StartFindsNoUpload(t) PROVE WholeAt(s)'
  BY <1>22 DEF StartFindsNoUpload, StartRefused, Answer, StartGoes
<1>23. CASE SweepSelects
  BY <1>23 DEF SweepSelects
<1>24. CASE SweepRemoves
  BY <1>24 DEF SweepRemoves, Rmtree
<1>25. CASE SweepMarks
  BY <1>25 DEF SweepMarks
<1>26. CASE SweepFails
  BY <1>26 DEF SweepFails
<1>27. CASE Crash
  BY <1>27 DEF Crash
<1>28. CASE UNCHANGED vars
  BY <1>28
<1> QED
  BY <1>1, <1>2, <1>3, <1>4, <1>5, <1>6, <1>7, <1>8, <1>9, <1>10, <1>11, <1>12, <1>13, <1>14, <1>15, <1>16, <1>17, <1>18, <1>19, <1>20, <1>21, <1>22, <1>23, <1>24, <1>25, <1>26, <1>27, <1>28
     DEF Next, UploadStep, StartStep, StartTimesOut, Sweep

(***************************************************************************)
(* upload_audio marks the row after the last byte, start_transcription     *)
(* looks at the row first: what a session's single POST brought is         *)
(* transcribed whole, for any number of starts, sweeps and crashes.        *)
(***************************************************************************)
THEOREM UploadIsWhole == Spec => []WholeUpload
<1>1. Init => WholeOK
  BY DEF Init, WholeOK, WholeAt, SinglePost, UploadsOf, StartsOf
<1>2. TypeOK /\ WholeOK => WholeUpload
  BY DEF TypeOK, WholeOK, WholeAt, WholeUpload, StartsOf
<1> QED
  BY <1>1, <1>2, WholeStep, TypeCorrect, PTL DEF Spec

-----------------------------------------------------------------------------
(* The states of a session *)

\* The ways of upload_sessions.status in wiki/05_modelo_datos.md, before expiry.
Ways == {<<"none", "requested">>, <<"requested", "uploaded">>, <<"uploaded", "consumed">>}

\* Until its grace period is over, a session that got a single POST goes these ways
\* and no other; what is consumed stays consumed.
StatusGoesForward ==
    [][\A s \in Sessions :
          SinglePost(s)' /\ s \notin late /\ status'[s] # status[s]
              => <<status[s], status'[s]>> \in Ways]_vars

\* Before expiry a POST under way is about a row that waits for it, and a start
\* under way about one that has its file.
RouteAt(s) ==
    s \notin late =>
      /\ status[s] # "expired"
      /\ \A t \in StartsOf(s) :
            at[t] \notin {"idle", "done"} => status[s] \in {"uploaded", "consumed"}
      /\ SinglePost(s) =>
            \A u \in UploadsOf(s) : up[u] \notin {"idle", "done"} => status[s] = "requested"

RouteOK == \A s \in Sessions : RouteAt(s)

\* A start commits over the row it has found, or over one that another start has
\* committed; a single POST marks the row it has found; the sweep's are late.
LEMMA RouteStep ==
    ASSUME TypeOK, DiskOK, RouteOK, [Next]_vars
    PROVE  RouteOK'
<1> SUFFICES ASSUME NEW s \in Sessions PROVE RouteAt(s)'
  BY DEF RouteOK
<1> USE UploadAssumption DEF TypeOK, DiskOK, RouteOK, RouteAt, SinglePost, UploadsOf, StartsOf
<1>1. ASSUME NEW i \in Sessions, Request(i) PROVE RouteAt(s)'
  BY <1>1 DEF Request
<1>2. ASSUME NEW i \in Sessions, Elapse(i) PROVE RouteAt(s)'
  BY <1>2 DEF Elapse
<1>3. ASSUME NEW u \in Uploads, UploadSelects(u) PROVE RouteAt(s)'
  BY <1>3 DEF UploadSelects, UploadGoes
<1>4. ASSUME NEW u \in Uploads, UploadTooLate(u) PROVE RouteAt(s)'
  BY <1>4 DEF UploadTooLate, UploadGoes
<1>5. ASSUME NEW u \in Uploads, UploadOpens(u) PROVE RouteAt(s)'
  BY <1>5 DEF UploadOpens, UploadGoes
<1>6. ASSUME NEW u \in Uploads, UploadEnds(u) PROVE RouteAt(s)'
  BY <1>6 DEF UploadEnds, UploadGoes
<1>7. ASSUME NEW u \in Uploads, UploadRejected(u) PROVE RouteAt(s)'
  BY <1>7 DEF UploadRejected, UploadGoes
<1>8. ASSUME NEW u \in Uploads, UploadAborted(u) PROVE RouteAt(s)'
  BY <1>8 DEF UploadAborted, UploadGoes
<1>9. ASSUME NEW u \in Uploads, UploadMarks(u) PROVE RouteAt(s)'
  BY <1>9 DEF UploadMarks, UploadGoes
<1>10. ASSUME NEW t \in Starts, StartTooLate(t) PROVE RouteAt(s)'
  BY <1>10 DEF StartTooLate, StartRefused, Answer, StartGoes
<1>11. ASSUME NEW t \in Starts, StartQueues(t) PROVE RouteAt(s)'
  BY <1>11 DEF StartQueues, StartGoes
<1>12. ASSUME NEW t \in Starts, StartGranted(t) PROVE RouteAt(s)'
  BY <1>12 DEF StartGranted, StartGoes
<1>13. ASSUME NEW t \in Starts, PipelineStarts(t) PROVE RouteAt(s)'
  BY <1>13 DEF PipelineStarts, StartGoes
<1>14. ASSUME NEW t \in Starts, PipelineReads(t) PROVE RouteAt(s)'
  BY <1>14 DEF PipelineReads, StartGoes, Contents
<1>15. ASSUME NEW t \in Starts, PipelineReturns(t) PROVE RouteAt(s)'
  BY <1>15 DEF PipelineReturns, StartGoes
<1>16. ASSUME NEW t \in Starts, StartFails(t) PROVE RouteAt(s)'
  BY <1>16 DEF StartFails, Answer, StartGoes, Rmtree, Orchestrating
<1>17. ASSUME NEW t \in Starts, StartConsumes(t) PROVE RouteAt(s)'
  BY <1>17 DEF StartConsumes, StartGoes, Rmtree
<1>18. ASSUME NEW t \in Starts, StartCommits(t) PROVE RouteAt(s)'
  BY <1>18 DEF StartCommits, Answer, StartGoes, Committed
<1>19. ASSUME NEW t \in Starts, StartCommitFails(t) PROVE RouteAt(s)'
  BY <1>19 DEF StartCommitFails, Answer, StartGoes, RolledBack
<1>20. ASSUME NEW t \in Starts, StartCommitCancelled(t) PROVE RouteAt(s)'
  BY <1>20 DEF StartCommitCancelled, Answer, StartGoes, Committed, RolledBack
<1>21. ASSUME NEW t \in Starts, StartSelects(t) PROVE RouteAt(s)'
  BY <1>21 DEF StartSelects, StartGoes
<1>22. ASSUME NEW t \in Starts, StartFindsNoUpload(t) PROVE RouteAt(s)'
  BY <1>22 DEF StartFindsNoUpload, StartRefused, Answer, StartGoes
<1>23. CASE SweepSelects
  BY <1>23 DEF SweepSelects
<1>24. CASE SweepRemoves
  BY <1>24 DEF SweepRemoves, Rmtree
<1>25. CASE SweepMarks
  BY <1>25 DEF SweepMarks
<1>26. CASE SweepFails
  BY <1>26 DEF SweepFails
<1>27. CASE Crash
  BY <1>27 DEF Crash
<1>28. CASE UNCHANGED vars
  BY <1>28
<1> QED
  BY <1>1, <1>2, <1>3, <1>4, <1>5, <1>6, <1>7, <1>8, <1>9, <1>10, <1>11, <1>12, <1>13, <1>14, <1>15, <1>16, <1>17, <1>18, <1>19, <1>20, <1>21, <1>22, <1>23, <1>24, <1>25, <1>26, <1>27, <1>28
     DEF Next, UploadStep, StartStep, StartTimesOut, Sweep

\* upload_audio and start_transcription write the status WHERE id, whatever it has
\* become since they looked: for a session with a single POST, and before the sweep
\* can select it, it has not become anything else (the diagram of
\* wiki/05_modelo_datos.md).
THEOREM StatusIsMonotone == Spec => StatusGoesForward
<1> DEFINE Way == \A s \in Sessions :
                     SinglePost(s)' /\ s \notin late /\ status'[s] # status[s]
                         => <<status[s], status'[s]>> \in Ways
<1>1. Init => RouteOK
  BY DEF Init, RouteOK, RouteAt, SinglePost, UploadsOf, StartsOf
<1>2. IInv /\ RouteOK /\ [Next]_vars => RouteOK'
  BY RouteStep DEF IInv
<1>3. ASSUME IInv, RouteOK, [Next]_vars PROVE Way
  <2> SUFFICES ASSUME NEW s \in Sessions, SinglePost(s)', s \notin late, status'[s] # status[s]
               PROVE  <<status[s], status'[s]>> \in Ways
    OBVIOUS
  <2>0. TypeOK /\ DiskOK /\ RouteAt(s)
    BY <1>3 DEF IInv, RouteOK
  <2>1. ASSUME NEW i \in Sessions, Request(i) PROVE <<status[s], status'[s]>> \in Ways
    BY <2>0, <2>1 DEF Request, TypeOK, Ways
  <2>2. ASSUME NEW u \in Uploads, UploadMarks(u) PROVE <<status[s], status'[s]>> \in Ways
    <3>1. target[u] = s /\ up[u] = "received" /\ status'[s] = "uploaded"
      BY <2>0, <2>2 DEF UploadMarks, TypeOK
    <3>2. SinglePost(s)
      BY <2>0, <2>2 DEF UploadMarks, UploadGoes, SinglePost, UploadsOf, TypeOK
    <3> QED BY <2>0, <3>1, <3>2 DEF RouteAt, UploadsOf, Ways
  <2>3. ASSUME NEW t \in Starts, status' = [status EXCEPT ![target[t]] = "consumed"],
               at[t] = "committing"
        PROVE  <<status[s], status'[s]>> \in Ways
    BY <2>0, <2>3 DEF TypeOK, RouteAt, StartsOf, Ways
  <2>4. CASE SweepMarks
    BY <2>0, <2>4 DEF SweepMarks, TypeOK, DiskOK
  <2>5. CASE Crash
    <3>1. PICK t \in Starts : at[t] = "committing" /\ target[t] = s /\ status'[s] = "consumed"
      BY <2>0, <2>5 DEF Crash, TypeOK
    <3> QED BY <2>0, <3>1 DEF RouteAt, StartsOf, Ways
  <2>6. CASE UNCHANGED status
    BY <2>6
  <2> QED
    BY <1>3, <2>1, <2>2, <2>3, <2>4, <2>5, <2>6
       DEF Next, UploadStep, StartStep, StartTimesOut, Sweep, Elapse, UploadSelects, UploadTooLate,
           UploadOpens, UploadEnds, UploadRejected, UploadAborted, StartTooLate, StartRefused,
           StartQueues, StartGranted, PipelineStarts, PipelineReads, PipelineReturns, StartFails,
           StartConsumes, StartCommits, StartCommitFails, StartCommitCancelled, Committed,
           RolledBack, StartSelects, StartFindsNoUpload, SweepSelects, SweepRemoves, SweepFails
<1> QED
  BY <1>1, <1>2, <1>3, Invariance, PTL DEF Spec, StatusGoesForward
=============================================================================
