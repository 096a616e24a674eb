--------------------------- MODULE PipelineProofs ---------------------------
(***************************************************************************)
(* Proofs about the transcription of a recording: Pipeline, for any        *)
(* requests, audios and number of workers; and its two parts that compute, *)
(* Wav, for chunks of any size in any number, and Speakers, for any        *)
(* labels, times, turns, words and max_speakers.                           *)
(***************************************************************************)
EXTENDS Pipeline, Wav, Speakers, TLAPS, FiniteSetTheorems, WellFoundedInduction

Places == Stages \cup {"new", "receiving", "waiting", "granted", "unwinding",
                       "committing", "done"}
Threads == {"none", "queued", "running", "done", "failed"}
Results == {"none", "ok", "rejected", "busy", "timeout", "error", "cancelled",
            "aborted"}

ThreadStages == {"normalize", "stt", "diarize"}

\* Who holds the lock, and what its thread and its file are.
LockOK(r) ==
    /\ holder = r <=> at[r] \in Stages \cup {"granted", "unwinding"}
    /\ thread[r] # "none" => at[r] \in ThreadStages
    /\ at[r] = "normalize" /\ thread[r] = "done" => wav[r] = "there"
    /\ at[r] \in GpuStages => wav[r] = "there"

\* An abandoned thread is the only one that writes for a request that is over.  Such a
\* request has not succeeded, and has not looked into the cache if the thread is one
\* that normalises.
FilesOK(r) ==
    /\ \A s \in Stages : <<r, s>> \in abandoned =>
          at[r] \in {"unwinding", "done"} /\ result[r] \in {"timeout", "cancelled"}
    /\ <<r, "normalize">> \in abandoned => lookup[r] = "none"
    /\ at[r] = "normalize" => lookup[r] = "none"
    /\ at[r] \in {"new", "receiving", "waiting", "granted"} => lookup[r] = "none"
    /\ at[r] = "committing" => wav[r] # "there"
    /\ at[r] \notin Stages /\ lookup[r] # "none" => wav[r] # "there"
    /\ result[r] = "ok" => at[r] = "done" /\ wav[r] # "there"
    /\ at[r] = "done" /\ result[r] # "aborted" => raw[r] # "there"

\* The row goes with the place and the answer.
RowOK(r) ==
    /\ at[r] = "unwinding" => result[r] \in {"timeout", "cancelled"}
    /\ at[r] \notin {"unwinding", "done"} => result[r] = "none"
    /\ at[r] \notin {"committing", "done"} => row[r] = "none"
    /\ at[r] = "committing" => row[r] = "flushed"
    /\ at[r] = "done" /\ result[r] = "ok" => row[r] = "committed"
    /\ at[r] = "done" /\ result[r] \in {"rejected", "busy", "timeout", "error", "aborted"}
          => row[r] = "none"

RequestsOK == \A r \in Requests : LockOK(r) /\ FilesOK(r) /\ RowOK(r)

\* r is past its cache write, or its cache hit.
Past(r) == at[r] = "flush" \/ row[r] # "none"

\* Between a miss and its write nobody else writes the key; what was computed
\* is in the cache, and computed once.
CacheOK ==
    /\ \A r \in Requests : at[r] \in GpuStages => Audio[r] \notin cached
    /\ \A r \in Requests : Past(r) /\ lookup[r] # "hit" => Audio[r] \in cached
    /\ \A q, r \in Requests :
          q # r /\ Audio[q] = Audio[r] /\ lookup[q] # "hit" /\ lookup[r] # "hit"
          => ~(Past(q) /\ Past(r))

IInv == TypeOK /\ RequestsOK /\ CacheOK

-----------------------------------------------------------------------------
(***************************************************************************)
(* Types.                                                                  *)
(***************************************************************************)
LEMMA InitTypes == Init => TypeOK
BY DEF Init, TypeOK, Lock!MutexInit, Stages, File

\* The steps of r, by what they do to the threads.
ThreadOf(r) == ThreadStarts(r) \/ ThreadEnds(r)
Before(r) ==
    \/ Receive(r) \/ ReceiveEnds(r) \/ ReceiveFails(r) \/ ReceiveCancelled(r)
    \/ Granted(r) \/ LeavesQueue(r)
Staged(r) ==
    \/ StartPipeline(r) \/ CacheHit(r) \/ CacheMiss(r) \/ Diarize(r) \/ CachePut(r)
Stopped(r) == \E o \in {"timeout", "cancelled"} : StopPipeline(r, o)
After(r) ==
    \/ PipelineReturns(r) \/ PipelineFails(r) \/ Unwound(r)
    \/ Commit(r) \/ CommitFails(r) \/ CommitCancelled(r)

LEMMA NextCases ==
    ASSUME Next
    PROVE  \/ \E r \in Requests :
                 ThreadOf(r) \/ Before(r) \/ Staged(r) \/ Stopped(r) \/ After(r)
           \/ \E j \in abandoned : AbandonedEnds(j)
BY DEF Next, ThreadStep, LoopStep, ClientStep, ThreadOf, Before, Staged, Stopped, After,
       PipelineTimesOut, CancelPipeline

LEMMA WritesWav ==
    ASSUME TypeOK, NEW s, NEW r \in Requests, NEW ok \in BOOLEAN,
           NEW w \in Writes(s, r, ok)
    PROVE  /\ w \in [Requests -> File]
           /\ \A q \in Requests : q # r => w[q] = wav[q]
           /\ w[r] \in {wav[r], "there"}
           /\ s = "normalize" /\ ok => w[r] = "there"
           /\ s # "normalize" => w = wav
BY DEF Writes, TypeOK, File

\* A thread writes its own request's file only.
LEMMA ThreadLeaves ==
    ASSUME TypeOK, NEW r \in Requests, ThreadOf(r)
    PROVE  /\ wav' \in [Requests -> File]
           /\ \A q \in Requests : q # r => wav'[q] = wav[q]
           /\ wav[r] = "there" => wav'[r] = "there"
           /\ ThreadEnds(r) /\ at[r] = "normalize" /\ thread'[r] = "done" => wav'[r] = "there"
<1>1. CASE ThreadStarts(r)
  BY <1>1 DEF ThreadStarts, ThreadEnds, TypeOK
<1>2. CASE ThreadEnds(r)
  <2>1. PICK ok \in BOOLEAN :
           /\ thread' = [thread EXCEPT ![r] = IF ok THEN "done" ELSE "failed"]
           /\ wav' \in Writes(at[r], r, ok)
    BY <1>2 DEF ThreadEnds
  <2>2. thread'[r] = "done" => ok
    BY <2>1 DEF TypeOK
  <2> QED BY <2>1, <2>2, WritesWav
<1> QED BY <1>1, <1>2 DEF ThreadOf

\* A deleted file is gone or has leaked; it is not simply there.
LEMMA UnlinkedIs ==
    ASSUME NEW f, NEW g \in Unlinked(f)
    PROVE  g \in {"none", "leaked"}
BY DEF Unlinked

\* What the answer leaves of the upload, and the finally clause of the WAV.
LEMMA AnswerLeaves ==
    ASSUME TypeOK, NEW r \in Requests, NEW o, Answer(r, o)
    PROVE  /\ at' = [at EXCEPT ![r] = "done"] /\ result' = [result EXCEPT ![r] = o]
           /\ raw' \in [Requests -> File] /\ raw'[r] # "there"
           /\ \A q \in Requests : q # r => raw'[q] = raw[q]
<1>1. PICK f \in Unlinked(raw[r]) : raw' = [raw EXCEPT ![r] = f]
  BY DEF Answer
<1>2. f \in {"none", "leaked"}
  BY UnlinkedIs
<1> QED BY <1>1, <1>2 DEF Answer, TypeOK, File

LEMMA UnlinkWavLeaves ==
    ASSUME TypeOK, NEW r \in Requests, UnlinkWav(r)
    PROVE  /\ wav' \in [Requests -> File]
           /\ \A q \in Requests : q # r => wav'[q] = wav[q]
           /\ ~(at[r] = "normalize" /\ thread[r] # "done") => wav'[r] # "there"
<1>1. PICK f \in IF at[r] = "normalize" /\ thread[r] # "done" THEN {wav[r]} ELSE Unlinked(wav[r]) :
         wav' = [wav EXCEPT ![r] = f]
  BY DEF UnlinkWav
<1>2. /\ f = wav[r] \/ f \in {"none", "leaked"}
      /\ ~(at[r] = "normalize" /\ thread[r] # "done") => f \in {"none", "leaked"}
  BY <1>1, UnlinkedIs
<1> QED BY <1>1, <1>2 DEF TypeOK, File

LEMMA StopLeaves ==
    ASSUME TypeOK, NEW r \in Requests, NEW o, StopPipeline(r, o)
    PROVE  /\ wav' \in [Requests -> File]
           /\ \A q \in Requests : q # r => wav'[q] = wav[q]
           /\ at[r] # "normalize" => wav'[r] # "there"
<1>1. CASE at[r] = "normalize"
  BY <1>1 DEF StopPipeline, TypeOK
<1>2. CASE at[r] # "normalize"
  BY <1>2, UnlinkWavLeaves DEF StopPipeline
<1> QED BY <1>1, <1>2

LEMMA NextTypes == TypeOK /\ [Next]_vars => TypeOK'
<1> SUFFICES ASSUME TypeOK, [Next]_vars PROVE TypeOK'
  OBVIOUS
<1>1. CASE UNCHANGED vars
  BY <1>1 DEF TypeOK, vars
<1>2. ASSUME NEW j \in abandoned, AbandonedEnds(j) PROVE TypeOK'
  <2>1. j[1] \in Requests
    BY DEF TypeOK
  <2>2. wav' \in [Requests -> File]
    BY <1>2, <2>1, WritesWav DEF AbandonedEnds
  <2> QED BY <1>2, <2>2 DEF AbandonedEnds, threadFrame, TypeOK
<1>3. ASSUME NEW r \in Requests, ThreadOf(r) PROVE TypeOK'
  <2>1. wav' \in [Requests -> File]
    BY <1>3, ThreadLeaves
  <2> QED BY <1>3, <2>1 DEF ThreadOf, ThreadStarts, ThreadEnds, threadFrame, TypeOK
<1>4. ASSUME NEW r \in Requests, Before(r) PROVE TypeOK'
  <2> USE DEF TypeOK, Stages
  <2>1. at' \in [Requests -> Stages \cup {"new", "receiving", "waiting", "granted",
                                          "unwinding", "committing", "done"}]
    BY <1>4 DEF Before, Receive, ReceiveEnds, ReceiveFails, ReceiveCancelled, Granted,
       LeavesQueue, Answer
  <2>2. result' \in [Requests -> {"none", "ok", "rejected", "busy", "timeout",
                                  "error", "cancelled", "aborted"}]
    BY <1>4 DEF Before, Receive, ReceiveEnds, ReceiveFails, ReceiveCancelled, Granted,
       LeavesQueue, Answer
  <2>3. /\ raw' \in [Requests -> File] /\ holder' \in Requests \cup {NoRequest}
        /\ UNCHANGED <<busy, thread, abandoned, wav, cached, lookup, row>>
    BY <1>4, AnswerLeaves DEF Before, Receive, ReceiveEnds, ReceiveFails, ReceiveCancelled, Granted,
       LeavesQueue, Lock!Enter, File
  <2> QED BY <2>1, <2>2, <2>3
<1>5. ASSUME NEW r \in Requests, Staged(r) PROVE TypeOK'
  <2> USE DEF TypeOK, Stages
  <2>1. /\ at' \in [Requests -> Stages \cup {"new", "receiving", "waiting", "granted",
                                             "unwinding", "committing", "done"}]
        /\ thread' \in [Requests -> {"none", "queued", "running", "done", "failed"}]
    BY <1>5 DEF Staged, StartPipeline, CacheHit, CacheMiss, Diarize, CachePut, Submit, Persist
  <2>2. /\ busy' \in SUBSET Requests /\ cached' \in SUBSET Audios
        /\ lookup' \in [Requests -> {"none", "hit", "miss"}]
        /\ UNCHANGED <<holder, abandoned, raw, wav, row, result>>
    BY <1>5, PipelineAssumption DEF Staged, StartPipeline, CacheHit, CacheMiss, Diarize,
       CachePut, Lock!Start
  <2> QED BY <2>1, <2>2
<1>6. ASSUME NEW r \in Requests, Stopped(r) PROVE TypeOK'
  <2> PICK o \in {"timeout", "cancelled"} : StopPipeline(r, o)
    BY <1>6 DEF Stopped
  <2>1. /\ at' \in [Requests -> Stages \cup {"new", "receiving", "waiting", "granted",
                                             "unwinding", "committing", "done"}]
        /\ result' \in [Requests -> {"none", "ok", "rejected", "busy", "timeout",
                                     "error", "cancelled", "aborted"}]
        /\ thread' \in [Requests -> {"none", "queued", "running", "done", "failed"}]
    BY DEF StopPipeline, Abandon, TypeOK, Stages
  <2>2. abandoned' \in SUBSET (Requests \X Stages)
    BY DEF StopPipeline, Abandon, TypeOK
  <2>3. wav' \in [Requests -> File] /\ UNCHANGED <<holder, raw, cached, lookup, row>>
        /\ busy' \in SUBSET Requests
    BY StopLeaves DEF StopPipeline, Lock!Stop, TypeOK
  <2> QED BY <2>1, <2>2, <2>3 DEF TypeOK
<1>7. ASSUME NEW r \in Requests, After(r) PROVE TypeOK'
  <2> USE DEF TypeOK, Stages
  <2>1. at' \in [Requests -> Stages \cup {"new", "receiving", "waiting", "granted",
                                          "unwinding", "committing", "done"}]
    BY <1>7 DEF After, PipelineReturns, PipelineFails, Unwound, Commit, CommitFails,
       CommitCancelled, Answer
  <2>2. result' \in [Requests -> {"none", "ok", "rejected", "busy", "timeout",
                                  "error", "cancelled", "aborted"}]
    BY <1>7 DEF After, PipelineReturns, PipelineFails, Unwound, Commit, CommitFails,
       CommitCancelled, Answer
  <2>3. row' \in [Requests -> {"none", "flushed", "committed"}]
        /\ thread' \in [Requests -> {"none", "queued", "running", "done", "failed"}]
    BY <1>7 DEF After, PipelineReturns, PipelineFails, Unwound, Commit, CommitFails,
       CommitCancelled
  <2>4. /\ holder' \in Requests \cup {NoRequest} /\ busy' \in SUBSET Requests
        /\ raw' \in [Requests -> File] /\ wav' \in [Requests -> File]
        /\ UNCHANGED <<abandoned, cached, lookup>>
    BY <1>7, AnswerLeaves, UnlinkWavLeaves DEF After, PipelineReturns, PipelineFails, Unwound,
       Commit, CommitFails, CommitCancelled, Lock!Leave
  <2> QED BY <2>1, <2>2, <2>3, <2>4
<1> QED BY <1>1, <1>2, <1>3, <1>4, <1>5, <1>6, <1>7, NextCases

\* Every variable keeps its type.
THEOREM TypeCorrect == Spec => []TypeOK
<1>1. QED BY InitTypes, NextTypes, PTL DEF Spec

-----------------------------------------------------------------------------
(***************************************************************************)
(* The requests.                                                           *)
(***************************************************************************)
Step(r) == ThreadOf(r) \/ Before(r) \/ Staged(r) \/ Stopped(r) \/ After(r)

\* A step of r leaves what belongs to another request alone.
LEMMA OthersStay ==
    ASSUME TypeOK, NEW r \in Requests, Step(r), NEW q \in Requests, q # r
    PROVE  /\ at'[q] = at[q] /\ thread'[q] = thread[q]
           /\ row'[q] = row[q] /\ result'[q] = result[q]
           /\ wav'[q] = wav[q] /\ raw'[q] = raw[q] /\ lookup'[q] = lookup[q]
           /\ holder' = q <=> holder = q
           /\ \A s \in Stages : <<q, s>> \in abandoned' <=> <<q, s>> \in abandoned
<1> USE PipelineAssumption
<1>1. CASE ThreadOf(r)
  <2>1. wav'[q] = wav[q]
    BY <1>1, ThreadLeaves
  <2> QED BY <1>1, <2>1 DEF ThreadOf, ThreadStarts, ThreadEnds, threadFrame, TypeOK
<1>2. CASE Before(r)
  BY <1>2, AnswerLeaves DEF Before, Receive, ReceiveEnds, ReceiveFails, ReceiveCancelled,
     Granted, LeavesQueue, Lock!Enter, TypeOK
<1>3. CASE Staged(r)
  BY <1>3 DEF Staged, StartPipeline, CacheHit, CacheMiss, Diarize, CachePut, Submit,
     Persist, Lock!Start, TypeOK
<1>4. CASE Stopped(r)
  <2> PICK o \in {"timeout", "cancelled"} : StopPipeline(r, o)
    BY <1>4 DEF Stopped
  <2>1. \A s \in Stages : <<q, s>> \in abandoned' <=> <<q, s>> \in abandoned
    BY DEF StopPipeline, Abandon
  <2> QED BY <2>1, StopLeaves DEF StopPipeline, Abandon, Lock!Stop, TypeOK
<1>5. CASE After(r)
  BY <1>5, AnswerLeaves, UnlinkWavLeaves DEF After, PipelineReturns, PipelineFails, Unwound,
     Commit, CommitFails, CommitCancelled, Lock!Leave, TypeOK
<1> QED BY <1>1, <1>2, <1>3, <1>4, <1>5 DEF Step

LEMMA OwnStep ==
    ASSUME TypeOK, RequestsOK, NEW r \in Requests, Step(r)
    PROVE  LockOK(r)' /\ FilesOK(r)' /\ RowOK(r)'
<1> USE PipelineAssumption
<1>0. LockOK(r) /\ FilesOK(r) /\ RowOK(r)
  BY DEF RequestsOK
<1>1. CASE ThreadOf(r)
  <2>0. at[r] \in Stages /\ at[r] \notin {"committing", "done", "unwinding"}
    BY <1>0, <1>1 DEF ThreadOf, ThreadStarts, ThreadEnds, LockOK, ThreadStages, Stages
  <2>1. /\ wav[r] = "there" => wav'[r] = "there"
        /\ at[r] = "normalize" /\ thread'[r] = "done" => wav'[r] = "there"
    <3>1. CASE ThreadStarts(r)
      BY <3>1, <1>1, ThreadLeaves DEF ThreadStarts, TypeOK
    <3>2. CASE ThreadEnds(r)
      BY <3>2, <1>1, ThreadLeaves
    <3> QED BY <1>1, <3>1, <3>2 DEF ThreadOf
  <2>2. LockOK(r)'
    BY <1>0, <1>1, <2>0, <2>1 DEF ThreadOf, ThreadStarts, ThreadEnds, threadFrame, LockOK,
       TypeOK, ThreadStages, GpuStages, Stages
  <2>3. FilesOK(r)'
    BY <1>0, <1>1, <2>0, <2>1 DEF ThreadOf, ThreadStarts, ThreadEnds, threadFrame, FilesOK, RowOK, TypeOK
  <2>4. RowOK(r)'
    BY <1>0, <1>1 DEF ThreadOf, ThreadStarts, ThreadEnds, threadFrame, RowOK, TypeOK
  <2> QED BY <2>2, <2>3, <2>4
<1>2. CASE Before(r)
  <2> USE <1>0, <1>2, AnswerLeaves DEF Before, Receive, ReceiveEnds, ReceiveFails,
        ReceiveCancelled, Granted, LeavesQueue, Lock!Enter, TypeOK
  <2>1. LockOK(r)'
    BY DEF LockOK, Stages, ThreadStages, GpuStages
  <2>2. FilesOK(r)'
    BY DEF FilesOK, RowOK, Stages
  <2>3. RowOK(r)'
    BY DEF RowOK
  <2> QED BY <2>1, <2>2, <2>3
<1>3. CASE Staged(r)
  <2> USE <1>0, <1>3 DEF Staged, StartPipeline, CacheHit, CacheMiss, Diarize, CachePut, Submit,
        Persist, StageDone, Lock!Start, TypeOK
  <2>1. LockOK(r)'
    BY DEF LockOK, Stages, ThreadStages, GpuStages
  <2>2. FilesOK(r)'
    BY DEF FilesOK, RowOK, Stages
  <2>3. RowOK(r)'
    BY DEF RowOK
  <2> QED BY <2>1, <2>2, <2>3
<1>4. CASE Stopped(r)
  <2> PICK o \in {"timeout", "cancelled"} : StopPipeline(r, o)
    BY <1>4 DEF Stopped
  <2> USE <1>0, StopLeaves DEF StopPipeline, Abandon, Lock!Stop, TypeOK
  <2>1. LockOK(r)'
    BY DEF LockOK, Stages, ThreadStages, GpuStages
  <2>2. FilesOK(r)'
    BY DEF FilesOK, RowOK, Stages
  <2>3. RowOK(r)'
    BY DEF RowOK, Stages
  <2> QED BY <2>1, <2>2, <2>3
<1>5. CASE After(r)
  <2> USE <1>0, <1>5, AnswerLeaves, UnlinkWavLeaves DEF After, PipelineReturns, PipelineFails,
        Unwound, Commit, CommitFails, CommitCancelled, StageDone, Lock!Leave, TypeOK
  <2>1. LockOK(r)'
    BY DEF LockOK, Stages, ThreadStages, GpuStages
  <2>2. FilesOK(r)'
    BY DEF FilesOK, RowOK, Stages
  <2>3. RowOK(r)'
    BY DEF RowOK, Stages
  <2> QED BY <2>1, <2>2, <2>3
<1> QED BY <1>1, <1>2, <1>3, <1>4, <1>5 DEF Step

LEMMA NextRequests == TypeOK /\ RequestsOK /\ [Next]_vars => RequestsOK'
<1> SUFFICES ASSUME TypeOK, RequestsOK, [Next]_vars PROVE RequestsOK'
  OBVIOUS
<1>1. CASE UNCHANGED vars
  <2>1. UNCHANGED <<holder, busy, at, thread, abandoned, raw, wav, lookup, row, result>>
    BY <1>1 DEF vars
  <2> SUFFICES ASSUME NEW q \in Requests PROVE LockOK(q)' /\ FilesOK(q)' /\ RowOK(q)'
    BY DEF RequestsOK
  <2>2. LockOK(q) /\ FilesOK(q) /\ RowOK(q)
    BY DEF RequestsOK
  <2>3. LockOK(q)'
    BY <2>1, <2>2 DEF LockOK
  <2>4. FilesOK(q)'
    BY <2>1, <2>2 DEF FilesOK
  <2>5. RowOK(q)'
    BY <2>1, <2>2 DEF RowOK
  <2> QED BY <2>3, <2>4, <2>5
<1>2. ASSUME NEW j \in abandoned, AbandonedEnds(j) PROVE RequestsOK'
  <2>1. j[1] \in Requests /\ j[2] \in Stages /\ <<j[1], j[2]>> = j
    BY DEF TypeOK
  <2>2. /\ \A q \in Requests : q # j[1] => wav'[q] = wav[q]
        /\ j[2] # "normalize" => wav' = wav
    BY <1>2, <2>1, WritesWav DEF AbandonedEnds
  <2> DEFINE o == j[1]
  <2>6. o \in Requests /\ FilesOK(o) /\ <<o, j[2]>> \in abandoned
    BY <2>1 DEF RequestsOK
  <2>7. /\ at[o] \in {"unwinding", "done"} /\ result[o] \in {"timeout", "cancelled"}
        /\ j[2] = "normalize" => lookup[o] = "none"
    <3> HIDE DEF o
    <3> QED BY <2>1, <2>6 DEF FilesOK
  <2>3. /\ at[j[1]] \in {"unwinding", "done"} /\ result[j[1]] \in {"timeout", "cancelled"}
        /\ j[2] = "normalize" => lookup[j[1]] = "none"
    BY <2>7
  <2>4. ASSUME NEW q \in Requests PROVE LockOK(q)' /\ FilesOK(q)' /\ RowOK(q)'
    <3>1. LockOK(q) /\ FilesOK(q) /\ RowOK(q)
      BY DEF RequestsOK
    <3>2. UNCHANGED <<holder, at, thread, raw, lookup, row, result>>
          /\ \A s \in Stages : <<q, s>> \in abandoned' => <<q, s>> \in abandoned
      BY <1>2 DEF AbandonedEnds, threadFrame
    <3>3. LockOK(q)'
      BY <2>2, <2>3, <3>1, <3>2 DEF LockOK, Stages, GpuStages
    <3>4. FilesOK(q)'
      BY <2>2, <2>3, <3>1, <3>2 DEF FilesOK, Stages
    <3>5. RowOK(q)'
      BY <3>1, <3>2 DEF RowOK
    <3> QED BY <3>3, <3>4, <3>5
  <2> QED BY <2>4 DEF RequestsOK
<1>3. ASSUME NEW r \in Requests, Step(r), NEW q \in Requests
      PROVE  LockOK(q)' /\ FilesOK(q)' /\ RowOK(q)'
  <2>1. CASE q = r
    BY <2>1, <1>3, OwnStep
  <2>2. CASE q # r
    <3>1. LockOK(q) /\ FilesOK(q) /\ RowOK(q)
      BY DEF RequestsOK
    <3> QED BY <2>2, <1>3, <3>1, OthersStay DEF LockOK, FilesOK, RowOK, Stages
  <2> QED BY <2>1, <2>2
<1> QED BY <1>1, <1>2, <1>3, NextCases DEF Step, RequestsOK

LEMMA InitRequests == Init => RequestsOK
BY PipelineAssumption
   DEF Init, Lock!MutexInit, RequestsOK, LockOK, FilesOK, RowOK, Stages, GpuStages

-----------------------------------------------------------------------------
(***************************************************************************)
(* The cache.                                                              *)
(***************************************************************************)
LEMMA NextCache == TypeOK /\ RequestsOK /\ CacheOK /\ [Next]_vars => CacheOK'
<1> SUFFICES ASSUME TypeOK, RequestsOK, CacheOK, [Next]_vars PROVE CacheOK'
  OBVIOUS
<1>1. CASE UNCHANGED vars
  BY <1>1 DEF vars, CacheOK, Past
<1>2. ASSUME NEW j \in abandoned, AbandonedEnds(j) PROVE CacheOK'
  BY <1>2 DEF AbandonedEnds, threadFrame, CacheOK, Past
<1>3. ASSUME NEW r \in Requests, Step(r) PROVE CacheOK'
  <2> USE PipelineAssumption
  <2>0. LockOK(r) /\ FilesOK(r) /\ RowOK(r)
    BY DEF RequestsOK
  <2>1. \A q \in Requests \ {r} :
          (Past(q)' <=> Past(q)) /\ at'[q] = at[q] /\ lookup'[q] = lookup[q]
    BY <1>3, OthersStay DEF Past
  \* A step that neither writes the cache nor takes r past it.
  <2>2. ASSUME UNCHANGED cached, lookup[r] = "hit" => lookup'[r] = "hit", Past(r)' => Past(r),
               at'[r] \in GpuStages => Audio[r] \notin cached
        PROVE  CacheOK'
    BY <2>1, <2>2 DEF CacheOK
  <2>3. CASE ThreadOf(r)
    BY <2>2, <2>3 DEF ThreadOf, ThreadStarts, ThreadEnds, threadFrame, Past, CacheOK
  <2>4. CASE Before(r)
    BY <2>2, <2>4 DEF Before, Receive, ReceiveEnds, ReceiveFails, ReceiveCancelled, Granted,
       LeavesQueue, Answer, Past, GpuStages, TypeOK
  <2>5. CASE StartPipeline(r) \/ CacheMiss(r) \/ Diarize(r)
    BY <2>0, <2>2, <2>5 DEF StartPipeline, CacheMiss, Diarize, Submit, StageDone, Past, GpuStages,
       CacheOK, FilesOK, TypeOK
  <2>6. CASE CacheHit(r)
    BY <2>1, <2>6 DEF CacheHit, Persist, CacheOK, GpuStages, TypeOK
  <2>7. CASE CachePut(r)
    <3>1. Audio[r] \notin cached /\ holder = r /\ lookup' = lookup
      BY <2>0, <2>7 DEF CachePut, StageDone, CacheOK, GpuStages, LockOK, Stages
    <3>2. cached' = cached \cup {Audio[r]} /\ at'[r] = "flush"
      BY <2>7 DEF CachePut, Persist, TypeOK
    <3>3. \A q \in Requests \ {r} : at[q] \notin GpuStages
      BY <3>1 DEF RequestsOK, LockOK, GpuStages, Stages
    <3>4. \A q \in Requests : Past(q) /\ lookup[q] # "hit" => Audio[q] # Audio[r]
      BY <3>1 DEF CacheOK
    <3> QED BY <2>1, <3>1, <3>2, <3>3, <3>4 DEF CacheOK, GpuStages
  <2>8. CASE Stopped(r)
    <3> PICK o \in {"timeout", "cancelled"} : StopPipeline(r, o)
      BY <2>8 DEF Stopped
    <3> QED BY <2>2 DEF StopPipeline, Past, GpuStages, TypeOK
  <2>9. CASE After(r)
    <3>1. UNCHANGED <<cached, lookup>> /\ at'[r] \in {"committing", "done"}
      BY <2>9 DEF After, PipelineReturns, PipelineFails, Unwound, Commit, CommitFails,
         CommitCancelled, Answer, TypeOK
    <3>2. Past(r)' => Past(r)
      BY <2>0, <2>9, <3>1 DEF After, PipelineReturns, PipelineFails, Unwound, Commit, CommitFails,
         CommitCancelled, Past, RowOK, TypeOK
    <3> QED BY <2>2, <3>1, <3>2 DEF GpuStages
  <2> QED BY <1>3, <2>3, <2>4, <2>5, <2>6, <2>7, <2>8, <2>9 DEF Step, Staged
<1> QED BY <1>1, <1>2, <1>3, NextCases DEF Step

LEMMA InitCache == Init => CacheOK
BY DEF Init, CacheOK, Past, GpuStages

LEMMA Invariant == Spec => []IInv
<1>1. Init => IInv
  BY InitTypes, InitRequests, InitCache DEF IInv
<1>2. IInv /\ [Next]_vars => IInv'
  BY NextTypes, NextRequests, NextCache DEF IInv
<1> QED BY <1>1, <1>2, PTL DEF Spec

-----------------------------------------------------------------------------
\* The thread a request waits for belongs to the holder of the lock, and its
\* input is on disk while it transcribes or diarises (orchestrator.py).
THEOREM ThreadSafe == Spec => []AwaitedThreadIsSafe
<1>1. IInv => AwaitedThreadIsSafe
  BY DEF IInv, RequestsOK, LockOK, AwaitedThreadIsSafe, ThreadStages, Stages
<1> QED BY <1>1, Invariant, PTL

\* Audio stays on disk only where its deletion was refused, a request was cancelled
\* while its bytes came in, or normalising them was not finished or not taken note of
\* (the finally clauses of post_transcription and _run_pipeline).
THEOREM NoAudioLeft == Spec => []NoAudioLeftBehind
<1>1. IInv => NoAudioLeftBehind
  BY DEF IInv, RequestsOK, FilesOK, NoAudioLeftBehind
<1> QED BY <1>1, Invariant, PTL

\* The same audio is computed once: the lock covers the cache from lookup to
\* write (_run_pipeline).
THEOREM OneComputation == Spec => []ComputedOnce
<1>1. IInv => ComputedOnce
  BY DEF IInv, CacheOK, Past, ComputedOnce
<1> QED BY <1>1, Invariant, PTL

\* Success means the row is committed, a failure that it is not
\* (post_transcription).
THEOREM AnswerIsTrue == Spec => []AnswerMatchesDatabase
<1>1. IInv => AnswerMatchesDatabase
  BY DEF IInv, TypeOK, RequestsOK, FilesOK, RowOK, AnswerMatchesDatabase
<1> QED BY <1>1, Invariant, PTL

-----------------------------------------------------------------------------
(* The GPU *)

\* Jobs on the GPU that nobody waits for any more.
Strays == {j \in abandoned : j[2] \in GpuStages}

\* Two jobs meet on the GPU only if a timeout or a cancellation has left one there.
OneGpuJobUnlessStopped ==
    /\ Strays = {} => OneGpuJob
    /\ \A j \in Strays : result[j[1]] \in {"timeout", "cancelled"}

\* The comment on _orchestrator_lock ("one GPU job at a time") is right but for the
\* threads a stopped pipeline leaves behind, and a stray job is always one of a
\* request that was answered as timed out or cancelled: nothing else breaks it,
\* with any number of requests and workers.
THEOREM OneGpuJobButForStrays == Spec => []OneGpuJobUnlessStopped
<1>1. ASSUME IInv, Strays = {} PROVE OneGpuJob
  <2> DEFINE jobs == {r \in RunningThreads : at[r] \in GpuStages} \cup Strays
  <2>1. jobs \in SUBSET {holder}
    BY <1>1 DEF IInv, RequestsOK, LockOK, RunningThreads, GpuStages, Stages
  <2>2. IsFiniteSet({holder}) /\ Cardinality({holder}) = 1
    BY FS_Singleton
  <2> HIDE DEF jobs
  <2>3. Cardinality(jobs) <= Cardinality({holder})
    BY <2>1, <2>2, FS_Subset
  <2>4. Cardinality(jobs) <= 1
    BY <2>2, <2>3
  <2> QED BY <2>4 DEF jobs, Strays, OneGpuJob
<1>2. IInv => \A j \in Strays : result[j[1]] \in {"timeout", "cancelled"}
  <2> SUFFICES ASSUME IInv, NEW j \in Strays PROVE result[j[1]] \in {"timeout", "cancelled"}
    OBVIOUS
  <2>1. j[1] \in Requests /\ j[2] \in Stages /\ <<j[1], j[2]>> \in abandoned
    BY DEF IInv, TypeOK, Strays
  <2> QED BY <2>1 DEF IInv, RequestsOK, FilesOK
<1> QED BY <1>1, <1>2, Invariant, PTL DEF OneGpuJobUnlessStopped

-----------------------------------------------------------------------------
(* Sets of numbers, and running totals. *)

\* Every set of naturals has a least element.
LEMMA Least ==
    ASSUME NEW T \in SUBSET Nat, T # {}
    PROVE  \E m \in T : \A k \in T : m <= k
<1>1. PICK m \in T : \A k \in T : ~(<<k, m>> \in OpToRel(<, Nat))
  BY NatLessThanWellFounded, WFMin
<1>2. \A k \in T : ~(k < m)
  BY <1>1 DEF OpToRel
<1> QED BY <1>2

\* Induction, for a set in the place of a predicate.
LEMMA Climb ==
    ASSUME NEW N \in Nat, NEW G, 0 \in G, \A n \in 1..N : n - 1 \in G => n \in G
    PROVE  0..N \subseteq G
<1> DEFINE Bad == (0..N) \ G
<1> SUFFICES ASSUME Bad # {} PROVE FALSE
  OBVIOUS
<1>1. Bad \in SUBSET Nat
  OBVIOUS
<1>2. PICK n \in Bad : \A m \in Bad : n <= m
  <2> HIDE DEF Bad
  <2> QED BY <1>1, Least
<1>3. n \in 1..N /\ n - 1 \in 0..N
  BY <1>2
<1>4. n - 1 \notin Bad
  BY <1>2, <1>3
<1> QED BY <1>2, <1>3, <1>4

\* f[n] is b and the first n numbers of d.
RunningTotal(f, N, b, d) == f = [n \in 0..N |-> IF n = 0 THEN b ELSE f[n - 1] + d[n]]

AddsUp(f, N, b, d) ==
    /\ f \in [0..N -> Int]
    /\ f[0] = b
    /\ \A n \in 1..N : f[n] = f[n - 1] + d[n]

\* Running totals exist.
LEMMA TotalsExist ==
    ASSUME NEW N \in Nat, NEW b \in Int, NEW d \in [1..N -> Int]
    PROVE  \E f : RunningTotal(f, N, b, d)
<1> DEFINE G == {n \in 0..N : \E f : AddsUp(f, n, b, d)}
<1>1. 0 \in G
  <2>1. AddsUp([i \in 0..0 |-> b], 0, b, d)
    BY DEF AddsUp
  <2> QED BY <2>1
<1>2. ASSUME NEW n \in 1..N, n - 1 \in G
      PROVE  n \in G
  <2>1. PICK f : AddsUp(f, n - 1, b, d)
    BY <1>2
  <2> DEFINE g == [i \in 0..n |-> IF i = n THEN f[n - 1] + d[n] ELSE f[i]]
  <2>2. g \in [0..n -> Int]
    <3>1. f[n - 1] + d[n] \in Int
      BY <2>1 DEF AddsUp
    <3>2. \A i \in 0..n : i # n => f[i] \in Int
      BY <2>1 DEF AddsUp
    <3> QED BY <3>1, <3>2
  <2>3. g[0] = b
    BY <2>1 DEF AddsUp
  <2>4. \A i \in 1..n : g[i] = g[i - 1] + d[i]
    <3> SUFFICES ASSUME NEW i \in 1..n PROVE g[i] = g[i - 1] + d[i]
      OBVIOUS
    <3>1. i - 1 \in 0..n /\ i - 1 # n /\ g[i - 1] = f[i - 1]
      OBVIOUS
    <3>2. CASE i = n
      BY <3>1, <3>2
    <3>3. CASE i # n
      BY <2>1, <3>1, <3>3 DEF AddsUp
    <3> QED BY <3>2, <3>3
  <2>5. AddsUp(g, n, b, d)
    BY <2>2, <2>3, <2>4 DEF AddsUp
  <2> HIDE DEF g
  <2> QED BY <2>5
<1>3. 0..N \subseteq G
  <2> HIDE DEF G
  <2> QED BY <1>1, <1>2, Climb
<1>4. PICK f : AddsUp(f, N, b, d)
  BY <1>3
<1>5. RunningTotal(f, N, b, d)
  <2>1. \A n \in 0..N : f[n] = IF n = 0 THEN b ELSE f[n - 1] + d[n]
    BY <1>4 DEF AddsUp
  <2> QED BY <1>4, <2>1 DEF AddsUp, RunningTotal
<1> QED BY <1>5

\* What satisfies the equation of a running total is one.
LEMMA TotalsAreNumbers ==
    ASSUME NEW N \in Nat, NEW b \in Int, NEW d \in [1..N -> Int], NEW f,
           RunningTotal(f, N, b, d)
    PROVE  AddsUp(f, N, b, d)
<1> DEFINE G == {n \in 0..N : f[n] \in Int}
<1>1. DOMAIN f = 0..N /\ f = [n \in DOMAIN f |-> f[n]]
  BY DEF RunningTotal
<1>2. f[0] = b
  BY DEF RunningTotal
<1>3. \A n \in 1..N : f[n] = f[n - 1] + d[n]
  BY DEF RunningTotal
<1>4. 0 \in G
  BY <1>2
<1>5. ASSUME NEW n \in 1..N, n - 1 \in G PROVE n \in G
  BY <1>3, <1>5
<1>6. 0..N \subseteq G
  <2> HIDE DEF G
  <2> QED BY <1>4, <1>5, Climb
<1>7. f \in [0..N -> Int]
  BY <1>1, <1>6
<1> QED BY <1>2, <1>3, <1>7 DEF AddsUp

\* What a chunk takes.
LEMMA ChunkLengths ==
    ASSUME NEW c \in Chunks
    PROVE  /\ c.size \in Nat /\ c.size % 2 \in {0, 1}
           /\ ChunkLength(c) = 8 + c.size + (c.size % 2)
           /\ ChunkLength(c) \in Nat /\ ChunkLength(c) >= 8
<1>1. c.size \in Nat
  BY WavAssumption DEF Chunks
<1>2. c.size % 2 \in {0, 1}
  BY <1>1
<1> QED BY <1>1, <1>2 DEF ChunkLength

\* The recursive function that Ends defines exists: a chunk ends after the one
\* before it.
LEMMA EndsAre ==
    ASSUME NEW seq \in Seq(Chunks)
    PROVE  /\ Ends(seq) \in [0..Len(seq) -> Int]
           /\ Ends(seq)[0] = 12
           /\ \A k \in 1..Len(seq) : Ends(seq)[k] = Ends(seq)[k - 1] + ChunkLength(seq[k])
<1> DEFINE N == Len(seq)
           d == [n \in 1..N |-> ChunkLength(seq[n])]
           Is(f) == f = [k \in 0..N |-> IF k = 0 THEN 12 ELSE f[k - 1] + ChunkLength(seq[k])]
<1>0. N \in Nat /\ 12 \in Int
  OBVIOUS
<1>1. d \in [1..N -> Int]
  <2>1. \A n \in 1..N : seq[n] \in Chunks
    OBVIOUS
  <2> QED BY <2>1, ChunkLengths
<1>2. \A f : Is(f) <=> RunningTotal(f, N, 12, d)
  <2>1. \A n \in 1..N : d[n] = ChunkLength(seq[n])
    OBVIOUS
  <2> HIDE DEF d
  <2> QED BY <2>1 DEF RunningTotal
<1>3. \E f : Is(f)
  <2>1. \E f : RunningTotal(f, N, 12, d)
    <3> HIDE DEF d, N
    <3> QED BY <1>0, <1>1, TotalsExist
  <2> QED BY <1>2, <2>1
<1>4. Is(Ends(seq))
  <2>1. Ends(seq) = CHOOSE g : Is(g)
    BY DEF Ends
  <2> QED BY <1>3, <2>1
<1> DEFINE g == Ends(seq)
<1> HIDE DEF g
<1>5. RunningTotal(g, N, 12, d)
  BY <1>2, <1>4 DEF g
<1>6. /\ g \in [0..N -> Int]
      /\ g[0] = 12
      /\ \A k \in 1..N : g[k] = g[k - 1] + d[k]
  <2>1. AddsUp(g, N, 12, d)
    <3> HIDE DEF d, N
    <3> QED BY <1>0, <1>1, <1>5, TotalsAreNumbers
  <2> HIDE DEF d, N
  <2> QED BY <2>1 DEF AddsUp
<1> QED BY <1>6 DEF g

\* Chunks follow each other.
LEMMA OffsetsRise ==
    ASSUME NEW seq \in Seq(Chunks)
    PROVE  /\ Offset(seq, 1) = 12
           /\ \A k \in 1..Len(seq) + 1 : Offset(seq, k) \in Int
           /\ \A k \in 1..Len(seq) : Offset(seq, k + 1) = Offset(seq, k) + ChunkLength(seq[k])
           /\ \A j, k \in 1..Len(seq) + 1 :
                 j < k => Offset(seq, j) + ChunkLength(seq[j]) <= Offset(seq, k)
<1> DEFINE N == Len(seq)
<1>0. N \in Nat /\ \A k \in 1..N : seq[k] \in Chunks
  OBVIOUS
<1>1. Offset(seq, 1) = 12
  BY EndsAre DEF Offset
<1>2. \A k \in 1..N + 1 : Offset(seq, k) \in Int
  <2> SUFFICES ASSUME NEW k \in 1..N + 1 PROVE Ends(seq)[k - 1] \in Int
    BY DEF Offset
  <2>1. k - 1 \in 0..N
    BY <1>0
  <2> QED BY <2>1, EndsAre
<1>3. \A k \in 1..N : Offset(seq, k + 1) = Offset(seq, k) + ChunkLength(seq[k])
  <2> SUFFICES ASSUME NEW k \in 1..N PROVE Offset(seq, k + 1) = Offset(seq, k) + ChunkLength(seq[k])
    OBVIOUS
  <2>1. k + 1 - 1 = k
    OBVIOUS
  <2> QED BY <2>1, EndsAre DEF Offset
<1>4. ASSUME NEW j \in 1..N + 1
      PROVE  \A k \in 1..N + 1 : j < k => Offset(seq, j) + ChunkLength(seq[j]) <= Offset(seq, k)
  <2> DEFINE G == {i \in 0..N + 1 : i > j => Offset(seq, j) + ChunkLength(seq[j]) <= Offset(seq, i)}
  <2>1. 0 \in G
    OBVIOUS
  <2>2. ASSUME NEW k \in 1..N + 1, k - 1 \in G, k > j
        PROVE  Offset(seq, j) + ChunkLength(seq[j]) <= Offset(seq, k)
    <3>1. k - 1 \in 1..N /\ j \in 1..N /\ k = (k - 1) + 1 /\ k - 1 \in 1..N + 1
      BY <1>0, <2>2
    <3>2. Offset(seq, k) = Offset(seq, k - 1) + ChunkLength(seq[k - 1])
      BY <1>3, <3>1
    <3>3. ChunkLength(seq[k - 1]) \in Nat /\ ChunkLength(seq[j]) \in Nat
      BY <1>0, <3>1, ChunkLengths
    <3>4. Offset(seq, k - 1) \in Int /\ Offset(seq, j) \in Int
      BY <1>2, <3>1
    <3>5. CASE k - 1 = j
      BY <3>2, <3>3, <3>4, <3>5
    <3>6. CASE k - 1 # j
      <4>1. k - 1 > j
        BY <2>2, <3>1, <3>6
      <4>2. Offset(seq, j) + ChunkLength(seq[j]) <= Offset(seq, k - 1)
        BY <2>2, <4>1
      <4> QED BY <3>2, <3>3, <3>4, <4>2
    <3> QED BY <3>5, <3>6
  <2>3. \A k \in 1..N + 1 : k - 1 \in G => k \in G
    BY <1>0, <2>2
  <2>4. 0..(N + 1) \subseteq G
    <3>1. N + 1 \in Nat
      BY <1>0
    <3> HIDE DEF G, N
    <3> QED BY <2>1, <2>3, <3>1, Climb
  <2> QED BY <1>0, <2>4
<1> QED BY <1>1, <1>2, <1>3, <1>4

-----------------------------------------------------------------------------
(* Wav *)

\* What ffmpeg wrote, and no more than its last chunk cut off.
WavTypeOK ==
    /\ head \in Heads /\ suffix \in AllowedExtensions \cup {"bin"}
    /\ chunks \in Seq(Chunks) /\ rest \in Nat
    /\ chunks # <<>> => rest <= ChunkLength(chunks[Len(chunks)])

\* The gate has decided on these bytes and this suffix.
GateOK ==
    /\ step = "gated" => Accepts(head, suffix)
    /\ step = "refused" => ~Accepts(head, suffix)

\* The walk is at a chunk, and the sound is not behind it.
WalkOK ==
    step = "walking" =>
      /\ chunks # <<>> /\ hash = <<>>
      /\ \E k \in 1..Len(chunks) : chunks[k].id = "data"
      /\ \E k \in 1..Len(chunks) :
            /\ pos = Offset(chunks, k)
            /\ \A j \in 1..(k - 1) : chunks[j].id # "data"

WavInv == WavTypeOK /\ GateOK /\ WalkOK /\ HashIsOfTheSound

LEMMA WavInit == WavIdle => WavInv
BY DEF WavIdle, WavInv, WavTypeOK, GateOK, WalkOK, HashIsOfTheSound, Heads, NoHead

\* ffmpeg writes one data chunk: there is one.
LEMMA OneOf ==
    ASSUME NEW n \in Nat, NEW S \in SUBSET (1..n), Cardinality(S) = 1
    PROVE  S # {}
BY FS_EmptySet

LEMMA GateStep == WavInv /\ Gate => WavInv'
BY DEF Gate, WavInv, WavTypeOK, GateOK, WalkOK, HashIsOfTheSound

LEMMA FfmpegStep == WavInv /\ FfmpegWrites => WavInv'
<1> SUFFICES ASSUME WavInv, FfmpegWrites PROVE WavInv'
  OBVIOUS
<1>1. PICK n \in 0..MaxMeta + 1 : \E seq \in [1..n -> Chunks] :
          /\ n > 0 => Cardinality({k \in 1..n : seq[k].id = "data"}) = 1
          /\ chunks' = seq
          /\ rest' \in IF n = 0 THEN {0} ELSE 0..ChunkLength(seq[n])
  BY DEF FfmpegWrites
<1>2. PICK seq \in [1..n -> Chunks] :
          /\ n > 0 => Cardinality({k \in 1..n : seq[k].id = "data"}) = 1
          /\ chunks' = seq
          /\ rest' \in IF n = 0 THEN {0} ELSE 0..ChunkLength(seq[n])
  BY <1>1
<1>3. n \in Nat
  BY WavAssumption
<1>4. chunks' \in Seq(Chunks) /\ Len(chunks') = n /\ (chunks' # <<>> <=> n # 0)
  BY <1>2, <1>3
<1>5. rest' \in Nat /\ (n # 0 => rest' <= ChunkLength(seq[n]))
  <2>1. n # 0 => ChunkLength(seq[n]) \in Nat
    BY <1>2, <1>3, ChunkLengths
  <2> QED BY <1>2, <1>3, <2>1
<1>6. WavTypeOK'
  BY <1>2, <1>4, <1>5 DEF WavInv, WavTypeOK, FfmpegWrites
<1>7. CASE n = 0
  BY <1>4, <1>6, <1>7 DEF WavInv, GateOK, WalkOK, HashIsOfTheSound, FfmpegWrites
<1>8. CASE n # 0
  <2>1. step' = "walking" /\ hash' = <<>> /\ pos' = 12
    BY <1>4, <1>8 DEF FfmpegWrites
  <2>2. \E k \in 1..n : seq[k].id = "data"
    BY <1>2, <1>3, <1>8, OneOf
  <2>3. pos' = Offset(chunks', 1)
    BY <1>4, <2>1, OffsetsRise
  <2>4. WalkOK'
    BY <1>2, <1>3, <1>4, <1>8, <2>1, <2>2, <2>3 DEF WalkOK
  <2> QED BY <1>6, <2>1, <2>4 DEF WavInv, GateOK, HashIsOfTheSound
<1> QED BY <1>7, <1>8

\* The walk is at the header of chunk k, and no data chunk is behind it.  All that
\* it reads of the file follows from k.
AtHeader(k, size, pad) ==
    /\ chunks[k].size = size /\ size % 2 = pad
    /\ pos = Offset(chunks, k)
    /\ Offset(chunks, k + 1) = pos + (8 + size + pad)
    /\ \A j \in 1..(k - 1) : chunks[j].id # "data"
    /\ k < Len(chunks) => FileEnd >= pos + (8 + size + pad)
    /\ k = Len(chunks) => FileEnd = pos + (8 + size + pad) - rest
    /\ HeaderAt(pos) = {[at |-> k, id |-> chunks[k].id, size |-> size]}

\* While the walk goes on it is at a header.
LEMMA AtAChunk ==
    ASSUME WavInv, step = "walking"
    PROVE  LET N == Len(chunks)
           IN  /\ N \in Nat /\ chunks \in Seq(Chunks) /\ rest \in Nat
               /\ DOMAIN chunks = 1..N
               /\ \E d \in 1..N : chunks[d].id = "data"
               /\ pos \in Int /\ FileEnd \in Int
               /\ \E k \in 1..N, size \in Nat, pad \in {0, 1} : AtHeader(k, size, pad)
<1> DEFINE N == Len(chunks)
<1>1. /\ N \in Nat /\ chunks \in Seq(Chunks) /\ rest \in Nat
      /\ \A j \in 1..N : chunks[j] \in Chunks
      /\ N # 0
      /\ rest <= ChunkLength(chunks[N])
      /\ DOMAIN chunks = 1..N
  BY DEF WavInv, WavTypeOK, WalkOK
<1>2. \E d \in 1..N : chunks[d].id = "data"
  BY DEF WavInv, WalkOK
<1>3. PICK k \in 1..N : /\ pos = Offset(chunks, k)
                        /\ \A j \in 1..(k - 1) : chunks[j].id # "data"
  BY DEF WavInv, WalkOK
<1>4. \A j \in 1..N : ChunkLength(chunks[j]) \in Nat /\ ChunkLength(chunks[j]) >= 8
  BY <1>1, ChunkLengths
<1>15. FileEnd = Offset(chunks, N + 1) - rest
  BY DEF FileEnd
<1>16. /\ \A j \in 1..N + 1 : Offset(chunks, j) \in Int
       /\ \A j \in 1..N : Offset(chunks, j + 1) = Offset(chunks, j) + ChunkLength(chunks[j])
       /\ \A i, j \in 1..N + 1 :
             i < j => Offset(chunks, i) + ChunkLength(chunks[i]) <= Offset(chunks, j)
  BY <1>1, OffsetsRise
<1> HIDE DEF N
<1>5. /\ \A j \in 1..N : Offset(chunks, j + 1) = Offset(chunks, j) + ChunkLength(chunks[j])
      /\ \A j \in 1..N : Offset(chunks, j) \in Int
      /\ \A i, j \in 1..N : i < j => Offset(chunks, i) + ChunkLength(chunks[i]) <= Offset(chunks, j)
  <2>1. \A j \in 1..N : j \in 1..N + 1
    BY <1>1
  <2> QED BY <1>16, <2>1
<1>6. FileEnd = Offset(chunks, N) + ChunkLength(chunks[N]) - rest
  <2>1. N \in 1..N
    BY <1>1
  <2>2. Offset(chunks, N + 1) = Offset(chunks, N) + ChunkLength(chunks[N])
    BY <1>5, <2>1
  <2> QED BY <1>1, <1>4, <1>5, <1>15, <2>1, <2>2
<1>7. pos \in Int /\ FileEnd \in Int
  <2>1. pos \in Int
    BY <1>3, <1>5
  <2>2. ChunkLength(chunks[N]) \in Nat /\ Offset(chunks, N) \in Int /\ rest \in Nat
    <3>1. N \in 1..N
      BY <1>1
    <3> QED BY <1>1, <1>4, <1>5, <3>1
  <2> QED BY <1>6, <2>1, <2>2
<1> DEFINE size == chunks[k].size
           pad == size % 2
<1>8. size \in Nat /\ pad \in {0, 1} /\ ChunkLength(chunks[k]) = 8 + size + pad
  BY <1>1, ChunkLengths
<1> HIDE DEF size, pad
<1>9. k < N => FileEnd >= pos + (8 + size + pad)
  <2>1. k < N => pos + (8 + size + pad) <= Offset(chunks, N)
    BY <1>1, <1>3, <1>5, <1>8
  <2>2. FileEnd >= Offset(chunks, N)
    BY <1>1, <1>4, <1>5, <1>6
  <2>3. Offset(chunks, N) \in Int
    BY <1>1, <1>5
  <2> HIDE DEF N
  <2> QED BY <1>7, <1>8, <2>1, <2>2, <2>3
<1>10. k = N => FileEnd = pos + (8 + size + pad) - rest
  BY <1>3, <1>6, <1>8
<1>11. \A j \in 1..N : Offset(chunks, j) = pos => j = k
  <2> SUFFICES ASSUME NEW j \in 1..N, Offset(chunks, j) = pos, j # k PROVE FALSE
    OBVIOUS
  <2>1. j < k \/ k < j
    BY <1>1
  <2>2. ChunkLength(chunks[j]) \in Nat /\ ChunkLength(chunks[j]) >= 8
    BY <1>4
  <2>3. ChunkLength(chunks[k]) \in Nat /\ ChunkLength(chunks[k]) >= 8
    BY <1>4
  <2> QED BY <1>3, <1>5, <1>7, <2>1, <2>2, <2>3
<1>12. HeaderAt(pos) = {[at |-> k, id |-> chunks[k].id, size |-> size]}
  <2>1. {j \in DOMAIN chunks : Offset(chunks, j) = pos} = {k}
    BY <1>1, <1>3, <1>11
  <2> QED BY <1>1, <1>3, <2>1 DEF HeaderAt, size
<1>13. Offset(chunks, k + 1) = pos + (8 + size + pad)
  BY <1>3, <1>5, <1>8
<1>14. chunks[k].size = size /\ size % 2 = pad
  BY DEF size, pad
<1>17. AtHeader(k, size, pad)
  BY <1>3, <1>9, <1>10, <1>12, <1>13, <1>14 DEF AtHeader, N
<1> QED BY <1>1, <1>2, <1>7, <1>8, <1>17 DEF N

\* A chunk that is not the sound has another behind it: the sound is still ahead.
LEMMA SkipStep == WavInv /\ WalkSkips => WavInv'
<1> SUFFICES ASSUME WavInv, WalkSkips PROVE WavInv'
  OBVIOUS
<1> DEFINE N == Len(chunks)
<1>0. step = "walking" /\ UNCHANGED <<step, suffix, head, chunks, rest, hash>>
  BY DEF WalkSkips
<1>1. N \in Nat /\ \E d \in 1..N : chunks[d].id = "data"
  BY <1>0, AtAChunk
<1>9. PICK k \in 1..N, size \in Nat, pad \in {0, 1} : AtHeader(k, size, pad)
  BY <1>0, AtAChunk
<1>2. /\ size % 2 = pad
      /\ Offset(chunks, k + 1) = pos + (8 + size + pad)
      /\ \A j \in 1..(k - 1) : chunks[j].id # "data"
      /\ HeaderAt(pos) = {[at |-> k, id |-> chunks[k].id, size |-> size]}
  BY <1>9 DEF AtHeader
<1>3. chunks[k].id # "data" /\ pos' = Offset(chunks, k + 1)
  BY <1>2 DEF WalkSkips, AfterChunk, ChunkLength
<1>4. \A j \in 1..k : chunks[j].id # "data"
  BY <1>2, <1>3
<1>5. k + 1 \in 1..N /\ (k + 1) - 1 = k
  <2> HIDE DEF N
  <2>1. PICK d \in 1..N : chunks[d].id = "data"
    BY <1>1
  <2>2. ~(d <= k)
    BY <1>4, <2>1
  <2> QED BY <1>1, <2>2
<1>6. WalkOK'
  <2>1. \A j \in 1..((k + 1) - 1) : chunks[j].id # "data"
    BY <1>4, <1>5
  <2> QED BY <1>0, <1>1, <1>3, <1>5, <2>1 DEF WalkOK, WavInv
<1> QED BY <1>0, <1>6 DEF WavInv, WavTypeOK, GateOK, HashIsOfTheSound

\* The walk ends without a hash only where the header of the sound is cut off.
LEMMA EndsStep == WavInv /\ WalkEnds => WavInv'
<1> SUFFICES ASSUME WavInv, WalkEnds PROVE WavInv'
  OBVIOUS
<1> DEFINE N == Len(chunks)
<1>0. step = "walking" /\ pos + 8 > FileEnd /\ step' = "hashed"
      /\ UNCHANGED <<suffix, head, chunks, rest, pos, hash>>
  BY DEF WalkEnds
<1>1. /\ N \in Nat /\ rest \in Nat /\ pos \in Int /\ FileEnd \in Int
      /\ DOMAIN chunks = 1..N
      /\ \E d \in 1..N : chunks[d].id = "data"
  BY <1>0, AtAChunk
<1>9. PICK k \in 1..N, size \in Nat, pad \in {0, 1} : AtHeader(k, size, pad)
  BY <1>0, AtAChunk
<1>2. /\ chunks[k].size = size /\ size % 2 = pad
      /\ \A j \in 1..(k - 1) : chunks[j].id # "data"
      /\ k < N => FileEnd >= pos + (8 + size + pad)
      /\ k = N => FileEnd = pos + (8 + size + pad) - rest
  BY <1>9 DEF AtHeader
<1>3. k = N /\ rest - pad > size
  <2> HIDE DEF N
  <2>1. k < N \/ k = N
    BY <1>1
  <2>2. k < N => FileEnd >= pos + (8 + size + pad)
    BY <1>2
  <2>3. k = N => FileEnd = pos + (8 + size + pad) - rest
    BY <1>2
  <2>4. pos + 8 > FileEnd /\ pos \in Int /\ FileEnd \in Int /\ rest \in Nat
    BY <1>0, <1>1
  <2> QED BY <2>1, <2>2, <2>3, <2>4
<1>4. chunks[k].id = "data"
  <2> HIDE DEF N
  <2>1. PICK d \in 1..N : chunks[d].id = "data"
    BY <1>1
  <2>2. ~(d <= k - 1)
    BY <1>2, <2>1
  <2>3. d = k
    BY <1>1, <1>3, <2>2
  <2> QED BY <2>1, <2>3
<1>5. hash = <<>>
  BY <1>0 DEF WavInv, WalkOK
<1>6. HashIsOfTheSound'
  <2>1. k \in DOMAIN chunks /\ ~(k < N) /\ ~(rest - pad <= 0)
    <3> HIDE DEF N
    <3> QED BY <1>1, <1>2, <1>3
  <2> QED BY <1>0, <1>2, <1>3, <1>4, <1>5, <2>1 DEF HashIsOfTheSound
<1> QED BY <1>0, <1>6 DEF WavInv, WavTypeOK, GateOK, WalkOK

\* The smaller of two numbers.
LEMMA MinOfTwo ==
    ASSUME NEW a \in Int, NEW b \in Int
    PROVE  Min({a, b}) = IF a <= b THEN a ELSE b
<1> DEFINE m == IF a <= b THEN a ELSE b
<1>1. m \in {a, b} /\ \A y \in {a, b} : m =< y
  OBVIOUS
<1>2. \A x \in {a, b} : (\A y \in {a, b} : x =< y) => x = m
  OBVIOUS
<1> HIDE DEF m
<1>3. Min({a, b}) \in {a, b} /\ \A y \in {a, b} : Min({a, b}) =< y
  BY <1>1 DEF Min
<1>4. Min({a, b}) = m
  BY <1>2, <1>3
<1> QED BY <1>4 DEF m

\* The first data chunk the walk meets is the only one, and it reads what is
\* there of it.
LEMMA HashStep == WavInv /\ WalkHashes => WavInv'
<1> SUFFICES ASSUME WavInv, WalkHashes PROVE WavInv'
  OBVIOUS
<1> DEFINE N == Len(chunks)
<1>0. step = "walking" /\ pos + 8 <= FileEnd /\ step' = "hashed"
      /\ UNCHANGED <<suffix, head, chunks, rest>>
  BY DEF WalkHashes
<1>1. /\ N \in Nat /\ rest \in Nat /\ pos \in Int /\ FileEnd \in Int
      /\ DOMAIN chunks = 1..N
  BY <1>0, AtAChunk
<1>9. PICK k \in 1..N, size \in Nat, pad \in {0, 1} : AtHeader(k, size, pad)
  BY <1>0, AtAChunk
<1>2. /\ chunks[k].size = size /\ size % 2 = pad
      /\ k < N => FileEnd >= pos + (8 + size + pad)
      /\ k = N => FileEnd = pos + (8 + size + pad) - rest
      /\ HeaderAt(pos) = {[at |-> k, id |-> chunks[k].id, size |-> size]}
  BY <1>9 DEF AtHeader
<1> DEFINE left == FileEnd - pos - 8
           read == Min({size, left})
<1>3. chunks[k].id = "data" /\ hash' = <<[of |-> k, bytes |-> read]>>
  <2>1. PICK c \in HeaderAt(pos) :
           c.id = "data" /\ hash' = <<[of |-> c.at, bytes |-> Min({c.size, left})]>>
    BY DEF WalkHashes
  <2>2. c.at = k /\ c.id = chunks[k].id /\ c.size = size
    BY <1>2, <2>1
  <2> HIDE DEF left
  <2> QED BY <2>1, <2>2
<1>4. read = IF size <= FileEnd - pos - 8 THEN size ELSE FileEnd - pos - 8
  <2>1. left \in Int
    BY <1>1
  <2>2. read = IF size <= left THEN size ELSE left
    <3> HIDE DEF left
    <3> QED BY <2>1, MinOfTwo
  <2> QED BY <2>2
<1> HIDE DEF left, read, N
<1>5. k < N \/ k = N
  BY <1>1
<1>6. k < N \/ rest - pad <= 0 => read = size
  <2>1. k < N => FileEnd >= pos + (8 + size + pad)
    BY <1>2
  <2>2. k = N => FileEnd = pos + (8 + size + pad) - rest
    BY <1>2
  <2>3. pos \in Int /\ FileEnd \in Int /\ rest \in Nat
    BY <1>1
  <2> QED BY <1>4, <1>5, <2>1, <2>2, <2>3
<1>7. k = N /\ rest - pad > 0 => ~(rest - pad > size) /\ read = size - (rest - pad)
  BY <1>0, <1>1, <1>2, <1>4
<1>8. HashIsOfTheSound'
  BY <1>0, <1>1, <1>2, <1>3, <1>6, <1>7 DEF HashIsOfTheSound, Sound, N
<1> QED BY <1>0, <1>8 DEF WavInv, WavTypeOK, GateOK, WalkOK

\* The inductive invariant of the gate and the walk.
LEMMA WavInvariance == WavSpec => []WavInv
<1>1. WavInv /\ UNCHANGED wavVars => WavInv'
  <2> SUFFICES ASSUME WavInv, UNCHANGED wavVars PROVE WavInv'
    OBVIOUS
  <2> USE DEF wavVars
  <2>1. WavTypeOK' /\ GateOK'
    BY DEF WavInv, WavTypeOK, GateOK
  <2>2. WalkOK'
    BY DEF WavInv, WalkOK
  <2>3. HashIsOfTheSound'
    BY DEF WavInv, HashIsOfTheSound, Sound
  <2> QED BY <2>1, <2>2, <2>3 DEF WavInv
<1>2. WavInv /\ [WavNext]_wavVars => WavInv'
  <2> HIDE DEF WavInv
  <2> QED BY <1>1, GateStep, FfmpegStep, SkipStep, EndsStep, HashStep DEF WavNext
<1> QED BY WavInit, <1>2, PTL DEF WavSpec

\* original.bin, the name of every file of an upload session, passes the gate exactly
\* if its first bytes are those of one of the allowed formats
\* (_detect_ext_by_magic in normalize_audio).
THEOREM GateSafe == WavSpec => []GateIsTheSameForBin
<1>1. WavInv => GateIsTheSameForBin
  BY DEF WavInv, WavTypeOK, GateOK, GateIsTheSameForBin, Accepts, MagicMatches, DetectExtByMagic,
     Heads, AllowedExtensions
<1> QED BY <1>1, WavInvariance, PTL

\* The cache key is made of the sound and of nothing else of the file, whatever
\* chunks surround it and however long they are; of a file cut short, of as much of
\* the sound as there is (_sha256_wav_pcm).
THEOREM HashSafe == WavSpec => []HashIsOfTheSound
<1>1. WavInv => HashIsOfTheSound
  BY DEF WavInv
<1> QED BY <1>1, WavInvariance, PTL

-----------------------------------------------------------------------------
(* Speakers *)

\* pyannote's order; turns may overlap.
InOrder(seq) == \A i, j \in 1..Len(seq) : i < j => seq[i].start <= seq[j].start

\* Of the cheapest there is a first.
LEMMA CheapestExists ==
    ASSUME NEW n \in Nat, NEW I \in SUBSET (1..n), I # {}, NEW c \in [I -> Nat]
    PROVE  \E i \in I : \A j \in I : c[i] < c[j] \/ (c[i] = c[j] /\ i <= j)
<1> DEFINE T == {c[i] : i \in I}
<1>1. PICK m \in T : \A k \in T : m <= k
  <2>1. T \in SUBSET Nat /\ T # {}
    OBVIOUS
  <2> HIDE DEF T
  <2> QED BY <2>1, Least
<1> DEFINE S == {i \in I : c[i] = m}
<1>2. PICK i \in S : \A k \in S : i <= k
  <2>1. S \in SUBSET Nat
    <3>1. 1..n \subseteq Nat
      OBVIOUS
    <3>2. I \subseteq Nat
      BY <3>1
    <3> QED BY <3>2
  <2>2. S # {}
    <3>1. PICK i \in I : m = c[i]
      BY <1>1
    <3> QED BY <3>1
  <2> HIDE DEF S
  <2> QED BY <2>1, <2>2, Least
<1>3. \A j \in I : c[i] <= c[j] /\ (c[j] = c[i] => i <= j)
  BY <1>1, <1>2
<1>4. i \in I /\ c[i] \in Nat /\ \A j \in I : c[j] \in Nat
  BY <1>2
<1>5. \A j \in I : c[i] < c[j] \/ (c[i] = c[j] /\ i <= j)
  BY <1>3, <1>4
<1> QED BY <1>4, <1>5

\* The smallest of a set of positions.
LEMMA MinIs ==
    ASSUME NEW I \in SUBSET Nat, I # {}
    PROVE  Min(I) \in I /\ \A j \in I : Min(I) <= j
<1>1. \E x \in I : \A y \in I : x =< y
  BY Least
<1> QED BY <1>1 DEF Min

\* A function on 1..n is a sequence.
LEMMA FunctionIsSequence ==
    ASSUME NEW n \in Nat, NEW S, NEW f \in [1..n -> S]
    PROVE  f \in Seq(S) /\ Len(f) = n /\ DOMAIN f = 1..n
OBVIOUS

\* Turns are intervals.
LEMMA TurnsAre ==
    ASSUME NEW seq \in Seq(Turns), NEW i \in DOMAIN seq
    PROVE  /\ seq[i] \in Turns
           /\ seq[i].start \in Nat /\ seq[i].end \in Nat /\ seq[i].start < seq[i].end
           /\ seq[i].label \in Labels
           /\ i \in 1..Len(seq) /\ Len(seq) \in Nat
<1>1. i \in 1..Len(seq) /\ Len(seq) \in Nat /\ seq[i] \in Turns
  OBVIOUS
<1> QED BY <1>1, SpeakersAssumption DEF Turns

-----------------------------------------------------------------------------
\* The recursive function that Spoken defines exists: a duration is a number.
LEMMA SpokenIs ==
    ASSUME NEW seq \in Seq(Turns), NEW s
    PROVE  Duration(seq, s) \in Int
<1> DEFINE N == Len(seq)
           said(n) == IF seq[n].label = s THEN seq[n].end - seq[n].start ELSE 0
           d == [n \in 1..N |-> said(n)]
           Is(f) == f = [n \in 0..N |-> IF n = 0 THEN 0 ELSE f[n - 1] + said(n)]
<1>0. N \in Nat /\ 0 \in Int
  OBVIOUS
<1>1. d \in [1..N -> Int]
  <2> SUFFICES ASSUME NEW n \in 1..N PROVE said(n) \in Int
    OBVIOUS
  <2>1. n \in DOMAIN seq
    OBVIOUS
  <2> QED BY <2>1, TurnsAre
<1>2. \A f : Is(f) <=> RunningTotal(f, N, 0, d)
  <2>1. \A n \in 1..N : d[n] = said(n)
    OBVIOUS
  <2> HIDE DEF d, said
  <2> QED BY <2>1 DEF RunningTotal
<1>3. \E f : Is(f)
  <2>1. \E f : RunningTotal(f, N, 0, d)
    <3> HIDE DEF d, N
    <3> QED BY <1>0, <1>1, TotalsExist
  <2> QED BY <1>2, <2>1
<1>4. Is(Spoken(seq, s))
  <2>1. Spoken(seq, s) = CHOOSE g : Is(g)
    BY DEF Spoken
  <2> QED BY <1>3, <2>1
<1> DEFINE g == Spoken(seq, s)
<1> HIDE DEF g
<1>5. RunningTotal(g, N, 0, d)
  BY <1>2, <1>4 DEF g
<1>6. g \in [0..N -> Int]
  <2>1. AddsUp(g, N, 0, d)
    <3> HIDE DEF d, N
    <3> QED BY <1>0, <1>1, <1>5, TotalsAreNumbers
  <2> HIDE DEF d, N
  <2> QED BY <2>1 DEF AddsUp
<1>7. g[N] \in Int
  BY <1>0, <1>6
<1> QED BY <1>7 DEF g, Duration

\* Who is heard has a first turn.
LEMMA FirstTurnIs ==
    ASSUME NEW seq \in Seq(Turns), NEW s \in Heard(seq)
    PROVE  FirstTurn(seq, s) \in 1..Len(seq) /\ seq[FirstTurn(seq, s)].label = s
<1> DEFINE I == {i \in DOMAIN seq : seq[i].label = s}
<1>1. I \in SUBSET Nat /\ I # {} /\ I \subseteq 1..Len(seq)
  BY DEF Heard
<1>2. Min(I) \in I
  <2> HIDE DEF I
  <2> QED BY <1>1, MinIs
<1> QED BY <1>1, <1>2 DEF FirstTurn

\* Who speaks longer goes before: a strict order of all who are heard.
LEMMA GoesBeforeIsAnOrder ==
    ASSUME NEW seq \in Seq(Turns)
    PROVE  /\ \A s \in Heard(seq) : ~GoesBefore(seq, s, s)
           /\ \A s, t \in Heard(seq) : s # t => GoesBefore(seq, s, t) \/ GoesBefore(seq, t, s)
           /\ \A s, t, u \in Heard(seq) :
                 GoesBefore(seq, s, t) /\ GoesBefore(seq, t, u) => GoesBefore(seq, s, u)
<1>1. \A s \in Heard(seq) : Duration(seq, s) \in Int
  BY SpokenIs
<1>2. \A s \in Heard(seq) : FirstTurn(seq, s) \in Int /\ seq[FirstTurn(seq, s)].label = s
  BY FirstTurnIs
<1>3. \A s \in Heard(seq) : ~GoesBefore(seq, s, s)
  BY <1>1, <1>2 DEF GoesBefore
<1>4. \A s, t \in Heard(seq) : s # t => FirstTurn(seq, s) # FirstTurn(seq, t)
  BY <1>2
<1>5. \A s, t \in Heard(seq) : s # t => GoesBefore(seq, s, t) \/ GoesBefore(seq, t, s)
  BY <1>1, <1>2, <1>4 DEF GoesBefore
<1>6. \A s, t, u \in Heard(seq) :
         GoesBefore(seq, s, t) /\ GoesBefore(seq, t, u) => GoesBefore(seq, s, u)
  BY <1>1, <1>2 DEF GoesBefore
<1> QED BY <1>3, <1>5, <1>6

\* No more labels than turns.
LEMMA HeardIsFinite ==
    ASSUME NEW seq \in Seq(Turns)
    PROVE  IsFiniteSet(Heard(seq))
<1> DEFINE f == [i \in 1..Len(seq) |-> seq[i].label]
<1>1. IsFiniteSet(1..Len(seq))
  BY FS_Interval
<1>2. f \in Surjection(1..Len(seq), Heard(seq))
  <2>1. DOMAIN seq = 1..Len(seq)
    OBVIOUS
  <2> QED BY <2>1 DEF Surjection, Heard
<1> HIDE DEF f
<1> QED BY <1>1, <1>2, FS_Surjection

\* How many go before s.
Ahead(seq, s) == {t \in Heard(seq) : GoesBefore(seq, t, s)}
Rank(seq, s) == Cardinality(Ahead(seq, s))

\* In a strict order of finitely many, who comes before has fewer ahead.
LEMMA RankRises ==
    ASSUME NEW seq \in Seq(Turns)
    PROVE  /\ \A s \in Heard(seq) : Rank(seq, s) \in Nat
           /\ \A s, t \in Heard(seq) : GoesBefore(seq, s, t) => Rank(seq, s) < Rank(seq, t)
<1>1. \A s \in Heard(seq) : IsFiniteSet(Ahead(seq, s)) /\ Rank(seq, s) \in Nat
  <2> SUFFICES ASSUME NEW s \in Heard(seq)
               PROVE  IsFiniteSet(Ahead(seq, s)) /\ Rank(seq, s) \in Nat
    OBVIOUS
  <2>1. Ahead(seq, s) \in SUBSET Heard(seq)
    BY DEF Ahead
  <2>2. IsFiniteSet(Ahead(seq, s))
    BY <2>1, HeardIsFinite, FS_Subset
  <2> QED BY <2>2, FS_CardinalityType DEF Rank
<1>2. ASSUME NEW s \in Heard(seq), NEW t \in Heard(seq), GoesBefore(seq, s, t)
      PROVE  Rank(seq, s) < Rank(seq, t)
  <2>1. Ahead(seq, s) \in SUBSET Ahead(seq, t)
    BY <1>2, GoesBeforeIsAnOrder DEF Ahead
  <2>2. s \in Ahead(seq, t) /\ s \notin Ahead(seq, s)
    BY <1>2, GoesBeforeIsAnOrder DEF Ahead
  <2>3. Rank(seq, s) <= Rank(seq, t) /\ Rank(seq, s) # Rank(seq, t)
    BY <1>1, <2>1, <2>2, FS_Subset DEF Rank
  <2> QED BY <1>1, <2>3
<1> QED BY <1>1, <1>2

\* No two have as many ahead.
LEMMA RankTells ==
    ASSUME NEW seq \in Seq(Turns), NEW s \in Heard(seq), NEW t \in Heard(seq),
           Rank(seq, s) = Rank(seq, t)
    PROVE  s = t
<1> SUFFICES ASSUME s # t PROVE FALSE
  OBVIOUS
<1>1. GoesBefore(seq, s, t) \/ GoesBefore(seq, t, s)
  BY GoesBeforeIsAnOrder
<1> QED BY <1>1, RankRises

\* The n who speak most.
LEMMA TopNIs ==
    ASSUME NEW seq \in Seq(Turns), NEW n \in Nat, n > 0, Heard(seq) # {}
    PROVE  /\ TopN(seq, n) \subseteq Heard(seq)
           /\ TopN(seq, n) # {}
           /\ IsFiniteSet(TopN(seq, n)) /\ Cardinality(TopN(seq, n)) <= n
           /\ \A s \in TopN(seq, n), u \in Heard(seq) \ TopN(seq, n) :
                 Duration(seq, s) >= Duration(seq, u)
<1> DEFINE top == TopN(seq, n)
<1>1. top = {s \in Heard(seq) : Rank(seq, s) < n}
  BY DEF TopN, Rank, Ahead
<1>2. top # {}
  <2> DEFINE T == {Rank(seq, s) : s \in Heard(seq)}
  <2>1. PICK m \in T : \A k \in T : m <= k
    <3>1. T \in SUBSET Nat /\ T # {}
      BY RankRises
    <3> HIDE DEF T
    <3> QED BY <3>1, Least
  <2>2. PICK s \in Heard(seq) : m = Rank(seq, s)
    OBVIOUS
  <2>3. Ahead(seq, s) = {}
    <3> SUFFICES ASSUME NEW t \in Ahead(seq, s) PROVE FALSE
      OBVIOUS
    <3>1. t \in Heard(seq) /\ Rank(seq, t) < Rank(seq, s)
      BY RankRises DEF Ahead
    <3>2. m <= Rank(seq, t)
      BY <2>1, <3>1
    <3>3. Rank(seq, t) \in Nat /\ m \in Nat
      BY <2>2, <3>1, RankRises
    <3> QED BY <2>2, <3>1, <3>2, <3>3
  <2>4. Rank(seq, s) = 0
    BY <2>3, FS_EmptySet DEF Rank
  <2> QED BY <1>1, <2>4
<1>3. IsFiniteSet(top) /\ Cardinality(top) <= n
  <2> DEFINE f == [s \in top |-> Rank(seq, s)]
  <2>1. \A s \in top : Rank(seq, s) \in 0..(n - 1)
    BY <1>1, RankRises
  <2>2. \A s, t \in top : Rank(seq, s) = Rank(seq, t) => s = t
    BY <1>1, RankTells
  <2>3. f \in Injection(top, 0..(n - 1))
    <3> HIDE DEF top
    <3>1. f \in [top -> 0..(n - 1)]
      BY <2>1
    <3> QED BY <2>2, <3>1 DEF Injection, IsInjective
  <2>4. IsFiniteSet(0..(n - 1)) /\ Cardinality(0..(n - 1)) = n
    BY FS_Interval
  <2> HIDE DEF top, f
  <2> QED BY <2>3, <2>4, FS_Injection
<1>4. \A s \in top, u \in Heard(seq) \ top : Duration(seq, s) >= Duration(seq, u)
  <2> SUFFICES ASSUME NEW s \in top, NEW u \in Heard(seq) \ top
               PROVE  Duration(seq, s) >= Duration(seq, u)
    OBVIOUS
  <2>1. s \in Heard(seq) /\ Rank(seq, s) < n /\ ~(Rank(seq, u) < n) /\ s # u
    BY <1>1
  <2>2. ~GoesBefore(seq, u, s)
    BY <2>1, RankRises
  <2>3. GoesBefore(seq, s, u)
    BY <2>1, <2>2, GoesBeforeIsAnOrder
  <2>4. Duration(seq, s) \in Int /\ Duration(seq, u) \in Int
    BY SpokenIs
  <2> QED BY <2>3, <2>4 DEF GoesBefore
<1> QED BY <1>1, <1>2, <1>3, <1>4

\* There are n of them, if there are n at all: everybody has another number ahead,
\* so every number below n is somebody's.
LEMMA TopNIsWhole ==
    ASSUME NEW seq \in Seq(Turns), NEW n \in Nat, n <= Cardinality(Heard(seq))
    PROVE  Cardinality(TopN(seq, n)) = n
<1> DEFINE H == Heard(seq)
           m == Cardinality(H)
           top == TopN(seq, n)
           f == [s \in H |-> Rank(seq, s)]
           g == [s \in top |-> Rank(seq, s)]
<1>1. IsFiniteSet(H) /\ m \in Nat
  BY HeardIsFinite, FS_CardinalityType
<1>2. top = {s \in H : Rank(seq, s) < n} /\ IsFiniteSet(top)
  <2>1. top = {s \in H : Rank(seq, s) < n}
    BY DEF TopN, Rank, Ahead
  <2>2. top \in SUBSET H
    BY <2>1
  <2> HIDE DEF top
  <2> QED BY <1>1, <2>1, <2>2, FS_Subset
<1>3. \A s \in H : Rank(seq, s) \in 0..(m - 1)
  <2> SUFFICES ASSUME NEW s \in H PROVE Rank(seq, s) \in 0..(m - 1)
    OBVIOUS
  <2>1. Ahead(seq, s) \in SUBSET H /\ s \notin Ahead(seq, s)
    BY GoesBeforeIsAnOrder DEF Ahead
  <2>2. Rank(seq, s) \in Nat /\ Rank(seq, s) <= m /\ Rank(seq, s) # m
    BY <1>1, <2>1, RankRises, FS_Subset DEF Rank
  <2> HIDE DEF m
  <2> QED BY <1>1, <2>2
<1> HIDE DEF H, m, top
<1>4. f \in Surjection(H, 0..(m - 1))
  <2>1. f \in Injection(H, 0..(m - 1))
    <3>1. f \in [H -> 0..(m - 1)]
      BY <1>3
    <3>2. \A s, t \in H : f[s] = f[t] => s = t
      BY RankTells DEF H
    <3> QED BY <3>1, <3>2 DEF Injection, IsInjective
  <2>2. IsFiniteSet(0..(m - 1)) /\ Cardinality(0..(m - 1)) = m
    BY <1>1, FS_Interval
  <2> HIDE DEF f
  <2> QED BY <1>1, <2>1, <2>2, FS_Injection DEF m
<1>5. g \in Injection(top, 0..(n - 1)) /\ g \in Surjection(top, 0..(n - 1))
  <2>1. g \in [top -> 0..(n - 1)]
    BY <1>1, <1>2, <1>3
  <2>2. \A s, t \in top : g[s] = g[t] => s = t
    BY <1>2, RankTells DEF H
  <2>3. \A k \in 0..(n - 1) : \E s \in top : g[s] = k
    <3> SUFFICES ASSUME NEW k \in 0..(n - 1) PROVE \E s \in top : g[s] = k
      OBVIOUS
    <3>1. k \in 0..(m - 1) /\ k < n
      BY <1>1 DEF m, H
    <3>2. PICK s \in H : Rank(seq, s) = k
      BY <1>4, <3>1 DEF Surjection
    <3> QED BY <1>2, <3>1, <3>2
  <2> HIDE DEF g
  <2>4. IsInjective(g)
    BY <2>1, <2>2 DEF IsInjective
  <2>5. g \in Injection(top, 0..(n - 1))
    BY <2>1, <2>4 DEF Injection
  <2>6. g \in Surjection(top, 0..(n - 1))
    BY <2>1, <2>3 DEF Surjection
  <2> QED BY <2>5, <2>6
<1> HIDE DEF f, g
<1>6. IsFiniteSet(0..(n - 1)) /\ Cardinality(0..(n - 1)) = n
  <2>1. 0 \in Int /\ n - 1 \in Int
    OBVIOUS
  <2>2. /\ IsFiniteSet(0..(n - 1))
        /\ Cardinality(0..(n - 1)) = IF 0 > n - 1 THEN 0 ELSE (n - 1) - 0 + 1
    BY <2>1, FS_Interval
  <2>3. (IF 0 > n - 1 THEN 0 ELSE (n - 1) - 0 + 1) = n
    OBVIOUS
  <2> QED BY <2>2, <2>3
<1>7. Cardinality(top) = Cardinality(0..(n - 1))
  BY <1>5, <1>6, FS_Injection
<1> QED BY <1>6, <1>7 DEF top

-----------------------------------------------------------------------------
\* The nearest turn of a kept speaker.
LEMMA NearestIs ==
    ASSUME NEW seq \in Seq(Turns), NEW top, NEW mid \in Nat,
           NEW k \in DOMAIN seq, seq[k].label \in top
    PROVE  \E j \in DOMAIN seq :
              /\ NearestTopSpeaker(seq, top, mid) = seq[j].label
              /\ seq[j].label \in top
              /\ \A i \in DOMAIN seq : seq[i].label \in top =>
                    Gap(Mid(seq[j]), mid) <= Gap(Mid(seq[i]), mid)
<1> DEFINE N == Len(seq)
           I == {i \in DOMAIN seq : seq[i].label \in top}
           c == [i \in I |-> Gap(Mid(seq[i]), mid)]
           gap(i) == Gap(Mid(seq[i]), mid)
           First(i) == \A j \in I : gap(i) < gap(j) \/ (gap(i) = gap(j) /\ i <= j)
<1>1. N \in Nat /\ I \in SUBSET (1..N) /\ I # {}
  BY TurnsAre
<1>2. \A i \in I : Gap(Mid(seq[i]), mid) \in Nat
  BY TurnsAre DEF Gap, Mid
<1>3. c \in [I -> Nat]
  BY <1>2
<1>4. PICK i \in I : First(i)
  <2>1. PICK i \in I : \A j \in I : c[i] < c[j] \/ (c[i] = c[j] /\ i <= j)
    <3> HIDE DEF N, I, c
    <3> QED BY <1>1, <1>3, CheapestExists
  <2> HIDE DEF I
  <2> QED BY <2>1
<1> DEFINE f == CHOOSE x \in I : First(x)
<1>5. f \in I /\ First(f)
  <2> HIDE DEF I, First
  <2> QED BY <1>4
<1>6. NearestTopSpeaker(seq, top, mid) = seq[f].label
  BY DEF NearestTopSpeaker, FirstCheapest
<1> HIDE DEF f
<1>7. \A j \in I : Gap(Mid(seq[f]), mid) <= Gap(Mid(seq[j]), mid)
  BY <1>2, <1>5
<1> QED BY <1>5, <1>6, <1>7

\* What the cap does.
LEMMA CapIs ==
    ASSUME NEW seq \in Seq(Turns), InOrder(seq), NEW n \in Int, n > 0,
           ~(Cardinality(Heard(seq)) <= n)
    PROVE  LET out == CapSpeakersByDuration(seq, n)
               top == TopN(seq, n)
           IN  /\ out \in Seq(Turns) /\ Len(out) = Len(seq) /\ InOrder(out)
               /\ Heard(out) = top
               /\ \A i \in DOMAIN seq :
                     /\ out[i].start = seq[i].start /\ out[i].end = seq[i].end
                     /\ out[i].label # seq[i].label =>
                           /\ seq[i].label \notin top
                           /\ \E j \in DOMAIN seq :
                                 /\ seq[j].label = out[i].label
                                 /\ \A k \in DOMAIN seq : seq[k].label \in top =>
                                       Gap(Mid(seq[j]), Mid(seq[i])) <= Gap(Mid(seq[k]), Mid(seq[i]))
<1> DEFINE N == Len(seq)
           top == TopN(seq, n)
           new(i) == NearestTopSpeaker(seq, top, Mid(seq[i]))
           out == [i \in DOMAIN seq |->
                     IF seq[i].label \in top THEN seq[i] ELSE [seq[i] EXCEPT !.label = new(i)]]
<1>1. CapSpeakersByDuration(seq, n) = out
  BY DEF CapSpeakersByDuration
<1>2. N \in Nat /\ DOMAIN seq = 1..N
  OBVIOUS
<1>3. Heard(seq) # {}
  <2> SUFFICES ASSUME Heard(seq) = {} PROVE FALSE
    OBVIOUS
  <2>1. Cardinality(Heard(seq)) = 0
    BY FS_EmptySet
  <2> QED BY <2>1
<1>4. top # {} /\ top \subseteq Heard(seq)
  BY <1>3, TopNIs
<1>5. PICK k \in DOMAIN seq : seq[k].label \in top
  BY <1>4 DEF Heard
<1> HIDE DEF top, N
<1>6. \A i \in DOMAIN seq :
         \E j \in DOMAIN seq :
            /\ new(i) = seq[j].label
            /\ seq[j].label \in top
            /\ \A m \in DOMAIN seq : seq[m].label \in top =>
                  Gap(Mid(seq[j]), Mid(seq[i])) <= Gap(Mid(seq[m]), Mid(seq[i]))
  <2> SUFFICES ASSUME NEW i \in DOMAIN seq
               PROVE \E j \in DOMAIN seq :
                        /\ new(i) = seq[j].label
                        /\ seq[j].label \in top
                        /\ \A m \in DOMAIN seq : seq[m].label \in top =>
                              Gap(Mid(seq[j]), Mid(seq[i])) <= Gap(Mid(seq[m]), Mid(seq[i]))
    OBVIOUS
  <2>1. Mid(seq[i]) \in Nat
    BY TurnsAre DEF Mid
  <2> QED BY <1>5, <2>1, NearestIs
<1> HIDE DEF new
<1>7. \A i \in DOMAIN seq : new(i) \in Labels /\ new(i) \in top
  BY <1>6, TurnsAre
<1>8. ASSUME NEW i \in DOMAIN seq
      PROVE  /\ out[i] \in Turns
             /\ out[i].start = seq[i].start /\ out[i].end = seq[i].end
             /\ out[i].label = IF seq[i].label \in top THEN seq[i].label ELSE new(i)
             /\ out[i].label \in top
  <2>1. seq[i] \in Turns
    BY TurnsAre
  <2>2. CASE seq[i].label \in top
    BY <2>1, <2>2
  <2>3. CASE seq[i].label \notin top
    <3>1. out[i] = [seq[i] EXCEPT !.label = new(i)]
      BY <2>3
    <3> QED BY <1>7, <2>1, <2>3, <3>1 DEF Turns
  <2> QED BY <2>2, <2>3
<1>9. out \in Seq(Turns) /\ Len(out) = N /\ DOMAIN out = DOMAIN seq
  <2>1. out \in [1..N -> Turns]
    BY <1>2, <1>8
  <2> HIDE DEF out
  <2> QED BY <1>2, <2>1, FunctionIsSequence
<1> HIDE DEF out
<1>10. InOrder(out)
  BY <1>2, <1>8, <1>9 DEF InOrder, N
<1>11. Heard(out) = top
  <2>1. \A s \in top : \E i \in DOMAIN seq : seq[i].label = s
    BY <1>4 DEF Heard
  <2>2. \A s \in top : s \in Heard(out)
    BY <1>8, <1>9, <2>1 DEF Heard
  <2> QED BY <1>8, <1>9, <2>2 DEF Heard
<1>12. ASSUME NEW i \in DOMAIN seq, out[i].label # seq[i].label
       PROVE  /\ seq[i].label \notin top
              /\ \E j \in DOMAIN seq :
                    /\ seq[j].label = out[i].label
                    /\ \A m \in DOMAIN seq : seq[m].label \in top =>
                          Gap(Mid(seq[j]), Mid(seq[i])) <= Gap(Mid(seq[m]), Mid(seq[i]))
  <2>1. seq[i].label \notin top /\ out[i].label = new(i)
    BY <1>8, <1>12
  <2> QED BY <1>6, <2>1
<1>13. Len(out) = Len(seq)
  BY <1>9 DEF N
<1> QED BY <1>1, <1>8, <1>9, <1>10, <1>11, <1>12, <1>13 DEF top

-----------------------------------------------------------------------------
\* Who a word goes to.
LEMMA MidpointIs ==
    ASSUME NEW seq \in Seq(Turns), seq # <<>>, NEW mid \in Nat
    PROVE  LET s == SpeakerForMidpoint(mid, seq)
           IN  \/ \E i \in DOMAIN seq : seq[i].label = s /\ Contains(seq[i], mid)
               \/ /\ \A i \in DOMAIN seq : ~Contains(seq[i], mid)
                  /\ \E i \in DOMAIN seq :
                        /\ seq[i].label = s
                        /\ \A j \in DOMAIN seq :
                              \/ Distance(seq[i], mid) < Distance(seq[j], mid)
                              \/ Distance(seq[i], mid) = Distance(seq[j], mid) /\ i <= j
<1> DEFINE N == Len(seq)
           D == DOMAIN seq
           inside == {i \in D : Contains(seq[i], mid)}
           c == [i \in D |-> Distance(seq[i], mid)]
           far(i) == Distance(seq[i], mid)
           First(i) == \A j \in D : far(i) < far(j) \/ (far(i) = far(j) /\ i <= j)
<1>1. N \in Nat /\ D \in SUBSET (1..N) /\ D # {}
  OBVIOUS
<1>2. CASE inside # {}
  <2>1. inside \in SUBSET Nat
    BY <1>1
  <2>2. Min(inside) \in inside
    <3> HIDE DEF inside
    <3> QED BY <1>2, <2>1, MinIs
  <2>3. SpeakerForMidpoint(mid, seq) = seq[Min(inside)].label
    BY <1>2 DEF SpeakerForMidpoint
  <2> QED BY <2>2, <2>3
<1>3. CASE inside = {}
  <2>1. \A i \in D : Distance(seq[i], mid) \in Nat
    BY TurnsAre DEF Distance
  <2>2. c \in [D -> Nat]
    BY <2>1
  <2>3. PICK i \in D : First(i)
    <3>1. PICK i \in D : \A j \in D : c[i] < c[j] \/ (c[i] = c[j] /\ i <= j)
      <4> HIDE DEF N, D, c
      <4> QED BY <1>1, <2>2, CheapestExists
    <3> QED BY <3>1
  <2> DEFINE f == CHOOSE x \in D : First(x)
  <2>4. f \in D /\ First(f)
    <3> HIDE DEF D, First
    <3> QED BY <2>3
  <2>5. SpeakerForMidpoint(mid, seq) = seq[f].label
    BY <1>3 DEF SpeakerForMidpoint, FirstCheapest
  <2> HIDE DEF f
  <2> QED BY <1>3, <2>4, <2>5
<1> QED BY <1>2, <1>3

\* Who a segment goes to.
LEMMA MajorityIs ==
    ASSUME NEW N \in Nat, N > 0, NEW said, DOMAIN said = 1..N
    PROVE  \E m \in 1..N :
              /\ SegmentMajoritySpeaker(said) = said[m]
              /\ \A i \in 1..N :
                    \/ Count(said, said[i]) < Count(said, said[m])
                    \/ Count(said, said[i]) = Count(said, said[m]) /\ m <= i
<1> DEFINE D == DOMAIN said
           cost(i) == 0 - Count(said, said[i])
           c == [i \in D |-> N - Count(said, said[i])]
           First(i) == \A j \in D : cost(i) < cost(j) \/ (cost(i) = cost(j) /\ i <= j)
<1>1. \A i \in D : Count(said, said[i]) \in 0..N
  <2> SUFFICES ASSUME NEW i \in D PROVE Count(said, said[i]) \in 0..N
    OBVIOUS
  <2>1. IsFiniteSet(1..N) /\ Cardinality(1..N) = N
    BY FS_Interval
  <2> DEFINE S == {k \in DOMAIN said : said[k] = said[i]}
  <2>2. S \in SUBSET (1..N)
    OBVIOUS
  <2> HIDE DEF S
  <2>3. IsFiniteSet(S) /\ Cardinality(S) <= Cardinality(1..N)
    BY <2>1, <2>2, FS_Subset
  <2>4. Cardinality(S) \in Nat
    BY <2>3, FS_CardinalityType
  <2>5. Cardinality(S) \in 0..N
    BY <2>1, <2>3, <2>4
  <2> QED BY <2>5 DEF S, Count
<1>2. c \in [D -> Nat]
  BY <1>1
<1>3. PICK i \in D : First(i)
  <2>1. PICK i \in D : \A j \in D : c[i] < c[j] \/ (c[i] = c[j] /\ i <= j)
    <3>1. D \in SUBSET (1..N) /\ D # {}
      OBVIOUS
    <3> HIDE DEF D, c
    <3> QED BY <1>2, <3>1, CheapestExists
  <2>2. \A j \in D : cost(i) < cost(j) \/ (cost(i) = cost(j) /\ i <= j)
    BY <1>1, <2>1
  <2> QED BY <2>2
<1> DEFINE f == CHOOSE x \in D : First(x)
<1>4. f \in D /\ First(f)
  <2> HIDE DEF D, First
  <2> QED BY <1>3
<1>5. SegmentMajoritySpeaker(said) = said[f]
  BY DEF SegmentMajoritySpeaker, FirstCheapest
<1> HIDE DEF f
<1>6. \A k \in D :
         \/ Count(said, said[k]) < Count(said, said[f])
         \/ Count(said, said[k]) = Count(said, said[f]) /\ f <= k
  BY <1>1, <1>4
<1> QED BY <1>4, <1>5, <1>6

\* Both sequences stay in order: on it rests who a word in a silence goes to.
SpeakersInv ==
    /\ turns \in Seq(Turns) /\ InOrder(turns)
    /\ floor \in Seq(Turns) /\ InOrder(floor)
    /\ hint \in Hints \cup {NoHint}
    /\ CapKeepsTheFloor
    /\ WordsGoToTheirSpeakers

\* What the model picks as turns or words is a sequence of them.
LEMMA SequencesUpTo ==
    ASSUME NEW n \in Nat, NEW S, NEW seq \in UpTo(n, S)
    PROVE  seq \in Seq(S)
<1>1. PICK k \in 0..n : seq \in [1..k -> S]
  BY DEF UpTo
<1>2. k \in Nat
  OBVIOUS
<1> QED BY <1>1, <1>2, FunctionIsSequence

\* Each turn not before the one before it: all of them in order.
LEMMA StartsRise ==
    ASSUME NEW seq \in Seq(Turns),
           \A i \in 2..Len(seq) : seq[i - 1].start <= seq[i].start
    PROVE  InOrder(seq)
<1> DEFINE N == Len(seq)
<1>1. N \in Nat /\ DOMAIN seq = 1..N
  OBVIOUS
<1>2. \A i \in 1..N : seq[i].start \in Nat
  BY <1>1, TurnsAre
<1> HIDE DEF N
<1> SUFFICES ASSUME NEW i \in 1..N, NEW j \in 1..N, i < j
             PROVE  seq[i].start <= seq[j].start
  BY DEF InOrder, N
<1> DEFINE G == {m \in 0..N : m >= i => seq[i].start <= seq[m].start}
<1>3. 0 \in G
  BY <1>1
<1>4. ASSUME NEW m \in 1..N, m - 1 \in G
      PROVE  m \in G
  <2>1. CASE m <= i
    <3>1. m >= i => m = i
      BY <2>1
    <3> QED BY <1>1, <1>2, <3>1
  <2>2. CASE m > i
    <3>1. m - 1 \in 1..N /\ m - 1 >= i /\ m \in 2..N
      BY <1>1, <2>2
    <3>2. seq[i].start <= seq[m - 1].start /\ seq[m - 1].start <= seq[m].start
      BY <1>4, <3>1 DEF N
    <3> QED BY <1>2, <3>1, <3>2
  <2> QED BY <1>1, <2>1, <2>2
<1>5. 0..N \subseteq G
  <2> HIDE DEF G
  <2> QED BY <1>1, <1>3, <1>4, Climb
<1> QED BY <1>1, <1>5

LEMMA SpeakersInit == SpeakersIdle => SpeakersInv
<1> SUFFICES ASSUME SpeakersIdle PROVE SpeakersInv
  OBVIOUS
<1>1. <<>> \in Seq(Turns) /\ InOrder(<<>>)
  BY DEF InOrder
<1> QED BY <1>1 DEF SpeakersIdle, SpeakersInv, CapKeepsTheFloor, WordsGoToTheirSpeakers

LEMMA PyannoteStep == SpeakersInv /\ RunsPyannote => SpeakersInv'
<1> SUFFICES ASSUME SpeakersInv, RunsPyannote PROVE SpeakersInv'
  OBVIOUS
<1>1. turns' \in Seq(Turns) /\ InOrder(turns')
  <2>1. PICK seq \in UpTo(MaxTurns, Turns) :
           /\ \A i \in 2..Len(seq) : seq[i - 1].start <= seq[i].start
           /\ turns' = seq
    BY DEF RunsPyannote
  <2>2. seq \in Seq(Turns)
    BY SequencesUpTo, SpeakersAssumption
  <2> QED BY <2>1, <2>2, StartsRise
<1>2. floor' = floor /\ hint' \in Hints /\ stage' = "diarized"
  BY DEF RunsPyannote
<1>3. CapKeepsTheFloor' /\ WordsGoToTheirSpeakers'
  BY <1>2 DEF CapKeepsTheFloor, WordsGoToTheirSpeakers
<1>4. floor' \in Seq(Turns) /\ InOrder(floor')
  BY <1>2 DEF SpeakersInv
<1> QED BY <1>1, <1>2, <1>3, <1>4 DEF SpeakersInv

LEMMA CapStep == SpeakersInv /\ Diarizes => SpeakersInv'
<1> SUFFICES ASSUME SpeakersInv, Diarizes PROVE SpeakersInv'
  OBVIOUS
<1>1. /\ turns \in Seq(Turns) /\ InOrder(turns)
      /\ turns' = turns /\ hint' = hint /\ stage' = "capped"
      /\ hint \in Hints \cup {NoHint} /\ hint \in Int \cup {NoHint}
  BY SpeakersAssumption DEF SpeakersInv, Diarizes
<1>2. WordsGoToTheirSpeakers'
  BY <1>1 DEF WordsGoToTheirSpeakers
<1>3. CASE floor' = turns /\ (hint # NoHint /\ hint > 0 => Cardinality(Heard(turns)) <= hint)
  <2>1. Cardinality(Heard(turns)) \in Nat
    BY <1>1, HeardIsFinite, FS_CardinalityType
  <2>2. ~TooMany'
    BY <1>1, <1>3, <2>1 DEF TooMany
  <2>3. CapKeepsTheFloor'
    BY <1>1, <1>3, <2>2 DEF CapKeepsTheFloor
  <2> QED BY <1>1, <1>2, <1>3, <2>3 DEF SpeakersInv
<1>4. CASE /\ floor' = CapSpeakersByDuration(turns, hint)
           /\ hint # NoHint /\ hint > 0 /\ ~(Cardinality(Heard(turns)) <= hint)
  <2> DEFINE top == TopN(turns, hint)
  <2>1. hint \in Int /\ hint \in Nat
    BY <1>1, <1>4
  <2>2. /\ floor' \in Seq(Turns) /\ Len(floor') = Len(turns) /\ InOrder(floor')
        /\ Heard(floor') = top
        /\ \A i \in DOMAIN turns :
              /\ floor'[i].start = turns[i].start /\ floor'[i].end = turns[i].end
              /\ floor'[i].label # turns[i].label =>
                    /\ turns[i].label \notin top
                    /\ \E j \in DOMAIN turns :
                          /\ turns[j].label = floor'[i].label
                          /\ \A k \in DOMAIN turns : turns[k].label \in top =>
                                Gap(Mid(turns[j]), Mid(turns[i])) <= Gap(Mid(turns[k]), Mid(turns[i]))
    BY <1>1, <1>4, <2>1, CapIs
  <2>3. Heard(turns) # {}
    <3> SUFFICES ASSUME Heard(turns) = {} PROVE FALSE
      OBVIOUS
    <3>1. Cardinality(Heard(turns)) = 0
      BY FS_EmptySet
    <3> QED BY <1>4, <2>1, <3>1
  <2>4. \A s \in top, u \in Heard(turns) \ top : Duration(turns, s) >= Duration(turns, u)
    BY <1>1, <1>4, <2>1, <2>3, TopNIs
  <2>5. Cardinality(top) = hint /\ hint < Cardinality(Heard(turns))
    <3>1. Cardinality(Heard(turns)) \in Nat
      BY <1>1, HeardIsFinite, FS_CardinalityType
    <3>2. hint < Cardinality(Heard(turns)) /\ hint <= Cardinality(Heard(turns))
      BY <1>4, <2>1, <3>1
    <3> QED BY <1>1, <2>1, <3>2, TopNIsWhole
  <2> HIDE DEF top
  <2>6. ASSUME NEW i \in DOMAIN turns, floor'[i].label # turns[i].label
        PROVE  /\ turns[i].label \notin Heard(floor')
               /\ \A s \in Heard(floor') : Duration(turns, s) >= Duration(turns, turns[i].label)
               /\ \E j \in DOMAIN turns :
                     /\ turns[j].label = floor'[i].label
                     /\ \A k \in DOMAIN turns : turns[k].label \in Heard(floor') =>
                           Gap(Mid(turns[j]), Mid(turns[i])) <= Gap(Mid(turns[k]), Mid(turns[i]))
    <3>1. turns[i].label \in Heard(turns) \ top
      BY <2>2, <2>6 DEF Heard
    <3> QED BY <2>2, <2>4, <2>6, <3>1
  <2>7. CapKeepsTheFloor'
    <3>1. Len(floor') = Len(turns')
      BY <1>1, <2>2
    <3>2. Cardinality(Heard(floor')) = hint'
      BY <1>1, <2>2, <2>5
    <3>3. TooMany'
      BY <1>1, <1>4, <2>5 DEF TooMany
    <3> QED BY <1>1, <2>2, <2>6, <3>1, <3>2, <3>3 DEF CapKeepsTheFloor
  <2> QED BY <1>1, <1>2, <2>2, <2>7 DEF SpeakersInv
<1>5. \/ floor' = turns /\ (hint # NoHint /\ hint > 0 => Cardinality(Heard(turns)) <= hint)
      \/ /\ floor' = CapSpeakersByDuration(turns, hint)
         /\ hint # NoHint /\ hint > 0 /\ ~(Cardinality(Heard(turns)) <= hint)
  <2>1. CASE hint = NoHint
    BY <2>1 DEF Diarizes
  <2>2. CASE hint # NoHint
    <3>1. hint \in Int /\ floor' = CapSpeakersByDuration(turns, hint)
      BY <1>1, <2>2 DEF Diarizes
    <3>2. CASE hint <= 0 \/ Cardinality(Heard(turns)) <= hint
      <4>1. floor' = turns
        BY <3>1, <3>2 DEF CapSpeakersByDuration
      <4> QED BY <3>1, <3>2, <4>1
    <3> QED BY <2>2, <3>1, <3>2
  <2> QED BY <2>1, <2>2
<1> QED BY <1>3, <1>4, <1>5


\* In a silence the first of the nearest: nobody who begins can be tied with one who
\* stopped, that one comes first.
LEMMA WordIs ==
    ASSUME floor \in Seq(Turns), InOrder(floor), floor # <<>>, NEW mid \in Nat
    PROVE  LET s == SpeakerForMidpoint(mid, floor)
           IN  \/ SpeaksAt(s, mid)
               \/ /\ \A t \in Heard(floor) : ~SpeaksAt(t, mid)
                  /\ JustStopped(s, mid) \/ AboutToBegin(s, mid)
<1> DEFINE s == SpeakerForMidpoint(mid, floor)
<1>1. \/ \E i \in DOMAIN floor : floor[i].label = s /\ Contains(floor[i], mid)
      \/ /\ \A i \in DOMAIN floor : ~Contains(floor[i], mid)
         /\ \E i \in DOMAIN floor :
               /\ floor[i].label = s
               /\ \A j \in DOMAIN floor :
                     \/ Distance(floor[i], mid) < Distance(floor[j], mid)
                     \/ Distance(floor[i], mid) = Distance(floor[j], mid) /\ i <= j
  BY MidpointIs
<1> HIDE DEF s
<1>2. CASE \E i \in DOMAIN floor : floor[i].label = s /\ Contains(floor[i], mid)
  BY <1>2 DEF SpeaksAt, s
<1>3. ASSUME \A i \in DOMAIN floor : ~Contains(floor[i], mid),
             NEW i \in DOMAIN floor, floor[i].label = s,
             \A j \in DOMAIN floor :
                \/ Distance(floor[i], mid) < Distance(floor[j], mid)
                \/ Distance(floor[i], mid) = Distance(floor[j], mid) /\ i <= j
      PROVE  /\ \A t \in Heard(floor) : ~SpeaksAt(t, mid)
             /\ JustStopped(s, mid) \/ AboutToBegin(s, mid)
  <2>1. \A t \in Heard(floor) : ~SpeaksAt(t, mid)
    BY <1>3 DEF SpeaksAt
  <2>2. \A j \in DOMAIN floor : /\ floor[j].start \in Nat /\ floor[j].end \in Nat
                                /\ Distance(floor[j], mid) \in Nat
                                /\ j \in 1..Len(floor)
    BY TurnsAre DEF Distance
  <2>3. mid < 2 * floor[i].start \/ 2 * floor[i].end < mid
    BY <1>3, <2>2 DEF Contains
  <2>4. CASE 2 * floor[i].end < mid
    <3>1. \A j \in DOMAIN floor : Distance(floor[i], mid) <= Distance(floor[j], mid)
      BY <1>3, <2>2
    <3> QED BY <1>3, <2>1, <2>4, <3>1 DEF JustStopped
  <2>5. CASE mid < 2 * floor[i].start
    <3>1. ASSUME NEW j \in DOMAIN floor, i <= j
          PROVE  mid < 2 * floor[j].start
      <4>1. floor[i].start <= floor[j].start
        <5>1. CASE i = j
          BY <2>2, <5>1
        <5>2. CASE i # j
          BY <2>2, <3>1, <5>2 DEF InOrder
        <5> QED BY <5>1, <5>2
      <4> QED BY <2>2, <2>5, <4>1
    <3>2. \A j \in DOMAIN floor :
             \/ Distance(floor[i], mid) < Distance(floor[j], mid)
             \/ /\ Distance(floor[i], mid) = Distance(floor[j], mid)
                /\ mid < 2 * floor[j].start
      BY <1>3, <3>1
    <3> QED BY <1>3, <2>1, <2>5, <3>2 DEF AboutToBegin
  <2> QED BY <2>1, <2>3, <2>4, <2>5
<1> QED BY <1>1, <1>2, <1>3 DEF s

\* A segment is never without words, or it would have no majority.
LEMMA MergeStep == SpeakersInv /\ Merges => SpeakersInv'
<1> SUFFICES ASSUME SpeakersInv, Merges PROVE SpeakersInv'
  OBVIOUS
<1>1. /\ turns' = turns /\ hint' = hint /\ floor' = floor
      /\ stage = "capped" /\ stage' = "merged"
      /\ spoken' = AssignSpeakers(words', floor)
      /\ speaker' = SegmentMajoritySpeaker(spoken')
  BY DEF Merges
<1>2. words' \in Seq(Mids) /\ words' # <<>>
  <2>1. PICK ws \in UpTo(MaxWords, Mids) : words' \in SegmentWords(ws)
    BY DEF Merges
  <2>2. ws \in Seq(Mids)
    BY SequencesUpTo, SpeakersAssumption
  <2>3. \A m \in Mids : <<m>> \in Seq(Mids) /\ <<m>> # <<>>
    OBVIOUS
  <2>4. CASE ws = <<>>
    BY <2>1, <2>3, <2>4 DEF SegmentWords
  <2>5. CASE ws # <<>>
    BY <2>1, <2>2, <2>5 DEF SegmentWords
  <2> QED BY <2>4, <2>5
<1> DEFINE ws == words'
           said == spoken'
           N == Len(ws)
<1>3. N \in Nat /\ N > 0 /\ DOMAIN ws = 1..N /\ \A i \in 1..N : ws[i] \in Mids
  BY <1>2
<1>4. \A i \in 1..N : ws[i] \in Nat
  BY <1>3, SpeakersAssumption DEF Mids
<1>5. /\ DOMAIN said = 1..N
      /\ \A i \in 1..N :
            said[i] = IF floor = <<>> THEN UNKNOWN ELSE SpeakerForMidpoint(ws[i], floor)
  BY <1>1, <1>3 DEF AssignSpeakers
<1>6. CapKeepsTheFloor'
  BY <1>1 DEF SpeakersInv, CapKeepsTheFloor, TooMany
<1>7. floor \in Seq(Turns) /\ InOrder(floor)
  BY DEF SpeakersInv
<1> HIDE DEF ws, said, N
<1>8. ASSUME NEW i \in 1..N
      PROVE  \/ floor = <<>> /\ said[i] = UNKNOWN
             \/ SpeaksAt(said[i], ws[i])
             \/ /\ \A s \in Heard(floor) : ~SpeaksAt(s, ws[i])
                /\ JustStopped(said[i], ws[i]) \/ AboutToBegin(said[i], ws[i])
  <2>1. CASE floor = <<>>
    BY <1>5, <2>1
  <2>2. CASE floor # <<>>
    <3>1. said[i] = SpeakerForMidpoint(ws[i], floor) /\ ws[i] \in Nat
      BY <1>4, <1>5, <2>2
    <3> QED BY <1>7, <2>2, <3>1, WordIs
  <2> QED BY <2>1, <2>2
<1>9. ASSUME NEW i \in 1..N
      PROVE  \/ Count(said, said[i]) < Count(said, speaker')
             \/ /\ Count(said, said[i]) = Count(said, speaker')
                /\ \E j \in 1..i : said[j] = speaker'
  <2>1. PICK m \in 1..N :
           /\ SegmentMajoritySpeaker(said) = said[m]
           /\ \A k \in 1..N :
                 \/ Count(said, said[k]) < Count(said, said[m])
                 \/ Count(said, said[k]) = Count(said, said[m]) /\ m <= k
    BY <1>3, <1>5, MajorityIs
  <2>2. speaker' = said[m]
    BY <1>1, <2>1 DEF said
  <2>3. m <= i => m \in 1..i
    BY <1>3
  <2> QED BY <2>1, <2>2, <2>3
<1>10. WordsGoToTheirSpeakers'
  <2>1. \A i \in DOMAIN words' :
           \/ floor = <<>> /\ spoken'[i] = UNKNOWN
           \/ SpeaksAt(spoken'[i], words'[i])
           \/ /\ \A s \in Heard(floor) : ~SpeaksAt(s, words'[i])
              /\ JustStopped(spoken'[i], words'[i]) \/ AboutToBegin(spoken'[i], words'[i])
    BY <1>3, <1>8 DEF ws, said
  <2>2. \A i \in DOMAIN spoken' :
           \/ Count(spoken', spoken'[i]) < Count(spoken', speaker')
           \/ /\ Count(spoken', spoken'[i]) = Count(spoken', speaker')
              /\ \E j \in 1..i : spoken'[j] = speaker'
    BY <1>5, <1>9 DEF said
  <2> QED BY <1>1, <2>1, <2>2
          DEF WordsGoToTheirSpeakers, SpeaksAt, JustStopped, AboutToBegin
<1> QED BY <1>1, <1>6, <1>10 DEF SpeakersInv

\* The inductive invariant holds from the recording to its transcript.
LEMMA SpeakersInvariance == SpeakersSpec => []SpeakersInv
<1>1. SpeakersInv /\ [SpeakersNext]_speakersVars => SpeakersInv'
  <2> SUFFICES ASSUME SpeakersInv, [SpeakersNext]_speakersVars PROVE SpeakersInv'
    OBVIOUS
  <2>1. CASE UNCHANGED speakersVars
    BY <2>1 DEF SpeakersInv, speakersVars, CapKeepsTheFloor, TooMany, WordsGoToTheirSpeakers,
                SpeaksAt, JustStopped, AboutToBegin
  <2> QED BY <2>1, PyannoteStep, CapStep, MergeStep DEF SpeakersNext
<1> QED BY <1>1, SpeakersInit, PTL DEF SpeakersSpec

\* The cap keeps as many speakers as asked for, those who speak most, and moves only
\* the turns of the others, each to the nearest kept one
\* (_cap_speakers_by_duration).
THEOREM CapSafe == SpeakersSpec => []CapKeepsTheFloor
<1>1. SpeakersInv => CapKeepsTheFloor
  BY DEF SpeakersInv
<1> QED BY <1>1, SpeakersInvariance, PTL

\* Every word goes to one who speaks at its middle or, in a silence, to the nearest,
\* and a segment to the speaker with the most words (_speaker_for_midpoint,
\* _segment_majority_speaker of merge.py).
THEOREM WordsSafe == SpeakersSpec => []WordsGoToTheirSpeakers
<1>1. SpeakersInv => WordsGoToTheirSpeakers
  BY DEF SpeakersInv
<1> QED BY <1>1, SpeakersInvariance, PTL
=============================================================================
