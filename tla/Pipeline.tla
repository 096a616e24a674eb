------------------------------ MODULE Pipeline ------------------------------
(***************************************************************************)
(* A transcription request from its first byte to its answer:              *)
(* post_transcription of api/transcriptions.py, orchestrate and            *)
(* _run_pipeline of pipeline/orchestrator.py, the threads asyncio.to_thread*)
(* runs its stages in, and what they leave on disk, in the result cache    *)
(* and in the database.                                                    *)
(*                                                                         *)
(* The GPU lock is taken and left as GpuMutex says; GpuLock shows that the *)
(* code's lock does that.  A request is one HTTP call.  Both models are    *)
(* loaded (post_transcription answers 503 otherwise) and the cache keeps   *)
(* its entries: the purge is another component.                            *)
(***************************************************************************)
EXTENDS Naturals, FiniteSets

CONSTANTS Requests,     \* HTTP calls
          NoRequest,    \* nobody holds the lock
          Audios,       \* cache keys: the user and the audio_hash of the wav
          Audio,        \* the key each request comes to
          Workers,      \* threads of the event loop's default executor
          MaxLeaks      \* bound: files whose deletion is refused

ASSUME PipelineAssumption ==
    /\ NoRequest \notin Requests
    /\ Audio \in [Requests -> Audios]
    /\ Workers \in Nat \ {0} /\ MaxLeaks \in Nat

VARIABLES
    holder, busy,   \* the GPU lock, see GpuMutex
    at,             \* where the request is; a stage name while it awaits it
    thread,         \* the thread of the stage the request awaits
    abandoned,      \* <<r, stage>>: running threads nobody awaits any more
    raw,            \* the upload of the request
    wav,            \* its normalised file
    cached,         \* contents with an entry in the cache
    lookup,         \* what the request found in the cache
    row,            \* the Transcription row of the request
    result          \* the answer

Lock == INSTANCE GpuMutex

vars == <<holder, busy, at, thread, abandoned, raw, wav, cached, lookup, row, result>>

Stages == {"normalize", "stt", "diarize", "flush"}
GpuStages == {"stt", "diarize"}

\* A file is on disk or not; or it is still there, its deletion having been refused.
File == {"none", "there", "leaked"}

TypeOK ==
    /\ holder \in Requests \cup {NoRequest} /\ busy \in SUBSET Requests
    /\ at \in [Requests -> Stages \cup {"new", "receiving", "waiting", "granted",
                                        "unwinding", "committing", "done"}]
    /\ thread \in [Requests -> {"none", "queued", "running", "done", "failed"}]
    /\ abandoned \in SUBSET (Requests \X Stages)
    /\ raw \in [Requests -> File] /\ wav \in [Requests -> File]
    /\ cached \in SUBSET Audios
    /\ lookup \in [Requests -> {"none", "hit", "miss"}]
    /\ row \in [Requests -> {"none", "flushed", "committed"}]
    /\ result \in [Requests -> {"none", "ok", "rejected", "busy", "timeout",
                                "error", "cancelled", "aborted"}]

Init ==
    /\ Lock!MutexInit
    /\ at = [r \in Requests |-> "new"]
    /\ thread = [r \in Requests |-> "none"]
    /\ abandoned = {} /\ cached = {}
    /\ raw = [r \in Requests |-> "none"] /\ wav = [r \in Requests |-> "none"]
    /\ lookup = [r \in Requests |-> "none"]
    /\ row = [r \in Requests |-> "none"]
    /\ result = [r \in Requests |-> "none"]

-----------------------------------------------------------------------------
(* Threads: a submitted job waits for one of the executor's workers.         *)

RunningThreads == {r \in Requests : thread[r] = "running"}

threadFrame == <<holder, busy, at, raw, cached, lookup, row, result>>

ThreadStarts(r) ==
    /\ thread[r] = "queued"
    /\ Cardinality(RunningThreads) + Cardinality(abandoned) < Workers
    /\ thread' = [thread EXCEPT ![r] = "running"]
    /\ UNCHANGED <<threadFrame, abandoned, wav>>

\* What a stage's thread may leave on disk: normalize_audio writes the wav and
\* deletes it when ffmpeg fails or the audio is too long, not when ffprobe does.
Writes(stage, r, ok) ==
    IF stage # "normalize" THEN {wav}
    ELSE {[wav EXCEPT ![r] = f] : f \in IF ok THEN {"there"} ELSE {wav[r], "there"}}

ThreadEnds(r) ==
    /\ thread[r] = "running"
    /\ \E ok \in BOOLEAN :
          /\ thread' = [thread EXCEPT ![r] = IF ok THEN "done" ELSE "failed"]
          /\ wav' \in Writes(at[r], r, ok)
    /\ UNCHANGED <<threadFrame, abandoned>>

\* asyncio.to_thread cannot stop a call in progress: it runs to its own end.
AbandonedEnds(j) ==
    /\ j \in abandoned
    /\ abandoned' = abandoned \ {j}
    /\ \E ok \in BOOLEAN : wav' \in Writes(j[2], j[1], ok)
    /\ UNCHANGED <<threadFrame, thread>>

\* to_thread(...): the request awaits stage s in a thread.
Submit(r, s) ==
    /\ at' = [at EXCEPT ![r] = s]
    /\ thread' = [thread EXCEPT ![r] = "queued"]

Leaks == {r \in Requests : raw[r] = "leaked"} \X {"raw"}
         \cup {r \in Requests : wav[r] = "leaked"} \X {"wav"}

\* What unlink(missing_ok=True) leaves of a file: nothing, or all of it when the
\* operating system refuses (OSError).
Unlinked(f) ==
    {"none"} \cup (IF f # "none" /\ Cardinality(Leaks) < MaxLeaks THEN {"leaked"} ELSE {})

-----------------------------------------------------------------------------
(* post_transcription, before the lock                                       *)

Receive(r) ==
    /\ at[r] = "new"
    /\ at' = [at EXCEPT ![r] = "receiving"]
    /\ raw' = [raw EXCEPT ![r] = "there"]
    /\ UNCHANGED <<holder, busy, thread, abandoned, wav, cached, lookup, row, result>>

ReceiveEnds(r) ==
    /\ at[r] = "receiving"
    /\ at' = [at EXCEPT ![r] = "waiting"]
    /\ UNCHANGED <<holder, busy, thread, abandoned, raw, wav, cached, lookup, row, result>>

\* The request answers o and the finally clause deletes its upload; an OSError is
\* logged (raw_upload_cleanup_failed) and changes nothing of the answer.
Answer(r, o) ==
    /\ at' = [at EXCEPT ![r] = "done"]
    /\ result' = [result EXCEPT ![r] = o]
    /\ \E f \in Unlinked(raw[r]) : raw' = [raw EXCEPT ![r] = f]

\* Too large, or an exception while reading: the partial upload is deleted, unless
\* that is refused, which is a failure as well.
ReceiveFails(r) ==
    /\ at[r] = "receiving"
    /\ Answer(r, "rejected")
    /\ UNCHANGED <<holder, busy, thread, abandoned, wav, cached, lookup, row>>

\* A cancellation is no Exception: the partial upload stays.
ReceiveCancelled(r) ==
    /\ at[r] = "receiving"
    /\ at' = [at EXCEPT ![r] = "done"]
    /\ result' = [result EXCEPT ![r] = "aborted"]
    /\ UNCHANGED <<holder, busy, thread, abandoned, raw, wav, cached, lookup, row>>

-----------------------------------------------------------------------------
(* orchestrate: the lock                                                     *)

\* Mutant: no lock.
GrantedAnyway(r) ==
    /\ at[r] = "waiting"
    /\ holder' = r
    /\ at' = [at EXCEPT ![r] = "granted"]
    /\ UNCHANGED <<busy, thread, abandoned, raw, wav, cached, lookup, row, result>>

Granted(r) ==
    /\ at[r] = "waiting"
    /\ Lock!Enter(r)
    /\ at' = [at EXCEPT ![r] = "granted"]
    /\ UNCHANGED <<thread, abandoned, raw, wav, cached, lookup, row, result>>

\* GPUBusy, or the caller cancelled while waiting.
LeavesQueue(r) ==
    /\ at[r] = "waiting"
    /\ \E o \in {"busy", "cancelled"} : Answer(r, o)
    /\ UNCHANGED <<holder, busy, thread, abandoned, wav, cached, lookup, row>>

StartPipeline(r) ==
    /\ at[r] = "granted"
    /\ Lock!Start(r)
    /\ Submit(r, "normalize")
    /\ UNCHANGED <<abandoned, raw, wav, cached, lookup, row, result>>

-----------------------------------------------------------------------------
(* _run_pipeline                                                             *)

StageDone(r, s) == at[r] = s /\ thread[r] = "done"

\* INSERT, sent to the database.
Persist(r) ==
    /\ at' = [at EXCEPT ![r] = "flush"]
    /\ thread' = [thread EXCEPT ![r] = "none"]

CacheHit(r) ==
    /\ StageDone(r, "normalize")
    /\ Audio[r] \in cached
    /\ lookup' = [lookup EXCEPT ![r] = "hit"]
    /\ Persist(r)
    /\ UNCHANGED <<holder, busy, abandoned, raw, wav, cached, row, result>>

\* Mutant: the cache is not consulted.
CacheMissAlways(r) ==
    /\ StageDone(r, "normalize")
    /\ lookup' = [lookup EXCEPT ![r] = "miss"]
    /\ Submit(r, "stt")
    /\ UNCHANGED <<holder, busy, abandoned, raw, wav, cached, row, result>>

CacheMiss(r) ==
    /\ StageDone(r, "normalize")
    /\ Audio[r] \notin cached
    /\ lookup' = [lookup EXCEPT ![r] = "miss"]
    /\ Submit(r, "stt")
    /\ UNCHANGED <<holder, busy, abandoned, raw, wav, cached, row, result>>

Diarize(r) ==
    /\ StageDone(r, "stt")
    /\ Submit(r, "diarize")
    /\ UNCHANGED <<holder, busy, abandoned, raw, wav, cached, lookup, row, result>>

\* The segments are merged with the speakers, or there were none (silent
\* audio): the payload is put in the cache.
CachePut(r) ==
    /\ StageDone(r, "stt") \/ StageDone(r, "diarize")
    /\ cached' = cached \cup {Audio[r]}
    /\ Persist(r)
    /\ UNCHANGED <<holder, busy, abandoned, raw, wav, lookup, row, result>>

\* Mutant: no finally clause.
KeepWav(r) == wav' = wav

\* The finally clause of _run_pipeline, entered once normalize has returned the name
\* of the file.  An OSError is logged (NORMALIZED_WAV_LEAK) and the request goes on.
UnlinkWav(r) ==
    \E f \in IF at[r] = "normalize" /\ thread[r] # "done" THEN {wav[r]} ELSE Unlinked(wav[r]) :
        wav' = [wav EXCEPT ![r] = f]

\* The row is in; the pipeline returns and orchestrate releases the lock.
PipelineReturns(r) ==
    /\ at[r] = "flush"
    /\ row' = [row EXCEPT ![r] = "flushed"]
    /\ UnlinkWav(r)
    /\ Lock!Leave(r)
    /\ at' = [at EXCEPT ![r] = "committing"]
    /\ UNCHANGED <<thread, abandoned, raw, cached, lookup, result>>

\* A stage, the cache (its lookup or its write) or the INSERT fails: the lock is
\* released, the transaction rolled back and an error answered.
PipelineFails(r) ==
    /\ \/ at[r] \in Stages /\ thread[r] = "failed"
       \/ \E s \in Stages : StageDone(r, s)
       \/ at[r] = "flush"
    /\ UnlinkWav(r)
    /\ thread' = [thread EXCEPT ![r] = "none"]
    /\ Lock!Leave(r)
    /\ Answer(r, "error")
    /\ UNCHANGED <<abandoned, cached, lookup, row>>

-----------------------------------------------------------------------------
(* Timeout and cancellation of a running pipeline                            *)

\* The future of the stage is cancelled: a queued job is taken back, a running
\* one goes on with nobody waiting for it.
Abandon(r) ==
    /\ thread' = [thread EXCEPT ![r] = "none"]
    /\ abandoned' = IF thread[r] = "running" THEN abandoned \cup {<<r, at[r]>>}
                                             ELSE abandoned

\* Mutant: the pipeline is stopped between two stages only.
StopBetweenStages(r, o) ==
    /\ at[r] \in Stages /\ thread[r] \notin {"queued", "running"}
    /\ Lock!Stop(r)
    /\ Abandon(r)
    /\ IF at[r] = "normalize" THEN UNCHANGED wav ELSE UnlinkWav(r)
    /\ at' = [at EXCEPT ![r] = "unwinding"]
    /\ result' = [result EXCEPT ![r] = o]
    /\ UNCHANGED <<raw, cached, lookup, row>>

\* wait_for cancels the pipeline's task, whose finally clause runs at its next
\* turn.  A result of normalize that was not taken yet is lost with its file.
StopPipeline(r, o) ==
    /\ at[r] \in Stages
    /\ Lock!Stop(r)
    /\ Abandon(r)
    /\ IF at[r] = "normalize" THEN UNCHANGED wav ELSE UnlinkWav(r)
    /\ at' = [at EXCEPT ![r] = "unwinding"]
    /\ result' = [result EXCEPT ![r] = o]
    /\ UNCHANGED <<raw, cached, lookup, row>>

PipelineTimesOut(r) == StopPipeline(r, "timeout")

CancelPipeline(r) == StopPipeline(r, "cancelled")

\* The pipeline's task is over: release, roll back, answer.
Unwound(r) ==
    /\ at[r] = "unwinding"
    /\ Lock!Leave(r)
    /\ Answer(r, result[r])
    /\ UNCHANGED <<thread, abandoned, wav, cached, lookup, row>>

-----------------------------------------------------------------------------
(* post_transcription, after the lock                                        *)

\* Mutant: the commit is left to the session's teardown, which does not commit.
CommitForgotten(r) ==
    /\ at[r] = "committing"
    /\ row' = [row EXCEPT ![r] = "none"]
    /\ Answer(r, "ok")
    /\ UNCHANGED <<holder, busy, thread, abandoned, wav, cached, lookup>>

Commit(r) ==
    /\ at[r] = "committing"
    /\ row' = [row EXCEPT ![r] = "committed"]
    /\ Answer(r, "ok")
    /\ UNCHANGED <<holder, busy, thread, abandoned, wav, cached, lookup>>

CommitFails(r) ==
    /\ at[r] = "committing"
    /\ row' = [row EXCEPT ![r] = "none"]
    /\ Answer(r, "error")
    /\ UNCHANGED <<holder, busy, thread, abandoned, wav, cached, lookup>>

\* Cancelled while the COMMIT is under way: it may have been done.
CommitCancelled(r) ==
    /\ at[r] = "committing"
    /\ \E s \in {"none", "committed"} : row' = [row EXCEPT ![r] = s]
    /\ Answer(r, "cancelled")
    /\ UNCHANGED <<holder, busy, thread, abandoned, wav, cached, lookup>>

-----------------------------------------------------------------------------
ThreadStep ==
    \/ \E r \in Requests : ThreadStarts(r) \/ ThreadEnds(r)
    \/ \E j \in abandoned : AbandonedEnds(j)

\* What the event loop and its timers do for r by themselves.
LoopStep(r) ==
    \/ Granted(r) \/ LeavesQueue(r) \/ StartPipeline(r)
    \/ CacheHit(r) \/ CacheMiss(r) \/ Diarize(r) \/ CachePut(r)
    \/ PipelineReturns(r) \/ PipelineFails(r) \/ PipelineTimesOut(r) \/ Unwound(r)
    \/ Commit(r) \/ CommitFails(r)

ClientStep(r) ==
    \/ Receive(r) \/ ReceiveEnds(r) \/ ReceiveFails(r) \/ ReceiveCancelled(r)
    \/ CancelPipeline(r) \/ CommitCancelled(r)

Next == ThreadStep \/ \E r \in Requests : LoopStep(r) \/ ClientStep(r)

Spec == Init /\ [][Next]_vars

\* The event loop runs ready tasks and fires the lock-wait and the pipeline
\* timers.  No thread is assumed to end, no client to send its bytes.
FairSpec == Spec /\ \A r \in Requests : WF_vars(LoopStep(r))

-----------------------------------------------------------------------------
(* Properties                                                                *)

(***************************************************************************)
(* The thread a request waits for belongs to the holder of the GPU lock,   *)
(* and while it transcribes or diarises its input file is on disk.  (The   *)
(* threads nobody waits for any more are the exception OneGpuJob shows.)   *)
(***************************************************************************)
AwaitedThreadIsSafe ==
    \A r \in Requests : thread[r] \in {"queued", "running"} =>
        /\ holder = r
        /\ at[r] \in GpuStages => wav[r] = "there"

(***************************************************************************)
(* No audio is forgotten on disk (Privacy > Cost in _run_pipeline): what a *)
(* request leaves when it is over has refused to be deleted, and was logged*)
(* as a leak.  For the upload whatever the outcome, but when the request is*)
(* cancelled while its bytes come in; for the WAV on success and on every  *)
(* way out, by timeout and cancellation too, after the cache was looked up.*)
(***************************************************************************)
NoAudioLeftBehind ==
    \A r \in Requests :
        /\ at[r] = "done" /\ result[r] # "aborted" => raw[r] # "there"
        /\ at[r] \notin Stages /\ (result[r] = "ok" \/ lookup[r] # "none") => wav[r] # "there"

(***************************************************************************)
(* The same audio is transcribed once: the lock covers the cache from its  *)
(* lookup to its write, so of two requests with one content that get as    *)
(* far as their row, one is served from the cache.                         *)
(***************************************************************************)
ComputedOnce ==
    \A q, r \in Requests :
        /\ q # r /\ Audio[q] = Audio[r]
        /\ lookup[q] # "hit" /\ lookup[r] # "hit"
        => ~(row[q] # "none" /\ row[r] # "none")

(***************************************************************************)
(* The answer tells the truth about the database: success means the row is *)
(* committed, a failure that it is not.                                    *)
(***************************************************************************)
AnswerMatchesDatabase ==
    \A r \in Requests :
        /\ result[r] = "ok" => row[r] = "committed"
        /\ result[r] \in {"rejected", "busy", "timeout", "error", "aborted"} => row[r] # "committed"

(***************************************************************************)
(* A request that was received is answered, though threads may hang for    *)
(* ever and abandoned ones may hold every worker of the executor.          *)
(***************************************************************************)
EveryRequestIsAnswered == \A r \in Requests : at[r] = "waiting" ~> at[r] = "done"

(***************************************************************************)
(* One GPU job at a time per process (orchestrator.py, comment on          *)
(* _orchestrator_lock; ADR-005).                                           *)
(***************************************************************************)
OneGpuJob ==
    Cardinality({r \in RunningThreads : at[r] \in GpuStages}
                \cup {j \in abandoned : j[2] \in GpuStages}) <= 1
=============================================================================
