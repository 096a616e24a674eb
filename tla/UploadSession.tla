---------------------------- MODULE UploadSession ----------------------------
(***************************************************************************)
(* The life of an upload session: request_upload_url opens it, POST        *)
(* /api/upload brings its bytes, the tool start_transcription consumes it, *)
(* purge_expired_upload_sessions sweeps what nobody came for.  They share  *)
(* a row of upload_sessions and the directory uploads/<id>; the process    *)
(* may crash between any two steps and come back.                          *)
(*                                                                         *)
(* An action is what a handler does between two awaits, or one statement   *)
(* of the database.  The pipeline is reduced to what it reads of the       *)
(* directory (Pipeline opens it), the lock to GpuMutex.  Sessions are of   *)
(* kind audio, callers are the owners, the models are loaded.              *)
(***************************************************************************)
EXTENDS Naturals

CONSTANTS Sessions,     \* rows of upload_sessions
          Uploads,      \* POSTs to /api/upload
          Starts,       \* calls of start_transcription
          NoUpload,     \* no stream writes the file
          NoRequest,    \* nobody holds the GPU lock
          MaxCrashes    \* bound on crashes of the process

ASSUME UploadAssumption ==
    /\ NoUpload \notin Uploads
    /\ NoRequest \notin Starts
    /\ MaxCrashes \in Nat

VARIABLES
    target,         \* the session an upload or a start names
    status,         \* upload_sessions.status
    late,           \* sessions past expires_at + grace
    disk,           \* the file in uploads/<id>
    writer,         \* the stream that last opened that file
    leaked,         \* sessions whose rmtree failed
    up,             \* where an upload is
    at,             \* where a start is
    read,           \* what the pipeline of a start read of the file
    row,            \* the Transcription row of a start
    result,         \* the answer of a start
    holder, busy,   \* the GPU lock, see GpuMutex
    sweep,          \* where the sweep is
    candidates,     \* the rows it selected
    crashes

sessionVars == <<status, late>>
diskVars == <<disk, writer, leaked>>
startVars == <<at, read, row, result, holder, busy>>
sweepVars == <<sweep, candidates>>
vars == <<target, sessionVars, diskVars, up, startVars, sweepVars, crashes>>

Lock == INSTANCE GpuMutex WITH Requests <- Starts

Open == {"requested", "uploaded"}
Final == {"consumed", "expired"}
Contents == {"none", "partial", "full"}
Refusals == {"not_found", "already_consumed"}
Failures == {"busy", "error", "cancelled"}   \* error: PIPELINE_TIMEOUT too

TypeOK ==
    /\ target \in [Uploads \cup Starts -> Sessions]
    /\ status \in [Sessions -> {"none"} \cup Open \cup Final]
    /\ late \in SUBSET Sessions
    /\ disk \in [Sessions -> Contents]
    /\ writer \in [Sessions -> Uploads \cup {NoUpload}]
    /\ leaked \in SUBSET Sessions
    /\ up \in [Uploads -> {"idle", "selected", "streaming", "received", "done"}]
    /\ at \in [Starts -> {"idle", "loaded", "waiting", "granted", "normalizing",
                          "analysing", "consuming", "committing", "done"}]
    /\ read \in [Starts -> Contents]
    /\ row \in [Starts -> {"none", "flushed", "committed"}]
    /\ result \in [Starts -> {"none", "ok", "crashed"} \cup Refusals \cup Failures]
    /\ holder \in Starts \cup {NoRequest} /\ busy \in SUBSET Starts
    /\ sweep \in {"idle", "selected", "removed"}
    /\ candidates \in SUBSET Sessions
    /\ crashes \in 0..MaxCrashes

Init ==
    /\ target \in [Uploads \cup Starts -> Sessions]
    /\ status = [s \in Sessions |-> "none"]
    /\ late = {}
    /\ disk = [s \in Sessions |-> "none"]
    /\ writer = [s \in Sessions |-> NoUpload]
    /\ leaked = {}
    /\ up = [u \in Uploads |-> "idle"]
    /\ at = [t \in Starts |-> "idle"]
    /\ read = [t \in Starts |-> "none"]
    /\ row = [t \in Starts |-> "none"]
    /\ result = [t \in Starts |-> "none"]
    /\ Lock!MutexInit
    /\ sweep = "idle" /\ candidates = {}
    /\ crashes = 0

-----------------------------------------------------------------------------
(* The row and the clock                                                     *)

\* request_upload_url: the row is inserted and committed.
Request(s) ==
    /\ status[s] = "none"
    /\ status' = [status EXCEPT ![s] = "requested"]
    /\ UNCHANGED <<target, late, diskVars, up, startVars, sweepVars, crashes>>

\* expires_at + grace passes.
Elapse(s) ==
    /\ status[s] # "none" /\ s \notin late
    /\ late' = late \cup {s}
    /\ UNCHANGED <<target, status, diskVars, up, startVars, sweepVars, crashes>>

\* An UPDATE waits for the transaction that has updated the row.
RowLocked(s) == \E t \in Starts : target[t] = s /\ at[t] = "committing"

\* shutil.rmtree(uploads/<id>) for the sessions S; a failure is logged only.
Rmtree(S) ==
    \E failed \in SUBSET {s \in S : disk[s] # "none"} :
        /\ disk' = [s \in Sessions |-> IF s \in S \ failed THEN "none" ELSE disk[s]]
        /\ writer' = [s \in Sessions |-> IF s \in S \ failed THEN NoUpload ELSE writer[s]]
        /\ leaked' = leaked \cup failed

-----------------------------------------------------------------------------
(* upload_audio                                                              *)

UploadGoes(u, where) == up' = [up EXCEPT ![u] = where]

\* SELECT ... WHERE status = 'requested'; 404 when there is none.
UploadSelects(u) ==
    /\ up[u] = "idle"
    /\ UploadGoes(u, IF status[target[u]] = "requested" THEN "selected" ELSE "done")
    /\ UNCHANGED <<target, sessionVars, diskVars, startVars, sweepVars, crashes>>

UploadTooLate(u) ==
    /\ up[u] = "selected" /\ target[u] \in late
    /\ UploadGoes(u, "done")
    /\ UNCHANGED <<target, sessionVars, diskVars, startVars, sweepVars, crashes>>

\* mkdir and open("wb"), which truncates what another stream wrote.
UploadOpens(u) ==
    LET s == target[u]
    IN  /\ up[u] = "selected" /\ s \notin late
        /\ disk' = [disk EXCEPT ![s] = "partial"]
        /\ writer' = [writer EXCEPT ![s] = u]
        /\ UploadGoes(u, "streaming")
        /\ UNCHANGED <<target, sessionVars, leaked, startVars, sweepVars, crashes>>

\* The file is whole once the stream that truncated it last has ended (the
\* POSTs of a session carry the same file), if nobody has unlinked it.
UploadEnds(u) ==
    LET s == target[u]
    IN  /\ up[u] = "streaming"
        /\ disk' = IF writer[s] = u THEN [disk EXCEPT ![s] = "full"] ELSE disk
        /\ UploadGoes(u, "received")
        /\ UNCHANGED <<target, sessionVars, writer, leaked, startVars, sweepVars, crashes>>

\* 413, or an exception while writing: unlink, whoever wrote the file.
UploadRejected(u) ==
    LET s == target[u]
    IN  /\ up[u] = "streaming"
        /\ disk' = [disk EXCEPT ![s] = "none"]
        /\ writer' = [writer EXCEPT ![s] = NoUpload]
        /\ UploadGoes(u, "done")
        /\ UNCHANGED <<target, sessionVars, leaked, startVars, sweepVars, crashes>>

\* Cancelled, or the UPDATE failed: the bytes stay.
UploadAborted(u) ==
    /\ up[u] \in {"selected", "streaming", "received"}
    /\ UploadGoes(u, "done")
    /\ UNCHANGED <<target, sessionVars, diskVars, startVars, sweepVars, crashes>>

\* Mutant: the row is marked before the body is read.
UploadMarksEarly(u) ==
    LET s == target[u]
    IN  /\ up[u] \in {"streaming", "received"} /\ ~RowLocked(s)
        /\ status' = [status EXCEPT ![s] = "uploaded"]
        /\ UploadGoes(u, IF up[u] = "streaming" THEN "streaming" ELSE "done")
        /\ UNCHANGED <<target, late, diskVars, startVars, sweepVars, crashes>>

\* UPDATE ... WHERE id, whatever the status has become, and COMMIT.
UploadMarks(u) ==
    LET s == target[u]
    IN  /\ up[u] = "received" /\ ~RowLocked(s)
        /\ status' = [status EXCEPT ![s] = "uploaded"]
        /\ UploadGoes(u, "done")
        /\ UNCHANGED <<target, late, diskVars, startVars, sweepVars, crashes>>

-----------------------------------------------------------------------------
(* start_transcription                                                       *)

StartGoes(t, where) == at' = [at EXCEPT ![t] = where]

Answer(t, o) ==
    /\ StartGoes(t, "done")
    /\ result' = [result EXCEPT ![t] = o]

StartRefused(t, o) ==
    /\ Answer(t, o)
    /\ UNCHANGED <<target, sessionVars, diskVars, up, read, row, holder, busy, sweepVars, crashes>>

\* _load_upload_row: the SELECT and its answers.
StartSelects(t) ==
    /\ at[t] = "idle"
    /\ status[target[t]] = "uploaded"
    /\ StartGoes(t, "loaded")
    /\ UNCHANGED <<target, sessionVars, diskVars, up, read, row, result, holder, busy,
                   sweepVars, crashes>>

StartFindsNoUpload(t) ==
    /\ at[t] = "idle"
    /\ status[target[t]] # "uploaded"
    /\ StartRefused(t, IF status[target[t]] = "consumed" THEN "already_consumed"
                                                         ELSE "not_found")

StartTooLate(t) ==
    /\ at[t] = "loaded" /\ target[t] \in late
    /\ StartRefused(t, "not_found")

\* orchestrate() is called and waits for the lock.
StartQueues(t) ==
    /\ at[t] = "loaded" /\ target[t] \notin late
    /\ StartGoes(t, "waiting")
    /\ UNCHANGED <<target, sessionVars, diskVars, up, read, row, result, holder, busy,
                   sweepVars, crashes>>

StartGranted(t) ==
    /\ at[t] = "waiting"
    /\ Lock!Enter(t)
    /\ StartGoes(t, "granted")
    /\ UNCHANGED <<target, sessionVars, diskVars, up, read, row, result, sweepVars, crashes>>

PipelineStarts(t) ==
    /\ at[t] = "granted"
    /\ Lock!Start(t)
    /\ StartGoes(t, "normalizing")
    /\ UNCHANGED <<target, sessionVars, diskVars, up, read, row, result, sweepVars, crashes>>

\* normalize_audio has read the file (it fails when there is none).
PipelineReads(t) ==
    /\ at[t] = "normalizing"
    /\ disk[target[t]] # "none"
    /\ read' = [read EXCEPT ![t] = disk[target[t]]]
    /\ StartGoes(t, "analysing")
    /\ UNCHANGED <<target, sessionVars, diskVars, up, row, result, holder, busy, sweepVars, crashes>>

\* The row is flushed, the lock released; the UPDATE of the session is sent.
PipelineReturns(t) ==
    /\ at[t] = "analysing"
    /\ Lock!Leave(t)
    /\ row' = [row EXCEPT ![t] = "flushed"]
    /\ StartGoes(t, "consuming")
    /\ UNCHANGED <<target, sessionVars, diskVars, up, read, result, sweepVars, crashes>>

Orchestrating == {"waiting", "granted", "normalizing", "analysing"}

\* GPUBusy, PipelineTimeout, an error or a cancellation, of the pipeline or of
\* the UPDATE: release, remove the directory, roll back, answer.
StartFails(t) ==
    /\ at[t] \in Orchestrating \cup {"consuming"}
    /\ \E o \in (IF at[t] = "waiting" THEN {"busy", "cancelled"} ELSE Failures \ {"busy"}) :
          Answer(t, o)
    /\ IF holder = t THEN Lock!Leave(t) ELSE UNCHANGED <<holder, busy>>
    /\ Rmtree({target[t]})
    /\ row' = [row EXCEPT ![t] = "none"]
    /\ UNCHANGED <<target, sessionVars, up, read, sweepVars, crashes>>

\* Mutant: success is answered inside the context manager, which commits later.
StartAnswersEarly(t) ==
    /\ at[t] = "consuming" /\ ~RowLocked(target[t])
    /\ Rmtree({target[t]})
    /\ Answer(t, "ok")
    /\ UNCHANGED <<target, sessionVars, up, read, row, holder, busy, sweepVars, crashes>>

\* _consume_upload has the row's lock; the finally clause removes the directory.
StartConsumes(t) ==
    /\ at[t] = "consuming" /\ ~RowLocked(target[t])
    /\ Rmtree({target[t]})
    /\ StartGoes(t, "committing")
    /\ UNCHANGED <<target, sessionVars, up, read, row, result, holder, busy, sweepVars, crashes>>

\* What the COMMIT of t does to the database.
Committed(t) ==
    /\ status' = [status EXCEPT ![target[t]] = "consumed"]
    /\ row' = [row EXCEPT ![t] = "committed"]

\* Mutant: the session is consumed in a transaction of its own.
RollsBackRowOnly(t) ==
    /\ row' = [row EXCEPT ![t] = "none"]
    /\ status' = [status EXCEPT ![target[t]] = "consumed"]

RolledBack(t) ==
    /\ row' = [row EXCEPT ![t] = "none"]
    /\ UNCHANGED status

\* scoped_session commits the Transcription and the consumed session together.
StartCommits(t) ==
    /\ at[t] = "committing"
    /\ Committed(t)
    /\ Answer(t, "ok")
    /\ UNCHANGED <<target, late, diskVars, up, read, holder, busy, sweepVars, crashes>>

StartCommitFails(t) ==
    /\ at[t] = "committing"
    /\ RolledBack(t)
    /\ Answer(t, "error")
    /\ UNCHANGED <<target, late, diskVars, up, read, holder, busy, sweepVars, crashes>>

\* Cancelled while the COMMIT is under way.
StartCommitCancelled(t) ==
    /\ at[t] = "committing"
    /\ Committed(t) \/ RolledBack(t)
    /\ Answer(t, "cancelled")
    /\ UNCHANGED <<target, late, diskVars, up, read, holder, busy, sweepVars, crashes>>

\* The lock-wait timer and the pipeline's timer.
StartTimesOut(t) == at[t] \in Orchestrating /\ StartFails(t)

-----------------------------------------------------------------------------
(* purge_expired_upload_sessions                                             *)

\* Mutant: the sweep knows of sessions without a POST only.
ExpirableRequested == {s \in late : status[s] = "requested"}

Expirable == {s \in late : status[s] \in Open}

SweepSelects ==
    /\ sweep = "idle" /\ Expirable # {}
    /\ sweep' = "selected"
    /\ candidates' = Expirable
    /\ UNCHANGED <<target, sessionVars, diskVars, up, startVars, crashes>>

\* Mutant: the UPDATE first, the directories after it.
SweepMarksFirst ==
    /\ sweep = "selected"
    /\ \A s \in candidates : ~RowLocked(s)
    /\ status' = [s \in Sessions |-> IF s \in candidates THEN "expired" ELSE status[s]]
    /\ sweep' = "removed"
    /\ UNCHANGED <<target, late, candidates, diskVars, up, startVars, crashes>>

SweepRemoves ==
    /\ sweep = "selected"
    /\ Rmtree(candidates)
    /\ sweep' = "removed"
    /\ UNCHANGED <<target, sessionVars, candidates, up, startVars, crashes>>

\* UPDATE ... WHERE id IN, whatever their status has become, and COMMIT.
SweepMarks ==
    /\ sweep = "removed"
    /\ \A s \in candidates : ~RowLocked(s)
    /\ status' = [s \in Sessions |-> IF s \in candidates THEN "expired" ELSE status[s]]
    /\ sweep' = "idle" /\ candidates' = {}
    /\ UNCHANGED <<target, late, diskVars, up, startVars, crashes>>

\* The database fails: _cleanup_loop logs it and tries again next time.
SweepFails ==
    /\ sweep = "removed"
    /\ sweep' = "idle" /\ candidates' = {}
    /\ UNCHANGED <<target, sessionVars, diskVars, up, startVars, crashes>>

-----------------------------------------------------------------------------
\* The process dies and is started again.  Transactions under way are rolled
\* back, but for a COMMIT the server may have done; directories stay
\* (_purge_orphan_uploads deletes the files at the top of uploads_dir only).
Crash ==
    /\ crashes < MaxCrashes
    /\ crashes' = crashes + 1
    /\ up' = [u \in Uploads |-> IF up[u] = "idle" THEN "idle" ELSE "done"]
    /\ writer' = [s \in Sessions |-> NoUpload]
    /\ LET inFlight == {t \in Starts : at[t] \notin {"idle", "done"}}
       IN  \E done \in SUBSET {t \in inFlight : at[t] = "committing"} :
             /\ at' = [t \in Starts |-> IF t \in inFlight THEN "done" ELSE at[t]]
             /\ result' = [t \in Starts |-> IF t \in inFlight THEN "crashed" ELSE result[t]]
             /\ row' = [t \in Starts |-> IF t \in done THEN "committed"
                                         ELSE IF t \in inFlight THEN "none" ELSE row[t]]
             /\ status' = [s \in Sessions |-> IF \E t \in done : target[t] = s
                                              THEN "consumed" ELSE status[s]]
    /\ holder' = NoRequest /\ busy' = {}
    /\ sweep' = "idle" /\ candidates' = {}
    /\ UNCHANGED <<target, late, disk, leaked, read>>

UploadStep(u) ==
    \/ UploadSelects(u) \/ UploadTooLate(u) \/ UploadOpens(u) \/ UploadEnds(u)
    \/ UploadRejected(u) \/ UploadAborted(u) \/ UploadMarks(u)

\* What follows the SELECT of a start by itself.
StartStep(t) ==
    \/ StartTooLate(t) \/ StartQueues(t) \/ StartGranted(t) \/ PipelineStarts(t)
    \/ PipelineReads(t) \/ PipelineReturns(t) \/ StartTimesOut(t) \/ StartConsumes(t)
    \/ StartCommits(t) \/ StartCommitFails(t)

Sweep == SweepSelects \/ SweepRemoves \/ SweepMarks \/ SweepFails

Next ==
    \/ \E s \in Sessions : Request(s) \/ Elapse(s)
    \/ \E u \in Uploads : UploadStep(u)
    \/ \E t \in Starts : \/ StartStep(t) \/ StartFails(t) \/ StartCommitCancelled(t)
                         \/ StartSelects(t) \/ StartFindsNoUpload(t)
    \/ Sweep
    \/ Crash

Spec == Init /\ [][Next]_vars

\* The event loop runs a start to its end, the pipeline's timer included; the
\* loop of the sweep goes round, and its UPDATE does not fail every time.
Fairness ==
    /\ \A t \in Starts : WF_vars(StartStep(t))
    /\ WF_vars(SweepSelects) /\ WF_vars(SweepRemoves) /\ SF_vars(SweepMarks)

FairSpec == Spec /\ Fairness

-----------------------------------------------------------------------------
(* Properties                                                                *)

StartsOf(s) == {t \in Starts : target[t] = s}
UploadsOf(s) == {u \in Uploads : target[u] = s}

\* No two POSTs of s were made so far.
SinglePost(s) ==
    \A u, v \in UploadsOf(s) : up[u] # "idle" /\ up[v] # "idle" => u = v

(***************************************************************************)
(* A consumed session has its transcription: the two are committed in one  *)
(* transaction (start.py, scoped_session), whatever fails or crashes.      *)
(***************************************************************************)
ConsumedHasTranscription ==
    \A s \in Sessions : status[s] = "consumed" =>
        \E t \in StartsOf(s) : row[t] = "committed"

(***************************************************************************)
(* The answer of start_transcription tells the truth about the database:   *)
(* success means the transcription is there, a failure that it is not.     *)
(***************************************************************************)
AnswerMatchesDatabase ==
    \A t \in Starts :
        /\ result[t] = "ok" => row[t] = "committed"
        /\ result[t] \in Refusals \cup {"busy", "error"} => row[t] # "committed"

(***************************************************************************)
(* A session that got a single POST is transcribed from its whole file,    *)
(* however that POST, the starts and the sweep interleave.  (A second POST *)
(* that passed its SELECT in time truncates a file already uploaded.)      *)
(***************************************************************************)
WholeUpload ==
    \A t \in Starts :
        row[t] # "none" /\ SinglePost(target[t]) => read[t] = "full"

(***************************************************************************)
(* The directory goes before the row is marked (purge_expired_upload_      *)
(* sessions, order of operations): an expired session leaves no bytes      *)
(* unless a removal of its directory failed.                               *)
(***************************************************************************)
ExpiredLeavesNoBytes ==
    \A s \in Sessions : status[s] = "expired" /\ s \notin leaked => disk[s] = "none"

(***************************************************************************)
(* What nobody came for does not stay open: a session past its grace period*)
(* ends up consumed or expired for good, whatever late writes, failed      *)
(* sweeps and crashes come in between.                                     *)
(***************************************************************************)
SweptEventually == \A s \in Sessions : <>[](s \in late => status[s] \notin Open)

(***************************************************************************)
(* start.py, comment before _consume_upload: a failed start leaves the row *)
(* recoverable, a retry finds it 'uploaded' and runs again (FL-TRX-01: the *)
(* same after LOCK_BUSY).  A retry needs the bytes.                        *)
(***************************************************************************)
RetryKeepsBytes ==
    [][\A t \in Starts :
          /\ result[t] = "none" /\ result'[t] \in {"busy", "error"}
          /\ target[t] \notin late' /\ status'[target[t]] = "uploaded"
          => disk'[target[t]] = disk[target[t]]]_vars

=============================================================================
