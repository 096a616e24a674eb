------------------------------ MODULE GpuLock ------------------------------
(***************************************************************************)
(* The lock around the GPU: _OrchestrationLock and orchestrate() of        *)
(* pipeline/orchestrator.py, on top of asyncio.Lock and asyncio.wait_for   *)
(* as they are in the Python the project pins (>=3.10,<3.12).              *)
(*                                                                         *)
(* In that Python wait_for runs the coroutine it is given in a Task of its *)
(* own.  A request is therefore three tasks: its own (pc), the one that    *)
(* runs lock.acquire() (acq) and the one that runs _run_pipeline() (pipe). *)
(* An action is what one task does between two awaits; the event loop may  *)
(* run the ready tasks in any order.  The pipeline is opaque here (module  *)
(* Pipeline opens it).                                                     *)
(***************************************************************************)
EXTENDS Naturals, FiniteSets

CONSTANTS Requests,     \* calls of orchestrate() that may be in flight
          NoTask,       \* _owner_task is None
          NoRequest     \* nobody, in the terms of GpuMutex

\* The request's own task and the one wait_for makes for acquire().
RequestTask(r) == <<"request", r>>
AcquireTask(r) == <<"acquire", r>>
Tasks == {"request", "acquire"} \X Requests

ASSUME LockAssumption ==
    /\ NoTask \notin Tasks
    /\ NoRequest \notin Requests

VARIABLES
    locked,     \* asyncio.Lock._locked
    waiters,    \* asyncio.Lock._waiters: requests with a future in the deque
    ahead,      \* ahead[w]: the waiters in front of w, which order the deque
    woken,      \* waiters whose future has its result set
    owner,      \* _OrchestrationLock._owner_task
    acq,        \* state of the task that runs acquire()
    cancelled,  \* acquire tasks told to cancel that have not run since
    pipe,       \* state of the task that runs _run_pipeline()
    pc,         \* where orchestrate() is
    result      \* how the last call ended

lockVars == <<locked, waiters, ahead, woken, owner>>
vars == <<locked, waiters, ahead, woken, owner, acq, cancelled, pipe, pc, result>>

Results == {"none", "ok", "error", "GPUBusy", "PipelineTimeout", "cancelled"}

TypeOK ==
    /\ locked \in BOOLEAN
    /\ waiters \in SUBSET Requests
    /\ ahead \in [Requests -> SUBSET Requests]
    /\ woken \in SUBSET Requests
    /\ owner \in Tasks \cup {NoTask}
    /\ acq \in [Requests -> {"none", "created", "waiting", "acquired"}]
    /\ cancelled \in SUBSET Requests
    /\ pipe \in [Requests -> {"none", "active", "unwinding"}]
    /\ pc \in [Requests -> {"idle", "acquiring", "timing_out", "aborting",
                            "running", "draining", "interrupted"}]
    /\ result \in [Requests -> Results]

Init ==
    /\ locked = FALSE
    /\ waiters = {}
    /\ ahead = [r \in Requests |-> {}]
    /\ woken = {}
    /\ owner = NoTask
    /\ acq = [r \in Requests |-> "none"]
    /\ cancelled = {}
    /\ pipe = [r \in Requests |-> "none"]
    /\ pc = [r \in Requests |-> "idle"]
    /\ result = [r \in Requests |-> "none"]

-----------------------------------------------------------------------------
(* asyncio.Lock                                                              *)

\* fut.cancelled(): told to cancel while the future was still pending.
FutureCancelled(w) == w \in cancelled /\ w \notin woken

\* Mutant: release() without _wake_up_first().
WakeNobody(ws, ah) == woken \cap ws

\* The set of woken waiters after _wake_up_first() on the deque ws ordered by
\* ah: the first gets its result unless its future is already done.
WakeUpFirst(ws, ah) ==
    (woken \cap ws) \cup {w \in ws : ah[w] = {} /\ ~FutureCancelled(w)}

\* self._waiters.remove(fut)
AheadWithout(r) == [w \in Requests |-> IF w = r THEN {} ELSE ahead[w] \ {r}]

\* _OrchestrationLock.release()
Release ==
    /\ owner' = NoTask
    /\ locked' = FALSE
    /\ woken' = WakeUpFirst(waiters, ahead)
    /\ UNCHANGED <<waiters, ahead>>

HeldByCurrentTask(r) == owner # NoTask /\ owner = RequestTask(r)

-----------------------------------------------------------------------------
(* The task that runs _OrchestrationLock.acquire()                           *)

\* Mutant: the lock without its look at the waiters: a newcomer barges in.
FastPathBarging == ~locked

\* asyncio.Lock.acquire() succeeds without waiting.
FastPath == ~locked /\ \A w \in waiters : FutureCancelled(w)

AcquireAtOnce(r) ==
    /\ acq[r] = "created" /\ r \notin cancelled
    /\ FastPath
    /\ locked' = TRUE
    /\ owner' = AcquireTask(r)
    /\ acq' = [acq EXCEPT ![r] = "acquired"]
    /\ UNCHANGED <<waiters, ahead, woken, cancelled, pipe, pc, result>>

AcquireQueues(r) ==
    /\ acq[r] = "created" /\ r \notin cancelled
    /\ ~FastPath
    /\ waiters' = waiters \cup {r}
    /\ ahead' = [ahead EXCEPT ![r] = waiters]
    /\ acq' = [acq EXCEPT ![r] = "waiting"]
    /\ UNCHANGED <<locked, woken, owner, cancelled, pipe, pc, result>>

\* The waiter's future got its result: the task takes the lock.
AcquireResumes(r) ==
    /\ acq[r] = "waiting" /\ r \notin cancelled
    /\ r \in woken
    /\ waiters' = waiters \ {r}
    /\ ahead' = AheadWithout(r)
    /\ woken' = woken \ {r}
    /\ locked' = TRUE
    /\ owner' = AcquireTask(r)
    /\ acq' = [acq EXCEPT ![r] = "acquired"]
    /\ UNCHANGED <<cancelled, pipe, pc, result>>

\* Cancelled before its first step: the coroutine never runs.
AcquireNeverStarts(r) ==
    /\ acq[r] = "created" /\ r \in cancelled
    /\ acq' = [acq EXCEPT ![r] = "none"]
    /\ cancelled' = cancelled \ {r}
    /\ UNCHANGED <<locked, waiters, ahead, woken, owner, pipe, pc, result>>

\* Mutant: a cancelled waiter that does not pass on the wake-up it was given.
AcquireCancelledSilently(r) ==
    /\ acq[r] = "waiting" /\ r \in cancelled
    /\ waiters' = waiters \ {r}
    /\ ahead' = AheadWithout(r)
    /\ woken' = woken \ {r}
    /\ acq' = [acq EXCEPT ![r] = "none"]
    /\ cancelled' = cancelled \ {r}
    /\ UNCHANGED <<locked, owner, pipe, pc, result>>

\* Mutant: the except branch of acquire() without its "owner is None" test: a
\* cancelled waiter releases the lock another request holds.
AcquireCancelledReleases(r) ==
    /\ acq[r] = "waiting" /\ r \in cancelled
    /\ waiters' = waiters \ {r}
    /\ ahead' = AheadWithout(r)
    /\ woken' = WakeUpFirst(waiters \ {r}, AheadWithout(r))
    /\ locked' = FALSE
    /\ owner' = owner
    /\ acq' = [acq EXCEPT ![r] = "none"]
    /\ cancelled' = cancelled \ {r}
    /\ UNCHANGED <<pipe, pc, result>>

\* Cancelled while waiting.  asyncio.Lock wakes the next waiter if the lock is
\* free; then the except branch of _OrchestrationLock.acquire() releases a lock
\* that is held by no task.
AcquireCancelled(r) ==
    LET orphaned == locked /\ owner = NoTask
    IN  /\ acq[r] = "waiting" /\ r \in cancelled
        /\ waiters' = waiters \ {r}
        /\ ahead' = AheadWithout(r)
        /\ locked' = (locked /\ ~orphaned)
        /\ woken' = IF locked /\ ~orphaned
                    THEN woken \ {r}
                    ELSE WakeUpFirst(waiters \ {r}, AheadWithout(r))
        /\ acq' = [acq EXCEPT ![r] = "none"]
        /\ cancelled' = cancelled \ {r}
        /\ UNCHANGED <<owner, pipe, pc, result>>

-----------------------------------------------------------------------------
(* orchestrate(), first half: wait_for(lock.acquire(), lock_wait_seconds)    *)

\* A request identity is used again once the tasks of its last call are gone.
Call(r) ==
    /\ pc[r] = "idle" /\ acq[r] = "none" /\ pipe[r] = "none"
    /\ pc' = [pc EXCEPT ![r] = "acquiring"]
    /\ acq' = [acq EXCEPT ![r] = "created"]
    /\ result' = [result EXCEPT ![r] = "none"]
    /\ UNCHANGED <<lockVars, cancelled, pipe>>

\* acquire() is done: acquired = True and the pipeline's task is made.  It is
\* also what a timer or a cancellation that comes after the task is done does:
\* wait_for then returns fut.result().
AcquireReturns(r) ==
    /\ pc[r] = "acquiring" /\ acq[r] = "acquired"
    /\ pc' = [pc EXCEPT ![r] = "running"]
    /\ acq' = [acq EXCEPT ![r] = "none"]
    /\ pipe' = [pipe EXCEPT ![r] = "active"]
    /\ UNCHANGED <<lockVars, cancelled, result>>

\* wait_for gives up on acquire(): it cancels the task and waits for its end.
GivesUpAcquire(r, next) ==
    /\ pc[r] = "acquiring" /\ acq[r] \in {"created", "waiting"}
    /\ pc' = [pc EXCEPT ![r] = next]
    /\ cancelled' = cancelled \cup {r}
    /\ UNCHANGED <<lockVars, acq, pipe, result>>

\* Mutant: wait_for before 3.7, which left without waiting for the cancelled
\* task: a lock granted at that moment stays with nobody.
AcquireTimesOutDetached(r) ==
    /\ pc[r] = "acquiring" /\ acq[r] \in {"created", "waiting"}
    /\ pc' = [pc EXCEPT ![r] = "idle"]
    /\ result' = [result EXCEPT ![r] = "GPUBusy"]
    /\ UNCHANGED <<lockVars, cancelled, acq, pipe>>

AcquireTimesOut(r) == GivesUpAcquire(r, "timing_out")

CancelAcquiring(r) == GivesUpAcquire(r, "aborting")

\* The acquire task has ended: TimeoutError, GPUBusy.
RaiseGPUBusy(r) ==
    /\ pc[r] = "timing_out" /\ acq[r] = "none"
    /\ IF HeldByCurrentTask(r) THEN Release ELSE UNCHANGED lockVars
    /\ pc' = [pc EXCEPT ![r] = "idle"]
    /\ result' = [result EXCEPT ![r] = "GPUBusy"]
    /\ UNCHANGED <<acq, cancelled, pipe>>

\* The acquire task has ended: the CancelledError goes on to the caller.
RaiseCancelled(r) ==
    /\ pc[r] = "aborting" /\ acq[r] = "none"
    /\ pc' = [pc EXCEPT ![r] = "idle"]
    /\ result' = [result EXCEPT ![r] = "cancelled"]
    /\ UNCHANGED <<lockVars, acq, cancelled, pipe>>

\* A (further) cancellation while wait_for waits for the acquire task to end:
\* it leaves at once, and that task ends on its own.
CancelGivingUp(r) ==
    /\ pc[r] \in {"timing_out", "aborting"} /\ acq[r] # "none"
    /\ pc' = [pc EXCEPT ![r] = "idle"]
    /\ result' = [result EXCEPT ![r] = "cancelled"]
    /\ UNCHANGED <<lockVars, acq, cancelled, pipe>>

-----------------------------------------------------------------------------
(* orchestrate(), second half: wait_for(_run_pipeline(), pipeline_timeout)   *)

\* The finally clause: release the lock and leave with outcome o.
Leave(r, o) ==
    /\ Release
    /\ pc' = [pc EXCEPT ![r] = "idle"]
    /\ result' = [result EXCEPT ![r] = o]

\* The pipeline returns or raises.  A TimeoutError raised inside it is turned
\* into PipelineTimeout as well.
PipelineReturns(r) ==
    /\ pc[r] = "running"
    /\ \E o \in {"ok", "error", "PipelineTimeout"} : Leave(r, o)
    /\ pipe' = [pipe EXCEPT ![r] = "none"]
    /\ UNCHANGED <<acq, cancelled>>

\* The pipeline's task is cancelled and wait_for waits for its end.
StopsPipeline(r, next) ==
    /\ pc[r] = "running"
    /\ pc' = [pc EXCEPT ![r] = next]
    /\ pipe' = [pipe EXCEPT ![r] = "unwinding"]
    /\ UNCHANGED <<lockVars, acq, cancelled, result>>

PipelineTimesOut(r) == StopsPipeline(r, "draining")

CancelRunning(r) == StopsPipeline(r, "interrupted")

\* The pipeline's task has run its finally clauses and is over.
PipelineUnwound(r) ==
    /\ pc[r] \in {"draining", "interrupted"}
    /\ Leave(r, IF pc[r] = "draining" THEN "PipelineTimeout" ELSE "cancelled")
    /\ pipe' = [pipe EXCEPT ![r] = "none"]
    /\ UNCHANGED <<acq, cancelled>>

\* A further cancellation while wait_for waits for the pipeline's task: the
\* finally clause releases the lock although that task is still to unwind.
CancelDraining(r) ==
    /\ pc[r] \in {"draining", "interrupted"}
    /\ Leave(r, "cancelled")
    /\ UNCHANGED <<acq, cancelled, pipe>>

OrphanUnwinds(r) ==
    /\ pc[r] = "idle" /\ pipe[r] = "unwinding"
    /\ pipe' = [pipe EXCEPT ![r] = "none"]
    /\ UNCHANGED <<lockVars, acq, cancelled, pc, result>>

-----------------------------------------------------------------------------
\* Steps the event loop takes for r without a client or a lock-wait timer.
AcquireStep(r) ==
    \/ AcquireAtOnce(r) \/ AcquireQueues(r) \/ AcquireResumes(r)
    \/ AcquireNeverStarts(r) \/ AcquireCancelled(r)

OrchestrateStep(r) ==
    \/ AcquireReturns(r) \/ RaiseGPUBusy(r) \/ RaiseCancelled(r)
    \/ PipelineReturns(r) \/ PipelineTimesOut(r)
    \/ PipelineUnwound(r) \/ OrphanUnwinds(r)

\* The lock-wait timer, the callers and those who cancel them.
EnvironmentStep(r) ==
    \/ Call(r) \/ AcquireTimesOut(r)
    \/ CancelAcquiring(r) \/ CancelGivingUp(r)
    \/ CancelRunning(r) \/ CancelDraining(r)

Next == \E r \in Requests : AcquireStep(r) \/ OrchestrateStep(r) \/ EnvironmentStep(r)

Spec == Init /\ [][Next]_vars

\* The event loop runs every ready task, and the pipeline_timeout timer bounds
\* a pipeline.  No fairness on the lock-wait timer: a request that waits gets
\* the lock because the queue moves, not because it gives up.
Fairness == \A r \in Requests : WF_vars(AcquireStep(r)) /\ WF_vars(OrchestrateStep(r))

FairSpec == Spec /\ Fairness

-----------------------------------------------------------------------------
(* Properties                                                                *)

\* r is between acquire() and its release().
Holds(r) == acq[r] = "acquired" \/ pc[r] \in {"running", "draining", "interrupted"}

(***************************************************************************)
(* The lock never leaks and is never in two hands: it is locked exactly    *)
(* when an owner is recorded, and exactly while the request of that owner  *)
(* is between its acquire() and its release() (orchestrator.py CR-1/CR-2). *)
(* The owner is always an acquire task, so neither defensive release (the  *)
(* except branch of acquire(), the one before GPUBusy) ever has work to do.*)
(***************************************************************************)
LockHeldByItsOwner ==
    /\ locked <=> owner # NoTask
    /\ owner \in {AcquireTask(r) : r \in Requests} \cup {NoTask}
    /\ \A r \in Requests : Holds(r) <=> owner = AcquireTask(r)

(***************************************************************************)
(* No lost wake-up: while the lock is free, the first waiter has been woken *)
(* or is about to leave the queue, so somebody will hand the lock on, and   *)
(* only the first is ever woken.                                            *)
(***************************************************************************)
NoLostWakeUp ==
    /\ ~locked => \A w \in waiters : ahead[w] = {} => w \in woken \cup cancelled
    /\ \A w \in woken : ~locked /\ ahead[w] = {}

(***************************************************************************)
(* First come, first served: the lock goes to a request that queued only   *)
(* when all those in front of it in the queue have left, and to a newcomer *)
(* only when every waiter is leaving.                                      *)
(***************************************************************************)
NoBarging ==
    [][\A r \in Requests :
          (acq[r] # "acquired" /\ acq'[r] = "acquired") =>
              \A w \in (IF r \in waiters THEN ahead[r] ELSE waiters) : w \in cancelled]_vars

(***************************************************************************)
(* GPUBusy means "the GPU never started this job" (orchestrator.py GPUBusy)*)
(* and leaves nothing behind: no task of the request holds or still waits  *)
(* for the lock when it is raised.                                         *)
(***************************************************************************)
BusyLeavesNothing ==
    [][\A r \in Requests :
          (result[r] # "GPUBusy" /\ result'[r] = "GPUBusy") =>
              /\ acq'[r] = "none" /\ pipe'[r] = "none"
              /\ owner' # AcquireTask(r)
              /\ r \notin waiters']_vars

(***************************************************************************)
(* A request that asks for the lock gets an answer even if its lock-wait   *)
(* timer never fires: nobody starves in the queue.                         *)
(***************************************************************************)
EveryCallIsAnswered ==
    \A r \in Requests : pc[r] = "acquiring" ~> pc[r] \in {"running", "idle"}

(***************************************************************************)
(* The lock implements GpuMutex.                                           *)
(***************************************************************************)
Holder == IF owner = NoTask THEN NoRequest ELSE owner[2]
Busy == {r \in Requests : pipe[r] = "active"}

Mutex == INSTANCE GpuMutex WITH holder <- Holder, busy <- Busy

ImplementsMutex == Mutex!MutexSpec
=============================================================================
