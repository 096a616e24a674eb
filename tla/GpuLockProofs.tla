---------------------------- MODULE GpuLockProofs ----------------------------
(***************************************************************************)
(* The GPU lock is safe for any set of requests: the invariants of GpuLock *)
(* and its implementation of GpuMutex.                                     *)
(***************************************************************************)
EXTENDS GpuLock, TLAPS

-----------------------------------------------------------------------------
(* The inductive invariant                                                   *)

\* The deque: a total order on the tasks that wait, empty for the others.
QueueOK ==
    /\ waiters = {r \in Requests : acq[r] = "waiting"}
    /\ woken \subseteq waiters
    /\ \A w \in Requests : ahead[w] \subseteq waiters \ {w}
    /\ \A w \in Requests : w \notin waiters => ahead[w] = {}
    /\ \A v, w \in waiters : v # w => v \in ahead[w] \/ w \in ahead[v]

\* The three tasks of a request are in step: a cancelled acquire task has been
\* given up by its request, and only a running request has an active pipeline.
PhaseOK ==
    \A r \in Requests :
        /\ r \in cancelled <=>
              acq[r] \in {"created", "waiting"} /\ pc[r] # "acquiring"
        /\ pc[r] = "acquiring" => acq[r] # "none"
        /\ acq[r] = "acquired" => pc[r] = "acquiring"
        /\ pc[r] \in {"running", "draining", "interrupted"} => acq[r] = "none"
        /\ pc[r] = "running" <=> pipe[r] = "active"
        /\ pc[r] \in {"acquiring", "timing_out", "aborting"} => pipe[r] = "none"

IInv == TypeOK /\ QueueOK /\ PhaseOK /\ LockHeldByItsOwner /\ NoLostWakeUp

-----------------------------------------------------------------------------
(* Every step of a request preserves each part of the invariant              *)

\* Every variable keeps its type.
LEMMA TypeStep ==
    ASSUME TypeOK,
           NEW r \in Requests,
           AcquireStep(r) \/ OrchestrateStep(r) \/ EnvironmentStep(r)
    PROVE  TypeOK'
<1>1. CASE AcquireAtOnce(r)
  BY <1>1
     DEF AcquireAtOnce, FastPath, TypeOK, Tasks, Results, AcquireTask
<1>2. CASE AcquireQueues(r)
  BY <1>2
     DEF AcquireQueues, TypeOK, Tasks, Results, AcquireTask
<1>3. CASE AcquireResumes(r)
  BY <1>3
     DEF AcquireResumes, AheadWithout, TypeOK, Tasks, Results, AcquireTask
<1>4. CASE AcquireNeverStarts(r)
  BY <1>4
     DEF AcquireNeverStarts, TypeOK, Tasks, Results, AcquireTask
<1>5. CASE AcquireCancelled(r)
  BY <1>5
     DEF AcquireCancelled, AheadWithout, WakeUpFirst, TypeOK, Tasks,
         Results, AcquireTask
<1>6. CASE AcquireReturns(r)
  BY <1>6
     DEF AcquireReturns, lockVars, TypeOK, Tasks, Results, AcquireTask
<1>7. CASE RaiseGPUBusy(r)
  BY <1>7
     DEF RaiseGPUBusy, Release, WakeUpFirst, lockVars, TypeOK, Tasks,
         Results, AcquireTask
<1>8. CASE RaiseCancelled(r)
  BY <1>8
     DEF RaiseCancelled, lockVars, TypeOK, Tasks, Results, AcquireTask
<1>9. CASE PipelineReturns(r)
  <2>1. PICK o \in {"ok", "error", "PipelineTimeout"} : Leave(r, o)
    BY <1>9 DEF PipelineReturns
  <2>. QED
    BY <1>9, <2>1
       DEF PipelineReturns, Leave, Release, WakeUpFirst, TypeOK, Tasks, Results
<1>10. CASE PipelineTimesOut(r)
  BY <1>10
     DEF PipelineTimesOut, StopsPipeline, lockVars, TypeOK, Tasks, Results,
         AcquireTask
<1>11. CASE PipelineUnwound(r)
  BY <1>11
     DEF PipelineUnwound, Leave, Release, WakeUpFirst, TypeOK, Tasks,
         Results, AcquireTask
<1>12. CASE OrphanUnwinds(r)
  BY <1>12
     DEF OrphanUnwinds, lockVars, TypeOK, Tasks, Results, AcquireTask
<1>13. CASE Call(r)
  BY <1>13
     DEF Call, lockVars, TypeOK, Tasks, Results, AcquireTask
<1>14. CASE AcquireTimesOut(r)
  BY <1>14
     DEF AcquireTimesOut, GivesUpAcquire, lockVars, TypeOK, Tasks, Results,
         AcquireTask
<1>15. CASE CancelAcquiring(r)
  BY <1>15
     DEF CancelAcquiring, GivesUpAcquire, lockVars, TypeOK, Tasks, Results,
         AcquireTask
<1>16. CASE CancelGivingUp(r)
  BY <1>16
     DEF CancelGivingUp, lockVars, TypeOK, Tasks, Results, AcquireTask
<1>17. CASE CancelRunning(r)
  BY <1>17
     DEF CancelRunning, StopsPipeline, lockVars, TypeOK, Tasks, Results,
         AcquireTask
<1>18. CASE CancelDraining(r)
  BY <1>18
     DEF CancelDraining, Leave, Release, WakeUpFirst, TypeOK, Tasks,
         Results, AcquireTask
<1>. QED
  BY <1>1, <1>2, <1>3, <1>4, <1>5, <1>6, <1>7, <1>8, <1>9, <1>10, <1>11,
     <1>12, <1>13, <1>14, <1>15, <1>16, <1>17, <1>18
     DEF AcquireStep, OrchestrateStep, EnvironmentStep

\* The deque stays a total order of the waiting acquire tasks.
LEMMA QueueStep ==
    ASSUME TypeOK, QueueOK,
           NEW r \in Requests,
           AcquireStep(r) \/ OrchestrateStep(r) \/ EnvironmentStep(r)
    PROVE  QueueOK'
<1>1. CASE AcquireAtOnce(r)
  BY <1>1
     DEF AcquireAtOnce, FastPath, TypeOK, QueueOK
<1>2. CASE AcquireQueues(r)
  BY <1>2
     DEF AcquireQueues, TypeOK, QueueOK
<1>3. CASE AcquireResumes(r)
  BY <1>3
     DEF AcquireResumes, AheadWithout, TypeOK, QueueOK
<1>4. CASE AcquireNeverStarts(r)
  BY <1>4
     DEF AcquireNeverStarts, TypeOK, QueueOK
<1>5. CASE AcquireCancelled(r)
  BY <1>5
     DEF AcquireCancelled, AheadWithout, WakeUpFirst, TypeOK, QueueOK
<1>6. CASE AcquireReturns(r)
  BY <1>6
     DEF AcquireReturns, lockVars, TypeOK, QueueOK
<1>7. CASE RaiseGPUBusy(r)
  BY <1>7
     DEF RaiseGPUBusy, Release, WakeUpFirst, lockVars, TypeOK, QueueOK
<1>8. CASE RaiseCancelled(r)
  BY <1>8
     DEF RaiseCancelled, lockVars, TypeOK, QueueOK
<1>9. CASE PipelineReturns(r)
  BY <1>9
     DEF PipelineReturns, Leave, Release, WakeUpFirst, TypeOK, QueueOK
<1>10. CASE PipelineTimesOut(r)
  BY <1>10
     DEF PipelineTimesOut, StopsPipeline, lockVars, TypeOK, QueueOK
<1>11. CASE PipelineUnwound(r)
  BY <1>11
     DEF PipelineUnwound, Leave, Release, WakeUpFirst, TypeOK, QueueOK
<1>12. CASE OrphanUnwinds(r)
  BY <1>12
     DEF OrphanUnwinds, lockVars, TypeOK, QueueOK
<1>13. CASE Call(r)
  BY <1>13
     DEF Call, lockVars, TypeOK, QueueOK
<1>14. CASE AcquireTimesOut(r)
  BY <1>14
     DEF AcquireTimesOut, GivesUpAcquire, lockVars, TypeOK, QueueOK
<1>15. CASE CancelAcquiring(r)
  BY <1>15
     DEF CancelAcquiring, GivesUpAcquire, lockVars, TypeOK, QueueOK
<1>16. CASE CancelGivingUp(r)
  BY <1>16
     DEF CancelGivingUp, lockVars, TypeOK, QueueOK
<1>17. CASE CancelRunning(r)
  BY <1>17
     DEF CancelRunning, StopsPipeline, lockVars, TypeOK, QueueOK
<1>18. CASE CancelDraining(r)
  BY <1>18
     DEF CancelDraining, Leave, Release, WakeUpFirst, TypeOK, QueueOK
<1>. QED
  BY <1>1, <1>2, <1>3, <1>4, <1>5, <1>6, <1>7, <1>8, <1>9, <1>10, <1>11,
     <1>12, <1>13, <1>14, <1>15, <1>16, <1>17, <1>18
     DEF AcquireStep, OrchestrateStep, EnvironmentStep

\* The three tasks of every request stay in step.
LEMMA PhaseStep ==
    ASSUME TypeOK, PhaseOK,
           NEW r \in Requests,
           AcquireStep(r) \/ OrchestrateStep(r) \/ EnvironmentStep(r)
    PROVE  PhaseOK'
<1>1. CASE AcquireAtOnce(r)
  BY <1>1
     DEF AcquireAtOnce, FastPath, TypeOK, PhaseOK
<1>2. CASE AcquireQueues(r)
  BY <1>2
     DEF AcquireQueues, TypeOK, PhaseOK
<1>3. CASE AcquireResumes(r)
  BY <1>3
     DEF AcquireResumes, AheadWithout, TypeOK, PhaseOK
<1>4. CASE AcquireNeverStarts(r)
  BY <1>4
     DEF AcquireNeverStarts, TypeOK, PhaseOK
<1>5. CASE AcquireCancelled(r)
  BY <1>5
     DEF AcquireCancelled, AheadWithout, WakeUpFirst, TypeOK, PhaseOK
<1>6. CASE AcquireReturns(r)
  BY <1>6
     DEF AcquireReturns, lockVars, TypeOK, PhaseOK
<1>7. CASE RaiseGPUBusy(r)
  BY <1>7
     DEF RaiseGPUBusy, Release, WakeUpFirst, lockVars, TypeOK, PhaseOK
<1>8. CASE RaiseCancelled(r)
  BY <1>8
     DEF RaiseCancelled, lockVars, TypeOK, PhaseOK
<1>9. CASE PipelineReturns(r)
  BY <1>9
     DEF PipelineReturns, Leave, Release, WakeUpFirst, TypeOK, PhaseOK
<1>10. CASE PipelineTimesOut(r)
  BY <1>10
     DEF PipelineTimesOut, StopsPipeline, lockVars, TypeOK, PhaseOK
<1>11. CASE PipelineUnwound(r)
  BY <1>11
     DEF PipelineUnwound, Leave, Release, WakeUpFirst, TypeOK, PhaseOK
<1>12. CASE OrphanUnwinds(r)
  BY <1>12
     DEF OrphanUnwinds, lockVars, TypeOK, PhaseOK
<1>13. CASE Call(r)
  BY <1>13
     DEF Call, lockVars, TypeOK, PhaseOK
<1>14. CASE AcquireTimesOut(r)
  BY <1>14
     DEF AcquireTimesOut, GivesUpAcquire, lockVars, TypeOK, PhaseOK
<1>15. CASE CancelAcquiring(r)
  BY <1>15
     DEF CancelAcquiring, GivesUpAcquire, lockVars, TypeOK, PhaseOK
<1>16. CASE CancelGivingUp(r)
  BY <1>16
     DEF CancelGivingUp, lockVars, TypeOK, PhaseOK
<1>17. CASE CancelRunning(r)
  BY <1>17
     DEF CancelRunning, StopsPipeline, lockVars, TypeOK, PhaseOK
<1>18. CASE CancelDraining(r)
  BY <1>18
     DEF CancelDraining, Leave, Release, WakeUpFirst, TypeOK, PhaseOK
<1>. QED
  BY <1>1, <1>2, <1>3, <1>4, <1>5, <1>6, <1>7, <1>8, <1>9, <1>10, <1>11,
     <1>12, <1>13, <1>14, <1>15, <1>16, <1>17, <1>18
     DEF AcquireStep, OrchestrateStep, EnvironmentStep

\* The lock is granted only while nobody holds it and released only by its
\* holder.
LEMMA OwnerStep ==
    ASSUME IInv,
           NEW r \in Requests,
           AcquireStep(r) \/ OrchestrateStep(r) \/ EnvironmentStep(r)
    PROVE  LockHeldByItsOwner'
<1>1. CASE AcquireAtOnce(r)
  BY <1>1, LockAssumption
     DEF AcquireAtOnce, FastPath, IInv, TypeOK, QueueOK, PhaseOK,
         NoLostWakeUp, LockHeldByItsOwner, Holds, AcquireTask, Tasks
<1>2. CASE AcquireQueues(r)
  BY <1>2, LockAssumption
     DEF AcquireQueues, IInv, TypeOK, QueueOK, PhaseOK, NoLostWakeUp,
         LockHeldByItsOwner, Holds, AcquireTask, Tasks
<1>3. CASE AcquireResumes(r)
  BY <1>3, LockAssumption
     DEF AcquireResumes, AheadWithout, IInv, TypeOK, QueueOK, PhaseOK,
         NoLostWakeUp, LockHeldByItsOwner, Holds, AcquireTask, Tasks
<1>4. CASE AcquireNeverStarts(r)
  BY <1>4, LockAssumption
     DEF AcquireNeverStarts, IInv, TypeOK, QueueOK, PhaseOK, NoLostWakeUp,
         LockHeldByItsOwner, Holds, AcquireTask, Tasks
<1>5. CASE AcquireCancelled(r)
  BY <1>5, LockAssumption
     DEF AcquireCancelled, AheadWithout, WakeUpFirst, IInv, TypeOK, QueueOK,
         PhaseOK, NoLostWakeUp, LockHeldByItsOwner, Holds, AcquireTask,
         Tasks
<1>6. CASE AcquireReturns(r)
  BY <1>6, LockAssumption
     DEF AcquireReturns, lockVars, IInv, TypeOK, QueueOK, PhaseOK,
         NoLostWakeUp, LockHeldByItsOwner, Holds, AcquireTask, Tasks
<1>7. CASE RaiseGPUBusy(r)
  BY <1>7, LockAssumption
     DEF HeldByCurrentTask, RequestTask, RaiseGPUBusy, Release, WakeUpFirst,
         lockVars, IInv, TypeOK, QueueOK, PhaseOK, NoLostWakeUp,
         LockHeldByItsOwner, Holds, AcquireTask, Tasks
<1>8. CASE RaiseCancelled(r)
  BY <1>8, LockAssumption
     DEF RaiseCancelled, lockVars, IInv, TypeOK, QueueOK, PhaseOK,
         NoLostWakeUp, LockHeldByItsOwner, Holds, AcquireTask, Tasks
<1>9. CASE PipelineReturns(r)
  BY <1>9, LockAssumption
     DEF PipelineReturns, Leave, Release, WakeUpFirst, IInv, TypeOK,
         QueueOK, PhaseOK, NoLostWakeUp, LockHeldByItsOwner, Holds,
         AcquireTask, Tasks
<1>10. CASE PipelineTimesOut(r)
  BY <1>10, LockAssumption
     DEF PipelineTimesOut, StopsPipeline, lockVars, IInv, TypeOK, QueueOK,
         PhaseOK, NoLostWakeUp, LockHeldByItsOwner, Holds, AcquireTask,
         Tasks
<1>11. CASE PipelineUnwound(r)
  BY <1>11, LockAssumption
     DEF PipelineUnwound, Leave, Release, WakeUpFirst, IInv, TypeOK,
         QueueOK, PhaseOK, NoLostWakeUp, LockHeldByItsOwner, Holds,
         AcquireTask, Tasks
<1>12. CASE OrphanUnwinds(r)
  BY <1>12, LockAssumption
     DEF OrphanUnwinds, lockVars, IInv, TypeOK, QueueOK, PhaseOK,
         NoLostWakeUp, LockHeldByItsOwner, Holds, AcquireTask, Tasks
<1>13. CASE Call(r)
  BY <1>13, LockAssumption
     DEF Call, lockVars, IInv, TypeOK, QueueOK, PhaseOK, NoLostWakeUp,
         LockHeldByItsOwner, Holds, AcquireTask, Tasks
<1>14. CASE AcquireTimesOut(r)
  BY <1>14, LockAssumption
     DEF AcquireTimesOut, GivesUpAcquire, lockVars, IInv, TypeOK, QueueOK,
         PhaseOK, NoLostWakeUp, LockHeldByItsOwner, Holds, AcquireTask,
         Tasks
<1>15. CASE CancelAcquiring(r)
  BY <1>15, LockAssumption
     DEF CancelAcquiring, GivesUpAcquire, lockVars, IInv, TypeOK, QueueOK,
         PhaseOK, NoLostWakeUp, LockHeldByItsOwner, Holds, AcquireTask,
         Tasks
<1>16. CASE CancelGivingUp(r)
  BY <1>16, LockAssumption
     DEF CancelGivingUp, lockVars, IInv, TypeOK, QueueOK, PhaseOK,
         NoLostWakeUp, LockHeldByItsOwner, Holds, AcquireTask, Tasks
<1>17. CASE CancelRunning(r)
  BY <1>17, LockAssumption
     DEF CancelRunning, StopsPipeline, lockVars, IInv, TypeOK, QueueOK,
         PhaseOK, NoLostWakeUp, LockHeldByItsOwner, Holds, AcquireTask,
         Tasks
<1>18. CASE CancelDraining(r)
  BY <1>18, LockAssumption
     DEF CancelDraining, Leave, Release, WakeUpFirst, IInv, TypeOK, QueueOK,
         PhaseOK, NoLostWakeUp, LockHeldByItsOwner, Holds, AcquireTask,
         Tasks
<1>. QED
  BY <1>1, <1>2, <1>3, <1>4, <1>5, <1>6, <1>7, <1>8, <1>9, <1>10, <1>11,
     <1>12, <1>13, <1>14, <1>15, <1>16, <1>17, <1>18
     DEF AcquireStep, OrchestrateStep, EnvironmentStep

\* Whoever frees the lock, or leaves the queue while it is free, wakes the
\* next waiter.
LEMMA WakeStep ==
    ASSUME IInv,
           NEW r \in Requests,
           AcquireStep(r) \/ OrchestrateStep(r) \/ EnvironmentStep(r)
    PROVE  NoLostWakeUp'
<1>1. CASE AcquireAtOnce(r)
  BY <1>1
     DEF FutureCancelled, AcquireAtOnce, FastPath, IInv, TypeOK, QueueOK,
         PhaseOK, NoLostWakeUp, LockHeldByItsOwner
<1>2. CASE AcquireQueues(r)
  BY <1>2
     DEF FastPath, FutureCancelled, AcquireQueues, IInv, TypeOK, QueueOK,
         PhaseOK, NoLostWakeUp, LockHeldByItsOwner
<1>3. CASE AcquireResumes(r)
  BY <1>3
     DEF AcquireResumes, AheadWithout, IInv, TypeOK, QueueOK, PhaseOK,
         NoLostWakeUp, LockHeldByItsOwner
<1>4. CASE AcquireNeverStarts(r)
  BY <1>4
     DEF AcquireNeverStarts, IInv, TypeOK, QueueOK, PhaseOK, NoLostWakeUp,
         LockHeldByItsOwner
<1>5. CASE AcquireCancelled(r)
  BY <1>5
     DEF FutureCancelled, AcquireCancelled, AheadWithout, WakeUpFirst, IInv,
         TypeOK, QueueOK, PhaseOK, NoLostWakeUp, LockHeldByItsOwner
<1>6. CASE AcquireReturns(r)
  BY <1>6
     DEF AcquireReturns, lockVars, IInv, TypeOK, QueueOK, PhaseOK,
         NoLostWakeUp, LockHeldByItsOwner
<1>7. CASE RaiseGPUBusy(r)
  BY <1>7
     DEF HeldByCurrentTask, RequestTask, FutureCancelled, RaiseGPUBusy,
         Release, WakeUpFirst, lockVars, IInv, TypeOK, QueueOK, PhaseOK,
         NoLostWakeUp, LockHeldByItsOwner
<1>8. CASE RaiseCancelled(r)
  BY <1>8
     DEF RaiseCancelled, lockVars, IInv, TypeOK, QueueOK, PhaseOK,
         NoLostWakeUp, LockHeldByItsOwner
<1>9. CASE PipelineReturns(r)
  BY <1>9
     DEF FutureCancelled, PipelineReturns, Leave, Release, WakeUpFirst,
         IInv, TypeOK, QueueOK, PhaseOK, NoLostWakeUp, LockHeldByItsOwner
<1>10. CASE PipelineTimesOut(r)
  BY <1>10
     DEF PipelineTimesOut, StopsPipeline, lockVars, IInv, TypeOK, QueueOK,
         PhaseOK, NoLostWakeUp, LockHeldByItsOwner
<1>11. CASE PipelineUnwound(r)
  BY <1>11
     DEF FutureCancelled, PipelineUnwound, Leave, Release, WakeUpFirst,
         IInv, TypeOK, QueueOK, PhaseOK, NoLostWakeUp, LockHeldByItsOwner
<1>12. CASE OrphanUnwinds(r)
  BY <1>12
     DEF OrphanUnwinds, lockVars, IInv, TypeOK, QueueOK, PhaseOK,
         NoLostWakeUp, LockHeldByItsOwner
<1>13. CASE Call(r)
  BY <1>13
     DEF Call, lockVars, IInv, TypeOK, QueueOK, PhaseOK, NoLostWakeUp,
         LockHeldByItsOwner
<1>14. CASE AcquireTimesOut(r)
  BY <1>14
     DEF AcquireTimesOut, GivesUpAcquire, lockVars, IInv, TypeOK, QueueOK,
         PhaseOK, NoLostWakeUp, LockHeldByItsOwner
<1>15. CASE CancelAcquiring(r)
  BY <1>15
     DEF CancelAcquiring, GivesUpAcquire, lockVars, IInv, TypeOK, QueueOK,
         PhaseOK, NoLostWakeUp, LockHeldByItsOwner
<1>16. CASE CancelGivingUp(r)
  BY <1>16
     DEF CancelGivingUp, lockVars, IInv, TypeOK, QueueOK, PhaseOK,
         NoLostWakeUp, LockHeldByItsOwner
<1>17. CASE CancelRunning(r)
  BY <1>17
     DEF CancelRunning, StopsPipeline, lockVars, IInv, TypeOK, QueueOK,
         PhaseOK, NoLostWakeUp, LockHeldByItsOwner
<1>18. CASE CancelDraining(r)
  BY <1>18
     DEF FutureCancelled, CancelDraining, Leave, Release, WakeUpFirst, IInv,
         TypeOK, QueueOK, PhaseOK, NoLostWakeUp, LockHeldByItsOwner
<1>. QED
  BY <1>1, <1>2, <1>3, <1>4, <1>5, <1>6, <1>7, <1>8, <1>9, <1>10, <1>11,
     <1>12, <1>13, <1>14, <1>15, <1>16, <1>17, <1>18
     DEF AcquireStep, OrchestrateStep, EnvironmentStep

-----------------------------------------------------------------------------
(* The invariant and what follows from it                                    *)

LEMMA InitIInv == Init => IInv
<1>. SUFFICES ASSUME Init PROVE IInv
  OBVIOUS
<1>1. TypeOK
  BY DEF Init, TypeOK, Results
<1>2. QueueOK
  BY DEF Init, QueueOK
<1>3. PhaseOK
  BY DEF Init, PhaseOK
<1>4. LockHeldByItsOwner
  BY LockAssumption DEF Init, LockHeldByItsOwner, Holds, AcquireTask, Tasks
<1>5. NoLostWakeUp
  BY DEF Init, NoLostWakeUp
<1>. QED
  BY <1>1, <1>2, <1>3, <1>4, <1>5 DEF IInv

LEMMA StepIInv == IInv /\ [Next]_vars => IInv'
<1>1. ASSUME IInv, NEW r \in Requests,
             AcquireStep(r) \/ OrchestrateStep(r) \/ EnvironmentStep(r)
      PROVE  IInv'
  <2>1. TypeOK' /\ QueueOK' /\ PhaseOK'
    BY <1>1, TypeStep, QueueStep, PhaseStep DEF IInv
  <2>2. LockHeldByItsOwner' /\ NoLostWakeUp'
    BY <1>1, OwnerStep, WakeStep
  <2>. QED
    BY <2>1, <2>2 DEF IInv
<1>2. IInv /\ UNCHANGED vars => IInv'
  BY DEF IInv, TypeOK, QueueOK, PhaseOK, LockHeldByItsOwner, NoLostWakeUp, Holds,
         vars
<1>. QED
  BY <1>1, <1>2 DEF Next

THEOREM Invariance == Spec => []IInv
BY InitIInv, StepIInv, PTL DEF Spec

(***************************************************************************)
(* Every variable of the lock and of orchestrate() keeps its type.         *)
(***************************************************************************)
THEOREM TypeCorrect == Spec => []TypeOK
BY Invariance, PTL DEF IInv

(***************************************************************************)
(* The lock is locked exactly while one request, the recorded owner, is    *)
(* between acquire() and release(): it never leaks and never has two       *)
(* holders, under any timeouts and cancellations.                          *)
(***************************************************************************)
THEOREM LockSafe == Spec => []LockHeldByItsOwner
BY Invariance, PTL DEF IInv

(***************************************************************************)
(* While the lock is free the first waiter is woken or leaving.            *)
(***************************************************************************)
THEOREM WakeUpSafe == Spec => []NoLostWakeUp
BY Invariance, PTL DEF IInv

(***************************************************************************)
(* The lock is granted in the order of the queue.                          *)
(***************************************************************************)
THEOREM GrantedInOrder == Spec => NoBarging
<1>. DEFINE Fair(r) ==
       (acq[r] # "acquired" /\ acq'[r] = "acquired") =>
           \A w \in (IF r \in waiters THEN ahead[r] ELSE waiters) : w \in cancelled
<1>1. ASSUME IInv, NEW r \in Requests, NEW q \in Requests,
             AcquireStep(q) \/ OrchestrateStep(q) \/ EnvironmentStep(q)
      PROVE  Fair(r)
  <2>1. CASE AcquireAtOnce(q)
    BY <1>1, <2>1
       DEF AcquireAtOnce, FastPath, FutureCancelled, IInv, TypeOK, QueueOK
  <2>2. CASE AcquireResumes(q)
    BY <1>1, <2>2 DEF AcquireResumes, IInv, TypeOK, QueueOK, NoLostWakeUp
  <2>3. CASE ~AcquireAtOnce(q) /\ ~AcquireResumes(q)
    <3>1. acq'[r] = acq[r] \/ acq'[r] \in {"none", "created", "waiting"}
      BY <1>1, <2>3
         DEF AcquireStep, OrchestrateStep, EnvironmentStep, AcquireQueues,
             AcquireNeverStarts, AcquireCancelled, AcquireReturns, RaiseGPUBusy,
             RaiseCancelled, PipelineReturns, PipelineTimesOut, StopsPipeline,
             PipelineUnwound, OrphanUnwinds, Call, AcquireTimesOut,
             CancelAcquiring, GivesUpAcquire, CancelGivingUp, CancelRunning,
             CancelDraining, IInv, TypeOK
    <3>. QED
      BY <3>1
  <2>. QED
    BY <2>1, <2>2, <2>3
<1>2. IInv /\ UNCHANGED vars => \A r \in Requests : Fair(r)
  BY DEF vars
<1>3. IInv /\ [Next]_vars => [\A r \in Requests : Fair(r)]_vars
  BY <1>1, <1>2 DEF Next
<1>. QED
  BY <1>3, Invariance, PTL DEF Spec, NoBarging

(***************************************************************************)
(* When GPUBusy is raised the request's tasks neither hold the lock nor    *)
(* wait for it, and its pipeline was not started.                          *)
(***************************************************************************)
THEOREM BusyIsClean == Spec => BusyLeavesNothing
<1>. DEFINE Clean(r) ==
       (result[r] # "GPUBusy" /\ result'[r] = "GPUBusy") =>
           /\ acq'[r] = "none" /\ pipe'[r] = "none"
           /\ owner' # AcquireTask(r)
           /\ r \notin waiters'
<1>1. ASSUME IInv, IInv', NEW r \in Requests, NEW q \in Requests,
             AcquireStep(q) \/ OrchestrateStep(q) \/ EnvironmentStep(q)
      PROVE  Clean(r)
  <2>1. CASE RaiseGPUBusy(q)
    BY <1>1, <2>1
       DEF RaiseGPUBusy, HeldByCurrentTask, RequestTask, AcquireTask, Release,
           lockVars, IInv, TypeOK, QueueOK, PhaseOK, LockHeldByItsOwner, Holds
  <2>2. CASE ~RaiseGPUBusy(q)
    BY <1>1, <2>2
       DEF AcquireStep, OrchestrateStep, EnvironmentStep, AcquireAtOnce,
           AcquireQueues, AcquireResumes, AcquireNeverStarts, AcquireCancelled,
           AcquireReturns, RaiseCancelled, PipelineReturns, Leave,
           PipelineTimesOut, StopsPipeline, PipelineUnwound, OrphanUnwinds, Call,
           AcquireTimesOut, CancelAcquiring, GivesUpAcquire, CancelGivingUp,
           CancelRunning, CancelDraining, IInv, TypeOK
  <2>. QED
    BY <2>1, <2>2
<1>2. IInv /\ IInv' /\ [Next]_vars => [\A r \in Requests : Clean(r)]_vars
  BY <1>1 DEF Next
<1>. QED
  BY <1>2, Invariance, PTL DEF Spec, BusyLeavesNothing

-----------------------------------------------------------------------------
(* The lock implements the abstract one                                      *)

\* Whoever is between acquire() and release() is the abstract holder.
LEMMA HolderOf ==
    ASSUME IInv, NEW r \in Requests
    PROVE  /\ Holds(r) <=> Holder = r
           /\ locked <=> Holder # NoRequest
           /\ pipe[r] = "active" => Holder = r
<1>1. owner = NoTask \/ \E q \in Requests : owner = AcquireTask(q)
  BY DEF IInv, LockHeldByItsOwner
<1>2. \A q \in Requests : AcquireTask(q) \in Tasks /\ AcquireTask(q)[2] = q
  BY DEF AcquireTask, Tasks
<1>3. Holds(r) <=> owner = AcquireTask(r)
  BY DEF IInv, LockHeldByItsOwner
<1>4. owner = AcquireTask(r) <=> Holder = r
  <2>1. CASE owner = NoTask
    BY <2>1, <1>2, LockAssumption DEF Holder
  <2>2. CASE \E q \in Requests : owner = AcquireTask(q)
    BY <2>2, <1>2, LockAssumption DEF Holder
  <2>. QED
    BY <1>1, <2>1, <2>2
<1>5. locked <=> Holder # NoRequest
  BY <1>1, <1>2, LockAssumption DEF Holder, IInv, LockHeldByItsOwner
<1>6. pipe[r] = "active" => Holds(r)
  BY DEF IInv, PhaseOK, Holds
<1>. QED
  BY <1>3, <1>4, <1>5, <1>6

\* An action that leaves the owner and the running pipelines alone stutters.
LEMMA QuietStep ==
    ASSUME owner' = owner, TypeOK, TypeOK',
           \A r \in Requests : pipe'[r] = "active" <=> pipe[r] = "active"
    PROVE  UNCHANGED <<Holder, Busy>>
BY DEF Holder, Busy

\* The grant of the lock is Enter.
LEMMA GrantEnters ==
    ASSUME IInv, IInv', NEW r \in Requests,
           AcquireAtOnce(r) \/ AcquireResumes(r)
    PROVE  Mutex!Enter(r)
<1>1. Holder = NoRequest
  <2>1. ~locked
    BY DEF AcquireAtOnce, FastPath, AcquireResumes, IInv, NoLostWakeUp
  <2>. QED
    BY <2>1, HolderOf
<1>2. Holder' = r
  <2>1. owner' = AcquireTask(r)
    BY DEF AcquireAtOnce, AcquireResumes
  <2>. QED
    BY <2>1, LockAssumption DEF Holder, AcquireTask, Tasks
<1>3. Busy' = Busy
  BY DEF AcquireAtOnce, AcquireResumes, Busy
<1>. QED
  BY <1>1, <1>2, <1>3 DEF Mutex!Enter

\* Making the pipeline's task is Start.
LEMMA ReturnStarts ==
    ASSUME IInv, IInv', NEW r \in Requests, AcquireReturns(r)
    PROVE  Mutex!Start(r)
<1>1. Holder = r
  BY HolderOf DEF AcquireReturns, Holds
<1>2. Busy = {}
  <2>1. \A q \in Requests : pipe[q] = "active" => q = r
    BY <1>1, HolderOf
  <2>2. pipe[r] # "active"
    BY DEF AcquireReturns, IInv, PhaseOK
  <2>. QED
    BY <2>1, <2>2 DEF Busy
<1>3. Busy' = {r}
  BY <1>2 DEF AcquireReturns, Busy, IInv, TypeOK
<1>4. Holder' = Holder
  BY DEF AcquireReturns, lockVars, Holder
<1>. QED
  BY <1>1, <1>2, <1>3, <1>4 DEF Mutex!Start

\* Cancelling the pipeline's task is Stop.
LEMMA TimeoutStops ==
    ASSUME IInv, IInv', NEW r \in Requests, PipelineTimesOut(r) \/ CancelRunning(r)
    PROVE  Mutex!Stop(r)
<1>1. Holder = r /\ Holder' = Holder
  BY HolderOf
     DEF PipelineTimesOut, CancelRunning, StopsPipeline, Holds, lockVars, Holder
<1>2. Busy' = Busy \ {r}
  BY DEF PipelineTimesOut, CancelRunning, StopsPipeline, Busy, IInv, TypeOK
<1>. QED
  BY <1>1, <1>2 DEF Mutex!Stop

\* Every release is Leave.
LEMMA ReleaseLeaves ==
    ASSUME IInv, IInv', NEW r \in Requests,
           PipelineReturns(r) \/ PipelineUnwound(r) \/ CancelDraining(r)
    PROVE  Mutex!Leave(r)
<1>1. Holder = r
  BY HolderOf DEF PipelineReturns, PipelineUnwound, CancelDraining, Holds
<1>2. Holder' = NoRequest
  BY DEF PipelineReturns, PipelineUnwound, CancelDraining, Leave, Release, Holder
<1>3. Busy' = Busy \ {r}
  <2>1. CASE PipelineReturns(r) \/ PipelineUnwound(r)
    BY <2>1 DEF PipelineReturns, PipelineUnwound, Busy, IInv, TypeOK
  <2>2. CASE CancelDraining(r)
    BY <2>2 DEF CancelDraining, Busy, IInv, TypeOK, PhaseOK
  <2>. QED
    BY <2>1, <2>2
<1>. QED
  BY <1>1, <1>2, <1>3 DEF Mutex!Leave

\* The others are quiet.
LEMMA OthersAreQuiet ==
    ASSUME IInv, IInv', NEW r \in Requests,
           \/ AcquireQueues(r) \/ AcquireNeverStarts(r) \/ AcquireCancelled(r)
           \/ RaiseGPUBusy(r) \/ RaiseCancelled(r) \/ OrphanUnwinds(r) \/ Call(r)
           \/ AcquireTimesOut(r) \/ CancelAcquiring(r) \/ CancelGivingUp(r)
    PROVE  UNCHANGED <<Holder, Busy>>
<1>1. owner' = owner
  BY DEF AcquireQueues, AcquireNeverStarts, AcquireCancelled, RaiseGPUBusy,
         HeldByCurrentTask, RequestTask, AcquireTask, RaiseCancelled, OrphanUnwinds,
         Call, AcquireTimesOut, CancelAcquiring, GivesUpAcquire, CancelGivingUp,
         lockVars, IInv, LockHeldByItsOwner
<1>2. \A q \in Requests : pipe'[q] = "active" <=> pipe[q] = "active"
  BY DEF AcquireQueues, AcquireNeverStarts, AcquireCancelled, RaiseGPUBusy,
         RaiseCancelled, OrphanUnwinds, Call, AcquireTimesOut, CancelAcquiring,
         GivesUpAcquire, CancelGivingUp, IInv, TypeOK
<1>. QED
  BY <1>1, <1>2, QuietStep DEF IInv

(***************************************************************************)
(* The lock of pipeline/orchestrator.py implements GpuMutex: every step of *)
(* its tasks is a grant, a start, a stop, a release or invisible.          *)
(***************************************************************************)
THEOREM Refinement == Spec => ImplementsMutex
<1>1. Init => Mutex!MutexInit
  BY DEF Init, Mutex!MutexInit, Holder, Busy
<1>2. ASSUME IInv, IInv', NEW r \in Requests,
             AcquireStep(r) \/ OrchestrateStep(r) \/ EnvironmentStep(r)
      PROVE  [Mutex!MutexNext]_(Mutex!mutexVars)
  <2>1. \/ Mutex!Enter(r) \/ Mutex!Start(r) \/ Mutex!Stop(r) \/ Mutex!Leave(r)
        \/ UNCHANGED <<Holder, Busy>>
    BY <1>2, GrantEnters, ReturnStarts, TimeoutStops, ReleaseLeaves, OthersAreQuiet
       DEF AcquireStep, OrchestrateStep, EnvironmentStep
  <2>. QED
    BY <2>1 DEF Mutex!MutexNext, Mutex!mutexVars
<1>3. UNCHANGED vars => UNCHANGED Mutex!mutexVars
  BY DEF vars, Mutex!mutexVars, Holder, Busy
<1>4. IInv /\ IInv' /\ [Next]_vars => [Mutex!MutexNext]_(Mutex!mutexVars)
  BY <1>2, <1>3 DEF Next
<1>. QED
  BY <1>1, <1>4, Invariance, PTL DEF Spec, ImplementsMutex, Mutex!MutexSpec

(***************************************************************************)
(* At most one pipeline runs at a time, and it is the lock holder's (the   *)
(* tasks of ADR-005; Pipeline says what their threads do).                 *)
(***************************************************************************)
THEOREM OnePipeline == Spec => []Mutex!OnlyHolderRuns
<1>1. IInv => Mutex!OnlyHolderRuns
  <2>1. SUFFICES ASSUME IInv, NEW r \in Requests, pipe[r] = "active"
                 PROVE  Holder = r /\ r # NoRequest
    BY DEF Mutex!OnlyHolderRuns, Busy
  <2>2. QED
    BY <2>1, HolderOf, LockAssumption
<1>2. QED
  BY Invariance, <1>1, PTL
=============================================================================
