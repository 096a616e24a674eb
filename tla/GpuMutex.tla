----------------------------- MODULE GpuMutex -----------------------------
(***************************************************************************)
(* What the GPU lock promises to the rest of the service (ADR-005: one     *)
(* transcription at a time): a request enters, runs its pipeline, stops it *)
(* and leaves; nobody enters while another request is inside.              *)
(*                                                                         *)
(* GpuLock shows that the lock of pipeline/orchestrator.py, built on       *)
(* asyncio.Lock and asyncio.wait_for, implements this specification.       *)
(* Pipeline and UploadSession use its actions in the place of that lock.   *)
(***************************************************************************)
CONSTANTS Requests,     \* requests that may call orchestrate()
          NoRequest     \* nobody holds the lock; not one of the requests

VARIABLES holder,       \* the request inside, or NoRequest
          busy          \* requests whose pipeline task may still do work

mutexVars == <<holder, busy>>

MutexInit ==
    /\ holder = NoRequest
    /\ busy = {}

\* The lock is granted: the holder may start its pipeline.
Enter(r) ==
    /\ holder = NoRequest
    /\ holder' = r
    /\ UNCHANGED busy

\* The holder starts its pipeline, which nobody else may be running.
Start(r) ==
    /\ holder = r
    /\ busy = {}
    /\ busy' = {r}
    /\ UNCHANGED holder

\* The pipeline is told to stop: it does no further work of its own.
Stop(r) ==
    /\ holder = r
    /\ busy' = busy \ {r}
    /\ UNCHANGED holder

\* The holder leaves, its pipeline over.
Leave(r) ==
    /\ holder = r
    /\ holder' = NoRequest
    /\ busy' = busy \ {r}

MutexNext == \E r \in Requests : Enter(r) \/ Start(r) \/ Stop(r) \/ Leave(r)

MutexSpec == MutexInit /\ [][MutexNext]_mutexVars

(***************************************************************************)
(* At most one pipeline runs, and it is the holder's.                      *)
(***************************************************************************)
OnlyHolderRuns == busy \subseteq {holder} \ {NoRequest}
===========================================================================
