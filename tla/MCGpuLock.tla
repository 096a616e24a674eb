----------------------------- MODULE MCGpuLock -----------------------------
(* Three requests: a holder, a waiter and one more that arrives, waits or    *)
(* leaves between any two of their steps.                                    *)
EXTENDS GpuLock
=============================================================================
