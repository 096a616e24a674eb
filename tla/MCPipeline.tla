----------------------------- MODULE MCPipeline -----------------------------
(* Three calls, two of them with one content, on an executor of two threads: *)
(* one abandoned thread leaves a worker to the next holder, two leave none.  *)
(* One deletion of a file may be refused.                                    *)
EXTENDS Pipeline, TLC

CONSTANTS r1, r2, r3, a1, a2

MCAudio == (r1 :> a1) @@ (r2 :> a1) @@ (r3 :> a2)
=============================================================================
