------------------------------ MODULE Lifespan ------------------------------
(***************************************************************************)
(* The process around the requests of Scoping: main.py's lifespan loads    *)
(* the models (a failure is a status, never an abort), spawns the cleanup  *)
(* loop, serves, and takes everything down again in an order of its own:   *)
(* the MCP session manager, the loop, the engine's pool, the models.  The  *)
(* loop survives its own failures and ends only when it is cancelled.      *)
(* uvicorn (it drains the HTTP requests before the lifespan resumes) and   *)
(* FastMCP's task group (it runs the tools, also those whose client has    *)
(* left, and cancels them when it is closed) are external.                 *)
(***************************************************************************)
EXTENDS Scoping

VARIABLES
  phase,      \* where lifespan() is; see Phases
  status,     \* app.state.whisper_status and pyannote_status
  jobs,       \* requests that run the pipeline with the models they were handed
  detached,   \* tools whose HTTP request is gone
  loop,       \* where _cleanup_loop is
  cancelled,  \* its task has been cancelled
  pool        \* the engine's pool

lvars == <<phase, status, jobs, detached, loop, cancelled, pool>>
vars == <<svars, lvars>>

Models == {"whisper", "pyannote"}
Phases == {"starting", "whisper", "pyannote", "serving", "draining",
           "manager", "loop", "awaiting", "pool", "models", "stopped"}
Ready == \A m \in Models : status[m] = "ready"

Init ==
  /\ ScopingInit
  /\ phase = "starting"
  /\ status = [m \in Models |-> "unset"]
  /\ jobs = {}
  /\ detached = {}
  /\ loop = "none"
  /\ cancelled = FALSE
  /\ pool = "unbound"

(***************************************************************************)
(* Start.                                                                  *)
(***************************************************************************)
\* Directories, orphaned uploads, the engine, the listener.
Binds ==
  /\ phase = "starting"
  /\ phase' = "whisper"
  /\ pool' = "open"
  /\ status' = [status EXCEPT !["whisper"] = "loading"]
  /\ UNCHANGED <<svars, jobs, detached, loop, cancelled>>

\* A directory cannot be made, or a model is neither scoped nor listed.
StartRaises ==
  /\ phase = "starting"
  /\ phase' = "stopped"
  /\ UNCHANGED <<svars, status, jobs, detached, loop, cancelled, pool>>

WhisperLoads ==
  /\ phase = "whisper"
  /\ phase' = "pyannote"
  /\ \E s \in {"ready", "error"} :
       status' = [status EXCEPT !["whisper"] = s, !["pyannote"] = "loading"]
  /\ UNCHANGED <<svars, jobs, detached, loop, cancelled, pool>>

\* The loop's task is made before the session manager runs and `yield`.
PyannoteLoads ==
  /\ phase = "pyannote"
  /\ phase' = "serving"
  /\ \E s \in {"ready", "error"} : status' = [status EXCEPT !["pyannote"] = s]
  /\ loop' = "sleeping"
  /\ UNCHANGED <<svars, jobs, detached, cancelled, pool>>

(***************************************************************************)
(* Requests.                                                               *)
(***************************************************************************)
Arrives(r) ==
  /\ phase = "serving"
  /\ Begins(r)
  /\ UNCHANGED lvars

Works(r) ==
  /\ \/ LooksUp(r) \/ LookUpFinds(r) \/ Arms(r) \/ HandsOver(r)
     \/ OpensScoped(r) \/ MatchesBearer(r) \/ Executes(r)
     \/ EntersBlock(r) \/ BlockEnds(r)
  /\ UNCHANGED lvars

\* The gate: the REST endpoint asks with its session open, the tool before
\* it opens one.
PassesGate(r) ==
  /\ \/ at[r] = "working" /\ call[r].route = "bearer"
     \/ at[r] = "authenticated"
  /\ r \notin jobs
  /\ Ready
  /\ jobs' = jobs \cup {r}
  /\ UNCHANGED <<svars, phase, status, detached, loop, cancelled, pool>>

\* Also what a closed gate, an exception and a cancellation lead to.
Unwinds(r) ==
  /\ LookUpFails(r) \/ BlockRaises(r) \/ Ends(r)
  /\ UNCHANGED lvars

Leaves(r) ==
  /\ Closes(r) \/ EndsUnopened(r)
  /\ jobs' = jobs \ {r}
  /\ detached' = detached \ {r}
  /\ UNCHANGED <<phase, status, loop, cancelled, pool>>

\* The client of a running tool goes away; the tool's task does not.
Detaches(r) ==
  /\ at[r] \in {"authenticated", "working", "inBlock", "closing"}
  /\ call[r].route = "tool"
  /\ r \notin detached
  /\ detached' = detached \cup {r}
  /\ UNCHANGED <<svars, phase, status, jobs, loop, cancelled, pool>>

(***************************************************************************)
(* The cleanup loop.  An exception of either half is logged and the loop   *)
(* goes on; the sweep holds a session.                                     *)
(***************************************************************************)
LoopMoves(from, to) ==
  /\ loop = from
  /\ loop' = to
  /\ UNCHANGED <<svars, phase, status, jobs, detached, cancelled, pool>>

LoopWakes == LoopMoves("sleeping", "purging")
LoopPurged == LoopMoves("purging", "sweeping")
LoopSwept == LoopMoves("sweeping", "sleeping")

\* A broad `except` around the loop's body that would also take the
\* cancellation for a failed round.
LoopSwallows ==
  /\ cancelled
  /\ loop \in {"sleeping", "purging", "sweeping"}
  /\ cancelled' = FALSE
  /\ loop' = "sleeping"
  /\ UNCHANGED <<svars, phase, status, jobs, detached, pool>>

LoopUnwinds ==
  /\ cancelled
  /\ loop \in {"sleeping", "purging", "sweeping"}
  /\ loop' = "over"
  /\ UNCHANGED <<svars, phase, status, jobs, detached, cancelled, pool>>

(***************************************************************************)
(* Stop.                                                                   *)
(***************************************************************************)
StopMoves(from, to) ==
  /\ phase = from
  /\ phase' = to
  /\ UNCHANGED <<svars, jobs, detached, loop>>

Stops ==
  /\ StopMoves("serving", "draining")
  /\ UNCHANGED <<status, cancelled, pool>>

Drained ==
  /\ \A r \in Requests : at[r] # "idle" => r \in detached
  /\ StopMoves("draining", "manager")
  /\ UNCHANGED <<status, cancelled, pool>>

ManagerExits ==
  /\ \A r \in Requests : at[r] = "idle"
  /\ StopMoves("manager", "loop")
  /\ UNCHANGED <<status, cancelled, pool>>

CancelsLoop ==
  /\ StopMoves("loop", "awaiting")
  /\ cancelled' = TRUE
  /\ UNCHANGED <<status, pool>>

\* cancel() alone only asks.
AwaitsNothing ==
  /\ StopMoves("awaiting", "pool")
  /\ UNCHANGED <<status, cancelled, pool>>

AwaitsLoop ==
  /\ loop = "over"
  /\ StopMoves("awaiting", "pool")
  /\ UNCHANGED <<status, cancelled, pool>>

\* A dispose that raises is logged.
Disposes ==
  /\ StopMoves("pool", "models")
  /\ pool' \in {"open", "disposed"}
  /\ UNCHANGED <<status, cancelled>>

Releases ==
  /\ StopMoves("models", "stopped")
  /\ status' = [m \in Models |-> "unset"]
  /\ UNCHANGED <<cancelled, pool>>

LoopNext == LoopWakes \/ LoopPurged \/ LoopSwept \/ LoopUnwinds

StopNext ==
  Drained \/ ManagerExits \/ CancelsLoop \/ AwaitsLoop \/ Disposes \/ Releases

RequestNext(r) ==
  Arrives(r) \/ Works(r) \/ PassesGate(r) \/ Unwinds(r) \/ Leaves(r) \/ Detaches(r)

Next ==
  \/ Binds \/ StartRaises \/ WhisperLoads \/ PyannoteLoads
  \/ \E r \in Requests : RequestNext(r)
  \/ LoopNext
  \/ Stops \/ StopNext

Spec == Init /\ [][Next]_vars

\* What the lifespan awaits next is done; a cancelled task unwinds; the task
\* group cancels its tools.  Nobody is assumed to call, to answer or to leave.
Fairness ==
  /\ WF_vars(StopNext)
  /\ WF_vars(LoopUnwinds)
  /\ \A r \in Requests : WF_vars(phase = "manager" /\ Unwinds(r)) /\ WF_vars(Leaves(r))

FairSpec == Spec /\ Fairness

(***************************************************************************)
(* Properties.                                                             *)
(***************************************************************************)
TypeOK ==
  /\ ScopingTypeOK
  /\ phase \in Phases
  /\ status \in [Models -> {"unset", "loading", "ready", "error"}]
  /\ jobs \subseteq Requests
  /\ detached \subseteq Requests
  /\ loop \in {"none", "sleeping", "purging", "sweeping", "over"}
  /\ cancelled \in BOOLEAN
  /\ pool \in {"unbound", "open", "disposed"}

\* The pool is disposed of, and the models are released, only when nobody can
\* use them any more: no session is open, the loop is over ("Cancel the
\* cleanup loop FIRST so it doesn't observe a half-disposed engine",
\* main.py:198-199), and a job was let in only with both models loaded and
\* is over before they go (main.py:194-241).
TeardownIsLast ==
  /\ pool = "disposed" => loop = "over" /\ \A r \in Requests : ~ SessionOpen(r)
  /\ jobs # {} => Ready

\* Once uvicorn has drained its requests, the teardown ends, wherever the
\* cleanup loop and the detached tools are when they are cancelled
\* (main.py:202-207, 260-261, 269-270, 292-293: CancelledError is never swallowed).
TeardownEnds == phase = "manager" ~> phase = "stopped"
==============================================================================
