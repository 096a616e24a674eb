--------------------------- MODULE LifespanProofs ---------------------------
(***************************************************************************)
(* Proofs about Lifespan and the Scoping it extends, for any requests,     *)
(* rows, users and owners.                                                 *)
(***************************************************************************)
EXTENDS Lifespan, TLAPS

\* The phases in which no request is at work.
Quiet == {"starting", "whisper", "pyannote", "loop", "awaiting", "pool",
          "models", "stopped"}

\* The flag is set exactly inside a block, the session is armed with the
\* user of the credential, and the handler was given that user's rows.
RequestOK(r) ==
  /\ info[r].bypass <=> at[r] \in {"looking", "inBlock"}
  /\ at[r] \in {"looking", "inBlock"} => prior[r] = FALSE
  /\ at[r] \in {"found", "authenticated", "working", "inBlock"} => call[r].as # Nobody
  /\ at[r] \in {"working", "inBlock"} /\ call[r].route # "upload"
       => info[r].user = call[r].as
  /\ at[r] \notin {"working", "inBlock", "closing"} => touched[r] = {}
  /\ \A x \in touched[r] : Owner[x] = call[r].as

RequestsOK == \A r \in Requests : RequestOK(r)

\* Nobody is at work before the start has ended nor after the session
\* manager has, and who runs a job is at work.
ProcessOK ==
  /\ phase \in Quiet => \A r \in Requests : at[r] = "idle"
  /\ \A r \in jobs : at[r] # "idle"
  /\ jobs # {} => Ready
  /\ phase \in {"pool", "models"} => loop = "over"
  /\ pool = "disposed" => loop = "over" /\ phase \in {"models", "stopped"}

------------------------------------------------------------------------------
(***************************************************************************)
(* Types.                                                                  *)
(***************************************************************************)
LEMMA InitTypes == Init => TypeOK
<1> SUFFICES ASSUME Init PROVE TypeOK
  OBVIOUS
<1> USE DEF Init, ScopingInit
<1>1. at \in [Requests -> Places]
  BY DEF Places
<1>2. call \in [Requests -> Calls]
  <2>1. NoCall \in Calls
    BY DEF NoCall, Calls, Routes
  <2> QED BY <2>1
<1>3. info \in [Requests -> [user : Users \cup {Nobody}, bypass : BOOLEAN]]
  BY DEF NoInfo
<1>4. prior \in [Requests -> BOOLEAN]
  BY Zenon
<1>5. touched \in [Requests -> SUBSET Rows]
  OBVIOUS
<1>6. status \in [Models -> {"unset", "loading", "ready", "error"}]
  OBVIOUS
<1>7. cancelled \in BOOLEAN
  BY Zenon
<1> QED BY <1>1, <1>2, <1>3, <1>4, <1>5, <1>6, <1>7 DEF TypeOK, ScopingTypeOK, Phases

\* Each step of a request, as a step of Scoping.
ScopingStep(r) ==
  \/ Begins(r) \/ LooksUp(r) \/ LookUpFinds(r) \/ LookUpFails(r) \/ Arms(r)
  \/ HandsOver(r) \/ OpensScoped(r) \/ MatchesBearer(r) \/ Executes(r)
  \/ EntersBlock(r) \/ BlockEnds(r) \/ BlockRaises(r) \/ Ends(r)
  \/ Closes(r) \/ EndsUnopened(r)

LEMMA ScopingTypes ==
  ASSUME ScopingTypeOK, NEW r \in Requests, ScopingStep(r)
  PROVE  ScopingTypeOK'
<1> USE DEF ScopingTypeOK
<1>a. ASSUME NEW p \in Places, Goes(r, p) PROVE at' \in [Requests -> Places]
  BY <1>a DEF Goes
<1>b. "idle" \in Places /\ "opened" \in Places /\ "looking" \in Places /\ "found" \in Places
      /\ "authenticated" \in Places /\ "working" \in Places /\ "inBlock" \in Places
      /\ "closing" \in Places
  BY DEF Places
<1>c. NoCall \in Calls
  BY DEF NoCall, Calls, Routes
<1>d. NoInfo \in [user : Users \cup {Nobody}, bypass : BOOLEAN]
  BY DEF NoInfo
<1>e. call[r].as \in Users \cup {Nobody}
  BY DEF Calls
<1>f. info[r] \in [user : Users \cup {Nobody}, bypass : BOOLEAN] /\ prior[r] \in BOOLEAN
      /\ touched[r] \subseteq Rows
  OBVIOUS
<1>g. info' \in [Requests -> [user : Users \cup {Nobody}, bypass : BOOLEAN]] /\ prior' \in [Requests -> BOOLEAN]
  <2>1. CASE EntersBypass(r)
    BY <2>1, <1>f DEF EntersBypass
  <2>2. CASE LeavesBypass(r)
    BY <2>2, <1>f DEF LeavesBypass
  <2>3. CASE Arms(r)
    BY <2>3, <1>e, <1>f DEF Arms
  <2>6. CASE OpensScoped(r)
    <3>1. [user |-> call[r].as, bypass |-> FALSE]
            \in [user : Users \cup {Nobody}, bypass : BOOLEAN]
      BY <1>e
    <3> QED BY <2>6, <3>1 DEF OpensScoped
  <2>4. CASE Begins(r) \/ HandsOver(r) \/ Closes(r)
    BY <2>4, <1>d DEF Begins, HandsOver, Closes
  <2>5. CASE UNCHANGED <<info, prior>>
    BY <2>5
  <2> QED BY <2>1, <2>2, <2>3, <2>4, <2>5, <2>6
       DEF ScopingStep, LooksUp, LookUpFinds, LookUpFails, MatchesBearer, Executes,
           EntersBlock, BlockEnds, BlockRaises, Ends, EndsUnopened
<1>h. at' \in [Requests -> Places]
  BY <1>a, <1>b DEF ScopingStep, Begins, LooksUp, LookUpFinds, LookUpFails, Arms, HandsOver,
     OpensScoped, MatchesBearer, Executes, EntersBlock, BlockEnds, BlockRaises, Ends, Closes,
     EndsUnopened
<1>i. call' \in [Requests -> Calls]
  BY <1>c DEF ScopingStep, Begins, LooksUp, LookUpFinds, LookUpFails, Arms, HandsOver,
     OpensScoped, MatchesBearer, Executes, EntersBlock, BlockEnds, BlockRaises, Ends, Closes,
     EndsUnopened, Forgets
<1>j. touched' \in [Requests -> SUBSET Rows]
  <2>1. CASE MatchesBearer(r)
    <3>1. call[r].row \in Rows
      BY <2>1 DEF MatchesBearer, Calls, Routes
    <3> QED BY <2>1, <3>1 DEF MatchesBearer
  <2>2. CASE Executes(r)
    <3>1. Visible(r) \subseteq Rows
      BY DEF Visible
    <3> QED BY <2>2, <3>1, <1>f DEF Executes
  <2>3. CASE Closes(r) \/ EndsUnopened(r)
    BY <2>3 DEF Closes, EndsUnopened, Forgets
  <2>4. CASE UNCHANGED touched
    BY <2>4
  <2> QED BY <2>1, <2>2, <2>3, <2>4
       DEF ScopingStep, Begins, LooksUp, LookUpFinds, LookUpFails, Arms, HandsOver,
           OpensScoped, EntersBlock, BlockEnds, BlockRaises, Ends
<1> QED BY <1>g, <1>h, <1>i, <1>j

LEMMA StepIsScoping ==
  ASSUME NEW r \in Requests, RequestNext(r)
  PROVE  ScopingStep(r) \/ UNCHANGED svars
BY DEF RequestNext, Arrives, Works, PassesGate, Unwinds, Leaves, Detaches, ScopingStep

LEMMA StepOfProcess ==
  ASSUME Binds \/ StartRaises \/ WhisperLoads \/ PyannoteLoads \/ LoopNext \/ Stops \/ StopNext
  PROVE  UNCHANGED svars
BY DEF Binds, StartRaises, WhisperLoads, PyannoteLoads, LoopNext, Stops, StopNext, LoopWakes,
   LoopPurged, LoopSwept, LoopUnwinds, LoopMoves, StopMoves, Drained, ManagerExits, CancelsLoop,
   AwaitsLoop, Disposes, Releases

LEMMA NextTypes == TypeOK /\ [Next]_vars => TypeOK'
<1> SUFFICES ASSUME TypeOK, [Next]_vars PROVE TypeOK'
  OBVIOUS
<1>1. ScopingTypeOK'
  <2>1. CASE UNCHANGED svars
    BY <2>1 DEF TypeOK, ScopingTypeOK, svars
  <2>2. CASE \E r \in Requests : ScopingStep(r)
    BY <2>2, ScopingTypes DEF TypeOK
  <2> QED BY <2>1, <2>2, StepIsScoping, StepOfProcess DEF Next, vars
<1>2. phase' \in Phases
  BY DEF TypeOK, Phases, Next, vars, lvars, RequestNext, Arrives, Works, PassesGate, Unwinds,
     Leaves, Detaches, Binds, StartRaises, WhisperLoads, PyannoteLoads, LoopNext, Stops, StopNext,
     LoopWakes, LoopPurged, LoopSwept, LoopUnwinds, LoopMoves, StopMoves, Drained, ManagerExits,
     CancelsLoop, AwaitsLoop, Disposes, Releases
<1>3. status' \in [Models -> {"unset", "loading", "ready", "error"}]
  BY DEF TypeOK, Models, Next, vars, lvars, RequestNext, Arrives, Works, PassesGate, Unwinds,
     Leaves, Detaches, Binds, StartRaises, WhisperLoads, PyannoteLoads, LoopNext, Stops, StopNext,
     LoopWakes, LoopPurged, LoopSwept, LoopUnwinds, LoopMoves, StopMoves, Drained, ManagerExits,
     CancelsLoop, AwaitsLoop, Disposes, Releases
<1>4. jobs' \subseteq Requests /\ detached' \subseteq Requests
  BY DEF TypeOK, Next, vars, lvars, RequestNext, Arrives, Works, PassesGate, Unwinds,
     Leaves, Detaches, Binds, StartRaises, WhisperLoads, PyannoteLoads, LoopNext, Stops, StopNext,
     LoopWakes, LoopPurged, LoopSwept, LoopUnwinds, LoopMoves, StopMoves, Drained, ManagerExits,
     CancelsLoop, AwaitsLoop, Disposes, Releases
<1>5. loop' \in {"none", "sleeping", "purging", "sweeping", "over"} /\ pool' \in {"unbound", "open", "disposed"}
  BY DEF TypeOK, Next, vars, lvars, RequestNext, Arrives, Works, PassesGate, Unwinds,
     Leaves, Detaches, Binds, StartRaises, WhisperLoads, PyannoteLoads, LoopNext, Stops, StopNext,
     LoopWakes, LoopPurged, LoopSwept, LoopUnwinds, LoopMoves, StopMoves, Drained, ManagerExits,
     CancelsLoop, AwaitsLoop, Disposes, Releases
<1>6. cancelled' \in BOOLEAN
  <2>1. cancelled' = cancelled \/ cancelled' = TRUE
    BY DEF Next, vars, lvars, RequestNext, Arrives, Works, PassesGate, Unwinds,
     Leaves, Detaches, Binds, StartRaises, WhisperLoads, PyannoteLoads, LoopNext, Stops, StopNext,
     LoopWakes, LoopPurged, LoopSwept, LoopUnwinds, LoopMoves, StopMoves, Drained, ManagerExits,
     CancelsLoop, AwaitsLoop, Disposes, Releases
  <2> QED BY <2>1, Zenon DEF TypeOK
<1> QED BY <1>1, <1>2, <1>3, <1>4, <1>5, <1>6 DEF TypeOK

\* Every variable keeps its type.
THEOREM TypeCorrect == Spec => []TypeOK
<1>1. QED BY InitTypes, NextTypes, PTL DEF Spec

------------------------------------------------------------------------------
(***************************************************************************)
(* Whose rows a request is given.                                          *)
(***************************************************************************)
LEMMA ScopingStepOK ==
  ASSUME ScopingTypeOK, RequestsOK, NEW r \in Requests, ScopingStep(r)
  PROVE  RequestsOK'
<1> SUFFICES ASSUME NEW s \in Requests PROVE RequestOK(s)'
  BY DEF RequestsOK
<1> USE DEF ScopingTypeOK
<1>0. RequestOK(s) /\ RequestOK(r)
  BY DEF RequestsOK
<1>1. CASE s # r
  <2>1. at'[s] = at[s] /\ call'[s] = call[s] /\ info'[s] = info[s] /\ prior'[s] = prior[s]
        /\ touched'[s] = touched[s]
    BY <1>1 DEF ScopingStep, Begins, LooksUp, LookUpFinds, LookUpFails, Arms, HandsOver,
       OpensScoped, MatchesBearer, Executes, EntersBlock, BlockEnds, BlockRaises, Ends, Closes,
       EndsUnopened, Goes, EntersBypass, LeavesBypass, Forgets
  <2> QED BY <2>1, <1>0 DEF RequestOK
<1>2. CASE s = r
  <2> USE <1>0, <1>2 DEF RequestOK, Goes
  <2>1. CASE Begins(r)
    BY <2>1 DEF Begins, NoInfo
  <2>2. CASE LooksUp(r) \/ EntersBlock(r)
    BY <2>2 DEF LooksUp, EntersBlock, EntersBypass
  <2>3. CASE LookUpFinds(r) \/ LookUpFails(r) \/ BlockEnds(r) \/ BlockRaises(r)
    BY <2>3 DEF LookUpFinds, LookUpFails, BlockEnds, BlockRaises, LeavesBypass
  <2>4. CASE Arms(r) \/ HandsOver(r) \/ OpensScoped(r)
    BY <2>4 DEF Arms, HandsOver, OpensScoped, NoInfo
  <2>5. CASE MatchesBearer(r)
    BY <2>5 DEF MatchesBearer
  <2>6. CASE Executes(r)
    <3>1. \A x \in Visible(r) : Owner[x] = call[r].as
      BY <2>6 DEF Executes, Visible
    <3> QED BY <2>6, <3>1 DEF Executes
  <2>7. CASE Ends(r) \/ Closes(r) \/ EndsUnopened(r)
    BY <2>7 DEF Ends, Closes, EndsUnopened, Forgets, NoInfo
  <2> QED BY <2>1, <2>2, <2>3, <2>4, <2>5, <2>6, <2>7 DEF ScopingStep
<1> QED BY <1>1, <1>2

LEMMA NextRequests == TypeOK /\ RequestsOK /\ [Next]_vars => RequestsOK'
<1> SUFFICES ASSUME TypeOK, RequestsOK, [Next]_vars PROVE RequestsOK'
  OBVIOUS
<1>1. CASE UNCHANGED svars
  BY <1>1 DEF RequestsOK, RequestOK, svars
<1>2. CASE \E r \in Requests : ScopingStep(r)
  BY <1>2, ScopingStepOK DEF TypeOK
<1> QED BY <1>1, <1>2, StepIsScoping, StepOfProcess DEF Next, vars

LEMMA InitRequests == Init => RequestsOK
<1> SUFFICES ASSUME Init, NEW r \in Requests PROVE RequestOK(r)
  BY DEF RequestsOK
<1>1. at[r] = "idle" /\ info[r] = NoInfo /\ touched[r] = {}
  BY DEF Init, ScopingInit
<1>2. info[r].bypass = FALSE
  BY <1>1 DEF NoInfo
<1> QED BY <1>1, <1>2 DEF RequestOK

\* A handler is given rows of the user whose credential its request carries,
\* and of nobody else (db/scoping.py, db/session.py and the routes).
THEOREM OwnRowsOnly == Spec => []OnlyOwnRows
<1>1. TypeOK /\ RequestsOK => OnlyOwnRows
  BY DEF RequestsOK, RequestOK, OnlyOwnRows
<1> QED BY InitTypes, NextTypes, InitRequests, NextRequests, <1>1, PTL DEF Spec

------------------------------------------------------------------------------
(***************************************************************************)
(* The order of the teardown.                                              *)
(***************************************************************************)
LEMMA InitProcess == Init => ProcessOK
BY DEF Init, ScopingInit, ProcessOK

LEMMA NextProcess == TypeOK /\ ProcessOK /\ [Next]_vars => ProcessOK'
<1> SUFFICES ASSUME TypeOK, ProcessOK, [Next]_vars PROVE ProcessOK'
  OBVIOUS
<1> USE DEF TypeOK, ScopingTypeOK, ProcessOK, Quiet
<1>1. CASE \E r \in Requests : RequestNext(r)
  <2> PICK r \in Requests : RequestNext(r)
    BY <1>1
  <2>1. CASE Arrives(r)
    BY <2>1 DEF Arrives, Begins, Goes, lvars, Ready
  <2>2. CASE Works(r) \/ Unwinds(r)
    <3>1. at[r] # "idle" /\ UNCHANGED lvars
      BY <2>2 DEF Works, Unwinds, LooksUp, LookUpFinds, LookUpFails, Arms, HandsOver,
         OpensScoped, MatchesBearer, Executes, EntersBlock, BlockEnds, BlockRaises, Ends
    <3>2. \A s \in Requests : at'[s] = "idle" <=> at[s] = "idle"
      BY <2>2 DEF Works, Unwinds, LooksUp, LookUpFinds, LookUpFails, Arms, HandsOver,
         OpensScoped, MatchesBearer, Executes, EntersBlock, BlockEnds, BlockRaises, Ends, Goes
    <3> QED BY <3>1, <3>2 DEF lvars, Ready
  <2>3. CASE PassesGate(r)
    BY <2>3 DEF PassesGate, svars, Ready
  <2>4. CASE Leaves(r)
    BY <2>4 DEF Leaves, Closes, EndsUnopened, Goes, Ready
  <2>5. CASE Detaches(r)
    BY <2>5 DEF Detaches, svars, Ready
  <2> QED BY <2>1, <2>2, <2>3, <2>4, <2>5 DEF RequestNext
<1>2. CASE Binds \/ StartRaises \/ WhisperLoads \/ PyannoteLoads
  <2>1. jobs = {} /\ phase \in Quiet
    BY <1>2 DEF Binds, StartRaises, WhisperLoads, PyannoteLoads
  <2> QED BY <1>2, <2>1 DEF Binds, StartRaises, WhisperLoads, PyannoteLoads, svars
<1>3. CASE LoopNext
  BY <1>3 DEF LoopNext, LoopWakes, LoopPurged, LoopSwept, LoopMoves, LoopUnwinds, svars, Ready
<1>4. CASE Stops \/ Drained \/ ManagerExits \/ CancelsLoop \/ AwaitsLoop
  BY <1>4 DEF Stops, Drained, ManagerExits, CancelsLoop, AwaitsLoop, StopMoves, svars, Ready
<1>5. CASE Disposes
  BY <1>5 DEF Disposes, StopMoves, svars, Ready
<1>6. CASE Releases
  <2>1. jobs = {}
    BY <1>6 DEF Releases, StopMoves
  <2> QED BY <1>6, <2>1 DEF Releases, StopMoves, svars
<1>7. CASE UNCHANGED vars
  BY <1>7 DEF vars, svars, lvars, Ready
<1> QED BY <1>1, <1>2, <1>3, <1>4, <1>5, <1>6, <1>7 DEF Next, StopNext

\* The pool goes, and the models go, when nobody can use them any more
\* (main.py:196-244).
THEOREM TeardownSafe == Spec => []TeardownIsLast
<1>1. TypeOK /\ ProcessOK => TeardownIsLast
  BY DEF TypeOK, ProcessOK, Quiet, TeardownIsLast, SessionOpen
<1> QED BY InitTypes, NextTypes, InitProcess, NextProcess, <1>1, PTL DEF Spec
==============================================================================
