------------------------------- MODULE Scoping -------------------------------
(***************************************************************************)
(* Database sessions and whose rows they see: db/scoping.py adds "WHERE    *)
(* user_id = X" to every ORM statement of a session whose info names a     *)
(* user, refuses the statement when it names none, and lets everything     *)
(* through inside `with bypass_scoping(session)`.  A request opens a fresh *)
(* session, finds out under a bypass block whose credential it carries,    *)
(* arms the session, and works; two routes open a second block for one     *)
(* statement.  A block and a session end on every path: return, exception, *)
(* cancellation.                                                           *)
(***************************************************************************)
CONSTANTS
  Requests,   \* requests; an identity is used again when its request is over
  Rows,       \* rows of the models that carry user_id
  Users,
  Nobody,     \* no user: an unarmed session, a credential nobody has
  Owner       \* the user_id of each row

ASSUME ScopingAssumption ==
  /\ Nobody \notin Users
  /\ Owner \in [Rows -> Users]

VARIABLES
  at,         \* where the request is; see Places
  call,       \* its route, whose credential it carries, the upload it names
  info,       \* session.info: the armed user and scoping_bypass
  prior,      \* what the bypass block it is in, or was in last, found set
  touched     \* the rows its handler was given

svars == <<at, call, info, prior, touched>>

\* "cookie": /auth/me and regenerate; "bearer": /api/transcriptions;
\* "tool": the MCP tools and resources; "upload": the two upload endpoints,
\* which authenticate by the session's own bearer and never arm.
Routes == {"cookie", "bearer", "tool", "upload"}
Places == {"idle", "opened", "looking", "found", "authenticated", "working",
           "inBlock", "closing"}
NoInfo == [user |-> Nobody, bypass |-> FALSE]
Calls == [route : Routes \ {"upload"}, as : Users \cup {Nobody}]
           \cup [route : {"upload"}, as : Users \cup {Nobody}, row : Rows]
NoCall == [route |-> "cookie", as |-> Nobody]

SessionOpen(r) == at[r] \notin {"idle", "authenticated"}

ScopingInit ==
  /\ at = [r \in Requests |-> "idle"]
  /\ call = [r \in Requests |-> NoCall]
  /\ info = [r \in Requests |-> NoInfo]
  /\ prior = [r \in Requests |-> FALSE]
  /\ touched = [r \in Requests |-> {}]

(***************************************************************************)
(* The listener and the context manager.                                   *)
(***************************************************************************)
Passes(r) == info[r].bypass \/ info[r].user # Nobody

Visible(r) ==
  IF info[r].bypass THEN Rows ELSE {x \in Rows : Owner[x] = info[r].user}

\* What the block found set, read a line too late.
EntersBypassLate(r) ==
  /\ prior' = [prior EXCEPT ![r] = TRUE]
  /\ info' = [info EXCEPT ![r].bypass = TRUE]

EntersBypass(r) ==
  /\ prior' = [prior EXCEPT ![r] = info[r].bypass]
  /\ info' = [info EXCEPT ![r].bypass = TRUE]

LeavesBypass(r) ==
  /\ info' = [info EXCEPT ![r].bypass = prior[r]]
  /\ UNCHANGED prior

Goes(r, place) == at' = [at EXCEPT ![r] = place]

\* Nothing of a request outlives it.
Forgets(r) ==
  /\ touched' = [touched EXCEPT ![r] = {}]
  /\ call' = [call EXCEPT ![r] = NoCall]

(***************************************************************************)
(* A request, from its session's opening to its teardown.                  *)
(***************************************************************************)
Begins(r) ==
  /\ at[r] = "idle"
  /\ \E c \in Calls : call' = [call EXCEPT ![r] = c]
  /\ info' = [info EXCEPT ![r] = NoInfo]
  /\ Goes(r, "opened")
  /\ UNCHANGED <<prior, touched>>

LooksUp(r) ==
  /\ at[r] = "opened"
  /\ EntersBypass(r)
  /\ Goes(r, "looking")
  /\ UNCHANGED <<call, touched>>

LookUpFinds(r) ==
  /\ at[r] = "looking"
  /\ call[r].as # Nobody
  /\ LeavesBypass(r)
  /\ Goes(r, "found")
  /\ UNCHANGED <<call, touched>>

\* No such credential, a revoked one, a failed statement, a cancellation.
LookUpFails(r) ==
  /\ at[r] = "looking"
  /\ LeavesBypass(r)
  /\ Goes(r, "closing")
  /\ UNCHANGED <<call, touched>>

\* The best-effort commit that follows for a bearer may fail and be rolled
\* back: neither touches session.info.
Arms(r) ==
  /\ at[r] = "found"
  /\ call[r].route \in {"cookie", "bearer"}
  /\ info' = [info EXCEPT ![r].user = call[r].as]
  /\ Goes(r, "working")
  /\ UNCHANGED <<call, prior, touched>>

\* _authenticate's own session is closed; the tool opens an armed one.
HandsOver(r) ==
  /\ at[r] = "found"
  /\ call[r].route = "tool"
  /\ info' = [info EXCEPT ![r] = NoInfo]
  /\ Goes(r, "authenticated")
  /\ UNCHANGED <<call, prior, touched>>

OpensScoped(r) ==
  /\ at[r] = "authenticated"
  /\ info' = [info EXCEPT ![r] = [user |-> call[r].as, bypass |-> FALSE]]
  /\ Goes(r, "working")
  /\ UNCHANGED <<call, prior, touched>>

\* The upload endpoints found the session by its nonce, whoever owns it, and
\* go on when the bearer's hash is the session's.
MatchesBearer(r) ==
  /\ at[r] = "found"
  /\ call[r].route = "upload"
  /\ Owner[call[r].row] = call[r].as
  /\ touched' = [touched EXCEPT ![r] = {call[r].row}]
  /\ Goes(r, "working")
  /\ UNCHANGED <<call, info, prior>>

\* An ORM statement of the handler.  Without a user it is refused
\* (ScopingNotArmedError) and the request fails.
Executes(r) ==
  /\ at[r] = "working"
  /\ call[r].route # "upload"
  /\ touched' = [touched EXCEPT ![r] = @ \cup IF Passes(r) THEN Visible(r) ELSE {}]
  /\ Goes(r, IF Passes(r) THEN "working" ELSE "closing")
  /\ UNCHANGED <<call, info, prior>>

\* The INSERT of a transcription, the UPDATE or INSERT of an upload: both
\* name the user or the id they are for.
EntersBlock(r) ==
  /\ at[r] = "working"
  /\ call[r].route \in {"bearer", "tool", "upload"}
  /\ EntersBypass(r)
  /\ Goes(r, "inBlock")
  /\ UNCHANGED <<call, touched>>

BlockEnds(r) ==
  /\ at[r] = "inBlock"
  /\ LeavesBypass(r)
  /\ Goes(r, "working")
  /\ UNCHANGED <<call, touched>>

BlockRaises(r) ==
  /\ at[r] = "inBlock"
  /\ LeavesBypass(r)
  /\ Goes(r, "closing")
  /\ UNCHANGED <<call, touched>>

\* The handler returns, refuses, fails or is cancelled.
Ends(r) ==
  /\ at[r] \in {"opened", "found", "working"}
  /\ Goes(r, "closing")
  /\ UNCHANGED <<call, info, prior, touched>>

Closes(r) ==
  /\ at[r] = "closing"
  /\ info' = [info EXCEPT ![r] = NoInfo]
  /\ Forgets(r)
  /\ Goes(r, "idle")
  /\ UNCHANGED prior

\* Between the two sessions of a tool there is nothing to close.
EndsUnopened(r) ==
  /\ at[r] = "authenticated"
  /\ Forgets(r)
  /\ Goes(r, "idle")
  /\ UNCHANGED <<info, prior>>

(***************************************************************************)
(* Properties.                                                             *)
(***************************************************************************)
ScopingTypeOK ==
  /\ at \in [Requests -> Places]
  /\ call \in [Requests -> Calls]
  /\ info \in [Requests -> [user : Users \cup {Nobody}, bypass : BOOLEAN]]
  /\ prior \in [Requests -> BOOLEAN]
  /\ touched \in [Requests -> SUBSET Rows]

\* A handler is given rows of the user whose credential came with its
\* request and of nobody else, although every request also runs statements
\* that see all rows (the bypass blocks of db/scoping.py:252-277 and their
\* eight callers), and whatever failed or was cancelled before.
OnlyOwnRows ==
  \A r \in Requests : \A x \in touched[r] : Owner[x] = call[r].as
==============================================================================
