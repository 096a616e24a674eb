------------------------------- MODULE Bearers -------------------------------
(***************************************************************************)
(* Accounts and their MCP bearers: callback of auth/routes.py creates the  *)
(* user with a first bearer, regenerate_mcp_token replaces it,             *)
(* _authenticate of mcp/middleware.py lets in who presents it.             *)
(*                                                                         *)
(* They meet in PostgreSQL (READ COMMITTED), whose row locks and unique    *)
(* indexes are modelled: an action is one statement or one COMMIT.  The    *)
(* OAuth exchange has succeeded when a login starts here.                  *)
(***************************************************************************)
EXTENDS Naturals, FiniteSets

CONSTANTS Accounts,     \* Microsoft oids
          Logins,       \* calls of callback()
          Regens,       \* calls of regenerate_mcp_token()
          Calls,        \* MCP requests
          Account,      \* the account a login or a regeneration is for
          Unknown       \* a token nobody issued

\* A row of mcp_bearers is named after the call that makes it.
Makers == Logins \cup Regens

ASSUME BearersAssumption ==
    /\ Account \in [Makers -> Accounts]
    /\ Logins \cap Regens = {} /\ Makers \cap Calls = {}
    /\ Unknown \notin Makers

VARIABLES
    user,       \* committed rows of users
    bearer,     \* committed state of a row of mcp_bearers
    at,         \* where a call is
    sees,       \* the rows the UPDATE of a regeneration found in its snapshot
    locked,     \* rows of mcp_bearers a transaction has updated
    presents,   \* the bearer an MCP request comes with
    result      \* the answer

vars == <<user, bearer, at, sees, locked, presents, result>>

Handlers == Makers \cup Calls

TypeOK ==
    /\ user \in SUBSET Accounts
    /\ bearer \in [Makers -> {"none", "active", "revoked"}]
    /\ at \in [Handlers -> {"idle", "done",
                            "known", "creating", "created",
                            "updating", "inserting", "inserted", "conflicted", "refreshing",
                            "found", "bumped"}]
    /\ sees \in [Regens -> SUBSET Makers]
    /\ locked \in [Handlers -> SUBSET Makers]
    /\ presents \in [Calls -> Makers \cup {Unknown}]
    /\ result \in [Handlers -> {"none", "ok", "error", "cancelled",
                                "MCP_BEARER_INVALID", "MCP_BEARER_REVOKED"}]

Init ==
    /\ user = {}
    /\ bearer = [m \in Makers |-> "none"]
    /\ at = [h \in Handlers |-> "idle"]
    /\ sees = [g \in Regens |-> {}]
    /\ locked = [h \in Handlers |-> {}]
    /\ presents = [q \in Calls |-> Unknown]
    /\ result = [h \in Handlers |-> "none"]

-----------------------------------------------------------------------------
Active(a) == {m \in Makers : Account[m] = a /\ bearer[m] = "active"}

\* A row that a transaction other than h's has updated and not committed.
LockedByOther(h, m) == \E k \in Handlers \ {h} : m \in locked[k]

Goes(h, where) == at' = [at EXCEPT ![h] = where]

\* The transaction of h is over, one way or the other, and h answers o.
Answer(h, o) ==
    /\ Goes(h, "done")
    /\ result' = [result EXCEPT ![h] = o]
    /\ locked' = [locked EXCEPT ![h] = {}]

-----------------------------------------------------------------------------
(* callback: the upsert                                                      *)

LoginSelects(l) ==
    /\ at[l] = "idle"
    /\ Goes(l, IF Account[l] \in user THEN "known" ELSE "creating")
    /\ UNCHANGED <<user, bearer, sees, locked, presents, result>>

\* INSERT INTO users waits for another one of that oid to commit or not; if it
\* did, the IntegrityError is nobody's and the answer a 500.
LoginInserts(l) ==
    LET a == Account[l]
    IN  /\ at[l] = "creating"
        /\ \A k \in Logins : Account[k] = a => at[k] # "created"
        /\ IF a \in user THEN Answer(l, "error")
                         ELSE Goes(l, "created") /\ UNCHANGED <<result, locked>>
        /\ UNCHANGED <<user, bearer, sees, presents>>

\* The user, its OAuth tokens and its first bearer are committed together.
Establishes(l, o) ==
    /\ at[l] = "created"
    /\ user' = user \cup {Account[l]}
    /\ bearer' = [bearer EXCEPT ![l] = "active"]
    /\ Answer(l, o)
    /\ UNCHANGED <<sees, presents>>

LoginCommits(l) == Establishes(l, "ok")

\* The COMMIT is done, but its answer or the client is lost.
LoginCommitsUnseen(l) == Establishes(l, "error")

\* A later login refreshes the tokens and leaves the bearer alone.
LoginReturns(l) ==
    /\ at[l] = "known"
    /\ Answer(l, "ok")
    /\ UNCHANGED <<user, bearer, sees, presents>>

\* A statement fails or the client leaves, which are told apart only for calls.
LoginFails(l) ==
    /\ at[l] \in {"known", "creating", "created"}
    /\ Answer(l, "error")
    /\ UNCHANGED <<user, bearer, sees, presents>>

-----------------------------------------------------------------------------
(* regenerate_mcp_token                                                      *)

\* The session cookie names a user; the UPDATE takes its snapshot.
RegenSends(g) ==
    /\ at[g] = "idle" /\ Account[g] \in user
    /\ sees' = [sees EXCEPT ![g] = Active(Account[g])]
    /\ Goes(g, "updating")
    /\ UNCHANGED <<user, bearer, locked, presents, result>>

\* Mutant: the revocation is committed by itself.
RegenRevokesAlone(g) ==
    /\ at[g] = "updating"
    /\ \A m \in sees[g] : ~LockedByOther(g, m)
    /\ bearer' = [m \in Makers |-> IF m \in sees[g] THEN "revoked" ELSE bearer[m]]
    /\ Goes(g, "inserting")
    /\ UNCHANGED <<user, locked, sees, presents, result>>

\* It waits for the locks on the rows of its snapshot, looks at their WHERE
\* again, and updates what is still active.
RegenRevokes(g) ==
    /\ at[g] = "updating"
    /\ \A m \in sees[g] : ~LockedByOther(g, m)
    /\ locked' = [locked EXCEPT ![g] = {m \in sees[g] : bearer[m] = "active"}]
    /\ sees' = [sees EXCEPT ![g] = {}]
    /\ Goes(g, "inserting")
    /\ UNCHANGED <<user, bearer, presents, result>>

\* The unique index has to wait: a transaction of another call has inserted
\* into it or updated a row that is in it.
IndexBusy(g) ==
    \/ \E k \in Regens \ {g} : Account[k] = Account[g] /\ at[k] = "inserted"
    \/ \E m \in Active(Account[g]) : LockedByOther(g, m)

\* Mutant: no partial unique index.
RegenInsertsAnyway(g) ==
    /\ at[g] = "inserting"
    /\ Goes(g, "inserted")
    /\ UNCHANGED <<user, bearer, sees, locked, presents, result>>

\* INSERT, sent by the flush of db.commit(): one active bearer per user.
RegenInserts(g) ==
    /\ at[g] = "inserting" /\ ~IndexBusy(g)
    /\ Goes(g, IF Active(Account[g]) \subseteq locked[g] THEN "inserted" ELSE "conflicted")
    /\ UNCHANGED <<user, bearer, sees, locked, presents, result>>

RegenCommits(g) ==
    /\ at[g] = "inserted"
    /\ bearer' = [m \in Makers |-> IF m = g THEN "active"
                                   ELSE IF m \in locked[g] THEN "revoked" ELSE bearer[m]]
    /\ locked' = [locked EXCEPT ![g] = {}]
    /\ Goes(g, "refreshing")
    /\ UNCHANGED <<user, sees, presents, result>>

\* db.refresh and the answer with the plaintext.
RegenAnswers(g) ==
    /\ at[g] = "refreshing"
    /\ Answer(g, "ok")
    /\ UNCHANGED <<user, bearer, sees, presents>>

\* Mutant: the loser of the race answers with the bearer it could not store.
RegenSwallows(g) ==
    /\ at[g] = "conflicted"
    /\ Answer(g, "ok")
    /\ UNCHANGED <<user, bearer, sees, presents>>

\* IntegrityError: db.rollback() expires every object of the session, so the
\* next line, which logs user.id, would have to load it outside an await:
\* MissingGreenlet leaves the loop before its second attempt.
RegenRaises(g) ==
    /\ at[g] = "conflicted"
    /\ Answer(g, "error")
    /\ UNCHANGED <<user, bearer, sees, presents>>

\* A statement, the COMMIT or the refresh fails, or the client leaves.
RegenFails(g) ==
    /\ at[g] \in {"updating", "inserting", "inserted", "refreshing"}
    /\ Answer(g, "error")
    /\ sees' = [sees EXCEPT ![g] = {}]
    /\ UNCHANGED <<user, bearer, presents>>

-----------------------------------------------------------------------------
(* _authenticate                                                             *)

\* Plaintexts that have been handed out.
Issued == {m \in Makers : result[m] = "ok" /\ bearer[m] # "none"}

\* SELECT by the hash of the token: no row, or one that was revoked.
CallRefused(q) ==
    /\ at[q] = "idle"
    /\ \E m \in Issued \cup {Unknown} :
          /\ presents' = [presents EXCEPT ![q] = m]
          /\ \/ m = Unknown /\ Answer(q, "MCP_BEARER_INVALID")
             \/ m \in Issued /\ bearer[m] = "revoked" /\ Answer(q, "MCP_BEARER_REVOKED")
    /\ UNCHANGED <<user, bearer, sees>>

CallFinds(q) ==
    /\ at[q] = "idle"
    /\ \E m \in Issued :
          /\ bearer[m] = "active"
          /\ presents' = [presents EXCEPT ![q] = m]
    /\ Goes(q, "found")
    /\ UNCHANGED <<user, bearer, sees, locked, result>>

\* _bump_last_used_at: an UPDATE that waits for the row.
CallBumps(q) ==
    /\ at[q] = "found" /\ ~LockedByOther(q, presents[q])
    /\ locked' = [locked EXCEPT ![q] = {presents[q]}]
    /\ Goes(q, "bumped")
    /\ UNCHANGED <<user, bearer, sees, presents, result>>

\* Mutant: the bump is not committed while the request is at work.
CallKeepsRow(q) ==
    /\ at[q] = "bumped"
    /\ Goes(q, "done")
    /\ result' = [result EXCEPT ![q] = "ok"]
    /\ UNCHANGED <<user, bearer, sees, locked, presents>>

CallCommits(q) ==
    /\ at[q] = "bumped"
    /\ Answer(q, "ok")
    /\ UNCHANGED <<user, bearer, sees, presents>>

\* The exception is swallowed, but the rollback expires the row whose user_id
\* _authenticate returns: MissingGreenlet once more.
CallBumpFails(q) ==
    /\ at[q] \in {"found", "bumped"}
    /\ Answer(q, "error")
    /\ UNCHANGED <<user, bearer, sees, presents>>

CallCancelled(q) ==
    /\ at[q] \in {"found", "bumped"}
    /\ Answer(q, "cancelled")
    /\ UNCHANGED <<user, bearer, sees, presents>>

-----------------------------------------------------------------------------
LoginStep(l) == LoginSelects(l) \/ LoginInserts(l) \/ LoginCommits(l) \/ LoginReturns(l)

\* What follows the snapshot of a regeneration by itself.
RegenStep(g) ==
    RegenRevokes(g) \/ RegenInserts(g) \/ RegenCommits(g) \/ RegenAnswers(g) \/ RegenRaises(g)

CallStep(q) == CallBumps(q) \/ CallCommits(q)

Steps ==
    \/ \E l \in Logins : LoginStep(l)
    \/ \E g \in Regens : RegenSends(g) \/ RegenStep(g)
    \/ \E q \in Calls : CallRefused(q) \/ CallFinds(q) \/ CallStep(q)

Failures ==
    \/ \E l \in Logins : LoginFails(l) \/ LoginCommitsUnseen(l)
    \/ \E g \in Regens : RegenFails(g)
    \/ \E q \in Calls : CallBumpFails(q) \/ CallCancelled(q)

Next == Steps \/ Failures

Spec == Init /\ [][Next]_vars

\* The database grants what it can and the event loop goes on.
FairSpec ==
    /\ Spec
    /\ \A l \in Logins : WF_vars(LoginStep(l))
    /\ \A g \in Regens : WF_vars(RegenStep(g))
    /\ \A q \in Calls : WF_vars(CallStep(q))

-----------------------------------------------------------------------------
(* Properties                                                                *)

(***************************************************************************)
(* A user has one active bearer from its first login on, whatever logins   *)
(* and regenerations overlap, fail or are cancelled; who has no row in     *)
(* users has none (RF-AUTH-04, RF-AUTH-07, uq_mcp_bearers_active_per_user).*)
(***************************************************************************)
UserHasItsBearer ==
    /\ \A a \in user : Active(a) # {}
    /\ \A m, n \in Makers :
          bearer[m] = "active" /\ bearer[n] = "active" /\ Account[m] = Account[n] => m = n
    /\ \A m \in Makers : bearer[m] # "none" => Account[m] \in user

(***************************************************************************)
(* A bearer is revoked only by the commit that puts its successor in its   *)
(* place, and for good: a client's token never stops working, nor works    *)
(* again, for any other reason.                                            *)
(***************************************************************************)
RevokedBySuccessor ==
    [][\A m \in Makers :
          /\ bearer[m] = "active" /\ bearer'[m] # "active" =>
                /\ bearer'[m] = "revoked"
                /\ \E n \in Makers : /\ Account[n] = Account[m]
                                     /\ bearer[n] = "none" /\ bearer'[n] = "active"
          /\ bearer[m] = "revoked" => bearer'[m] = "revoked"]_vars

(***************************************************************************)
(* Whatever statements of logins, regenerations and MCP requests fall      *)
(* between each other, the accounts' bearers are the register of           *)
(* BearerRegister: replaced in one step, shown when they are in it, and a  *)
(* request is admitted or refused by what it holds at that moment.         *)
(***************************************************************************)
Verdict(q) ==
    IF result[q] = "MCP_BEARER_INVALID" THEN "invalid"
    ELSE IF result[q] = "MCP_BEARER_REVOKED" THEN "revoked"
    ELSE IF at[q] = "idle" THEN "none" ELSE "admitted"

Register == INSTANCE BearerRegister WITH
    Tokens   <- Makers,
    Requests <- Calls,
    current  <- [a \in Accounts |-> Active(a)],
    retired  <- {m \in Makers : bearer[m] = "revoked"},
    shown    <- {g \in Regens : result[g] = "ok"}
                   \cup {l \in Logins : result[l] = "ok" /\ bearer[l] # "none"},
    verdict  <- [q \in Calls |-> Verdict(q)]

ImplementsRegister == Register!RegisterSpec

(***************************************************************************)
(* A login answered with success has its user in the database, and a       *)
(* regeneration answered with success its bearer: nobody is shown a token  *)
(* that was rolled back.                                                   *)
(***************************************************************************)
AnswerMatchesDatabase ==
    /\ \A l \in Logins : result[l] = "ok" => Account[l] \in user
    /\ \A g \in Regens : result[g] = "ok" => bearer[g] # "none"

(***************************************************************************)
(* Row locks and index waits of regenerations, logins and last_used_at     *)
(* bumps never close a circle: whoever waits in the database is answered.  *)
(***************************************************************************)
NobodyWaitsForEver ==
    /\ \A l \in Logins : at[l] = "creating" ~> at[l] = "done"
    /\ \A g \in Regens : at[g] = "updating" ~> at[g] = "done"
    /\ \A q \in Calls : at[q] = "found" ~> at[q] = "done"

=============================================================================
