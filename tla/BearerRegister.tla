--------------------------- MODULE BearerRegister ---------------------------
(***************************************************************************)
(* What the MCP bearers promise: a register of accounts with one bearer    *)
(* each.  An account gets its first bearer once, another one only in the   *)
(* place of the last, in one step; a client is shown bearers the register  *)
(* knows; and a request is judged by the register of one moment.           *)
(*                                                                         *)
(* Bearers shows that the transactions of auth/routes.py and               *)
(* mcp/middleware.py implement this specification.                         *)
(***************************************************************************)
CONSTANTS Accounts,
          Tokens,       \* bearers that may be made
          Requests,     \* MCP requests
          Unknown       \* a token nobody issued

VARIABLES
    current,            \* the bearer of an account, as a set of at most one
    retired,            \* bearers that were replaced
    shown,              \* bearers whose plaintext a client has
    presents,           \* the token a request came with
    verdict             \* what was said of it

registerVars == <<current, retired, shown, presents, verdict>>

RegisterInit ==
    /\ current = [a \in Accounts |-> {}]
    /\ retired = {}
    /\ shown = {}
    /\ presents = [q \in Requests |-> Unknown]
    /\ verdict = [q \in Requests |-> "none"]

Valid == UNION {current[a] : a \in Accounts}

\* A new bearer takes the place of the account's last one, or is its first; the
\* client is shown it at once, later, or never.
Replace(a, m) ==
    /\ m \notin Valid \cup retired
    /\ current' = [current EXCEPT ![a] = {m}]
    /\ retired' = retired \cup current[a]
    /\ shown' \in {shown, shown \cup {m}}
    /\ UNCHANGED <<presents, verdict>>

Show(m) ==
    /\ m \in Valid \cup retired
    /\ shown' = shown \cup {m}
    /\ UNCHANGED <<current, retired, presents, verdict>>

\* A request comes with a token somebody was shown, or with one nobody was.
Judge(q) ==
    /\ verdict[q] = "none"
    /\ \E m \in shown \cup {Unknown} :
          /\ presents' = [presents EXCEPT ![q] = m]
          /\ verdict' = [verdict EXCEPT ![q] = IF m \in Valid THEN "admitted"
                                               ELSE IF m \in retired THEN "revoked"
                                               ELSE "invalid"]
    /\ UNCHANGED <<current, retired, shown>>

RegisterNext ==
    \/ \E m \in Tokens : Show(m) \/ \E a \in Accounts : Replace(a, m)
    \/ \E q \in Requests : Judge(q)

RegisterSpec == RegisterInit /\ [][RegisterNext]_registerVars

(***************************************************************************)
(* A token somebody was shown is never taken for one that was not issued.  *)
(***************************************************************************)
ShownAreKnown ==
    /\ shown \subseteq Valid \cup retired
    /\ \A q \in Requests : verdict[q] = "invalid" => presents[q] = Unknown
=============================================================================
