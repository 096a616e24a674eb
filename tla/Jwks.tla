--------------------------------- MODULE Jwks ---------------------------------
(***************************************************************************)
(* A login up to the user's row: /auth/login, /auth/callback with the      *)
(* exchange of the code, the cache of Microsoft's signing keys (fetch_jwks *)
(* of auth/oauth_client.py) and the validation of the id token, with its   *)
(* one retry on fresh keys.                                                *)
(*                                                                         *)
(* An action runs from one await to the next.  The provider signs with one *)
(* key at a time, rotates it, and publishes the key before along with it.  *)
(* A key is known by its number; Kid is the key id it is published under.  *)
(* Two keys may be published under one id: authlib takes the first of the  *)
(* list that has the id it looks for, the other might as well not be there.*)
(* So a key set is kept here as the keys a lookup finds in it.             *)
(***************************************************************************)
EXTENDS Naturals

CONSTANTS Logins,       \* calls of callback()
          Nobody,       \* holds the lock when no login does
          MaxRotations,
          Kids, Kid     \* key ids; the one of each key

ASSUME JwksAssumption ==
    /\ Nobody \notin Logins
    /\ MaxRotations \in Nat
    /\ Kid \in [0..MaxRotations -> Kids]

Keys == 0..MaxRotations

VARIABLES
    signing,    \* the key the provider signs with
    listed,     \* the key set it publishes while it signs with each key
    cache,      \* _JWKS_CACHE: a key set, empty before the first fetch
    stale,      \* older than the TTL
    holder,     \* of _JWKS_FETCH_LOCK
    at,         \* where a login is
    forced,     \* logins on their second attempt
    token,      \* the key a login's id token is signed with
    kind,       \* what is in it
    reply,      \* the key set on its way to a login
    result,     \* the answer
    trouble,    \* logins that got no proper answer from the provider
    refills     \* successful fetches, not forced, since the cache was last fresh

vars == <<signing, listed, cache, stale, holder, at, forced, token, kind, reply, result, trouble, refills>>

provider == <<signing, listed>>
store == <<cache, stale, refills>>
idToken == <<token, kind>>

Published(s) == {k \in Keys : k = s \/ k + 1 = s}

\* What lookups find when the keys of Published(s) are listed in some order: for
\* every id among them one of the keys that have it.
KeySet(S, s) ==
    /\ S \subseteq Published(s)
    /\ \A k \in Published(s) : \E j \in S : Kid[j] = Kid[k]
    /\ \A j, k \in S : Kid[j] = Kid[k] => j = k

TypeOK ==
    /\ signing \in Keys
    /\ listed \in [Keys -> SUBSET Keys]
    /\ cache \in SUBSET Keys
    /\ stale \in BOOLEAN
    /\ holder \in Logins \cup {Nobody}
    /\ at \in [Logins -> {"idle", "away", "exchanging", "queued", "fetching", "served", "done"}]
    /\ forced \in SUBSET Logins
    /\ token \in [Logins -> Keys]
    /\ kind \in [Logins -> {"none", "good", "bad", "foreign", "nameless"}]
    /\ reply \in [Logins -> SUBSET Keys]
    /\ result \in [Logins -> {"none", "ok", "AUTH_INVALID_STATE", "AUTH_INVALID_OAUTH_CODE",
                              "AUTH_TENANT_NOT_ALLOWED", "AUTH_PROVIDER_UNAVAILABLE",
                              "error", "cancelled"}]
    /\ trouble \in SUBSET Logins
    /\ refills \in 0..2

Init ==
    /\ signing = 0
    /\ listed \in [Keys -> SUBSET Keys]
    /\ \A s \in Keys : KeySet(listed[s], s)
    /\ cache = {} /\ stale = FALSE
    /\ holder = Nobody
    /\ at = [l \in Logins |-> "idle"]
    /\ forced = {}
    /\ token = [l \in Logins |-> 0]
    /\ kind = [l \in Logins |-> "none"]
    /\ reply = [l \in Logins |-> {}]
    /\ result = [l \in Logins |-> "none"]
    /\ trouble = {}
    /\ refills = 0

Fresh == cache # {} /\ ~stale

Goes(l, to) == at' = [at EXCEPT ![l] = to]

Answers(l, r) == Goes(l, "done") /\ result' = [result EXCEPT ![l] = r]

-----------------------------------------------------------------------------
(* validate_id_token *)

\* authlib's find_by_kid takes the first key with the token's kid and raises
\* ValueError when there is none; a key with the kid that is not the token's, an old
\* one or the one listed first, is a BadSignatureError.
Verdict(l, keys) ==
    CASE token[l] \in keys /\ kind[l] \in {"good", "nameless"} -> "valid"
      [] token[l] \in keys /\ kind[l] = "bad" -> "IdTokenInvalid"
      [] token[l] \in keys /\ kind[l] = "foreign" -> "TenantNotAllowed"
      [] token[l] \notin keys /\ Kid[token[l]] \in {Kid[k] : k \in keys} -> "IdTokenInvalid"
      [] OTHER -> "ValueError"

\* A retry that does not force.
RetriesCached(l) ==
    IF l \in forced
    THEN Answers(l, "AUTH_PROVIDER_UNAVAILABLE") /\ UNCHANGED forced
    ELSE IF Fresh
    THEN Answers(l, "AUTH_PROVIDER_UNAVAILABLE") /\ forced' = forced \cup {l}
    ELSE Goes(l, "queued") /\ forced' = forced \cup {l} /\ UNCHANGED result

\* The first attempt on an invalid token, or a fetch that is refused, leads to the
\* second one with force_refresh=True; the second one's ends the login.
Retries(l) ==
    IF l \in forced
    THEN Answers(l, "AUTH_PROVIDER_UNAVAILABLE") /\ UNCHANGED forced
    ELSE Goes(l, "queued") /\ forced' = forced \cup {l} /\ UNCHANGED result

\* What callback does with the keys fetch_jwks returned; a valid token without an
\* oid or an e-mail address is not worth a retry.
Validates(l, keys) ==
    \/ Verdict(l, keys) = "valid" /\ kind[l] # "nameless" /\ Answers(l, "ok") /\ UNCHANGED forced
    \/ Verdict(l, keys) = "valid" /\ kind[l] = "nameless"
         /\ Answers(l, "AUTH_PROVIDER_UNAVAILABLE") /\ UNCHANGED forced
    \/ Verdict(l, keys) = "TenantNotAllowed" /\ Answers(l, "AUTH_TENANT_NOT_ALLOWED")
         /\ UNCHANGED forced
    \/ Verdict(l, keys) = "ValueError" /\ Answers(l, "error") /\ UNCHANGED forced
    \/ Verdict(l, keys) = "IdTokenInvalid" /\ Retries(l)

-----------------------------------------------------------------------------
(* /auth/login, /auth/callback *)

\* The user goes to the provider with a signed state cookie.
LoginStarts(l) ==
    /\ at[l] = "idle"
    /\ Goes(l, "away")
    /\ UNCHANGED <<provider, store, holder, forced, idToken, reply, result, trouble>>

\* Comes back with the state of the cookie; or with none, a spoilt or another one.
CallbackGoes(l) ==
    /\ at[l] = "away"
    /\ \/ Goes(l, "exchanging") /\ UNCHANGED result
       \/ Answers(l, "AUTH_INVALID_STATE")
    /\ UNCHANGED <<provider, store, holder, forced, idToken, reply, trouble>>

\* POST /token fails: 5xx, no network or a field that is missing; 4xx; or an
\* exception that exchange_code does not translate.
ExchangeFails(l) ==
    /\ at[l] = "exchanging"
    /\ \E r \in {"AUTH_PROVIDER_UNAVAILABLE", "AUTH_INVALID_OAUTH_CODE", "error"} : Answers(l, r)
    /\ trouble' = trouble \cup {l}
    /\ UNCHANGED <<provider, store, holder, forced, idToken, reply>>

\* The provider signs an id token; "bad" is one that claims.validate() refuses,
\* "foreign" one of another tenant, "nameless" one without an oid or an address.
Signs(l) ==
    /\ at[l] = "exchanging" /\ kind[l] = "none"
    /\ \E k \in {"good", "bad", "foreign", "nameless"} : kind' = [kind EXCEPT ![l] = k]
    /\ token' = [token EXCEPT ![l] = signing]
    /\ UNCHANGED <<provider, store, holder, at, forced, reply, result, trouble>>

\* fetch_jwks() finds its cache fresh, and the login goes on in the same turn; or
\* goes for the lock.
Exchanged(l) ==
    /\ at[l] = "exchanging" /\ kind[l] # "none"
    /\ \/ Fresh /\ Validates(l, cache)
       \/ ~Fresh /\ Goes(l, "queued") /\ UNCHANGED <<forced, result>>
    /\ UNCHANGED <<provider, store, holder, idToken, reply, trouble>>

-----------------------------------------------------------------------------
(* fetch_jwks under its lock *)

\* A fetch that does not look at the cache again.
TakesLockAndFetches(l) ==
    /\ at[l] = "queued" /\ holder = Nobody
    /\ Goes(l, "fetching") /\ holder' = l /\ UNCHANGED <<forced, result>>
    /\ UNCHANGED <<provider, store, idToken, reply, trouble>>

\* A forced fetch that goes by the lock.
TakesLockUnlessForced(l) ==
    /\ at[l] = "queued"
    /\ \/ l \in forced /\ Goes(l, "fetching") /\ UNCHANGED <<holder, forced, result>>
       \/ l \notin forced /\ holder = Nobody /\ Fresh /\ Validates(l, cache)
            /\ UNCHANGED holder
       \/ l \notin forced /\ holder = Nobody /\ ~Fresh /\ Goes(l, "fetching")
            /\ holder' = l /\ UNCHANGED <<forced, result>>
    /\ UNCHANGED <<provider, store, idToken, reply, trouble>>

\* The second look at the cache, which a forced fetch does not take.
TakesLock(l) ==
    /\ at[l] = "queued" /\ holder = Nobody
    /\ \/ l \notin forced /\ Fresh /\ Validates(l, cache) /\ UNCHANGED holder
       \/ ~(l \notin forced /\ Fresh) /\ Goes(l, "fetching") /\ holder' = l
            /\ UNCHANGED <<forced, result>>
    /\ UNCHANGED <<provider, store, idToken, reply, trouble>>

\* The provider answers, with what it publishes at that moment.
Serves(l) ==
    /\ at[l] = "fetching"
    /\ Goes(l, "served")
    /\ reply' = [reply EXCEPT ![l] = listed[signing]]
    /\ UNCHANGED <<provider, store, holder, forced, idToken, result, trouble>>

Releases(l) == holder' = IF holder = l THEN Nobody ELSE holder

Refilled(l) == refills' = IF l \in forced \/ refills = 2 THEN refills ELSE refills + 1

Fetched(l) ==
    /\ at[l] = "served"
    /\ cache' = reply[l] /\ stale' = FALSE
    /\ Refilled(l)
    /\ Releases(l)
    /\ Validates(l, reply[l])
    /\ UNCHANGED <<provider, idToken, reply, trouble>>

\* The lock released by hand, after a fetch that succeeds.
FetchFailsLocked(l) ==
    /\ at[l] = "fetching"
    /\ \/ Answers(l, "AUTH_PROVIDER_UNAVAILABLE") /\ UNCHANGED forced
       \/ Retries(l)
       \/ Answers(l, "error") /\ UNCHANGED forced
    /\ trouble' = trouble \cup {l}
    /\ UNCHANGED <<provider, store, holder, idToken, reply>>

\* 5xx, timeout, no network; 4xx, which is IdTokenInvalid; or an exception that
\* fetch_jwks does not translate.  `async with` releases the lock.
FetchFails(l) ==
    /\ at[l] = "fetching"
    /\ \/ Answers(l, "AUTH_PROVIDER_UNAVAILABLE") /\ UNCHANGED forced
       \/ Retries(l)
       \/ Answers(l, "error") /\ UNCHANGED forced
    /\ Releases(l)
    /\ trouble' = trouble \cup {l}
    /\ UNCHANGED <<provider, store, idToken, reply>>

Cancelled(l) ==
    /\ at[l] \in {"exchanging", "queued", "fetching", "served"}
    /\ Answers(l, "cancelled")
    /\ Releases(l)
    /\ UNCHANGED <<provider, store, forced, idToken, reply, trouble>>

-----------------------------------------------------------------------------
Rotates ==
    /\ signing < MaxRotations
    /\ signing' = signing + 1
    /\ UNCHANGED <<listed, store, holder, at, forced, idToken, reply, result, trouble>>

Expires ==
    /\ Fresh
    /\ stale' = TRUE /\ refills' = 0
    /\ UNCHANGED <<provider, cache, holder, at, forced, idToken, reply, result, trouble>>

LoginStep(l) == \/ LoginStarts(l) \/ CallbackGoes(l) \/ ExchangeFails(l) \/ Signs(l)
                \/ Exchanged(l) \/ TakesLock(l) \/ Serves(l) \/ Fetched(l)
                \/ FetchFails(l) \/ Cancelled(l)

Next == (\E l \in Logins : LoginStep(l)) \/ Rotates \/ Expires

Spec == Init /\ [][Next]_vars

\* The event loop goes on, and every request to the provider ends: httpx has a
\* timeout.  Whether it succeeds is open.
FairSpec ==
    /\ Spec
    /\ \A l \in Logins :
          /\ WF_vars(Signs(l) \/ ExchangeFails(l)) /\ WF_vars(Exchanged(l))
          /\ WF_vars(TakesLock(l)) /\ WF_vars(Fetched(l))
          /\ WF_vars(Serves(l) \/ FetchFails(l))

-----------------------------------------------------------------------------
(* Properties *)

\* However many logins meet an expired (or an empty) cache, one of them refills
\* it and the others use what it brought.
HerdFetchesOnce == refills <= 1

\* The lock is held by the one login that fetches: it is released whatever ends
\* the fetch, and no forced fetch goes by it.
LockIsTheFetchers ==
    \A l \in Logins : at[l] \in {"fetching", "served"} <=> holder = l

\* An answer of the provider that was overtaken by a later one never replaces it:
\* no key of the cache gives way to older ones, none that can still be looked up at
\* the provider is lost.
CacheMovesForward ==
    [][/\ \A old \in cache, new \in cache' :
             old \notin cache' /\ new \notin cache => old < new
       /\ \A k \in cache \cap listed[signing] : k \in cache']_vars

\* A login goes through only with a token of the right tenant, valid claims and a
\* key the cache holds at that moment, at the first attempt as at the second.
OnlyGoodTokensPass ==
    [][\A l \in Logins :
          result[l] # "ok" /\ result'[l] = "ok" => kind[l] = "good" /\ token[l] \in cache']_vars

\* A good token is never called invalid for keys that were merely old: when the
\* second attempt has refused it, the provider has, since it signed the token,
\* published a key set in which the token's id leads to another key.
StaleKeysAreRefreshed ==
    \A l \in Logins :
        /\ result[l] = "AUTH_PROVIDER_UNAVAILABLE" /\ kind[l] = "good" /\ l \notin trouble
        => \E s \in token[l]..signing :
              \E k \in listed[s] \ {token[l]} : Kid[k] = Kid[token[l]]

\* Every login that came back from the provider is answered.
EveryLoginIsAnswered ==
    \A l \in Logins : (at[l] = "exchanging") ~> (at[l] = "done")

=============================================================================
