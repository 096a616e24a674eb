------------------------------ MODULE JwksProofs ------------------------------
(***************************************************************************)
(* Proofs about Jwks for any logins, key ids and number of rotations.  The *)
(* inductive invariant IInv says who holds the lock (LockIsTheFetchers),   *)
(* that an unforced fetch under way found the cache old (HerdOK), and that *)
(* the cache and a reply on its way are what the provider published, the   *)
(* reply not before the cache (KeysOK).  TokenOK, about the token of each  *)
(* login, is inductive with it.                                            *)
(***************************************************************************)
EXTENDS Jwks, TLAPS

USE DEF vars, provider, store, idToken

HerdOK ==
    /\ refills <= 1
    /\ refills = 1 => cache # {} /\ ~stale
    /\ \A l \in Logins : at[l] \in {"fetching", "served"} /\ l \notin forced
                          => cache = {} \/ stale

\* The provider's key sets; they never change.
ListedOK == \A s \in Keys : KeySet(listed[s], s)

CacheUpTo(s) == cache = {} \/ \E t \in 0..s : cache = listed[t]

KeysOK ==
    /\ CacheUpTo(signing)
    /\ \A l \in Logins : at[l] = "served" =>
          \E s \in 0..signing : reply[l] = listed[s] /\ CacheUpTo(s)

IInv == TypeOK /\ ListedOK /\ LockIsTheFetchers /\ HerdOK /\ KeysOK

-----------------------------------------------------------------------------
\* Where callback goes with the keys it got, and what it answers.
LEMMA ValidatesGoes ==
    ASSUME TypeOK, NEW l \in Logins, NEW keys, Validates(l, keys)
    PROVE  /\ \/ Goes(l, "done") /\ forced' = forced
              \/ Goes(l, "queued") /\ forced' = forced \cup {l}
           /\ \/ result' = result
              \/ \E r \in {"ok", "AUTH_TENANT_NOT_ALLOWED", "AUTH_PROVIDER_UNAVAILABLE", "error"} :
                     result' = [result EXCEPT ![l] = r]
BY DEF TypeOK, Validates, Retries, Goes, Answers

\* A step that adds nothing to the cache or to the replies.
LEMMA KeysKept ==
    ASSUME KeysOK, UNCHANGED <<cache, reply, signing, listed>>,
           \A l \in Logins : at'[l] = "served" => at[l] = "served"
    PROVE  KeysOK'
BY DEF KeysOK, CacheUpTo

\* Every action keeps every variable in its type.
LEMMA TypeStep ==
    ASSUME TypeOK, [Next]_vars
    PROVE  TypeOK'
<1> USE JwksAssumption DEF TypeOK, Goes, Answers
<1>1. ASSUME NEW l \in Logins, LoginStarts(l) PROVE TypeOK'
  BY <1>1 DEF LoginStarts
<1>2. ASSUME NEW l \in Logins, CallbackGoes(l) PROVE TypeOK'
  BY <1>2 DEF CallbackGoes
<1>3. ASSUME NEW l \in Logins, ExchangeFails(l) PROVE TypeOK'
  BY <1>3 DEF ExchangeFails
<1>4. ASSUME NEW l \in Logins, Signs(l) PROVE TypeOK'
  BY <1>4 DEF Signs
<1>5. ASSUME NEW l \in Logins, Exchanged(l) PROVE TypeOK'
  BY <1>5, ValidatesGoes DEF Exchanged, Fresh
<1>6. ASSUME NEW l \in Logins, TakesLock(l) PROVE TypeOK'
  BY <1>6, ValidatesGoes DEF TakesLock, Fresh
<1>7. ASSUME NEW l \in Logins, Serves(l) PROVE TypeOK'
  BY <1>7 DEF Serves
<1>8. ASSUME NEW l \in Logins, Fetched(l) PROVE TypeOK'
  <2>1. cache' \in SUBSET Keys /\ stale' \in BOOLEAN
    BY <1>8 DEF Fetched
  <2>2. refills' \in 0..2
    BY <1>8 DEF Fetched, Refilled
  <2>3. holder' \in Logins \cup {Nobody} /\ UNCHANGED <<signing, listed, token, kind, reply, trouble>>
    BY <1>8 DEF Fetched, Releases
  <2> QED
    BY <1>8, <2>1, <2>2, <2>3, ValidatesGoes DEF Fetched
<1>9. ASSUME NEW l \in Logins, FetchFails(l) PROVE TypeOK'
  BY <1>9 DEF FetchFails, Retries, Releases
<1>10. ASSUME NEW l \in Logins, Cancelled(l) PROVE TypeOK'
  BY <1>10 DEF Cancelled, Releases
<1>11. CASE Rotates
  BY <1>11 DEF Rotates, Keys
<1>12. CASE Expires
  BY <1>12 DEF Expires, Fresh
<1>13. CASE UNCHANGED vars
  BY <1>13
<1> QED
  BY <1>1, <1>2, <1>3, <1>4, <1>5, <1>6, <1>7, <1>8, <1>9, <1>10, <1>11, <1>12,
     <1>13
     DEF Next, LoginStep

\* The lock goes with the fetch.
LEMMA LockStep ==
    ASSUME TypeOK, LockIsTheFetchers, [Next]_vars
    PROVE  LockIsTheFetchers'
<1> USE JwksAssumption DEF TypeOK, LockIsTheFetchers, Goes, Answers
<1>1. ASSUME NEW l \in Logins, LoginStarts(l) PROVE LockIsTheFetchers'
  BY <1>1 DEF LoginStarts
<1>2. ASSUME NEW l \in Logins, CallbackGoes(l) PROVE LockIsTheFetchers'
  BY <1>2 DEF CallbackGoes
<1>3. ASSUME NEW l \in Logins, ExchangeFails(l) PROVE LockIsTheFetchers'
  BY <1>3 DEF ExchangeFails
<1>4. ASSUME NEW l \in Logins, Signs(l) PROVE LockIsTheFetchers'
  BY <1>4 DEF Signs
<1>5. ASSUME NEW l \in Logins, Exchanged(l) PROVE LockIsTheFetchers'
  BY <1>5, ValidatesGoes DEF Exchanged, Fresh
<1>6. ASSUME NEW l \in Logins, TakesLock(l) PROVE LockIsTheFetchers'
  BY <1>6, ValidatesGoes DEF TakesLock, Fresh
<1>7. ASSUME NEW l \in Logins, Serves(l) PROVE LockIsTheFetchers'
  BY <1>7 DEF Serves
<1>8. ASSUME NEW l \in Logins, Fetched(l) PROVE LockIsTheFetchers'
  BY <1>8, ValidatesGoes DEF Fetched, Releases, Refilled
<1>9. ASSUME NEW l \in Logins, FetchFails(l) PROVE LockIsTheFetchers'
  BY <1>9 DEF FetchFails, Retries, Releases
<1>10. ASSUME NEW l \in Logins, Cancelled(l) PROVE LockIsTheFetchers'
  BY <1>10 DEF Cancelled, Releases
<1>11. CASE Rotates
  BY <1>11 DEF Rotates, Keys
<1>12. CASE Expires
  BY <1>12 DEF Expires, Fresh
<1>13. CASE UNCHANGED vars
  BY <1>13
<1> QED
  BY <1>1, <1>2, <1>3, <1>4, <1>5, <1>6, <1>7, <1>8, <1>9, <1>10, <1>11, <1>12,
     <1>13
     DEF Next, LoginStep

\* A fetch that fills the cache finds it old.
LEMMA HerdStep ==
    ASSUME TypeOK, ListedOK, LockIsTheFetchers, HerdOK, KeysOK, [Next]_vars
    PROVE  HerdOK'
<1> USE JwksAssumption DEF TypeOK, LockIsTheFetchers, HerdOK, Goes, Answers
<1>1. ASSUME NEW l \in Logins, LoginStarts(l) PROVE HerdOK'
  BY <1>1 DEF LoginStarts
<1>2. ASSUME NEW l \in Logins, CallbackGoes(l) PROVE HerdOK'
  BY <1>2 DEF CallbackGoes
<1>3. ASSUME NEW l \in Logins, ExchangeFails(l) PROVE HerdOK'
  BY <1>3 DEF ExchangeFails
<1>4. ASSUME NEW l \in Logins, Signs(l) PROVE HerdOK'
  BY <1>4 DEF Signs
<1>5. ASSUME NEW l \in Logins, Exchanged(l) PROVE HerdOK'
  BY <1>5, ValidatesGoes DEF Exchanged, Fresh
<1>6. ASSUME NEW l \in Logins, TakesLock(l) PROVE HerdOK'
  BY <1>6, ValidatesGoes DEF TakesLock, Fresh
<1>7. ASSUME NEW l \in Logins, Serves(l) PROVE HerdOK'
  BY <1>7 DEF Serves
<1>8. ASSUME NEW l \in Logins, Fetched(l) PROVE HerdOK'
  <2>1. cache' # {} /\ ~stale'
    <3>1. PICK s \in 0..signing : reply[l] = listed[s]
      BY <1>8 DEF Fetched, KeysOK
    <3>2. s \in Published(s) /\ KeySet(listed[s], s)
      BY <3>1 DEF Published, Keys, ListedOK
    <3> QED
      BY <1>8, <3>1, <3>2 DEF Fetched, KeySet
  <2>2. \A m \in Logins : at'[m] \notin {"fetching", "served"}
    BY <1>8, ValidatesGoes DEF Fetched
  <2>3. refills' \in 0..1
    BY <1>8 DEF Fetched, Refilled
  <2> QED
    BY <2>1, <2>2, <2>3
<1>9. ASSUME NEW l \in Logins, FetchFails(l) PROVE HerdOK'
  BY <1>9 DEF FetchFails, Retries, Releases
<1>10. ASSUME NEW l \in Logins, Cancelled(l) PROVE HerdOK'
  BY <1>10 DEF Cancelled, Releases
<1>11. CASE Rotates
  BY <1>11 DEF Rotates, Keys
<1>12. CASE Expires
  BY <1>12 DEF Expires, Fresh
<1>13. CASE UNCHANGED vars
  BY <1>13
<1> QED
  BY <1>1, <1>2, <1>3, <1>4, <1>5, <1>6, <1>7, <1>8, <1>9, <1>10, <1>11, <1>12,
     <1>13
     DEF Next, LoginStep

\* A reply is of its moment, and no older than the cache.
LEMMA KeysStep ==
    ASSUME TypeOK, LockIsTheFetchers, KeysOK, [Next]_vars
    PROVE  KeysOK'
<1> USE JwksAssumption DEF TypeOK
<1>1. ASSUME NEW l \in Logins, LoginStarts(l) PROVE KeysOK'
  BY <1>1, KeysKept DEF LoginStarts, Goes, Answers
<1>2. ASSUME NEW l \in Logins, CallbackGoes(l) PROVE KeysOK'
  BY <1>2, KeysKept DEF CallbackGoes, Goes, Answers
<1>3. ASSUME NEW l \in Logins, ExchangeFails(l) PROVE KeysOK'
  BY <1>3, KeysKept DEF ExchangeFails, Goes, Answers
<1>4. ASSUME NEW l \in Logins, Signs(l) PROVE KeysOK'
  BY <1>4, KeysKept DEF Signs, Goes, Answers
<1>5. ASSUME NEW l \in Logins, Exchanged(l) PROVE KeysOK'
  BY <1>5, KeysKept, ValidatesGoes DEF Exchanged, Goes, Answers
<1>6. ASSUME NEW l \in Logins, TakesLock(l) PROVE KeysOK'
  BY <1>6, KeysKept, ValidatesGoes DEF TakesLock, Goes, Answers
<1>7. ASSUME NEW l \in Logins, Serves(l) PROVE KeysOK'
  <2>1. reply' = [reply EXCEPT ![l] = listed[signing]] /\ cache' = cache
    BY <1>7 DEF Serves
  <2>2. signing' = signing /\ listed' = listed /\ at' = [at EXCEPT ![l] = "served"] /\ signing \in 0..signing
    BY <1>7 DEF Serves, Goes, Keys
  <2>3. \A s \in 0..signing : CacheUpTo(s)' <=> CacheUpTo(s)
    BY <2>1, <2>2 DEF CacheUpTo
  <2>4. ASSUME NEW m \in Logins, at'[m] = "served"
        PROVE  \E s \in 0..signing : reply'[m] = listed[s] /\ CacheUpTo(s)
    BY <2>1, <2>2, <2>4 DEF KeysOK
  <2> QED
    BY <2>2, <2>3, <2>4 DEF KeysOK
<1>8. ASSUME NEW l \in Logins, Fetched(l) PROVE KeysOK'
  <2>1. PICK s \in 0..signing : reply[l] = listed[s]
    BY <1>8 DEF Fetched, KeysOK
  <2>2. cache' = listed[s] /\ UNCHANGED <<signing, listed, reply>>
    BY <1>8, <2>1 DEF Fetched
  <2>3. \A m \in Logins : at'[m] # "served"
    BY <1>8, ValidatesGoes DEF Fetched, LockIsTheFetchers, Goes
  <2> QED
    BY <2>1, <2>2, <2>3 DEF KeysOK, CacheUpTo
<1>9. ASSUME NEW l \in Logins, FetchFails(l) PROVE KeysOK'
  BY <1>9, KeysKept DEF FetchFails, Goes, Answers, Retries
<1>10. ASSUME NEW l \in Logins, Cancelled(l) PROVE KeysOK'
  BY <1>10, KeysKept DEF Cancelled, Goes, Answers
<1>11. CASE Rotates
  <2>1. 0..signing \subseteq 0..signing' /\ UNCHANGED <<listed, cache, reply, at>>
    BY <1>11 DEF Rotates, Keys
  <2>2. \A s \in 0..signing : CacheUpTo(s)' <=> CacheUpTo(s)
    BY <2>1 DEF CacheUpTo
  <2>3. CacheUpTo(signing)'
    BY <2>1 DEF KeysOK, CacheUpTo
  <2>4. ASSUME NEW m \in Logins, at'[m] = "served"
        PROVE  \E s \in 0..signing' : reply'[m] = listed'[s] /\ CacheUpTo(s)'
    <3>1. PICK s \in 0..signing : reply[m] = listed[s] /\ CacheUpTo(s)
      BY <2>1, <2>4 DEF KeysOK
    <3> QED
      BY <2>1, <2>2, <3>1
  <2> QED
    BY <2>3, <2>4 DEF KeysOK
<1>12. CASE Expires
  BY <1>12, KeysKept DEF Expires
<1>13. CASE UNCHANGED vars
  BY <1>13, KeysKept
<1> QED
  BY <1>1, <1>2, <1>3, <1>4, <1>5, <1>6, <1>7, <1>8, <1>9, <1>10, <1>11, <1>12,
     <1>13
     DEF Next, LoginStep

-----------------------------------------------------------------------------
LEMMA InitInv == Init => IInv
<1> SUFFICES ASSUME Init PROVE IInv
  OBVIOUS
<1> USE JwksAssumption DEF Init
<1>1. TypeOK
  <2>1. 0 \in Keys
    BY DEF Keys
  <2>2. {} \in SUBSET Keys
    OBVIOUS
  <2>3. reply \in [Logins -> SUBSET Keys]
    BY <2>2
  <2>4. cache \in SUBSET Keys /\ forced \in SUBSET Logins /\ trouble \in SUBSET Logins
    OBVIOUS
  <2>5. signing \in Keys /\ token \in [Logins -> Keys]
    BY <2>1
  <2>6. refills \in 0..2
    OBVIOUS
  <2>7. stale \in BOOLEAN /\ holder \in Logins \cup {Nobody}
    BY Zenon
  <2>8. /\ at \in [Logins -> {"idle"}]
        /\ kind \in [Logins -> {"none"}]
        /\ result \in [Logins -> {"none"}]
    OBVIOUS
  <2>9. listed \in [Keys -> SUBSET Keys]
    OBVIOUS
  <2> HIDE DEF Init
  <2> QED
    BY <2>3, <2>4, <2>5, <2>6, <2>7, <2>8, <2>9 DEF TypeOK
<1>2. LockIsTheFetchers /\ HerdOK
  BY DEF LockIsTheFetchers, HerdOK
<1>3. KeysOK /\ ListedOK
  BY DEF KeysOK, CacheUpTo, ListedOK
<1> QED
  BY <1>1, <1>2, <1>3 DEF IInv

\* No step touches the provider's key sets.
LEMMA ListedStays == [Next]_vars => listed' = listed
BY DEF Next, LoginStep, LoginStarts, CallbackGoes, ExchangeFails, Signs, Exchanged,
       TakesLock, Serves, Fetched, FetchFails, Cancelled, Rotates, Expires

LEMMA InvStep == IInv /\ [Next]_vars => IInv'
<1> SUFFICES ASSUME IInv, [Next]_vars PROVE IInv'
  OBVIOUS
<1>1. ListedOK'
  BY ListedStays DEF IInv, ListedOK
<1> QED
  BY <1>1, TypeStep, LockStep, HerdStep, KeysStep DEF IInv

LEMMA Invariance == Spec => []IInv
BY InitInv, InvStep, PTL DEF Spec

\* Every variable of Jwks keeps its type.
THEOREM TypeCorrect == Spec => []TypeOK
<1>1. IInv => TypeOK
  BY DEF IInv
<1> QED
  BY <1>1, Invariance, PTL

\* _JWKS_FETCH_LOCK is held by the login that fetches and by no other.
THEOREM LockSafe == Spec => []LockIsTheFetchers
<1>1. IInv => LockIsTheFetchers
  BY DEF IInv
<1> QED
  BY <1>1, Invariance, PTL

\* Between two expiries of the cache at most one unforced fetch_jwks succeeds.
THEOREM OneFetch == Spec => []HerdFetchesOnce
<1>1. IInv => HerdFetchesOnce
  BY DEF IInv, HerdOK, HerdFetchesOnce
<1> QED
  BY <1>1, Invariance, PTL

\* fetch_jwks never puts older keys in the place of newer ones, and loses none that
\* the provider's key set still holds.
THEOREM CacheAdvances == Spec => CacheMovesForward
<1> DEFINE Newer == \A old \in cache, new \in cache' :
                       old \notin cache' /\ new \notin cache => old < new
           Kept == \A k \in cache \cap listed[signing] : k \in cache'
<1>1. ASSUME IInv, [Next]_vars PROVE Newer /\ Kept
  <2>1. CASE cache' = cache
    BY <2>1
  <2>2. ASSUME NEW l \in Logins, Fetched(l) PROVE Newer /\ Kept
    <3>1. PICK s \in 0..signing : cache' = listed[s] /\ CacheUpTo(s)
      BY <1>1, <2>2 DEF IInv, KeysOK, Fetched
    <3>2. CASE cache = {}
      BY <3>2
    <3>3. ASSUME NEW t \in 0..s, cache = listed[t] PROVE Newer /\ Kept
      <4>1. signing \in Nat /\ s \in Nat /\ t \in Nat /\ t <= s /\ s <= signing
        BY <1>1, <3>1, JwksAssumption DEF IInv, TypeOK, Keys
      <4>2. s \in Keys /\ t \in Keys /\ signing \in Keys
        BY <1>1, <4>1, JwksAssumption DEF IInv, TypeOK, Keys
      <4>3. \A n \in {s, t, signing} : \A k \in listed[n] : k \in Nat /\ (k = n \/ k + 1 = n)
        BY <1>1, <4>2, JwksAssumption DEF IInv, ListedOK, KeySet, Published, Keys
      <4>4. Newer
        <5> SUFFICES ASSUME NEW old \in listed[t], NEW new \in listed[s],
                            old \notin listed[s], new \notin listed[t]
                     PROVE  old < new
          BY <3>1, <3>3
        <5>1. old \in Nat /\ new \in Nat /\ old <= t /\ s <= new + 1 /\ old # new /\ s # t
          BY <4>1, <4>3
        <5> QED
          BY <4>1, <5>1
      <4>5. Kept
        <5> SUFFICES ASSUME NEW k \in listed[t], k \in listed[signing], k \notin listed[s]
                     PROVE  FALSE
          BY <3>1, <3>3
        <5>1. k \in Nat /\ k <= t /\ signing <= k + 1 /\ s # t /\ s # signing
          BY <4>1, <4>3
        <5> QED
          BY <4>1, <5>1
      <4> QED
        BY <4>4, <4>5
    <3> QED
      BY <3>1, <3>2, <3>3 DEF CacheUpTo
  <2> QED
    BY <1>1, <2>1, <2>2
       DEF Next, LoginStep, LoginStarts, CallbackGoes, ExchangeFails, Signs, Exchanged,
           TakesLock, Serves, FetchFails, Cancelled, Rotates, Expires
<1> QED
  BY Invariance, <1>1, PTL DEF Spec, CacheMovesForward

\* callback lets nobody pass but with a good token of a key the cache holds.
THEOREM OnlyGoodPass == Spec => OnlyGoodTokensPass
<1> DEFINE Passes(l) == result[l] # "ok" /\ result'[l] = "ok"
           Good(l) == kind[l] = "good" /\ token[l] \in cache'
<1>1. ASSUME IInv, [Next]_vars PROVE \A l \in Logins : Passes(l) => Good(l)
  <2> SUFFICES ASSUME NEW l \in Logins, Passes(l) PROVE Good(l)
    OBVIOUS
  <2> USE DEF Answers, Retries, Goes
  <2>1. ASSUME NEW m \in Logins, NEW keys, Validates(m, keys), keys = cache' PROVE Good(l)
    BY <1>1, <2>1 DEF IInv, TypeOK, Validates, Verdict
  <2>2. ASSUME NEW m \in Logins, Exchanged(m) \/ TakesLock(m) \/ Fetched(m) PROVE Good(l)
    BY <2>1, <2>2, <1>1 DEF Exchanged, TakesLock, Fetched, IInv, TypeOK
  <2>3. ASSUME NEW m \in Logins,
               LoginStarts(m) \/ CallbackGoes(m) \/ ExchangeFails(m) \/ Signs(m)
               \/ Serves(m) \/ FetchFails(m) \/ Cancelled(m)
        PROVE Good(l)
    BY <1>1, <2>3 DEF IInv, TypeOK, LoginStarts, CallbackGoes, ExchangeFails, Signs,
                      Serves, FetchFails, Cancelled
  <2> QED
    BY <1>1, <2>2, <2>3 DEF Next, LoginStep, Rotates, Expires
<1> QED
  BY Invariance, <1>1, PTL DEF Spec, OnlyGoodTokensPass

-----------------------------------------------------------------------------
\* Since it signs with t, the provider has published a key set in which the id of t
\* leads to another key.
Shadowed(t) ==
    \E s \in t..signing : \E k \in listed[s] \ {t} : Kid[k] = Kid[t]

\* What a login knows of its token: the provider has signed it before it served
\* the keys, and a second attempt comes after the first.
TokenOK ==
    \A l \in Logins :
        /\ at[l] # "done" => result[l] = "none"
        /\ at[l] \in {"idle", "away", "exchanging"} => l \notin forced
        /\ token[l] \in 0..signing
        /\ at[l] = "served" => \E s \in token[l]..signing : reply[l] = listed[s]
        /\ result[l] = "AUTH_PROVIDER_UNAVAILABLE" /\ kind[l] = "good" /\ l \notin trouble
              => Shadowed(token[l])

\* The keys that refuse a good token for good hold another one under its id.
LEMMA RefusedIsShadowed ==
    ASSUME IInv, TokenOK, NEW l \in Logins, NEW keys, Validates(l, keys),
           l \in forced => \E s \in token[l]..signing : keys = listed[s],
           at[l] # "done", kind' = kind, token' = token, signing' = signing, listed' = listed,
           UNCHANGED <<reply, trouble>>
    PROVE  TokenOK'
<1> USE DEF IInv, TypeOK, TokenOK, Shadowed, Goes, Answers
<1>1. CASE Goes(l, "queued") /\ forced' = forced \cup {l} /\ UNCHANGED result
  BY <1>1
<1>2. ASSUME NEW r, Answers(l, r), forced' = forced, r # "AUTH_PROVIDER_UNAVAILABLE"
      PROVE TokenOK'
  BY <1>2
<1>3. CASE kind[l] = "nameless" /\ Answers(l, "AUTH_PROVIDER_UNAVAILABLE") /\ UNCHANGED forced
  BY <1>3
<1>4. CASE Verdict(l, keys) = "IdTokenInvalid" /\ l \in forced
             /\ Answers(l, "AUTH_PROVIDER_UNAVAILABLE") /\ UNCHANGED forced
  <2>1. PICK s \in token[l]..signing : keys = listed[s]
    BY <1>4
  <2>2. kind[l] = "good" => \E k \in keys : k # token[l] /\ Kid[k] = Kid[token[l]]
    BY <1>4 DEF Verdict
  <2>3. kind[l] = "good" => Shadowed(token[l])
    BY <2>1, <2>2 DEF Shadowed
  <2> QED
    BY <1>4, <2>3
<1> QED
  BY <1>1, <1>2, <1>3, <1>4 DEF Validates, Retries

LEMMA TokenStep ==
    ASSUME IInv, TokenOK, [Next]_vars
    PROVE  TokenOK'
<1> USE JwksAssumption DEF IInv, TypeOK, TokenOK, Shadowed, Goes, Answers
<1>1. ASSUME NEW l \in Logins, LoginStarts(l) PROVE TokenOK'
  BY <1>1 DEF LoginStarts
<1>2. ASSUME NEW l \in Logins, CallbackGoes(l) PROVE TokenOK'
  <2>1. CASE Goes(l, "exchanging") /\ UNCHANGED result
    BY <1>2, <2>1 DEF CallbackGoes
  <2>2. CASE Answers(l, "AUTH_INVALID_STATE")
    BY <1>2, <2>2 DEF CallbackGoes
  <2> QED
    BY <1>2, <2>1, <2>2 DEF CallbackGoes
<1>3. ASSUME NEW l \in Logins, ExchangeFails(l) PROVE TokenOK'
  BY <1>3 DEF ExchangeFails
<1>4. ASSUME NEW l \in Logins, Signs(l) PROVE TokenOK'
  BY <1>4 DEF Signs, Keys
<1>5. ASSUME NEW l \in Logins, Exchanged(l) PROVE TokenOK'
  <2>1. CASE Fresh /\ Validates(l, cache)
    BY <1>5, <2>1, RefusedIsShadowed DEF Exchanged
  <2>2. CASE ~Fresh /\ Goes(l, "queued") /\ UNCHANGED <<forced, result>>
    BY <1>5, <2>2 DEF Exchanged
  <2> QED
    BY <1>5, <2>1, <2>2 DEF Exchanged
<1>6. ASSUME NEW l \in Logins, TakesLock(l) PROVE TokenOK'
  <2>1. CASE l \notin forced /\ Fresh /\ Validates(l, cache)
    BY <1>6, <2>1, RefusedIsShadowed DEF TakesLock
  <2>2. CASE Goes(l, "fetching") /\ UNCHANGED <<forced, result>>
    BY <1>6, <2>2 DEF TakesLock
  <2> QED
    BY <1>6, <2>1, <2>2 DEF TakesLock
<1>7. ASSUME NEW l \in Logins, Serves(l) PROVE TokenOK'
  <2>1. reply' = [reply EXCEPT ![l] = listed[signing]]
    BY <1>7 DEF Serves
  <2>2. signing \in token[l]..signing
    BY DEF Keys
  <2> QED
    BY <1>7, <2>1, <2>2 DEF Serves
<1>8. ASSUME NEW l \in Logins, Fetched(l) PROVE TokenOK'
  BY <1>8, RefusedIsShadowed DEF Fetched
<1>9. ASSUME NEW l \in Logins, FetchFails(l) PROVE TokenOK'
  BY <1>9 DEF FetchFails, Retries
<1>10. ASSUME NEW l \in Logins, Cancelled(l) PROVE TokenOK'
  BY <1>10 DEF Cancelled
<1>11. CASE Rotates
  <2>1. signing' = signing + 1 /\ UNCHANGED <<listed, at, forced, idToken, reply, result, trouble>>
    BY <1>11 DEF Rotates
  <2>2. \A n \in 0..signing : n \in 0..signing' /\ n..signing \subseteq n..signing'
    BY <2>1 DEF Keys
  <2> QED
    BY <2>1, <2>2
<1>12. CASE Expires
  BY <1>12 DEF Expires
<1>13. CASE UNCHANGED vars
  BY <1>13
<1> QED
  BY <1>1, <1>2, <1>3, <1>4, <1>5, <1>6, <1>7, <1>8, <1>9, <1>10, <1>11, <1>12,
     <1>13
     DEF Next, LoginStep

\* A forced refresh brings keys no older than the token: a good login is refused after
\* it only if the provider itself has put another key under the token's id.
THEOREM RefreshSaves == Spec => []StaleKeysAreRefreshed
<1>1. Init => TokenOK
  <2> SUFFICES ASSUME Init PROVE TokenOK
    OBVIOUS
  <2> SUFFICES ASSUME NEW l \in Logins
               PROVE  /\ at[l] = "idle" /\ result[l] = "none" /\ l \notin forced
                      /\ token[l] \in 0..signing
    BY DEF TokenOK
  <2>1. token[l] = 0 /\ signing = 0
    BY DEF Init
  <2> QED
    BY <2>1 DEF Init
<1>2. IInv /\ TokenOK => StaleKeysAreRefreshed
  BY DEF TokenOK, Shadowed, StaleKeysAreRefreshed
<1> QED
  BY <1>1, <1>2, TokenStep, Invariance, PTL DEF Spec

=============================================================================
