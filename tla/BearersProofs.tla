--------------------------- MODULE BearersProofs ---------------------------
(***************************************************************************)
(* Proofs about Bearers for any number of accounts, logins, regenerations  *)
(* and MCP requests.  That a user has one active bearer rests on two facts *)
(* about the database: row locks exclude each other (LockOK), and between  *)
(* a regeneration's INSERT and its COMMIT no other transaction changes the *)
(* active bearer of the account (InsertOK).  The last two sections are     *)
(* about circles of waits and the refinement of BearerRegister.            *)
(***************************************************************************)
EXTENDS Bearers, TLAPS

USE BearersAssumption DEF vars, Handlers, Makers

\* A login answers with success, or finds its user, when there is one; of the
\* logins of one account one at most is between INSERT and COMMIT.
LoginOK ==
    /\ \A l \in Logins : at[l] = "created" => Account[l] \notin user
    /\ \A l \in Logins : at[l] = "known" \/ result[l] = "ok" => Account[l] \in user
    /\ \A k, l \in Logins :
          at[k] = "created" /\ at[l] = "created" /\ Account[k] = Account[l] => k = l

\* A regeneration is a user's; a bearer is in the database once the call that
\* makes it has committed.
RegenOK ==
    /\ \A g \in Regens : at[g] # "idle" => Account[g] \in user
    /\ \A g \in Regens : at[g] = "refreshing" \/ result[g] = "ok" => bearer[g] # "none"
    /\ \A m \in Makers : bearer[m] # "none" => at[m] \in {"refreshing", "done"}

\* A call that was let in presents a bearer somebody issued.
CallOK ==
    \A q \in Calls : at[q] \in {"found", "bumped"} => presents[q] # Unknown

PhaseOK == LoginOK /\ RegenOK /\ CallOK

\* One transaction has a row; a regeneration's is the active one of its account.
LockOK ==
    /\ \A h, k \in Handlers : h # k => locked[h] \cap locked[k] = {}
    /\ \A g \in Regens : \A m \in sees[g] : Account[m] = Account[g]
    /\ \A g \in Regens : \A m \in locked[g] :
          bearer[m] = "active" /\ Account[m] = Account[g]

\* Between INSERT and COMMIT the active bearer is the one being revoked.
InsertOK ==
    /\ \A g, k \in Regens :
          at[g] = "inserted" /\ at[k] = "inserted" /\ Account[g] = Account[k] => g = k
    /\ \A g \in Regens : at[g] = "inserted" =>
          \A m \in Makers : bearer[m] = "active" /\ Account[m] = Account[g] => m \in locked[g]

Rows == PhaseOK /\ LockOK /\ InsertOK

IInv == TypeOK /\ Rows /\ UserHasItsBearer

-----------------------------------------------------------------------------
\* Every action keeps every variable in its type.
LEMMA TypeStep ==
    ASSUME TypeOK, CallOK, [Next]_vars
    PROVE  TypeOK'
<1> USE DEF TypeOK, CallOK
<1>1. ASSUME NEW l \in Logins, LoginSelects(l) PROVE TypeOK'
  BY <1>1 DEF LoginSelects, Goes
<1>2. ASSUME NEW l \in Logins, LoginInserts(l) PROVE TypeOK'
  BY <1>2 DEF LoginInserts, Answer, Goes
<1>3. ASSUME NEW l \in Logins, LoginCommits(l) PROVE TypeOK'
  BY <1>3 DEF LoginCommits, Establishes, Answer, Goes
<1>4. ASSUME NEW l \in Logins, LoginCommitsUnseen(l) PROVE TypeOK'
  BY <1>4 DEF LoginCommitsUnseen, Establishes, Answer, Goes
<1>5. ASSUME NEW l \in Logins, LoginReturns(l) PROVE TypeOK'
  BY <1>5 DEF LoginReturns, Answer, Goes
<1>6. ASSUME NEW l \in Logins, LoginFails(l) PROVE TypeOK'
  BY <1>6 DEF LoginFails, Answer, Goes
<1>7. ASSUME NEW g \in Regens, RegenSends(g) PROVE TypeOK'
  BY <1>7 DEF RegenSends, Goes, Active
<1>8. ASSUME NEW g \in Regens, RegenRevokes(g) PROVE TypeOK'
  BY <1>8 DEF RegenRevokes, Goes, LockedByOther
<1>9. ASSUME NEW g \in Regens, RegenInserts(g) PROVE TypeOK'
  BY <1>9 DEF RegenInserts, Goes, IndexBusy, Active, LockedByOther
<1>10. ASSUME NEW g \in Regens, RegenCommits(g) PROVE TypeOK'
  BY <1>10 DEF RegenCommits, Goes
<1>11. ASSUME NEW g \in Regens, RegenAnswers(g) PROVE TypeOK'
  BY <1>11 DEF RegenAnswers, Answer, Goes
<1>12. ASSUME NEW g \in Regens, RegenRaises(g) PROVE TypeOK'
  BY <1>12 DEF RegenRaises, Answer, Goes
<1>13. ASSUME NEW g \in Regens, RegenFails(g) PROVE TypeOK'
  BY <1>13 DEF RegenFails, Answer, Goes
<1>14. ASSUME NEW q \in Calls, CallRefused(q) PROVE TypeOK'
  BY <1>14 DEF CallRefused, Answer, Goes, Issued
<1>15. ASSUME NEW q \in Calls, CallFinds(q) PROVE TypeOK'
  BY <1>15 DEF CallFinds, Goes, Issued
<1>16. ASSUME NEW q \in Calls, CallBumps(q) PROVE TypeOK'
  BY <1>16 DEF CallBumps, Goes, LockedByOther
<1>17. ASSUME NEW q \in Calls, CallCommits(q) PROVE TypeOK'
  BY <1>17 DEF CallCommits, Answer, Goes
<1>18. ASSUME NEW q \in Calls, CallBumpFails(q) PROVE TypeOK'
  BY <1>18 DEF CallBumpFails, Answer, Goes
<1>19. ASSUME NEW q \in Calls, CallCancelled(q) PROVE TypeOK'
  BY <1>19 DEF CallCancelled, Answer, Goes
<1>20. CASE UNCHANGED vars
  BY <1>20
<1>21. QED
  BY <1>1, <1>2, <1>3, <1>4, <1>5, <1>6, <1>7, <1>8, <1>9, <1>10, <1>11,
     <1>12, <1>13, <1>14, <1>15, <1>16, <1>17, <1>18, <1>19, <1>20
     DEF Next, Steps, Failures, LoginStep, RegenStep, CallStep

\* Two logins do not create one user, and users stay.
LEMMA LoginRows ==
    ASSUME TypeOK, LoginOK, [Next]_vars
    PROVE  LoginOK'
<1> USE DEF TypeOK, LoginOK
<1>1. ASSUME NEW l \in Logins, LoginSelects(l) PROVE LoginOK'
  BY <1>1 DEF LoginSelects, Goes
<1>2. ASSUME NEW l \in Logins, LoginInserts(l) PROVE LoginOK'
  BY <1>2 DEF LoginInserts, Answer, Goes
<1>3. ASSUME NEW l \in Logins, LoginCommits(l) PROVE LoginOK'
  BY <1>3 DEF LoginCommits, Establishes, Answer, Goes
<1>4. ASSUME NEW l \in Logins, LoginCommitsUnseen(l) PROVE LoginOK'
  BY <1>4 DEF LoginCommitsUnseen, Establishes, Answer, Goes
<1>5. ASSUME NEW l \in Logins, LoginReturns(l) PROVE LoginOK'
  BY <1>5 DEF LoginReturns, Answer, Goes
<1>6. ASSUME NEW l \in Logins, LoginFails(l) PROVE LoginOK'
  BY <1>6 DEF LoginFails, Answer, Goes
<1>7. ASSUME NEW g \in Regens, RegenSends(g) PROVE LoginOK'
  BY <1>7 DEF RegenSends, Goes
<1>8. ASSUME NEW g \in Regens, RegenRevokes(g) PROVE LoginOK'
  BY <1>8 DEF RegenRevokes, Goes
<1>9. ASSUME NEW g \in Regens, RegenInserts(g) PROVE LoginOK'
  BY <1>9 DEF RegenInserts, Goes
<1>10. ASSUME NEW g \in Regens, RegenCommits(g) PROVE LoginOK'
  BY <1>10 DEF RegenCommits, Goes
<1>11. ASSUME NEW g \in Regens, RegenAnswers(g) PROVE LoginOK'
  BY <1>11 DEF RegenAnswers, Answer, Goes
<1>12. ASSUME NEW g \in Regens, RegenRaises(g) PROVE LoginOK'
  BY <1>12 DEF RegenRaises, Answer, Goes
<1>13. ASSUME NEW g \in Regens, RegenFails(g) PROVE LoginOK'
  BY <1>13 DEF RegenFails, Answer, Goes
<1>14. ASSUME NEW q \in Calls, CallRefused(q) PROVE LoginOK'
  BY <1>14 DEF CallRefused, Answer, Goes
<1>15. ASSUME NEW q \in Calls, CallFinds(q) PROVE LoginOK'
  BY <1>15 DEF CallFinds, Goes
<1>16. ASSUME NEW q \in Calls, CallBumps(q) PROVE LoginOK'
  BY <1>16 DEF CallBumps, Goes
<1>17. ASSUME NEW q \in Calls, CallCommits(q) PROVE LoginOK'
  BY <1>17 DEF CallCommits, Answer, Goes
<1>18. ASSUME NEW q \in Calls, CallBumpFails(q) PROVE LoginOK'
  BY <1>18 DEF CallBumpFails, Answer, Goes
<1>19. ASSUME NEW q \in Calls, CallCancelled(q) PROVE LoginOK'
  BY <1>19 DEF CallCancelled, Answer, Goes
<1>20. CASE UNCHANGED vars
  BY <1>20
<1>21. QED
  BY <1>1, <1>2, <1>3, <1>4, <1>5, <1>6, <1>7, <1>8, <1>9, <1>10, <1>11,
     <1>12, <1>13, <1>14, <1>15, <1>16, <1>17, <1>18, <1>19, <1>20
     DEF Next, Steps, Failures, LoginStep, RegenStep, CallStep

\* A bearer comes with the COMMIT of its call and is only ever revoked.
LEMMA RegenRows ==
    ASSUME TypeOK, LockOK, RegenOK, [Next]_vars
    PROVE  RegenOK'
<1> USE DEF TypeOK, LockOK, RegenOK
<1>1. ASSUME NEW l \in Logins, LoginSelects(l) PROVE RegenOK'
  BY <1>1 DEF LoginSelects, Goes
<1>2. ASSUME NEW l \in Logins, LoginInserts(l) PROVE RegenOK'
  BY <1>2 DEF LoginInserts, Answer, Goes
<1>3. ASSUME NEW l \in Logins, LoginCommits(l) PROVE RegenOK'
  BY <1>3 DEF LoginCommits, Establishes, Answer, Goes
<1>4. ASSUME NEW l \in Logins, LoginCommitsUnseen(l) PROVE RegenOK'
  BY <1>4 DEF LoginCommitsUnseen, Establishes, Answer, Goes
<1>5. ASSUME NEW l \in Logins, LoginReturns(l) PROVE RegenOK'
  BY <1>5 DEF LoginReturns, Answer, Goes
<1>6. ASSUME NEW l \in Logins, LoginFails(l) PROVE RegenOK'
  BY <1>6 DEF LoginFails, Answer, Goes
<1>7. ASSUME NEW g \in Regens, RegenSends(g) PROVE RegenOK'
  BY <1>7 DEF RegenSends, Goes
<1>8. ASSUME NEW g \in Regens, RegenRevokes(g) PROVE RegenOK'
  BY <1>8 DEF RegenRevokes, Goes
<1>9. ASSUME NEW g \in Regens, RegenInserts(g) PROVE RegenOK'
  BY <1>9 DEF RegenInserts, Goes
<1>10. ASSUME NEW g \in Regens, RegenCommits(g) PROVE RegenOK'
  BY <1>10 DEF RegenCommits, Goes
<1>11. ASSUME NEW g \in Regens, RegenAnswers(g) PROVE RegenOK'
  BY <1>11 DEF RegenAnswers, Answer, Goes
<1>12. ASSUME NEW g \in Regens, RegenRaises(g) PROVE RegenOK'
  BY <1>12 DEF RegenRaises, Answer, Goes
<1>13. ASSUME NEW g \in Regens, RegenFails(g) PROVE RegenOK'
  BY <1>13 DEF RegenFails, Answer, Goes
<1>14. ASSUME NEW q \in Calls, CallRefused(q) PROVE RegenOK'
  BY <1>14 DEF CallRefused, Answer, Goes
<1>15. ASSUME NEW q \in Calls, CallFinds(q) PROVE RegenOK'
  BY <1>15 DEF CallFinds, Goes
<1>16. ASSUME NEW q \in Calls, CallBumps(q) PROVE RegenOK'
  BY <1>16 DEF CallBumps, Goes
<1>17. ASSUME NEW q \in Calls, CallCommits(q) PROVE RegenOK'
  BY <1>17 DEF CallCommits, Answer, Goes
<1>18. ASSUME NEW q \in Calls, CallBumpFails(q) PROVE RegenOK'
  BY <1>18 DEF CallBumpFails, Answer, Goes
<1>19. ASSUME NEW q \in Calls, CallCancelled(q) PROVE RegenOK'
  BY <1>19 DEF CallCancelled, Answer, Goes
<1>20. CASE UNCHANGED vars
  BY <1>20
<1>21. QED
  BY <1>1, <1>2, <1>3, <1>4, <1>5, <1>6, <1>7, <1>8, <1>9, <1>10, <1>11,
     <1>12, <1>13, <1>14, <1>15, <1>16, <1>17, <1>18, <1>19, <1>20
     DEF Next, Steps, Failures, LoginStep, RegenStep, CallStep

\* What a call presents stays what its SELECT found.
LEMMA CallRows ==
    ASSUME TypeOK, CallOK, [Next]_vars
    PROVE  CallOK'
<1> USE DEF TypeOK, CallOK
<1>1. ASSUME NEW l \in Logins, LoginSelects(l) PROVE CallOK'
  BY <1>1 DEF LoginSelects, Goes
<1>2. ASSUME NEW l \in Logins, LoginInserts(l) PROVE CallOK'
  BY <1>2 DEF LoginInserts, Answer, Goes
<1>3. ASSUME NEW l \in Logins, LoginCommits(l) PROVE CallOK'
  BY <1>3 DEF LoginCommits, Establishes, Answer, Goes
<1>4. ASSUME NEW l \in Logins, LoginCommitsUnseen(l) PROVE CallOK'
  BY <1>4 DEF LoginCommitsUnseen, Establishes, Answer, Goes
<1>5. ASSUME NEW l \in Logins, LoginReturns(l) PROVE CallOK'
  BY <1>5 DEF LoginReturns, Answer, Goes
<1>6. ASSUME NEW l \in Logins, LoginFails(l) PROVE CallOK'
  BY <1>6 DEF LoginFails, Answer, Goes
<1>7. ASSUME NEW g \in Regens, RegenSends(g) PROVE CallOK'
  BY <1>7 DEF RegenSends, Goes
<1>8. ASSUME NEW g \in Regens, RegenRevokes(g) PROVE CallOK'
  BY <1>8 DEF RegenRevokes, Goes
<1>9. ASSUME NEW g \in Regens, RegenInserts(g) PROVE CallOK'
  BY <1>9 DEF RegenInserts, Goes
<1>10. ASSUME NEW g \in Regens, RegenCommits(g) PROVE CallOK'
  BY <1>10 DEF RegenCommits, Goes
<1>11. ASSUME NEW g \in Regens, RegenAnswers(g) PROVE CallOK'
  BY <1>11 DEF RegenAnswers, Answer, Goes
<1>12. ASSUME NEW g \in Regens, RegenRaises(g) PROVE CallOK'
  BY <1>12 DEF RegenRaises, Answer, Goes
<1>13. ASSUME NEW g \in Regens, RegenFails(g) PROVE CallOK'
  BY <1>13 DEF RegenFails, Answer, Goes
<1>14. ASSUME NEW q \in Calls, CallRefused(q) PROVE CallOK'
  BY <1>14 DEF CallRefused, Answer, Goes, Issued
<1>15. ASSUME NEW q \in Calls, CallFinds(q) PROVE CallOK'
  BY <1>15 DEF CallFinds, Goes, Issued
<1>16. ASSUME NEW q \in Calls, CallBumps(q) PROVE CallOK'
  BY <1>16 DEF CallBumps, Goes
<1>17. ASSUME NEW q \in Calls, CallCommits(q) PROVE CallOK'
  BY <1>17 DEF CallCommits, Answer, Goes
<1>18. ASSUME NEW q \in Calls, CallBumpFails(q) PROVE CallOK'
  BY <1>18 DEF CallBumpFails, Answer, Goes
<1>19. ASSUME NEW q \in Calls, CallCancelled(q) PROVE CallOK'
  BY <1>19 DEF CallCancelled, Answer, Goes
<1>20. CASE UNCHANGED vars
  BY <1>20
<1>21. QED
  BY <1>1, <1>2, <1>3, <1>4, <1>5, <1>6, <1>7, <1>8, <1>9, <1>10, <1>11,
     <1>12, <1>13, <1>14, <1>15, <1>16, <1>17, <1>18, <1>19, <1>20
     DEF Next, Steps, Failures, LoginStep, RegenStep, CallStep

\* A lock is taken only on a row nobody else has; a commit frees its own.
LEMMA LockStep ==
    ASSUME TypeOK, RegenOK, LockOK, [Next]_vars
    PROVE  LockOK'
<1> USE DEF TypeOK, RegenOK, LockOK
<1>1. ASSUME NEW l \in Logins, LoginSelects(l) PROVE LockOK'
  BY <1>1 DEF LoginSelects, Goes
<1>2. ASSUME NEW l \in Logins, LoginInserts(l) PROVE LockOK'
  <2>1. \A h \in Handlers : locked'[h] \subseteq locked[h]
    BY <1>2 DEF LoginInserts, Answer
  <2>2. UNCHANGED <<bearer, sees>>
    BY <1>2 DEF LoginInserts
  <2>3. QED
    BY <2>1, <2>2
<1>3. ASSUME NEW l \in Logins, LoginCommits(l) PROVE LockOK'
  BY <1>3 DEF LoginCommits, Establishes, Answer, Goes
<1>4. ASSUME NEW l \in Logins, LoginCommitsUnseen(l) PROVE LockOK'
  BY <1>4 DEF LoginCommitsUnseen, Establishes, Answer, Goes
<1>5. ASSUME NEW l \in Logins, LoginReturns(l) PROVE LockOK'
  BY <1>5 DEF LoginReturns, Answer, Goes
<1>6. ASSUME NEW l \in Logins, LoginFails(l) PROVE LockOK'
  BY <1>6 DEF LoginFails, Answer, Goes
<1>7. ASSUME NEW g \in Regens, RegenSends(g) PROVE LockOK'
  BY <1>7 DEF RegenSends, Goes, Active
<1>8. ASSUME NEW g \in Regens, RegenRevokes(g) PROVE LockOK'
  BY <1>8 DEF RegenRevokes, Goes, LockedByOther
<1>9. ASSUME NEW g \in Regens, RegenInserts(g) PROVE LockOK'
  BY <1>9 DEF RegenInserts, Goes, IndexBusy, Active, LockedByOther
<1>10. ASSUME NEW g \in Regens, RegenCommits(g) PROVE LockOK'
  BY <1>10 DEF RegenCommits, Goes
<1>11. ASSUME NEW g \in Regens, RegenAnswers(g) PROVE LockOK'
  BY <1>11 DEF RegenAnswers, Answer, Goes
<1>12. ASSUME NEW g \in Regens, RegenRaises(g) PROVE LockOK'
  BY <1>12 DEF RegenRaises, Answer, Goes
<1>13. ASSUME NEW g \in Regens, RegenFails(g) PROVE LockOK'
  BY <1>13 DEF RegenFails, Answer, Goes
<1>14. ASSUME NEW q \in Calls, CallRefused(q) PROVE LockOK'
  <2>1. \A h \in Handlers : locked'[h] \subseteq locked[h]
    BY <1>14 DEF CallRefused, Answer
  <2>2. UNCHANGED <<bearer, sees>>
    BY <1>14 DEF CallRefused
  <2>3. QED
    BY <2>1, <2>2
<1>15. ASSUME NEW q \in Calls, CallFinds(q) PROVE LockOK'
  BY <1>15 DEF CallFinds, Goes
<1>16. ASSUME NEW q \in Calls, CallBumps(q) PROVE LockOK'
  BY <1>16 DEF CallBumps, Goes, LockedByOther
<1>17. ASSUME NEW q \in Calls, CallCommits(q) PROVE LockOK'
  BY <1>17 DEF CallCommits, Answer, Goes
<1>18. ASSUME NEW q \in Calls, CallBumpFails(q) PROVE LockOK'
  BY <1>18 DEF CallBumpFails, Answer, Goes
<1>19. ASSUME NEW q \in Calls, CallCancelled(q) PROVE LockOK'
  BY <1>19 DEF CallCancelled, Answer, Goes
<1>20. CASE UNCHANGED vars
  BY <1>20
<1>21. QED
  BY <1>1, <1>2, <1>3, <1>4, <1>5, <1>6, <1>7, <1>8, <1>9, <1>10, <1>11,
     <1>12, <1>13, <1>14, <1>15, <1>16, <1>17, <1>18, <1>19, <1>20
     DEF Next, Steps, Failures, LoginStep, RegenStep, CallStep

\* The unique index lets in one insertion at a time, over a row of its own.
LEMMA InsertStep ==
    ASSUME TypeOK, PhaseOK, LockOK, InsertOK, [Next]_vars
    PROVE  InsertOK'
<1> USE DEF TypeOK, PhaseOK, LoginOK, RegenOK, LockOK, InsertOK
<1>1. ASSUME NEW l \in Logins, LoginSelects(l) PROVE InsertOK'
  BY <1>1 DEF LoginSelects, Goes
<1>2. ASSUME NEW l \in Logins, LoginInserts(l) PROVE InsertOK'
  BY <1>2 DEF LoginInserts, Answer, Goes
<1>3. ASSUME NEW l \in Logins, LoginCommits(l) PROVE InsertOK'
  BY <1>3 DEF LoginCommits, Establishes, Answer, Goes
<1>4. ASSUME NEW l \in Logins, LoginCommitsUnseen(l) PROVE InsertOK'
  BY <1>4 DEF LoginCommitsUnseen, Establishes, Answer, Goes
<1>5. ASSUME NEW l \in Logins, LoginReturns(l) PROVE InsertOK'
  BY <1>5 DEF LoginReturns, Answer, Goes
<1>6. ASSUME NEW l \in Logins, LoginFails(l) PROVE InsertOK'
  BY <1>6 DEF LoginFails, Answer, Goes
<1>7. ASSUME NEW g \in Regens, RegenSends(g) PROVE InsertOK'
  BY <1>7 DEF RegenSends, Goes, Active
<1>8. ASSUME NEW g \in Regens, RegenRevokes(g) PROVE InsertOK'
  BY <1>8 DEF RegenRevokes, Goes, LockedByOther
<1>9. ASSUME NEW g \in Regens, RegenInserts(g) PROVE InsertOK'
  BY <1>9 DEF RegenInserts, Goes, IndexBusy, Active, LockedByOther
<1>10. ASSUME NEW g \in Regens, RegenCommits(g) PROVE InsertOK'
  BY <1>10 DEF RegenCommits, Goes
<1>11. ASSUME NEW g \in Regens, RegenAnswers(g) PROVE InsertOK'
  BY <1>11 DEF RegenAnswers, Answer, Goes
<1>12. ASSUME NEW g \in Regens, RegenRaises(g) PROVE InsertOK'
  BY <1>12 DEF RegenRaises, Answer, Goes
<1>13. ASSUME NEW g \in Regens, RegenFails(g) PROVE InsertOK'
  BY <1>13 DEF RegenFails, Answer, Goes
<1>14. ASSUME NEW q \in Calls, CallRefused(q) PROVE InsertOK'
  <2>1. UNCHANGED bearer /\ \A g \in Regens : at'[g] = at[g] /\ locked'[g] = locked[g]
    BY <1>14 DEF CallRefused, Answer, Goes
  <2> QED
    BY <2>1
<1>15. ASSUME NEW q \in Calls, CallFinds(q) PROVE InsertOK'
  BY <1>15 DEF CallFinds, Goes
<1>16. ASSUME NEW q \in Calls, CallBumps(q) PROVE InsertOK'
  BY <1>16 DEF CallBumps, Goes, LockedByOther
<1>17. ASSUME NEW q \in Calls, CallCommits(q) PROVE InsertOK'
  BY <1>17 DEF CallCommits, Answer, Goes
<1>18. ASSUME NEW q \in Calls, CallBumpFails(q) PROVE InsertOK'
  BY <1>18 DEF CallBumpFails, Answer, Goes
<1>19. ASSUME NEW q \in Calls, CallCancelled(q) PROVE InsertOK'
  BY <1>19 DEF CallCancelled, Answer, Goes
<1>20. CASE UNCHANGED vars
  BY <1>20
<1>21. QED
  BY <1>1, <1>2, <1>3, <1>4, <1>5, <1>6, <1>7, <1>8, <1>9, <1>10, <1>11,
     <1>12, <1>13, <1>14, <1>15, <1>16, <1>17, <1>18, <1>19, <1>20
     DEF Next, Steps, Failures, LoginStep, RegenStep, CallStep

\* A commit replaces the active bearer of its account.
LEMMA BearerStep ==
    ASSUME TypeOK, Rows, UserHasItsBearer, [Next]_vars
    PROVE  UserHasItsBearer'
<1> USE DEF TypeOK, Rows, PhaseOK, LoginOK, RegenOK, LockOK, InsertOK, UserHasItsBearer, Active
<1>1. ASSUME NEW l \in Logins, LoginSelects(l) PROVE UserHasItsBearer'
  BY <1>1 DEF LoginSelects, Goes
<1>2. ASSUME NEW l \in Logins, LoginInserts(l) PROVE UserHasItsBearer'
  BY <1>2 DEF LoginInserts, Answer, Goes
<1>3. ASSUME NEW l \in Logins, LoginCommits(l) PROVE UserHasItsBearer'
  BY <1>3 DEF LoginCommits, Establishes, Answer, Goes
<1>4. ASSUME NEW l \in Logins, LoginCommitsUnseen(l) PROVE UserHasItsBearer'
  BY <1>4 DEF LoginCommitsUnseen, Establishes, Answer, Goes
<1>5. ASSUME NEW l \in Logins, LoginReturns(l) PROVE UserHasItsBearer'
  BY <1>5 DEF LoginReturns, Answer, Goes
<1>6. ASSUME NEW l \in Logins, LoginFails(l) PROVE UserHasItsBearer'
  BY <1>6 DEF LoginFails, Answer, Goes
<1>7. ASSUME NEW g \in Regens, RegenSends(g) PROVE UserHasItsBearer'
  BY <1>7 DEF RegenSends, Goes
<1>8. ASSUME NEW g \in Regens, RegenRevokes(g) PROVE UserHasItsBearer'
  BY <1>8 DEF RegenRevokes, Goes, LockedByOther
<1>9. ASSUME NEW g \in Regens, RegenInserts(g) PROVE UserHasItsBearer'
  BY <1>9 DEF RegenInserts, Goes, LockedByOther
<1>10. ASSUME NEW g \in Regens, RegenCommits(g) PROVE UserHasItsBearer'
  BY <1>10 DEF RegenCommits, Goes
<1>11. ASSUME NEW g \in Regens, RegenAnswers(g) PROVE UserHasItsBearer'
  BY <1>11 DEF RegenAnswers, Answer, Goes
<1>12. ASSUME NEW g \in Regens, RegenRaises(g) PROVE UserHasItsBearer'
  BY <1>12 DEF RegenRaises, Answer, Goes
<1>13. ASSUME NEW g \in Regens, RegenFails(g) PROVE UserHasItsBearer'
  BY <1>13 DEF RegenFails, Answer, Goes
<1>14. ASSUME NEW q \in Calls, CallRefused(q) PROVE UserHasItsBearer'
  BY <1>14 DEF CallRefused, Answer, Goes
<1>15. ASSUME NEW q \in Calls, CallFinds(q) PROVE UserHasItsBearer'
  BY <1>15 DEF CallFinds, Goes
<1>16. ASSUME NEW q \in Calls, CallBumps(q) PROVE UserHasItsBearer'
  BY <1>16 DEF CallBumps, Goes, LockedByOther
<1>17. ASSUME NEW q \in Calls, CallCommits(q) PROVE UserHasItsBearer'
  BY <1>17 DEF CallCommits, Answer, Goes
<1>18. ASSUME NEW q \in Calls, CallBumpFails(q) PROVE UserHasItsBearer'
  BY <1>18 DEF CallBumpFails, Answer, Goes
<1>19. ASSUME NEW q \in Calls, CallCancelled(q) PROVE UserHasItsBearer'
  BY <1>19 DEF CallCancelled, Answer, Goes
<1>20. CASE UNCHANGED vars
  BY <1>20
<1>21. QED
  BY <1>1, <1>2, <1>3, <1>4, <1>5, <1>6, <1>7, <1>8, <1>9, <1>10, <1>11,
     <1>12, <1>13, <1>14, <1>15, <1>16, <1>17, <1>18, <1>19, <1>20
     DEF Next, Steps, Failures, LoginStep, RegenStep, CallStep

-----------------------------------------------------------------------------
LEMMA InitIInv == Init => IInv
  BY DEF Init, IInv, TypeOK, Rows, PhaseOK, LoginOK, RegenOK, CallOK, LockOK, InsertOK,
          UserHasItsBearer, Active

\* The invariant the theorems below follow from.
THEOREM Invariance == Spec => []IInv
<1>1. IInv /\ [Next]_vars => IInv'
  BY TypeStep, LoginRows, RegenRows, CallRows, LockStep, InsertStep, BearerStep
     DEF IInv, Rows, PhaseOK
<1>2. QED
  BY InitIInv, <1>1, PTL DEF Spec

(***************************************************************************)
(* Every variable stays in its type.                                       *)
(***************************************************************************)
THEOREM TypeCorrect == Spec => []TypeOK
  BY Invariance, PTL DEF IInv

(***************************************************************************)
(* A user of the service has one active bearer at every moment, through    *)
(* overlapping, failing and cancelled logins and regenerations.            *)
(***************************************************************************)
THEOREM OneBearer == Spec => []UserHasItsBearer
  BY Invariance, PTL DEF IInv

(***************************************************************************)
(* What a login or a regeneration answered with success is in the database.*)
(***************************************************************************)
THEOREM AnswerIsTrue == Spec => []AnswerMatchesDatabase
<1>1. IInv => AnswerMatchesDatabase
  BY DEF IInv, Rows, PhaseOK, LoginOK, RegenOK, AnswerMatchesDatabase
<1>2. QED
  BY Invariance, <1>1, PTL

(***************************************************************************)
(* A bearer stops working only when its successor is committed, for good.  *)
(***************************************************************************)
THEOREM RevocationIsSuccession == Spec => RevokedBySuccessor
<1> DEFINE Succession ==
      \A m \in Makers :
          /\ bearer[m] = "active" /\ bearer'[m] # "active" =>
                /\ bearer'[m] = "revoked"
                /\ \E n \in Makers : /\ Account[n] = Account[m]
                                     /\ bearer[n] = "none" /\ bearer'[n] = "active"
          /\ bearer[m] = "revoked" => bearer'[m] = "revoked"
<1>1. ASSUME IInv, [Next]_vars PROVE Succession
  <2>1. ASSUME NEW l \in Logins, LoginCommits(l) \/ LoginCommitsUnseen(l) PROVE Succession
    BY <1>1, <2>1
       DEF IInv, TypeOK, Rows, PhaseOK, RegenOK, LoginCommits, LoginCommitsUnseen, Establishes
  <2>2. ASSUME NEW g \in Regens, RegenCommits(g) PROVE Succession
    <3>1. bearer[g] = "none"
      BY <1>1, <2>2 DEF IInv, TypeOK, Rows, PhaseOK, RegenOK, RegenCommits
    <3>2. \A m \in locked[g] : Account[m] = Account[g] /\ bearer[m] = "active"
      BY <1>1 DEF IInv, Rows, LockOK
    <3>3. QED
      BY <1>1, <2>2, <3>1, <3>2 DEF IInv, TypeOK, RegenCommits
  <2>3. CASE UNCHANGED bearer
    BY <2>3
  <2>4. QED
    BY <1>1, <2>1, <2>2, <2>3
       DEF Next, Steps, Failures, LoginStep, RegenStep, CallStep,
           LoginSelects, LoginInserts, LoginReturns, LoginFails,
           RegenSends, RegenRevokes, RegenInserts, RegenAnswers, RegenRaises, RegenFails,
           CallRefused, CallFinds, CallBumps, CallCommits, CallBumpFails, CallCancelled
<1>2. QED
  BY Invariance, <1>1, PTL DEF Spec, RevokedBySuccessor

-----------------------------------------------------------------------------
(* Circles of waits *)

\* The statement h has sent waits for the transaction of k to end: at the unique
\* index of users, at a row lock, or at the index of the active bearers.
WaitsFor(h, k) ==
    \/ /\ h \in Logins /\ at[h] = "creating"
       /\ k \in Logins /\ at[k] = "created" /\ Account[k] = Account[h]
    \/ /\ h \in Regens /\ at[h] = "updating"
       /\ k # h /\ locked[k] \cap sees[h] # {}
    \/ /\ h \in Regens /\ at[h] = "inserting" /\ k # h
       /\ \/ k \in Regens /\ at[k] = "inserted" /\ Account[k] = Account[h]
          \/ locked[k] \cap Active(Account[h]) # {}
    \/ /\ h \in Calls /\ at[h] = "found"
       /\ k # h /\ presents[h] \in locked[k]

NobodyWaitsForAWaiter ==
    \A h, k \in Handlers : WaitsFor(h, k) => \A j \in Handlers : ~WaitsFor(k, j)

\* Rows are locked from a regeneration's UPDATE to the end of its transaction, and
\* while a bump is not committed.
HoldOK ==
    \A h \in Handlers : locked[h] # {} =>
        \/ h \in Regens /\ at[h] \in {"inserting", "inserted", "conflicted"}
        \/ h \in Calls /\ at[h] = "bumped"

LEMMA HoldStep ==
    ASSUME TypeOK, HoldOK, [Next]_vars
    PROVE  HoldOK'
<1> USE DEF TypeOK, HoldOK
<1>1. ASSUME NEW l \in Logins, LoginSelects(l) PROVE HoldOK'
  BY <1>1 DEF LoginSelects, Goes
<1>2. ASSUME NEW l \in Logins, LoginInserts(l) PROVE HoldOK'
  BY <1>2 DEF LoginInserts, Answer, Goes
<1>3. ASSUME NEW l \in Logins, LoginCommits(l) PROVE HoldOK'
  BY <1>3 DEF LoginCommits, Establishes, Answer, Goes
<1>4. ASSUME NEW l \in Logins, LoginCommitsUnseen(l) PROVE HoldOK'
  BY <1>4 DEF LoginCommitsUnseen, Establishes, Answer, Goes
<1>5. ASSUME NEW l \in Logins, LoginReturns(l) PROVE HoldOK'
  BY <1>5 DEF LoginReturns, Answer, Goes
<1>6. ASSUME NEW l \in Logins, LoginFails(l) PROVE HoldOK'
  BY <1>6 DEF LoginFails, Answer, Goes
<1>7. ASSUME NEW g \in Regens, RegenSends(g) PROVE HoldOK'
  BY <1>7 DEF RegenSends, Goes, Active
<1>8. ASSUME NEW g \in Regens, RegenRevokes(g) PROVE HoldOK'
  BY <1>8 DEF RegenRevokes, Goes, LockedByOther
<1>9. ASSUME NEW g \in Regens, RegenInserts(g) PROVE HoldOK'
  BY <1>9 DEF RegenInserts, Goes, IndexBusy, Active, LockedByOther
<1>10. ASSUME NEW g \in Regens, RegenCommits(g) PROVE HoldOK'
  BY <1>10 DEF RegenCommits, Goes
<1>11. ASSUME NEW g \in Regens, RegenAnswers(g) PROVE HoldOK'
  BY <1>11 DEF RegenAnswers, Answer, Goes
<1>12. ASSUME NEW g \in Regens, RegenRaises(g) PROVE HoldOK'
  BY <1>12 DEF RegenRaises, Answer, Goes
<1>13. ASSUME NEW g \in Regens, RegenFails(g) PROVE HoldOK'
  BY <1>13 DEF RegenFails, Answer, Goes
<1>14. ASSUME NEW q \in Calls, CallRefused(q) PROVE HoldOK'
  BY <1>14 DEF CallRefused, Answer, Goes, Issued
<1>15. ASSUME NEW q \in Calls, CallFinds(q) PROVE HoldOK'
  BY <1>15 DEF CallFinds, Goes, Issued
<1>16. ASSUME NEW q \in Calls, CallBumps(q) PROVE HoldOK'
  BY <1>16 DEF CallBumps, Goes, LockedByOther
<1>17. ASSUME NEW q \in Calls, CallCommits(q) PROVE HoldOK'
  BY <1>17 DEF CallCommits, Answer, Goes
<1>18. ASSUME NEW q \in Calls, CallBumpFails(q) PROVE HoldOK'
  BY <1>18 DEF CallBumpFails, Answer, Goes
<1>19. ASSUME NEW q \in Calls, CallCancelled(q) PROVE HoldOK'
  BY <1>19 DEF CallCancelled, Answer, Goes
<1>20. CASE UNCHANGED vars
  BY <1>20
<1>21. QED
  BY <1>1, <1>2, <1>3, <1>4, <1>5, <1>6, <1>7, <1>8, <1>9, <1>10, <1>11,
     <1>12, <1>13, <1>14, <1>15, <1>16, <1>17, <1>18, <1>19, <1>20
     DEF Next, Steps, Failures, LoginStep, RegenStep, CallStep

\* WaitsFor is all there is to wait for: who waits for nobody finds the guard of
\* its statement true.
LEMMA WhoWaitsForNobodyIsServed ==
    ASSUME NEW h \in Handlers, \A k \in Handlers : ~WaitsFor(h, k)
    PROVE  /\ h \in Logins /\ at[h] = "creating" =>
                \A k \in Logins : Account[k] = Account[h] => at[k] # "created"
           /\ h \in Regens /\ at[h] = "updating" => \A m \in sees[h] : ~LockedByOther(h, m)
           /\ h \in Regens /\ at[h] = "inserting" => ~IndexBusy(h)
           /\ h \in Calls /\ at[h] = "found" => ~LockedByOther(h, presents[h])
BY DEF WaitsFor, LockedByOther, IndexBusy

\* A regeneration that has the row of its account's bearer does not wait at the
\* index: whoever could keep it there has that row too.
LEMMA OwnerOfTheRowGoesOn ==
    ASSUME IInv, NEW g \in Regens, at[g] = "inserting", locked[g] # {},
           NEW j \in Handlers
    PROVE  ~WaitsFor(g, j)
<1> SUFFICES ASSUME WaitsFor(g, j) PROVE FALSE
  OBVIOUS
<1>1. PICK m \in locked[g] : bearer[m] = "active" /\ Account[m] = Account[g] /\ m \in Makers
  BY DEF IInv, TypeOK, Rows, LockOK
<1>2. g \in Handlers /\ g \notin Calls /\ g \notin Logins
  OBVIOUS
<1>3. /\ j # g
      /\ \/ j \in Regens /\ at[j] = "inserted" /\ Account[j] = Account[g]
         \/ locked[j] \cap Active(Account[g]) # {}
  BY <1>2 DEF WaitsFor
<1>4. locked[g] \cap locked[j] = {}
  BY <1>2, <1>3 DEF IInv, Rows, LockOK
<1>5. CASE j \in Regens /\ at[j] = "inserted" /\ Account[j] = Account[g]
  <2>1. m \in locked[j]
    BY <1>1, <1>5 DEF IInv, Rows, InsertOK
  <2> QED BY <1>1, <1>4, <2>1
<1>6. CASE locked[j] \cap Active(Account[g]) # {}
  <2>1. PICK n \in locked[j] : n \in Makers /\ bearer[n] = "active" /\ Account[n] = Account[g]
    BY <1>6 DEF Active
  <2>2. n = m
    BY <1>1, <2>1 DEF IInv, UserHasItsBearer
  <2> QED BY <1>1, <1>4, <2>1, <2>2
<1> QED BY <1>3, <1>5, <1>6

(***************************************************************************)
(* Whoever is waited for in the database does not wait itself: neither     *)
(* regenerations with each other nor a bump of last_used_at with one close *)
(* a circle, whatever their number (regenerate_mcp_token,                  *)
(* _bump_last_used_at, whose docstring fears a deadlock of the two).       *)
(***************************************************************************)
THEOREM NoCircle == Spec => []NobodyWaitsForAWaiter
<1>1. Init => HoldOK
  BY DEF Init, HoldOK
<1>2. IInv /\ HoldOK /\ [Next]_vars => HoldOK'
  BY HoldStep DEF IInv
<1>3. IInv /\ HoldOK => NobodyWaitsForAWaiter
  <2> SUFFICES ASSUME IInv, HoldOK, NEW h \in Handlers, NEW k \in Handlers, WaitsFor(h, k),
                      NEW j \in Handlers
               PROVE  ~WaitsFor(k, j)
    BY DEF NobodyWaitsForAWaiter
  <2>1. \/ k \in Logins /\ at[k] = "created"
        \/ k \in Regens /\ at[k] = "inserted"
        \/ locked[k] # {}
    BY DEF WaitsFor
  <2>2. CASE k \in Logins /\ at[k] = "created"
    BY <2>2 DEF WaitsFor
  <2>3. CASE k \in Regens /\ at[k] \in {"inserted", "conflicted"}
    BY <2>3 DEF WaitsFor
  <2>4. CASE k \in Calls /\ at[k] = "bumped"
    BY <2>4 DEF WaitsFor
  <2>5. CASE k \in Regens /\ at[k] = "inserting" /\ locked[k] # {}
    BY <2>5, OwnerOfTheRowGoesOn
  <2> QED BY <2>1, <2>2, <2>3, <2>4, <2>5 DEF HoldOK
<1> QED BY <1>1, <1>2, <1>3, Invariance, PTL DEF Spec
-----------------------------------------------------------------------------
(* The refinement.  These four are the mapping of Register.                  *)

Current == [a \in Accounts |-> Active(a)]
Retired == {m \in Makers : bearer[m] = "revoked"}
Shown == {g \in Regens : result[g] = "ok"}
            \cup {l \in Logins : result[l] = "ok" /\ bearer[l] # "none"}
Verdicts == [q \in Calls |-> Verdict(q)]

\* A call is answered when its transaction is over.
AnswerOK == \A h \in Handlers : at[h] # "done" => result[h] = "none"

LEMMA AnswerStep ==
    ASSUME TypeOK, AnswerOK, [Next]_vars
    PROVE  AnswerOK'
<1> USE DEF TypeOK, AnswerOK, Answer, Goes
<1>1. ASSUME NEW l \in Logins, LoginStep(l) \/ LoginFails(l) \/ LoginCommitsUnseen(l)
      PROVE  AnswerOK'
  BY <1>1 DEF LoginStep, LoginSelects, LoginInserts, LoginCommits, LoginCommitsUnseen,
     Establishes, LoginReturns, LoginFails
<1>2. ASSUME NEW g \in Regens, RegenSends(g) \/ RegenStep(g) \/ RegenFails(g)
      PROVE  AnswerOK'
  BY <1>2 DEF RegenStep, RegenSends, RegenRevokes, RegenInserts, RegenCommits, RegenAnswers,
     RegenRaises, RegenFails
<1>3. ASSUME NEW q \in Calls, \/ CallRefused(q) \/ CallFinds(q) \/ CallStep(q)
                              \/ CallBumpFails(q) \/ CallCancelled(q)
      PROVE  AnswerOK'
  BY <1>3 DEF CallStep, CallRefused, CallFinds, CallBumps, CallCommits, CallBumpFails,
     CallCancelled
<1>4. CASE UNCHANGED vars
  BY <1>4
<1> QED
  BY <1>1, <1>2, <1>3, <1>4 DEF Next, Steps, Failures

\* The register's valid tokens are the active bearers.
LEMMA ValidIs ==
    ASSUME TypeOK
    PROVE  Register!Valid = {m \in Makers : bearer[m] = "active"}
BY DEF TypeOK, Register!Valid, Active

\* What a statement leaves alone, the register does not see.
LEMMA Unseen ==
    ASSUME UNCHANGED <<Current, Retired, Shown, presents, Verdicts>>
    PROVE  UNCHANGED Register!registerVars
BY DEF Register!registerVars, Current, Retired, Shown, Verdicts

\* A commit that puts m, for an account, in the place of what the account had.
LEMMA CommitRefines ==
    ASSUME NEW a \in Accounts, NEW m \in Makers, TypeOK,
           bearer[m] = "none",
           Current' = [Current EXCEPT ![a] = {m}],
           Retired' = Retired \cup Active(a),
           Shown' \in {Shown, Shown \cup {m}},
           UNCHANGED <<presents, Verdicts>>
    PROVE  Register!Replace(a, m)
<1>1. m \notin Register!Valid \cup Retired
  BY ValidIs DEF Retired
<1> QED
  BY <1>1 DEF Register!Replace, Current, Retired, Shown, Verdicts

\* The commit of a first login: its account had no bearer.
LEMMA FirstRefines ==
    ASSUME IInv, AnswerOK, NEW l \in Logins, NEW o \in {"ok", "error"}, Establishes(l, o)
    PROVE  Register!Replace(Account[l], l)
<1> USE DEF Establishes
<1>1. TypeOK /\ bearer[l] = "none" /\ result[l] = "none" /\ Account[l] \in Accounts
  BY DEF IInv, TypeOK, Rows, PhaseOK, RegenOK, AnswerOK
<1>2. Active(Account[l]) = {}
  BY DEF IInv, Rows, PhaseOK, LoginOK, UserHasItsBearer, Active
<1>3. bearer' = [bearer EXCEPT ![l] = "active"] /\ result' = [result EXCEPT ![l] = o]
  BY DEF Answer
<1>4. Current' = [Current EXCEPT ![Account[l]] = {l}]
  <2>1. ASSUME NEW a \in Accounts
        PROVE  Active(a)' = IF a = Account[l] THEN {l} ELSE Active(a)
    BY <1>1, <1>2, <1>3 DEF TypeOK, Active
  <2> QED
    BY <2>1, <1>1 DEF Current
<1>5. Retired' = Retired \cup Active(Account[l])
  BY <1>1, <1>2, <1>3 DEF TypeOK, Retired
<1>6. Shown' \in {Shown, Shown \cup {l}}
  <2>1. CASE o = "ok"
    <3>1. Shown' = Shown \cup {l}
      BY <1>1, <1>3, <2>1 DEF TypeOK, Shown
    <3> QED BY <3>1
  <2>2. CASE o = "error"
    <3>1. Shown' = Shown
      BY <1>1, <1>3, <2>2 DEF TypeOK, Shown
    <3> QED BY <3>1
  <2> QED
    BY <2>1, <2>2
<1>7. UNCHANGED <<presents, Verdicts>>
  BY <1>1 DEF TypeOK, Verdicts, Verdict, Answer, Goes
<1> QED
  BY <1>1, <1>4, <1>5, <1>6, <1>7, CommitRefines

\* The commit of a regeneration: its locks are on all the account had.
LEMMA RegenRefines ==
    ASSUME IInv, AnswerOK, NEW g \in Regens, RegenCommits(g)
    PROVE  Register!Replace(Account[g], g)
<1> USE DEF RegenCommits
<1>1. TypeOK /\ bearer[g] = "none" /\ result[g] = "none" /\ Account[g] \in Accounts
  BY DEF IInv, TypeOK, Rows, PhaseOK, RegenOK, AnswerOK
<1>2. locked[g] = Active(Account[g]) /\ g \notin locked[g]
  BY <1>1 DEF IInv, Rows, LockOK, InsertOK, Active, TypeOK
<1>3. Current' = [Current EXCEPT ![Account[g]] = {g}]
  <2>1. ASSUME NEW a \in Accounts
        PROVE  Active(a)' = IF a = Account[g] THEN {g} ELSE Active(a)
    BY <1>1, <1>2 DEF TypeOK, Active
  <2> QED
    BY <2>1, <1>1 DEF Current
<1>4. Retired' = Retired \cup Active(Account[g])
  BY <1>1, <1>2 DEF TypeOK, Retired, Active
<1>5. Shown' = Shown
  BY <1>1, <1>2 DEF TypeOK, Shown, Active
<1>6. UNCHANGED <<presents, Verdicts>>
  BY <1>1 DEF TypeOK, Verdicts, Verdict, Goes
<1> QED
  BY <1>1, <1>3, <1>4, <1>5, <1>6, CommitRefines

\* The other statements of a login leave no trace in the register.
LEMMA LoginRefines ==
    ASSUME IInv, AnswerOK, NEW l \in Logins,
           LoginSelects(l) \/ LoginInserts(l) \/ LoginReturns(l) \/ LoginFails(l)
    PROVE  UNCHANGED Register!registerVars
<1> USE DEF LoginSelects, LoginInserts, LoginReturns, LoginFails, Answer, Goes
<1>1. TypeOK /\ bearer[l] = "none" /\ result[l] = "none"
  BY DEF IInv, TypeOK, Rows, PhaseOK, RegenOK, AnswerOK
<1>2. UNCHANGED <<bearer, presents>>
  OBVIOUS
<1>3. Current' = Current /\ Retired' = Retired
  BY <1>2 DEF Current, Retired, Active
<1>4. Shown' = Shown
  BY <1>1 DEF TypeOK, Shown
<1>5. Verdicts' = Verdicts
  BY <1>1 DEF TypeOK, Verdicts, Verdict
<1> QED
  BY <1>2, <1>3, <1>4, <1>5, Unseen

\* Nor do a regeneration's, but for the answer that shows its bearer.
LEMMA RegenShows ==
    ASSUME IInv, AnswerOK, NEW g \in Regens,
           \/ RegenSends(g) \/ RegenRevokes(g) \/ RegenInserts(g) \/ RegenAnswers(g)
           \/ RegenRaises(g) \/ RegenFails(g)
    PROVE  Register!Show(g) \/ UNCHANGED Register!registerVars
<1> USE DEF RegenSends, RegenRevokes, RegenInserts, RegenAnswers, RegenRaises, RegenFails,
            Answer, Goes
<1>1. TypeOK /\ result[g] = "none"
  BY DEF IInv, TypeOK, AnswerOK
<1>2. UNCHANGED <<bearer, presents>>
  OBVIOUS
<1>3. Current' = Current /\ Retired' = Retired
  BY <1>2 DEF Current, Retired, Active
<1>4. Verdicts' = Verdicts
  BY <1>1 DEF TypeOK, Verdicts, Verdict
<1>5. CASE RegenAnswers(g)
  <2>1. g \in Register!Valid \cup Retired
    BY <1>1, <1>5, ValidIs DEF IInv, Rows, PhaseOK, RegenOK, TypeOK, Retired
  <2>2. Shown' = Shown \cup {g}
    BY <1>1, <1>5 DEF TypeOK, Shown
  <2>3. Register!Show(g)
    BY <1>2, <1>3, <1>4, <2>1, <2>2 DEF Register!Show, Current, Retired, Shown, Verdicts
  <2> QED
    BY <2>3
<1>6. CASE ~RegenAnswers(g)
  <2>1. Shown' = Shown
    BY <1>1, <1>6 DEF TypeOK, Shown
  <2> QED
    BY <1>2, <1>3, <1>4, <2>1, Unseen
<1> QED
  BY <1>5, <1>6

\* A request is judged by its SELECT; what follows does not change the verdict.
LEMMA JudgeRefines ==
    ASSUME IInv, AnswerOK, NEW q \in Calls, CallRefused(q) \/ CallFinds(q)
    PROVE  Register!Judge(q)
<1> USE DEF CallRefused, CallFinds, Answer, Goes
<1>1. TypeOK /\ result[q] = "none" /\ at[q] = "idle"
  BY DEF IInv, TypeOK, AnswerOK
<1>2. UNCHANGED bearer
  OBVIOUS
<1>3. Current' = Current /\ Retired' = Retired
  BY <1>2 DEF Current, Retired, Active
<1>4. Shown' = Shown
  BY <1>1 DEF TypeOK, Shown
<1>5. Verdicts[q] = "none"
  BY <1>1 DEF Verdicts, Verdict
<1>6. Issued \subseteq Shown
  BY DEF Issued, Shown
<1>7. PICK m \in Issued \cup {Unknown} :
          /\ presents' = [presents EXCEPT ![q] = m]
          /\ Verdicts' = [Verdicts EXCEPT ![q] = IF m \in Register!Valid THEN "admitted"
                                                 ELSE IF m \in Retired THEN "revoked"
                                                 ELSE "invalid"]
  <2>1. PICK m \in Issued \cup {Unknown} :
          /\ presents' = [presents EXCEPT ![q] = m]
          /\ \/ m = Unknown /\ Answer(q, "MCP_BEARER_INVALID")
             \/ m \in Issued /\ bearer[m] = "revoked" /\ Answer(q, "MCP_BEARER_REVOKED")
             \/ m \in Issued /\ bearer[m] = "active" /\ Goes(q, "found") /\ UNCHANGED result
    OBVIOUS
  <2>2. Verdict(q)' = IF m \in Register!Valid THEN "admitted"
                      ELSE IF m \in Retired THEN "revoked" ELSE "invalid"
    BY <1>1, <2>1, ValidIs DEF TypeOK, Verdict, Retired, Issued
  <2>3. \A p \in Calls \ {q} : Verdict(p)' = Verdict(p)
    BY <1>1, <2>1 DEF TypeOK, Verdict
  <2>4. Verdicts' = [Verdicts EXCEPT ![q] = Verdict(q)']
    BY <2>3 DEF Verdicts
  <2> QED
    BY <2>1, <2>2, <2>4
<1> QED
  BY <1>3, <1>4, <1>5, <1>6, <1>7 DEF Register!Judge, Current, Retired, Shown, Verdicts

LEMMA CallRefines ==
    ASSUME IInv, AnswerOK, NEW q \in Calls,
           CallStep(q) \/ CallBumpFails(q) \/ CallCancelled(q)
    PROVE  UNCHANGED Register!registerVars
<1> USE DEF CallStep, CallBumps, CallCommits, CallBumpFails, CallCancelled, Answer, Goes
<1>1. TypeOK /\ result[q] = "none"
  BY DEF IInv, TypeOK, AnswerOK
<1>2. UNCHANGED <<bearer, presents>>
  OBVIOUS
<1>3. Current' = Current /\ Retired' = Retired
  BY <1>2 DEF Current, Retired, Active
<1>4. Shown' = Shown
  BY <1>1 DEF TypeOK, Shown
<1>5. Verdicts' = Verdicts
  BY <1>1 DEF TypeOK, Verdicts, Verdict
<1> QED
  BY <1>2, <1>3, <1>4, <1>5, Unseen

LEMMA AnswersInOrder == Spec => []AnswerOK
<1>1. Init => AnswerOK
  BY DEF Init, AnswerOK
<1>2. TypeOK /\ AnswerOK /\ [Next]_vars => AnswerOK'
  BY AnswerStep
<1> QED
  BY <1>1, <1>2, TypeCorrect, PTL DEF Spec

(***************************************************************************)
(* The transactions of logins, regenerations and MCP requests implement    *)
(* BearerRegister for any number of each: every statement is a step of the *)
(* register or is not seen in it.                                          *)
(***************************************************************************)
THEOREM Refinement == Spec => ImplementsRegister
<1>1. Init => Register!RegisterInit
  BY DEF Init, Register!RegisterInit, Active, Verdict
<1>2. ASSUME IInv, AnswerOK, [Next]_vars
      PROVE  [Register!RegisterNext]_(Register!registerVars)
  <2>0. \A m \in Makers : Account[m] \in Accounts
    OBVIOUS
  <2>1. ASSUME NEW l \in Logins, LoginStep(l) \/ LoginFails(l) \/ LoginCommitsUnseen(l)
        PROVE  [Register!RegisterNext]_(Register!registerVars)
    BY <1>2, <2>0, <2>1, LoginRefines, FirstRefines
       DEF LoginStep, LoginCommits, LoginCommitsUnseen, Register!RegisterNext
  <2>2. ASSUME NEW g \in Regens, RegenSends(g) \/ RegenStep(g) \/ RegenFails(g)
        PROVE  [Register!RegisterNext]_(Register!registerVars)
    BY <1>2, <2>0, <2>2, RegenShows, RegenRefines DEF RegenStep, Register!RegisterNext
  <2>3. ASSUME NEW q \in Calls, \/ CallRefused(q) \/ CallFinds(q) \/ CallStep(q)
                                \/ CallBumpFails(q) \/ CallCancelled(q)
        PROVE  [Register!RegisterNext]_(Register!registerVars)
    BY <1>2, <2>3, JudgeRefines, CallRefines DEF Register!RegisterNext
  <2>4. CASE UNCHANGED vars
    <3>1. UNCHANGED <<Current, Retired, Shown, presents, Verdicts>>
      BY <2>4 DEF Current, Retired, Shown, Verdicts, Verdict, Active
    <3> QED
      BY <3>1, Unseen
  <2> QED
    BY <1>2, <2>1, <2>2, <2>3, <2>4 DEF Next, Steps, Failures
<1> QED
  BY <1>1, <1>2, Invariance, AnswersInOrder, PTL DEF Spec, ImplementsRegister, Register!RegisterSpec

(***************************************************************************)
(* A token that a login or a regeneration has shown to somebody is never   *)
(* refused as unknown: MCP_BEARER_INVALID is for tokens nobody was given.  *)
(***************************************************************************)
THEOREM ShownIsKnown == Spec => []Register!ShownAreKnown
<1> DEFINE Judged == \A q \in Calls : result[q] = "MCP_BEARER_INVALID" => presents[q] = Unknown
<1>1. Init => Judged
  BY DEF Init
<1>2. ASSUME TypeOK, AnswerOK, Judged, [Next]_vars PROVE Judged'
  <2> USE <1>2 DEF TypeOK, AnswerOK, Answer, Goes
  <2>1. ASSUME NEW l \in Logins, LoginStep(l) \/ LoginFails(l) \/ LoginCommitsUnseen(l)
        PROVE  Judged'
    BY <2>1 DEF LoginStep, LoginSelects, LoginInserts, LoginCommits, LoginCommitsUnseen,
       Establishes, LoginReturns, LoginFails
  <2>2. ASSUME NEW g \in Regens, RegenSends(g) \/ RegenStep(g) \/ RegenFails(g)
        PROVE  Judged'
    BY <2>2 DEF RegenStep, RegenSends, RegenRevokes, RegenInserts, RegenCommits, RegenAnswers,
       RegenRaises, RegenFails
  <2>3. ASSUME NEW q \in Calls, \/ CallRefused(q) \/ CallFinds(q) \/ CallStep(q)
                                \/ CallBumpFails(q) \/ CallCancelled(q)
        PROVE  Judged'
    BY <2>3 DEF CallStep, CallRefused, CallFinds, CallBumps, CallCommits, CallBumpFails,
       CallCancelled
  <2>4. CASE UNCHANGED vars
    BY <2>4
  <2> QED
    BY <2>1, <2>2, <2>3, <2>4 DEF Next, Steps, Failures
<1>3. ASSUME IInv, Judged PROVE Register!ShownAreKnown
  <2>1. Shown \subseteq Register!Valid \cup Retired
    BY <1>3, ValidIs DEF IInv, TypeOK, Rows, PhaseOK, RegenOK, Shown, Retired
  <2>2. \A q \in Calls : Verdicts[q] = "invalid" => presents[q] = Unknown
    BY <1>3 DEF Verdicts, Verdict
  <2> QED
    BY <2>1, <2>2 DEF Register!ShownAreKnown, Shown, Retired, Verdicts
<1> QED
  BY <1>1, <1>2, <1>3, Invariance, TypeCorrect, AnswersInOrder, PTL DEF Spec

=============================================================================
