----------------------------- MODULE ImagesProofs -----------------------------
(***************************************************************************)
(* Proofs about Images for any sets of transcriptions, sessions and calls. *)
(* The inductive invariant IInv relates a POST to its file and its session *)
(* (PostOK) and the transaction of a delete to the rows it is about to     *)
(* change (DeleteOK, DeletedTogether).                                     *)
(***************************************************************************)
EXTENDS Images, TLAPS

USE DEF vars, rows, Handlers, Parent

\* A row follows its file, an answer its row; a session that was asked for by a
\* POST is past "asked", and past "requested" when it has an image.
PostOK ==
    \A p \in Posts :
        /\ at[p] # "done" => image[p] = "none" /\ result[p] = "none"
        /\ at[p] \in {"stored", "inserted", "marked"} => blob[p] = "whole"
        /\ image[p] # "none" => blob[p] = "whole"
        /\ result[p] = "ok" => image[p] # "none"
        /\ result[p] \in {"refused", "error"} => image[p] = "none"
        /\ at[p] \notin {"idle", "done"} => session[SessionOf[p]] \notin {"none", "asked"}
        /\ image[p] # "none" => session[SessionOf[p]] \in {"uploaded", "expired"}

\* One open transaction per transcription, and only while it is not deleted;
\* what its cascade has not seen is a latecomer.
InTransaction(d) == at[d] \in {"cascading", "committing"}

DeleteOK ==
    /\ \A d \in Deletes :
          /\ InTransaction(d) => Target[d] \notin deleted
          /\ at[d] # "done" => result[d] = "none"
          /\ result[d] = "ok" => Target[d] \in deleted
          /\ at[d] = "committing" =>
                /\ \A p \in sees[d] : image[p] = "visible" /\ Parent(p) = Target[d]
                /\ \A p \in Posts : image[p] = "visible" /\ Parent(p) = Target[d]
                                     => p \in sees[d] \/ p \in latecomers
    /\ \A d, e \in Deletes :
          InTransaction(d) /\ InTransaction(e) /\ Target[d] = Target[e] => d = e

IInv == TypeOK /\ PostOK /\ DeleteOK /\ DeletedTogether /\ DeletedOnce

-----------------------------------------------------------------------------
\* Every action keeps every variable in its type.
LEMMA TypeStep ==
    ASSUME TypeOK, [Next]_vars
    PROVE  TypeOK'
<1> USE ImagesAssumption DEF TypeOK
<1>1. ASSUME NEW s \in Sessions, RequestFinds(s) PROVE TypeOK'
  BY <1>1 DEF RequestFinds
<1>2. ASSUME NEW s \in Sessions, RequestCommits(s) PROVE TypeOK'
  BY <1>2 DEF RequestCommits
<1>3. ASSUME NEW s \in Sessions, RequestFails(s) PROVE TypeOK'
  BY <1>3 DEF RequestFails
<1>4. ASSUME NEW s \in Sessions, Elapse(s) PROVE TypeOK'
  BY <1>4 DEF Elapse
<1>5. ASSUME NEW s \in Sessions, SweepExpires(s) PROVE TypeOK'
  BY <1>5 DEF SweepExpires, SessionLocked
<1>6. ASSUME NEW p \in Posts, PostSelects(p) PROVE TypeOK'
  BY <1>6 DEF PostSelects, Goes, Answer
<1>7. ASSUME NEW p \in Posts, PostRefused(p) PROVE TypeOK'
  BY <1>7 DEF PostRefused, Goes, Answer
<1>8. ASSUME NEW p \in Posts, PostStores(p) PROVE TypeOK'
  BY <1>8 DEF PostStores, Goes, Answer
<1>9. ASSUME NEW p \in Posts, PostStoreFails(p) PROVE TypeOK'
  BY <1>9 DEF PostStoreFails, Goes, Answer
<1>10. ASSUME NEW p \in Posts, PostInserts(p) PROVE TypeOK'
  BY <1>10 DEF PostInserts, Goes, Answer
<1>11. ASSUME NEW p \in Posts, PostMarks(p) PROVE TypeOK'
  BY <1>11 DEF PostMarks, SessionLocked, Goes, Answer
<1>12. ASSUME NEW p \in Posts, PostCommits(p) PROVE TypeOK'
  BY <1>12 DEF PostCommits, Inserted, Goes, Answer
<1>13. ASSUME NEW p \in Posts, PostFails(p) PROVE TypeOK'
  BY <1>13 DEF PostFails, Goes, Answer
<1>14. ASSUME NEW d \in Deletes, DeleteSends(d) PROVE TypeOK'
  BY <1>14 DEF DeleteSends, Goes, Answer
<1>15. ASSUME NEW d \in Deletes, DeleteMarks(d) PROVE TypeOK'
  BY <1>15 DEF DeleteMarks, TranscriptionLocked, Goes, Answer
<1>16. ASSUME NEW d \in Deletes, DeleteFindsNone(d) PROVE TypeOK'
  BY <1>16 DEF DeleteFindsNone, Goes, Answer
<1>17. ASSUME NEW d \in Deletes, DeleteCascades(d) PROVE TypeOK'
  BY <1>17 DEF DeleteCascades, Goes, Answer
<1>18. ASSUME NEW d \in Deletes, DeleteCommits(d) PROVE TypeOK'
  BY <1>18 DEF DeleteCommits, Goes, Answer
<1>19. ASSUME NEW d \in Deletes, DeleteFails(d) PROVE TypeOK'
  BY <1>19 DEF DeleteFails, Goes, Answer
<1>20. CASE UNCHANGED vars
  BY <1>20
<1> QED
  BY <1>1, <1>2, <1>3, <1>4, <1>5, <1>6, <1>7, <1>8, <1>9, <1>10, <1>11, <1>12,
     <1>13, <1>14, <1>15, <1>16, <1>17, <1>18, <1>19, <1>20
     DEF Next, PostStep, DeleteStep

\* Every action keeps a POST, its file and its session together.
LEMMA PostStepOK ==
    ASSUME TypeOK, PostOK, DeleteOK, [Next]_vars
    PROVE  PostOK'
<1> USE ImagesAssumption DEF TypeOK, PostOK, DeleteOK, InTransaction
<1>1. ASSUME NEW s \in Sessions, RequestFinds(s) PROVE PostOK'
  BY <1>1 DEF RequestFinds
<1>2. ASSUME NEW s \in Sessions, RequestCommits(s) PROVE PostOK'
  BY <1>2 DEF RequestCommits
<1>3. ASSUME NEW s \in Sessions, RequestFails(s) PROVE PostOK'
  BY <1>3 DEF RequestFails
<1>4. ASSUME NEW s \in Sessions, Elapse(s) PROVE PostOK'
  BY <1>4 DEF Elapse
<1>5. ASSUME NEW s \in Sessions, SweepExpires(s) PROVE PostOK'
  BY <1>5 DEF SweepExpires, SessionLocked
<1>6. ASSUME NEW p \in Posts, PostSelects(p) PROVE PostOK'
  BY <1>6 DEF PostSelects, Goes, Answer
<1>7. ASSUME NEW p \in Posts, PostRefused(p) PROVE PostOK'
  BY <1>7 DEF PostRefused, Goes, Answer
<1>8. ASSUME NEW p \in Posts, PostStores(p) PROVE PostOK'
  BY <1>8 DEF PostStores, Goes, Answer
<1>9. ASSUME NEW p \in Posts, PostStoreFails(p) PROVE PostOK'
  BY <1>9 DEF PostStoreFails, Goes, Answer
<1>10. ASSUME NEW p \in Posts, PostInserts(p) PROVE PostOK'
  BY <1>10 DEF PostInserts, Goes, Answer
<1>11. ASSUME NEW p \in Posts, PostMarks(p) PROVE PostOK'
  BY <1>11 DEF PostMarks, SessionLocked, Goes, Answer
<1>12. ASSUME NEW p \in Posts, PostCommits(p) PROVE PostOK'
  BY <1>12 DEF PostCommits, Inserted, Goes, Answer
<1>13. ASSUME NEW p \in Posts, PostFails(p) PROVE PostOK'
  BY <1>13 DEF PostFails, Goes, Answer
<1>14. ASSUME NEW d \in Deletes, DeleteSends(d) PROVE PostOK'
  BY <1>14 DEF DeleteSends, Goes, Answer
<1>15. ASSUME NEW d \in Deletes, DeleteMarks(d) PROVE PostOK'
  BY <1>15 DEF DeleteMarks, TranscriptionLocked, Goes, Answer
<1>16. ASSUME NEW d \in Deletes, DeleteFindsNone(d) PROVE PostOK'
  BY <1>16 DEF DeleteFindsNone, Goes, Answer
<1>17. ASSUME NEW d \in Deletes, DeleteCascades(d) PROVE PostOK'
  BY <1>17 DEF DeleteCascades, Goes, Answer
<1>18. ASSUME NEW d \in Deletes, DeleteCommits(d) PROVE PostOK'
  BY <1>18 DEF DeleteCommits, Goes, Answer
<1>19. ASSUME NEW d \in Deletes, DeleteFails(d) PROVE PostOK'
  BY <1>19 DEF DeleteFails, Goes, Answer
<1>20. CASE UNCHANGED vars
  BY <1>20
<1> QED
  BY <1>1, <1>2, <1>3, <1>4, <1>5, <1>6, <1>7, <1>8, <1>9, <1>10, <1>11, <1>12,
     <1>13, <1>14, <1>15, <1>16, <1>17, <1>18, <1>19, <1>20
     DEF Next, PostStep, DeleteStep

\* Every action keeps an open delete and its rows together.
LEMMA DeleteStepOK ==
    ASSUME TypeOK, PostOK, DeleteOK, [Next]_vars
    PROVE  DeleteOK'
<1> USE ImagesAssumption DEF TypeOK, PostOK, DeleteOK, InTransaction
<1>1. ASSUME NEW s \in Sessions, RequestFinds(s) PROVE DeleteOK'
  BY <1>1 DEF RequestFinds
<1>2. ASSUME NEW s \in Sessions, RequestCommits(s) PROVE DeleteOK'
  BY <1>2 DEF RequestCommits
<1>3. ASSUME NEW s \in Sessions, RequestFails(s) PROVE DeleteOK'
  BY <1>3 DEF RequestFails
<1>4. ASSUME NEW s \in Sessions, Elapse(s) PROVE DeleteOK'
  BY <1>4 DEF Elapse
<1>5. ASSUME NEW s \in Sessions, SweepExpires(s) PROVE DeleteOK'
  BY <1>5 DEF SweepExpires, SessionLocked
<1>6. ASSUME NEW p \in Posts, PostSelects(p) PROVE DeleteOK'
  BY <1>6 DEF PostSelects, Goes, Answer
<1>7. ASSUME NEW p \in Posts, PostRefused(p) PROVE DeleteOK'
  BY <1>7 DEF PostRefused, Goes, Answer
<1>8. ASSUME NEW p \in Posts, PostStores(p) PROVE DeleteOK'
  BY <1>8 DEF PostStores, Goes, Answer
<1>9. ASSUME NEW p \in Posts, PostStoreFails(p) PROVE DeleteOK'
  BY <1>9 DEF PostStoreFails, Goes, Answer
<1>10. ASSUME NEW p \in Posts, PostInserts(p) PROVE DeleteOK'
  BY <1>10 DEF PostInserts, Goes, Answer
<1>11. ASSUME NEW p \in Posts, PostMarks(p) PROVE DeleteOK'
  BY <1>11 DEF PostMarks, SessionLocked, Goes, Answer
<1>12. ASSUME NEW p \in Posts, PostCommits(p) PROVE DeleteOK'
  BY <1>12 DEF PostCommits, Inserted, Goes, Answer
<1>13. ASSUME NEW p \in Posts, PostFails(p) PROVE DeleteOK'
  BY <1>13 DEF PostFails, Goes, Answer
<1>14. ASSUME NEW d \in Deletes, DeleteSends(d) PROVE DeleteOK'
  BY <1>14 DEF DeleteSends, Goes, Answer
<1>15. ASSUME NEW d \in Deletes, DeleteMarks(d) PROVE DeleteOK'
  BY <1>15 DEF DeleteMarks, TranscriptionLocked, Goes, Answer
<1>16. ASSUME NEW d \in Deletes, DeleteFindsNone(d) PROVE DeleteOK'
  BY <1>16 DEF DeleteFindsNone, Goes, Answer
<1>17. ASSUME NEW d \in Deletes, DeleteCascades(d) PROVE DeleteOK'
  BY <1>17 DEF DeleteCascades, Goes, Answer
<1>18. ASSUME NEW d \in Deletes, DeleteCommits(d) PROVE DeleteOK'
  BY <1>18 DEF DeleteCommits, Goes, Answer
<1>19. ASSUME NEW d \in Deletes, DeleteFails(d) PROVE DeleteOK'
  BY <1>19 DEF DeleteFails, Goes, Answer
<1>20. CASE UNCHANGED vars
  BY <1>20
<1> QED
  BY <1>1, <1>2, <1>3, <1>4, <1>5, <1>6, <1>7, <1>8, <1>9, <1>10, <1>11, <1>12,
     <1>13, <1>14, <1>15, <1>16, <1>17, <1>18, <1>19, <1>20
     DEF Next, PostStep, DeleteStep

\* A transcription and its images go in one step.
LEMMA TogetherStep ==
    ASSUME TypeOK, PostOK, DeleteOK, DeletedTogether, [Next]_vars
    PROVE  DeletedTogether'
<1> USE ImagesAssumption DEF TypeOK, PostOK, DeleteOK, InTransaction, DeletedTogether
<1>1. ASSUME NEW s \in Sessions, RequestFinds(s) PROVE DeletedTogether'
  BY <1>1 DEF RequestFinds
<1>2. ASSUME NEW s \in Sessions, RequestCommits(s) PROVE DeletedTogether'
  BY <1>2 DEF RequestCommits
<1>3. ASSUME NEW s \in Sessions, RequestFails(s) PROVE DeletedTogether'
  BY <1>3 DEF RequestFails
<1>4. ASSUME NEW s \in Sessions, Elapse(s) PROVE DeletedTogether'
  BY <1>4 DEF Elapse
<1>5. ASSUME NEW s \in Sessions, SweepExpires(s) PROVE DeletedTogether'
  BY <1>5 DEF SweepExpires, SessionLocked
<1>6. ASSUME NEW p \in Posts, PostSelects(p) PROVE DeletedTogether'
  BY <1>6 DEF PostSelects, Goes, Answer
<1>7. ASSUME NEW p \in Posts, PostRefused(p) PROVE DeletedTogether'
  BY <1>7 DEF PostRefused, Goes, Answer
<1>8. ASSUME NEW p \in Posts, PostStores(p) PROVE DeletedTogether'
  BY <1>8 DEF PostStores, Goes, Answer
<1>9. ASSUME NEW p \in Posts, PostStoreFails(p) PROVE DeletedTogether'
  BY <1>9 DEF PostStoreFails, Goes, Answer
<1>10. ASSUME NEW p \in Posts, PostInserts(p) PROVE DeletedTogether'
  BY <1>10 DEF PostInserts, Goes, Answer
<1>11. ASSUME NEW p \in Posts, PostMarks(p) PROVE DeletedTogether'
  BY <1>11 DEF PostMarks, SessionLocked, Goes, Answer
<1>12. ASSUME NEW p \in Posts, PostCommits(p) PROVE DeletedTogether'
  BY <1>12 DEF PostCommits, Inserted, Goes, Answer
<1>13. ASSUME NEW p \in Posts, PostFails(p) PROVE DeletedTogether'
  BY <1>13 DEF PostFails, Goes, Answer
<1>14. ASSUME NEW d \in Deletes, DeleteSends(d) PROVE DeletedTogether'
  BY <1>14 DEF DeleteSends, Goes, Answer
<1>15. ASSUME NEW d \in Deletes, DeleteMarks(d) PROVE DeletedTogether'
  BY <1>15 DEF DeleteMarks, TranscriptionLocked, Goes, Answer
<1>16. ASSUME NEW d \in Deletes, DeleteFindsNone(d) PROVE DeletedTogether'
  BY <1>16 DEF DeleteFindsNone, Goes, Answer
<1>17. ASSUME NEW d \in Deletes, DeleteCascades(d) PROVE DeletedTogether'
  BY <1>17 DEF DeleteCascades, Goes, Answer
<1>18. ASSUME NEW d \in Deletes, DeleteCommits(d) PROVE DeletedTogether'
  BY <1>18 DEF DeleteCommits, Goes, Answer
<1>19. ASSUME NEW d \in Deletes, DeleteFails(d) PROVE DeletedTogether'
  BY <1>19 DEF DeleteFails, Goes, Answer
<1>20. CASE UNCHANGED vars
  BY <1>20
<1> QED
  BY <1>1, <1>2, <1>3, <1>4, <1>5, <1>6, <1>7, <1>8, <1>9, <1>10, <1>11, <1>12,
     <1>13, <1>14, <1>15, <1>16, <1>17, <1>18, <1>19, <1>20
     DEF Next, PostStep, DeleteStep

\* A delete that commits finds no other that has answered.
LEMMA OnceStep ==
    ASSUME TypeOK, DeleteOK, DeletedOnce, [Next]_vars
    PROVE  DeletedOnce'
<1> USE ImagesAssumption DEF TypeOK, DeleteOK, InTransaction, DeletedOnce
<1>1. ASSUME NEW s \in Sessions, RequestFinds(s) PROVE DeletedOnce'
  BY <1>1 DEF RequestFinds
<1>2. ASSUME NEW s \in Sessions, RequestCommits(s) PROVE DeletedOnce'
  BY <1>2 DEF RequestCommits
<1>3. ASSUME NEW s \in Sessions, RequestFails(s) PROVE DeletedOnce'
  BY <1>3 DEF RequestFails
<1>4. ASSUME NEW s \in Sessions, Elapse(s) PROVE DeletedOnce'
  BY <1>4 DEF Elapse
<1>5. ASSUME NEW s \in Sessions, SweepExpires(s) PROVE DeletedOnce'
  BY <1>5 DEF SweepExpires, SessionLocked
<1>6. ASSUME NEW p \in Posts, PostSelects(p) PROVE DeletedOnce'
  BY <1>6 DEF PostSelects, Goes, Answer
<1>7. ASSUME NEW p \in Posts, PostRefused(p) PROVE DeletedOnce'
  BY <1>7 DEF PostRefused, Goes, Answer
<1>8. ASSUME NEW p \in Posts, PostStores(p) PROVE DeletedOnce'
  BY <1>8 DEF PostStores, Goes, Answer
<1>9. ASSUME NEW p \in Posts, PostStoreFails(p) PROVE DeletedOnce'
  BY <1>9 DEF PostStoreFails, Goes, Answer
<1>10. ASSUME NEW p \in Posts, PostInserts(p) PROVE DeletedOnce'
  BY <1>10 DEF PostInserts, Goes, Answer
<1>11. ASSUME NEW p \in Posts, PostMarks(p) PROVE DeletedOnce'
  BY <1>11 DEF PostMarks, SessionLocked, Goes, Answer
<1>12. ASSUME NEW p \in Posts, PostCommits(p) PROVE DeletedOnce'
  BY <1>12 DEF PostCommits, Inserted, Goes, Answer
<1>13. ASSUME NEW p \in Posts, PostFails(p) PROVE DeletedOnce'
  BY <1>13 DEF PostFails, Goes, Answer
<1>14. ASSUME NEW d \in Deletes, DeleteSends(d) PROVE DeletedOnce'
  BY <1>14 DEF DeleteSends, Goes, Answer
<1>15. ASSUME NEW d \in Deletes, DeleteMarks(d) PROVE DeletedOnce'
  BY <1>15 DEF DeleteMarks, TranscriptionLocked, Goes, Answer
<1>16. ASSUME NEW d \in Deletes, DeleteFindsNone(d) PROVE DeletedOnce'
  BY <1>16 DEF DeleteFindsNone, Goes, Answer
<1>17. ASSUME NEW d \in Deletes, DeleteCascades(d) PROVE DeletedOnce'
  BY <1>17 DEF DeleteCascades, Goes, Answer
<1>18. ASSUME NEW d \in Deletes, DeleteCommits(d) PROVE DeletedOnce'
  BY <1>18 DEF DeleteCommits, Goes, Answer
<1>19. ASSUME NEW d \in Deletes, DeleteFails(d) PROVE DeletedOnce'
  BY <1>19 DEF DeleteFails, Goes, Answer
<1>20. CASE UNCHANGED vars
  BY <1>20
<1> QED
  BY <1>1, <1>2, <1>3, <1>4, <1>5, <1>6, <1>7, <1>8, <1>9, <1>10, <1>11, <1>12,
     <1>13, <1>14, <1>15, <1>16, <1>17, <1>18, <1>19, <1>20
     DEF Next, PostStep, DeleteStep

-----------------------------------------------------------------------------
LEMMA InitInv == Init => IInv
BY ImagesAssumption DEF Init, IInv, TypeOK, PostOK, DeleteOK, InTransaction,
   DeletedTogether, DeletedOnce

LEMMA InvStep == IInv /\ [Next]_vars => IInv'
BY TypeStep, PostStepOK, DeleteStepOK, TogetherStep, OnceStep DEF IInv

LEMMA Invariance == Spec => []IInv
BY InitInv, InvStep, PTL DEF Spec

\* Every variable of Images keeps its type.
THEOREM TypeCorrect == Spec => []TypeOK
<1>1. IInv => TypeOK
  BY DEF IInv
<1> QED
  BY <1>1, Invariance, PTL

\* Every row of images has the whole file it names.
THEOREM BytesSafe == Spec => []ImageHasItsBytes
<1>1. IInv => ImageHasItsBytes
  BY DEF IInv, PostOK, ImageHasItsBytes
<1> QED
  BY <1>1, Invariance, PTL

\* What upload_image and delete_transcription answer is what the database says.
THEOREM AnswerIsTrue == Spec => []AnswerMatchesDatabase
<1>1. IInv => AnswerMatchesDatabase
  BY DEF IInv, PostOK, DeleteOK, AnswerMatchesDatabase
<1> QED
  BY <1>1, Invariance, PTL

\* Of any deletes of a transcription one answers with success.
THEOREM OneDeleteSucceeds == Spec => []DeletedOnce
<1>1. IInv => DeletedOnce
  BY DEF IInv
<1> QED
  BY <1>1, Invariance, PTL

\* deleted_at of a transcription and of the images its cascade found are one step.
THEOREM DeletesAreWhole == Spec => []DeletedTogether
<1>1. IInv => DeletedTogether
  BY DEF IInv
<1> QED
  BY <1>1, Invariance, PTL

\* A POST that comes after an image of its session was stored is refused.
THEOREM SpentIsRefused == Spec => SpentSessionIsRefused
<1> DEFINE Refused ==
      \A p, q \in Posts :
          /\ SessionOf[p] = SessionOf[q] /\ image[q] # "none"
          => ~(at[p] = "idle" /\ at'[p] = "found")
<1>1. ASSUME IInv, [Next]_vars PROVE Refused
  <2> USE ImagesAssumption DEF IInv, TypeOK, PostOK
  <2>1. ASSUME NEW p \in Posts, PostSelects(p) PROVE Refused
    BY <1>1, <2>1 DEF PostSelects, Goes
  <2>2. ASSUME NEW s \in Sessions,
               RequestFinds(s) \/ RequestCommits(s) \/ RequestFails(s)
               \/ Elapse(s) \/ SweepExpires(s)
        PROVE Refused
    BY <1>1, <2>2 DEF RequestFinds, RequestCommits, RequestFails, Elapse, SweepExpires
  <2>3. ASSUME NEW p \in Posts,
               PostRefused(p) \/ PostStores(p) \/ PostStoreFails(p) \/ PostInserts(p)
        PROVE Refused
    BY <1>1, <2>3 DEF PostRefused, PostStores, PostStoreFails, PostInserts, Goes, Answer
  <2>4. ASSUME NEW p \in Posts, PostMarks(p) \/ PostCommits(p) \/ PostFails(p)
        PROVE Refused
    BY <1>1, <2>4 DEF PostMarks, PostCommits, PostFails, Inserted, Goes, Answer
  <2>5. ASSUME NEW d \in Deletes, DeleteStep(d) PROVE Refused
    <3>1. \A p \in Posts : p # d
      OBVIOUS
    <3>2. CASE DeleteSends(d) \/ DeleteMarks(d) \/ DeleteCascades(d)
      BY <1>1, <3>1, <3>2 DEF DeleteSends, DeleteMarks, DeleteCascades, Goes
    <3>3. CASE DeleteFindsNone(d) \/ DeleteCommits(d) \/ DeleteFails(d)
      BY <1>1, <3>1, <3>3 DEF DeleteFindsNone, DeleteCommits, DeleteFails, Goes, Answer
    <3> QED
      BY <2>5, <3>2, <3>3 DEF DeleteStep
  <2>6. CASE UNCHANGED vars
    BY <2>6
  <2> QED
    BY <1>1, <2>1, <2>2, <2>3, <2>4, <2>5, <2>6 DEF Next, PostStep
<1> QED
  BY Invariance, <1>1, PTL DEF Spec, SpentSessionIsRefused

=============================================================================
