-------------------------------- MODULE Images --------------------------------
(***************************************************************************)
(* Images of a transcription: request_upload_url(kind="image") binds a     *)
(* session to a transcription, POST /api/upload-image stores the bytes and *)
(* inserts the row, delete_transcription soft-deletes the transcription    *)
(* and its images.  get_transcription and image_resource read the rows and *)
(* the files and change nothing: what they find is stated of those.        *)
(*                                                                         *)
(* An action is one statement, one COMMIT or one access to the disk.  What *)
(* a transaction has written is committed with its last step; until then   *)
(* PostgreSQL (READ COMMITTED) lets nobody update the same row.  A crash   *)
(* is every handler's failure at once.                                     *)
(***************************************************************************)
EXTENDS Naturals

CONSTANTS Transcriptions,
          Sessions,     \* image upload sessions
          Posts,        \* calls of upload_image; an image is named after its POST
          Deletes,      \* calls of delete_transcription
          Binds,        \* the transcription a session is for
          SessionOf,    \* the session a POST presents
          Target        \* the transcription a delete is about

ASSUME ImagesAssumption ==
    /\ Binds \in [Sessions -> Transcriptions]
    /\ SessionOf \in [Posts -> Sessions]
    /\ Target \in [Deletes -> Transcriptions]
    /\ Posts \cap Deletes = {}

Handlers == Posts \cup Deletes

Parent(p) == Binds[SessionOf[p]]

VARIABLES
    deleted,    \* transcriptions whose deleted_at is set
    session,    \* status of a session ("asked": its transcription was looked up)
    past,       \* sessions past expires_at and grace
    image,      \* rows of images
    blob,       \* their files
    at,         \* where a call is
    sees,       \* the images a delete's cascade has updated
    result,     \* the answer
    latecomers  \* images that were committed behind a cascade

vars == <<deleted, session, past, image, blob, at, sees, result, latecomers>>

rows == <<deleted, session, image, latecomers>>

TypeOK ==
    /\ deleted \in SUBSET Transcriptions
    /\ session \in [Sessions -> {"none", "asked", "requested", "uploaded", "expired"}]
    /\ past \in SUBSET Sessions
    /\ image \in [Posts -> {"none", "visible", "deleted"}]
    /\ blob \in [Posts -> {"none", "partial", "whole"}]
    /\ at \in [Handlers -> {"idle", "done", "found", "stored", "inserted", "marked",
                            "updating", "cascading", "committing"}]
    /\ sees \in [Deletes -> SUBSET Posts]
    /\ result \in [Handlers -> {"none", "ok", "refused", "error", "cancelled"}]
    /\ latecomers \in SUBSET Posts

Init ==
    /\ deleted = {}
    /\ session = [s \in Sessions |-> "none"]
    /\ past = {}
    /\ image = [p \in Posts |-> "none"]
    /\ blob = [p \in Posts |-> "none"]
    /\ at = [h \in Handlers |-> "idle"]
    /\ sees = [d \in Deletes |-> {}]
    /\ result = [h \in Handlers |-> "none"]
    /\ latecomers = {}

Goes(h, from, to) ==
    /\ at[h] = from
    /\ at' = [at EXCEPT ![h] = to]

Answer(h, from, r) ==
    /\ Goes(h, from, "done")
    /\ result' = [result EXCEPT ![h] = r]

\* PostgreSQL: a transaction has updated the row and is not committed.
SessionLocked(s) == \E p \in Posts : SessionOf[p] = s /\ at[p] = "marked"

TranscriptionLocked(t) ==
    \E d \in Deletes : Target[d] = t /\ at[d] \in {"cascading", "committing"}

-----------------------------------------------------------------------------
(* request_upload_url *)

RequestFinds(s) ==
    /\ session[s] = "none" /\ Binds[s] \notin deleted
    /\ session' = [session EXCEPT ![s] = "asked"]
    /\ UNCHANGED <<deleted, past, image, blob, at, sees, result, latecomers>>

RequestCommits(s) ==
    /\ session[s] = "asked"
    /\ session' = [session EXCEPT ![s] = "requested"]
    /\ UNCHANGED <<deleted, past, image, blob, at, sees, result, latecomers>>

RequestFails(s) ==
    /\ session[s] = "asked"
    /\ session' = [session EXCEPT ![s] = "none"]
    /\ UNCHANGED <<deleted, past, image, blob, at, sees, result, latecomers>>

Elapse(s) ==
    /\ session[s] \notin {"none", "asked"} /\ s \notin past
    /\ past' = past \cup {s}
    /\ UNCHANGED <<rows, blob, at, sees, result>>

\* purge_expired_upload_sessions takes image sessions as well.
SweepExpires(s) ==
    /\ s \in past /\ session[s] \in {"requested", "uploaded"}
    /\ ~SessionLocked(s)
    /\ session' = [session EXCEPT ![s] = "expired"]
    /\ UNCHANGED <<deleted, past, image, blob, at, sees, result, latecomers>>

-----------------------------------------------------------------------------
(* upload_image *)

PostSelects(p) ==
    /\ session[SessionOf[p]] = "requested" /\ SessionOf[p] \notin past
    /\ Goes(p, "idle", "found")
    /\ UNCHANGED <<rows, past, blob, sees, result>>

\* No such session, or too late; or after the SELECT: another kind, a wrong
\* bearer, too large, other bytes than declared.
PostRefused(p) ==
    /\ \/ /\ session[SessionOf[p]] # "requested" \/ SessionOf[p] \in past
          /\ Answer(p, "idle", "refused")
       \/ Answer(p, "found", "refused")
    /\ UNCHANGED <<rows, past, blob, sees>>

\* An error of the disk that nobody notices.
PostStoresPart(p) ==
    /\ Goes(p, "found", "stored")
    /\ blob' = [blob EXCEPT ![p] = "partial"]
    /\ UNCHANGED <<rows, past, sees, result>>

PostStores(p) ==
    /\ Goes(p, "found", "stored")
    /\ blob' = [blob EXCEPT ![p] = "whole"]
    /\ UNCHANGED <<rows, past, sees, result>>

PostStoreFails(p) ==
    /\ Answer(p, "found", "error")
    /\ blob' = [blob EXCEPT ![p] = "partial"]
    /\ UNCHANGED <<rows, past, sees>>

\* INSERT: the foreign key asks for the row of the transcription, which is there
\* even when deleted_at is set, and does not wait for its UPDATE.
PostInserts(p) ==
    /\ Goes(p, "stored", "inserted")
    /\ UNCHANGED <<rows, past, blob, sees, result>>

\* UPDATE of the session, by id.
PostMarks(p) ==
    /\ ~SessionLocked(SessionOf[p])
    /\ Goes(p, "inserted", "marked")
    /\ UNCHANGED <<rows, past, blob, sees, result>>

Inserted(p) ==
    /\ image' = [image EXCEPT ![p] = "visible"]
    /\ latecomers' = IF \/ Parent(p) \in deleted
                        \/ \E d \in Deletes : Target[d] = Parent(p) /\ at[d] = "committing"
                     THEN latecomers \cup {p} ELSE latecomers

\* The session is marked in a transaction of its own, later.
PostCommitsImageOnly(p) ==
    /\ Answer(p, "marked", "ok")
    /\ Inserted(p)
    /\ UNCHANGED <<deleted, session, past, blob, sees>>

\* The caller may be gone by now.
PostCommits(p) ==
    /\ Answer(p, "marked", "ok") \/ Answer(p, "marked", "cancelled")
    /\ Inserted(p)
    /\ session' = [session EXCEPT ![SessionOf[p]] = "uploaded"]
    /\ UNCHANGED <<deleted, past, blob, sees>>

\* An error, or a cancellation, rolls the transaction back; the file stays.
PostFails(p) ==
    /\ \E from \in {"found", "stored", "inserted", "marked"} : Answer(p, from, "error")
    /\ UNCHANGED <<rows, past, blob, sees>>

-----------------------------------------------------------------------------
(* delete_transcription *)

DeleteSends(d) ==
    /\ Goes(d, "idle", "updating")
    /\ UNCHANGED <<rows, past, blob, sees, result>>

\* An UPDATE without deleted_at IS NULL.
DeleteMarksAgain(d) ==
    /\ ~TranscriptionLocked(Target[d])
    /\ Goes(d, "updating", "cascading")
    /\ UNCHANGED <<rows, past, blob, sees, result>>

\* The UPDATE waits for another transaction's on the row and then looks at
\* deleted_at again.
DeleteMarks(d) ==
    /\ ~TranscriptionLocked(Target[d])
    /\ Target[d] \notin deleted
    /\ Goes(d, "updating", "cascading")
    /\ UNCHANGED <<rows, past, blob, sees, result>>

DeleteFindsNone(d) ==
    /\ Target[d] \in deleted
    /\ Answer(d, "updating", "refused")
    /\ UNCHANGED <<rows, past, blob, sees>>

DeleteCascades(d) ==
    /\ Goes(d, "cascading", "committing")
    /\ sees' = [sees EXCEPT ![d] = {p \in Posts : /\ image[p] = "visible"
                                                  /\ Parent(p) = Target[d]}]
    /\ UNCHANGED <<rows, past, blob, result>>

\* The cascade is left to a later transaction.
DeleteCommitsRowOnly(d) ==
    /\ Answer(d, "committing", "ok")
    /\ deleted' = deleted \cup {Target[d]}
    /\ UNCHANGED <<image, session, past, blob, sees, latecomers>>

\* An answer that does not wait for the COMMIT.
DeleteAnswersEarly(d) ==
    /\ Answer(d, "committing", "ok")
    /\ UNCHANGED <<rows, past, blob, sees>>

DeleteCommits(d) ==
    /\ Answer(d, "committing", "ok") \/ Answer(d, "committing", "cancelled")
    /\ deleted' = deleted \cup {Target[d]}
    /\ image' = [p \in Posts |-> IF p \in sees[d] THEN "deleted" ELSE image[p]]
    /\ UNCHANGED <<session, past, blob, sees, latecomers>>

DeleteFails(d) ==
    /\ \E from \in {"updating", "cascading", "committing"} : Answer(d, from, "error")
    /\ UNCHANGED <<rows, past, blob, sees>>

-----------------------------------------------------------------------------
PostStep(p) == \/ PostSelects(p) \/ PostRefused(p) \/ PostStores(p) \/ PostStoreFails(p)
               \/ PostInserts(p) \/ PostMarks(p) \/ PostCommits(p) \/ PostFails(p)

DeleteStep(d) == \/ DeleteSends(d) \/ DeleteMarks(d) \/ DeleteFindsNone(d)
                 \/ DeleteCascades(d) \/ DeleteCommits(d) \/ DeleteFails(d)

Next ==
    \/ \E s \in Sessions : \/ RequestFinds(s) \/ RequestCommits(s) \/ RequestFails(s)
                           \/ Elapse(s) \/ SweepExpires(s)
    \/ \E p \in Posts : PostStep(p)
    \/ \E d \in Deletes : DeleteStep(d)

Spec == Init /\ [][Next]_vars

-----------------------------------------------------------------------------
(* Properties *)

\* Whoever sees the row of an image finds all of its bytes: the file is complete
\* before the INSERT, and no failure, cancellation or delete parts them.
ImageHasItsBytes ==
    \A p \in Posts : image[p] # "none" => blob[p] = "whole"

\* What a POST or a delete answers with success is in the database, and what
\* either refuses or fails is not.
AnswerMatchesDatabase ==
    /\ \A p \in Posts : /\ result[p] = "ok" => image[p] # "none"
                        /\ result[p] \in {"refused", "error"} => image[p] = "none"
    /\ \A d \in Deletes : result[d] = "ok" => Target[d] \in deleted

\* Of all deletes of one transcription one answers with success, the others,
\* overlapping or later, that it is not there.
DeletedOnce ==
    \A d, e \in Deletes :
        Target[d] = Target[e] /\ result[d] = "ok" /\ result[e] = "ok" => d = e

\* A transcription and its images are deleted in one step, whatever fails: no
\* image goes before its parent, and one that is visible under a deleted parent
\* was committed behind the cascade's back.
DeletedTogether ==
    \A p \in Posts :
        /\ image[p] = "deleted" => Parent(p) \in deleted
        /\ image[p] = "visible" /\ Parent(p) \in deleted => p \in latecomers

\* A session is good for one image, except for POSTs that overlap: one that
\* comes when an image of the session is stored is refused, for ever.
SpentSessionIsRefused ==
    [][\A p, q \in Posts :
          /\ SessionOf[p] = SessionOf[q] /\ image[q] # "none"
          => ~(at[p] = "idle" /\ at'[p] = "found")]_vars

\* What delete_transcription's docstring promises: a deleted parent never has
\* visible children.
DeletedHasNoVisibleChildren ==
    \A p \in Posts : image[p] = "visible" => Parent(p) \notin deleted

=============================================================================
