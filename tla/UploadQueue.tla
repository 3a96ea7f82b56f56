----------------------------- MODULE UploadQueue -----------------------------
(***************************************************************************)
(* The SQLite table upload_queue (src/db/conn.py): one row per video path, *)
(* at most one at a time.  Every operator below that ends in a primed      *)
(* variable is one transaction of conn.py.  Those of the dashboard, the    *)
(* slicing pipeline and the action jobs are the disjuncts of QueueNext;    *)
(* those of the upload consumer are composed into its steps by the module  *)
(* UploadWorker.                                                           *)
(*                                                                         *)
(* Abstractions.  next_attempt_at is the Boolean "due": the consumer fixes *)
(* `now' at the start of a cycle, so a back-off that elapses in mid-cycle  *)
(* is only seen by the next one.  remote_filename is the Boolean "remote". *)
(* The columns locked, last_error, bvid and updated_at are not read by any *)
(* operation and are left out.                                             *)
(***************************************************************************)
EXTENDS Naturals

CONSTANTS
    Videos,        \* the video paths that can be queued
    MaxAttempts,   \* settings.max_attempts
    MaxId          \* model bound: how many rows are ever inserted

ASSUME MaxAttemptsAssumption == MaxAttempts \in Nat \ {0}
ASSUME MaxIdAssumption == MaxId \in Nat

VARIABLES
    queue,         \* video path -> its row (NoRow when there is none)
    nextId         \* the autoincrement counter of upload_queue.id

queueVars == <<queue, nextId>>

Statuses == {"staged", "queued", "uploading", "uploaded",
             "publishing", "published", "failed"}

Row == [status: Statuses \cup {"none"}, remote: BOOLEAN, attempts: Nat,
        due: BOOLEAN, id: Nat]

NoRow == [status |-> "none", remote |-> FALSE, attempts |-> 0,
          due |-> TRUE, id |-> 0]

NewRow(status) == [NoRow EXCEPT !.status = status, !.id = nextId]

-----------------------------------------------------------------------------
(* What one transaction makes of the row it addresses.                      *)

(* The phase a row resumes in: publishing only if its bytes are on the CDN. *)
ResumePhase(row) == IF row.remote THEN "uploaded" ELSE "queued"

(* Mutation: restaging forgets the remote file.                             *)
RestagedWithoutRemote(row) ==
    [row EXCEPT !.status = "staged", !.attempts = 0, !.due = TRUE, !.remote = FALSE]

(* stage_upload_queue on a failed row: a fresh budget, the same remote.     *)
Restaged(row) == [row EXCEPT !.status = "staged", !.attempts = 0, !.due = TRUE]

(* activate_staged_upload.                                                  *)
Activated(row) == [row EXCEPT !.status = ResumePhase(row)]

(* requeue_failed_upload.                                                   *)
Requeued(row) ==
    [row EXCEPT !.status = ResumePhase(row), !.attempts = 0, !.due = TRUE]

(* claim_next_upload.                                                       *)
Claimed(row) ==
    [row EXCEPT !.status = IF row.status = "queued" THEN "uploading" ELSE "publishing"]

(* mark_upload_complete, mark_upload_published, mark_upload_failed.         *)
Completed(row) == [row EXCEPT !.status = "uploaded", !.remote = TRUE, !.due = TRUE]
Published(row) == [row EXCEPT !.status = "published", !.due = TRUE]
Failed(row)    == [row EXCEPT !.status = "failed", !.due = TRUE]

(* Mutation: one attempt too many.                                          *)
RetriedOnceMore(row) ==
    IF row.attempts + 1 > MaxAttempts
    THEN [row EXCEPT !.status = "failed", !.attempts = row.attempts + 1, !.due = TRUE]
    ELSE [row EXCEPT !.status = ResumePhase(row),
                     !.attempts = row.attempts + 1, !.due = FALSE]

(* schedule_upload_retry: whatever status the row has.                      *)
Retried(row) ==
    IF row.attempts + 1 >= MaxAttempts
    THEN [row EXCEPT !.status = "failed", !.attempts = row.attempts + 1, !.due = TRUE]
    ELSE [row EXCEPT !.status = ResumePhase(row),
                     !.attempts = row.attempts + 1, !.due = FALSE]

(* defer_upload_for_auth: no attempt is charged.                            *)
Deferred(row) == [row EXCEPT !.status = ResumePhase(row), !.due = FALSE]

(* recover_upload_queue, which looks at every row.                          *)
Recovered(row) ==
    CASE row.status = "uploading"  -> [row EXCEPT !.status = "queued"]
      [] row.status = "publishing" -> [row EXCEPT !.status = ResumePhase(row)]
      [] OTHER                     -> row

(* The clock passes next_attempt_at.                                        *)
Elapsed(row) == [row EXCEPT !.due = TRUE]

-----------------------------------------------------------------------------
(* The table.                                                               *)

Present(v) == queue[v].status # "none"

(* "update ... where video_path = ?": nothing happens when the row is gone. *)
Update(v, row) ==
    queue' = IF Present(v) THEN [queue EXCEPT ![v] = row] ELSE queue

Insert(v, status) ==
    /\ nextId <= MaxId
    /\ queue' = [queue EXCEPT ![v] = NewRow(status)]
    /\ nextId' = nextId + 1

QueueInit ==
    /\ queue = [v \in Videos |-> NoRow]
    /\ nextId = 1

-----------------------------------------------------------------------------
(* Producers: the dashboard, the pipeline and the action jobs.              *)

(* insert_upload_queue: a row that is eligible at once.                     *)
InsertUpload(v) == ~Present(v) /\ Insert(v, "queued")

(* Mutation: staging restages published rows as well.                       *)
StagePublished(v) ==
    \/ ~Present(v) /\ Insert(v, "staged")
    \/ /\ queue[v].status \in {"failed", "published"}
       /\ Update(v, Restaged(queue[v]))
       /\ UNCHANGED nextId

(* stage_upload_queue: a row the consumer cannot claim yet.                 *)
StageUpload(v) ==
    \/ ~Present(v) /\ Insert(v, "staged")
    \/ /\ queue[v].status = "failed"
       /\ Update(v, Restaged(queue[v]))
       /\ UNCHANGED nextId

(* activate_staged_upload, called by approve_publish_segment.               *)
ActivateStaged(v) ==
    /\ queue[v].status = "staged"
    /\ Update(v, Activated(queue[v]))
    /\ UNCHANGED nextId

(* Mutation: the retry_upload job does not look at remote_filename.         *)
RequeueAnyFailed(v) ==
    /\ queue[v].status = "failed"
    /\ Update(v, Requeued(queue[v]))
    /\ UNCHANGED nextId

(* requeue_failed_upload, reached through the retry_upload job, which       *)
(* refuses a row whose bytes are already on the CDN.                        *)
RequeueFailed(v) ==
    /\ queue[v].status = "failed"
    /\ ~queue[v].remote
    /\ Update(v, Requeued(queue[v]))
    /\ UNCHANGED nextId

(* withdraw_staged_upload: only an unactivated row with no bytes sent.      *)
WithdrawStaged(v) ==
    /\ queue[v].status = "staged"
    /\ ~queue[v].remote
    /\ queue' = [queue EXCEPT ![v] = NoRow]
    /\ UNCHANGED nextId

-----------------------------------------------------------------------------
(* The consumer's selections and transactions.                              *)

(* Mutation: the selection does not leave staged rows out.                  *)
DueWhenStaged(v) == queue[v].status \in {"staged", "queued", "uploaded"} /\ queue[v].due

Due(v) == queue[v].status \in {"queued", "uploaded"} /\ queue[v].due

(* Mutation: "limit 1" without an order.                                    *)
IsAnyDue(v) == Due(v)

(* "order by id limit 1" over the due rows.                                 *)
IsNext(v) ==
    /\ Due(v)
    /\ \A w \in Videos : Due(w) => queue[v].id <= queue[w].id

NoneDue == \A v \in Videos : ~Due(v)

RecoverQueue == queue' = [v \in Videos |-> Recovered(queue[v])]

BackoffElapses(v) ==
    /\ ~queue[v].due
    /\ Update(v, Elapsed(queue[v]))
    /\ UNCHANGED nextId
=============================================================================
