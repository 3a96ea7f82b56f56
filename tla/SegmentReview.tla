---------------------------- MODULE SegmentReview ----------------------------
(***************************************************************************)
(* The human review of one candidate segment, from the slicer's verdict to *)
(* the publish approval (src/dashboard/source_workbench.py and its routes, *)
(* routes/segments.py).  The reviewer edits the segment in the dashboard;  *)
(* what needs ffmpeg, ASR or the model becomes a job of the Windows        *)
(* worker.  A final is staged in the upload queue, and an approval job     *)
(* activates its row for the upload consumer.                              *)
(*                                                                         *)
(* Requests and claims hold the action submission lock, and a segment has  *)
(* at most one active job (module ActionJobs), so a request is one step    *)
(* and a job is the worker's own sequence of steps, which a crash restarts *)
(* from its first.  The consumer (module UploadWorker) runs beside both.   *)
(*                                                                         *)
(* Abstractions.  A final's path is made of its range and its style; its   *)
(* content is the subtitles burned into it.  A revision number is only     *)
(* compared with the one a job was queued with: job.fresh says whether     *)
(* they are equal.  Likewise _finalize_job_id is job.validated.  Titles    *)
(* are one value.  Upload rows need no order, so every id is 0.            *)
(***************************************************************************)
EXTENDS Naturals

CONSTANTS
    Ranges,      \* source-time ranges a reviewer may choose
    Styles,      \* subtitle styles
    Texts,       \* manual subtitles
    FirstRange,  \* the range the slicer gave the segment
    FirstStyle,
    OnSharedMount  \* the dashboard runs on the Pi, over the SMB mount

ASSUME ReviewFirstAssumption == FirstRange \in Ranges /\ FirstStyle \in Styles
ASSUME ReviewMountAssumption == OnSharedMount \in BOOLEAN

Spoken == "asr"       \* the subtitles of the speech recognition
NoFile == "no file"

ASSUME ReviewTextAssumption == NoFile \notin Texts

Cuts == [range: Ranges, style: Styles]

(* Paths that are not cuts: none, the candidate's context clip, which is    *)
(* never uploaded, and the final the slicer renders for a kept candidate.   *)
Other(name) == [range |-> name, style |-> name]
NoPath == Other("none")
Window == Other("window")
Clip == Other("clip")

Finals == Cuts \cup {Clip}

ASSUME ReviewPathAssumption == {NoPath, Window} \cap Finals = {}

Subtitles == Texts \cup {Spoken}

VARIABLES
    seg,         \* the segment's record in .mp4.task.json
    review,      \* review_state of its recording
    queue,       \* upload_queue: the row of each final
    finals,      \* the final files: path -> the subtitles burned in, or NoFile
    metas,       \* the finals with an upload metadata sidecar
    window,      \* whether the context clip exists
    job,         \* the segment's active job
    worker,      \* the worker's step and what it has read
    rewritten,   \* history: a final was replaced since the last revision
    blind        \* history: a change was saved that the unread database forbade

history == <<rewritten, blind>>
vars == <<seg, review, queue, finals, metas, window, job, worker, history>>
disk == <<finals, metas, window>>

Q == INSTANCE UploadQueue
       WITH Videos <- Finals, MaxAttempts <- 1, MaxId <- 0, nextId <- 0

Kept == {"keep", "manual_keep"}
Decided == Kept \cup {"drop"}
Judgements == Decided \cup {"review", "judge_failed"}
InFlight == {"queued", "uploading", "uploaded", "publishing"}
Publishing == InFlight \cup {"published"}

Segment == [range: Ranges, style: Styles, subs: Subtitles, burn: BOOLEAN,
            judge: Judgements,
            upload: Publishing \cup {"not_queued", "awaiting_publish"},
            approved: BOOLEAN, preview: BOOLEAN,
            final: Finals \cup {NoPath},
            candidate: Finals \cup {Window, NoPath},
            history: SUBSET Finals]

CutOf(s) == [range |-> s.range, style |-> s.style]

Actions == {"finalize_segment", "render_segment", "retry_judge",
            "approve_publish", "create_missed_segment"}

NoJob == [action |-> "none", fresh |-> TRUE, validated |-> FALSE,
          media |-> NoPath, seen |-> FALSE]
NewJob(action) == [NoJob EXCEPT !.action = action]
Job == [action: Actions \cup {"none"}, fresh: BOOLEAN, validated: BOOLEAN,
        media: Finals \cup {NoPath}, seen: BOOLEAN]

NoJobActive == job.action = "none"

Steps == {"idle", "claimed", "render", "metadata", "ready", "withdraw", "stage",
          "succeed", "approved", "done", "raised"}
Idle == [at |-> "idle", plan |-> NoPath, subs |-> Spoken, burn |-> FALSE,
         old |-> {}, status |-> "none", created |-> FALSE]
Worker == [at: Steps, plan: Finals \cup {NoPath}, subs: Subtitles, burn: BOOLEAN,
           old: SUBSET Finals, status: Q!Statuses \cup {"none"}, created: BOOLEAN]

-----------------------------------------------------------------------------
(* The slicer's verdicts and a segment marked by hand.                      *)

FirstSegment ==
    [range |-> FirstRange, style |-> FirstStyle, subs |-> Spoken, burn |-> FALSE,
     judge |-> "review", upload |-> "not_queued", approved |-> FALSE,
     preview |-> FALSE, final |-> NoPath, candidate |-> Window, history |-> {}]

(* Left for manual review, or filtered: dropping may delete the clip.       *)
InitUnkept ==
    /\ \E j \in {"review", "judge_failed", "drop"} : seg = [FirstSegment EXCEPT !.judge = j]
    /\ window \in (IF seg.judge = "drop" THEN BOOLEAN ELSE {TRUE})
    /\ job = NoJob
    /\ queue = [p \in Finals |-> Q!NoRow]
    /\ finals = [p \in Finals |-> NoFile]
    /\ metas = {}

(* Kept: the slicer has rendered and staged a final of its own.             *)
InitKept ==
    /\ seg = [FirstSegment EXCEPT !.judge = "keep", !.upload = "awaiting_publish",
                 !.preview = TRUE, !.final = Clip, !.candidate = Clip]
    /\ window = TRUE
    /\ job = NoJob
    /\ queue = [p \in Finals |-> IF p = Clip THEN Q!NewRow("staged") ELSE Q!NoRow]
    /\ finals = [p \in Finals |-> IF p = Clip THEN Spoken ELSE NoFile]
    /\ metas = {Clip}

(* Kept, but its final could not be rendered, described or staged.          *)
InitUnstaged ==
    /\ \E rendered \in BOOLEAN :
        /\ seg = [FirstSegment EXCEPT !.judge = "judge_failed", !.preview = rendered,
                     !.final = Clip, !.candidate = Clip]
        /\ finals = [p \in Finals |-> IF p = Clip /\ rendered THEN Spoken ELSE NoFile]
    /\ window = TRUE
    /\ job = NoJob
    /\ queue = [p \in Finals |-> Q!NoRow]
    /\ metas = {}

(* prepare_missed_segment, queued with its create_missed_segment job.       *)
InitMissed ==
    /\ seg = [FirstSegment EXCEPT !.judge = "manual_keep"]
    /\ window = FALSE
    /\ job = NewJob("create_missed_segment")
    /\ queue = [p \in Finals |-> Q!NoRow]
    /\ finals = [p \in Finals |-> NoFile]
    /\ metas = {}

Init ==
    /\ InitUnkept \/ InitKept \/ InitUnstaged \/ InitMissed
    /\ review = "candidate_review"
    /\ worker = Idle
    /\ rewritten = FALSE
    /\ blind = FALSE

-----------------------------------------------------------------------------
(* Writing the history (_mutate_segment): the recording's review reopens,   *)
(* and unless only the action state is recorded, the revision goes up.      *)

Bumped == [job EXCEPT !.fresh = FALSE]

Record(s) == seg' = s /\ review' = "candidate_review"

Save(s) == Record(s) /\ rewritten' = FALSE /\ UNCHANGED blind

-----------------------------------------------------------------------------
(* _ensure_unpublished and _invalidate_final_output.  `db' says whether the *)
(* upload database can be read during the operation.                        *)

RowKnown(p) == queue[p].status # "none"

Withdrawable(p) == queue[p].status = "staged" /\ ~queue[p].remote

UploadPaths == {seg.candidate, seg.final} \cap Finals

(* Mutations: the record is believed without the queue, or the approval is  *)
(* only looked for in the queue.                                            *)
UnpublishedByRecord(db) ==
    /\ ~seg.approved
    /\ seg.upload \notin Publishing
UnpublishedByQueue(db) ==
    /\ seg.upload \notin Publishing
    /\ IF db THEN \A p \in UploadPaths : RowKnown(p) => Withdrawable(p)
             ELSE seg.upload = "not_queued"

Unpublished(db) ==
    /\ ~seg.approved
    /\ seg.upload \notin Publishing
    /\ IF db THEN \A p \in UploadPaths : RowKnown(p) => Withdrawable(p)
             ELSE seg.upload = "not_queued"

(* A final awaiting its approval must still have its row.                   *)
Invalidable(db) ==
    /\ Unpublished(db)
    /\ db /\ seg.final # NoPath /\ ~RowKnown(seg.final) => seg.upload = "not_queued"

Change(s, db) ==
    /\ Record(s)
    /\ rewritten' = FALSE
    /\ blind' = (blind \/ (~db /\ ~Invalidable(TRUE)))

(* Mutation: the earlier final is forgotten.                                *)
InvalidatedForgotten ==
    IF seg.final = NoPath THEN seg
    ELSE [seg EXCEPT !.final = NoPath, !.upload = "not_queued", !.preview = FALSE,
                     !.candidate = IF @ = seg.final THEN NoPath ELSE @]

(* The segment's record without its final: only the path is remembered.     *)
Invalidated ==
    IF seg.final = NoPath THEN seg
    ELSE [seg EXCEPT !.history = @ \cup {seg.final},
                     !.final = NoPath,
                     !.candidate = IF @ = seg.final THEN NoPath ELSE @,
                     !.preview = FALSE,
                     !.upload = "not_queued"]

Staged(db) == IF db /\ seg.final # NoPath /\ RowKnown(seg.final) THEN {seg.final} ELSE {}

Withdraw(paths) == queue' = [p \in Finals |-> IF p \in paths THEN Q!NoRow ELSE queue[p]]

(* The row is withdrawn, over SMB it is left for the worker; either way its *)
(* metadata goes.                                                           *)
InvalidateFinal(db, deferred) ==
    /\ Invalidable(db)
    /\ Withdraw(IF deferred THEN {} ELSE Staged(db))
    /\ metas' = metas \ Staged(db)

WithRange(s, r) ==
    IF r = s.range THEN s
    ELSE [s EXCEPT !.range = r, !.subs = Spoken, !.burn = FALSE]

-----------------------------------------------------------------------------
(* The reviewer's edits.  Each needs the segment to have no active job      *)
(* (_ensure_segment_idle).  A refused request changes nothing, unless it    *)
(* fails after the final was invalidated.                                   *)

EditRange(r, db) ==
    /\ NoJobActive
    /\ InvalidateFinal(db, OnSharedMount)
    /\ Change(WithRange(Invalidated, r), db)
    /\ UNCHANGED <<finals, window, job, worker>>

EditStyle(y, db) ==
    /\ NoJobActive
    /\ InvalidateFinal(db, OnSharedMount)
    /\ Change([Invalidated EXCEPT !.style = y], db)
    /\ UNCHANGED <<finals, window, job, worker>>

EditSubtitles(t, db) ==
    /\ NoJobActive
    /\ InvalidateFinal(db, OnSharedMount)
    /\ Change([Invalidated EXCEPT !.subs = t, !.burn = TRUE, !.preview = FALSE], db)
    /\ UNCHANGED <<finals, window, job, worker>>

(* The withdrawal is done and the record is not written: the process died,  *)
(* or the rest of the request was invalid (a start after the current end).  *)
EditInterrupted(db) ==
    /\ NoJobActive
    /\ seg.final # NoPath
    /\ InvalidateFinal(db, OnSharedMount)
    /\ UNCHANGED <<seg, review, finals, window, job, worker, history>>

PreviewAllowed == seg.judge \in Kept /\ seg.preview

CandidateExists ==
    CASE seg.candidate = Window -> window
      [] seg.candidate = NoPath -> FALSE
      [] OTHER                  -> finals[seg.candidate] # NoFile

(* manual_keep_segment may also move the range: the final stays as it is.   *)
ManualKeep(r, db) ==
    /\ NoJobActive
    /\ Unpublished(db)
    /\ PreviewAllowed
    /\ CandidateExists
    /\ Change([seg EXCEPT !.range = r, !.judge = "manual_keep", !.upload = "not_queued"], db)
    /\ UNCHANGED <<queue, disk, job, worker>>

(* drop_segment withdraws the row of its candidate, also over SMB.          *)
Drop(db) ==
    LET rows == IF db THEN {p \in {seg.candidate} \cap Finals : RowKnown(p)} ELSE {}
    IN /\ NoJobActive
       /\ Unpublished(db)
       /\ Withdraw(rows)
       /\ metas' = metas \ rows
       /\ Change([seg EXCEPT !.judge = "drop", !.upload = "not_queued"], db)
       /\ UNCHANGED <<finals, window, job, worker>>

-----------------------------------------------------------------------------
(* Queueing jobs.  The job exists before the segment records it as pending, *)
(* which reopens the review; a crash in between leaves the job alone.       *)

Enqueue(new) ==
    /\ NoJobActive
    /\ job' = new
    /\ UNCHANGED <<queue, disk, worker>>

QueuedSegment(new) ==
    /\ Enqueue(new)
    /\ UNCHANGED <<seg, history>>
    /\ review' \in {review, "candidate_review"}

(* prepare_segment_finalize: the edits are saved and the new final planned. *)
Prepared(r, y, edited) ==
    LET ranged == WithRange(Invalidated, r)
        s == IF edited # {} THEN [ranged EXCEPT !.subs = CHOOSE t \in edited : TRUE,
                                                !.burn = TRUE]
                            ELSE ranged
    IN [s EXCEPT !.style = y, !.upload = "not_queued",
                 !.final = [range |-> r, style |-> y]]

(* The finalize route, with or without new subtitles; a crash may leave the *)
(* edits without the job.                                                   *)
RequestFinalize(r, y, edited, db) ==
    /\ NoJobActive
    /\ InvalidateFinal(db, OnSharedMount)
    /\ Change(Prepared(r, y, edited), db)
    /\ job' \in {NewJob("finalize_segment"), NoJob}
    /\ UNCHANGED <<finals, window, worker>>

(* retry-judge, and render or reburn, which finalize without a payload.     *)
RequestAction(action) == QueuedSegment(NewJob(action))

(* approve-publish names the revision and the final the reviewer watched.   *)
(* A tab may be stale; only a current one showed what the path now holds.   *)
RequestApproval(p, current) ==
    QueuedSegment([NewJob("approve_publish") EXCEPT
        !.media = p, !.fresh = current, !.seen = current /\ ~rewritten])

-----------------------------------------------------------------------------
(* prepare_source_review_completion.                                        *)

(* _normalize_segments shows the row's status, if the row can be read.      *)
ShownUpload(db) ==
    LET p == IF seg.final # NoPath THEN seg.final ELSE seg.candidate
    IN IF db /\ seg.upload # "not_queued" /\ p \in Finals /\ RowKnown(p)
       THEN queue[p].status ELSE seg.upload

FinalExists == seg.final # NoPath /\ finals[seg.final] # NoFile /\ PreviewAllowed

CompleteReview(db) ==
    /\ NoJobActive
    /\ \/ seg.judge = "drop"
       \/ /\ seg.judge \in Kept
          /\ seg.approved
          /\ ShownUpload(db) \in Publishing
          /\ ShownUpload(db) # "published" => FinalExists
    /\ review' = "review_complete"
    /\ UNCHANGED <<seg, queue, disk, job, worker, history>>

-----------------------------------------------------------------------------
(* The worker's job, step by step: each step ends in one durable write.     *)

At(step) == worker.at = step
Goto(step) == worker' = [worker EXCEPT !.at = step]

(* _record_segment_job_state records where the job is in the segment, which *)
(* reopens the review; a write that fails is swallowed.                     *)
RecordsState == review' \in {review, "candidate_review"}

(* claim_next_action_job, and the processing state recorded.                *)
Claim ==
    /\ ~NoJobActive
    /\ At("idle")
    /\ Goto("claimed")
    /\ RecordsState
    /\ UNCHANGED <<seg, queue, disk, job, history>>

(* An operation raised: the job is recorded as failed, and the segment is,  *)
(* unless that write fails as well.                                         *)
Failing ==
    /\ \/ Record([seg EXCEPT !.judge = "judge_failed", !.upload = "not_queued"])
       \/ UNCHANGED <<seg, review>>
    /\ Goto("raised")

Raise ==
    /\ Failing
    /\ UNCHANGED <<queue, disk, job, history>>

(* _fail_finalize: the same, as a revision of its own that names the        *)
(* planned final.                                                           *)
FailFinalize ==
    /\ Save([seg EXCEPT !.judge = "judge_failed", !.upload = "not_queued",
                        !.final = worker.plan])
    /\ Goto("raised")
    /\ job' = Bumped
    /\ UNCHANGED <<queue, disk>>

(* finalize_segment: the job must be of the recorded revision, or be one    *)
(* that a crash interrupted after it had found that revision.  Else, or     *)
(* when this cannot be recorded, it raises.                                 *)
MayFinalize == job.fresh \/ job.validated

Planned(s) == [Idle EXCEPT !.at = "render", !.plan = CutOf(s), !.subs = s.subs,
                           !.burn = s.burn, !.old = s.history]

StartFinalize ==
    /\ job.action = "finalize_segment" /\ At("claimed")
    /\ \/ /\ MayFinalize
          /\ job' = [job EXCEPT !.validated = TRUE]
          /\ worker' = Planned(seg)
          /\ review' = "candidate_review"
          /\ UNCHANGED <<seg, queue, disk, history>>
       \/ Raise

(* Rendering again prepares the segment on the worker, which may write to   *)
(* the database, and may die in between.  A style that was not given to     *)
(* this clip itself makes way for the one its room's profile has by now.    *)
StartRender(y, db) ==
    /\ job.action = "render_segment" /\ At("claimed")
    /\ \/ /\ InvalidateFinal(db, FALSE)
          /\ Change(Prepared(seg.range, y, {}), db)
          /\ job' = Bumped
          /\ worker' = Planned(Prepared(seg.range, y, {}))
          /\ UNCHANGED <<finals, window>>
       \/ /\ InvalidateFinal(db, FALSE)
          /\ worker' = Idle
          /\ UNCHANGED <<seg, review, finals, window, job, history>>
       \/ ~Invalidable(db) /\ Raise

(* Raw clip, speech recognition and burning, or the final that is there:    *)
(* the recognition of its range was written before it and is reusable.      *)
ReuseFinal == ~worker.burn /\ finals[worker.plan] # NoFile

Burn ==
    /\ At("render")
    /\ \/ /\ ReuseFinal
          /\ UNCHANGED <<finals, history>>
       \/ /\ ~ReuseFinal
          /\ finals' = [finals EXCEPT ![worker.plan] = worker.subs]
          /\ rewritten' = TRUE
          /\ UNCHANGED blind
    /\ Goto("metadata")
    /\ UNCHANGED <<seg, review, queue, metas, window, job>>

WriteMetadata ==
    /\ At("metadata")
    /\ metas' = metas \cup {worker.plan}
    /\ Goto("ready")
    /\ UNCHANGED <<seg, review, queue, finals, window, job, history>>

(* mark_ready: the artifacts are recorded before a row can expose them.     *)
Produced(judge, upload) ==
    [seg EXCEPT !.candidate = worker.plan, !.final = worker.plan, !.preview = TRUE,
                !.burn = FALSE, !.judge = judge, !.upload = upload]

MarkReady ==
    /\ At("ready")
    /\ Save(Produced(seg.judge, "not_queued"))
    /\ Goto("withdraw")
    /\ job' = Bumped
    /\ UNCHANGED <<queue, disk>>

(* Mutation: the worker leaves the deferred rows where they are.            *)
KeepDeferred ==
    /\ At("withdraw")
    /\ Goto("stage")
    /\ UNCHANGED <<seg, review, queue, disk, job, history>>

(* _withdraw_deferred_staged_uploads: the rows left for the worker.         *)
WithdrawDeferred ==
    LET rows == {p \in worker.old : Withdrawable(p)}
    IN /\ At("withdraw")
       /\ Withdraw(rows)
       /\ metas' = metas \ (rows \ {worker.plan})
       /\ Goto("stage")
       /\ UNCHANGED <<seg, review, finals, window, job, history>>

StagedRow(row) ==
    CASE row.status = "none"   -> Q!NewRow("staged")
      [] row.status = "failed" -> Q!Restaged(row)
      [] OTHER                 -> row

StageFinal ==
    LET row == StagedRow(queue[worker.plan])
    IN /\ At("stage")
       /\ queue' = [queue EXCEPT ![worker.plan] = row]
       /\ worker' = [worker EXCEPT !.at = "succeed", !.status = row.status,
                                   !.created = ~RowKnown(worker.plan)]
       /\ UNCHANGED <<seg, review, disk, job, history>>

Succeed ==
    /\ At("succeed")
    /\ Save(Produced("manual_keep", IF worker.status = "staged" THEN "awaiting_publish"
                                                               ELSE worker.status))
    /\ Goto("done")
    /\ job' = Bumped
    /\ UNCHANGED <<queue, disk>>

(* The record cannot be written: a row the job created goes with it.        *)
SucceedRaises ==
    /\ At("succeed")
    /\ queue' = IF worker.created THEN [queue EXCEPT ![worker.plan] = Q!NoRow] ELSE queue
    /\ Failing
    /\ UNCHANGED <<disk, job, history>>

(* Any stage may fail.  Writing the segment's record fails outside          *)
(* _fail_finalize.                                                          *)
StageFails ==
    /\ worker.at \in {"render", "metadata", "withdraw", "stage"}
    /\ FailFinalize \/ Raise
RecordRaises == worker.at \in {"ready", "approved"} /\ Raise

-----------------------------------------------------------------------------
(* The other jobs.                                                          *)

(* Mutation: the revision the reviewer watched is not compared.             *)
ApprovableAnyRevision(db) ==
    /\ seg.judge \in Kept
    /\ FinalExists
    /\ job.media = seg.final
    /\ db
    /\ queue[seg.final].status \in {"staged"} \cup Publishing

(* approve_publish_segment's checks.                                        *)
Approvable(db) ==
    /\ seg.judge \in Kept
    /\ FinalExists
    /\ job.fresh \/ seg.approved
    /\ job.media = seg.final
    /\ db
    /\ queue[seg.final].status \in {"staged"} \cup Publishing

(* activate_staged_upload: from here on the consumer may take the row.      *)
Activate(db) ==
    LET row == queue[seg.final]
        new == IF row.status = "staged" THEN Q!Activated(row) ELSE row
    IN /\ job.action = "approve_publish" /\ At("claimed")
       /\ \/ /\ Approvable(db)
             /\ queue' = [queue EXCEPT ![seg.final] = new]
             /\ worker' = [worker EXCEPT !.at = "approved", !.status = new.status]
             /\ UNCHANGED <<seg, review, disk, job, history>>
          \/ Raise

(* The approval is recorded; if it cannot be, the row stays activated.      *)
RecordApproval ==
    /\ At("approved")
    /\ Save([seg EXCEPT !.upload = worker.status, !.approved = TRUE])
    /\ Goto("done")
    /\ job' = Bumped
    /\ UNCHANGED <<queue, disk>>

(* retry_segment_judge: the model's new verdict, or its failure.            *)
RetryJudge(db, verdict) ==
    /\ job.action = "retry_judge" /\ At("claimed")
    /\ \/ /\ Unpublished(db) /\ CandidateExists
          /\ Change([seg EXCEPT !.judge = verdict, !.upload = "not_queued"], db)
          /\ Goto("done")
          /\ job' = Bumped
          /\ UNCHANGED <<queue, disk>>
       \/ Raise

(* create_missed_segment: the context clip is cut, then recorded.           *)
CutMissed ==
    /\ job.action = "create_missed_segment" /\ At("claimed")
    /\ \/ /\ window' = TRUE
          /\ Save([seg EXCEPT !.preview = TRUE, !.judge = "manual_keep",
                              !.upload = "not_queued"])
          /\ Goto("done")
          /\ job' = Bumped
          /\ UNCHANGED <<queue, finals, metas>>
       \/ Raise

(* The outcome is recorded before the job is finished.                      *)
FinishJob ==
    /\ worker.at \in {"done", "raised"}
    /\ worker' = Idle
    /\ job' = NoJob
    /\ RecordsState
    /\ UNCHANGED <<seg, queue, disk, history>>

(* The worker dies; recovery puts the job back at its beginning.            *)
CrashWorker ==
    /\ ~At("idle")
    /\ worker' = Idle
    /\ UNCHANGED <<seg, review, queue, disk, job, history>>

-----------------------------------------------------------------------------
(* The upload consumer, one row at a time, and the retry of a failed row.   *)

Consume(p, row) == queue' = [queue EXCEPT ![p] = row]

ClaimUpload(p) ==
    /\ Q!Due(p)
    /\ finals[p] # NoFile /\ p \in metas
    /\ Consume(p, Q!Claimed(queue[p]))
    /\ UNCHANGED <<seg, review, disk, job, worker, history>>

(* The video or its metadata is missing.                                    *)
RefuseUpload(p) ==
    /\ Q!Due(p)
    /\ finals[p] = NoFile \/ p \notin metas
    /\ Consume(p, Q!Failed(queue[p]))
    /\ UNCHANGED <<seg, review, disk, job, worker, history>>

(* The bytes are sent, the attempt fails for good, or it is interrupted.    *)
StepUpload(p) ==
    /\ \/ queue[p].status = "uploading" /\ Consume(p, Q!Completed(queue[p]))
       \/ /\ queue[p].status \in {"uploading", "publishing"}
          /\ Consume(p, Q!Failed(queue[p])) \/ Consume(p, Q!Recovered(queue[p]))
       \/ /\ queue[p].status = "failed" /\ ~queue[p].remote
          /\ Consume(p, Q!Requeued(queue[p]))
    /\ UNCHANGED <<seg, review, disk, job, worker, history>>

(* Published; by default the final and its metadata are deleted.            *)
PublishUpload(p) ==
    /\ queue[p].status = "publishing"
    /\ Consume(p, Q!Published(queue[p]))
    /\ \/ UNCHANGED <<finals, metas>>
       \/ finals' = [finals EXCEPT ![p] = NoFile] /\ metas' = metas \ {p}
    /\ UNCHANGED <<seg, review, window, job, worker, history>>

-----------------------------------------------------------------------------
(* The system.                                                              *)

Reviewer ==
    \/ \E db \in BOOLEAN :
        \/ \E r \in Ranges : EditRange(r, db) \/ ManualKeep(r, db)
        \/ \E y \in Styles : EditStyle(y, db)
        \/ \E t \in Texts : EditSubtitles(t, db)
        \/ EditInterrupted(db)
        \/ Drop(db)
        \/ \E r \in Ranges, y \in Styles, edited \in {{}} \cup {{t} : t \in Texts} :
             RequestFinalize(r, y, edited, db)
        \/ CompleteReview(db)
    \/ \E action \in {"retry_judge", "render_segment"} : RequestAction(action)
    \/ \E p \in Finals, current \in BOOLEAN : RequestApproval(p, current)

WorkerSteps ==
    \/ Claim \/ StartFinalize \/ Burn \/ WriteMetadata \/ MarkReady
    \/ WithdrawDeferred \/ StageFinal \/ Succeed \/ SucceedRaises
    \/ StageFails \/ RecordRaises \/ RecordApproval \/ CutMissed
    \/ FinishJob \/ CrashWorker
    \/ \E db \in BOOLEAN : Activate(db) \/ \E y \in Styles : StartRender(y, db)
    \/ \E db \in BOOLEAN, verdict \in Judgements \ {"manual_keep"} : RetryJudge(db, verdict)

Consumer ==
    \E p \in Finals : ClaimUpload(p) \/ RefuseUpload(p) \/ StepUpload(p) \/ PublishUpload(p)

Next == Reviewer \/ WorkerSteps \/ Consumer

Spec == Init /\ [][Next]_vars

-----------------------------------------------------------------------------
(* Properties.                                                              *)

TypeOK ==
    /\ seg \in Segment
    /\ review \in {"candidate_review", "review_complete"}
    /\ queue \in [Finals -> Q!Row]
    /\ finals \in [Finals -> Subtitles \cup {NoFile}]
    /\ metas \subseteq Finals
    /\ window \in BOOLEAN
    /\ job \in Job
    /\ worker \in Worker
    /\ rewritten \in BOOLEAN /\ blind \in BOOLEAN

Activated(p) == queue[p].status = "staged" /\ queue'[p].status \in InFlight

(* A final leaves the staging area only for the approval of someone who     *)
(* watched what its path holds now, and while the segment is kept.          *)
ActivatedAsSeen ==
    [][\A p \in Finals : Activated(p) =>
          /\ job.seen /\ job.media = p /\ seg.final = p
          /\ seg.judge \in Kept
          /\ finals[p] # NoFile]_vars

(* While the consumer may read a final nobody replaces it, and its segment  *)
(* keeps pointing at it.  Activated without a record of it (the write       *)
(* failed), only the queue knows that the final is taken.                   *)
UntouchedInFlight ==
    [][\A p \in Finals : queue[p].status \in InFlight /\ ~blind' =>
          /\ finals'[p] # finals[p] => queue'[p].status = "published"
          /\ seg'.final = p]_vars

(* Nothing the reviewer watched changes once its approval is recorded, also *)
(* when a repeated approval fails and the database cannot be read.          *)
ApprovedIsFrozen ==
    [][seg.approved =>
          /\ seg'.approved
          /\ \A f \in {"range", "style", "subs", "final"} : seg'[f] = seg[f]]_vars

(* No staged row is lost sight of: it is the segment's final, or one of the *)
(* outputs the next finalization withdraws.                                 *)
StagedIsKnown ==
    \A p \in Finals : queue[p].status = "staged" =>
        p \in seg.history \cup {seg.final, worker.plan}

(* A segment that awaits its approval has no other row to approve: those    *)
(* the dashboard left to the worker are gone by then.                       *)
OneFinalAwaits ==
    seg.upload = "awaiting_publish" /\ ~blind =>
        \A p \in Finals : queue[p].status = "staged" => p = seg.final

(* The final that awaits its approval has the segment's subtitles burned    *)
(* in, also those that were edited since its path was last written          *)
(* (tests/test_source_workbench.py:1082). With a second style the code does *)
(* not keep this: source_workbench.py:739 reuses the file it finds.         *)
AwaitingShowsItsSubtitles ==
    seg.upload = "awaiting_publish" /\ queue[seg.final].status = "staged" =>
        finals[seg.final] = seg.subs
=============================================================================
