----------------------------- MODULE Recordings -----------------------------
(***************************************************************************)
(* The end of a recording: its human review is closed, or its retention    *)
(* ends, and an action job moves its files to the Windows Recycle Bin      *)
(* (dashboard/routes/recordings.py, maintenance/recording_retention.py,    *)
(* dashboard/recording_trash.py), while it may be sliced again, get a      *)
(* segment that was missed, be remuxed or be maintained by hand.           *)
(*                                                                         *)
(* Requests of the dashboard and claims of the worker take turns under the *)
(* submission lock; the daily retention pass takes no lock beyond that of  *)
(* each single write of the recording's state file.  Of the package only   *)
(* the FLV and the MP4 are modelled: the sidecars go with them.            *)
(***************************************************************************)
EXTENDS RecordingFiles

VARIABLES
    slice,     (* the markers: none (or failed), waiting, running, done *)
    segment,   (* the recording's segments: none, open, busy with a job, all decided,
                  sending (all decided, and one is being uploaded or published) *)
    review,    (* review_state: open, processing, complete, pending (its trash) *)
    trash,     (* trash_status: none, active (pending or processing), failed
                  (or blocked), done *)
    plan,      (* trash_plan: the files to move, once decided *)
    moved,     (* trash_moved: those known to have been moved *)
    forced,    (* the trash job's payload, if there is one, has force_expired *)
    expired,   (* the retention deadline has passed *)
    pass,      (* where the retention pass is *)
    draft,     (* the plan the worker is about to save *)
    known,     (* the worker's own list of moved files *)
    recycled,  (* the files in the Recycle Bin *)
    reopened   (* history: work on the recording began after its plan was made *)

state == <<review, trash, plan, moved>>
around == <<slice, segment, expired>>
own == <<draft, known>>
vars == <<fileVars, state, around, forced, pass, own, recycled, reopened>>

Closed == {"complete", "pending"}

Present == {f \in {"flv", "mp4"} : IF f = "flv" THEN flv # "none" ELSE mp4 # "none"}
SourceIsThere == mp4 # "none"

Init ==
    /\ FilesInit
    /\ slice = "none" /\ segment = "none" /\ review = "open"
    /\ trash = "none" /\ plan = {} /\ moved = {}
    /\ forced = FALSE /\ expired = FALSE /\ pass = "idle"
    /\ draft = {} /\ known = {} /\ recycled = {} /\ reopened = FALSE

OnlyFiles == UNCHANGED <<state, around, forced, pass, own, recycled, reopened>>
FilesStep == FilesNext /\ OnlyFiles

OnlyAround == UNCHANGED <<flv, mp4, partial, faults, history, trash, plan, moved, expired, forced,
                          pass, own, recycled>>

-----------------------------------------------------------------------------
(* Work on the recording.                                                   *)

Reopens == reopened' = (reopened \/ plan # {} \/ At("worker", "save"))

(* start_slice_scan, or requeue_task, which leaves the review state alone.  *)
QueueSlice ==
    /\ SourceIsThere /\ slice \in {"none", "done"}
    /\ slice' = "waiting"
    /\ \/ slice = "none" /\ review' = "processing"
       \/ UNCHANGED review
    /\ Reopens
    /\ UNCHANGED <<segment, step, jobs>> /\ OnlyAround

(* The watcher in the worker slices it; a failure leaves the review state.  *)
SliceRuns ==
    /\ \/ /\ At("worker", "idle") /\ SourceIsThere /\ slice = "waiting"
          /\ Goes("worker", "slice") /\ slice' = "running"
          /\ UNCHANGED <<segment, review>>
       \/ /\ At("worker", "slice")
          /\ Goes("worker", "idle")
          /\ \/ slice' = "done" /\ segment' \in {"none", "open"} /\ review' = "open"
             \/ slice' = "none" /\ UNCHANGED <<segment, review>>
    /\ UNCHANGED <<jobs, reopened>> /\ OnlyAround

(* prepare_missed_segment, and the job it queues for the new segment.       *)
AddMissedSegment ==
    /\ SourceIsThere /\ slice \notin {"waiting", "running"} /\ segment # "busy"
    /\ segment' = "busy" /\ review' = "open"
    /\ Reopens
    /\ UNCHANGED <<slice, step, jobs>> /\ OnlyAround

SegmentJobRuns ==
    /\ \/ /\ At("worker", "idle") /\ segment = "busy"
          /\ Goes("worker", "render") /\ UNCHANGED segment
       \/ /\ At("worker", "render")
          /\ Goes("worker", "idle") /\ segment' = "open"
    /\ review' = IF SourceIsThere THEN "open" ELSE review
    /\ UNCHANGED <<slice, jobs, reopened>> /\ OnlyAround

(* A decision on a segment, its approval, or a later change of it.          *)
DecideSegment ==
    /\ SourceIsThere /\ segment \in {"open", "decided", "sending"}
    /\ segment' \in {"open", IF segment = "sending" THEN segment ELSE "decided"}
    /\ review' = "open"
    /\ Reopens
    /\ UNCHANGED <<slice, step, jobs>> /\ OnlyAround

(* The upload consumer takes up the final of a segment, and is through.     *)
Upload ==
    /\ \/ segment = "decided" /\ segment' = "sending" /\ Reopens
       \/ segment = "sending" /\ segment' = "decided" /\ UNCHANGED reopened
    /\ UNCHANGED <<slice, review, step, jobs>> /\ OnlyAround

-----------------------------------------------------------------------------
(* The dashboard's requests, under the submission lock: _queue_trash.       *)

Queued(payload) ==
    /\ jobs["trash"] = "none"
    /\ jobs' = [jobs EXCEPT !["trash"] = "pending"]
    /\ forced' = payload

AlreadyPending(payload) ==
    /\ jobs["trash"] # "none" /\ forced = payload
    /\ UNCHANGED <<jobs, forced>>

(* mark_pending: two writes of the state file, each of which can raise.     *)
MarkPending(before) ==
    \/ review' = "pending" /\ trash' = "active" /\ UNCHANGED faults
    \/ Fault /\ review' \in {before, "pending"} /\ UNCHANGED trash

QueueTrash(before) ==
    \/ Queued(FALSE) /\ MarkPending(before)
    \/ AlreadyPending(FALSE) /\ review' = before /\ UNCHANGED <<trash, faults>>

(* complete_source_review, when prepare_source_review_completion allows it; *)
(* without any segment the user confirms that there is none, and the        *)
(* recording counts as sliced.  An expired job in the queue is a conflict,  *)
(* met after the review has been closed.                                    *)
CompleteReview ==
    /\ trash # "done" /\ SourceIsThere
    /\ ~(jobs["trash"] # "none" /\ review = "pending")
    /\ slice \notin {"waiting", "running"} /\ review # "processing"
    /\ segment \in {"none", "decided", "sending"}
    /\ slice' = IF segment = "none" THEN "done" ELSE slice
    /\ reopened' = (reopened /\ (slice' # "done" \/ segment = "sending"))
    /\ \/ QueueTrash("complete")
       \/ /\ jobs["trash"] # "none" /\ forced
          /\ review' = "complete" /\ UNCHANGED <<jobs, forced, trash, faults>>
    /\ UNCHANGED <<files, step, history, plan, moved, segment, expired, pass, own, recycled>>

(* trash_source_recording: once closed, it is not asked again.              *)
RequestTrash ==
    /\ review \in Closed /\ trash # "done"
    /\ plan # {} \/ SourceIsThere
    /\ QueueTrash(review)
    /\ UNCHANGED <<files, step, history, plan, moved, around, pass, own, recycled, reopened>>

-----------------------------------------------------------------------------
(* maintain_recording_retention, for the recordings whose MP4 exists.       *)

Passes(place) == pass' = place
OnlyThePass == UNCHANGED <<fileVars, state, around, forced, own, recycled, reopened>>
OnlyThePassAnd == UNCHANGED <<files, step, history, around, plan, moved, own, recycled, reopened>>

Expire == ~expired /\ expired' = TRUE
          /\ UNCHANGED <<fileVars, state, slice, segment, forced, pass, own, recycled, reopened>>

(* Mutation: what could not be recycled once is not tried again.            *)
LooksOnce ==
    \/ /\ pass = "idle" /\ SourceIsThere
       /\ expired /\ trash \notin {"done", "failed"}
       /\ Passes("active")
    \/ /\ pass = "active"
       /\ Passes(IF jobs["trash"] # "none" THEN "block" ELSE "plan")

PassLooks ==
    \/ /\ pass = "idle" /\ SourceIsThere
       /\ expired /\ trash # "done"
       /\ Passes("active")
    \/ /\ pass = "active"
       /\ Passes(IF jobs["trash"] # "none" THEN "block" ELSE "plan")

(* build_trash_plan with force_expired: only these three things stop it.    *)
PassPlans ==
    /\ pass = "plan"
    /\ Passes(IF trash = "done" \/ ~SourceIsThere \/ jobs["trash"] # "none"
              THEN "block" ELSE "enqueue")

PassBlocks ==
    /\ pass = "block"
    /\ trash' = "failed"
    /\ Passes("idle")
    /\ UNCHANGED <<jobs, faults, forced, review>> /\ OnlyThePassAnd

(* A conflict ends the pass.                                                *)
PassEnqueues ==
    /\ pass = "enqueue"
    /\ \/ (Queued(TRUE) \/ AlreadyPending(TRUE)) /\ Passes("markReview")
       \/ jobs["trash"] # "none" /\ ~forced /\ Passes("idle") /\ UNCHANGED <<jobs, forced>>
    /\ UNCHANGED <<faults, review, trash>> /\ OnlyThePassAnd

PassMarks ==
    /\ \/ pass = "markReview" /\ review' = "pending" /\ Passes("markTrash") /\ UNCHANGED trash
       \/ pass = "markTrash" /\ trash' = "active" /\ Passes("idle") /\ UNCHANGED review
    /\ UNCHANGED <<jobs, faults, forced>> /\ OnlyThePassAnd

PassFails ==
    /\ pass # "idle" /\ Fault
    /\ Passes("idle")
    /\ UNCHANGED <<jobs, forced, review, trash>> /\ OnlyThePassAnd

RetentionPass == ((PassLooks \/ PassPlans) /\ OnlyThePass) \/ PassBlocks \/ PassEnqueues \/ PassMarks

-----------------------------------------------------------------------------
(* The worker's trash job: trash_recording.                                 *)

(* The runner's record in the state file; one that raises is swallowed.     *)
Recorded(status) ==
    \/ trash' = status /\ UNCHANGED faults
    \/ Fault /\ UNCHANGED trash

OnlyTheJob == UNCHANGED <<around, forced, pass, reopened, partial>>
NoFileMoves == UNCHANGED <<flv, mp4, recycled, history>>

BeginTrash ==
    /\ jobs["trash"] = "pending"
    /\ Begins("worker", "read")
    /\ jobs' = [jobs EXCEPT !["trash"] = "processing"]
    /\ Recorded("active")
    /\ UNCHANGED <<flv, mp4, recycled, review, plan, moved, own>> /\ OnlyTheJob

(* A plan that was saved is carried out, and not looked at again.           *)
ReadState ==
    /\ At("worker", "read")
    /\ known' = moved
    /\ Goes("worker", CASE trash = "done" -> "succeed"
                        [] trash # "done" /\ plan # {} -> "move"
                        [] OTHER -> "look")
    /\ UNCHANGED <<jobs, faults, state, draft>> /\ NoFileMoves /\ OnlyTheJob

(* Nobody works on the recording: it is sliced, no job of a segment runs    *)
(* and none of the segments is being uploaded.                              *)
AtRest == slice = "done" /\ segment \notin {"busy", "sending"}

(* Mutation: the request was made, so the review was closed.                *)
TakenOnceAsked == (forced /\ expired) \/ AtRest

(* Mutation: an expired recording is blocked like any other.                *)
NotTakenBecauseExpired == review \in Closed /\ AtRest

(* build_trash_plan's blockers, which an expired recording passes by.       *)
MayBeTaken ==
    \/ forced /\ expired
    \/ review \in Closed /\ AtRest

Look ==
    /\ At("worker", "look")
    /\ IF SourceIsThere /\ MayBeTaken
       THEN draft' = Present /\ Goes("worker", "save")
       ELSE Goes("worker", "fail") /\ UNCHANGED draft
    /\ UNCHANGED <<jobs, faults, state, known>> /\ NoFileMoves /\ OnlyTheJob

SavePlan ==
    /\ At("worker", "save")
    /\ \/ /\ plan' = draft /\ moved' = {} /\ trash' = "active"
          /\ Goes("worker", "move") /\ UNCHANGED faults
       \/ Fault /\ Goes("worker", "fail") /\ UNCHANGED <<plan, moved, trash>>
    /\ draft' = {}
    /\ UNCHANGED <<jobs, review, known>> /\ NoFileMoves /\ OnlyTheJob

(* The FLV before the MP4; a file that is gone or in use fails the job.     *)
NextFile == IF "flv" \in plan \ known THEN "flv" ELSE "mp4"

Moves(file) ==
    /\ flv' = IF file = "flv" THEN "none" ELSE flv
    /\ mp4' = IF file = "mp4" THEN "none" ELSE mp4
    /\ recycled' = recycled \cup {file}
    /\ known' = known \cup {file}

(* Mutation: a file that is missing counts as moved.                        *)
MissingIsMoved ==
    /\ At("worker", "move") /\ plan \ known # {}
    /\ IF NextFile \in Present THEN Moves(NextFile)
       ELSE known' = known \cup {NextFile} /\ UNCHANGED <<flv, mp4, recycled>>
    /\ Goes("worker", "note")
    /\ UNCHANGED <<jobs, faults, history, state, draft>> /\ OnlyTheJob

MoveFile ==
    /\ At("worker", "move") /\ plan \ known # {}
    /\ \/ /\ NextFile \in Present /\ ~(NextFile = "flv" /\ InUseByOther("worker"))
          /\ Moves(NextFile)
          /\ Goes("worker", "note") /\ UNCHANGED faults
       \/ /\ NextFile \notin Present \/ (NextFile = "flv" /\ InUseByOther("worker"))
          /\ Goes("worker", "fail") /\ UNCHANGED <<flv, mp4, recycled, known, faults>>
       \/ Fault /\ Goes("worker", "fail") /\ UNCHANGED <<flv, mp4, recycled, known>>
    /\ UNCHANGED <<jobs, history, state, draft>> /\ OnlyTheJob

NoteMoved ==
    /\ At("worker", "note")
    /\ \/ moved' = known /\ trash' = "active" /\ Goes("worker", "move") /\ UNCHANGED faults
       \/ Fault /\ Goes("worker", "fail") /\ UNCHANGED <<moved, trash>>
    /\ UNCHANGED <<jobs, review, plan, own>> /\ NoFileMoves /\ OnlyTheJob

Finish ==
    /\ At("worker", "move") /\ plan \subseteq known
    /\ \/ review' = "pending" /\ trash' = "done" /\ Goes("worker", "succeed") /\ UNCHANGED faults
       \/ Fault /\ Goes("worker", "fail") /\ UNCHANGED <<review, trash>>
    /\ UNCHANGED <<jobs, plan, moved, own>> /\ NoFileMoves /\ OnlyTheJob

(* The runner records the outcome, then settles the job file.               *)
Outcome ==
    /\ \/ At("worker", "succeed") /\ Recorded("done")
       \/ At("worker", "fail") /\ Recorded("failed")
    /\ Settles("trash")
    /\ known' = {} /\ forced' = FALSE
    /\ UNCHANGED <<review, plan, moved, draft, around, pass, reopened, partial>> /\ NoFileMoves

TrashStep ==
    \/ ReadState \/ Look \/ SavePlan \/ MoveFile \/ NoteMoved \/ Finish \/ Outcome

(* A worker that dies forgets what it had not saved; a marker it had in     *)
(* processing goes back to pending, as its job does.                        *)
WorkerDies ==
    /\ Killed("worker")
    /\ draft' = {} /\ known' = {}
    /\ slice' = IF slice = "running" THEN "waiting" ELSE slice
    /\ UNCHANGED <<state, segment, expired, forced, pass, recycled, reopened>>

-----------------------------------------------------------------------------
Worker ==
    \/ TrashStep
    \/ (RecoverRecording("worker") /\ OnlyFiles)
    \/ SliceRuns /\ At("worker", "slice")
    \/ SegmentJobRuns /\ At("worker", "render")

Next ==
    \/ FilesStep \/ QueueSlice \/ SliceRuns \/ AddMissedSegment \/ SegmentJobRuns \/ DecideSegment \/ Upload
    \/ CompleteReview \/ RequestTrash \/ Expire \/ RetentionPass \/ PassFails
    \/ BeginTrash \/ TrashStep \/ WorkerDies

Spec == Init /\ [][Next]_vars

(* The scheduled retention pass is repeated every day, and what runs goes   *)
(* on.  Nothing makes a worker begin a job: the pass starts none.           *)
FairSpec == Spec /\ WF_vars(RetentionPass) /\ WF_vars(Worker)
            /\ WF_vars((RecoverRecording("operator") \/ Audit) /\ OnlyFiles)

-----------------------------------------------------------------------------
TypeOK ==
    /\ flv \in {"none", "whole", "damaged", "small", "tiny"}
    /\ mp4 \in {"none", "broken", "whole"} /\ partial \in {"none", "broken", "whole"}
    /\ step["operator"] \in RemuxSteps \cup {"idle", "audit", "delete"}
    /\ step["worker"] \in RemuxSteps \cup {"idle", "slice", "render", "read", "look", "save",
                                           "move", "note", "succeed", "fail"}
    /\ slice \in {"none", "waiting", "running", "done"}
    /\ segment \in {"none", "open", "busy", "decided", "sending"}
    /\ review \in {"open", "processing"} \cup Closed
    /\ trash \in {"none", "active", "failed", "done"}
    /\ {plan, moved, draft, known, recycled} \subseteq SUBSET {"flv", "mp4"}
    /\ pass \in {"idle", "active", "plan", "block", "enqueue", "markReview", "markTrash"}

HoldsTheRecording == flv \in Readable \/ mp4 = "whole"

(* A recording that can be read in one of its two files goes on to be, until *)
(* it is moved to the Recycle Bin: remuxing, maintenance and their kills at *)
(* any step, and any verdict that comes out wrong because a program could   *)
(* not run, never leave it in neither file.  Two things can: the script     *)
(* beside a job on the same files, and the script's own deletion, when the  *)
(* verdict it has just reached is the wrong one.                            *)
DeletesOnVerdict == step["operator"] \in {"purgeFlv", "purgeMp4", "delete"}
WholeCopyKept ==
    [][HoldsTheRecording =>
          \/ HoldsTheRecording' \/ recycled' # recycled
          \/ overlapped' \/ (misjudged /\ DeletesOnVerdict)]_vars

(* A recording is only moved when its review is closed and nobody works on  *)
(* it, or when it has expired, or when work on it began after its plan was  *)
(* made: a saved plan is carried out whatever is done to the recording      *)
(* before the job is retried.                                               *)
TakenWithCause ==
    [][recycled' # recycled => expired \/ reopened \/ (review \in Closed /\ AtRest)]_vars

(* "done" is believed by everybody: the whole plan is in the Recycle Bin,   *)
(* and a file that disappeared in any other way is never counted in.        *)
DoneIsTrue == trash = "done" => plan # {} /\ plan \subseteq moved /\ moved \subseteq recycled

(* An expired recording gets its job: as long as its MP4 is there, the pass  *)
(* has one queued some day, whatever state its review, slicing, segments    *)
(* and earlier attempts are in - unless it is believed to be recycled.      *)
ExpiredIsQueued == expired /\ SourceIsThere ~> ~SourceIsThere \/ jobs["trash"] # "none" \/ trash = "done"

(* If workers are started for the jobs that wait, which the pass leaves to  *)
(* others, and people stop asking for it themselves, an expired recording   *)
(* ends with its MP4 recycled - unless its saved plan names a file that is  *)
(* gone without a note, which only a human can resolve.                     *)
LeftAlone == <>[][~RequestTrash /\ ~CompleteReview]_vars
Served == jobs["trash"] = "pending" ~> jobs["trash"] # "pending"
Stuck == \E f \in plan \ moved : f \notin Present
ExpiredEnds ==
    LeftAlone /\ Served => (expired /\ SourceIsThere ~> ~SourceIsThere \/ Stuck \/ overlapped)

(* docs/operations.md: what is sliced or rendered keeps blocking. The code  *)
(* does not keep this for an expired recording (recording_trash.py:82).     *)
ActiveIsNotTaken ==
    [][recycled' # recycled /\ ~reopened => segment # "busy" /\ slice # "waiting"]_vars

(* audit_mp4_recordings removes confirmed failures only                     *)
(* (runtime_cleanup.py:318). The code does not keep this: a validation that *)
(* could not run counts as a failure.                                       *)
AuditRemovesOnlyBroken ==
    [][mp4 = "whole" /\ mp4' = "none" => recycled' # recycled \/ overlapped']_vars
=============================================================================
