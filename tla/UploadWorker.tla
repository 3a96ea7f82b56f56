---------------------------- MODULE UploadWorker ----------------------------
(***************************************************************************)
(* The upload consumer (src/upload/worker.py, src/upload/upload.py) run    *)
(* against the queue: one process at a time (the lock that makes it so is  *)
(* the module UploadLock), which may be killed between any two steps and   *)
(* started again.  A cycle is UploadWorker.process_one: it peeks a row,    *)
(* loads that row's metadata, checks the login, claims a row, sends its    *)
(* bytes, claims again and submits.  The dashboard and the action jobs     *)
(* change the queue between any two of these steps.                        *)
(*                                                                         *)
(* What the platform has seen of a video is kept in history variables that *)
(* no step reads: sent, accepted, lostUpload, lostPost, unreported and     *)
(* approved.                                                               *)
(***************************************************************************)
EXTENDS UploadQueue

CONSTANTS
    StatusFileMayFail,    \* whether writing upload-status.json can raise
    Nobody                \* no row

ASSUME StatusFileAssumption == StatusFileMayFail \in BOOLEAN
ASSUME NobodyAssumption == Nobody \notin Videos

VARIABLES
    files,        \* what is on disk for a video
    pc,           \* where the consumer is in its cycle
    peeked,       \* the row peeked: the metadata in memory is this row's
    item,         \* the row claimed: the video_path in memory
    sent,         \* history: how often the CDN received the video's bytes
    accepted,     \* history: how often the platform accepted a submission
    lostUpload,   \* history: videos whose upload succeeded and went unrecorded
    lostPost,     \* history: videos whose submission succeeded and went unrecorded
    unreported,   \* history: videos published whose upload-status.json failed
    approved      \* history: videos released since they were last staged

workerVars == <<pc, peeked, item>>
history == <<sent, accepted, lostUpload, lostPost, unreported, approved>>
platform == <<sent, accepted, lostUpload, lostPost, unreported>>
vars == <<queueVars, files, workerVars, history>>

(* "good": video and valid sidecar; "nometa": no valid sidecar; "gone": no video. *)
FileStates == {"good", "nometa", "gone"}

(* The steps of process_one; "down" is no process, "idle" the pause between *)
(* two cycles.  The last three write upload-status.json: before the claim,  *)
(* inside the try block, and from its except handler.                       *)
Steps == {"down", "idle", "load", "login", "claim", "upload", "complete",
          "reclaim", "submit", "record", "cleanup", "raised",
          "reportEarly", "reportTry", "reportLast"}

(* Between the claim and the end of the cycle the consumer works on item.   *)
Working == {"upload", "complete", "reclaim", "submit", "record", "cleanup",
            "raised", "reportTry", "reportLast"}

Many == 2                                   \* model bound: 2 stands for "twice or more"
Count(n) == IF n < Many THEN n + 1 ELSE n

Init ==
    /\ QueueInit
    /\ files \in [Videos -> FileStates]
    /\ pc = "down" /\ peeked = Nobody /\ item = Nobody
    /\ sent = [v \in Videos |-> 0]
    /\ accepted = [v \in Videos |-> 0]
    /\ lostUpload = {} /\ lostPost = {} /\ unreported = {} /\ approved = {}

-----------------------------------------------------------------------------
(* The dashboard, the pipeline, the action jobs and the clock.              *)

(* finalize writes the video and its sidecar before it stages the row.      *)
Stage(v) ==
    /\ StageUpload(v)
    /\ files' = [files EXCEPT ![v] = "good"]
    /\ approved' = approved \ {v}
    /\ UNCHANGED <<workerVars, platform>>

Approve(v) ==
    /\ ActivateStaged(v)
    /\ approved' = approved \cup {v}
    /\ UNCHANGED <<files, workerVars, platform>>

Enqueue(v) ==
    /\ InsertUpload(v)
    /\ approved' = approved \cup {v}
    /\ UNCHANGED <<files, workerVars, platform>>

RetryUpload(v) ==
    /\ RequeueFailed(v)
    /\ UNCHANGED <<files, workerVars, history>>

(* The sidecar is deleted with the row (_invalidate_final_output).          *)
Withdraw(v) ==
    /\ WithdrawStaged(v)
    /\ files' = [files EXCEPT ![v] = IF @ = "good" THEN "nometa" ELSE @]
    /\ UNCHANGED <<workerVars, history>>

(* Only a consumer between two cycles can notice that the clock moved.      *)
TimePasses(v) ==
    /\ pc \in {"down", "idle"}
    /\ BackoffElapses(v)
    /\ UNCHANGED <<files, workerVars, history>>

-----------------------------------------------------------------------------
(* The consumer's process.                                                  *)

(* run_forever up to its loop: recover the rows a dead consumer left.       *)
Start ==
    /\ pc = "down"
    /\ RecoverQueue
    /\ pc' = "idle"
    /\ UNCHANGED <<nextId, files, peeked, item, history>>

Forget(step) == pc' = step /\ peeked' = Nobody /\ item' = Nobody

(* A stop request, or --once, ends the process between two cycles.          *)
Stop ==
    /\ pc = "idle"
    /\ Forget("down")
    /\ UNCHANGED <<queueVars, files, history>>

(* The process dies: what it knew and had not written is lost.              *)
Crash ==
    /\ pc \notin {"down", "idle"}
    /\ Forget("down")
    /\ lostUpload' = lostUpload \cup (IF pc = "complete" THEN {item} ELSE {})
    /\ lostPost' = lostPost \cup (IF pc = "record" THEN {item} ELSE {})
    /\ UNCHANGED <<queueVars, files, sent, accepted, unreported, approved>>

-----------------------------------------------------------------------------
(* One cycle.                                                               *)

Peek ==
    /\ pc = "idle"
    /\ \/ \E v \in Videos : IsNext(v) /\ peeked' = v /\ pc' = "load"
       \/ NoneDue /\ pc' = "reportEarly" /\ UNCHANGED peeked
    /\ UNCHANGED <<queueVars, files, item, history>>

LoadMetadata ==
    /\ pc = "load"
    /\ IF files[peeked] = "good"
       THEN pc' = "login" /\ UNCHANGED queue
       ELSE pc' = "reportEarly" /\ Update(peeked, Failed(queue[peeked]))
    /\ UNCHANGED <<nextId, files, peeked, item, history>>

CheckLogin ==
    /\ pc = "login"
    /\ pc' \in {"claim", "reportEarly"}
    /\ UNCHANGED <<queueVars, files, peeked, item, history>>

(* The row claimed is the first due row now, which need not be peeked.      *)
Claim ==
    /\ pc = "claim"
    /\ \/ \E v \in Videos :
            /\ IsNext(v)
            /\ Update(v, Claimed(queue[v]))
            /\ item' = v
            /\ pc' = IF queue[v].status = "queued" THEN "upload" ELSE "submit"
       \/ NoneDue /\ pc' = "reportEarly" /\ UNCHANGED <<queue, item>>
    /\ UNCHANGED <<nextId, files, peeked, history>>

UploadFile ==
    /\ pc = "upload"
    /\ files[item] # "gone"
    /\ sent' = [sent EXCEPT ![item] = Count(@)]
    /\ pc' = "complete"
    /\ UNCHANGED <<queueVars, files, peeked, item, accepted, lostUpload, lostPost, unreported, approved>>

(* upload_file raises, perhaps after the CDN received everything.           *)
UploadRaises ==
    /\ pc = "upload"
    /\ pc' = "raised"
    /\ \/ UNCHANGED <<sent, lostUpload>>
       \/ /\ files[item] # "gone"
          /\ sent' = [sent EXCEPT ![item] = Count(@)]
          /\ lostUpload' = lostUpload \cup {item}
    /\ UNCHANGED <<queueVars, files, peeked, item, accepted, lostPost, unreported, approved>>

RecordUpload ==
    /\ pc = "complete"
    /\ Update(item, Completed(queue[item]))
    /\ pc' = "reclaim"
    /\ UNCHANGED <<nextId, files, peeked, item, history>>

(* The second claim takes the first due row; if that is another row the     *)
(* cycle raises, and leaves the row it took as it claimed it.  It also      *)
(* raises if there is none, or if the transaction fails.                    *)
Reclaim ==
    /\ pc = "reclaim"
    /\ \/ \E v \in Videos :
            /\ IsNext(v)
            /\ Update(v, Claimed(queue[v]))
            /\ pc' = IF v = item THEN "submit" ELSE "raised"
       \/ pc' = "raised" /\ UNCHANGED queue
    /\ UNCHANGED <<nextId, files, peeked, item, history>>

(* submit_uploaded_video answers code 0 and a BVID.                         *)
SubmitAccepted ==
    /\ pc = "submit"
    /\ accepted' = [accepted EXCEPT ![item] = Count(@)]
    /\ pc' = "record"
    /\ UNCHANGED <<queueVars, files, peeked, item, sent, lostUpload, lostPost, unreported, approved>>

(* Code 0 without a BVID: the code retries what the platform accepted.      *)
SubmitWithoutBvid ==
    /\ pc = "submit"
    /\ accepted' = [accepted EXCEPT ![item] = Count(@)]
    /\ lostPost' = lostPost \cup {item}
    /\ Update(item, Retried(queue[item]))
    /\ pc' = "reportTry"
    /\ UNCHANGED <<nextId, files, peeked, item, sent, lostUpload, unreported, approved>>

(* Any other code: -101 and -111 defer the row, the rest are charged.       *)
SubmitRejected ==
    /\ pc = "submit"
    /\ Update(item, Retried(queue[item])) \/ Update(item, Deferred(queue[item]))
    /\ pc' = "reportTry"
    /\ UNCHANGED <<nextId, files, peeked, item, history>>

(* The request raises, perhaps after the platform accepted it.              *)
SubmitRaises ==
    /\ pc = "submit"
    /\ pc' = "raised"
    /\ \/ UNCHANGED <<accepted, lostPost>>
       \/ /\ accepted' = [accepted EXCEPT ![item] = Count(@)]
          /\ lostPost' = lostPost \cup {item}
    /\ UNCHANGED <<queueVars, files, peeked, item, sent, lostUpload, unreported, approved>>

RecordPublished ==
    /\ pc = "record"
    /\ Update(item, Published(queue[item]))
    /\ pc' = "cleanup"
    /\ UNCHANGED <<nextId, files, peeked, item, history>>

(* read_slice_features or the transaction raises before the row is written. *)
RecordRaises ==
    /\ pc = "record"
    /\ lostPost' = lostPost \cup {item}
    /\ pc' = "raised"
    /\ UNCHANGED <<queueVars, files, peeked, item, sent, accepted, lostUpload, unreported, approved>>

(* _cleanup, under settings.delete_after_success, deletes the video first;  *)
(* its own errors are swallowed.                                            *)
Cleanup ==
    /\ pc = "cleanup"
    /\ files' \in {files, [files EXCEPT ![item] = "gone"]}
    /\ pc' = "reportTry"
    /\ UNCHANGED <<queueVars, peeked, item, history>>

(* The except handler of process_one: _retry, whatever raised.              *)
HandleException ==
    /\ pc = "raised"
    /\ Update(item, Retried(queue[item]))
    /\ pc' = "reportLast"
    /\ UNCHANGED <<nextId, files, peeked, item, history>>

(* _finish: upload-status.json is written and the cycle is over.            *)
Report ==
    /\ pc \in {"reportEarly", "reportTry", "reportLast"}
    /\ Forget("idle")
    /\ UNCHANGED <<queueVars, files, history>>

(* The status file cannot be written.  Inside the try block this is one     *)
(* more exception of the cycle; elsewhere it ends the process, as Crash.    *)
ReportRaises ==
    /\ StatusFileMayFail
    /\ pc = "reportTry"
    /\ pc' = "raised"
    /\ unreported' = unreported \cup
           (IF queue[item].status = "published" THEN {item} ELSE {})
    /\ UNCHANGED <<queueVars, files, peeked, item, sent, accepted, lostUpload, lostPost, approved>>

-----------------------------------------------------------------------------

Dashboard == \E v \in Videos :
    Stage(v) \/ Approve(v) \/ Enqueue(v) \/ RetryUpload(v) \/ Withdraw(v)

Clock == \E v \in Videos : TimePasses(v)

Cycle ==
    \/ Peek \/ LoadMetadata \/ CheckLogin \/ Claim
    \/ UploadFile \/ UploadRaises \/ RecordUpload \/ Reclaim
    \/ SubmitAccepted \/ SubmitWithoutBvid \/ SubmitRejected \/ SubmitRaises
    \/ RecordPublished \/ RecordRaises \/ Cleanup
    \/ HandleException \/ Report \/ ReportRaises

Next == Dashboard \/ Clock \/ Start \/ Stop \/ Crash \/ Cycle

Spec == Init /\ [][Next]_vars

-----------------------------------------------------------------------------
(* Properties.                                                              *)

(* Every variable has its type; a row is numbered below the counter, and a  *)
(* working consumer knows both its rows.                                    *)
TypeOK ==
    /\ queue \in [Videos -> Row]
    /\ nextId \in Nat \ {0}
    /\ files \in [Videos -> FileStates]
    /\ pc \in Steps
    /\ peeked \in Videos \cup {Nobody}
    /\ item \in Videos \cup {Nobody}
    /\ sent \in [Videos -> 0 .. Many]
    /\ accepted \in [Videos -> 0 .. Many]
    /\ lostUpload \subseteq Videos
    /\ lostPost \subseteq Videos
    /\ unreported \subseteq Videos
    /\ approved \subseteq Videos

(* What each step of a cycle knows of its rows: nobody else moves a row     *)
(* between its claim and the end of the cycle, except a row the cycle       *)
(* itself has failed, which the dashboard may stage again.                  *)
CyclePhase ==
    /\ pc \in {"load", "login", "claim"} =>
          peeked \in Videos /\ queue[peeked].status \in {"queued", "uploaded"}
    /\ pc \in Working => item \in Videos
    /\ pc \in {"upload", "complete"} => queue[item].status = "uploading"
    /\ pc = "reclaim" => queue[item].status = "uploaded"
    /\ pc \in {"submit", "record"} => queue[item].status = "publishing"
    /\ pc = "cleanup" => queue[item].status = "published"
    /\ pc = "raised" =>
          \/ queue[item].status \in {"uploading", "uploaded", "publishing"}
          \/ StatusFileMayFail
    /\ pc = "raised" => (queue[item].status # "published" \/ item \in unreported)

(* Across every producer, retry, recovery and requeue, a row's status says  *)
(* whether its bytes are on the CDN: a row that waits to be published or is *)
(* being published has a remote_filename, one that waits for its upload or  *)
(* is being uploaded has none.                                              *)
PhaseMatchesRemote ==
    \A v \in Videos :
        /\ queue[v].status \in {"uploaded", "publishing", "published"} => queue[v].remote
        /\ queue[v].status \in {"queued", "uploading", "none"} => ~queue[v].remote

(* A video's bytes reach the CDN again only when the answer of an earlier   *)
(* upload was lost before mark_upload_complete: every retry, recovery and   *)
(* restaging after that reuses remote_filename (README.md:198).             *)
BytesSentOnce ==
    \A v \in Videos : sent[v] > 1 => v \in lostUpload

(* The platform accepts a second submission of a video for one of two       *)
(* causes: the first went unrecorded, or it was recorded and upload-status  *)
(* could then not be written, which makes the except handler retry the      *)
(* published row (worker.py:169-190).  No order of approvals, restaging,    *)
(* retries, recoveries and restarts publishes a video twice without one.    *)
PublishedOnceUnlessLost ==
    \A v \in Videos : accepted[v] > 1 => v \in lostPost \cup unreported

(* Where the evidence of an upload or a submission is: in the row, in the   *)
(* memory of the step that is about to record it, or lost.                  *)
EffectsAccounted ==
    \A v \in Videos :
        /\ sent[v] > 0 =>
              queue[v].remote \/ v \in lostUpload \/ (pc = "complete" /\ v = item)
        /\ accepted[v] > 0 =>
              \/ queue[v].status = "published" \/ v \in lostPost \cup unreported
              \/ (pc = "record" /\ v = item)

(* A row that may still be tried has retries left (max_attempts), however   *)
(* retries, deferrals, requeues and restagings follow one another.          *)
BudgetRespected ==
    \A v \in Videos :
        queue[v].status \in {"staged", "queued", "uploading", "uploaded", "publishing"}
            => queue[v].attempts < MaxAttempts

(* No row leaves its staging by another way than a release: what waits,     *)
(* is in flight, is published or has failed was approved (or queued         *)
(* directly) after it was last staged.                                      *)
OutMeansApproved ==
    \A v \in Videos : queue[v].status \notin {"none", "staged"} => v \in approved

(* Only what was released by an approval (or queued directly) since its     *)
(* last staging is handed to the platform: staging hides a row from both    *)
(* claims, and no retry or recovery brings it out.                          *)
NothingUnapprovedLeaves ==
    [][\A v \in Videos :
          (sent[v]' # sent[v] \/ accepted[v]' # accepted[v]) => v \in approved]_vars

(* The inductive invariant of UploadWorkerProofs.                           *)
IInv ==
    /\ TypeOK /\ CyclePhase /\ PhaseMatchesRemote /\ EffectsAccounted
    /\ BytesSentOnce /\ PublishedOnceUnlessLost /\ BudgetRespected

(* A published row stays published: no error after the publication is       *)
(* recorded makes it eligible for a second submission                       *)
(* (tests/test_upload_worker.py:233).  The code does not keep this when     *)
(* StatusFileMayFail: _finish runs inside the try block (worker.py:182).    *)
PublishedIsFinal ==
    [][\A v \in Videos :
          queue[v].status = "published" => queue[v].status' = "published"]_vars

(* What is submitted for a row is described by that row's own metadata.     *)
SubmittedWithItsOwnMetadata ==
    pc \in {"upload", "submit"} => item = peeked

(* The ledger a reader of the queue sees: every status in which the         *)
(* consumer may still act on a row is "open".                               *)
LedgerPhase(row) ==
    CASE row.status = "none"      -> "none"
      [] row.status = "staged"    -> "held"
      [] row.status = "published" -> "done"
      [] row.status = "failed"    -> "dead"
      [] OTHER                    -> "open"

Ledger == INSTANCE UploadLedger WITH
    phase  <- [v \in Videos |-> LedgerPhase(queue[v])],
    stored <- [v \in Videos |-> queue[v].remote]

(* Through every interleaving of the consumer's steps, its crashes and the  *)
(* dashboard's, the queue implements the ledger.                            *)
ImplementsLedger == Ledger!LedgerSpec

(* A present row has a number of its own, handed out by the counter; the    *)
(* row peeked stays eligible, or in flight, as long as the cycle lasts; and *)
(* the row a cycle works on cannot be withdrawn before its outcome is       *)
(* written.  With OnlyOlderRowsOvertake this is inductive.                  *)
RowsNumbered ==
    /\ \A v \in Videos : Present(v) => queue[v].id < nextId
    /\ \A v, w \in Videos :
          (Present(v) /\ Present(w) /\ v # w) => queue[v].id # queue[w].id

CycleHoldsRows ==
    /\ pc \in {"load", "login", "claim"} => queue[peeked].due
    /\ pc \in Working =>
          /\ peeked \in Videos
          /\ \/ peeked = item
             \/ queue[peeked].status \in {"queued", "uploading", "uploaded", "publishing"}
    /\ pc = "reportTry" => Present(item) /\ queue[item].remote
    /\ pc = "raised" =>
          \/ queue[item].status \in {"uploading", "uploaded", "publishing"}
          \/ Present(item) /\ queue[item].remote

(* The row a cycle works on differs from the row it peeked only because a   *)
(* row with a smaller id became due in between.  (Once the except handler   *)
(* has failed the row, the dashboard may withdraw it and number it anew.)   *)
OnlyOlderRowsOvertake ==
    (pc \in Working \ {"reportLast"} /\ item # peeked)
        => queue[item].id < queue[peeked].id

OrderInv == RowsNumbered /\ CycleHoldsRows /\ OnlyOlderRowsOvertake

=============================================================================
