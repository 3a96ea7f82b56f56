----------------------------- MODULE SliceMarkers -----------------------------
(***************************************************************************)
(* Slicing one recording: the marker files next to it (.mp4.pending,       *)
(* .mp4.processing, .mp4.done, .mp4.failed), its task history and its      *)
(* review state.  Requests of the dashboard queue it (slice_control.py),   *)
(* requeue it, cancel it or mark it done (task_state.py).  The one-shot    *)
(* worker recovers an abandoned marker, claims the pending one, slices and *)
(* records the outcome (watcher.py).  The worker's API process recovers    *)
(* too when it is asked to stop the worker (worker_control.py).            *)
(*                                                                         *)
(* Recordings share nothing but the claim lock of their room, so one is    *)
(* modelled.  The start of a request, recovery and claim take that lock;   *)
(* requeueing, cancelling and marking done do not.  The worker lock lets   *)
(* one worker run at a time.  Slicing itself is opaque.                    *)
(***************************************************************************)
EXTENDS Naturals

CONSTANTS
    Worker,      \* the slice worker (each start is a new process)
    Api,         \* the worker's API process, when it stops the worker
    Requests,    \* the dashboard's concurrent requests
    Nobody,      \* no process: a free lock, a worker_pid that does not run
    Calls,       \* what the requests may ask for
    MaxCalls,    \* model bound: requests made
    MaxKills,    \* model bound: processes killed
    MaxFaults    \* model bound: file operations that raise

ASSUME MarkersProcesses ==
    /\ Worker # Api /\ Worker \notin Requests /\ Api \notin Requests
    /\ Nobody \notin Requests \cup {Worker, Api}
ASSUME MarkersCalls == Calls \subseteq {"scan", "requeue", "cancel", "mark"}
ASSUME MarkersBounds == MaxCalls \in Nat /\ MaxKills \in Nat /\ MaxFaults \in Nat

VARIABLES
    markers,     \* the marker files that exist
    owner,       \* the running process that .processing names in worker_pid
    lock,        \* who holds .bilive-marker-claim.lock
    history,     \* the status and result in .mp4.task.json
    review,      \* review_state of the recording's state file
    small,       \* whether the recording is below the minimum size
    pc,          \* process -> the statement it has reached
    hand,        \* the marker that the worker's except handler removes
    result,      \* what the pipeline returned
    woken,       \* a request's trigger is on its way to the worker's API
    calls, kills, faults,  \* how often the bounded things happened
    owed,        \* history: a request was accepted and neither settled nor withdrawn
    asked,       \* history: pending markers written by requests
    starts,      \* history: how often the pipeline was started
    breaks       \* history: how often the worker was killed or a statement of it raised

files == <<markers, owner, lock>>
records == <<history, review, small>>
local == <<hand, result, woken>>
bounds == <<calls, kills, faults>>
ghosts == <<owed, asked, starts, breaks>>
vars == <<files, records, pc, local, bounds, ghosts>>

Processes == Requests \cup {Worker, Api}

Kinds == {"pending", "processing", "done", "failed"}

(* "nothing" is done or skipped without candidates.                         *)
Histories == {"none", "pending", "processing", "failed", "nothing", "candidates"}

Reviews == {"unprocessed", "processing", "source_review", "candidate_review"}

SweepSteps == {"sweep", "rewrite", "reunlink"}
WorkerSteps == {"claim", "stamp", "begin", "slice", "write", "unlink", "clear",
                "history", "review", "fail", "failMark", "failUnlink", "abort",
                "quiet", "leaving"}
CallSteps == {"scanHistory", "scanReview", "requeue", "requeueHistory", "requeueDone",
              "requeueFailed", "cancel", "mark", "markPending", "markUnlink",
              "markFailed", "markHistory"}

Init ==
    /\ markers = {} /\ owner = Nobody /\ lock = Nobody
    /\ history = "none" /\ review = "unprocessed" /\ small \in BOOLEAN
    /\ pc = [p \in Processes |-> "idle"]
    /\ hand = "pending" /\ result = "nothing" /\ woken = FALSE
    /\ calls = 0 /\ kills = 0 /\ faults = 0
    /\ owed = FALSE /\ asked = 0 /\ starts = 0 /\ breaks = 0

-----------------------------------------------------------------------------
(* Common parts of steps.                                                   *)

Goes(p, from, to) == pc[p] = from /\ pc' = [pc EXCEPT ![p] = to]

Written(kind) == markers' = markers \cup {kind}
Unlinked(kind) == markers' = markers \ {kind}

Taken(p) == lock = Nobody /\ lock' = p
Released == lock' = Nobody

(* The pending marker, if it is still there, is taken back.                 *)
Withdrawn == Unlinked("pending") /\ owed' = (owed /\ "pending" \notin markers)

(* A file operation raises: a full disk, a share that is gone, a file that  *)
(* another process has open, a history lock that is not freed in time.      *)
Fault == faults < MaxFaults /\ faults' = faults + 1

-----------------------------------------------------------------------------
(* The dashboard: start_slice_scan.                                         *)

Call(name) == name \in Calls /\ calls < MaxCalls /\ calls' = calls + 1

Asked ==
    /\ Written("pending")
    /\ owed' = TRUE /\ asked' = asked + 1

(* Mutation: a processing recording is queued.                              *)
CandidateUnlessDone == ~small /\ markers \cap {"pending", "done"} = {}

IsQueueCandidate == ~small /\ markers \cap {"processing", "pending", "done"} = {}

Scan(d) ==
    /\ Goes(d, "idle", "scanHistory") /\ Call("scan")
    /\ IsQueueCandidate
    /\ Taken(d) /\ Asked
    /\ UNCHANGED <<owner, records, local, kills, faults, starts, breaks>>

ScanHistory(d) ==
    /\ Goes(d, "scanHistory", "scanReview")
    /\ history' = "pending"
    /\ UNCHANGED <<files, review, small, local, bounds, ghosts>>

(* The pending marker is taken back and the request fails.                  *)
ScanHistoryRaises(d) ==
    /\ Goes(d, "scanHistory", "idle") /\ Fault
    /\ Withdrawn /\ Released
    /\ UNCHANGED <<owner, records, local, calls, kills, asked, starts, breaks>>

ScanReview(d) ==
    /\ Goes(d, "scanReview", "idle")
    /\ \/ review' = "processing" /\ woken' = TRUE /\ UNCHANGED faults
       \/ Fault /\ UNCHANGED <<review, woken>>
    /\ Released
    /\ UNCHANGED <<markers, owner, history, small, hand, result, calls, kills, ghosts>>

-----------------------------------------------------------------------------
(* The dashboard: requeue_task, cancel_pending_task, mark_done_task.  They  *)
(* look for .processing first and hold no lock.                             *)

Check(d, name, step) ==
    /\ Goes(d, "idle", step) /\ Call(name)
    /\ "processing" \notin markers
    /\ UNCHANGED <<files, records, local, kills, faults, ghosts>>

RequeueCheck(d) == Check(d, "requeue", "requeue")
CancelCheck(d) == "pending" \in markers /\ Check(d, "cancel", "cancel")
MarkCheck(d) == Check(d, "mark", "mark")

Requeue(d) ==
    /\ Goes(d, "requeue", "requeueHistory")
    /\ Asked
    /\ UNCHANGED <<owner, lock, records, local, bounds, starts, breaks>>

RequeueHistory(d) ==
    /\ Goes(d, "requeueHistory", "requeueDone")
    /\ history' = "pending"
    /\ UNCHANGED <<files, review, small, local, bounds, ghosts>>

RequeueHistoryRaises(d) ==
    /\ Goes(d, "requeueHistory", "idle") /\ Fault
    /\ Withdrawn
    /\ UNCHANGED <<owner, lock, records, local, calls, kills, asked, starts, breaks>>

RequeueUnlink(d) ==
    /\ \/ Goes(d, "requeueDone", "requeueFailed") /\ Unlinked("done") /\ UNCHANGED woken
       \/ Goes(d, "requeueFailed", "idle") /\ Unlinked("failed") /\ woken' = TRUE
    /\ UNCHANGED <<owner, lock, records, hand, result, bounds, ghosts>>

Cancel(d) ==
    /\ Goes(d, "cancel", "idle")
    /\ Withdrawn
    /\ UNCHANGED <<owner, lock, records, local, bounds, asked, starts, breaks>>

MarkDone(d) ==
    /\ \/ Goes(d, "mark", "markPending") /\ Written("done")
       \/ Goes(d, "markFailed", "markHistory") /\ Unlinked("failed")
    /\ UNCHANGED <<owner, lock, records, local, bounds, ghosts>>

(* A pending marker that disappears after the look at it fails the request. *)
MarkPending(d) ==
    /\ \/ /\ Goes(d, "markPending",
                   IF "pending" \in markers THEN "markUnlink" ELSE "markFailed")
          /\ UNCHANGED <<markers, owed>>
       \/ /\ Goes(d, "markUnlink",
                   IF "pending" \in markers THEN "markFailed" ELSE "idle")
          /\ Withdrawn
    /\ UNCHANGED <<owner, lock, records, local, bounds, asked, starts, breaks>>

MarkHistory(d) ==
    /\ Goes(d, "markHistory", "idle")
    /\ \/ history' = "nothing" /\ UNCHANGED faults
       \/ Fault /\ UNCHANGED history
    /\ UNCHANGED <<files, review, small, local, calls, kills, ghosts>>

-----------------------------------------------------------------------------
(* recover_processing_markers, by the worker and by the API's stop.         *)

(* Mutation: recovery does not ask whether the worker runs.                 *)
AbandonedAlways == "processing" \in markers

(* A processing marker whose worker_pid is missing or does not run.         *)
IsAbandoned == "processing" \in markers /\ owner = Nobody

AfterSweep(p) == IF p = Worker THEN "claim" ELSE "idle"

StopWorker ==
    /\ Goes(Api, "idle", "sweep")
    /\ UNCHANGED <<files, records, local, bounds, ghosts>>

SweepNothing(p) ==
    /\ Goes(p, "sweep", AfterSweep(p))
    /\ ~IsAbandoned
    /\ "processing" \in markers => lock = Nobody
    /\ UNCHANGED <<files, records, local, bounds, ghosts>>

(* A pending marker that is already there is kept as it is.                 *)
SweepWrite(p) ==
    /\ IsAbandoned
    /\ Taken(p) /\ Written("pending")
    /\ Goes(p, "sweep", IF "pending" \in markers THEN "reunlink" ELSE "rewrite")
    /\ UNCHANGED <<owner, records, local, bounds, ghosts>>

SweepHistory(p) ==
    /\ Goes(p, "rewrite", "reunlink")
    /\ history' = "pending"
    /\ UNCHANGED <<files, review, small, local, bounds, ghosts>>

(* Mutation: recovery of a marker that was requeued meanwhile drops both.   *)
SweepUnlinkBoth(p) ==
    /\ Goes(p, "reunlink", AfterSweep(p))
    /\ markers' = markers \ {"processing", "pending"} /\ Released
    /\ UNCHANGED <<owner, records, local, bounds, ghosts>>

SweepUnlink(p) ==
    /\ Goes(p, "reunlink", AfterSweep(p))
    /\ Unlinked("processing") /\ Released
    /\ UNCHANGED <<owner, records, local, bounds, ghosts>>

(* The claim lock is not freed in time, or the history cannot be written:   *)
(* the exception ends the worker, or the stop request.                      *)
SweepRaises(p) ==
    /\ Fault
    /\ \/ Goes(p, "sweep", "idle") /\ "processing" \in markers /\ lock # Nobody
          /\ UNCHANGED lock
       \/ Goes(p, "rewrite", "idle") /\ Released
    /\ breaks' = breaks + (IF p = Worker THEN 1 ELSE 0)
    /\ UNCHANGED <<markers, owner, records, local, calls, kills, owed, asked, starts>>

-----------------------------------------------------------------------------
(* The worker: started by a request for any recording, it claims.           *)

Start ==
    /\ Goes(Worker, "idle", "sweep")
    /\ hand' = "pending"
    /\ UNCHANGED <<files, records, result, woken, bounds, ghosts>>

(* The API starts a worker if a marker is pending and no worker runs.       *)
RunOnce ==
    /\ woken /\ woken' = FALSE
    /\ IF "pending" \in markers /\ pc[Worker] = "idle"
          THEN Goes(Worker, "idle", "sweep") /\ hand' = "pending"
          ELSE UNCHANGED <<pc, hand>>
    /\ UNCHANGED <<files, records, result, bounds, ghosts>>

ClaimNothing ==
    /\ Goes(Worker, "claim", "quiet")
    /\ "pending" \notin markers \/ "processing" \in markers \/ lock # Nobody
    /\ UNCHANGED <<files, records, local, bounds, ghosts>>

Claimable == "pending" \in markers /\ "processing" \notin markers

ClaimRename ==
    /\ Goes(Worker, "claim", "stamp")
    /\ Claimable /\ Taken(Worker)
    /\ markers' = (markers \ {"pending"}) \cup {"processing"}
    /\ UNCHANGED <<owner, records, local, bounds, ghosts>>

ClaimRaises ==
    /\ Goes(Worker, "claim", "fail") /\ Fault
    /\ Claimable /\ lock = Nobody
    /\ breaks' = breaks + 1
    /\ UNCHANGED <<files, records, local, calls, kills, owed, asked, starts>>

(* worker_pid is written into the renamed marker.                           *)
Stamp ==
    /\ Goes(Worker, "stamp", "begin")
    /\ owner' = Worker /\ hand' = "processing" /\ Released
    /\ UNCHANGED <<markers, records, result, woken, bounds, ghosts>>

(* The except handler then takes the pending marker for the one in hand.    *)
StampRaises ==
    /\ Goes(Worker, "stamp", "fail") /\ Fault
    /\ Released /\ breaks' = breaks + 1
    /\ UNCHANGED <<markers, owner, records, local, calls, kills, owed, asked, starts>>

-----------------------------------------------------------------------------
(* The worker: slicing and its outcome.                                     *)

BeginSlice ==
    /\ Goes(Worker, "begin", "slice") /\ ~small
    /\ history' = "processing" /\ starts' = starts + 1
    /\ UNCHANGED <<files, review, small, local, bounds, owed, asked, breaks>>

SkipSmall ==
    /\ Goes(Worker, "begin", "write") /\ small
    /\ result' = "nothing"
    /\ UNCHANGED <<files, records, hand, woken, bounds, ghosts>>

SliceEnds ==
    /\ \/ Goes(Worker, "slice", "write") /\ result' \in {"candidates", "nothing"}
       \/ Goes(Worker, "slice", "fail") /\ UNCHANGED result
    /\ UNCHANGED <<files, records, hand, woken, bounds, ghosts>>

(* Mutation: the processing marker is removed before .done is written.      *)
UnlinkFirst ==
    /\ Goes(Worker, "write", "unlink")
    /\ markers' = markers \ {"processing"} /\ owner' = Nobody
    /\ UNCHANGED <<lock, records, local, bounds, ghosts>>

(* The request is settled; a pending marker beside it is a newer request.   *)
WriteDone ==
    /\ Goes(Worker, "write", "unlink")
    /\ Written("done") /\ owed' = (owed /\ "pending" \in markers)
    /\ UNCHANGED <<owner, lock, records, local, bounds, asked, starts, breaks>>

(* Mutation: the processing marker is left behind.                          *)
UnlinkForgotten ==
    /\ Goes(Worker, "unlink", IF small THEN "history" ELSE "clear")
    /\ owner' = Nobody
    /\ UNCHANGED <<markers, lock, records, local, bounds, ghosts>>

UnlinkProcessing ==
    /\ Goes(Worker, "unlink", IF small THEN "history" ELSE "clear")
    /\ Unlinked("processing") /\ owner' = Nobody
    /\ UNCHANGED <<lock, records, local, bounds, ghosts>>

ClearFailed ==
    /\ Goes(Worker, "clear", "history")
    /\ Unlinked("failed")
    /\ UNCHANGED <<owner, lock, records, local, bounds, ghosts>>

RecordHistory ==
    /\ Goes(Worker, "history", "review")
    /\ history' = result
    /\ UNCHANGED <<files, review, small, local, bounds, ghosts>>

(* The last write for a recording; the next pass begins with the recovery.  *)
RecordReview ==
    /\ Goes(Worker, "review", "sweep")
    /\ review' = IF result = "candidates" THEN "candidate_review" ELSE "source_review"
    /\ hand' = "pending"
    /\ UNCHANGED <<files, history, small, result, woken, bounds, ghosts>>

Raises ==
    /\ \E step \in {"begin", "write", "unlink", "clear", "history", "review"} :
          Goes(Worker, step, "fail")
    /\ Fault /\ breaks' = breaks + 1
    /\ UNCHANGED <<files, records, local, calls, kills, owed, asked, starts>>

-----------------------------------------------------------------------------
(* The worker: the except handler, and the loop until all is quiet.         *)

(* A history that cannot be written is passed over; so is the log of        *)
(* technical experiences, which no step reads.                              *)
FailHistory ==
    /\ Goes(Worker, "fail", "failMark")
    /\ \/ history' = "failed" /\ UNCHANGED faults
       \/ Fault /\ UNCHANGED history
    /\ UNCHANGED <<files, review, small, local, calls, kills, ghosts>>

StillOwed == owed /\ hand = "processing" /\ "pending" \in markers

FailMarker ==
    /\ Goes(Worker, "failMark", "failUnlink")
    /\ Written("failed") /\ owed' = StillOwed
    /\ UNCHANGED <<owner, lock, records, local, bounds, asked, starts, breaks>>

FailMarkerRaises ==
    /\ Goes(Worker, "failMark", "abort") /\ Fault
    /\ owed' = (IF history = "failed" THEN StillOwed ELSE owed)
    /\ UNCHANGED <<files, records, local, calls, kills, asked, starts, breaks>>

(* The marker in hand goes; after an exception of the handler, the worker.  *)
FailUnlink ==
    /\ Goes(Worker, "failUnlink", "quiet") \/ Goes(Worker, "abort", "idle")
    /\ Unlinked(hand)
    /\ owner' = IF hand = "processing" THEN Nobody ELSE owner
    /\ UNCHANGED <<lock, records, local, bounds, ghosts>>

(* The loop ends after ten passes that found nothing; they are one here.    *)
AnotherPass ==
    /\ Goes(Worker, "quiet", "sweep")
    /\ hand' = "pending"
    /\ UNCHANGED <<files, records, result, woken, bounds, ghosts>>

(* Mutation: the worker leaves after its first pass, whatever is pending.   *)
LeaveAtOnce ==
    /\ \/ Goes(Worker, "quiet", "leaving")
       \/ Goes(Worker, "leaving", "idle")
    /\ UNCHANGED <<files, records, local, bounds, ghosts>>

Leave ==
    /\ \/ Goes(Worker, "quiet", "leaving") /\ "pending" \notin markers
       \/ Goes(Worker, "leaving", "idle")
    /\ UNCHANGED <<files, records, local, bounds, ghosts>>

-----------------------------------------------------------------------------
(* A process is killed: the system's stop, Windows at night, a crash.  Its  *)
(* lock and its worker_pid are then those of a process that does not run.   *)
Kill(p) ==
    /\ pc[p] # "idle" /\ kills < MaxKills /\ kills' = kills + 1
    /\ pc' = [pc EXCEPT ![p] = "idle"]
    /\ lock' = IF lock = p THEN Nobody ELSE lock
    /\ owner' = IF p = Worker THEN Nobody ELSE owner
    /\ breaks' = breaks + (IF p = Worker THEN 1 ELSE 0)
    /\ UNCHANGED <<markers, records, local, calls, faults, owed, asked, starts>>

ScanCall(d) == Scan(d) \/ ScanHistory(d) \/ ScanHistoryRaises(d) \/ ScanReview(d)
RequeueCall(d) == \/ RequeueCheck(d) \/ Requeue(d) \/ RequeueHistory(d)
                  \/ RequeueHistoryRaises(d) \/ RequeueUnlink(d)
CancelCall(d) == CancelCheck(d) \/ Cancel(d)
MarkCall(d) == MarkCheck(d) \/ MarkDone(d) \/ MarkPending(d) \/ MarkHistory(d)
Request(d) == ScanCall(d) \/ RequeueCall(d) \/ CancelCall(d) \/ MarkCall(d)

Sweep(p) == \/ SweepNothing(p) \/ SweepWrite(p) \/ SweepHistory(p)
            \/ SweepUnlink(p) \/ SweepRaises(p)
Claim == ClaimNothing \/ ClaimRename \/ ClaimRaises \/ Stamp \/ StampRaises
Slice == \/ BeginSlice \/ SkipSmall \/ SliceEnds \/ WriteDone \/ UnlinkProcessing
         \/ ClearFailed \/ RecordHistory \/ RecordReview \/ Raises
Except == FailHistory \/ FailMarker \/ FailMarkerRaises \/ FailUnlink
Work == Sweep(Worker) \/ Claim \/ Slice \/ Except \/ AnotherPass \/ Leave

Next ==
    \/ \E d \in Requests : Request(d)
    \/ StopWorker \/ Sweep(Api)
    \/ Start \/ RunOnce \/ Work
    \/ \E p \in Processes : Kill(p)

Spec == Init /\ [][Next]_vars

(* Threads and processes that run go on; a trigger arrives.  No one is      *)
(* obliged to ask, to stop the worker, or to start it for another reason.   *)
FairSpec ==
    /\ Spec
    /\ WF_vars(Work) /\ WF_vars(Sweep(Api)) /\ WF_vars(RunOnce)
    /\ \A d \in Requests : WF_vars(pc[d] # "idle" /\ Request(d))

-----------------------------------------------------------------------------
(* Properties.                                                              *)

(* Every variable keeps its type.                                           *)
TypeOK ==
    /\ markers \subseteq Kinds /\ owner \in {Worker, Nobody}
    /\ lock \in Processes \cup {Nobody}
    /\ history \in Histories /\ review \in Reviews /\ small \in BOOLEAN
    /\ pc \in [Processes -> {"idle"} \cup SweepSteps \cup WorkerSteps \cup CallSteps]
    /\ hand \in {"pending", "processing"} /\ result \in {"candidates", "nothing"}
    /\ woken \in BOOLEAN
    /\ calls \in Nat /\ kills \in Nat /\ faults \in Nat
    /\ owed \in BOOLEAN /\ asked \in Nat /\ starts \in Nat /\ breaks \in Nat

Slicing == pc[Worker] \in {"begin", "slice", "write", "unlink"}
Recovering(p) == pc[p] \in {"rewrite", "reunlink"}
RecordSteps == {"write", "unlink", "clear", "history", "review"}
FailSteps == {"fail", "failMark", "failUnlink", "abort"}

(* While the worker slices a recording, .mp4.processing stands next to it   *)
(* and names this process, and nobody is putting the recording back into    *)
(* the queue: recovery (watcher.py:48) reads the marker and the claim       *)
(* (watcher.py:91) renames it before it stamps it, both under the room's    *)
(* claim lock.                                                              *)
MarkedWhileSliced ==
    Slicing => /\ "processing" \in markers /\ owner = Worker
               /\ \A p \in {Worker, Api} : ~Recovering(p)

LockSteps(p) == IF p = Worker THEN {"rewrite", "reunlink", "stamp"}
                ELSE IF p = Api THEN {"rewrite", "reunlink"}
                ELSE {"scanHistory", "scanReview"}

(* Why: the claim lock is held by exactly the process in a locked step; one *)
(* that recovers has a marker without a running owner in front of it, and   *)
(* so has the worker until it stamps it; a marker names the worker only     *)
(* while the worker has it in hand.                                         *)
MarkInv ==
    /\ \A p \in Processes : lock = p <=> pc[p] \in LockSteps(p)
    /\ \A p \in {Worker, Api} : Recovering(p) => "processing" \in markers /\ owner = Nobody
    /\ pc[Worker] = "stamp" => "processing" \in markers /\ owner = Nobody
    /\ pc[Worker] \in SweepSteps \cup {"claim", "stamp"} => hand = "pending"
    /\ Slicing => "processing" \in markers /\ owner = Worker
    /\ owner = Worker => /\ "processing" \in markers /\ hand = "processing"
                         /\ Slicing \/ pc[Worker] \in FailSteps
    /\ pc[Worker] \in {"begin", "slice"} \cup RecordSteps => hand = "processing"
    /\ pc[Worker] \in {"clear", "history", "review"} => "processing" \notin markers
    /\ pc[Worker] \in FailSteps /\ hand = "processing" /\ "processing" \in markers
          => owner = Worker

(* As long as no file operation raises, an accepted request that is neither *)
(* settled nor taken back has a marker from which a worker can resume it,   *)
(* whoever is killed and whatever recovery, claims, requeues, cancels and   *)
(* the end of another run of the recording do in between.                   *)
RequestKept == owed /\ faults = 0 => markers \cap {"pending", "processing"} # {}

(* The pipeline is started once per pending marker that a request wrote,    *)
(* and again only for a worker that was killed or an operation that raised. *)
SlicedOnceUnlessInterrupted == starts <= asked + breaks

(* _determine_status: what the dashboard shows for the recording.           *)
Shown ==
    IF "done" \in markers THEN "done"
    ELSE IF "processing" \in markers THEN "processing"
    ELSE IF "pending" \in markers THEN "pending"
    ELSE IF "failed" \in markers THEN "failed" ELSE "ready"

(* Where requests only scan and cancel, candidates that were once recorded  *)
(* in the task history are not overwritten by a later run as long as no     *)
(* file operation raises, whoever is killed: a new scan passes over a       *)
(* recording whose .done exists (slice_control.py:136), and recovery cannot *)
(* bring back a run whose .processing is gone before its history is written *)
(* (watcher.py:290-314).                                                    *)
ResultsSurvive ==
    [][history = "candidates" /\ faults' = 0 => history' = "candidates"]_vars

(* ... and the status shown moves along README.md:187 only: done is final,  *)
(* an outcome appears only after the recording was shown as processing, and *)
(* a failed one is next shown as pending.  A cancel shows the state the     *)
(* request found: ready or failed.                                          *)
ShownFollowsTheDiagram ==
    [][Shown' # Shown =>
         /\ Shown # "done"
         /\ Shown' = "done" => Shown = "processing"
         /\ Shown' = "processing" => Shown = "pending"
         /\ Shown = "failed" => Shown' = "pending"]_vars

(* "Drain work created while a one-shot worker is already running"          *)
(* (watcher.py:208): a request that is queued while a worker is in its loop *)
(* ends, unless the worker is killed or one of its operations raises.       *)
RunningWorkerDrains ==
    \A n \in 0..(MaxKills + MaxFaults) :
        (owed /\ pc[Worker] \notin {"idle", "leaving"} /\ breaks = n)
            ~> (~owed \/ breaks # n)

(* The same for every accepted request whose trigger was sent. The code     *)
(* does not keep this: what is queued while the worker leaves               *)
(* (watcher.py:226) waits for the next trigger.                             *)
EveryRequestEnds == owed ~> ~owed
=============================================================================
