----------------------------- MODULE ActionJobs -----------------------------
(***************************************************************************)
(* The action-job queue (src/server/action_jobs.py): a directory in which  *)
(* a job is a file <id>.<state>.json that moves through its states by      *)
(* renames, writes and unlinks.  The dashboard submits jobs; one-shot      *)
(* workers recover the jobs of dead workers, claim the oldest, execute it  *)
(* and write its outcome.  Submitting, recovering and claiming hold the    *)
(* kernel lock .enqueue.lock, which dies with its holder; executing and    *)
(* finishing hold none.  A worker may be killed between any two file       *)
(* operations.                                                             *)
(*                                                                         *)
(* Abstractions.  Jobs are numbered by created_ns.  A target is a segment; *)
(* the action and its payload only choose between "already pending" and    *)
(* "conflict", which both write nothing.  The progress rewrites of a       *)
(* processing file do not change what any step reads.  .claim.lock is only *)
(* taken inside .enqueue.lock and is left out.                             *)
(***************************************************************************)
EXTENDS Naturals

CONSTANTS
    Workers,          \* the processes that may work on jobs at one time
    Recoverers,       \* those that only recover: the API while it stops a worker
    Targets,          \* the segments jobs are about
    NoTarget,         \* no segment
    Nobody,           \* no process: a free lock, a pid that does not run
    Submitter,        \* the dashboard's request that holds the lock
    Stranger,         \* an unrelated process that was given a dead worker's pid
    MaxJobs,          \* model bound: jobs ever submitted
    MaxCrashes,       \* model bound: kills of workers
    FilesMayBeBusy,   \* whether unlinking a file somebody reads can raise
    PidsAreReused     \* whether a dead worker's pid may come to life again

ASSUME JobBoundsAssumption == MaxJobs \in Nat /\ MaxCrashes \in Nat
ASSUME SwitchesAssumption == FilesMayBeBusy \in BOOLEAN /\ PidsAreReused \in BOOLEAN
ASSUME ProcessesAssumption ==
    /\ Recoverers \subseteq Workers
    /\ NoTarget \notin Targets
    /\ Nobody \notin Workers /\ Submitter \notin Workers /\ Stranger \notin Workers
    /\ Nobody # Submitter /\ Nobody # Stranger

VARIABLES
    files,        \* job -> the states in which it has a file
    target,       \* job -> its segment_id
    owner,        \* job -> the running process its worker_pid names, or Nobody
    nextJob,      \* the number of the next job
    unreadable,   \* jobs whose pending or processing file is not valid JSON
    lock,         \* who holds .enqueue.lock
    submitting,   \* the job the submitter has written and not recorded, or 0
    pc,           \* worker -> where it is
    cur,          \* worker -> the job it has in hand, or 0
    shown,        \* target -> the action_state of the segment's history
    crashes,      \* how many workers were killed
    runs,         \* history: job -> how often its execution was started
    interrupted,  \* history: jobs killed or refused after their execution started
    unsynced      \* history: jobs of which some action_state was not written

queue == <<files, target, owner, nextJob, unreadable>>
history == <<runs, interrupted, unsynced>>
vars == <<queue, lock, submitting, pc, cur, shown, crashes, history>>

Jobs == 1 .. MaxJobs

FileKinds == {"pending", "processing", "done", "failed", "invalid"}

Processes == Workers \cup {Nobody, Submitter, Stranger}

Many == 2                                   \* model bound: 2 stands for "twice or more"
Count(n) == IF n < Many THEN n + 1 ELSE n

(* "down" is a worker that ended by itself, "gone" one that did not; and    *)
(* "sweep", "swept", "select" and "stamp" hold the lock.                    *)
Steps == {"down", "gone", "recover", "sweep", "swept", "claim", "select", "stamp",
          "begin", "execute", "recordDone", "writeDone", "unlinkDone",
          "recordFailed", "writeFailed", "unlinkFailed"}

Locked == {"sweep", "swept", "select", "stamp"}
Executing == {"execute", "recordDone", "writeDone", "unlinkDone",
              "recordFailed", "writeFailed", "unlinkFailed"}

Init ==
    /\ files = [j \in Jobs |-> {}]
    /\ target = [j \in Jobs |-> NoTarget]
    /\ owner = [j \in Jobs |-> Nobody]
    /\ nextJob = 1 /\ unreadable = {}
    /\ lock = Nobody /\ submitting = 0
    /\ pc = [w \in Workers |-> "down"]
    /\ cur = [w \in Workers |-> 0]
    /\ shown = [t \in Targets |-> [job |-> 0, status |-> "none"]]
    /\ crashes = 0
    /\ runs = [j \in Jobs |-> 0]
    /\ interrupted = {} /\ unsynced = {}

-----------------------------------------------------------------------------
(* Files.                                                                   *)

(* Mutation: a job that was set aside is no obstacle.                       *)
ActiveUnlessAside(j) == files[j] \cap {"pending", "processing"} # {}

Active(j) == files[j] \cap {"pending", "processing", "invalid"} # {}

Written(j, kind) == files' = [files EXCEPT ![j] = @ \cup {kind}]
Unlinked(j, kind) == files' = [files EXCEPT ![j] = @ \ {kind}]
Renamed(j, from, to) == files' = [files EXCEPT ![j] = (@ \ {from}) \cup {to}]

(* _corrupt_job_target: an unreadable file is traced to a segment through   *)
(* the action_state that names its job; untraced, it blocks every segment.  *)
Traced(j) == shown[target[j]].job = j

(* Mutation: only waiting jobs are looked for.                              *)
BlockedByWaiting(t) == \E j \in Jobs : "pending" \in files[j] /\ target[j] = t

(* find_active_segment_job finds a job, or refuses.                         *)
Blocked(t) == \E j \in Jobs :
    Active(j) /\ (target[j] = t \/ (j \in unreadable /\ ~Traced(j)))

-----------------------------------------------------------------------------
(* The dashboard.                                                           *)

(* enqueue_action_job, the request's first half; the request keeps the lock *)
(* until the action_state is recorded.                                      *)
Submit(t) ==
    /\ lock = Nobody
    /\ ~Blocked(t)
    /\ nextJob <= MaxJobs
    /\ Written(nextJob, "pending")
    /\ target' = [target EXCEPT ![nextJob] = t]
    /\ nextJob' = nextJob + 1
    /\ submitting' = nextJob
    /\ lock' = Submitter
    /\ UNCHANGED <<owner, unreadable, pc, cur, shown, crashes, history>>

Released == lock' = Nobody /\ submitting' = 0

RecordPending ==
    /\ lock = Submitter
    /\ shown' = [shown EXCEPT ![target[submitting]] = [job |-> submitting, status |-> "pending"]]
    /\ Released
    /\ UNCHANGED <<queue, pc, cur, crashes, history>>

(* The request dies, or cannot write the history, after writing the job.    *)
SubmitterFails ==
    /\ lock = Submitter
    /\ unsynced' = unsynced \cup {submitting}
    /\ Released
    /\ UNCHANGED <<queue, pc, cur, shown, crashes, runs, interrupted>>

(* A job file nobody has in hand is damaged.                                *)
Damage(j) ==
    /\ files[j] \in {{"pending"}, {"processing"}}
    /\ \A w \in Workers : cur[w] # j
    /\ submitting # j
    /\ unreadable' = unreadable \cup {j}
    /\ UNCHANGED <<files, target, owner, nextJob, lock, submitting, pc, cur, shown,
                   crashes, history>>

-----------------------------------------------------------------------------
(* A worker: recover_action_jobs.                                           *)

Goes(w, step) == pc' = [pc EXCEPT ![w] = step]
Holds(w, j) == cur' = [cur EXCEPT ![w] = j]

(* It ends early.  (How a recovery of the API ended makes no difference.)   *)
Breaks(w) == Goes(w, IF w \in Recoverers THEN "down" ELSE "gone")

Start(w) ==
    /\ pc[w] \in {"down", "gone"}
    /\ Goes(w, "recover")
    /\ UNCHANGED <<queue, lock, submitting, cur, shown, crashes, history>>

BeginSweep(w) ==
    /\ pc[w] = "recover" /\ lock = Nobody
    /\ lock' = w
    /\ Goes(w, "sweep")
    /\ UNCHANGED <<queue, submitting, cur, shown, crashes, history>>

(* os.replace may be refused, which is swallowed: the file then stays where *)
(* it is and this worker passes over it.                                    *)
SetAside(w, j, kind) ==
    /\ kind \in files[j] /\ j \in unreadable
    /\ Renamed(j, kind, "invalid")
    /\ UNCHANGED <<target, owner, nextJob, unreadable, lock, submitting, pc, cur, shown,
                   crashes, history>>

SweepQuarantine(w, j) == pc[w] = "sweep" /\ SetAside(w, j, "processing")

(* Mutation: recovery does not ask whether the worker runs.                 *)
StaleAlways(j) == "processing" \in files[j]

(* A processing file whose worker_pid is missing or does not run.           *)
Stale(j) == "processing" \in files[j] /\ owner[j] = Nobody

(* Mutation: the processing file is unlinked before the pending is written. *)
SweepUnlinksFirst(w, j) ==
    /\ pc[w] = "sweep"
    /\ Stale(j) /\ j \notin unreadable
    /\ Unlinked(j, "processing")
    /\ Holds(w, j) /\ Goes(w, "swept")
    /\ UNCHANGED <<target, owner, nextJob, unreadable, lock, submitting, shown, crashes, history>>

SweepWrite(w, j) ==
    /\ pc[w] = "sweep"
    /\ Stale(j) /\ j \notin unreadable
    /\ Written(j, "pending")
    /\ Holds(w, j) /\ Goes(w, "swept")
    /\ UNCHANGED <<target, owner, nextJob, unreadable, lock, submitting, shown, crashes, history>>

SweepUnlink(w) ==
    /\ pc[w] = "swept"
    /\ Unlinked(cur[w], "processing")
    /\ Holds(w, 0) /\ Goes(w, "sweep")
    /\ UNCHANGED <<target, owner, nextJob, unreadable, lock, submitting, shown, crashes, history>>

EndSweep(w) ==
    /\ pc[w] = "sweep"
    /\ \A j \in Jobs : "processing" \in files[j] =>
          IF j \in unreadable THEN FilesMayBeBusy ELSE owner[j] # Nobody
    /\ lock' = Nobody
    /\ Goes(w, IF w \in Recoverers THEN "down" ELSE "claim")
    /\ UNCHANGED <<queue, submitting, cur, shown, crashes, history>>

-----------------------------------------------------------------------------
(* A worker: claim_next_action_job.                                         *)

BeginClaim(w) ==
    /\ pc[w] = "claim" /\ lock = Nobody
    /\ lock' = w
    /\ Goes(w, "select")
    /\ UNCHANGED <<queue, submitting, cur, shown, crashes, history>>

SelectQuarantine(w, j) == pc[w] = "select" /\ SetAside(w, j, "pending")

Waiting == {j \in Jobs : "pending" \in files[j]}

(* The rename brings the pending file's content, which names no worker.     *)
Rename(w, j) ==
    /\ pc[w] = "select"
    /\ Waiting \cap unreadable = {} \/ FilesMayBeBusy
    /\ j \in Waiting \ unreadable /\ \A i \in Waiting \ unreadable : j <= i
    /\ Renamed(j, "pending", "processing")
    /\ owner' = [owner EXCEPT ![j] = Nobody]
    /\ Holds(w, j) /\ Goes(w, "stamp")
    /\ UNCHANGED <<target, nextJob, unreadable, lock, submitting, shown, crashes, history>>

(* The file is rewritten with worker_pid and the lock is released.          *)
Stamp(w) ==
    /\ pc[w] = "stamp"
    /\ owner' = [owner EXCEPT ![cur[w]] = w]
    /\ lock' = Nobody
    /\ Goes(w, "begin")
    /\ UNCHANGED <<files, target, nextJob, unreadable, submitting, cur, shown, crashes, history>>

(* Nothing to claim: process_pending_until_quiet looks again, or exits.     *)
NothingWaits(w) ==
    /\ pc[w] = "select"
    /\ Waiting = {} \/ (Waiting \subseteq unreadable /\ FilesMayBeBusy)
    /\ lock' = Nobody
    /\ \E step \in {"recover", "down"} : Goes(w, step)
    /\ UNCHANGED <<queue, submitting, cur, shown, crashes, history>>

(* _queue_lock gives up; watcher.main takes it for "already running".       *)
LockTimesOut(w) ==
    /\ pc[w] \in {"recover", "claim"} /\ lock # Nobody
    /\ Breaks(w)
    /\ UNCHANGED <<queue, lock, submitting, cur, shown, crashes, history>>

-----------------------------------------------------------------------------
(* A worker: process_action_jobs with the claimed job.                      *)

(* _record_segment_job_state swallows its errors.                           *)
Record(j, status) ==
    \/ /\ shown' = [shown EXCEPT ![target[j]] = [job |-> j, status |-> status]]
       /\ UNCHANGED unsynced
    \/ /\ unsynced' = unsynced \cup {j}
       /\ UNCHANGED shown

BeginExecution(w) ==
    /\ pc[w] = "begin"
    /\ Record(cur[w], "processing")
    /\ runs' = [runs EXCEPT ![cur[w]] = Count(@)]
    /\ Goes(w, "execute")
    /\ UNCHANGED <<queue, lock, submitting, cur, crashes, interrupted>>

(* The executor returns, or raises.                                         *)
EndExecution(w) ==
    /\ pc[w] = "execute"
    /\ \E step \in {"recordDone", "recordFailed"} : Goes(w, step)
    /\ UNCHANGED <<queue, lock, submitting, cur, shown, crashes, history>>

(* Mutation: only failures are recorded.                                    *)
RecordFailureOnly(w) ==
    /\ \/ pc[w] = "recordDone" /\ Goes(w, "writeDone") /\ UNCHANGED <<shown, unsynced>>
       \/ pc[w] = "recordFailed" /\ Record(cur[w], "failed") /\ Goes(w, "writeFailed")
    /\ UNCHANGED <<queue, lock, submitting, cur, crashes, runs, interrupted>>

RecordOutcome(w) ==
    /\ \/ pc[w] = "recordDone" /\ Record(cur[w], "done") /\ Goes(w, "writeDone")
       \/ pc[w] = "recordFailed" /\ Record(cur[w], "failed") /\ Goes(w, "writeFailed")
    /\ UNCHANGED <<queue, lock, submitting, cur, crashes, runs, interrupted>>

(* _finish_job: the outcome is written, then the processing file unlinked.  *)
WriteOutcome(w) ==
    /\ \/ pc[w] = "writeDone" /\ Written(cur[w], "done") /\ Goes(w, "unlinkDone")
       \/ pc[w] = "writeFailed" /\ Written(cur[w], "failed") /\ Goes(w, "unlinkFailed")
    /\ UNCHANGED <<target, owner, nextJob, unreadable, lock, submitting, cur, shown,
                   crashes, history>>

(* Mutation: a refused unlink is ignored.                                   *)
UnlinkIgnored(w) ==
    /\ pc[w] \in {"unlinkDone", "unlinkFailed"}
    /\ Holds(w, 0) /\ Goes(w, "claim")
    /\ UNCHANGED <<queue, lock, submitting, shown, crashes, history>>

UnlinkProcessing(w) ==
    /\ pc[w] \in {"unlinkDone", "unlinkFailed"}
    /\ Unlinked(cur[w], "processing")
    /\ owner' = [owner EXCEPT ![cur[w]] = Nobody]
    /\ Holds(w, 0) /\ Goes(w, "claim")
    /\ UNCHANGED <<target, nextJob, unreadable, lock, submitting, shown, crashes, history>>

(* Finishing "done" raises inside the try block: the job is failed as well. *)
(* Finishing "failed" raises out of the worker, as Kill.                    *)
FinishRaises(w) ==
    /\ FilesMayBeBusy
    /\ pc[w] \in {"writeDone", "unlinkDone"}
    /\ interrupted' = interrupted \cup {cur[w]}
    /\ Goes(w, "recordFailed")
    /\ UNCHANGED <<queue, lock, submitting, cur, shown, crashes, runs, unsynced>>

-----------------------------------------------------------------------------
(* The operating system.                                                    *)

(* A worker is killed (stop_worker, a reboot); its kernel lock is released. *)
Kill(w) ==
    /\ pc[w] \notin {"down", "gone"} /\ crashes < MaxCrashes
    /\ crashes' = crashes + 1
    /\ lock' = IF lock = w THEN Nobody ELSE lock
    /\ owner' = [j \in Jobs |-> IF owner[j] = w THEN Nobody ELSE owner[j]]
    /\ interrupted' = interrupted \cup (IF pc[w] \in Executing THEN {cur[w]} ELSE {})
    /\ Holds(w, 0) /\ Breaks(w)
    /\ UNCHANGED <<files, target, nextJob, unreadable, submitting, shown, runs, unsynced>>

(* The pid in an abandoned processing file is given to another process, or  *)
(* that process ends.                                                       *)
ReusePid(j) ==
    /\ PidsAreReused
    /\ "processing" \in files[j] /\ owner[j] \in {Nobody, Stranger}
    /\ \A w \in Workers : cur[w] # j
    /\ \E p \in {Nobody, Stranger} : owner' = [owner EXCEPT ![j] = p]
    /\ UNCHANGED <<files, target, nextJob, unreadable, lock, submitting, pc, cur, shown,
                   crashes, history>>

-----------------------------------------------------------------------------

Recovering(w) ==
    \/ BeginSweep(w) \/ SweepUnlink(w) \/ EndSweep(w)
    \/ \E j \in Jobs : SweepQuarantine(w, j) \/ SweepWrite(w, j)

Claiming(w) ==
    \/ BeginClaim(w) \/ Stamp(w) \/ NothingWaits(w)
    \/ \E j \in Jobs : SelectQuarantine(w, j) \/ Rename(w, j)

Running(w) ==
    \/ BeginExecution(w) \/ EndExecution(w) \/ RecordOutcome(w)
    \/ WriteOutcome(w) \/ UnlinkProcessing(w) \/ FinishRaises(w)

Worker(w) == Start(w) \/ Recovering(w) \/ Claiming(w) \/ Running(w)

Dashboard == RecordPending \/ SubmitterFails \/ \E t \in Targets : Submit(t)

Environment ==
    \/ \E j \in Jobs : Damage(j) \/ ReusePid(j)
    \/ \E w \in Workers : Kill(w) \/ LockTimesOut(w)

Next == Dashboard \/ Environment \/ \E w \in Workers : Worker(w)

Spec == Init /\ [][Next]_vars

(* A request returns, and a worker that is not killed proceeds, if only to  *)
(* give up on the lock.  Nobody is obliged to start a worker: a request     *)
(* triggers one once, without looking at the result, and the recorder's     *)
(* dispatch does so for remux jobs only.                                    *)
Progress ==
    /\ WF_vars(RecordPending \/ SubmitterFails)
    /\ \A w \in Workers :
          WF_vars(Recovering(w) \/ Claiming(w) \/ Running(w) \/ LockTimesOut(w))

FairSpec == Spec /\ Progress

-----------------------------------------------------------------------------
(* Properties.                                                              *)

(* Every variable has its type.                                             *)
TypeOK ==
    /\ files \in [Jobs -> SUBSET FileKinds]
    /\ target \in [Jobs -> Targets \cup {NoTarget}]
    /\ owner \in [Jobs -> Workers \cup {Nobody, Stranger}]
    /\ nextJob \in 1 .. MaxJobs + 1
    /\ unreadable \subseteq Jobs
    /\ lock \in Processes
    /\ submitting \in Jobs \cup {0}
    /\ pc \in [Workers -> Steps]
    /\ cur \in [Workers -> Jobs \cup {0}]
    /\ shown \in [Targets -> [job : Jobs \cup {0},
                              status : {"none", "pending", "processing", "done", "failed"}]]
    /\ crashes \in 0 .. MaxCrashes
    /\ runs \in [Jobs -> 0 .. Many]
    /\ interrupted \subseteq Jobs /\ unsynced \subseteq Jobs

(* A segment never has two jobs that are waiting, running or set aside: the *)
(* submission's check, the claim's rename and the recovery's write and      *)
(* unlink exclude each other even though finishing takes no lock.           *)
OneActivePerTarget ==
    \A i, j \in Jobs : i # j /\ Active(i) /\ Active(j) => target[i] # target[j]

(* A submitted job always has a file, whatever is killed between a rename,  *)
(* a write and an unlink.                                                   *)
EveryJobKept == \A j \in Jobs : j < nextJob => files[j] # {}

(* What a worker knows of the job it has in hand: while it holds the lock   *)
(* nobody else moves files; afterwards the processing file names it, so     *)
(* that no other worker recovers, claims or executes the job.               *)
InHand ==
    /\ \A w \in Workers :
        /\ lock = w <=> pc[w] \in Locked
        /\ pc[w] \in {"down", "gone", "recover", "sweep", "claim", "select"} <=> cur[w] = 0
        /\ cur[w] # 0 => "processing" \in files[cur[w]] /\ cur[w] \notin unreadable
        /\ cur[w] # 0 => ("pending" \in files[cur[w]] <=> pc[w] = "swept")
        /\ cur[w] # 0 => owner[cur[w]] = IF pc[w] \in Locked THEN Nobody ELSE w
        /\ pc[w] = "unlinkDone" => "done" \in files[cur[w]]
        /\ pc[w] = "unlinkFailed" => "failed" \in files[cur[w]]
    /\ \A v, w \in Workers : cur[v] = cur[w] => v = w \/ cur[w] = 0

(* A number that was not given out has no file; the submitter holds the     *)
(* lock from the moment it has written a job until it has recorded it.      *)
Numbered ==
    /\ \A j \in Jobs : j < nextJob <=> target[j] \in Targets
    /\ \A j \in Jobs : j >= nextJob => files[j] = {}
    /\ lock = Submitter <=> submitting # 0
    /\ submitting < nextJob

(* The inductive invariant of ActionJobsProofs.                             *)
JobInv ==
    /\ TypeOK /\ InHand /\ Numbered
    /\ OneActivePerTarget /\ EveryJobKept

(* A job that nobody interrupted after its execution had started is being   *)
(* executed for the first time, or has ended and is left alone.             *)
HasOutcome(j) == files[j] \cap {"done", "failed"} # {}
InExecution(j) == \E w \in Workers : cur[w] = j /\ pc[w] \in Executing

Attempted ==
    /\ \A j \in Jobs \ interrupted :
        /\ runs[j] \in {0, 1}
        /\ HasOutcome(j) \/ InExecution(j) => runs[j] = 1
        /\ runs[j] = 1 =>
            \/ InExecution(j)
            \/ HasOutcome(j) /\ files[j] \cap {"pending", "processing"} = {}
        /\ ~({"done", "failed"} \subseteq files[j])
    /\ \A w \in Workers :
        cur[w] \notin interrupted /\ pc[w] \in Executing \ {"unlinkDone", "unlinkFailed"}
            => ~HasOutcome(cur[w])

(* What is shown for a segment is about a job of that segment, the newest   *)
(* but for the one being submitted; only the newest job of a segment is     *)
(* active; and the outcome of a job is shown, or noted as not written,      *)
(* before its file is.                                                      *)
ShownKnown ==
    /\ \A t \in Targets :
        IF shown[t].job = 0 THEN shown[t].status = "none" ELSE target[shown[t].job] = t
    /\ \A i, j \in Jobs : i < j /\ target[i] = target[j] /\ target[i] \in Targets => ~Active(i)
    /\ submitting # 0 => files[submitting] = {"pending"}
    /\ \A w \in Workers :
        pc[w] \in {"writeDone", "unlinkDone", "writeFailed", "unlinkFailed"} =>
            \/ cur[w] \in unsynced
            \/ shown[target[cur[w]]].job # cur[w]
            \/ shown[target[cur[w]]].status \in {"done", "failed"}

(* A damaged file is the only one of its job, and so is one set aside.      *)
DamagedAlone ==
    /\ \A j \in unreadable : files[j] \in {{"pending"}, {"processing"}, {"invalid"}}
    /\ \A j \in Jobs : "invalid" \in files[j] => files[j] = {"invalid"}

(* A job is executed again, or ends both done and failed, only if a worker  *)
(* was killed, or refused an unlink, after it had started executing it.     *)
ExecutedOnceUnlessInterrupted ==
    \A j \in Jobs :
        (runs[j] > 1 \/ {"done", "failed"} \subseteq files[j]) => j \in interrupted

(* A segment that is shown as pending or processing has that job active, so *)
(* that it is never stuck in a state whose job is gone, except when a later *)
(* state of the job could not be recorded.                                  *)
ShownPendingIsActive ==
    \A t \in Targets :
        shown[t].status \in {"pending", "processing"} =>
            Active(shown[t].job) \/ shown[t].job \in unsynced

(* The inductive invariant that the histories need.                         *)
HistoryInv == JobInv /\ Attempted /\ ShownKnown /\ DamagedAlone /\ ShownPendingIsActive

(* The state shown for a segment never goes back to an earlier job: no late *)
(* record of one job overwrites that of the next.                           *)
ShownNeverGoesBack ==
    [][\A t \in Targets : shown[t].job <= shown'[t].job]_shown

(* What read_action_job answers.  It looks for one state after the other;   *)
(* here it sees them at once.  (A reader that has passed "pending" when a   *)
(* recovery moves the job there from "processing" finds no job at all: a    *)
(* 404, or "blocked" on the segment's page, until the next reading.)        *)
Answer(j) ==
    IF "pending" \in files[j]         THEN "waiting"
    ELSE IF "processing" \in files[j] THEN "running"
    ELSE IF "done" \in files[j]       THEN "done"
    ELSE IF "failed" \in files[j]     THEN "failed"
    ELSE IF "invalid" \in files[j]    THEN "aside"
    ELSE "none"

JobView == INSTANCE JobLedger WITH
    state <- [j \in Jobs |-> Answer(j)], subject <- target

(* Through kills, recoveries and quarantines, the directory implements the  *)
(* ledger of jobs: what read_action_job answers is settled once and stays.  *)
ImplementsJobLedger == JobView!JobLedgerSpec

Settled(j) == Answer(j) \in {"done", "failed", "aside"}

(* What a running worker owes: it executes or sets aside what waits, and    *)
(* what it finds abandoned when it starts to recover, whatever is submitted *)
(* or refused meanwhile, and whatever another process recovers beside it.   *)
(* It does so unless it is killed or gives up on the lock, the job's file   *)
(* is damaged, or a stranger has come by the pid in it.                     *)
Serves(w) == w \notin Recoverers /\ pc[w] \notin {"down", "gone"}

InReach(j) == \E w \in Workers :
    Serves(w) /\ (j \in Waiting \/ (Stale(j) /\ pc[w] = "recover"))

Hindered(j) ==
    \/ \E w \in Workers \ Recoverers : pc[w] = "gone"
    \/ j \in unreadable \/ owner[j] = Stranger

RunningWorkerSettles == \A j \in Jobs : InReach(j) ~> Settled(j) \/ Hindered(j)

=============================================================================
