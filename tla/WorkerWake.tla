----------------------------- MODULE WorkerWake -----------------------------
(***************************************************************************)
(* How work reaches a worker.  Dashboards and the recorder reach the       *)
(* Windows host by remote commands (dashboard/remote_worker.py,            *)
(* server/recording_remux.py): they ask for the Worker API's status, start *)
(* its scheduled task when it is away, and post run-once.  The API         *)
(* (server/worker_api.py, worker_control.py, worker_idle.py) starts        *)
(* one-shot workers and the upload consumer, stops them on request, and    *)
(* ends itself when everything has been idle.                              *)
(***************************************************************************)
EXTENDS WorkerLock, Naturals

CONSTANTS
    Requests,    (* pieces of work: markers and job files *)
    Clients,     (* processes that trigger the worker *)
    Persistent,  (* those that trigger it again while work is pending *)
    MaxFaults    (* bound on failures, timeouts and stop requests *)

ASSUME WakeAssumption == Persistent \subseteq Clients /\ MaxFaults \in Nat

VARIABLES
    pending,    (* the requests that wait: *.pending and *.pending.json *)
    taken,      (* the request each worker has in processing *)
    stuck,      (* those that workers had when they died *)
    rows,       (* whether the upload queue has a row to upload *)
    api,        (* the API process; its scheduled task runs unless it is down *)
    loop,       (* what the API's event loop is executing *)
    child,      (* _worker_process, while that process runs *)
    targets,    (* pids that the stop request being served still has to end *)
    named,      (* the pid it has read from the lock file *)
    confirming, (* the watchdog reads the state a second time *)
    busy,       (* what this reading has found so far *)
    elapsed,    (* the idle timeout has passed since the last activity *)
    consumer,   (* the upload consumer: none, owned by this API, or orphan *)
    owns,       (* owns_upload_process: this API's own start of it went well *)
    client,     (* where each client's trigger is *)
    caller,     (* the client whose run-once is being served *)
    faults,     (* failures so far *)
    late,       (* history: what arrived since the watchdog's last reading began *)
    server      (* history: the worker that was serving when the stop began *)

stop == <<targets, named>>
uploads == <<consumer, owns>>
work == <<pending, taken, stuck, rows>>
process == <<api, loop, child, stop, confirming, busy, elapsed, uploads>>
history == <<late, server>>
vars == <<lock, work, process, client, caller, faults, history>>

Serving == {"up", "exiting"}
Row == "row"

(* Something goes wrong; for the bound, it goes wrong MaxFaults times.      *)
Fault == faults < MaxFaults /\ faults' = faults + 1

(* _worker_process.poll() tells a process that has ended from one that runs. *)
Forget(w) == child' = IF child = w THEN Nobody ELSE child

Init ==
    /\ guard = Nobody /\ file = Nobody
    /\ pc = [w \in Workers |-> "none"]
    /\ pending = {} /\ taken = [w \in Workers |-> {}] /\ stuck = {} /\ rows = FALSE
    /\ api = "down" /\ loop = "free" /\ child = Nobody /\ targets = {} /\ named = Nobody
    /\ confirming = FALSE /\ busy = FALSE /\ elapsed = FALSE /\ consumer = "none" /\ owns = FALSE
    /\ client = [c \in Clients |-> "idle"]
    /\ caller = Nobody
    /\ faults = 0
    /\ late = {} /\ server = Nobody

-----------------------------------------------------------------------------
(* Work arrives: a marker or a job file is written, on the share; a row of  *)
(* the upload queue is released, by the dashboard or by a worker's job.     *)

Request(r) ==
    /\ r \notin pending \cup stuck /\ \A w \in Workers : r \notin taken[w]
    /\ pending' = pending \cup {r}
    /\ late' = late \cup {r}
    /\ UNCHANGED <<lock, taken, stuck, rows, process, client, caller, faults, server>>

ReleaseRow ==
    /\ ~rows
    /\ rows' = TRUE
    /\ late' = late \cup {Row}
    /\ UNCHANGED <<lock, pending, taken, stuck, process, client, caller, faults, server>>

(* The consumer publishes it.                                               *)
Publish ==
    /\ rows /\ consumer # "none"
    /\ rows' = FALSE
    /\ UNCHANGED <<lock, pending, taken, stuck, process, client, caller, faults, history>>

-----------------------------------------------------------------------------
(* A worker process: watcher.main with --once *)

WorkerStep(w) ==
    /\ \/ Acquire(w) /\ UNCHANGED child
       \/ Refused(w) /\ Forget(w)
       \/ WritePid(w) /\ UNCHANGED child
       \/ RemovePid(w) /\ UNCHANGED child
       \/ Release(w) /\ Forget(w)
    /\ UNCHANGED <<work, api, loop, stop, confirming, busy, elapsed, uploads,
                   client, caller, faults, history>>

(* Every pass begins by taking back what dead workers had in processing.    *)
Recover == pending' = pending \cup stuck /\ stuck' = {}

RecoverPass(w) ==
    /\ pc[w] = "draining" /\ stuck # {}
    /\ Recover
    /\ UNCHANGED <<lock, taken, rows, process, client, caller, faults, history>>

Take(w, r) ==
    /\ pc[w] = "draining" /\ taken[w] = {} /\ r \in pending
    /\ pending' = pending \ {r}
    /\ taken' = [taken EXCEPT ![w] = {r}]
    /\ UNCHANGED <<lock, stuck, rows, process, client, caller, faults, history>>

(* The work is done; an approval has released a row of the upload queue.    *)
Complete(w) ==
    /\ pc[w] = "draining" /\ taken[w] # {}
    /\ taken' = [taken EXCEPT ![w] = {}]
    /\ rows' \in {rows, TRUE}
    /\ UNCHANGED <<lock, pending, stuck, process, client, caller, faults, history>>

(* process_pending_until_quiet returns after its quiet checks.              *)
Quiet(w) ==
    /\ pc[w] = "draining" /\ taken[w] = {} /\ pending = {} /\ stuck = {}
    /\ Goes(w, "leaving")
    /\ UNCHANGED <<guard, file, work, process, client, caller, faults, history>>

(* A worker process ends without its exit code.                             *)
Ends(w) ==
    /\ Dies(w) /\ Forget(w)
    /\ stuck' = stuck \cup taken[w]
    /\ taken' = [taken EXCEPT ![w] = {}]

WorkerKilled(w) ==
    /\ Fault /\ Alive(w) /\ Ends(w)
    /\ UNCHANGED <<pending, rows, api, loop, stop, confirming, busy, elapsed, uploads,
                   client, caller, history>>

-----------------------------------------------------------------------------
(* wake_remote_worker and trigger_remote_worker, one remote command a step. *)

At(c, place) == client[c] = place
Moves(c, place) == client' = [client EXCEPT ![c] = place]
OnlyTheClient == UNCHANGED <<lock, work, process, caller, history>>

(* The API answers while its event loop is free; a command that waits for   *)
(* an event loop at work may give up first.                                 *)
Answers == api \in Serving /\ loop = "free"

(* With nothing pending a trigger is skipped.                               *)
Trigger(c) ==
    /\ At(c, "idle") /\ pending # {}
    /\ Moves(c, "status")
    /\ OnlyTheClient /\ UNCHANGED faults

ReadStatus(c) ==
    /\ At(c, "status")
    /\ \/ Answers /\ Moves(c, "post") /\ UNCHANGED faults
       \/ api \notin Serving /\ Moves(c, "run") /\ UNCHANGED faults
       \/ api \in Serving /\ Fault /\ Moves(c, "run")
    /\ OnlyTheClient

(* schtasks /Run, refused while the task runs; the second refusal, or a     *)
(* host that is out of reach, ends the attempt.                             *)
RunTask(c) ==
    /\ client[c] \in {"run", "rerun"}
    /\ \/ /\ api = "down"
          /\ api' = "starting"
          /\ Moves(c, "poll") /\ UNCHANGED faults
       \/ /\ api # "down"
          /\ Moves(c, IF At(c, "run") THEN "end" ELSE "idle")
          /\ UNCHANGED <<api, faults>>
       \/ Fault /\ Moves(c, "idle") /\ UNCHANGED api
    /\ UNCHANGED <<lock, work, loop, child, stop, confirming, busy, elapsed, uploads,
                   caller, history>>

(* The API process ends without its shutdown code.  Its children have       *)
(* sessions of their own.                                                   *)
ApiKilled ==
    /\ api' = "down" /\ loop' = "free" /\ child' = Nobody /\ targets' = {} /\ named' = Nobody
    /\ confirming' = FALSE /\ busy' = FALSE /\ elapsed' = FALSE /\ caller' = Nobody
    /\ consumer' = IF consumer = "none" THEN "none" ELSE "orphan"
    /\ owns' = FALSE
    /\ guard' = IF guard \in Probers THEN Nobody ELSE guard
    /\ server' = Nobody
    /\ UNCHANGED <<file, pc, work, late>>

Hanging(c) == IF caller = c THEN "idle" ELSE client[c]

(* Mutation: a refused start is given up at once.                           *)
NoForcedStop(c) ==
    /\ At(c, "end")
    /\ Moves(c, "idle")
    /\ UNCHANGED <<lock, work, process, caller, faults, history>>

(* schtasks /End                                                            *)
EndTask(c) ==
    /\ At(c, "end")
    /\ \/ /\ api # "down" /\ ApiKilled
          /\ client' = [d \in Clients |-> IF d = c THEN "rerun" ELSE Hanging(d)]
          /\ UNCHANGED faults
       \/ api = "down" /\ Moves(c, "rerun") /\ UNCHANGED <<lock, work, process, caller, faults, history>>
       \/ Fault /\ Moves(c, "rerun") /\ UNCHANGED <<lock, work, process, caller, history>>

(* The status is asked for until it answers or the startup timeout passes.  *)
Poll(c) ==
    /\ At(c, "poll")
    /\ \/ Answers /\ Moves(c, "post") /\ UNCHANGED faults
       \/ api = "hung" /\ Moves(c, "idle") /\ UNCHANGED faults
       \/ api = "down" /\ (\A d \in Clients : ~At(d, "rerun")) /\ Moves(c, "idle") /\ UNCHANGED faults
       \/ Fault /\ Moves(c, "idle")
    /\ OnlyTheClient

(* The answer to run-once is lost, or comes after the timeout.              *)
PostFails(c) ==
    /\ \/ At(c, "post") /\ api \notin Serving /\ UNCHANGED faults
       \/ client[c] \in {"post", "wait"} /\ Fault
    /\ Moves(c, "idle")
    /\ caller' = IF caller = c THEN Nobody ELSE caller
    /\ UNCHANGED <<lock, work, process, history>>

-----------------------------------------------------------------------------
(* The Worker API process.                                                  *)

(* start_upload_worker: a consumer that runs is left alone; one that an API *)
(* process before this one left keeps its lock, and the new one exits.      *)
StartConsumer == consumer' = IF consumer = "none" THEN "owned" ELSE consumer

(* stop_upload_worker ends the process this API started, if it still runs;  *)
(* lifespan only calls it when its own start of the consumer went well.     *)
StopConsumer ==
    consumer' = IF consumer # "owned" THEN consumer ELSE IF owns THEN "none" ELSE "orphan"

(* lifespan starts the upload consumer before the first request, or fails.  *)
ApiStarts ==
    /\ api = "starting"
    /\ api' = "up"
    /\ \/ StartConsumer /\ owns' = TRUE /\ UNCHANGED faults
       \/ Fault /\ owns' = FALSE /\ UNCHANGED consumer
    /\ UNCHANGED <<lock, work, loop, child, stop, confirming, busy, elapsed, client, caller, history>>

(* The API hangs: it holds its port and answers nothing.                    *)
ApiHangs ==
    /\ api \in {"starting", "up"} /\ loop = "free"
    /\ Fault
    /\ api' = "hung"
    /\ UNCHANGED <<lock, work, loop, child, stop, confirming, busy, elapsed, uploads,
                   client, caller, history>>

(* lifespan's finally: the consumer this API started is stopped.            *)
ApiExits ==
    /\ api = "exiting" /\ loop = "free"
    /\ api' = "down"
    /\ child' = Nobody
    /\ StopConsumer /\ owns' = FALSE
    /\ guard' = IF guard \in Probers THEN Nobody ELSE guard
    /\ UNCHANGED <<file, pc, work, loop, stop, confirming, busy, elapsed, client, caller,
                   faults, history>>

(* The event loop takes its next step.                                      *)
Loops(step) == loop' = step

(* A request is answered.                                                   *)
Replies ==
    /\ Loops("free")
    /\ client' = [c \in Clients |-> Hanging(c)]
    /\ caller' = Nobody

(* POST run-once: activity; nothing pending, or a dependency unavailable.   *)
RunOnce(c) ==
    /\ At(c, "post") /\ Answers
    /\ elapsed' = FALSE
    /\ \/ pending = {} /\ Moves(c, "idle") /\ UNCHANGED <<loop, caller, faults>>
       \/ pending # {} /\ Fault /\ Moves(c, "idle") /\ UNCHANGED <<loop, caller>>
       \/ pending # {} /\ Loops("poll") /\ caller' = c /\ Moves(c, "wait") /\ UNCHANGED faults
    /\ UNCHANGED <<lock, work, api, child, stop, confirming, busy, uploads, history>>

(* start_worker_once: our own child first, then the lock, then Popen.       *)
PollChild ==
    /\ loop = "poll"
    /\ IF child # Nobody THEN Replies ELSE Loops("probe") /\ UNCHANGED <<client, caller>>
    /\ UNCHANGED <<lock, work, api, child, stop, confirming, busy, elapsed, uploads,
                   faults, history>>

ProbeForStart ==
    /\ \/ loop = "probe" /\ OwnerRunning /\ Replies /\ UNCHANGED lock
       \/ /\ loop = "probe" /\ ProbeTakes("loop")
          /\ Loops("probing") /\ UNCHANGED <<client, caller>>
       \/ /\ loop = "probing" /\ ProbeGives("loop")
          /\ Loops("spawn") /\ UNCHANGED <<client, caller>>
    /\ UNCHANGED <<work, api, child, stop, confirming, busy, elapsed, uploads,
                   faults, history>>

Spawn(w) ==
    /\ loop = "spawn" /\ ~Alive(w)
    /\ Goes(w, "spawned")
    /\ child' = w
    /\ Replies
    /\ UNCHANGED <<guard, file, work, api, stop, confirming, busy, elapsed, uploads,
                   faults, history>>

-----------------------------------------------------------------------------
(* POST stop: stop_worker *)

(* stop_remote_worker reaches the API, or does nothing.                     *)
PostStop == Answers /\ elapsed' = FALSE /\ Fault

Stop ==
    /\ PostStop
    /\ targets' = {child} \ {Nobody}
    /\ server' = IF \E w \in Workers : pc[w] = "draining"
                 THEN CHOOSE w \in Workers : pc[w] = "draining" ELSE Nobody
    /\ Loops("readPid")
    /\ UNCHANGED <<lock, work, api, child, named, confirming, busy, uploads, client, caller, late>>

(* Mutation: only the process this API started is ended.                    *)
StopOwnChildOnly ==
    /\ loop = "readLock"
    /\ Loops("kill")
    /\ named' = Nobody
    /\ UNCHANGED <<lock, work, api, child, targets, confirming, busy, elapsed, uploads, client,
                   caller, faults, history>>

(* read_worker_lock: the pid is read ...                                    *)
ReadPid ==
    /\ loop = "readPid"
    /\ named' = file
    /\ Loops("readLock")
    /\ UNCHANGED <<lock, work, api, child, targets, confirming, busy, elapsed, uploads, client,
                   caller, faults, history>>

(* ... before the kernel lock is tried: it counts if the lock is held by    *)
(* whomever by then.                                                        *)
ReadLock ==
    /\ \/ /\ loop = "readLock" /\ OwnerRunning
          /\ targets' = targets \cup ({named} \ {Nobody})
          /\ Loops("kill") /\ named' = Nobody /\ UNCHANGED lock
       \/ /\ loop = "readLock" /\ ProbeTakes("loop")
          /\ Loops("unread") /\ UNCHANGED stop
       \/ /\ loop = "unread" /\ ProbeGives("loop")
          /\ Loops("kill") /\ named' = Nobody /\ UNCHANGED targets
    /\ UNCHANGED <<work, api, child, confirming, busy, elapsed, uploads, client, caller,
                   faults, history>>

(* _terminate_pid; that the system refuses it is left out.                  *)
Terminate(w) ==
    /\ loop = "kill" /\ w \in targets
    /\ targets' = targets \ {w}
    /\ IF Alive(w) THEN Ends(w) ELSE UNCHANGED <<lock, child, taken, stuck>>
    /\ UNCHANGED <<pending, rows, api, loop, named, confirming, busy, elapsed, uploads, client, caller,
                   faults, history>>

(* What the stopped worker had in processing goes back to the queue.        *)
RecoverStopped ==
    /\ loop = "kill" /\ targets = {}
    /\ Recover
    /\ Loops("stopped")
    /\ UNCHANGED <<lock, taken, rows, api, child, stop, confirming, busy, elapsed, uploads,
                   client, caller, faults, history>>

Stopped ==
    /\ loop = "stopped"
    /\ Loops("free")
    /\ server' = Nobody
    /\ UNCHANGED <<lock, work, api, child, stop, confirming, busy, elapsed, uploads,
                   client, caller, faults, late>>

-----------------------------------------------------------------------------
(* GET status, in a request thread: it probes the lock, whatever happens    *)
(* there at the moment, and is no activity.                                 *)
StatusProbe ==
    /\ \/ api \in Serving /\ Fault /\ ProbeTakes("status")
       \/ ProbeGives("status") /\ UNCHANGED faults
    /\ UNCHANGED <<work, process, client, caller, history>>

(* POST upload/start is activity.                                           *)
StartUpload ==
    /\ Answers
    /\ elapsed' = FALSE
    /\ StartConsumer
    /\ UNCHANGED <<lock, work, api, loop, child, stop, confirming, busy, owns, client, caller,
                   faults, history>>

ConsumerDies ==
    /\ consumer # "none" /\ Fault
    /\ consumer' = "none"
    /\ UNCHANGED <<lock, work, api, loop, child, stop, confirming, busy, elapsed, owns, client,
                   caller, history>>

-----------------------------------------------------------------------------
(* IdleWatchdog.run: the state is read once and, when the idle window is    *)
(* over, again.  A reading looks at the worker and the upload queue, then   *)
(* at the lock, then at what is pending.                                    *)

WatcherRuns == child # Nobody

(* Rows that are queued or in flight; the consumer publishes them.          *)
UploadWaits == rows

LookAtProcesses ==
    /\ \/ /\ loop = "free" /\ api = "up"
          /\ confirming' = FALSE /\ UNCHANGED late
       \/ /\ loop = "confirm"
          /\ confirming' = TRUE /\ late' = {}
    /\ busy' = (WatcherRuns \/ UploadWaits)
    /\ Loops("lookLock")
    /\ UNCHANGED <<lock, work, api, child, stop, elapsed, uploads, client, caller,
                   faults, server>>

(* Mutation: only the process this API started counts.                      *)
LookNotAtLock ==
    /\ loop = "lookLock"
    /\ Loops("lookPending")
    /\ UNCHANGED <<lock, work, api, child, stop, confirming, busy, elapsed, uploads, client,
                   caller, faults, history>>

LookAtLock ==
    /\ \/ /\ loop = "lookLock" /\ OwnerRunning
          /\ busy' = TRUE /\ Loops("lookPending") /\ UNCHANGED lock
       \/ /\ loop = "lookLock" /\ ProbeTakes("loop")
          /\ Loops("looking") /\ UNCHANGED busy
       \/ /\ loop = "looking" /\ ProbeGives("loop")
          /\ Loops("lookPending") /\ UNCHANGED busy
    /\ UNCHANGED <<work, api, child, stop, confirming, elapsed, uploads, client, caller,
                   faults, history>>

(* Activity restarts the window; idleness, confirmed, ends the server.      *)
Conclude ==
    /\ loop = "lookPending"
    /\ LET active == busy \/ pending # {}
       IN \/ /\ active
             /\ elapsed' = FALSE /\ Loops("free") /\ UNCHANGED api
          \/ /\ ~active /\ ~confirming
             /\ Loops(IF elapsed THEN "confirm" ELSE "free") /\ UNCHANGED <<elapsed, api>>
          \/ /\ ~active /\ confirming
             /\ api' = "exiting" /\ Loops("free") /\ UNCHANGED elapsed
    /\ busy' = FALSE /\ confirming' = FALSE
    /\ UNCHANGED <<lock, work, child, stop, uploads, client, caller, faults, history>>

(* The idle timeout is far longer than a worker takes to start or to leave. *)
WindowPasses ==
    /\ api = "up" /\ loop = "free" /\ ~elapsed
    /\ \A w \in Workers : pc[w] \in {"none", "draining"}
    /\ elapsed' = TRUE
    /\ UNCHANGED <<lock, work, api, loop, child, stop, confirming, busy, uploads, client,
                   caller, faults, history>>

-----------------------------------------------------------------------------
Arrivals == (\E r \in Requests : Request(r)) \/ ReleaseRow \/ StartUpload \/ Stop

Worker(w) ==
    \/ WorkerStep(w) \/ RecoverPass(w) \/ Complete(w) \/ Quiet(w)
    \/ \E r \in Requests : Take(w, r)

Starts(w) == WorkerStep(w) /\ pc[w] = "spawned" /\ guard = Nobody
Talks(c) == ReadStatus(c) \/ Poll(c) \/ PostFails(c) \/ RunOnce(c)
Client(c) == Talks(c) \/ RunTask(c) \/ EndTask(c)

EventLoop ==
    \/ PollChild \/ ProbeForStart \/ ReadPid \/ ReadLock \/ RecoverStopped \/ Stopped
    \/ LookAtLock \/ Conclude
    \/ \E w \in Workers : Spawn(w) \/ Terminate(w)

LoopGoesOn == EventLoop \/ (LookAtProcesses /\ loop # "free")

Failures == ApiHangs \/ ConsumerDies \/ \E w \in Workers : WorkerKilled(w)

Next ==
    \/ Arrivals \/ Failures \/ StatusProbe \/ WindowPasses \/ Publish
    \/ ApiStarts \/ ApiExits \/ EventLoop \/ LookAtProcesses
    \/ \E c \in Clients : Trigger(c) \/ Client(c)
    \/ \E w \in Workers : Worker(w)

Spec == Init /\ [][Next]_vars

(* Processes run on, and persistent clients, the recorder's dispatch loop,  *)
(* come back.  The event loop serves the requests it gets between two looks *)
(* of the watchdog; the moment in which such a look holds the kernel lock   *)
(* does not hit the start of every worker.                                  *)
Fairness ==
    /\ WF_vars(ApiStarts) /\ WF_vars(ApiExits) /\ WF_vars(LoopGoesOn)
    /\ WF_vars(StatusProbe /\ guard = "status")
    /\ \A w \in Workers : WF_vars(Worker(w)) /\ SF_vars(Starts(w))
    /\ \A c \in Clients : WF_vars(RunTask(c) \/ EndTask(c)) /\ SF_vars(Talks(c))
    /\ \A c \in Persistent : WF_vars(Trigger(c))

FairSpec == Spec /\ Fairness

-----------------------------------------------------------------------------
TypeOK ==
    /\ LockTypeOK
    /\ pending \subseteq Requests /\ stuck \subseteq Requests
    /\ taken \in [Workers -> SUBSET Requests]
    /\ rows \in BOOLEAN /\ confirming \in BOOLEAN /\ busy \in BOOLEAN /\ elapsed \in BOOLEAN
    /\ api \in {"down", "starting", "up", "exiting", "hung"}
    /\ loop \in {"free", "poll", "probe", "probing", "spawn", "readPid", "readLock",
                 "unread", "kill", "stopped", "confirm", "lookLock", "looking", "lookPending"}
    /\ child \in Workers \cup {Nobody}
    /\ targets \subseteq Workers /\ named \in Workers \cup {Nobody} /\ owns \in BOOLEAN
    /\ consumer \in {"none", "owned", "orphan"}
    /\ client \in [Clients -> {"idle", "status", "run", "end", "rerun", "poll", "post", "wait"}]
    /\ caller \in Clients \cup {Nobody}
    /\ faults \in 0 .. MaxFaults
    /\ late \subseteq Requests \cup {Row}
    /\ server \in Workers \cup {Nobody}

(* A stop request ends the worker that was serving when it came, even one   *)
(* that an earlier API process started: stop_worker takes its pid from the  *)
(* lock file.                                                               *)
StopEndsTheServer == loop = "stopped" => server = Nobody \/ pc[server] # "draining"

(* The API ends itself only when nothing is left for it: no worker runs,    *)
(* whoever started it, nothing is pending, no row waits for the consumer    *)
(* that goes with it - except what arrived during the last reading.         *)
ShutdownStrandsNothing ==
    [][ api = "up" /\ api' = "exiting" =>
          /\ \A w \in Workers : ~Alive(w)
          /\ pending \subseteq late
          /\ rows => Row \in late ]_vars

(* Why a stop finds the server: nobody can take a pid over while the event  *)
(* loop serves the stop, and the lock file names the server until then.     *)
Stopping == {"readPid", "readLock", "unread", "kill", "stopped"}
StopInv ==
    server # Nobody /\ loop \in Stopping =>
        /\ pc[server] \in {"none", "draining", "leaving", "removed"}
        /\ pc[server] = "draining" =>
              \/ loop = "readPid" \/ (loop = "readLock" /\ named = server)
              \/ (loop = "kill" /\ server \in targets)

(* Why a shutdown strands nothing: once the idle window has passed no       *)
(* worker can be on its way, and the first reading that finds the lock free *)
(* has seen the last one leave.                                             *)
NoWorker == \A w \in Workers : pc[w] = "none"
ReadingInv ==
    /\ elapsed => \A w \in Workers : pc[w] # "spawned"
    /\ loop \in {"poll", "probe", "probing", "spawn"} => ~elapsed
    /\ loop = "confirm" => elapsed
    /\ confirming => elapsed /\ loop \in {"lookLock", "looking", "lookPending"}
    /\ \/ loop = "confirm" \/ confirming
       \/ elapsed /\ ~busy /\ loop \in {"looking", "lookPending"}
       => NoWorker
    /\ confirming /\ ~busy /\ rows => Row \in late

(* While somebody keeps triggering, what is pending is taken by a worker:   *)
(* through a Worker API that was away, hangs, ends itself at the wrong      *)
(* moment, or takes a reader of the lock for a worker.                      *)
PendingIsServed == \A r \in Requests : r \in pending ~> r \notin pending

(* wake_remote_worker ends the scheduled task to clear a worker that hangs: *)
(* an API that is up is not ended by the commands that wake it. The code    *)
(* does not keep this: an API that starts, or answers late, is ended as     *)
(* well.                                                                    *)
ForcedOnlyWhenHung == [][ api = "up" => api' # "down" ]_vars
=============================================================================
