# bilive, specified

bilive records live rooms, cuts the recordings into candidate clips, has a person review
them, renders the kept ones and submits them to Bilibili. The work is spread over a recorder
and a dashboard (often on a Raspberry Pi), a Windows worker and an upload consumer. They
share no memory: what they agree on is in an SQLite table, in job and marker files on a shared
disk, in JSON histories, and in lock files. Any of them may be killed at any moment. These
modules model that coordination, and the decisions of the slicer that can be stated without media;
media processing itself and presentation are left out.

Paths below are relative to the repository; the Python package is `src/`.

## 1. The system

| component | state it keeps | operations | what is hard |
|---|---|---|---|
| upload queue, `src/db/conn.py` | table `upload_queue`: one row per video with status, remote_filename, attempts, next_attempt_at | insert, stage, activate, claim, mark complete / published / failed, retry, defer, requeue, recover, withdraw | several writers; the order of transactions is up to the callers |
| upload consumer, `src/upload/worker.py`, `upload.py` | one cycle's metadata and claimed row, in memory | `process_one`: peek, load metadata, log in, claim, upload, record, claim again, submit, record, clean up, write the status file | lost answers, crashes between any two steps, errors inside and outside the try block |
| upload consumer lock, `src/upload/lock.py` | `upload.lock` with a pid | create, read and probe, unlink, recreate, exit | the check and the reclaim are separate file operations |
| action jobs, `src/server/action_jobs.py` | `.bilive-jobs/<id>.<state>.json` and `.enqueue.lock`; `action_state` in the segment's history | submit, recover, claim, execute, finish, read | kills between a rename, a write and an unlink; finishing takes no lock |
| source markers and watcher, `src/server/watcher.py`, `src/dashboard/slice_control.py` | `<recording>.mp4.pending/.processing/.done/.failed`, task history | queue, claim, recover, slice, skip, fail | the marker, the history and the review state are written one after the other |
| worker lock and wake-up, `src/server/worker_lock.py`, `worker_control.py`, `worker_api.py`, `worker_idle.py`, `src/dashboard/remote_worker.py` | kernel lock with a pid file; the worker process; idle timer | start once, stop, probe, trigger, idle shutdown | lost wake-ups, probes that look like owners, stale pids |
| segment review, `src/dashboard/source_workbench.py`, `routes/segments.py` | the segment: revision, upload_status, publish_approval, action_state, artifacts | keep, finalize, approve, edit, drop, retry | the segment and the queue row are written separately |
| source lifecycle, `src/dashboard/source_lifecycle.py`, `task_state.py`, `src/burn/task_history.py` | recording state, review state, retention deadline, history | review transitions, retention, experience log | read-modify-write of JSON files from several processes |
| recording trash and retention, `src/dashboard/recording_trash.py`, `src/maintenance/recording_retention.py` | saved plan, files already moved, trash_status | plan, move, log, schedule | a plan half carried out; status written outside the lock |
| remux and cleanup, `src/server/recording_remux.py`, `src/maintenance/runtime_cleanup.py` | FLV, partial MP4, MP4 | remux, validate, replace, unlink | a kill between replace and unlink |
| slicing algorithms, `src/autoslice/burst_detector.py`, `candidate_analyzer.py` | none | detect bursts, cut windows, select; gate, repair and prove a clip | edges of the recording, ties, a trim changed after it was gated |
| slicing pipeline, `src/burn/slice_only.py` | candidates, calls in flight, segment records, sidecars, rows | cut, ask in parallel, collect, compare, burn, describe, stage | calls that end in any order; one clip of several failing |

The dashboard writes the queue (approval runs as an action job on Windows), the job directory
and the markers, and then triggers the worker over HTTP; the trigger may be lost, so the
persisted job must be enough. The worker executes jobs and markers and writes the queue when it
finalizes a clip. The consumer reads only the queue and the clip's sidecar file. Nothing calls
back: the dashboard polls.

**What makes each part correct.** Queue and consumer: bytes are sent once, a clip is submitted
once and only after a release, and whatever is interrupted resumes in the phase its bytes are
in. Lock: one consumer. Jobs: a submitted job is never lost, a segment has one active job, a
job runs once unless interrupted, what the dashboard shows comes from the newest job, and a
running worker settles what waits. Markers: a recording is sliced once, and its result is not lost. Wake-up: pending
work is eventually executed, one worker at a time, and neither a stop nor the idle shutdown
strands any. Review: what the platform gets is what was approved. Recordings: one whole copy
exists until it is recycled, it is recycled for a cause, and "done" means that it was. Slicing:
every burst is shown around its anchor or gives way to a better one, and the result does not depend on which call
ends first.

The hazards this leads to, each at its line and with the properties that watch it, are listed
in `PROJECT.json`.

## 2. Modules

```
UploadLedger   <- refined by -  UploadWorker  - EXTENDS ->  UploadQueue
                                UploadLock
JobLedger      <- refined by -  ActionJobs
                                SliceMarkers
                                WorkerWake    - EXTENDS ->  WorkerLock
                                SegmentReview - INSTANCE -> UploadQueue (the rows of one segment)
                                Recordings    - EXTENDS ->  RecordingFiles
                                SlicePipeline - EXTENDS ->  BurstDetector, ClipJudgement
<module>Proofs: the theorems about each of UploadWorker, UploadLock, ActionJobs, SliceMarkers, WorkerWake,
SegmentReview, Recordings and SlicePipeline
MC<module>: the TLC instance of each of the eight state machines, with the symmetry of its model
values, a state constraint or the inputs it enumerates
```

**UploadQueue** is the table. `queue` maps a video path to its row, or to `NoRow`; `nextId` is
the autoincrement counter. For each transaction of `conn.py` there is an operator with what it
makes of the row (`Claimed`, `Completed`, `Retried`, ...), and an action for those that
producers call. `next_attempt_at` is the Boolean `due`, `remote_filename` the Boolean `remote`.

**UploadWorker** runs the consumer against the queue: `pc` is the statement of `process_one`
it has reached, `peeked` and `item` are its two local rows. Every call that reads or writes
something shared is an action of its own, so that the dashboard's transactions, and `Crash`,
fall between any two. The lines of each action are in the `map`. What the platform saw (`sent`,
`accepted`), what went unrecorded on the way (`lostUpload`, `lostPost`), whose publication was recorded but
not reported (`unreported`) and what was released (`approved`) are history variables that no action
reads. `ReportRaises` is the one error with an effect of its own: `_finish` is called inside the try
block, so an unwritable `upload-status.json` sends a row that is already published, retried or
deferred through the except handler; `StatusFileMayFail` says whether that can happen. A published
row that comes back this way is no lost answer: the run `upload_republished` shows it.

**UploadLedger** is what a reader of the queue may rely on: none, held, open, done, dead; stored
bytes are never forgotten; only an open video with stored bytes becomes done. `UploadWorker!Ledger`
maps the five in-flight and waiting statuses to "open".

**UploadLock** splits `__enter__` into the `O_EXCL` creation, the read of the pid, the probe, the
unlink, the second creation and the write of the pid. `OpenFilesDeletable` distinguishes POSIX
from Windows, where unlinking a file that is still open raises. `PidsAreReused` lets the pid in a dead
consumer's file be that of another process when it is probed, which is all `lock.py` asks about it.

**ActionJobs** is the job directory. `files` maps a job to the set of states it has a file in;
after a kill a job can have two. `lock` is `.enqueue.lock`, a kernel lock that dies with its
holder. The submission (write the job, record `pending`, release), the sweep of the recovery
(write pending, unlink processing), the claim (rename, write the pid) and the finish (write the
outcome, unlink processing) are separate file operations. `_read_pending_job`'s quarantine of a
damaged file is part of the sweep and of the claim; the system may refuse it, and the file is then
passed over. `owner` is the running process that the recorded pid names; `ReusePid` gives a dead
worker's pid to a stranger. `Workers` are the one-shot worker and, among them as `Recoverers`, the API
process, whose `stop_worker` recovers and claims nothing.
Executors are opaque: they return or raise. `LockTimesOut` is `_queue_lock` giving up after its
200 attempts, which `watcher.main` takes for "already running". Progress rewrites of the
processing file and `.claim.lock`, which is only taken inside `.enqueue.lock`, change nothing a
step reads.

**JobLedger** is what somebody who polls `read_action_job` may rely on; `ActionJobs!JobView` maps
the files to the answer by the order in which `read_action_job` looks for them, but sees them at one
moment. The code looks into one state after the other: while a recovery moves a job back to
pending, a reader can miss it (a 404, or "blocked" on its page) until its next poll.

**SliceMarkers** is one recording: the set of its `markers`, the `owner` that `.processing` names,
the claim `lock` of its room, its `history` and `review` state. Dashboard requests (`Scan...`,
`Requeue...`, `Cancel...`, `Mark...`) run beside the one-shot worker and beside the recovery that
`stop_worker` runs in the API process (`StopWorker`, `Sweep...`); each file operation is a step, and
`Kill` falls between any two. Requests other than the scan hold no lock, as in `task_state.py`. The
worker recovers, claims (rename, then stamp the pid), slices, and writes `.done`, unlinks
`.processing` and `.failed`, writes the history and the review state, in the order of
`watcher.py:287-329`; `Except` is the handler with its finally block. `woken` is a request's trigger on
its way, `leaving` the time between the worker's last quiet check and its exit. Slicing returns
candidates, nothing or an error. `Fault` is a file operation that raises, or a lock that is not
freed in time, at most `MaxFaults` times. `owed`, `asked`, `starts` and `breaks` are history
variables. Recordings share nothing but the claim lock, whose holders are brief, so one is enough.
`Start` without a trigger of its own is a worker started for another recording or a job.

**SegmentReview** is one segment: its record `seg`, its recording's `review`, the final files and
their sidecars, its rows of the upload queue (the operators of `UploadQueue`), its active `job` and the
`worker` that executes it. Requests are single steps, since they and the claim of a job hold the
action submission lock; `finalize_segment` is a step per durable write (`Burn`, `WriteMetadata`,
`MarkReady`, `WithdrawDeferred`, `StageFinal`, `Succeed`), and the worker may fail or die between
any two. A final's path is its range and style (`CutOf`), its content the subtitles burned into it.
A job's failure is recorded in the segment, and its progress in the review (`RecordsState`), unless
that write fails too, which the code swallows. A clip that is rendered again may take the style its
room's profile has by now. `db` says whether the upload database can be read during an operation: `_ensure_unpublished` then
believes the record, if that says the segment was never staged. Most requests compare a revision;
`job.fresh` is the result of that comparison, and `job.seen` remembers whether the reviewer's page
showed what the final's path held. `OnSharedMount` is `_defer_staged_upload_withdrawal`: on the Pi
a staged row stays, for the worker's next finalization to withdraw. Sources: the record's initial
states are those `slice_only.py` and `prepare_missed_segment` write.

**WorkerLock** is `worker_lock.py`: the kernel lock `guard`, the pid in `file`, the place `pc` of each
worker process. A reader of the lock's status takes the kernel lock for a moment (`ProbeTakes`,
`ProbeGives`), which a worker that starts just then takes for another worker; the pid it answers with was
read before that.

**WorkerWake** adds who starts and stops workers. A client's wake-up is one remote command per step
(`ReadStatus`, `RunTask`, `EndTask`, `Poll`, `RunOnce`), each of which may fail or time out. The Worker
API is one process with an event loop, and `loop` is the statement it has reached: a request or a
reading of the idle watchdog runs to its end before the next, while workers, clients and threads that
answer status requests go on between any two statements. The API may hang, be ended by force, or end
itself; its children survive all three, except the upload consumer when the API ends itself and its own start of
it had gone well (`owns`). Work is a set
of pending requests; what workers do with it is `Take` and `Complete`, what a dead one leaves is `stuck`
until a worker's pass or a stop recovers it. Left out: what keeps the API from starting at all, and a
process that the system refuses to terminate.

**RecordingFiles** is the FLV, the partial MP4 and the MP4 of one recording. The worker's remux job and
the operator's maintenance script go through the same `recover_recording`, a file operation per step,
and may overlap, fail or be killed; the script can then audit the MP4 files. A verdict of
`validate_media` is the file's true state, or, if `ProbesMayFail`, "broken" because ffprobe or ffmpeg timed
out or is missing; `misjudged` remembers that what the script does now rests on a wrong verdict. The two
unlinks of an unrecoverable recording are two steps.

**Recordings** is that recording's end: markers, segments, review, `trash_status`, the saved `plan`, and
what is `moved`. A segment whose final is being uploaded or published blocks the trash (`sending`). Work
that goes on beside it (`QueueSlice`, `AddMissedSegment`, `DecideSegment`, ...) is
one step each, since SliceMarkers and SegmentReview have its details. The trash job saves its plan,
moves one file, notes it, and so on; `known` is the job's own list of moved files. The retention pass is
the daily script, which writes `review_state` and `trash_status` after it has queued the job. `pending`
and `processing` of `trash_status` are one value, as are `failed` and `blocked`: nobody tells them apart.

**BurstDetector** is `burst_detector.py` as functions of a density series: the background, the bursting
seconds, bursts and their merging, windows, cores, and the selection. Densities are compared as
fractions. `Accounted` and `Fits` say what a detection owes the recording without repeating it.

**ClipJudgement** is what a model's reply becomes: parsing and the choice of the primary clip, the quality gate, the
repair of a trim and its evidence in speech, and the marking of duplicates in a group of overlapping candidates. Times
are seconds relative to the candidate. A clip's scores enter as two orders, since the code has two: `scores`,
lexicographic, chooses the primary clip of a reply, and `rank`, a weighted sum, the winner among duplicates. Topics
are alike by the relation `Similar`, which like `_text_similarity` need not be transitive. `heard` is the transcript
that a kept clip was accepted on.

**SlicePipeline** is one run of `slice_only` over one recording. `StartCall` and `CallEnds` are the threads
of the pool, everything else is the one thread that runs the task: it collects answers in the order in
which they come (`Collect`), completes groups, and takes each clip through `Analyse`, `Burn`, `Describe`
and `StageClip`; each may fail, as may each write of the progress file. The exception handler of the loop
is `Handle`; what escapes it ends the run. A kill leaves the state it meets, and the next run starts with
rows of an earlier one (`Earlier`). An explicit drop is filtered by the parser, so that the pipeline's
own branch for it is never taken; `single_clip` returns at most one clip.

Definitions whose comment starts with "Mutation" are not part of a specification. Each is a
plausible bug in the definition below it; replacing that definition by it makes TLC report a
violation of the property `PROJECT.json` names under "mutants".

## 3. Runs

| run | instance | shows |
|---|---|---|
| `upload_worker` | 2 videos, budget 2, 3 rows, status file may fail | bytes once unless an answer was lost, submissions once unless it was lost or the status file was unwritable, the retry budget, who may overtake whom, under every crash, restart and dashboard action |
| `upload_release` | the same, status file can be written | releases; refinement of the ledger |
| `upload_lock` | 3 consumers, Windows, reused pids | two consumers together only after a live one's file was removed; who is refused met another consumer or a stranger with a dead one's pid |
| `action_jobs` | a worker and the API's recovery, 2 segments, 2 jobs, 2 kills, refused unlinks, damaged files, a reused pid | no job lost or doubled; re-execution only after an interruption; what is shown is active or was not recordable, and does not regress; refinement of the job ledger; a running worker settles what waits |
| `slice_markers` | 2 requests of all four kinds, 2 calls, 2 kills, 1 error anywhere | an accepted request keeps a marker; the sliced recording is marked and not being recovered; one start per request |
| `slice_results` | scans and cancels, 3 calls, 2 kills | candidates survive; the shown status follows the diagram; a worker in its loop ends what is queued meanwhile |
| `segment_review` | 2 ranges, 1 style, 1 manual subtitle text, over SMB, database unreadable at any time | only a final that was watched is released; nothing in flight or approved changes; staged rows are withdrawn |
| `worker_wake` | 2 pids, 1 request, the recorder's dispatch loop as client, 2 faults or probes or stops | one worker serves and the file names it; a stop ends it; the idle shutdown strands nothing; what is asked for is taken |
| `recordings` | 1 recording, 2 initial states, 1 kill, failure or run of the script, wrong verdicts | a whole copy survives, but for a deletion on a wrong verdict; moved only for a cause; "done" is true; expired recordings are queued, and end if workers are started |
| `slicing` | detection: all 3 276 series of 2 to 7 seconds with densities 0..2, all 3 584 of 9 to 11 with 1..2, the 8 448 of 8 to 10 with one second of 3 among 1..2, and 4 more; judgement: those 4, 2 threads, 2 failures | what is near a burst's anchor is in its window, wherever that was moved, and windows fit; duplicates depend on rank alone, and name a segment of their winner's seconds; records, rows and files agree; kept clips passed the gates and have speech around their core; a ready group is finished |
| `upload_foreign_metadata` | 2 videos | ends in a violation: an older row becomes due between the peek and the claim and is submitted with the newer row's title |
| `upload_republished` | 1 video | ends in a violation: a publication is recorded, the status file cannot be written, and the row is retried and submitted again |

Each violation states a sentence or a test of the repository that the code does not keep; the quotations
are in `PROJECT.json` under "findings".

**Deviations.** The modules define eight more properties that the code does not keep. Each is found
violated when it is added to the configuration named, but stands in no run.

| property, configuration | text | code |
|---|---|---|
| `UploadLock!StaleLockNeverRefuses`, `UploadLock.cfg` | `lock.py:4`, "a crashed previous owner can be detected and its stale lock reclaimed" | `lock.py:95-102`: a dead owner whose pid is another process's by now is not detected, and its file refuses the consumer until that process ends |
| `SliceMarkers!EveryRequestEnds`, `SliceMarkers.cfg` with `FairSpec` | `watcher.py:208`, "Drain work created while a one-shot worker is already running" | `watcher.py:226`: a request whose trigger arrives while the worker leaves is answered with it and waits for the next trigger |
| `SegmentReview!AwaitingShowsItsSubtitles`, `SegmentReview.cfg` with two styles | `tests/test_source_workbench.py:1082`, a final is burned again for new subtitles | `source_workbench.py:739`: subtitles edited and burned for a second style; the first style comes back, and with it the file without the edit |
| `WorkerWake!ForcedOnlyWhenHung`, `WorkerWake.cfg` | `remote_worker.py:207`, a hung worker keeps the task running, "Clear the zombie once" | an API that is starting, or whose answer is late, is ended too; its worker goes on and keeps the lock |
| `Recordings!ActiveIsNotTaken`, `Recordings.cfg` | `docs/operations.md`, what is sliced or rendered blocks the clean-up | `recording_trash.py:82`: an expired recording is moved whatever is done with it |
| `Recordings!AuditRemovesOnlyBroken`, `Recordings.cfg` | `runtime_cleanup.py:318`, "optionally remove only confirmed failures" | `runtime_cleanup.py:327`: a validation that could not run counts as a failure, and a whole MP4 is deleted |
| `SlicePipeline!KeptClearsTheBoundary`, `Slicing.cfg` | `candidate_analyzer.py:462`, "Keep boundary-dependent trims out of automatic previews" | `candidate_analyzer.py:633`: the evidence widens the trim after the gate, up to the window's end |
| `SlicePipeline!DuplicatesNameTheirWinner`, `Slicing.cfg` | `tests/test_slice_only_multi_clip.py:359`, `assert loser["duplicate_of"] == winner["segment_id"]` | `slice_only.py:204`: the winner's segment is found by the seconds of its clip; a clip of another topic can have the same seconds, and the later of the two takes the name |

The models have other behaviours a reader of the code should know. The second claim of a cycle (`worker.py:137`) can
leave a row in flight until the consumer restarts. Under `StatusFileMayFail`, the handler can also bring a row that
was staged again back into the queue. A job in processing whose worker's pid was reused is passed over by every
recovery. Nothing starts a worker for a job left in processing, and for a pending one other than a remux the single
trigger of its request may be lost: both wait for the next worker that somebody starts for another reason. A requeue
can queue a recording that is being processed, since it looks without the claim lock (`task_state.py:272`). A worker
killed after it wrote `.done` is followed by a second run of the recording; if that fails, `.done` and `.failed` stand
side by side; one killed after it unlinked `.processing` (`watcher.py:291`) leaves `.done` without the segments, and
nothing recovers them. Two consumers can be past `UploadProcessLock.__enter__` together: the second finds the first's
file before its pid is in it (`lock.py:82`); `SingleUnlessBroken` says that this is the only way. An approval that is
queued again after the final was published and deleted fails, and marks the approved segment `judge_failed`
(`source_workbench.py:945`). A row activated by an approval whose record failed is known to the queue only: an edit
while the database cannot be read lets go of it; `MCSegmentReview` stops there (`Sighted`). Two clients that both keep
triggering can end each other's API for ever (`remote_worker.py:206`); `PendingIsServed` is checked with one. A plan
that names a file which disappeared without a note can never be carried out, and the recording stays (`Stuck` in
`ExpiredEnds`). A later run of the slicer that fails at a clip deletes the metadata of the row an earlier run staged
for it (`slice_only.py:1326`). A duplicate whose winner could not be recorded names no segment. The comment at
`burst_detector.py:248` speaks of an overlap of 30 s; the code compares with the context, 60 s by default.

**Bounds.** Two videos are enough for one row to overtake another, which is all the consumer's selection depends on;
three row numbers allow one withdrawal and restaging. A budget of two is the least that distinguishes a retry from a
failure. `Many` = 2 stands for "twice or more". Two kills let a recovery be interrupted by the second. Two jobs are
enough for a job and its successor on one segment or for two independent ones; `MCActionJobs` lets the first job be
about the first of the segments (`FirstIsFirst`), and one pid be reused and one state be unrecordable (`FewFaults`).
Three consumers are enough for a third one to reclaim between the other two's steps. Time is only "due" or not; the
consumer fixes `now` per cycle, so a back-off that elapses in mid-cycle is seen by the next one. For a recording, two
calls let a request be withdrawn or overlapped by another; two kills let the worker be killed between any two
operations and then the recovery of its marker; the proofs hold for any number. A segment's finals are the slicer's
clip and one per range and style: with two ranges there are three paths, one of which can be left and come back;
styles act on the path like ranges, except that they keep the subtitles. The consumer takes a segment's rows in any
order, which includes the order by id. A rejected upload is one step to `failed`: what the retries in between do is
`UploadWorker`'s. Two pids are the worker that serves and the one that would serve beside it; one request shows
whether requests are served, since a worker's pass takes all; two faults are one in the wake-up and one in the
recovery from it, and a status probe or a stop request counts as one. One fault in `recordings`, with two recordings
that differ in what the remux finds: every step can be the one that fails, and every failure is followed by the rest
of the recording's life; two would repeat that. What the script and a job do to the same files is followed while both
run, without new requests (`WhileBeside`). A second of the model's recordings is some twenty of the program: the
context of 60 s is 3, and the detector's smoothing window, of 15 s, is one second (`HalfWindow` 0; with 1
`CutIsComplete` holds as well). A window is then six seconds long: in the series of eight to eleven seconds it is
moved in from either edge, and a burst can be longer than its window. For those that are followed up, eight to fifteen
seconds are enough for two windows that overlap, two that are apart, and a chain of three; the replies (`MCAnswers`)
have one of every kind the parser and the gates tell apart, and clips of every rank order. In the chain, one clip
(`Beyond`) has a trim outside its window, which the parser admits (`mimo_video.py:554`): only so can the clips of two
windows have the same seconds and not be one another's duplicates.

**Fairness.** Jobs, `FairSpec`: a request returns or fails (`WF` of `RecordPending \/ SubmitterFails`:
a thread that holds the lock does not stop), and a worker that runs and is not killed proceeds, if only to
give up on the lock (`WF` of its steps). Nobody is obliged to start one: `recording_remux.dispatch` wakes a
worker every 60 seconds for its own jobs only (`recording_remux.py:66-84`), and a segment's request triggers
one once, without looking at the answer (`routes/segments.py:28-33`). `RunningWorkerSettles` therefore says
what a running worker does with the jobs it meets, abandoned ones included, and nothing about a directory
that no worker looks at. Markers, `FairSpec`: what runs goes on (a request in
progress, a started recovery, a worker) and a trigger once sent arrives; nothing obliges anybody to
ask, to retry a trigger, or to start a worker for another reason, so that `RunningWorkerDrains` holds
without an assumption about wake-ups and `EveryRequestEnds` does not hold. `RunningWorkerDrains` is
qualified by `breaks`: a kill or an error ends the obligation of that worker. Kills are bounded;
executors and slicing end. Wake-up: processes run on, and the recorder's dispatch loop comes back every
60 seconds (`WF` of `Trigger` for `Persistent` clients). The strong fairness of a worker's start says that
the watchdog's look at the lock, a moment every 30 seconds, does not hit the start of every worker; that
of a client's talk, that the event loop, free most of the time, is met free. Recordings: the pass is daily and a
job that runs goes on (`WF`). The pass "deliberately does not execute or wake that worker" (`recording_retention.py:40`),
so that nothing obliges `BeginTrash`: `ExpiredIsQueued` says what the pass itself achieves, and `ExpiredEnds` what
follows if workers are started for the jobs that wait (`Served`) and people stop closing the review of the expired
recording (`LeftAlone`), since every such request replaces the forced job. Slicing: `WF` of the worker's thread, nothing
about model calls, one of which may never end.

## 4. Proofs

`UploadWorkerProofs` proves, for any set of videos, any retry budget and any number of rows:

* `InductiveInvariant`: `Spec => []IInv`. The properties a reader cares about (`PhaseMatchesRemote`,
  `BytesSentOnce`, `PublishedOnceUnlessLost`, `BudgetRespected`) are not inductive. `CyclePhase`
  adds what the consumer's program counter says of the status of its rows: nobody but the cycle
  moves a row from its claim to the end. `EffectsAccounted` adds where the evidence of an effect is
  at each moment: in the row, in the memory of the step that is about to record it, or lost.
* `TypeCorrect`, `RemoteCorrect`, `EffectsOnce`, `BudgetCorrect` follow from it.
* `ReleaseCorrect` and `NothingUnapproved`, under `~StatusFileMayFail`: only there is a row that
  the except handler meets certain to be the cycle's own.

* `PublishedOnce` (`PublishedOnceUnlessLost`) is a part of `IInv`: the platform accepts a video again only if its first
  acceptance went unrecorded, or was recorded and the status file could not be written after it.
* `OrderInvariant`: `Spec => []OrderInv`, and from it `OvertakenByOlder` (`OnlyOlderRowsOvertake`). `RowsNumbered`
  says that rows have numbers of their own, `CycleHoldsRows` that those of the cycle cannot be withdrawn before the
  outcome is written. The property is stated up to `reportLast`: for a retry budget of one its earlier form, without
  this bound, was false, since the except handler may have failed the row, and the dashboard withdrawn it and staged
  it anew.
* `Refinement`: under `~StatusFileMayFail`, `Spec => ImplementsLedger`. One lemma per group of actions shows the
  ledger's step, or that it stutters.

`ActionJobsProofs` proves, for any workers, segments, jobs and kills, with or without refused
unlinks and reused pids, `JobInvariant`: `Spec => []JobInv`, and from it `JobTypeCorrect`,
`OneActive` and `NoJobLost`. `OneActivePerTarget` needs `InHand`: as long as a worker holds the
lock nobody else moves files, and from the moment it has written its pid the processing file
keeps the others off. `Numbered` ties the directory to the submissions.

What the histories say rests on `HistoryInv` (`HistoryInvariant`). `Attempted` says where a job whose action ran is: in
the hands of the worker that ran it, finished and left alone, or interrupted. `ShownKnown` says that only the newest job
of a segment is active, and that an outcome is recorded, or noted as not recordable, before its file is written.
`DamagedAlone` says that a damaged file is the only one of its job.
From it follow `ExecutedOnce` (`ExecutedOnceUnlessInterrupted`), `ShownIsActive` (`ShownPendingIsActive`), the action
property `ShownAdvances` (`ShownNeverGoesBack`), and `JobRefinement`: `Spec => ImplementsJobLedger`. A step changes
the job's answer only if it changes the first file that `read_action_job` finds, in the order pending, processing,
done, failed; the rest are stutters of the ledger.

`SliceMarkersProofs` proves, for any set of requests, any kinds of calls, kills and errors:

* `MarkInvHolds`: `Spec => [](TypeOK /\ MarkInv)`. `MarkInv` says who holds the claim lock, and that a
  marker without a running owner is in the hands of the lock's holder, one that names the worker in
  the worker's. `RecoveryKeepsOff` (`MarkedWhileSliced`) follows.
* `SlicedOnce`, by a potential: `Left` counts what the markers still allow to be started, a pending
  marker beside an unowned `.processing` counting once because recovery merges them. A start pays with
  it, a request, a kill or an error adds to it.
* `RequestsAreKept`, as long as no operation raised: `KeptInv` adds that, before a step removes a marker, the
  request is settled or has a pending marker.
* `ResultsAreKept` (`ResultsSurvive`) and `ShownFollows` (`ShownFollowsTheDiagram`), two action properties, for
  requests that scan and cancel, which is what they are stated for. `QuietCalls` says which steps such requests have;
  `.done` then stands from the moment it is written. `OneRun` says that no request is about to queue a recording that
  is marked or done, and that recorded candidates have, before an operation raises, nothing around them that could
  start another run.

`WorkerWakeProofs` proves, for any pids, requests, clients and faults, `WakeInvariant`: `Spec => []IInv`, and
from it `OneServes`, `ServerIsNamed`, `StopIsEffective` and `NothingIsStranded`. `StopInv` carries the server
through the stop's statements: it is in the file when the file is read, the lock is held when it is tried,
and its pid cannot be given to another worker before the event loop is free. `ReadingInv` says why two
readings are enough: once the idle window has passed no worker is between its start and its lock, so the
reading that takes the lock has seen the last worker leave, and only the event loop could start another.

`UploadLockProofs` proves, for any consumers, with or without reused pids, `LockInvariant`, and from it
`SingleConsumer` and `RefusedForACause` (`RefusedWithCause`). As long as no file of a living creator was removed,
whoever has passed the creation owns the file (`OwnersOwn`), and a file that was not left behind has its creator in or
before the held state (`CreatorIsThere`). `Meeting` says that two consumers that are past `__enter__`'s first step at
once know of each other.

`SegmentReviewProofs` proves, for any ranges, styles and texts, every property of the run `segment_review`:

* `ReviewInvariant`: `Spec => []Inv`. `ReviewInv` keeps approving and finalizing apart: a request to finalize
  needs a segment that is not approved, and its job is then the only one. `ApprovalStands` follows.
* `SeenInv` says what a reviewer watched: a final replaced without a new revision has its job still running, or
  that job failed and the segment is not kept. `ShownInv` covers a failure that could not be recorded: whoever
  rewrites a final has taken its row or its preview away before, and both come back only with a new revision
  (`Unshown`). `OnlySeenIsActivated` follows.
* `KnownInv`, `OutInv` and `AwaitInv` tie the rows to the record: a staged row is the final or in the history, a row
  that is out is the final and nothing is being made, and no row of the history is staged any more once the
  worker has withdrawn. `StagedRowsAreKnown`, `InFlightIsUntouched` and `OneAwaits` follow.

`RecordingsProofs` proves, for recordings found in any state, any kills and failures, `RecordingInvariant`, and from
it `DoneMeansRecycled` (`PlanInv`: what the job believes to have moved is noted or noted next) and `MovedForACause`
(`CauseInv`: while there is a plan, its reason stands or somebody has gone back to work). `CopyIsKept` adds `CopyInv`
and holds whether or not `ProbesMayFail`: only a deletion by the script on a wrong verdict (`misjudged`), or the script
beside a job on the same files, takes the last whole copy.

`SlicePipelineProofs` proves the four invariants of the run `slicing`, for recordings of any length, any replies, threads
and failures. Its first half is about the algorithms, its second about the pipeline.

* *Folds.* The library's induction takes an operator as its parameter, which the provers cannot instantiate, and the
  algorithms are folds. `LeastElement` (every set of numbers that is not empty has a least one) replaces it: `FoldWalks`
  turns a fold from the left into the sequence of its values, `WalkExists`, and each algorithm has an invariant of that
  sequence, with a lemma for its step: `ScanStep` and `JoinStep` (every bursting second is in a burst, bursts lie
  apart), `ChooseStep` (what is not chosen has as many before it as are wanted, or one that it crowds), `ClusterStep`
  (groups lie apart and are held together by overlaps). `SortExists` shows that the order by density, which is defined
  by CHOOSE, exists.
* `CutComplete` (`CutIsComplete`) puts these together: each bursting second up to a context from its burst's anchor is
  inside the window that is cut (`EventReaches`), or its burst gives way to what is at least as dense, and windows and
  cores fit. What a burst has beyond that is cut off.
* `PipelineInvariant`: `Spec => []PipelineInv`. `CutInv` (candidates start apart, every one has a group), `HandInv` (what
  the step that is reached says of the clip in hand), `ListInv` (one record for each candidate that is finished and
  has a clip), `StagedInv` (a staged row has its files and its entry), `PhaseInv` (only a run that reached the loop can
  be done). `StagedListed` (`StagedIsListed`) follows. That candidates start apart is needed since a clip's path is
  made of its range: otherwise the failure of one would delete the metadata of another.
* `KeptProven` (`KeptIsProven`), by `KeptInv`: until its group is judged a clip's answer is what the model said. What
  is then kept passed the quality, duplicate, trim and boundary gates as the model gave it, and the speech heard
  within its repaired trim includes some before its core and some after it (`HeardAround`); both stay so in the hand
  of the task and in the list. The core meets the detector's burst where the detector gave that any length: a window a
  whole context away from the peak (`Lag >= Context`, which the code admits; its defaults are 0 s and 60 s) has no
  core to check against.
* `DuplicatesDecided` (`DuplicatesDecidedByRank`). `RuledInv`: the groups are exactly the clusters of overlaps, they are
  settled at once, and in a settled group each clip has won or lost (`Ruled`) by what the model said of the group alone.
  `SomeWin` is the reason why there are winners at all: the rule "who is not beaten by a winner wins" is recursive, and
  the ranks make it well founded; nothing is asked of `Similar`
  but that it is symmetric. `NamesInv` carries the names from the answers to the records. The attempt to prove
  that a duplicate names its winner failed on two winners with the same seconds; TLC then found the run of
  `DuplicatesNameTheirWinner` above, and the property says what is true: a segment of the winner's seconds.

Other assumptions are those of the modules (`MaxAttemptsAssumption`, `ProcessesAssumption`, ...): sizes
are natural numbers and model values are distinct. `PipelineAssumption` says in addition that a recording lasts a
second, and one that is cut longer than a context: two bursts of a recording of up to 60 s can have the same
window (`burst_detector.py:256` compares their overlap with the context), and then their clips have the same file
name. `DetectorAssumption` has `CoreReach` positive, which in the code is 5 s.
Every obligation is discharged by tlapm's SMT, Zenon and LS4 backends.

Only model-checked: the liveness properties `RunningWorkerSettles`, `RunningWorkerDrains`, `PendingIsServed`,
`ExpiredIsQueued`, `ExpiredEnds` and `ReadyGroupFinishes`, which TLAPS cannot prove. Every other property of a passing
run is a theorem, for every value of the constants that the modules admit and the assumptions named above.

## 5. Not modelled

The Angular frontend, the Eagle plugin and deployment scripts (presentation, packaging); ffmpeg, ASR and
model calls (their results are nondeterministic outcomes where they matter); the managed model runtime;
analytics (statistics over a table nobody else writes); the recorder's third-party code and its patches;
log and error wording, configuration and environments. In the modelled parts: `delete_upload_queue`, which
only takes back a row that the same call has just staged; `reset_upload_database` and the clean-up of other
runtime files, scripts for a stopped system; `feedback_refine` (an operator's batch that cuts again the clips
an older dashboard's feedback files marked as kept; its insertion into the queue is `UploadQueue`'s `InsertUpload`,
its naming, ranges and rewriting of clips are not modelled), subtitle styling, and the slicer's variant without an
upload queue; the sidecars of a recording, which are trashed with it.

## 6. Plan

1. `UploadQueue`, `UploadWorker`, `UploadLedger`, proofs and refinement. Done.
2. `UploadLock`, safety proved. Done.
3. `ActionJobs`, `JobLedger`, invariants and refinement proved. Done.
4. `WorkerLock` and `WorkerWake`, safety proved. Done.
5. `SliceMarkers`, invariants and action properties proved. Done.
6. `SegmentReview`, safety proved. Done.
7. `RecordingFiles` and `Recordings`, safety proved. Done.
8. `BurstDetector`, `ClipJudgement` and `SlicePipeline`, safety proved. Done; next `feedback_refine`.
9. Liveness of the consumer: a released row is eventually published, failed or orphaned.
