-------------------------- MODULE ActionJobsProofs --------------------------
(***************************************************************************)
(* Theorems of ActionJobs, for every number of workers, segments, jobs and *)
(* kills, whether or not unlinks are refused and pids are reused.          *)
(***************************************************************************)
EXTENDS ActionJobs, TLAPS

(* Job numbers are positive; 0 stands for no job.                           *)
LEMMA JobNumbers ==
    /\ 0 \notin Jobs /\ Jobs \subseteq Nat
    /\ \A n \in 1 .. MaxJobs + 1 : n <= MaxJobs => n \in Jobs /\ n + 1 \in 1 .. MaxJobs + 1
BY JobBoundsAssumption DEF Jobs

(* A history of jobs grows by a job.                                        *)
LEMMA OneMoreJob ==
    ASSUME NEW S, S \subseteq Jobs, NEW j \in Jobs
    PROVE  S \cup {j} \subseteq Jobs
OBVIOUS

(* The executions counted stay within their bound.                          *)
LEMMA CountBounded == \A n \in 0 .. Many : Count(n) \in 0 .. Many
BY DEF Count, Many

(* A job in hand has a number and a segment.                                *)
LEMMA JobInHand ==
    ASSUME TypeOK, InHand, Numbered, NEW w \in Workers, cur[w] # 0
    PROVE  cur[w] \in Jobs /\ cur[w] < nextJob /\ target[cur[w]] \in Targets
<1>1. cur[w] \in Jobs
  BY DEF TypeOK
<1>2. files[cur[w]] # {}
  BY DEF InHand
<1>3. cur[w] < nextJob
  <2>1. cur[w] \in Nat /\ nextJob \in Nat
    BY <1>1, JobBoundsAssumption DEF Jobs, TypeOK
  <2>2. ~(cur[w] >= nextJob)
    BY <1>1, <1>2 DEF Numbered
  <2>3. QED
    BY <2>1, <2>2
<1>4. QED
  BY <1>1, <1>3 DEF Numbered

(* The queue writes the history row of the job, or only notes that it *)
(* could not: the types are kept in either case.                            *)
LEMMA RecordTypes ==
    ASSUME NEW j \in Jobs, target[j] \in Targets,
           NEW status \in {"none", "pending", "processing", "done", "failed"},
           unsynced \subseteq Jobs,
           shown \in [Targets -> [job : Jobs \cup {0},
                     status : {"none", "pending", "processing", "done", "failed"}]],
           Record(j, status)
    PROVE  /\ unsynced' \subseteq Jobs
           /\ shown' \in [Targets -> [job : Jobs \cup {0},
                     status : {"none", "pending", "processing", "done", "failed"}]]
<1>1. CASE shown' = [shown EXCEPT ![target[j]] = [job |-> j, status |-> status]] /\ unsynced' = unsynced
  BY <1>1
<1>2. CASE shown' = shown /\ unsynced' = unsynced \cup {j}
  BY <1>2
<1>3. QED
  BY <1>1, <1>2 DEF Record

(* Every step keeps the types.                                              *)
LEMMA TypeStep == TypeOK /\ InHand /\ Numbered /\ [Next]_vars => TypeOK'
<1> SUFFICES ASSUME TypeOK, InHand, Numbered, [Next]_vars PROVE TypeOK'
  OBVIOUS
<1> USE JobNumbers, JobBoundsAssumption, ProcessesAssumption
        DEF TypeOK, InHand, Numbered, Steps, Locked, Executing, FileKinds, Processes, queue, history
<1>1. ASSUME NEW t \in Targets, Submit(t) PROVE TypeOK'
  BY <1>1 DEF Submit, Blocked, Active, Written
<1>2. CASE RecordPending
  BY <1>2 DEF RecordPending, Released
<1>3. CASE SubmitterFails
  BY <1>3 DEF SubmitterFails, Released
<1>4. ASSUME NEW j \in Jobs, Damage(j) PROVE TypeOK'
  BY <1>4 DEF Damage
<1>5. ASSUME NEW j \in Jobs, ReusePid(j) PROVE TypeOK'
  BY <1>5 DEF ReusePid
<1>6. ASSUME NEW w \in Workers, Start(w) PROVE TypeOK'
  BY <1>6 DEF Start, Goes, Holds
<1>7. ASSUME NEW w \in Workers, BeginSweep(w) PROVE TypeOK'
  BY <1>7 DEF BeginSweep, Goes, Holds
<1>8. ASSUME NEW w \in Workers, SweepUnlink(w) PROVE TypeOK'
  BY <1>8 DEF SweepUnlink, Unlinked, Goes, Holds
<1>9. ASSUME NEW w \in Workers, EndSweep(w) PROVE TypeOK'
  BY <1>9 DEF EndSweep, Goes, Holds
<1>10. ASSUME NEW w \in Workers, NEW j \in Jobs, SweepQuarantine(w, j) PROVE TypeOK'
  BY <1>10 DEF SweepQuarantine, SetAside, Renamed, Goes, Holds
<1>11. ASSUME NEW w \in Workers, NEW j \in Jobs, SweepWrite(w, j) PROVE TypeOK'
  BY <1>11 DEF SweepWrite, Stale, Written, Goes, Holds
<1>12. ASSUME NEW w \in Workers, BeginClaim(w) PROVE TypeOK'
  BY <1>12 DEF BeginClaim, Goes, Holds
<1>13. ASSUME NEW w \in Workers, Stamp(w) PROVE TypeOK'
  BY <1>13 DEF Stamp, Goes, Holds
<1>14. ASSUME NEW w \in Workers, NothingWaits(w) PROVE TypeOK'
  BY <1>14 DEF NothingWaits, Waiting, Goes, Holds
<1>15. ASSUME NEW w \in Workers, NEW j \in Jobs, SelectQuarantine(w, j) PROVE TypeOK'
  BY <1>15 DEF SelectQuarantine, SetAside, Renamed, Goes, Holds
<1>16. ASSUME NEW w \in Workers, NEW j \in Jobs, Rename(w, j) PROVE TypeOK'
  BY <1>16 DEF Rename, Waiting, Renamed, Goes, Holds
<1>17. ASSUME NEW w \in Workers, BeginExecution(w) PROVE TypeOK'
  <2>0. /\ unsynced \subseteq Jobs
        /\ shown \in [Targets -> [job : Jobs \cup {0},
                     status : {"none", "pending", "processing", "done", "failed"}]]
    OBVIOUS
  <2>1. cur[w] \in Jobs /\ target[cur[w]] \in Targets
    BY <1>17, JobInHand DEF BeginExecution
  <2>2. runs' \in [Jobs -> 0 .. Many]
    BY <1>17, <2>1, CountBounded DEF BeginExecution
  <2>3. Record(cur[w], "processing")
    BY <1>17 DEF BeginExecution
  <2>4. /\ unsynced' \subseteq Jobs
        /\ shown' \in [Targets -> [job : Jobs \cup {0},
                     status : {"none", "pending", "processing", "done", "failed"}]]
    BY ONLY <2>0, <2>1, <2>3, RecordTypes
  <2>5. pc' \in [Workers -> Steps]
    BY <1>17 DEF BeginExecution, Goes
  <2>6. QED
    BY <1>17, <2>2, <2>4, <2>5 DEF BeginExecution
<1>18. ASSUME NEW w \in Workers, EndExecution(w) PROVE TypeOK'
  BY <1>18 DEF EndExecution, Goes, Holds
<1>19. ASSUME NEW w \in Workers, RecordOutcome(w) PROVE TypeOK'
  <2>0. /\ unsynced \subseteq Jobs
        /\ shown \in [Targets -> [job : Jobs \cup {0},
                     status : {"none", "pending", "processing", "done", "failed"}]]
    OBVIOUS
  <2>1. cur[w] \in Jobs /\ target[cur[w]] \in Targets
    BY <1>19, JobInHand DEF RecordOutcome
  <2>2. pc' \in [Workers -> Steps]
    BY <1>19 DEF RecordOutcome, Goes
  <2>3. PICK status \in {"done", "failed"} : Record(cur[w], status)
    BY <1>19 DEF RecordOutcome
  <2>4. /\ unsynced' \subseteq Jobs
        /\ shown' \in [Targets -> [job : Jobs \cup {0},
                     status : {"none", "pending", "processing", "done", "failed"}]]
    BY ONLY <2>0, <2>1, <2>3, RecordTypes
  <2>5. QED
    BY <1>19, <2>2, <2>4 DEF RecordOutcome
<1>20. ASSUME NEW w \in Workers, WriteOutcome(w) PROVE TypeOK'
  BY <1>20 DEF WriteOutcome, Written, Goes, Holds
<1>21. ASSUME NEW w \in Workers, UnlinkProcessing(w) PROVE TypeOK'
  BY <1>21 DEF UnlinkProcessing, Unlinked, Goes, Holds
<1>22. ASSUME NEW w \in Workers, FinishRaises(w) PROVE TypeOK'
  <2>1. cur[w] \in Jobs
    BY <1>22, JobInHand DEF FinishRaises
  <2>2. interrupted \subseteq Jobs /\ interrupted' = interrupted \cup {cur[w]}
    BY <1>22 DEF FinishRaises
  <2>3. interrupted' \subseteq Jobs
    BY ONLY <2>1, <2>2, OneMoreJob
  <2>4. QED
    BY <1>22, <2>3 DEF FinishRaises, Goes
<1>23. ASSUME NEW w \in Workers, Kill(w) PROVE TypeOK'
  <2>1. pc[w] \in Executing => cur[w] \in Jobs
    BY <1>23, JobInHand
  <2>2. interrupted' \subseteq Jobs
    <3>1. interrupted \subseteq Jobs /\ interrupted \cup {} = interrupted
      OBVIOUS
    <3>2. CASE pc[w] \in Executing
      <4>1. interrupted' = interrupted \cup {cur[w]}
        BY <1>23, <3>2 DEF Kill
      <4>2. QED
        BY ONLY <2>1, <3>1, <3>2, <4>1, OneMoreJob
    <3>3. CASE pc[w] \notin Executing
      BY <1>23, <3>1, <3>3 DEF Kill
    <3>4. QED
      BY <3>2, <3>3
  <2>3. crashes' \in 0 .. MaxCrashes
    BY <1>23 DEF Kill
  <2>4. owner' \in [Jobs -> Workers \cup {Nobody, Stranger}]
    BY <1>23 DEF Kill
  <2>5. QED
    BY <1>23, <2>2, <2>3, <2>4 DEF Kill, Breaks, Goes, Holds
<1>24. ASSUME NEW w \in Workers, LockTimesOut(w) PROVE TypeOK'
  BY <1>24 DEF LockTimesOut, Breaks, Goes, Holds
<1>25. CASE UNCHANGED vars
  BY <1>25 DEF vars, queue, history
<1>26. QED
  BY <1>1, <1>2, <1>3, <1>4, <1>5, <1>6, <1>7, <1>8, <1>9, <1>10, <1>11,
     <1>12, <1>13, <1>14, <1>15, <1>16, <1>17, <1>18, <1>19, <1>20,
     <1>21, <1>22, <1>23, <1>24, <1>25
     DEF Next, Dashboard, Environment, Worker, Recovering, Claiming, Running

(* _finish_job writes an outcome, of either kind, beside the processing     *)
(* file: that changes nothing the workers know of the jobs in hand.         *)
LEMMA WriteOutcomeHand ==
    ASSUME TypeOK, InHand, NEW w \in Workers, WriteOutcome(w)
    PROVE  InHand'
<1>0. PICK kind \in {"done", "failed"} :
         /\ pc[w] = (IF kind = "done" THEN "writeDone" ELSE "writeFailed")
         /\ Written(cur[w], kind)
         /\ pc' = [pc EXCEPT ![w] = IF kind = "done" THEN "unlinkDone" ELSE "unlinkFailed"]
  BY DEF WriteOutcome, Goes
<1> DEFINE step == IF kind = "done" THEN "unlinkDone" ELSE "unlinkFailed"
<1>u. lock' = lock /\ unreadable' = unreadable /\ owner' = owner /\ cur' = cur
  BY DEF WriteOutcome
<1>1. cur[w] # 0 /\ cur[w] \in Jobs
  BY <1>0 DEF InHand, TypeOK
<1>2. \A j \in Jobs : files[j] \subseteq FileKinds /\ files'[j] =
         IF j = cur[w] THEN files[j] \cup {kind} ELSE files[j]
  BY <1>0 DEF TypeOK, Written
<1>3. \A j \in Jobs : \A other : other \in files[j] => other \in files'[j]
  BY <1>2
<1>4. kind # "processing" /\ kind # "pending"
  OBVIOUS
<1>5. \A j \in Jobs : /\ "processing" \in files'[j] <=> "processing" \in files[j]
                      /\ "pending" \in files'[j] <=> "pending" \in files[j]
  BY <1>2, <1>4
<1>6. kind \in files'[cur[w]]
  BY <1>1, <1>2
<1>7. \A v \in Workers : pc'[v] = IF v = w THEN step ELSE pc[v]
  BY <1>0 DEF TypeOK
<1>8. \A v \in Workers : cur[v] # 0 => cur[v] \in Jobs
  BY DEF TypeOK
<1>9. ASSUME NEW v \in Workers
      PROVE  /\ lock' = v <=> pc'[v] \in Locked
             /\ pc'[v] \in {"down", "gone", "recover", "sweep", "claim", "select"} <=> cur'[v] = 0
             /\ cur'[v] # 0 => ("pending" \in files'[cur'[v]] <=> pc'[v] = "swept")
             /\ cur'[v] # 0 => owner'[cur'[v]] = IF pc'[v] \in Locked THEN Nobody ELSE v
  BY <1>0, <1>u, <1>1, <1>5, <1>7, <1>8 DEF InHand, Locked
<1>10. ASSUME NEW v \in Workers
      PROVE  /\ pc'[v] = "unlinkDone" => "done" \in files'[cur'[v]]
             /\ pc'[v] = "unlinkFailed" => "failed" \in files'[cur'[v]]
  <2>1. CASE v = w
    BY <2>1, <1>u, <1>6, <1>7
  <2>2. CASE v # w
    BY <2>2, <1>u, <1>3, <1>7, <1>8 DEF InHand
  <2>3. QED
    BY <2>1, <2>2
<1>11. ASSUME NEW v \in Workers
      PROVE  cur'[v] # 0 => "processing" \in files'[cur'[v]] /\ cur'[v] \notin unreadable'
  BY <1>u, <1>5, <1>8 DEF InHand
<1>12. \A u, v \in Workers : cur'[u] = cur'[v] => u = v \/ cur'[u] = 0
  BY <1>u DEF InHand
<1>13. QED
  BY <1>9, <1>10, <1>11, <1>12 DEF InHand

(* A worker keeps the job it has in hand: the lock, and then the pid in the *)
(* processing file, keep every other worker off it.                         *)
LEMMA HandStep == TypeOK /\ InHand /\ Numbered /\ [Next]_vars => InHand'
<1> SUFFICES ASSUME TypeOK, InHand, Numbered, [Next]_vars PROVE InHand'
  OBVIOUS
<1> USE JobNumbers, JobBoundsAssumption, ProcessesAssumption
        DEF TypeOK, InHand, Numbered, Steps, Locked, Executing, FileKinds, Processes, queue, history
<1>1. ASSUME NEW t \in Targets, Submit(t) PROVE InHand'
  BY <1>1 DEF Submit, Blocked, Active, Written
<1>2. CASE RecordPending
  BY <1>2 DEF RecordPending, Released
<1>3. CASE SubmitterFails
  BY <1>3 DEF SubmitterFails, Released
<1>4. ASSUME NEW j \in Jobs, Damage(j) PROVE InHand'
  BY <1>4 DEF Damage
<1>5. ASSUME NEW j \in Jobs, ReusePid(j) PROVE InHand'
  BY <1>5 DEF ReusePid
<1>6. ASSUME NEW w \in Workers, Start(w) PROVE InHand'
  BY <1>6 DEF Start, Goes, Holds
<1>7. ASSUME NEW w \in Workers, BeginSweep(w) PROVE InHand'
  BY <1>7 DEF BeginSweep, Goes, Holds
<1>8. ASSUME NEW w \in Workers, SweepUnlink(w) PROVE InHand'
  BY <1>8 DEF SweepUnlink, Unlinked, Goes, Holds
<1>9. ASSUME NEW w \in Workers, EndSweep(w) PROVE InHand'
  BY <1>9 DEF EndSweep, Goes, Holds
<1>10. ASSUME NEW w \in Workers, NEW j \in Jobs, SweepQuarantine(w, j) PROVE InHand'
  BY <1>10 DEF SweepQuarantine, SetAside, Renamed, Goes, Holds
<1>11. ASSUME NEW w \in Workers, NEW j \in Jobs, SweepWrite(w, j) PROVE InHand'
  BY <1>11 DEF SweepWrite, Stale, Written, Goes, Holds
<1>12. ASSUME NEW w \in Workers, BeginClaim(w) PROVE InHand'
  BY <1>12 DEF BeginClaim, Goes, Holds
<1>13. ASSUME NEW w \in Workers, Stamp(w) PROVE InHand'
  BY <1>13 DEF Stamp, Goes, Holds
<1>14. ASSUME NEW w \in Workers, NothingWaits(w) PROVE InHand'
  BY <1>14 DEF NothingWaits, Waiting, Goes, Holds
<1>15. ASSUME NEW w \in Workers, NEW j \in Jobs, SelectQuarantine(w, j) PROVE InHand'
  BY <1>15 DEF SelectQuarantine, SetAside, Renamed, Goes, Holds
<1>16. ASSUME NEW w \in Workers, NEW j \in Jobs, Rename(w, j) PROVE InHand'
  BY <1>16 DEF Rename, Waiting, Renamed, Goes, Holds
<1>17. ASSUME NEW w \in Workers, BeginExecution(w) PROVE InHand'
  BY <1>17 DEF BeginExecution, Record, Count, Many, Goes, Holds
<1>18. ASSUME NEW w \in Workers, EndExecution(w) PROVE InHand'
  BY <1>18 DEF EndExecution, Goes, Holds
<1>19. ASSUME NEW w \in Workers, RecordOutcome(w) PROVE InHand'
  BY <1>19 DEF RecordOutcome, Record, Goes, Holds
<1>20. ASSUME NEW w \in Workers, WriteOutcome(w) PROVE InHand'
  BY <1>20, WriteOutcomeHand
<1>21. ASSUME NEW w \in Workers, UnlinkProcessing(w) PROVE InHand'
  BY <1>21 DEF UnlinkProcessing, Unlinked, Goes, Holds
<1>22. ASSUME NEW w \in Workers, FinishRaises(w) PROVE InHand'
  BY <1>22 DEF FinishRaises, Goes, Holds
<1>23. ASSUME NEW w \in Workers, Kill(w) PROVE InHand'
  BY <1>23 DEF Kill, Breaks, Goes, Holds
<1>24. ASSUME NEW w \in Workers, LockTimesOut(w) PROVE InHand'
  BY <1>24 DEF LockTimesOut, Breaks, Goes, Holds
<1>25. CASE UNCHANGED vars
  BY <1>25 DEF vars, queue, history
<1>26. QED
  BY <1>1, <1>2, <1>3, <1>4, <1>5, <1>6, <1>7, <1>8, <1>9, <1>10, <1>11,
     <1>12, <1>13, <1>14, <1>15, <1>16, <1>17, <1>18, <1>19, <1>20,
     <1>21, <1>22, <1>23, <1>24, <1>25
     DEF Next, Dashboard, Environment, Worker, Recovering, Claiming, Running

(* Numbers are given out once, by a submitter that holds the lock.          *)
LEMMA NumberStep == TypeOK /\ InHand /\ Numbered /\ [Next]_vars => Numbered'
<1> SUFFICES ASSUME TypeOK, InHand, Numbered, [Next]_vars PROVE Numbered'
  OBVIOUS
<1> USE JobNumbers, JobBoundsAssumption, ProcessesAssumption
        DEF TypeOK, InHand, Numbered, Steps, Locked, Executing, FileKinds, Processes, queue, history
<1>1. ASSUME NEW t \in Targets, Submit(t) PROVE Numbered'
  BY <1>1 DEF Submit, Blocked, Active, Written
<1>2. CASE RecordPending
  BY <1>2 DEF RecordPending, Released
<1>3. CASE SubmitterFails
  BY <1>3 DEF SubmitterFails, Released
<1>4. ASSUME NEW j \in Jobs, Damage(j) PROVE Numbered'
  BY <1>4 DEF Damage
<1>5. ASSUME NEW j \in Jobs, ReusePid(j) PROVE Numbered'
  BY <1>5 DEF ReusePid
<1>6. ASSUME NEW w \in Workers, Start(w) PROVE Numbered'
  BY <1>6 DEF Start, Goes, Holds
<1>7. ASSUME NEW w \in Workers, BeginSweep(w) PROVE Numbered'
  BY <1>7 DEF BeginSweep, Goes, Holds
<1>8. ASSUME NEW w \in Workers, SweepUnlink(w) PROVE Numbered'
  BY <1>8 DEF SweepUnlink, Unlinked, Goes, Holds
<1>9. ASSUME NEW w \in Workers, EndSweep(w) PROVE Numbered'
  BY <1>9 DEF EndSweep, Goes, Holds
<1>10. ASSUME NEW w \in Workers, NEW j \in Jobs, SweepQuarantine(w, j) PROVE Numbered'
  BY <1>10 DEF SweepQuarantine, SetAside, Renamed, Goes, Holds
<1>11. ASSUME NEW w \in Workers, NEW j \in Jobs, SweepWrite(w, j) PROVE Numbered'
  BY <1>11 DEF SweepWrite, Stale, Written, Goes, Holds
<1>12. ASSUME NEW w \in Workers, BeginClaim(w) PROVE Numbered'
  BY <1>12 DEF BeginClaim, Goes, Holds
<1>13. ASSUME NEW w \in Workers, Stamp(w) PROVE Numbered'
  BY <1>13 DEF Stamp, Goes, Holds
<1>14. ASSUME NEW w \in Workers, NothingWaits(w) PROVE Numbered'
  BY <1>14 DEF NothingWaits, Waiting, Goes, Holds
<1>15. ASSUME NEW w \in Workers, NEW j \in Jobs, SelectQuarantine(w, j) PROVE Numbered'
  BY <1>15 DEF SelectQuarantine, SetAside, Renamed, Goes, Holds
<1>16. ASSUME NEW w \in Workers, NEW j \in Jobs, Rename(w, j) PROVE Numbered'
  BY <1>16 DEF Rename, Waiting, Renamed, Goes, Holds
<1>17. ASSUME NEW w \in Workers, BeginExecution(w) PROVE Numbered'
  BY <1>17 DEF BeginExecution, Record, Count, Many, Goes, Holds
<1>18. ASSUME NEW w \in Workers, EndExecution(w) PROVE Numbered'
  BY <1>18 DEF EndExecution, Goes, Holds
<1>19. ASSUME NEW w \in Workers, RecordOutcome(w) PROVE Numbered'
  BY <1>19 DEF RecordOutcome, Record, Goes, Holds
<1>20. ASSUME NEW w \in Workers, WriteOutcome(w) PROVE Numbered'
  BY <1>20 DEF WriteOutcome, Written, Goes, Holds
<1>21. ASSUME NEW w \in Workers, UnlinkProcessing(w) PROVE Numbered'
  BY <1>21 DEF UnlinkProcessing, Unlinked, Goes, Holds
<1>22. ASSUME NEW w \in Workers, FinishRaises(w) PROVE Numbered'
  BY <1>22 DEF FinishRaises, Goes, Holds
<1>23. ASSUME NEW w \in Workers, Kill(w) PROVE Numbered'
  BY <1>23 DEF Kill, Breaks, Goes, Holds
<1>24. ASSUME NEW w \in Workers, LockTimesOut(w) PROVE Numbered'
  BY <1>24 DEF LockTimesOut, Breaks, Goes, Holds
<1>25. CASE UNCHANGED vars
  BY <1>25 DEF vars, queue, history
<1>26. QED
  BY <1>1, <1>2, <1>3, <1>4, <1>5, <1>6, <1>7, <1>8, <1>9, <1>10, <1>11,
     <1>12, <1>13, <1>14, <1>15, <1>16, <1>17, <1>18, <1>19, <1>20,
     <1>21, <1>22, <1>23, <1>24, <1>25
     DEF Next, Dashboard, Environment, Worker, Recovering, Claiming, Running

(* No rename, write or unlink makes a job active that was not, and a        *)
(* submission only activates a job of a segment without one.                *)
LEMMA ActiveStep == JobInv /\ [Next]_vars => OneActivePerTarget'
<1> SUFFICES ASSUME TypeOK, InHand, Numbered, OneActivePerTarget, [Next]_vars PROVE OneActivePerTarget'
  BY DEF JobInv
<1> USE JobNumbers, JobBoundsAssumption, ProcessesAssumption
        DEF TypeOK, InHand, Numbered, OneActivePerTarget, Active, Steps, Locked, Executing,
            FileKinds, Processes, queue, history
<1>1. ASSUME NEW t \in Targets, Submit(t) PROVE OneActivePerTarget'
  BY <1>1 DEF Submit, Blocked, Active, Written
<1>2. CASE RecordPending
  BY <1>2 DEF RecordPending, Released
<1>3. CASE SubmitterFails
  BY <1>3 DEF SubmitterFails, Released
<1>4. ASSUME NEW j \in Jobs, Damage(j) PROVE OneActivePerTarget'
  BY <1>4 DEF Damage
<1>5. ASSUME NEW j \in Jobs, ReusePid(j) PROVE OneActivePerTarget'
  BY <1>5 DEF ReusePid
<1>6. ASSUME NEW w \in Workers, Start(w) PROVE OneActivePerTarget'
  BY <1>6 DEF Start, Goes, Holds
<1>7. ASSUME NEW w \in Workers, BeginSweep(w) PROVE OneActivePerTarget'
  BY <1>7 DEF BeginSweep, Goes, Holds
<1>8. ASSUME NEW w \in Workers, SweepUnlink(w) PROVE OneActivePerTarget'
  BY <1>8 DEF SweepUnlink, Unlinked, Goes, Holds
<1>9. ASSUME NEW w \in Workers, EndSweep(w) PROVE OneActivePerTarget'
  BY <1>9 DEF EndSweep, Goes, Holds
<1>10. ASSUME NEW w \in Workers, NEW j \in Jobs, SweepQuarantine(w, j) PROVE OneActivePerTarget'
  BY <1>10 DEF SweepQuarantine, SetAside, Renamed, Goes, Holds
<1>11. ASSUME NEW w \in Workers, NEW j \in Jobs, SweepWrite(w, j) PROVE OneActivePerTarget'
  BY <1>11 DEF SweepWrite, Stale, Written, Goes, Holds
<1>12. ASSUME NEW w \in Workers, BeginClaim(w) PROVE OneActivePerTarget'
  BY <1>12 DEF BeginClaim, Goes, Holds
<1>13. ASSUME NEW w \in Workers, Stamp(w) PROVE OneActivePerTarget'
  BY <1>13 DEF Stamp, Goes, Holds
<1>14. ASSUME NEW w \in Workers, NothingWaits(w) PROVE OneActivePerTarget'
  BY <1>14 DEF NothingWaits, Waiting, Goes, Holds
<1>15. ASSUME NEW w \in Workers, NEW j \in Jobs, SelectQuarantine(w, j) PROVE OneActivePerTarget'
  BY <1>15 DEF SelectQuarantine, SetAside, Renamed, Goes, Holds
<1>16. ASSUME NEW w \in Workers, NEW j \in Jobs, Rename(w, j) PROVE OneActivePerTarget'
  BY <1>16 DEF Rename, Waiting, Renamed, Goes, Holds
<1>17. ASSUME NEW w \in Workers, BeginExecution(w) PROVE OneActivePerTarget'
  BY <1>17 DEF BeginExecution, Record, Count, Many, Goes, Holds
<1>18. ASSUME NEW w \in Workers, EndExecution(w) PROVE OneActivePerTarget'
  BY <1>18 DEF EndExecution, Goes, Holds
<1>19. ASSUME NEW w \in Workers, RecordOutcome(w) PROVE OneActivePerTarget'
  BY <1>19 DEF RecordOutcome, Record, Goes, Holds
<1>20. ASSUME NEW w \in Workers, WriteOutcome(w) PROVE OneActivePerTarget'
  BY <1>20 DEF WriteOutcome, Written, Goes, Holds
<1>21. ASSUME NEW w \in Workers, UnlinkProcessing(w) PROVE OneActivePerTarget'
  BY <1>21 DEF UnlinkProcessing, Unlinked, Goes, Holds
<1>22. ASSUME NEW w \in Workers, FinishRaises(w) PROVE OneActivePerTarget'
  BY <1>22 DEF FinishRaises, Goes, Holds
<1>23. ASSUME NEW w \in Workers, Kill(w) PROVE OneActivePerTarget'
  BY <1>23 DEF Kill, Breaks, Goes, Holds
<1>24. ASSUME NEW w \in Workers, LockTimesOut(w) PROVE OneActivePerTarget'
  BY <1>24 DEF LockTimesOut, Breaks, Goes, Holds
<1>25. CASE UNCHANGED vars
  BY <1>25 DEF vars, queue, history
<1>26. QED
  BY <1>1, <1>2, <1>3, <1>4, <1>5, <1>6, <1>7, <1>8, <1>9, <1>10, <1>11,
     <1>12, <1>13, <1>14, <1>15, <1>16, <1>17, <1>18, <1>19, <1>20,
     <1>21, <1>22, <1>23, <1>24, <1>25
     DEF Next, Dashboard, Environment, Worker, Recovering, Claiming, Running

(* Every unlink leaves another file of its job.                             *)
LEMMA KeptStep == JobInv /\ [Next]_vars => EveryJobKept'
<1> SUFFICES ASSUME TypeOK, InHand, Numbered, EveryJobKept, [Next]_vars PROVE EveryJobKept'
  BY DEF JobInv
<1> USE JobNumbers, JobBoundsAssumption, ProcessesAssumption
        DEF TypeOK, InHand, Numbered, EveryJobKept, Steps, Locked, Executing, FileKinds, Processes,
            queue, history
<1>1. ASSUME NEW t \in Targets, Submit(t) PROVE EveryJobKept'
  <2>1. "pending" \in files'[nextJob]
    BY <1>1 DEF Submit, Written
  <2>2. \A i \in Jobs \ {nextJob} : files'[i] = files[i]
    BY <1>1 DEF Submit, Written
  <2>3. QED
    BY <1>1, <2>1, <2>2 DEF Submit
<1>2. CASE RecordPending
  BY <1>2 DEF RecordPending, Released
<1>3. CASE SubmitterFails
  BY <1>3 DEF SubmitterFails, Released
<1>4. ASSUME NEW j \in Jobs, Damage(j) PROVE EveryJobKept'
  BY <1>4 DEF Damage
<1>5. ASSUME NEW j \in Jobs, ReusePid(j) PROVE EveryJobKept'
  BY <1>5 DEF ReusePid
<1>6. ASSUME NEW w \in Workers, Start(w) PROVE EveryJobKept'
  BY <1>6 DEF Start, Goes, Holds
<1>7. ASSUME NEW w \in Workers, BeginSweep(w) PROVE EveryJobKept'
  BY <1>7 DEF BeginSweep, Goes, Holds
<1>8. ASSUME NEW w \in Workers, SweepUnlink(w) PROVE EveryJobKept'
  BY <1>8 DEF SweepUnlink, Unlinked, Goes, Holds
<1>9. ASSUME NEW w \in Workers, EndSweep(w) PROVE EveryJobKept'
  BY <1>9 DEF EndSweep, Goes, Holds
<1>10. ASSUME NEW w \in Workers, NEW j \in Jobs, SweepQuarantine(w, j) PROVE EveryJobKept'
  <2>1. "invalid" \in files'[j]
    BY <1>10 DEF SweepQuarantine, SetAside, Renamed
  <2>2. \A i \in Jobs \ {j} : files'[i] = files[i]
    BY <1>10 DEF SweepQuarantine, SetAside, Renamed
  <2>3. QED
    BY <1>10, <2>1, <2>2 DEF SweepQuarantine, SetAside
<1>11. ASSUME NEW w \in Workers, NEW j \in Jobs, SweepWrite(w, j) PROVE EveryJobKept'
  BY <1>11 DEF SweepWrite, Stale, Written, Goes, Holds
<1>12. ASSUME NEW w \in Workers, BeginClaim(w) PROVE EveryJobKept'
  BY <1>12 DEF BeginClaim, Goes, Holds
<1>13. ASSUME NEW w \in Workers, Stamp(w) PROVE EveryJobKept'
  BY <1>13 DEF Stamp, Goes, Holds
<1>14. ASSUME NEW w \in Workers, NothingWaits(w) PROVE EveryJobKept'
  BY <1>14 DEF NothingWaits, Waiting, Goes, Holds
<1>15. ASSUME NEW w \in Workers, NEW j \in Jobs, SelectQuarantine(w, j) PROVE EveryJobKept'
  <2>1. "invalid" \in files'[j]
    BY <1>15 DEF SelectQuarantine, SetAside, Renamed
  <2>2. \A i \in Jobs \ {j} : files'[i] = files[i]
    BY <1>15 DEF SelectQuarantine, SetAside, Renamed
  <2>3. QED
    BY <1>15, <2>1, <2>2 DEF SelectQuarantine, SetAside
<1>16. ASSUME NEW w \in Workers, NEW j \in Jobs, Rename(w, j) PROVE EveryJobKept'
  <2>1. "processing" \in files'[j]
    BY <1>16 DEF Rename, Renamed
  <2>2. \A i \in Jobs \ {j} : files'[i] = files[i]
    BY <1>16 DEF Rename, Renamed
  <2>3. QED
    BY <1>16, <2>1, <2>2 DEF Rename
<1>17. ASSUME NEW w \in Workers, BeginExecution(w) PROVE EveryJobKept'
  BY <1>17 DEF BeginExecution, Record, Count, Many, Goes, Holds
<1>18. ASSUME NEW w \in Workers, EndExecution(w) PROVE EveryJobKept'
  BY <1>18 DEF EndExecution, Goes, Holds
<1>19. ASSUME NEW w \in Workers, RecordOutcome(w) PROVE EveryJobKept'
  BY <1>19 DEF RecordOutcome, Record, Goes, Holds
<1>20. ASSUME NEW w \in Workers, WriteOutcome(w) PROVE EveryJobKept'
  BY <1>20 DEF WriteOutcome, Written, Goes, Holds
<1>21. ASSUME NEW w \in Workers, UnlinkProcessing(w) PROVE EveryJobKept'
  BY <1>21 DEF UnlinkProcessing, Unlinked, Goes, Holds
<1>22. ASSUME NEW w \in Workers, FinishRaises(w) PROVE EveryJobKept'
  BY <1>22 DEF FinishRaises, Goes, Holds
<1>23. ASSUME NEW w \in Workers, Kill(w) PROVE EveryJobKept'
  BY <1>23 DEF Kill, Breaks, Goes, Holds
<1>24. ASSUME NEW w \in Workers, LockTimesOut(w) PROVE EveryJobKept'
  BY <1>24 DEF LockTimesOut, Breaks, Goes, Holds
<1>25. CASE UNCHANGED vars
  BY <1>25 DEF vars, queue, history
<1>26. QED
  BY <1>1, <1>2, <1>3, <1>4, <1>5, <1>6, <1>7, <1>8, <1>9, <1>10, <1>11,
     <1>12, <1>13, <1>14, <1>15, <1>16, <1>17, <1>18, <1>19, <1>20,
     <1>21, <1>22, <1>23, <1>24, <1>25
     DEF Next, Dashboard, Environment, Worker, Recovering, Claiming, Running

(* At first no job is known and no process runs.                            *)
LEMMA InitJobInv == Init => JobInv
<1> SUFFICES ASSUME Init PROVE JobInv
  OBVIOUS
<1> USE JobNumbers, JobBoundsAssumption, ProcessesAssumption DEF Init
<1>1. TypeOK
  BY DEF TypeOK, Steps, FileKinds, Processes, Many
<1>2. InHand
  BY DEF InHand, Locked
<1>3. Numbered
  BY DEF Numbered
<1>4. OneActivePerTarget /\ EveryJobKept
  BY DEF OneActivePerTarget, EveryJobKept, Active
<1>5. QED
  BY <1>1, <1>2, <1>3, <1>4 DEF JobInv

(* The inductive invariant holds throughout.                                *)
THEOREM JobInvariant == Spec => []JobInv
<1>1. JobInv /\ [Next]_vars => JobInv'
  BY TypeStep, HandStep, NumberStep, ActiveStep, KeptStep DEF JobInv
<1>2. QED
  BY <1>1, InitJobInv, PTL DEF Spec

(* Every variable keeps its type.                                           *)
THEOREM JobTypeCorrect == Spec => []TypeOK
<1>1. JobInv => TypeOK
  BY DEF JobInv
<1>2. QED
  BY <1>1, JobInvariant, PTL

(* A segment never has two active jobs.                                     *)
THEOREM OneActive == Spec => []OneActivePerTarget
<1>1. JobInv => OneActivePerTarget
  BY DEF JobInv
<1>2. QED
  BY <1>1, JobInvariant, PTL

(* No submitted job is ever without a file, wherever a worker is killed.    *)
THEOREM NoJobLost == Spec => []EveryJobKept
<1>1. JobInv => EveryJobKept
  BY DEF JobInv
<1>2. QED
  BY <1>1, JobInvariant, PTL

-----------------------------------------------------------------------------
(* The histories: attempts, what is shown, damage.                          *)

(* Only who holds a job executes it, for the first time if nobody was       *)
(* interrupted, and leaves it ended.                                        *)
LEMMA AttemptStep == JobInv /\ Attempted /\ [Next]_vars => Attempted'
<1> SUFFICES ASSUME JobInv, Attempted, [Next]_vars PROVE Attempted'
  OBVIOUS
<1> USE JobNumbers, JobBoundsAssumption, ProcessesAssumption
        DEF TypeOK, InHand, Numbered, Steps, Locked, Executing, FileKinds, Processes, queue,
            history, JobInv, Attempted, HasOutcome, InExecution
<1>1. ASSUME NEW t \in Targets, Submit(t) PROVE Attempted'
  BY <1>1 DEF Submit, Blocked, Active, Written
<1>2. CASE RecordPending
  BY <1>2 DEF RecordPending, Released
<1>3. CASE SubmitterFails
  BY <1>3 DEF SubmitterFails, Released
<1>4. ASSUME NEW j \in Jobs, Damage(j) PROVE Attempted'
  BY <1>4 DEF Damage
<1>5. ASSUME NEW j \in Jobs, ReusePid(j) PROVE Attempted'
  BY <1>5 DEF ReusePid
<1>6. ASSUME NEW w \in Workers, Start(w) PROVE Attempted'
  BY <1>6 DEF Start, Goes, Holds
<1>7. ASSUME NEW w \in Workers, BeginSweep(w) PROVE Attempted'
  BY <1>7 DEF BeginSweep, Goes, Holds
<1>8. ASSUME NEW w \in Workers, SweepUnlink(w) PROVE Attempted'
  BY <1>8 DEF SweepUnlink, Unlinked, Goes, Holds
<1>9. ASSUME NEW w \in Workers, EndSweep(w) PROVE Attempted'
  BY <1>9 DEF EndSweep, Goes, Holds
<1>10. ASSUME NEW w \in Workers, NEW j \in Jobs, SweepQuarantine(w, j) PROVE Attempted'
  BY <1>10 DEF SweepQuarantine, SetAside, Renamed
<1>11. ASSUME NEW w \in Workers, NEW j \in Jobs, SweepWrite(w, j) PROVE Attempted'
  BY <1>11 DEF SweepWrite, Stale, Written, Goes, Holds
<1>12. ASSUME NEW w \in Workers, BeginClaim(w) PROVE Attempted'
  BY <1>12 DEF BeginClaim, Goes, Holds
<1>13. ASSUME NEW w \in Workers, Stamp(w) PROVE Attempted'
  BY <1>13 DEF Stamp, Goes, Holds
<1>14. ASSUME NEW w \in Workers, NothingWaits(w) PROVE Attempted'
  BY <1>14 DEF NothingWaits, Goes, Holds
<1>15. ASSUME NEW w \in Workers, NEW j \in Jobs, SelectQuarantine(w, j) PROVE Attempted'
  BY <1>15 DEF SelectQuarantine, SetAside, Renamed
<1>16. ASSUME NEW w \in Workers, NEW j \in Jobs, Rename(w, j) PROVE Attempted'
  BY <1>16 DEF Rename, Waiting, Renamed, Goes, Holds
<1>17. ASSUME NEW w \in Workers, BeginExecution(w) PROVE Attempted'
  <2>1. cur[w] \in Jobs /\ cur[w] # 0 /\ pc[w] = "begin"
    BY <1>17 DEF BeginExecution
  <2>2. cur[w] \notin interrupted => runs[cur[w]] = 0
    <3>1. "processing" \in files[cur[w]]
      BY <2>1
    <3>2. ~InExecution(cur[w])
      BY <2>1
    <3>3. QED
      BY <2>1, <3>1, <3>2
  <2>3. /\ files' = files /\ interrupted' = interrupted /\ cur' = cur
        /\ runs' = [runs EXCEPT ![cur[w]] = Count(@)]
        /\ pc' = [pc EXCEPT ![w] = "execute"]
    BY <1>17 DEF BeginExecution, Goes, Record
  <2>4. Count(0) = 1
    BY DEF Count, Many
  <2>5. \A j \in Jobs \ {cur[w]} : InExecution(j) <=> InExecution(j)'
    BY <2>1, <2>3
  <2>6. InExecution(cur[w])'
    BY <2>1, <2>3
  <2>7. \A j \in Jobs \ interrupted' :
          /\ runs'[j] \in {0, 1}
          /\ HasOutcome(j)' \/ InExecution(j)' => runs'[j] = 1
          /\ runs'[j] = 1 =>
              \/ InExecution(j)'
              \/ HasOutcome(j)' /\ files'[j] \cap {"pending", "processing"} = {}
          /\ ~({"done", "failed"} \subseteq files'[j])
    <3> SUFFICES ASSUME NEW j \in Jobs \ interrupted
                 PROVE  /\ runs'[j] \in {0, 1}
                        /\ HasOutcome(j) \/ InExecution(j)' => runs'[j] = 1
                        /\ runs'[j] = 1 =>
                            \/ InExecution(j)'
                            \/ HasOutcome(j) /\ files[j] \cap {"pending", "processing"} = {}
                        /\ ~({"done", "failed"} \subseteq files[j])
      BY <2>3
    <3>1. CASE j = cur[w]
      BY <2>2, <2>3, <2>4, <2>6, <3>1
    <3>2. CASE j # cur[w]
      BY <2>3, <2>5, <3>2
    <3>3. QED
      BY <3>1, <3>2
  <2>8. cur[w] \notin interrupted => ~HasOutcome(cur[w])
    <3> SUFFICES ASSUME cur[w] \notin interrupted, HasOutcome(cur[w]) PROVE FALSE
      OBVIOUS
    <3>1. cur[w] \in Jobs \ interrupted
      BY <2>1
    <3>2. runs[cur[w]] = 1
      BY <3>1
    <3>3. QED
      BY <2>2, <3>2
  <2>9. QED
    BY <2>3, <2>7, <2>8
<1>18. ASSUME NEW w \in Workers, EndExecution(w) PROVE Attempted'
  BY <1>18 DEF EndExecution, Goes
<1>19. ASSUME NEW w \in Workers, RecordOutcome(w) PROVE Attempted'
  <2>1. /\ files' = files /\ interrupted' = interrupted /\ cur' = cur /\ runs' = runs
        /\ pc[w] \in {"recordDone", "recordFailed"}
        /\ \E step \in {"writeDone", "writeFailed"} : pc' = [pc EXCEPT ![w] = step]
    BY <1>19 DEF RecordOutcome, Goes
  <2>2. \A j \in Jobs : InExecution(j)' <=> InExecution(j)
    BY <2>1
  <2>3. QED
    BY <2>1, <2>2
<1>20. ASSUME NEW w \in Workers, WriteOutcome(w) PROVE Attempted'
  <2>1. /\ cur[w] \in Jobs /\ cur[w] # 0 /\ pc[w] \in {"writeDone", "writeFailed"}
        /\ cur[w] \notin interrupted => ~HasOutcome(cur[w])
    BY <1>20 DEF WriteOutcome
  <2>2. PICK kind \in {"done", "failed"} :
          /\ files' = [files EXCEPT ![cur[w]] = @ \cup {kind}]
          /\ pc' = [pc EXCEPT ![w] = IF kind = "done" THEN "unlinkDone" ELSE "unlinkFailed"]
    BY <1>20 DEF WriteOutcome, Written, Goes
  <2>3. interrupted' = interrupted /\ cur' = cur /\ runs' = runs
    BY <1>20 DEF WriteOutcome
  <2>4. \A j \in Jobs : InExecution(j) => InExecution(j)'
    BY <2>1, <2>2, <2>3
  <2>5. cur[w] \notin interrupted => runs[cur[w]] = 1
    <3>1. InExecution(cur[w])
      BY <2>1
    <3>2. QED
      BY <2>1, <3>1
  <2>6. QED
    BY <2>1, <2>2, <2>3, <2>4, <2>5
<1>21. ASSUME NEW w \in Workers, UnlinkProcessing(w) PROVE Attempted'
  BY <1>21 DEF UnlinkProcessing, Unlinked, Goes, Holds
<1>22. ASSUME NEW w \in Workers, FinishRaises(w) PROVE Attempted'
  BY <1>22 DEF FinishRaises, Goes
<1>23. ASSUME NEW w \in Workers, Kill(w) PROVE Attempted'
  BY <1>23 DEF Kill, Breaks, Goes, Holds
<1>24. ASSUME NEW w \in Workers, LockTimesOut(w) PROVE Attempted'
  BY <1>24 DEF LockTimesOut, Breaks, Goes
<1>25. CASE UNCHANGED vars
  BY <1>25 DEF vars, queue, history
<1>26. QED
  BY <1>1, <1>2, <1>3, <1>4, <1>5, <1>6, <1>7, <1>8, <1>9, <1>10, <1>11, <1>12, <1>13, <1>14, <1>15,
       <1>16, <1>17, <1>18, <1>19, <1>20, <1>21, <1>22, <1>23, <1>24, <1>25
     DEF Next, Dashboard, Environment, Worker, Recovering, Claiming, Running
(* Records are made by those who hold the job, the newest of its segment,   *)
(* before its file is finished.                                             *)
LEMMA ShownStep == JobInv /\ ShownKnown /\ [Next]_vars => ShownKnown'
<1> SUFFICES ASSUME JobInv, ShownKnown, [Next]_vars PROVE ShownKnown'
  OBVIOUS
<1> USE JobNumbers, JobBoundsAssumption, ProcessesAssumption
        DEF TypeOK, InHand, Numbered, Steps, Locked, Executing, FileKinds, Processes, queue,
            history, JobInv, ShownKnown, OneActivePerTarget, Active
<1>1. ASSUME NEW t \in Targets, Submit(t) PROVE ShownKnown'
  BY <1>1 DEF Submit, Blocked, Active, Written
<1>2. CASE RecordPending
  BY <1>2 DEF RecordPending, Released
<1>3. CASE SubmitterFails
  BY <1>3 DEF SubmitterFails, Released
<1>4. ASSUME NEW j \in Jobs, Damage(j) PROVE ShownKnown'
  BY <1>4 DEF Damage
<1>5. ASSUME NEW j \in Jobs, ReusePid(j) PROVE ShownKnown'
  BY <1>5 DEF ReusePid
<1>6. ASSUME NEW w \in Workers, Start(w) PROVE ShownKnown'
  BY <1>6 DEF Start, Goes, Holds
<1>7. ASSUME NEW w \in Workers, BeginSweep(w) PROVE ShownKnown'
  BY <1>7 DEF BeginSweep, Goes, Holds
<1>8. ASSUME NEW w \in Workers, SweepUnlink(w) PROVE ShownKnown'
  BY <1>8 DEF SweepUnlink, Unlinked, Goes, Holds
<1>9. ASSUME NEW w \in Workers, EndSweep(w) PROVE ShownKnown'
  BY <1>9 DEF EndSweep, Goes, Holds
<1>10. ASSUME NEW w \in Workers, NEW j \in Jobs, SweepQuarantine(w, j) PROVE ShownKnown'
  BY <1>10 DEF SweepQuarantine, SetAside, Renamed
<1>11. ASSUME NEW w \in Workers, NEW j \in Jobs, SweepWrite(w, j) PROVE ShownKnown'
  BY <1>11 DEF SweepWrite, Stale, Written, Goes, Holds
<1>12. ASSUME NEW w \in Workers, BeginClaim(w) PROVE ShownKnown'
  BY <1>12 DEF BeginClaim, Goes, Holds
<1>13. ASSUME NEW w \in Workers, Stamp(w) PROVE ShownKnown'
  BY <1>13 DEF Stamp, Goes, Holds
<1>14. ASSUME NEW w \in Workers, NothingWaits(w) PROVE ShownKnown'
  BY <1>14 DEF NothingWaits, Goes, Holds
<1>15. ASSUME NEW w \in Workers, NEW j \in Jobs, SelectQuarantine(w, j) PROVE ShownKnown'
  BY <1>15 DEF SelectQuarantine, SetAside, Renamed
<1>16. ASSUME NEW w \in Workers, NEW j \in Jobs, Rename(w, j) PROVE ShownKnown'
  BY <1>16 DEF Rename, Waiting, Renamed, Goes, Holds
<1>17. ASSUME NEW w \in Workers, BeginExecution(w) PROVE ShownKnown'
  <2>1. /\ cur[w] \in Jobs /\ cur[w] # 0 /\ target[cur[w]] \in Targets
        /\ "processing" \in files[cur[w]]
    BY <1>17, JobInHand DEF BeginExecution, JobInv
  <2>2. CASE /\ shown' = [shown EXCEPT ![target[cur[w]]] = [job |-> cur[w], status |-> "processing"]]
             /\ unsynced' = unsynced
    BY <1>17, <2>1, <2>2 DEF BeginExecution, Goes
  <2>3. CASE unsynced' = unsynced \cup {cur[w]} /\ shown' = shown
    <3>1. /\ files' = files /\ target' = target /\ cur' = cur /\ submitting' = submitting
          /\ \E step \in {"execute"} : pc' = [pc EXCEPT ![w] = step]
      BY <1>17 DEF BeginExecution, Goes
    <3>2. \A v \in Workers \ {w} : pc'[v] = pc[v]
      BY <3>1
    <3>3. cur[w] \in unsynced' /\ unsynced \subseteq unsynced'
      BY <2>3
    <3>4. QED
      BY <2>3, <3>1, <3>2, <3>3
  <2>4. QED
    BY <1>17, <2>2, <2>3 DEF BeginExecution, Record
<1>18. ASSUME NEW w \in Workers, EndExecution(w) PROVE ShownKnown'
  BY <1>18 DEF EndExecution, Goes
<1>19. ASSUME NEW w \in Workers, RecordOutcome(w) PROVE ShownKnown'
  <2>1. /\ cur[w] \in Jobs /\ cur[w] # 0 /\ target[cur[w]] \in Targets
        /\ "processing" \in files[cur[w]]
    BY <1>19, JobInHand DEF RecordOutcome, JobInv
  <2>2. CASE /\ \E status \in {"done", "failed"} :
                 shown' = [shown EXCEPT ![target[cur[w]]] = [job |-> cur[w], status |-> status]]
             /\ unsynced' = unsynced
    BY <1>19, <2>1, <2>2 DEF RecordOutcome, Goes
  <2>3. CASE unsynced' = unsynced \cup {cur[w]} /\ shown' = shown
    <3>1. /\ files' = files /\ target' = target /\ cur' = cur /\ submitting' = submitting
          /\ \E step \in {"writeDone", "writeFailed"} : pc' = [pc EXCEPT ![w] = step]
      BY <1>19 DEF RecordOutcome, Goes
    <3>2. \A v \in Workers \ {w} : pc'[v] = pc[v]
      BY <3>1
    <3>3. cur[w] \in unsynced' /\ unsynced \subseteq unsynced'
      BY <2>3
    <3>4. QED
      BY <2>3, <3>1, <3>2, <3>3
  <2>4. QED
    BY <1>19, <2>2, <2>3 DEF RecordOutcome, Record
<1>20. ASSUME NEW w \in Workers, WriteOutcome(w) PROVE ShownKnown'
  BY <1>20 DEF WriteOutcome, Written, Goes
<1>21. ASSUME NEW w \in Workers, UnlinkProcessing(w) PROVE ShownKnown'
  BY <1>21 DEF UnlinkProcessing, Unlinked, Goes, Holds
<1>22. ASSUME NEW w \in Workers, FinishRaises(w) PROVE ShownKnown'
  BY <1>22 DEF FinishRaises, Goes
<1>23. ASSUME NEW w \in Workers, Kill(w) PROVE ShownKnown'
  BY <1>23 DEF Kill, Breaks, Goes, Holds
<1>24. ASSUME NEW w \in Workers, LockTimesOut(w) PROVE ShownKnown'
  BY <1>24 DEF LockTimesOut, Breaks, Goes
<1>25. CASE UNCHANGED vars
  BY <1>25 DEF vars, queue, history
<1>26. QED
  BY <1>1, <1>2, <1>3, <1>4, <1>5, <1>6, <1>7, <1>8, <1>9, <1>10, <1>11, <1>12, <1>13, <1>14, <1>15,
       <1>16, <1>17, <1>18, <1>19, <1>20, <1>21, <1>22, <1>23, <1>24, <1>25
     DEF Next, Dashboard, Environment, Worker, Recovering, Claiming, Running

(* What is shown is a number of a job, or 0.                                *)
LEMMA ShownNumbers ==
    ASSUME TypeOK, NEW t \in Targets
    PROVE  shown[t].job \in Jobs \cup {0} /\ shown[t].job \in Nat
<1>1. shown[t] \in [job : Jobs \cup {0}, status : {"none", "pending", "processing", "done", "failed"}]
  BY DEF TypeOK
<1>2. shown[t].job \in Jobs \cup {0}
  BY <1>1
<1>3. QED
  BY <1>2, JobBoundsAssumption DEF Jobs

(* A record replaces what is shown for one segment.                         *)
LEMMA RecordedShown ==
    ASSUME TypeOK, NEW j \in Jobs, target[j] \in Targets, NEW status,
           shown' = [shown EXCEPT ![target[j]] = [job |-> j, status |-> status]]
    PROVE  /\ shown'[target[j]] = [job |-> j, status |-> status]
           /\ \A t \in Targets \ {target[j]} : shown'[t] = shown[t]
BY DEF TypeOK

(* A record about an active job shows an active job.                        *)
LEMMA ActiveShown ==
    ASSUME TypeOK, ShownPendingIsActive, NEW j \in Jobs, target[j] \in Targets, Active(j),
           NEW status, files' = files,
           \/ /\ shown' = [shown EXCEPT ![target[j]] = [job |-> j, status |-> status]]
              /\ unsynced' = unsynced
           \/ unsynced' = unsynced \cup {j} /\ shown' = shown
    PROVE  ShownPendingIsActive'
<1>1. \A i : Active(i)' <=> Active(i)
  BY DEF Active
<1>2. CASE unsynced' = unsynced \cup {j} /\ shown' = shown
  BY <1>1, <1>2 DEF ShownPendingIsActive
<1>3. CASE /\ shown' = [shown EXCEPT ![target[j]] = [job |-> j, status |-> status]]
           /\ unsynced' = unsynced
  BY <1>1, <1>3, RecordedShown DEF ShownPendingIsActive
<1>4. QED
  BY <1>2, <1>3

(* Nobody adds a file to a job that is damaged or set aside.                *)
LEMMA DamageStep == JobInv /\ DamagedAlone /\ [Next]_vars => DamagedAlone'
<1> SUFFICES ASSUME JobInv, DamagedAlone, [Next]_vars PROVE DamagedAlone'
  OBVIOUS
<1> USE JobNumbers, JobBoundsAssumption, ProcessesAssumption
        DEF TypeOK, InHand, Numbered, Steps, Locked, Executing, FileKinds, Processes, queue,
            history, JobInv, DamagedAlone
<1>1. ASSUME NEW t \in Targets, Submit(t) PROVE DamagedAlone'
  BY <1>1 DEF Submit, Blocked, Active, Written
<1>2. CASE RecordPending
  BY <1>2 DEF RecordPending, Released
<1>3. CASE SubmitterFails
  BY <1>3 DEF SubmitterFails, Released
<1>4. ASSUME NEW j \in Jobs, Damage(j) PROVE DamagedAlone'
  BY <1>4 DEF Damage
<1>5. ASSUME NEW j \in Jobs, ReusePid(j) PROVE DamagedAlone'
  BY <1>5 DEF ReusePid
<1>6. ASSUME NEW w \in Workers, Start(w) PROVE DamagedAlone'
  BY <1>6 DEF Start, Goes, Holds
<1>7. ASSUME NEW w \in Workers, BeginSweep(w) PROVE DamagedAlone'
  BY <1>7 DEF BeginSweep, Goes, Holds
<1>8. ASSUME NEW w \in Workers, SweepUnlink(w) PROVE DamagedAlone'
  BY <1>8 DEF SweepUnlink, Unlinked, Goes, Holds
<1>9. ASSUME NEW w \in Workers, EndSweep(w) PROVE DamagedAlone'
  BY <1>9 DEF EndSweep, Goes, Holds
<1>10. ASSUME NEW w \in Workers, NEW j \in Jobs, SweepQuarantine(w, j) PROVE DamagedAlone'
  BY <1>10 DEF SweepQuarantine, SetAside, Renamed
<1>11. ASSUME NEW w \in Workers, NEW j \in Jobs, SweepWrite(w, j) PROVE DamagedAlone'
  BY <1>11 DEF SweepWrite, Stale, Written, Goes, Holds
<1>12. ASSUME NEW w \in Workers, BeginClaim(w) PROVE DamagedAlone'
  BY <1>12 DEF BeginClaim, Goes, Holds
<1>13. ASSUME NEW w \in Workers, Stamp(w) PROVE DamagedAlone'
  BY <1>13 DEF Stamp, Goes, Holds
<1>14. ASSUME NEW w \in Workers, NothingWaits(w) PROVE DamagedAlone'
  BY <1>14 DEF NothingWaits, Goes, Holds
<1>15. ASSUME NEW w \in Workers, NEW j \in Jobs, SelectQuarantine(w, j) PROVE DamagedAlone'
  BY <1>15 DEF SelectQuarantine, SetAside, Renamed
<1>16. ASSUME NEW w \in Workers, NEW j \in Jobs, Rename(w, j) PROVE DamagedAlone'
  BY <1>16 DEF Rename, Waiting, Renamed, Goes, Holds
<1>17. ASSUME NEW w \in Workers, BeginExecution(w) PROVE DamagedAlone'
  BY <1>17 DEF BeginExecution, Record, Count, Many, Goes
<1>18. ASSUME NEW w \in Workers, EndExecution(w) PROVE DamagedAlone'
  BY <1>18 DEF EndExecution, Goes
<1>19. ASSUME NEW w \in Workers, RecordOutcome(w) PROVE DamagedAlone'
  BY <1>19 DEF RecordOutcome, Record, Goes
<1>20. ASSUME NEW w \in Workers, WriteOutcome(w) PROVE DamagedAlone'
  BY <1>20 DEF WriteOutcome, Written, Goes
<1>21. ASSUME NEW w \in Workers, UnlinkProcessing(w) PROVE DamagedAlone'
  BY <1>21 DEF UnlinkProcessing, Unlinked, Goes, Holds
<1>22. ASSUME NEW w \in Workers, FinishRaises(w) PROVE DamagedAlone'
  BY <1>22 DEF FinishRaises, Goes
<1>23. ASSUME NEW w \in Workers, Kill(w) PROVE DamagedAlone'
  BY <1>23 DEF Kill, Breaks, Goes, Holds
<1>24. ASSUME NEW w \in Workers, LockTimesOut(w) PROVE DamagedAlone'
  BY <1>24 DEF LockTimesOut, Breaks, Goes
<1>25. CASE UNCHANGED vars
  BY <1>25 DEF vars, queue, history
<1>26. QED
  BY <1>1, <1>2, <1>3, <1>4, <1>5, <1>6, <1>7, <1>8, <1>9, <1>10, <1>11, <1>12, <1>13, <1>14, <1>15,
       <1>16, <1>17, <1>18, <1>19, <1>20, <1>21, <1>22, <1>23, <1>24, <1>25
     DEF Next, Dashboard, Environment, Worker, Recovering, Claiming, Running
(* A job is only finished once its outcome is shown or noted as unwritten.  *)
LEMMA PendingStep == JobInv /\ ShownKnown /\ ShownPendingIsActive /\ [Next]_vars => ShownPendingIsActive'
<1> SUFFICES ASSUME JobInv, ShownKnown, ShownPendingIsActive, [Next]_vars PROVE ShownPendingIsActive'
  OBVIOUS
<1> USE JobNumbers, JobBoundsAssumption, ProcessesAssumption
        DEF TypeOK, InHand, Numbered, Steps, Locked, Executing, FileKinds, Processes, queue,
            history, JobInv, ShownKnown, ShownPendingIsActive, Active
<1>1. ASSUME NEW t \in Targets, Submit(t) PROVE ShownPendingIsActive'
  BY <1>1 DEF Submit, Blocked, Active, Written
<1>2. CASE RecordPending
  <2>1. /\ submitting \in Jobs /\ target[submitting] \in Targets
        /\ files[submitting] = {"pending"}
    BY <1>2 DEF RecordPending
  <2>2. /\ shown' = [shown EXCEPT ![target[submitting]] = [job |-> submitting, status |-> "pending"]]
        /\ files' = files /\ unsynced' = unsynced
    BY <1>2 DEF RecordPending
  <2>3. QED
    BY <2>1, <2>2, ActiveShown
<1>3. CASE SubmitterFails
  BY <1>3 DEF SubmitterFails, Released
<1>4. ASSUME NEW j \in Jobs, Damage(j) PROVE ShownPendingIsActive'
  BY <1>4 DEF Damage
<1>5. ASSUME NEW j \in Jobs, ReusePid(j) PROVE ShownPendingIsActive'
  BY <1>5 DEF ReusePid
<1>6. ASSUME NEW w \in Workers, Start(w) PROVE ShownPendingIsActive'
  BY <1>6 DEF Start, Goes, Holds
<1>7. ASSUME NEW w \in Workers, BeginSweep(w) PROVE ShownPendingIsActive'
  BY <1>7 DEF BeginSweep, Goes, Holds
<1>8. ASSUME NEW w \in Workers, SweepUnlink(w) PROVE ShownPendingIsActive'
  BY <1>8 DEF SweepUnlink, Unlinked, Goes, Holds
<1>9. ASSUME NEW w \in Workers, EndSweep(w) PROVE ShownPendingIsActive'
  BY <1>9 DEF EndSweep, Goes, Holds
<1>10. ASSUME NEW w \in Workers, NEW j \in Jobs, SweepQuarantine(w, j) PROVE ShownPendingIsActive'
  BY <1>10 DEF SweepQuarantine, SetAside, Renamed
<1>11. ASSUME NEW w \in Workers, NEW j \in Jobs, SweepWrite(w, j) PROVE ShownPendingIsActive'
  BY <1>11 DEF SweepWrite, Stale, Written, Goes, Holds
<1>12. ASSUME NEW w \in Workers, BeginClaim(w) PROVE ShownPendingIsActive'
  BY <1>12 DEF BeginClaim, Goes, Holds
<1>13. ASSUME NEW w \in Workers, Stamp(w) PROVE ShownPendingIsActive'
  BY <1>13 DEF Stamp, Goes, Holds
<1>14. ASSUME NEW w \in Workers, NothingWaits(w) PROVE ShownPendingIsActive'
  BY <1>14 DEF NothingWaits, Goes, Holds
<1>15. ASSUME NEW w \in Workers, NEW j \in Jobs, SelectQuarantine(w, j) PROVE ShownPendingIsActive'
  BY <1>15 DEF SelectQuarantine, SetAside, Renamed
<1>16. ASSUME NEW w \in Workers, NEW j \in Jobs, Rename(w, j) PROVE ShownPendingIsActive'
  BY <1>16 DEF Rename, Waiting, Renamed, Goes, Holds
<1>17. ASSUME NEW w \in Workers, BeginExecution(w) PROVE ShownPendingIsActive'
  <2>1. /\ cur[w] \in Jobs /\ target[cur[w]] \in Targets /\ Active(cur[w])
        /\ files' = files /\ \E status : Record(cur[w], status)
    BY <1>17, JobInHand DEF BeginExecution
  <2>2. QED
    BY <2>1, ActiveShown DEF Record
<1>18. ASSUME NEW w \in Workers, EndExecution(w) PROVE ShownPendingIsActive'
  BY <1>18 DEF EndExecution, Goes
<1>19. ASSUME NEW w \in Workers, RecordOutcome(w) PROVE ShownPendingIsActive'
  <2>1. /\ cur[w] \in Jobs /\ target[cur[w]] \in Targets /\ Active(cur[w])
        /\ files' = files /\ \E status : Record(cur[w], status)
    BY <1>19, JobInHand DEF RecordOutcome
  <2>2. QED
    BY <2>1, ActiveShown DEF Record
<1>20. ASSUME NEW w \in Workers, WriteOutcome(w) PROVE ShownPendingIsActive'
  <2>1. /\ shown' = shown /\ unsynced' = unsynced
        /\ \E kind \in {"done", "failed"} : files' = [files EXCEPT ![cur[w]] = @ \cup {kind}]
    BY <1>20 DEF WriteOutcome, Written
  <2>2. \A j \in Jobs : files[j] \subseteq files'[j]
    BY <2>1
  <2>3. \A t \in Targets :
          shown[t].status \in {"pending", "processing"} => shown[t].job \in Jobs
    OBVIOUS
  <2>4. QED
    BY <2>1, <2>2, <2>3
<1>21. ASSUME NEW w \in Workers, UnlinkProcessing(w) PROVE ShownPendingIsActive'
  BY <1>21 DEF UnlinkProcessing, Unlinked, Goes, Holds
<1>22. ASSUME NEW w \in Workers, FinishRaises(w) PROVE ShownPendingIsActive'
  BY <1>22 DEF FinishRaises, Goes
<1>23. ASSUME NEW w \in Workers, Kill(w) PROVE ShownPendingIsActive'
  BY <1>23 DEF Kill, Breaks, Goes, Holds
<1>24. ASSUME NEW w \in Workers, LockTimesOut(w) PROVE ShownPendingIsActive'
  BY <1>24 DEF LockTimesOut, Breaks, Goes
<1>25. CASE UNCHANGED vars
  BY <1>25 DEF vars, queue, history
<1>26. QED
  BY <1>1, <1>2, <1>3, <1>4, <1>5, <1>6, <1>7, <1>8, <1>9, <1>10, <1>11, <1>12, <1>13, <1>14, <1>15,
       <1>16, <1>17, <1>18, <1>19, <1>20, <1>21, <1>22, <1>23, <1>24, <1>25
     DEF Next, Dashboard, Environment, Worker, Recovering, Claiming, Running

(* A record about an active job of a segment is not older than what is      *)
(* shown for the segment.                                                   *)
LEMMA RecordIsNewest ==
    ASSUME JobInv, ShownKnown, NEW j \in Jobs, Active(j), target[j] \in Targets,
           NEW status, shown' = [shown EXCEPT ![target[j]] = [job |-> j, status |-> status]]
    PROVE  \A t \in Targets : shown[t].job <= shown'[t].job
<1> USE JobNumbers DEF JobInv, TypeOK, ShownKnown
<1> DEFINE known == shown[target[j]].job
<1>1. known <= j
  <2>1. known \in Jobs \cup {0} /\ j \in Nat /\ known \in Nat /\ j > 0
    BY DEF Jobs
  <2>2. CASE known = 0
    BY <2>1, <2>2
  <2>3. CASE known # 0
    <3>1. target[known] = target[j]
      BY <2>3
    <3>2. ~(j < known)
      BY <2>1, <2>3, <3>1
    <3>3. QED
      BY <2>1, <3>2
  <2>4. QED
    BY <2>2, <2>3
<1>2. \A t \in Targets : shown[t].job \in Nat
  OBVIOUS
<1>3. QED
  BY <1>1, <1>2

(* Only three actions change what is shown, each by a record of a job that  *)
(* is active.                                                               *)
LEMMA NewestStep ==
    ASSUME JobInv, ShownKnown, [Next]_vars
    PROVE  \A t \in Targets : shown[t].job <= shown'[t].job
<1>1. CASE shown' = shown
  <2>1. \A t \in Targets : shown[t].job \in Nat
    BY ShownNumbers DEF JobInv
  <2>2. QED
    BY <1>1, <2>1
<1>2. CASE RecordPending
  <2>1. submitting \in Jobs /\ target[submitting] \in Targets /\ Active(submitting)
    BY <1>2, ProcessesAssumption DEF RecordPending, JobInv, TypeOK, Numbered, ShownKnown, Active
  <2>2. QED
    BY <1>2, <2>1, RecordIsNewest DEF RecordPending
<1>3. ASSUME NEW w \in Workers, cur[w] # 0,
             NEW status, Record(cur[w], status)
      PROVE  \A t \in Targets : shown[t].job <= shown'[t].job
  <2>1. cur[w] \in Jobs /\ target[cur[w]] \in Targets /\ Active(cur[w])
    BY <1>3, JobInHand DEF JobInv, InHand, Active
  <2>2. CASE shown' = [shown EXCEPT ![target[cur[w]]] = [job |-> cur[w], status |-> status]]
    BY <2>1, <2>2, RecordIsNewest
  <2>3. QED
    BY <1>1, <1>3, <2>2 DEF Record
<1>4. ASSUME NEW w \in Workers, BeginExecution(w) \/ RecordOutcome(w)
      PROVE  \A t \in Targets : shown[t].job <= shown'[t].job
  <2>1. cur[w] # 0 /\ \E status : Record(cur[w], status)
    BY <1>4 DEF BeginExecution, RecordOutcome, JobInv, InHand, TypeOK
  <2>2. QED
    BY <1>3, <2>1
<1>5. QED
  BY <1>1, <1>2, <1>4
     DEF Next, Dashboard, Environment, Worker, Recovering, Claiming, Running,
         Submit, SubmitterFails, Damage, ReusePid, Kill, LockTimesOut, Start,
         BeginSweep, SweepUnlink, EndSweep, SweepQuarantine, SweepWrite, BeginClaim,
         Stamp, NothingWaits, SelectQuarantine, Rename, EndExecution,
         WriteOutcome, UnlinkProcessing, FinishRaises, SetAside, vars

-----------------------------------------------------------------------------
(* The ledger of jobs.                                                      *)

(* What the directory answers about one job moves by a step of the ledger.  *)
LEMMA LedgerMoves ==
    ASSUME TypeOK, NEW j \in Jobs, NEW kinds, files' = [files EXCEPT ![j] = kinds], target' = target,
           NEW from, Answer(j) \in from
    PROVE  JobView!Becomes(j, from, Answer(j)')
<1>1. \A i \in Jobs \ {j} : files'[i] = files[i]
  BY DEF TypeOK
<1>2. \A i \in Jobs \ {j} : Answer(i)' = Answer(i)
  BY <1>1 DEF Answer
<1>3. [i \in Jobs |-> Answer(i)'] = [[i \in Jobs |-> Answer(i)] EXCEPT ![j] = Answer(j)']
  BY <1>2
<1>4. QED
  BY <1>3 DEF JobView!Becomes

(* What leaves every answer and every segment alone leaves the ledger.      *)
LEMMA LedgerStutters ==
    ASSUME TypeOK, target' = target, \A j \in Jobs : Answer(j)' = Answer(j)
    PROVE  UNCHANGED JobView!jobLedger
BY DEF JobView!jobLedger

(* While all files stay, so do the answers.                                 *)
LEMMA SameFilesStutter ==
    ASSUME TypeOK, target' = target, files' = files
    PROVE  UNCHANGED JobView!jobLedger
BY LedgerStutters DEF Answer

(* A submission is accepted: it found no active job of its segment, and     *)
(* what is not active has ended.                                            *)
LEMMA SubmitAccepts ==
    ASSUME HistoryInv, NEW t \in Targets, Submit(t)
    PROVE  JobView!JobLedgerNext
<1> USE DEF HistoryInv, JobInv
<1> PICK j \in Jobs : j = nextJob
  BY JobNumbers DEF Submit, TypeOK
<1>1. files[j] = {} /\ files' = [files EXCEPT ![j] = {"pending"}]
  <2>1. j \in Nat
    BY JobNumbers
  <2>2. files[j] = {}
    BY <2>1 DEF Numbered
  <2>3. QED
    BY <2>2 DEF Submit, Written
<1>2. Answer(j) = "none" /\ Answer(j)' = "waiting"
  BY <1>1 DEF Answer, TypeOK
<1>3. \A i \in Jobs \ {j} : Answer(i)' = Answer(i)
  BY <1>1 DEF Answer, TypeOK
<1>4. \A i \in Jobs : target[i] = t => Answer(i) \in {"done", "failed"}
  <2> SUFFICES ASSUME NEW i \in Jobs, target[i] = t PROVE Answer(i) \in {"done", "failed"}
    OBVIOUS
  <2>1. ~Active(i)
    BY DEF Submit, Blocked
  <2>2. files[i] # {}
    BY DEF Numbered, EveryJobKept
  <2>3. QED
    BY <2>1, <2>2 DEF Active, Answer, TypeOK, FileKinds
<1>5. [i \in Jobs |-> Answer(i)'] = [[i \in Jobs |-> Answer(i)] EXCEPT ![j] = "waiting"]
  BY <1>2, <1>3
<1>6. target' = [target EXCEPT ![j] = t]
  BY DEF Submit
<1>7. JobView!Accept(j, t)
  BY <1>1, <1>2, <1>4, <1>5, <1>6 DEF JobView!Accept, JobView!JobIds, JobView!Settled, Jobs
<1>8. QED
  BY <1>1, <1>7 DEF JobView!JobLedgerNext, JobView!JobIds, Jobs

(* A worker that moves the files of one job moves it in the ledger.         *)
LEMMA WorkerMoves ==
    ASSUME HistoryInv, NEW w \in Workers, Worker(w)
    PROVE  UNCHANGED JobView!jobLedger \/ JobView!JobLedgerNext
<1> USE DEF HistoryInv, JobInv
<1>1. ASSUME NEW j \in Jobs, NEW kinds, files' = [files EXCEPT ![j] = kinds], target' = target,
             \/ Answer(j)' = Answer(j)
             \/ Answer(j) = "waiting" /\ Answer(j)' \in {"running", "aside"}
             \/ Answer(j) = "running" /\ Answer(j)' \in {"waiting", "done", "failed", "aside"}
      PROVE  UNCHANGED JobView!jobLedger \/ JobView!JobLedgerNext
  <2>1. CASE Answer(j)' = Answer(j)
    <3>1. \A i \in Jobs : Answer(i)' = Answer(i)
      BY <1>1, <2>1 DEF Answer, TypeOK
    <3>2. QED
      BY <1>1, <3>1, LedgerStutters
  <2>2. CASE Answer(j) = "waiting" /\ Answer(j)' = "running"
    BY <1>1, <2>2, LedgerMoves DEF JobView!Take, JobView!JobLedgerNext, JobView!JobIds, Jobs
  <2>3. CASE Answer(j) \in {"waiting", "running"} /\ Answer(j)' = "aside"
    BY <1>1, <2>3, LedgerMoves DEF JobView!SetAside, JobView!JobLedgerNext, JobView!JobIds, Jobs
  <2>4. CASE Answer(j) = "running" /\ Answer(j)' = "waiting"
    BY <1>1, <2>4, LedgerMoves DEF JobView!PutBack, JobView!JobLedgerNext, JobView!JobIds, Jobs
  <2>5. CASE Answer(j) = "running" /\ Answer(j)' \in {"done", "failed"}
    <3>1. JobView!Becomes(j, {"waiting", "running"}, Answer(j)')
      BY <1>1, <2>5, LedgerMoves
    <3>2. JobView!Settle(j)
      BY <2>5, <3>1 DEF JobView!Settle, JobView!Settled
    <3>3. QED
      BY <3>2 DEF JobView!JobLedgerNext, JobView!JobIds, Jobs
  <2>6. QED
    BY <1>1, <2>1, <2>2, <2>3, <2>4, <2>5
<1>2. ASSUME NEW j \in Jobs, SweepQuarantine(w, j) \/ SelectQuarantine(w, j)
      PROVE  UNCHANGED JobView!jobLedger \/ JobView!JobLedgerNext
  <2>1. files[j] \in {{"pending"}, {"processing"}} /\ files' = [files EXCEPT ![j] = {"invalid"}]
    BY <1>2 DEF SweepQuarantine, SelectQuarantine, SetAside, Renamed, DamagedAlone
  <2>2. Answer(j) \in {"waiting", "running"} /\ Answer(j)' = "aside"
    BY <2>1 DEF Answer, TypeOK
  <2>3. QED
    BY <1>1, <1>2, <2>1, <2>2 DEF SweepQuarantine, SelectQuarantine, SetAside
<1>3. ASSUME NEW j \in Jobs, SweepWrite(w, j)
      PROVE  UNCHANGED JobView!jobLedger \/ JobView!JobLedgerNext
  <2>1. "processing" \in files[j] /\ files' = [files EXCEPT ![j] = @ \cup {"pending"}]
    BY <1>3 DEF SweepWrite, Stale, Written
  <2>2. Answer(j) \in {"waiting", "running"} /\ Answer(j)' = "waiting"
    BY <2>1 DEF Answer, TypeOK
  <2>3. QED
    BY <1>1, <1>3, <2>1, <2>2 DEF SweepWrite
<1>4. ASSUME NEW j \in Jobs, Rename(w, j)
      PROVE  UNCHANGED JobView!jobLedger \/ JobView!JobLedgerNext
  <2>1. "pending" \in files[j]
        /\ files' = [files EXCEPT ![j] = (@ \ {"pending"}) \cup {"processing"}]
    BY <1>4 DEF Rename, Waiting, Renamed
  <2>2. Answer(j) = "waiting" /\ Answer(j)' = "running"
    BY <2>1 DEF Answer, TypeOK
  <2>3. QED
    BY <1>1, <1>4, <2>1, <2>2 DEF Rename
<1>5. ASSUME NEW j \in Jobs, cur[w] = j, SweepUnlink(w)
      PROVE  UNCHANGED JobView!jobLedger \/ JobView!JobLedgerNext
  <2>1. /\ "pending" \in files[j]
        /\ files' = [files EXCEPT ![j] = @ \ {"processing"}]
    BY <1>5 DEF SweepUnlink, Unlinked, InHand, TypeOK
  <2>2. Answer(j) = "waiting" /\ Answer(j)' = "waiting"
    BY <2>1 DEF Answer, TypeOK
  <2>3. QED
    BY <1>1, <1>5, <2>1, <2>2 DEF SweepUnlink
<1>6. ASSUME NEW j \in Jobs, cur[w] = j, WriteOutcome(w)
      PROVE  UNCHANGED JobView!jobLedger \/ JobView!JobLedgerNext
  <2>1. /\ "processing" \in files[j]
        /\ "pending" \notin files[j]
        /\ \E kind \in {"done", "failed"} : files' = [files EXCEPT ![j] = @ \cup {kind}]
    BY <1>6 DEF WriteOutcome, Written, InHand, TypeOK
  <2>2. Answer(j) = "running" /\ Answer(j)' = "running"
    BY <2>1, <1>6 DEF Answer, TypeOK, WriteOutcome
  <2>3. QED
    BY <1>1, <1>6, <2>1, <2>2 DEF WriteOutcome
<1>7. ASSUME NEW j \in Jobs, cur[w] = j, UnlinkProcessing(w)
      PROVE  UNCHANGED JobView!jobLedger \/ JobView!JobLedgerNext
  <2>1. /\ "processing" \in files[j]
        /\ "pending" \notin files[j] /\ HasOutcome(j)
        /\ files' = [files EXCEPT ![j] = @ \ {"processing"}]
    BY <1>7 DEF UnlinkProcessing, Unlinked, InHand, TypeOK, HasOutcome
  <2>2. Answer(j) = "running"
    BY <2>1 DEF Answer
  <2>3. files'[j] = files[j] \ {"processing"}
    BY <2>1 DEF TypeOK
  <2>4. Answer(j)' \in {"done", "failed"}
    BY <2>1, <2>3 DEF Answer, HasOutcome
  <2>5. QED
    BY <1>1, <1>7, <2>1, <2>2, <2>4 DEF UnlinkProcessing
<1>8. ASSUME SweepUnlink(w) \/ WriteOutcome(w) \/ UnlinkProcessing(w) PROVE cur[w] \in Jobs
  BY <1>8 DEF SweepUnlink, WriteOutcome, UnlinkProcessing, InHand, TypeOK
<1>9. QED
  BY <1>2, <1>3, <1>4, <1>5, <1>6, <1>7, <1>8, SameFilesStutter
     DEF Worker, Recovering, Claiming, Running, Start, BeginSweep, EndSweep, BeginClaim, Stamp,
         NothingWaits, BeginExecution, EndExecution, RecordOutcome, FinishRaises, queue

(* Every step is a step of the ledger of jobs, or invisible in it.          *)
LEMMA LedgerStep ==
    ASSUME HistoryInv, [Next]_vars
    PROVE  UNCHANGED JobView!jobLedger \/ JobView!JobLedgerNext
<1>1. CASE \E t \in Targets : Submit(t)
  BY <1>1, SubmitAccepts
<1>2. CASE \E w \in Workers : Worker(w)
  BY <1>2, WorkerMoves
<1>3. CASE RecordPending \/ SubmitterFails \/ Environment \/ UNCHANGED vars
  BY <1>3, SameFilesStutter
     DEF HistoryInv, JobInv, RecordPending, SubmitterFails, Environment, Damage, ReusePid, Kill,
         LockTimesOut, vars, queue
<1>4. QED
  BY <1>1, <1>2, <1>3 DEF Next, Dashboard

-----------------------------------------------------------------------------

(* The invariant of the histories is inductive.                             *)
THEOREM HistoryInvariant == Spec => []HistoryInv
<1>1. Init => HistoryInv
  <2> SUFFICES ASSUME Init PROVE HistoryInv
    OBVIOUS
  <2>1. JobInv
    BY InitJobInv
  <2>2. Attempted /\ DamagedAlone
    BY DEF Init, Attempted, HasOutcome, InExecution, Executing, DamagedAlone
  <2>3. ShownKnown /\ ShownPendingIsActive
    BY ProcessesAssumption DEF Init, ShownKnown, ShownPendingIsActive, Active
  <2>4. QED
    BY <2>1, <2>2, <2>3 DEF HistoryInv
<1>2. HistoryInv /\ [Next]_vars => HistoryInv'
  BY TypeStep, HandStep, NumberStep, ActiveStep, KeptStep, AttemptStep, ShownStep, DamageStep,
       PendingStep
     DEF HistoryInv, JobInv
<1>3. QED
  BY <1>1, <1>2, PTL DEF Spec

(* A job nobody interrupted is executed once and has one outcome.           *)
THEOREM ExecutedOnce == Spec => []ExecutedOnceUnlessInterrupted
<1>1. HistoryInv => ExecutedOnceUnlessInterrupted
  <2> SUFFICES ASSUME HistoryInv, NEW j \in Jobs, j \notin interrupted,
                      runs[j] > 1 \/ {"done", "failed"} \subseteq files[j]
               PROVE  FALSE
    BY DEF ExecutedOnceUnlessInterrupted
  <2>1. runs[j] \in {0, 1} /\ ~({"done", "failed"} \subseteq files[j])
    BY DEF HistoryInv, Attempted
  <2>2. QED
    BY <2>1
<1>2. QED
  BY <1>1, HistoryInvariant, PTL

(* A segment shown as pending or processing has an active job, or its       *)
(* outcome could not be recorded.                                           *)
THEOREM ShownIsActive == Spec => []ShownPendingIsActive
<1>1. HistoryInv => ShownPendingIsActive
  BY DEF HistoryInv
<1>2. QED
  BY <1>1, HistoryInvariant, PTL

(* What is shown for a segment never falls back to an earlier job.          *)
THEOREM ShownAdvances == Spec => ShownNeverGoesBack
<1>1. HistoryInv /\ [Next]_vars => [\A t \in Targets : shown[t].job <= shown'[t].job]_shown
  BY NewestStep DEF HistoryInv
<1>2. QED
  BY <1>1, HistoryInvariant, PTL DEF Spec, ShownNeverGoesBack

(* The directory of files, with every kill, recovery and quarantine,        *)
(* implements the ledger of jobs.                                           *)
THEOREM JobRefinement == Spec => ImplementsJobLedger
<1>1. Init => JobView!JobLedgerInit
  <2> SUFFICES ASSUME Init PROVE JobView!JobLedgerInit
    OBVIOUS
  <2>1. [j \in Jobs |-> Answer(j)] = [j \in Jobs |-> "none"]
    BY DEF Init, Answer
  <2>2. QED
    BY <2>1 DEF Init, JobView!JobLedgerInit, JobView!JobIds, Jobs
<1>2. HistoryInv /\ [Next]_vars => [JobView!JobLedgerNext]_(JobView!jobLedger)
  BY LedgerStep
<1>3. QED
  BY <1>1, <1>2, HistoryInvariant, PTL DEF Spec, ImplementsJobLedger, JobView!JobLedgerSpec
=============================================================================
