-------------------------- MODULE RecordingsProofs --------------------------
(***************************************************************************)
(* Theorems of Recordings, for recordings found in any state and any       *)
(* number of kills, failures and runs of the script.                       *)
(***************************************************************************)
EXTENDS Recordings, TLAPS

USE DEF files, history, fileVars, state, around, own, Goes, At, Fault, Settles, Returns, Processes, Kinds

(* Where the worker and the script are, and the records they change.        *)
Places ==
    /\ step \in [Processes -> RemuxSteps \cup
                  {"idle", "audit", "delete", "slice", "render", "read", "look", "save",
                   "move", "note", "succeed", "fail"}]
    /\ jobs \in [Kinds -> {"expected", "none", "pending", "processing"}]

LEMMA InitPlaces == Init => Places
BY DEF Init, FilesInit, Places, RemuxSteps

(* Every step keeps them.                                                   *)
LEMMA StepPlaces ==
    ASSUME Places, [Next]_vars PROVE Places'
<1> USE DEF Places, RemuxSteps, Begins
<1>1. CASE QueueCompleted /\ OnlyFiles
  BY <1>1 DEF QueueCompleted, OnlyFiles
<1>2. CASE BeginRemuxJob /\ OnlyFiles
  BY <1>2 DEF BeginRemuxJob, Begins, OnlyFiles
<1>3. CASE BeginScript /\ OnlyFiles
  BY <1>3 DEF BeginScript, Begins, OnlyFiles
<1>4. ASSUME NEW p \in Processes, Check(p) /\ OnlyFiles PROVE Places'
  BY <1>4 DEF Check, OnlyFiles
<1>5. ASSUME NEW p \in Processes, Drop(p) /\ OnlyFiles PROVE Places'
  BY <1>5 DEF Drop, OnlyFiles
<1>6. ASSUME NEW p \in Processes, Size(p) /\ OnlyFiles PROVE Places'
  BY <1>6 DEF Size, OnlyFiles
<1>7. ASSUME NEW p \in Processes, Purge(p) /\ OnlyFiles PROVE Places'
  BY <1>7 DEF Purge, OnlyFiles
<1>8. ASSUME NEW p \in Processes, Clear(p) /\ OnlyFiles PROVE Places'
  BY <1>8 DEF Clear, OnlyFiles
<1>9. ASSUME NEW p \in Processes, RemuxEnds(p) /\ OnlyFiles PROVE Places'
  BY <1>9 DEF RemuxEnds, OnlyFiles
<1>10. ASSUME NEW p \in Processes, Verify(p) /\ OnlyFiles PROVE Places'
  BY <1>10 DEF Verify, OnlyFiles
<1>11. ASSUME NEW p \in Processes, Replace(p) /\ OnlyFiles PROVE Places'
  BY <1>11 DEF Replace, OnlyFiles
<1>12. ASSUME NEW p \in Processes, Discard(p) /\ OnlyFiles PROVE Places'
  BY <1>12 DEF Discard, OnlyFiles
<1>13. CASE Audit /\ OnlyFiles
  BY <1>13 DEF Audit, OnlyFiles
<1>14. CASE Killed("operator") /\ OnlyFiles
  BY <1>14 DEF Killed, OnlyFiles
<1>15. CASE QueueSlice
  BY <1>15 DEF QueueSlice, OnlyAround, Reopens
<1>16. CASE SliceRuns
  BY <1>16 DEF SliceRuns, OnlyAround
<1>17. CASE AddMissedSegment
  BY <1>17 DEF AddMissedSegment, OnlyAround, Reopens
<1>18. CASE SegmentJobRuns
  BY <1>18 DEF SegmentJobRuns, OnlyAround
<1>19. CASE DecideSegment
  BY <1>19 DEF DecideSegment, OnlyAround, Reopens
<1>20. CASE Upload
  BY <1>20 DEF Upload, OnlyAround, Reopens
<1>21. CASE CompleteReview
  BY <1>21 DEF CompleteReview, Queued, AlreadyPending, MarkPending, QueueTrash
<1>22. CASE RequestTrash
  BY <1>22 DEF RequestTrash, Queued, AlreadyPending, MarkPending, QueueTrash
<1>23. CASE Expire
  BY <1>23 DEF Expire
<1>24. CASE PassLooks /\ OnlyThePass
  BY <1>24 DEF PassLooks, OnlyThePass
<1>25. CASE PassPlans /\ OnlyThePass
  BY <1>25 DEF PassPlans, OnlyThePass
<1>26. CASE PassBlocks
  BY <1>26 DEF PassBlocks, OnlyThePassAnd
<1>27. CASE PassEnqueues
  BY <1>27 DEF PassEnqueues, OnlyThePassAnd, Queued, AlreadyPending, MarkPending, QueueTrash
<1>28. CASE PassMarks
  BY <1>28 DEF PassMarks, OnlyThePassAnd
<1>29. CASE PassFails
  BY <1>29 DEF PassFails, OnlyThePassAnd
<1>30. CASE BeginTrash
  BY <1>30 DEF BeginTrash, Begins, Recorded, OnlyTheJob
<1>31. CASE ReadState
  BY <1>31 DEF ReadState, OnlyTheJob, NoFileMoves
<1>32. CASE Look
  BY <1>32 DEF Look, SourceIsThere, Present, MayBeTaken, AtRest, OnlyTheJob, NoFileMoves
<1>33. CASE SavePlan
  BY <1>33 DEF SavePlan, OnlyTheJob, NoFileMoves
<1>34. CASE MoveFile
  BY <1>34 DEF MoveFile, Moves, OnlyTheJob
<1>35. CASE NoteMoved
  BY <1>35 DEF NoteMoved, OnlyTheJob, NoFileMoves
<1>36. CASE Finish
  BY <1>36 DEF Finish, OnlyTheJob, NoFileMoves
<1>37. CASE Outcome
  BY <1>37 DEF Outcome, Recorded, NoFileMoves
<1>38. CASE WorkerDies
  BY <1>38 DEF WorkerDies, Killed
<1>39. CASE UNCHANGED vars
  BY <1>39 DEF vars
<1> QED
  BY <1>1, <1>2, <1>3, <1>4, <1>5, <1>6, <1>7, <1>8, <1>9, <1>10, <1>11, <1>12,
     <1>13, <1>14, <1>15, <1>16, <1>17, <1>18, <1>19, <1>20, <1>21, <1>22, <1>23,
     <1>24, <1>25, <1>26, <1>27, <1>28, <1>29, <1>30, <1>31, <1>32, <1>33, <1>34,
     <1>35, <1>36, <1>37, <1>38, <1>39 DEF Next, FilesStep, FilesNext,
     RecoverRecording, RetentionPass, TrashStep

(* Why "done" is true: what the job believes to have moved is what it noted *)
(* in the state file, or notes next, and there is a plan while it moves.    *)
PlanInv ==
    /\ moved \subseteq recycled /\ known \subseteq recycled
    /\ plan = {} => moved = {}
    /\ At("worker", "look") => plan = {} /\ known = {} /\ trash # "done"
    /\ At("worker", "save") => plan = {} /\ known = {} /\ trash # "done" /\ draft # {}
    /\ At("worker", "move") => plan # {} /\ known = moved
    /\ At("worker", "note") => plan # {} /\ moved \subseteq known
    /\ At("worker", "succeed") => plan # {} /\ plan \subseteq moved
    /\ DoneIsTrue

LEMMA InitPlan == Init => PlanInv
BY DEF Init, FilesInit, PlanInv, DoneIsTrue

(* Every step keeps the plan inviolate.                                     *)
LEMMA StepPlan ==
    ASSUME Places, PlanInv, [Next]_vars PROVE PlanInv'
<1> USE DEF Places, PlanInv, DoneIsTrue, Begins
<1>1. CASE QueueCompleted /\ OnlyFiles
  BY <1>1 DEF QueueCompleted, OnlyFiles
<1>2. CASE BeginRemuxJob /\ OnlyFiles
  BY <1>2 DEF BeginRemuxJob, Begins, OnlyFiles
<1>3. CASE BeginScript /\ OnlyFiles
  BY <1>3 DEF BeginScript, Begins, OnlyFiles
<1>4. ASSUME NEW p \in Processes, Check(p) /\ OnlyFiles PROVE PlanInv'
  BY <1>4 DEF Check, OnlyFiles
<1>5. ASSUME NEW p \in Processes, Drop(p) /\ OnlyFiles PROVE PlanInv'
  BY <1>5 DEF Drop, OnlyFiles
<1>6. ASSUME NEW p \in Processes, Size(p) /\ OnlyFiles PROVE PlanInv'
  BY <1>6 DEF Size, OnlyFiles
<1>7. ASSUME NEW p \in Processes, Purge(p) /\ OnlyFiles PROVE PlanInv'
  BY <1>7 DEF Purge, OnlyFiles
<1>8. ASSUME NEW p \in Processes, Clear(p) /\ OnlyFiles PROVE PlanInv'
  BY <1>8 DEF Clear, OnlyFiles
<1>9. ASSUME NEW p \in Processes, RemuxEnds(p) /\ OnlyFiles PROVE PlanInv'
  BY <1>9 DEF RemuxEnds, OnlyFiles
<1>10. ASSUME NEW p \in Processes, Verify(p) /\ OnlyFiles PROVE PlanInv'
  BY <1>10 DEF Verify, OnlyFiles
<1>11. ASSUME NEW p \in Processes, Replace(p) /\ OnlyFiles PROVE PlanInv'
  BY <1>11 DEF Replace, OnlyFiles
<1>12. ASSUME NEW p \in Processes, Discard(p) /\ OnlyFiles PROVE PlanInv'
  BY <1>12 DEF Discard, OnlyFiles
<1>13. CASE Audit /\ OnlyFiles
  BY <1>13 DEF Audit, OnlyFiles
<1>14. CASE Killed("operator") /\ OnlyFiles
  BY <1>14 DEF Killed, OnlyFiles
<1>15. CASE QueueSlice
  BY <1>15 DEF QueueSlice, OnlyAround, Reopens
<1>16. CASE SliceRuns
  BY <1>16 DEF SliceRuns, OnlyAround
<1>17. CASE AddMissedSegment
  BY <1>17 DEF AddMissedSegment, OnlyAround, Reopens
<1>18. CASE SegmentJobRuns
  BY <1>18 DEF SegmentJobRuns, OnlyAround
<1>19. CASE DecideSegment
  BY <1>19 DEF DecideSegment, OnlyAround, Reopens
<1>20. CASE Upload
  BY <1>20 DEF Upload, OnlyAround, Reopens
<1>21. CASE CompleteReview
  BY <1>21 DEF CompleteReview, Queued, AlreadyPending, MarkPending, QueueTrash
<1>22. CASE RequestTrash
  BY <1>22 DEF RequestTrash, Queued, AlreadyPending, MarkPending, QueueTrash
<1>23. CASE Expire
  BY <1>23 DEF Expire
<1>24. CASE PassLooks /\ OnlyThePass
  BY <1>24 DEF PassLooks, OnlyThePass
<1>25. CASE PassPlans /\ OnlyThePass
  BY <1>25 DEF PassPlans, OnlyThePass
<1>26. CASE PassBlocks
  BY <1>26 DEF PassBlocks, OnlyThePassAnd
<1>27. CASE PassEnqueues
  BY <1>27 DEF PassEnqueues, OnlyThePassAnd, Queued, AlreadyPending, MarkPending, QueueTrash
<1>28. CASE PassMarks
  BY <1>28 DEF PassMarks, OnlyThePassAnd
<1>29. CASE PassFails
  BY <1>29 DEF PassFails, OnlyThePassAnd
<1>30. CASE BeginTrash
  BY <1>30 DEF BeginTrash, Begins, Recorded, OnlyTheJob
<1>31. CASE ReadState
  BY <1>31 DEF ReadState, OnlyTheJob, NoFileMoves
<1>32. CASE Look
  BY <1>32 DEF Look, SourceIsThere, Present, MayBeTaken, AtRest, OnlyTheJob, NoFileMoves
<1>33. CASE SavePlan
  BY <1>33 DEF SavePlan, OnlyTheJob, NoFileMoves
<1>34. CASE MoveFile
  BY <1>34 DEF MoveFile, Moves, OnlyTheJob
<1>35. CASE NoteMoved
  BY <1>35 DEF NoteMoved, OnlyTheJob, NoFileMoves
<1>36. CASE Finish
  BY <1>36 DEF Finish, OnlyTheJob, NoFileMoves
<1>37. CASE Outcome
  BY <1>37 DEF Outcome, Recorded, NoFileMoves
<1>38. CASE WorkerDies
  BY <1>38 DEF WorkerDies, Killed
<1>39. CASE UNCHANGED vars
  BY <1>39 DEF vars
<1> QED
  BY <1>1, <1>2, <1>3, <1>4, <1>5, <1>6, <1>7, <1>8, <1>9, <1>10, <1>11, <1>12,
     <1>13, <1>14, <1>15, <1>16, <1>17, <1>18, <1>19, <1>20, <1>21, <1>22, <1>23,
     <1>24, <1>25, <1>26, <1>27, <1>28, <1>29, <1>30, <1>31, <1>32, <1>33, <1>34,
     <1>35, <1>36, <1>37, <1>38, <1>39 DEF Next, FilesStep, FilesNext,
     RecoverRecording, RetentionPass, TrashStep

(* Why there is a cause: while there is a plan the reason for it stands, or *)
(* somebody has gone back to work on the recording; what is sliced or       *)
(* rendered at the moment is marked so.                                     *)
Cause == expired \/ reopened \/ (review \in Closed /\ AtRest)
CauseInv ==
    /\ plan # {} \/ At("worker", "save") => Cause
    /\ At("worker", "slice") => slice = "running"
    /\ At("worker", "render") => segment = "busy"

LEMMA InitCause == Init => CauseInv
BY DEF Init, FilesInit, CauseInv

(* Every step keeps the cause.                                              *)
LEMMA StepCause ==
    ASSUME Places, CauseInv, [Next]_vars PROVE CauseInv'
<1> USE DEF Places, CauseInv, Cause, Closed, AtRest, Begins
<1>1. CASE QueueCompleted /\ OnlyFiles
  BY <1>1 DEF QueueCompleted, OnlyFiles
<1>2. CASE BeginRemuxJob /\ OnlyFiles
  BY <1>2 DEF BeginRemuxJob, Begins, OnlyFiles
<1>3. CASE BeginScript /\ OnlyFiles
  BY <1>3 DEF BeginScript, Begins, OnlyFiles
<1>4. ASSUME NEW p \in Processes, Check(p) /\ OnlyFiles PROVE CauseInv'
  BY <1>4 DEF Check, OnlyFiles
<1>5. ASSUME NEW p \in Processes, Drop(p) /\ OnlyFiles PROVE CauseInv'
  BY <1>5 DEF Drop, OnlyFiles
<1>6. ASSUME NEW p \in Processes, Size(p) /\ OnlyFiles PROVE CauseInv'
  BY <1>6 DEF Size, OnlyFiles
<1>7. ASSUME NEW p \in Processes, Purge(p) /\ OnlyFiles PROVE CauseInv'
  BY <1>7 DEF Purge, OnlyFiles
<1>8. ASSUME NEW p \in Processes, Clear(p) /\ OnlyFiles PROVE CauseInv'
  BY <1>8 DEF Clear, OnlyFiles
<1>9. ASSUME NEW p \in Processes, RemuxEnds(p) /\ OnlyFiles PROVE CauseInv'
  BY <1>9 DEF RemuxEnds, OnlyFiles
<1>10. ASSUME NEW p \in Processes, Verify(p) /\ OnlyFiles PROVE CauseInv'
  BY <1>10 DEF Verify, OnlyFiles
<1>11. ASSUME NEW p \in Processes, Replace(p) /\ OnlyFiles PROVE CauseInv'
  BY <1>11 DEF Replace, OnlyFiles
<1>12. ASSUME NEW p \in Processes, Discard(p) /\ OnlyFiles PROVE CauseInv'
  BY <1>12 DEF Discard, OnlyFiles
<1>13. CASE Audit /\ OnlyFiles
  BY <1>13 DEF Audit, OnlyFiles
<1>14. CASE Killed("operator") /\ OnlyFiles
  BY <1>14 DEF Killed, OnlyFiles
<1>15. CASE QueueSlice
  BY <1>15 DEF QueueSlice, OnlyAround, Reopens
<1>16. CASE SliceRuns
  BY <1>16 DEF SliceRuns, OnlyAround
<1>17. CASE AddMissedSegment
  BY <1>17 DEF AddMissedSegment, OnlyAround, Reopens
<1>18. CASE SegmentJobRuns
  BY <1>18 DEF SegmentJobRuns, OnlyAround
<1>19. CASE DecideSegment
  BY <1>19 DEF DecideSegment, OnlyAround, Reopens
<1>20. CASE Upload
  BY <1>20 DEF Upload, OnlyAround, Reopens
<1>21. CASE CompleteReview
  BY <1>21 DEF CompleteReview, Queued, AlreadyPending, MarkPending, QueueTrash
<1>22. CASE RequestTrash
  BY <1>22 DEF RequestTrash, Queued, AlreadyPending, MarkPending, QueueTrash
<1>23. CASE Expire
  BY <1>23 DEF Expire
<1>24. CASE PassLooks /\ OnlyThePass
  BY <1>24 DEF PassLooks, OnlyThePass
<1>25. CASE PassPlans /\ OnlyThePass
  BY <1>25 DEF PassPlans, OnlyThePass
<1>26. CASE PassBlocks
  BY <1>26 DEF PassBlocks, OnlyThePassAnd
<1>27. CASE PassEnqueues
  BY <1>27 DEF PassEnqueues, OnlyThePassAnd, Queued, AlreadyPending, MarkPending, QueueTrash
<1>28. CASE PassMarks
  BY <1>28 DEF PassMarks, OnlyThePassAnd
<1>29. CASE PassFails
  BY <1>29 DEF PassFails, OnlyThePassAnd
<1>30. CASE BeginTrash
  BY <1>30 DEF BeginTrash, Begins, Recorded, OnlyTheJob
<1>31. CASE ReadState
  BY <1>31 DEF ReadState, OnlyTheJob, NoFileMoves
<1>32. CASE Look
  BY <1>32 DEF Look, SourceIsThere, Present, MayBeTaken, AtRest, OnlyTheJob, NoFileMoves
<1>33. CASE SavePlan
  BY <1>33 DEF SavePlan, OnlyTheJob, NoFileMoves
<1>34. CASE MoveFile
  BY <1>34 DEF MoveFile, Moves, OnlyTheJob
<1>35. CASE NoteMoved
  BY <1>35 DEF NoteMoved, OnlyTheJob, NoFileMoves
<1>36. CASE Finish
  BY <1>36 DEF Finish, OnlyTheJob, NoFileMoves
<1>37. CASE Outcome
  BY <1>37 DEF Outcome, Recorded, NoFileMoves
<1>38. CASE WorkerDies
  BY <1>38 DEF WorkerDies, Killed
<1>39. CASE UNCHANGED vars
  BY <1>39 DEF vars
<1> QED
  BY <1>1, <1>2, <1>3, <1>4, <1>5, <1>6, <1>7, <1>8, <1>9, <1>10, <1>11, <1>12,
     <1>13, <1>14, <1>15, <1>16, <1>17, <1>18, <1>19, <1>20, <1>21, <1>22, <1>23,
     <1>24, <1>25, <1>26, <1>27, <1>28, <1>29, <1>30, <1>31, <1>32, <1>33, <1>34,
     <1>35, <1>36, <1>37, <1>38, <1>39 DEF Next, FilesStep, FilesNext,
     RecoverRecording, RetentionPass, TrashStep

(* Why a whole copy is kept: the FLV is only removed when the MP4 is whole  *)
(* or when the script deletes both on its verdict, the MP4 only when it is  *)
(* not whole, is replaced by a whole one, or the verdict on it was wrong,   *)
(* and what is recycled does not come back.                                 *)
CopyInv ==
    /\ mp4 \in {"none", "broken", "whole"} /\ partial \in {"none", "broken", "whole"}
    /\ misjudged \in BOOLEAN
    /\ ~overlapped =>
          /\ Busy("operator") => ~Busy("worker")
          /\ \A p \in Processes :
                /\ step[p] \in RemuxSteps \ {"check", "purgeMp4"} => flv # "none"
                /\ At(p, "drop") => mp4 = "whole"
                /\ At(p, "replace") => partial = "whole"
          /\ At("operator", "check") => flv # "none"
          /\ ~At("worker", "purgeFlv") /\ ~At("worker", "purgeMp4")
          /\ ~misjudged =>
                /\ At("operator", "size") => mp4 # "whole"
                /\ At("operator", "purgeFlv") => mp4 # "whole" /\ flv \notin Readable
                /\ At("operator", "purgeMp4") => mp4 # "whole" /\ flv = "none"
                /\ At("operator", "delete") => mp4 # "whole"
          /\ "mp4" \in recycled => flv = "none" /\ mp4 = "none"

(* A plan names the FLV if there is one; what is recycled is gone.          *)
PlannedInv ==
    /\ "flv" \in recycled => flv = "none"
    /\ At("worker", "save") /\ "flv" \notin draft => flv = "none"
    /\ plan # {} /\ "flv" \notin plan => flv = "none"

LEMMA InitCopy == Init => CopyInv /\ PlannedInv
BY FilesAssumption DEF Init, FilesInit, CopyInv, PlannedInv, RemuxSteps, Busy

(* Every step keeps what the plan knows of the FLV ...                      *)
LEMMA StepPlanned ==
    ASSUME Places, PlanInv, PlannedInv, [Next]_vars PROVE PlannedInv'
<1> USE DEF Places, PlanInv, PlannedInv, Begins
<1>1. CASE QueueCompleted /\ OnlyFiles
  BY <1>1 DEF QueueCompleted, OnlyFiles
<1>2. CASE BeginRemuxJob /\ OnlyFiles
  BY <1>2 DEF BeginRemuxJob, Begins, OnlyFiles
<1>3. CASE BeginScript /\ OnlyFiles
  BY <1>3 DEF BeginScript, Begins, OnlyFiles
<1>4. ASSUME NEW p \in Processes, Check(p) /\ OnlyFiles PROVE PlannedInv'
  BY <1>4 DEF Check, OnlyFiles
<1>5. ASSUME NEW p \in Processes, Drop(p) /\ OnlyFiles PROVE PlannedInv'
  BY <1>5 DEF Drop, OnlyFiles
<1>6. ASSUME NEW p \in Processes, Size(p) /\ OnlyFiles PROVE PlannedInv'
  BY <1>6 DEF Size, OnlyFiles
<1>7. ASSUME NEW p \in Processes, Purge(p) /\ OnlyFiles PROVE PlannedInv'
  BY <1>7 DEF Purge, OnlyFiles
<1>8. ASSUME NEW p \in Processes, Clear(p) /\ OnlyFiles PROVE PlannedInv'
  BY <1>8 DEF Clear, OnlyFiles
<1>9. ASSUME NEW p \in Processes, RemuxEnds(p) /\ OnlyFiles PROVE PlannedInv'
  BY <1>9 DEF RemuxEnds, OnlyFiles
<1>10. ASSUME NEW p \in Processes, Verify(p) /\ OnlyFiles PROVE PlannedInv'
  BY <1>10 DEF Verify, OnlyFiles
<1>11. ASSUME NEW p \in Processes, Replace(p) /\ OnlyFiles PROVE PlannedInv'
  BY <1>11 DEF Replace, OnlyFiles
<1>12. ASSUME NEW p \in Processes, Discard(p) /\ OnlyFiles PROVE PlannedInv'
  BY <1>12 DEF Discard, OnlyFiles
<1>13. CASE Audit /\ OnlyFiles
  BY <1>13 DEF Audit, OnlyFiles
<1>14. CASE Killed("operator") /\ OnlyFiles
  BY <1>14 DEF Killed, OnlyFiles
<1>15. CASE QueueSlice
  BY <1>15 DEF QueueSlice, OnlyAround, Reopens
<1>16. CASE SliceRuns
  BY <1>16 DEF SliceRuns, OnlyAround
<1>17. CASE AddMissedSegment
  BY <1>17 DEF AddMissedSegment, OnlyAround, Reopens
<1>18. CASE SegmentJobRuns
  BY <1>18 DEF SegmentJobRuns, OnlyAround
<1>19. CASE DecideSegment
  BY <1>19 DEF DecideSegment, OnlyAround, Reopens
<1>20. CASE Upload
  BY <1>20 DEF Upload, OnlyAround, Reopens
<1>21. CASE CompleteReview
  BY <1>21 DEF CompleteReview, Queued, AlreadyPending, MarkPending, QueueTrash
<1>22. CASE RequestTrash
  BY <1>22 DEF RequestTrash, Queued, AlreadyPending, MarkPending, QueueTrash
<1>23. CASE Expire
  BY <1>23 DEF Expire
<1>24. CASE PassLooks /\ OnlyThePass
  BY <1>24 DEF PassLooks, OnlyThePass
<1>25. CASE PassPlans /\ OnlyThePass
  BY <1>25 DEF PassPlans, OnlyThePass
<1>26. CASE PassBlocks
  BY <1>26 DEF PassBlocks, OnlyThePassAnd
<1>27. CASE PassEnqueues
  BY <1>27 DEF PassEnqueues, OnlyThePassAnd, Queued, AlreadyPending, MarkPending, QueueTrash
<1>28. CASE PassMarks
  BY <1>28 DEF PassMarks, OnlyThePassAnd
<1>29. CASE PassFails
  BY <1>29 DEF PassFails, OnlyThePassAnd
<1>30. CASE BeginTrash
  BY <1>30 DEF BeginTrash, Begins, Recorded, OnlyTheJob
<1>31. CASE ReadState
  BY <1>31 DEF ReadState, OnlyTheJob, NoFileMoves
<1>32. CASE Look
  BY <1>32 DEF Look, SourceIsThere, Present, MayBeTaken, AtRest, OnlyTheJob, NoFileMoves
<1>33. CASE SavePlan
  BY <1>33 DEF SavePlan, OnlyTheJob, NoFileMoves
<1>34. CASE MoveFile
  BY <1>34 DEF MoveFile, Moves, OnlyTheJob
<1>35. CASE NoteMoved
  BY <1>35 DEF NoteMoved, OnlyTheJob, NoFileMoves
<1>36. CASE Finish
  BY <1>36 DEF Finish, OnlyTheJob, NoFileMoves
<1>37. CASE Outcome
  BY <1>37 DEF Outcome, Recorded, NoFileMoves
<1>38. CASE WorkerDies
  BY <1>38 DEF WorkerDies, Killed
<1>39. CASE UNCHANGED vars
  BY <1>39 DEF vars
<1> QED
  BY <1>1, <1>2, <1>3, <1>4, <1>5, <1>6, <1>7, <1>8, <1>9, <1>10, <1>11, <1>12,
     <1>13, <1>14, <1>15, <1>16, <1>17, <1>18, <1>19, <1>20, <1>21, <1>22, <1>23,
     <1>24, <1>25, <1>26, <1>27, <1>28, <1>29, <1>30, <1>31, <1>32, <1>33, <1>34,
     <1>35, <1>36, <1>37, <1>38, <1>39 DEF Next, FilesStep, FilesNext,
     RecoverRecording, RetentionPass, TrashStep

(* ... and the whole copy.                                                  *)
LEMMA StepCopy ==
    ASSUME Places, PlanInv, PlannedInv, CopyInv, [Next]_vars PROVE CopyInv'
<1> USE DEF Places, RemuxSteps, PlanInv, PlannedInv, CopyInv, Busy, Begins, Verdict, Readable, InUseByOther
<1>1. CASE QueueCompleted /\ OnlyFiles
  BY <1>1 DEF QueueCompleted, OnlyFiles
<1>2. CASE BeginRemuxJob /\ OnlyFiles
  BY <1>2 DEF BeginRemuxJob, Begins, OnlyFiles
<1>3. CASE BeginScript /\ OnlyFiles
  BY <1>3 DEF BeginScript, Begins, OnlyFiles
<1>4. ASSUME NEW p \in Processes, Check(p) /\ OnlyFiles PROVE CopyInv'
  <2>1. CASE p = "worker"
    BY <1>4, <2>1 DEF Check, OnlyFiles
  <2>2. CASE p = "operator"
    BY <1>4, <2>2 DEF Check, OnlyFiles
  <2> QED
    BY <2>1, <2>2
<1>5. ASSUME NEW p \in Processes, Drop(p) /\ OnlyFiles PROVE CopyInv'
  BY <1>5 DEF Drop, OnlyFiles
<1>6. ASSUME NEW p \in Processes, Size(p) /\ OnlyFiles PROVE CopyInv'
  <2>1. CASE p = "worker"
    BY <1>6, <2>1 DEF Size, OnlyFiles
  <2>2. CASE p = "operator"
    BY <1>6, <2>2 DEF Size, OnlyFiles
  <2> QED
    BY <2>1, <2>2
<1>7. ASSUME NEW p \in Processes, Purge(p) /\ OnlyFiles PROVE CopyInv'
  BY <1>7 DEF Purge, OnlyFiles
<1>8. ASSUME NEW p \in Processes, Clear(p) /\ OnlyFiles PROVE CopyInv'
  BY <1>8 DEF Clear, OnlyFiles
<1>9. ASSUME NEW p \in Processes, RemuxEnds(p) /\ OnlyFiles PROVE CopyInv'
  BY <1>9 DEF RemuxEnds, OnlyFiles
<1>10. ASSUME NEW p \in Processes, Verify(p) /\ OnlyFiles PROVE CopyInv'
  BY <1>10 DEF Verify, OnlyFiles
<1>11. ASSUME NEW p \in Processes, Replace(p) /\ OnlyFiles PROVE CopyInv'
  BY <1>11 DEF Replace, OnlyFiles
<1>12. ASSUME NEW p \in Processes, Discard(p) /\ OnlyFiles PROVE CopyInv'
  BY <1>12 DEF Discard, OnlyFiles
<1>13. CASE Audit /\ OnlyFiles
  BY <1>13 DEF Audit, OnlyFiles
<1>14. CASE Killed("operator") /\ OnlyFiles
  BY <1>14 DEF Killed, OnlyFiles
<1>15. CASE QueueSlice
  BY <1>15 DEF QueueSlice, OnlyAround, Reopens
<1>16. CASE SliceRuns
  BY <1>16 DEF SliceRuns, OnlyAround
<1>17. CASE AddMissedSegment
  BY <1>17 DEF AddMissedSegment, OnlyAround, Reopens
<1>18. CASE SegmentJobRuns
  BY <1>18 DEF SegmentJobRuns, OnlyAround
<1>19. CASE DecideSegment
  BY <1>19 DEF DecideSegment, OnlyAround, Reopens
<1>20. CASE Upload
  BY <1>20 DEF Upload, OnlyAround, Reopens
<1>21. CASE CompleteReview
  BY <1>21 DEF CompleteReview, Queued, AlreadyPending, MarkPending, QueueTrash
<1>22. CASE RequestTrash
  BY <1>22 DEF RequestTrash, Queued, AlreadyPending, MarkPending, QueueTrash
<1>23. CASE Expire
  BY <1>23 DEF Expire
<1>24. CASE PassLooks /\ OnlyThePass
  BY <1>24 DEF PassLooks, OnlyThePass
<1>25. CASE PassPlans /\ OnlyThePass
  BY <1>25 DEF PassPlans, OnlyThePass
<1>26. CASE PassBlocks
  BY <1>26 DEF PassBlocks, OnlyThePassAnd
<1>27. CASE PassEnqueues
  BY <1>27 DEF PassEnqueues, OnlyThePassAnd, Queued, AlreadyPending, MarkPending, QueueTrash
<1>28. CASE PassMarks
  BY <1>28 DEF PassMarks, OnlyThePassAnd
<1>29. CASE PassFails
  BY <1>29 DEF PassFails, OnlyThePassAnd
<1>30. CASE BeginTrash
  BY <1>30 DEF BeginTrash, Begins, Recorded, OnlyTheJob
<1>31. CASE ReadState
  BY <1>31 DEF ReadState, OnlyTheJob, NoFileMoves
<1>32. CASE Look
  BY <1>32 DEF Look, SourceIsThere, Present, MayBeTaken, AtRest, OnlyTheJob, NoFileMoves
<1>33. CASE SavePlan
  BY <1>33 DEF SavePlan, OnlyTheJob, NoFileMoves
<1>34. CASE MoveFile
  <2>1. NextFile = "mp4" => flv = "none"
    BY <1>34 DEF MoveFile, NextFile
  <2> QED
    BY <1>34, <2>1 DEF MoveFile, Moves, OnlyTheJob
<1>35. CASE NoteMoved
  BY <1>35 DEF NoteMoved, OnlyTheJob, NoFileMoves
<1>36. CASE Finish
  BY <1>36 DEF Finish, OnlyTheJob, NoFileMoves
<1>37. CASE Outcome
  BY <1>37 DEF Outcome, Recorded, NoFileMoves
<1>38. CASE WorkerDies
  BY <1>38 DEF WorkerDies, Killed
<1>39. CASE UNCHANGED vars
  BY <1>39 DEF vars
<1> QED
  BY <1>1, <1>2, <1>3, <1>4, <1>5, <1>6, <1>7, <1>8, <1>9, <1>10, <1>11, <1>12,
     <1>13, <1>14, <1>15, <1>16, <1>17, <1>18, <1>19, <1>20, <1>21, <1>22, <1>23,
     <1>24, <1>25, <1>26, <1>27, <1>28, <1>29, <1>30, <1>31, <1>32, <1>33, <1>34,
     <1>35, <1>36, <1>37, <1>38, <1>39 DEF Next, FilesStep, FilesNext,
     RecoverRecording, RetentionPass, TrashStep

KeepsCopy ==
    HoldsTheRecording =>
        \/ HoldsTheRecording' \/ recycled' # recycled
        \/ overlapped' \/ (misjudged /\ DeletesOnVerdict)

(* No step loses the last whole copy of a recording.                        *)
LEMMA StepHolds ==
    ASSUME Places, PlannedInv, CopyInv, [Next]_vars PROVE KeepsCopy
<1> USE DEF KeepsCopy, DeletesOnVerdict, Places, RemuxSteps, PlannedInv, CopyInv, HoldsTheRecording, Begins, Verdict, Readable
<1>1. CASE QueueCompleted /\ OnlyFiles
  BY <1>1 DEF QueueCompleted, OnlyFiles
<1>2. CASE BeginRemuxJob /\ OnlyFiles
  BY <1>2 DEF BeginRemuxJob, Begins, OnlyFiles
<1>3. CASE BeginScript /\ OnlyFiles
  BY <1>3 DEF BeginScript, Begins, OnlyFiles
<1>4. ASSUME NEW p \in Processes, Check(p) /\ OnlyFiles PROVE KeepsCopy
  BY <1>4 DEF Check, OnlyFiles
<1>5. ASSUME NEW p \in Processes, Drop(p) /\ OnlyFiles PROVE KeepsCopy
  BY <1>5 DEF Drop, OnlyFiles
<1>6. ASSUME NEW p \in Processes, Size(p) /\ OnlyFiles PROVE KeepsCopy
  BY <1>6 DEF Size, OnlyFiles
<1>7. ASSUME NEW p \in Processes, Purge(p) /\ OnlyFiles PROVE KeepsCopy
  BY <1>7 DEF Purge, OnlyFiles
<1>8. ASSUME NEW p \in Processes, Clear(p) /\ OnlyFiles PROVE KeepsCopy
  BY <1>8 DEF Clear, OnlyFiles
<1>9. ASSUME NEW p \in Processes, RemuxEnds(p) /\ OnlyFiles PROVE KeepsCopy
  BY <1>9 DEF RemuxEnds, OnlyFiles
<1>10. ASSUME NEW p \in Processes, Verify(p) /\ OnlyFiles PROVE KeepsCopy
  BY <1>10 DEF Verify, OnlyFiles
<1>11. ASSUME NEW p \in Processes, Replace(p) /\ OnlyFiles PROVE KeepsCopy
  BY <1>11 DEF Replace, OnlyFiles
<1>12. ASSUME NEW p \in Processes, Discard(p) /\ OnlyFiles PROVE KeepsCopy
  BY <1>12 DEF Discard, OnlyFiles
<1>13. CASE Audit /\ OnlyFiles
  BY <1>13 DEF Audit, OnlyFiles
<1>14. CASE Killed("operator") /\ OnlyFiles
  BY <1>14 DEF Killed, OnlyFiles
<1>15. CASE QueueSlice
  BY <1>15 DEF QueueSlice, OnlyAround, Reopens
<1>16. CASE SliceRuns
  BY <1>16 DEF SliceRuns, OnlyAround
<1>17. CASE AddMissedSegment
  BY <1>17 DEF AddMissedSegment, OnlyAround, Reopens
<1>18. CASE SegmentJobRuns
  BY <1>18 DEF SegmentJobRuns, OnlyAround
<1>19. CASE DecideSegment
  BY <1>19 DEF DecideSegment, OnlyAround, Reopens
<1>20. CASE Upload
  BY <1>20 DEF Upload, OnlyAround, Reopens
<1>21. CASE CompleteReview
  BY <1>21 DEF CompleteReview, Queued, AlreadyPending, MarkPending, QueueTrash
<1>22. CASE RequestTrash
  BY <1>22 DEF RequestTrash, Queued, AlreadyPending, MarkPending, QueueTrash
<1>23. CASE Expire
  BY <1>23 DEF Expire
<1>24. CASE PassLooks /\ OnlyThePass
  BY <1>24 DEF PassLooks, OnlyThePass
<1>25. CASE PassPlans /\ OnlyThePass
  BY <1>25 DEF PassPlans, OnlyThePass
<1>26. CASE PassBlocks
  BY <1>26 DEF PassBlocks, OnlyThePassAnd
<1>27. CASE PassEnqueues
  BY <1>27 DEF PassEnqueues, OnlyThePassAnd, Queued, AlreadyPending, MarkPending, QueueTrash
<1>28. CASE PassMarks
  BY <1>28 DEF PassMarks, OnlyThePassAnd
<1>29. CASE PassFails
  BY <1>29 DEF PassFails, OnlyThePassAnd
<1>30. CASE BeginTrash
  BY <1>30 DEF BeginTrash, Begins, Recorded, OnlyTheJob
<1>31. CASE ReadState
  BY <1>31 DEF ReadState, OnlyTheJob, NoFileMoves
<1>32. CASE Look
  BY <1>32 DEF Look, SourceIsThere, Present, MayBeTaken, AtRest, OnlyTheJob, NoFileMoves
<1>33. CASE SavePlan
  BY <1>33 DEF SavePlan, OnlyTheJob, NoFileMoves
<1>34. CASE MoveFile
  BY <1>34 DEF MoveFile, Moves, OnlyTheJob
<1>35. CASE NoteMoved
  BY <1>35 DEF NoteMoved, OnlyTheJob, NoFileMoves
<1>36. CASE Finish
  BY <1>36 DEF Finish, OnlyTheJob, NoFileMoves
<1>37. CASE Outcome
  BY <1>37 DEF Outcome, Recorded, NoFileMoves
<1>38. CASE WorkerDies
  BY <1>38 DEF WorkerDies, Killed
<1>39. CASE UNCHANGED vars
  BY <1>39 DEF vars
<1> QED
  BY <1>1, <1>2, <1>3, <1>4, <1>5, <1>6, <1>7, <1>8, <1>9, <1>10, <1>11, <1>12,
     <1>13, <1>14, <1>15, <1>16, <1>17, <1>18, <1>19, <1>20, <1>21, <1>22, <1>23,
     <1>24, <1>25, <1>26, <1>27, <1>28, <1>29, <1>30, <1>31, <1>32, <1>33, <1>34,
     <1>35, <1>36, <1>37, <1>38, <1>39 DEF Next, FilesStep, FilesNext,
     RecoverRecording, RetentionPass, TrashStep

(* Files move to the Recycle Bin in one step only.                          *)
LEMMA OnlyMoveFile ==
    ASSUME Places, [Next]_vars PROVE (recycled' # recycled => MoveFile)
<1>1. CASE QueueCompleted /\ OnlyFiles
  BY <1>1 DEF QueueCompleted, OnlyFiles
<1>2. CASE BeginRemuxJob /\ OnlyFiles
  BY <1>2 DEF BeginRemuxJob, Begins, OnlyFiles
<1>3. CASE BeginScript /\ OnlyFiles
  BY <1>3 DEF BeginScript, Begins, OnlyFiles
<1>4. ASSUME NEW p \in Processes, Check(p) /\ OnlyFiles PROVE (recycled' # recycled => MoveFile)
  BY <1>4 DEF Check, OnlyFiles
<1>5. ASSUME NEW p \in Processes, Drop(p) /\ OnlyFiles PROVE (recycled' # recycled => MoveFile)
  BY <1>5 DEF Drop, OnlyFiles
<1>6. ASSUME NEW p \in Processes, Size(p) /\ OnlyFiles PROVE (recycled' # recycled => MoveFile)
  BY <1>6 DEF Size, OnlyFiles
<1>7. ASSUME NEW p \in Processes, Purge(p) /\ OnlyFiles PROVE (recycled' # recycled => MoveFile)
  BY <1>7 DEF Purge, OnlyFiles
<1>8. ASSUME NEW p \in Processes, Clear(p) /\ OnlyFiles PROVE (recycled' # recycled => MoveFile)
  BY <1>8 DEF Clear, OnlyFiles
<1>9. ASSUME NEW p \in Processes, RemuxEnds(p) /\ OnlyFiles PROVE (recycled' # recycled => MoveFile)
  BY <1>9 DEF RemuxEnds, OnlyFiles
<1>10. ASSUME NEW p \in Processes, Verify(p) /\ OnlyFiles PROVE (recycled' # recycled => MoveFile)
  BY <1>10 DEF Verify, OnlyFiles
<1>11. ASSUME NEW p \in Processes, Replace(p) /\ OnlyFiles PROVE (recycled' # recycled => MoveFile)
  BY <1>11 DEF Replace, OnlyFiles
<1>12. ASSUME NEW p \in Processes, Discard(p) /\ OnlyFiles PROVE (recycled' # recycled => MoveFile)
  BY <1>12 DEF Discard, OnlyFiles
<1>13. CASE Audit /\ OnlyFiles
  BY <1>13 DEF Audit, OnlyFiles
<1>14. CASE Killed("operator") /\ OnlyFiles
  BY <1>14 DEF Killed, OnlyFiles
<1>15. CASE QueueSlice
  BY <1>15 DEF QueueSlice, OnlyAround, Reopens
<1>16. CASE SliceRuns
  BY <1>16 DEF SliceRuns, OnlyAround
<1>17. CASE AddMissedSegment
  BY <1>17 DEF AddMissedSegment, OnlyAround, Reopens
<1>18. CASE SegmentJobRuns
  BY <1>18 DEF SegmentJobRuns, OnlyAround
<1>19. CASE DecideSegment
  BY <1>19 DEF DecideSegment, OnlyAround, Reopens
<1>20. CASE Upload
  BY <1>20 DEF Upload, OnlyAround, Reopens
<1>21. CASE CompleteReview
  BY <1>21 DEF CompleteReview, Queued, AlreadyPending, MarkPending, QueueTrash
<1>22. CASE RequestTrash
  BY <1>22 DEF RequestTrash, Queued, AlreadyPending, MarkPending, QueueTrash
<1>23. CASE Expire
  BY <1>23 DEF Expire
<1>24. CASE PassLooks /\ OnlyThePass
  BY <1>24 DEF PassLooks, OnlyThePass
<1>25. CASE PassPlans /\ OnlyThePass
  BY <1>25 DEF PassPlans, OnlyThePass
<1>26. CASE PassBlocks
  BY <1>26 DEF PassBlocks, OnlyThePassAnd
<1>27. CASE PassEnqueues
  BY <1>27 DEF PassEnqueues, OnlyThePassAnd, Queued, AlreadyPending, MarkPending, QueueTrash
<1>28. CASE PassMarks
  BY <1>28 DEF PassMarks, OnlyThePassAnd
<1>29. CASE PassFails
  BY <1>29 DEF PassFails, OnlyThePassAnd
<1>30. CASE BeginTrash
  BY <1>30 DEF BeginTrash, Begins, Recorded, OnlyTheJob
<1>31. CASE ReadState
  BY <1>31 DEF ReadState, OnlyTheJob, NoFileMoves
<1>32. CASE Look
  BY <1>32 DEF Look, SourceIsThere, Present, MayBeTaken, AtRest, OnlyTheJob, NoFileMoves
<1>33. CASE SavePlan
  BY <1>33 DEF SavePlan, OnlyTheJob, NoFileMoves
<1>34. CASE MoveFile
  BY <1>34
<1>35. CASE NoteMoved
  BY <1>35 DEF NoteMoved, OnlyTheJob, NoFileMoves
<1>36. CASE Finish
  BY <1>36 DEF Finish, OnlyTheJob, NoFileMoves
<1>37. CASE Outcome
  BY <1>37 DEF Outcome, Recorded, NoFileMoves
<1>38. CASE WorkerDies
  BY <1>38 DEF WorkerDies, Killed
<1>39. CASE UNCHANGED vars
  BY <1>39 DEF vars
<1> QED
  BY <1>1, <1>2, <1>3, <1>4, <1>5, <1>6, <1>7, <1>8, <1>9, <1>10, <1>11, <1>12,
     <1>13, <1>14, <1>15, <1>16, <1>17, <1>18, <1>19, <1>20, <1>21, <1>22, <1>23,
     <1>24, <1>25, <1>26, <1>27, <1>28, <1>29, <1>30, <1>31, <1>32, <1>33, <1>34,
     <1>35, <1>36, <1>37, <1>38, <1>39 DEF Next, FilesStep, FilesNext,
     RecoverRecording, RetentionPass, TrashStep

Inv == Places /\ PlanInv /\ CauseInv /\ PlannedInv

(* The inductive invariant.                                                 *)
THEOREM RecordingInvariant == Spec => []Inv
<1>1. Init => Inv
  BY InitPlaces, InitPlan, InitCause, InitCopy DEF Inv
<1>2. Inv /\ [Next]_vars => Inv'
  BY StepPlaces, StepPlan, StepCause, StepPlanned DEF Inv
<1> QED BY <1>1, <1>2, PTL DEF Spec

(* A recording that is reported as trashed has its whole plan in the        *)
(* Recycle Bin (recording_trash.py:189-265).                                *)
THEOREM DoneMeansRecycled == Spec => []DoneIsTrue
<1>1. Inv => DoneIsTrue BY DEF Inv, PlanInv
<1> QED BY RecordingInvariant, <1>1, PTL

(* A file only moves for a cause: a plan is made when there is one, and     *)
(* what invalidates it is recorded in reopened (recording_trash.py:50-187). *)
THEOREM MovedForACause == Spec => TakenWithCause
<1>1. ASSUME Inv, [Next]_vars, recycled' # recycled PROVE MoveFile
  BY <1>1, OnlyMoveFile DEF Inv
<1>2. Inv /\ [Next]_vars =>
        [recycled' # recycled =>
            expired \/ reopened \/ (review \in Closed /\ AtRest)]_vars
  BY <1>1 DEF MoveFile, Inv, CauseInv, Cause
<1> QED BY RecordingInvariant, <1>2, PTL DEF Spec, TakenWithCause

(* No step of a remux, of the script or of a trash job leaves a recording   *)
(* in neither of its files, except in the Recycle Bin, whichever verdicts   *)
(* come out wrong: only the script's own deletion on the wrong verdict, or  *)
(* the script beside a job, can (runtime_cleanup.py:208-345).               *)
THEOREM CopyIsKept == Spec => WholeCopyKept
<1>1. Init => Inv /\ CopyInv
  BY InitPlaces, InitPlan, InitCause, InitCopy DEF Inv
<1>2. Inv /\ CopyInv /\ [Next]_vars => (Inv /\ CopyInv)'
  BY StepPlaces, StepPlan, StepCause, StepPlanned, StepCopy DEF Inv
<1>3. Inv /\ CopyInv /\ [Next]_vars =>
        [KeepsCopy]_vars
  BY StepHolds DEF Inv
<1> QED BY <1>1, <1>2, <1>3, PTL DEF Spec, WholeCopyKept, KeepsCopy

=============================================================================
