------------------------- MODULE UploadWorkerProofs -------------------------
(***************************************************************************)
(* Theorems of UploadWorker, for every set of videos, every retry budget   *)
(* and every bound on the rows.                                            *)
(***************************************************************************)
EXTENDS UploadWorker, TLAPS

(* What each transaction of the queue makes of the row it addresses.        *)
LEMMA RowFacts ==
    ASSUME NEW row \in Row
    PROVE  /\ Restaged(row) \in Row /\ Restaged(row).status = "staged"
           /\ Restaged(row).remote = row.remote /\ Restaged(row).attempts = 0
           /\ Activated(row) \in Row /\ Activated(row).status = ResumePhase(row)
           /\ Activated(row).remote = row.remote
           /\ Activated(row).attempts = row.attempts
           /\ Requeued(row) \in Row /\ Requeued(row).status = ResumePhase(row)
           /\ Requeued(row).remote = row.remote /\ Requeued(row).attempts = 0
           /\ Claimed(row) \in Row
           /\ Claimed(row).status =
                IF row.status = "queued" THEN "uploading" ELSE "publishing"
           /\ Claimed(row).remote = row.remote
           /\ Claimed(row).attempts = row.attempts
           /\ Completed(row) \in Row /\ Completed(row).status = "uploaded"
           /\ Completed(row).remote /\ Completed(row).attempts = row.attempts
           /\ Published(row) \in Row /\ Published(row).status = "published"
           /\ Published(row).remote = row.remote
           /\ Failed(row) \in Row /\ Failed(row).status = "failed"
           /\ Failed(row).remote = row.remote
           /\ Retried(row) \in Row /\ Retried(row).remote = row.remote
           /\ Retried(row).status =
                IF row.attempts + 1 >= MaxAttempts THEN "failed" ELSE ResumePhase(row)
           /\ Retried(row).attempts = row.attempts + 1
           /\ Deferred(row) \in Row /\ Deferred(row).status = ResumePhase(row)
           /\ Deferred(row).remote = row.remote
           /\ Deferred(row).attempts = row.attempts
           /\ Elapsed(row) \in Row /\ Elapsed(row).status = row.status
           /\ Elapsed(row).remote = row.remote /\ Elapsed(row).attempts = row.attempts
           /\ Recovered(row) \in Row /\ Recovered(row).remote = row.remote
           /\ Recovered(row).attempts = row.attempts
           /\ Recovered(row).status =
                CASE row.status = "uploading"  -> "queued"
                  [] row.status = "publishing" -> ResumePhase(row)
                  [] OTHER                     -> row.status
           /\ ResumePhase(row) = IF row.remote THEN "uploaded" ELSE "queued"
<1> USE MaxAttemptsAssumption DEF Row, Statuses, ResumePhase
<1>1. Restaged(row) \in Row /\ Activated(row) \in Row /\ Requeued(row) \in Row
  BY DEF Restaged, Activated, Requeued
<1>2. Claimed(row) \in Row /\ Completed(row) \in Row
  BY DEF Claimed, Completed
<1>3. Published(row) \in Row /\ Failed(row) \in Row
  BY DEF Published, Failed
<1>4. Retried(row) \in Row /\ Deferred(row) \in Row
  <2>1. row.attempts + 1 \in Nat
    OBVIOUS
  <2>2. [row EXCEPT !.status = "failed", !.attempts = row.attempts + 1, !.due = TRUE] \in Row
    BY <2>1
  <2>3. [row EXCEPT !.status = ResumePhase(row), !.attempts = row.attempts + 1,
                    !.due = FALSE] \in Row
    BY <2>1
  <2>4. QED
    BY ZenonT(60), <2>2, <2>3 DEF Retried, Deferred
<1>5. Recovered(row) \in Row /\ Elapsed(row) \in Row
  BY DEF Recovered, Elapsed
<1>6. QED
  BY <1>1, <1>2, <1>3, <1>4, <1>5
     DEF Restaged, Activated, Requeued, Claimed, Completed, Published, Failed,
         Retried, Deferred, Recovered, Elapsed

(* A retry leaves a row with attempts left, or fails it.                    *)
LEMMA RetriedBudget ==
    ASSUME NEW row \in Row
    PROVE  Retried(row).status = "failed" \/ Retried(row).attempts < MaxAttempts
<1>1. row.attempts \in Nat
  BY DEF Row
<1>2. CASE row.attempts + 1 >= MaxAttempts
  BY <1>2, RowFacts
<1>3. CASE ~(row.attempts + 1 >= MaxAttempts)
  <2>1. row.attempts + 1 < MaxAttempts
    BY <1>1, <1>3, MaxAttemptsAssumption
  <2>2. QED
    BY <2>1, RowFacts
<1>4. QED
  BY <1>2, <1>3

(* A new row is a row, and counts as waiting with no bytes sent.            *)
LEMMA InsertedRow ==
    ASSUME TypeOK
    PROVE  \A status \in {"staged", "queued"} :
             /\ NewRow(status) \in Row /\ NewRow(status).status = status
             /\ ~NewRow(status).remote /\ NewRow(status).attempts = 0
BY DEF TypeOK, NewRow, NoRow, Row, Statuses

(* A video without a row: nothing was sent for it.                          *)
LEMMA EmptyRow ==
    NoRow \in Row /\ NoRow.status = "none" /\ ~NoRow.remote /\ NoRow.attempts = 0
BY DEF NoRow, Row, Statuses

(* A transaction changes the one row it addresses, and keeps it a row.      *)
LEMMA UpdateOneRow ==
    ASSUME TypeOK, NEW v \in Videos, NEW row \in Row, Update(v, row)
    PROVE  /\ queue' \in [Videos -> Row]
           /\ \A w \in Videos \ {v} : queue'[w] = queue[w]
           /\ queue'[v] = IF Present(v) THEN row ELSE queue[v]
BY DEF Update, TypeOK, Present

(* Every step of the dashboard, the clock and the consumer keeps the types; *)
(* CyclePhase gives a working consumer the row it writes.                   *)
LEMMA TypeStep == TypeOK /\ CyclePhase /\ [Next]_vars => TypeOK'
<1> SUFFICES ASSUME TypeOK, CyclePhase, [Next]_vars PROVE TypeOK'
  OBVIOUS
<1> USE RowFacts, UpdateOneRow DEF TypeOK, CyclePhase, Steps, Working, FileStates, queueVars, workerVars, history, platform
<1>1. ASSUME NEW v \in Videos, Stage(v) PROVE TypeOK'
  BY <1>1, InsertedRow DEF Stage, StageUpload, Insert, Present
<1>2. ASSUME NEW v \in Videos, Approve(v) PROVE TypeOK'
  BY <1>2 DEF Approve, ActivateStaged, Present
<1>3. ASSUME NEW v \in Videos, Enqueue(v) PROVE TypeOK'
  BY <1>3, InsertedRow DEF Enqueue, InsertUpload, Insert, Present
<1>4. ASSUME NEW v \in Videos, RetryUpload(v) PROVE TypeOK'
  BY <1>4 DEF RetryUpload, RequeueFailed, Present
<1>5. ASSUME NEW v \in Videos, Withdraw(v) PROVE TypeOK'
  BY <1>5, EmptyRow DEF Withdraw, WithdrawStaged
<1>6. ASSUME NEW v \in Videos, TimePasses(v) PROVE TypeOK'
  BY <1>6 DEF TimePasses, BackoffElapses, Present
<1>7. CASE Start
  BY <1>7 DEF Start, RecoverQueue
<1>8. CASE Stop
  BY <1>8 DEF Stop, Forget
<1>9. CASE Crash
  BY <1>9 DEF Crash, Forget
<1>10. CASE Peek
  BY <1>10 DEF Peek, IsNext, Due
<1>11. CASE LoadMetadata
  BY <1>11 DEF LoadMetadata, Present
<1>12. CASE CheckLogin
  BY <1>12 DEF CheckLogin
<1>13. CASE Claim
  BY <1>13 DEF Claim, IsNext, Due, Present
<1>14. CASE UploadFile
  BY <1>14 DEF UploadFile, Count, Many
<1>15. CASE UploadRaises
  BY <1>15 DEF UploadRaises, Count, Many
<1>16. CASE RecordUpload
  BY <1>16 DEF RecordUpload, Present
<1>17. CASE Reclaim
  BY <1>17 DEF Reclaim, IsNext, Due, Present
<1>18. CASE SubmitAccepted
  BY <1>18 DEF SubmitAccepted, Count, Many
<1>19. CASE SubmitWithoutBvid
  BY <1>19 DEF SubmitWithoutBvid, Present, Count, Many
<1>20. CASE SubmitRejected
  BY <1>20 DEF SubmitRejected, Present
<1>21. CASE SubmitRaises
  BY <1>21 DEF SubmitRaises, Count, Many
<1>22. CASE RecordPublished
  BY <1>22 DEF RecordPublished, Present
<1>23. CASE RecordRaises
  BY <1>23 DEF RecordRaises
<1>24. CASE Cleanup
  BY <1>24 DEF Cleanup
<1>25. CASE HandleException
  BY <1>25 DEF HandleException, Present
<1>26. CASE Report
  BY <1>26 DEF Report, Forget
<1>27. CASE ReportRaises
  BY <1>27 DEF ReportRaises
<1>28. CASE UNCHANGED vars
  BY <1>28 DEF vars, workerVars
<1>29. QED
  BY <1>1, <1>2, <1>3, <1>4, <1>5, <1>6, <1>7, <1>8, <1>9, <1>10, <1>11,
     <1>12, <1>13, <1>14, <1>15, <1>16, <1>17, <1>18, <1>19, <1>20,
     <1>21, <1>22, <1>23, <1>24, <1>25, <1>26, <1>27, <1>28
     DEF Next, Dashboard, Clock, Cycle

(* What a cycle knows of its rows survives every step of the others: no     *)
(* producer touches a row that is being uploaded or published.              *)
LEMMA PhaseStep == TypeOK /\ CyclePhase /\ [Next]_vars => CyclePhase'
<1> SUFFICES ASSUME TypeOK, CyclePhase, [Next]_vars PROVE CyclePhase'
  OBVIOUS
<1> USE RowFacts, UpdateOneRow DEF TypeOK, CyclePhase, Steps, Working, queueVars, workerVars, history, platform
<1>1. ASSUME NEW v \in Videos, Stage(v) PROVE CyclePhase'
  BY SMTT(30), <1>1, InsertedRow DEF Stage, StageUpload, Insert, Present
<1>2. ASSUME NEW v \in Videos, Approve(v) PROVE CyclePhase'
  BY SMTT(30), <1>2 DEF Approve, ActivateStaged, Present
<1>3. ASSUME NEW v \in Videos, Enqueue(v) PROVE CyclePhase'
  BY <1>3, InsertedRow DEF Enqueue, InsertUpload, Insert, Present
<1>4. ASSUME NEW v \in Videos, RetryUpload(v) PROVE CyclePhase'
  BY SMTT(30), <1>4 DEF RetryUpload, RequeueFailed, Present
<1>5. ASSUME NEW v \in Videos, Withdraw(v) PROVE CyclePhase'
  BY <1>5, EmptyRow DEF Withdraw, WithdrawStaged
<1>6. ASSUME NEW v \in Videos, TimePasses(v) PROVE CyclePhase'
  BY <1>6 DEF TimePasses, BackoffElapses, Present
<1>7. CASE Start
  BY <1>7 DEF Start, RecoverQueue
<1>8. CASE Stop
  BY <1>8 DEF Stop, Forget
<1>9. CASE Crash
  BY <1>9 DEF Crash, Forget
<1>10. CASE Peek
  BY <1>10 DEF Peek, IsNext, Due
<1>11. CASE LoadMetadata
  BY <1>11 DEF LoadMetadata, Present
<1>12. CASE CheckLogin
  BY <1>12 DEF CheckLogin
<1>13. CASE Claim
  BY <1>13 DEF Claim, IsNext, Due, Present
<1>14. CASE UploadFile
  BY <1>14 DEF UploadFile, Count, Many
<1>15. CASE UploadRaises
  BY <1>15 DEF UploadRaises, Count, Many
<1>16. CASE RecordUpload
  BY <1>16 DEF RecordUpload, Present
<1>17. CASE Reclaim
  BY <1>17 DEF Reclaim, IsNext, Due, Present
<1>18. CASE SubmitAccepted
  BY <1>18 DEF SubmitAccepted, Count, Many
<1>19. CASE SubmitWithoutBvid
  BY <1>19 DEF SubmitWithoutBvid, Present, Count, Many
<1>20. CASE SubmitRejected
  BY <1>20 DEF SubmitRejected, Present
<1>21. CASE SubmitRaises
  BY <1>21 DEF SubmitRaises, Count, Many
<1>22. CASE RecordPublished
  BY <1>22 DEF RecordPublished, Present
<1>23. CASE RecordRaises
  BY <1>23 DEF RecordRaises
<1>24. CASE Cleanup
  BY <1>24 DEF Cleanup
<1>25. CASE HandleException
  BY <1>25 DEF HandleException, Present
<1>26. CASE Report
  BY <1>26 DEF Report, Forget
<1>27. CASE ReportRaises
  BY <1>27 DEF ReportRaises
<1>28. CASE UNCHANGED vars
  BY <1>28 DEF vars, workerVars
<1>29. QED
  BY <1>1, <1>2, <1>3, <1>4, <1>5, <1>6, <1>7, <1>8, <1>9, <1>10, <1>11,
     <1>12, <1>13, <1>14, <1>15, <1>16, <1>17, <1>18, <1>19, <1>20,
     <1>21, <1>22, <1>23, <1>24, <1>25, <1>26, <1>27, <1>28
     DEF Next, Dashboard, Clock, Cycle

(* Every transaction keeps the status of its row in agreement with whether  *)
(* the bytes are on the CDN.                                                *)
LEMMA RemoteStep ==
    TypeOK /\ CyclePhase /\ PhaseMatchesRemote /\ [Next]_vars => PhaseMatchesRemote'
<1> SUFFICES ASSUME TypeOK, CyclePhase, PhaseMatchesRemote, [Next]_vars PROVE PhaseMatchesRemote'
  OBVIOUS
<1> USE RowFacts, UpdateOneRow DEF TypeOK, CyclePhase, PhaseMatchesRemote, Steps, Working, queueVars, workerVars, history, platform
<1>1. ASSUME NEW v \in Videos, Stage(v) PROVE PhaseMatchesRemote'
  BY <1>1, InsertedRow DEF Stage, StageUpload, Insert, Present
<1>2. ASSUME NEW v \in Videos, Approve(v) PROVE PhaseMatchesRemote'
  BY <1>2 DEF Approve, ActivateStaged, Present
<1>3. ASSUME NEW v \in Videos, Enqueue(v) PROVE PhaseMatchesRemote'
  BY <1>3, InsertedRow DEF Enqueue, InsertUpload, Insert, Present
<1>4. ASSUME NEW v \in Videos, RetryUpload(v) PROVE PhaseMatchesRemote'
  BY <1>4 DEF RetryUpload, RequeueFailed, Present
<1>5. ASSUME NEW v \in Videos, Withdraw(v) PROVE PhaseMatchesRemote'
  BY <1>5, EmptyRow DEF Withdraw, WithdrawStaged
<1>6. ASSUME NEW v \in Videos, TimePasses(v) PROVE PhaseMatchesRemote'
  BY <1>6 DEF TimePasses, BackoffElapses, Present
<1>7. CASE Start
  BY <1>7 DEF Start, RecoverQueue
<1>8. CASE Stop
  BY <1>8 DEF Stop, Forget
<1>9. CASE Crash
  BY <1>9 DEF Crash, Forget
<1>10. CASE Peek
  BY <1>10 DEF Peek, IsNext, Due
<1>11. CASE LoadMetadata
  BY <1>11 DEF LoadMetadata, Present
<1>12. CASE CheckLogin
  BY <1>12 DEF CheckLogin
<1>13. CASE Claim
  BY <1>13 DEF Claim, IsNext, Due, Present
<1>14. CASE UploadFile
  BY <1>14 DEF UploadFile, Count, Many
<1>15. CASE UploadRaises
  BY <1>15 DEF UploadRaises, Count, Many
<1>16. CASE RecordUpload
  BY <1>16 DEF RecordUpload, Present
<1>17. CASE Reclaim
  BY <1>17 DEF Reclaim, IsNext, Due, Present
<1>18. CASE SubmitAccepted
  BY <1>18 DEF SubmitAccepted, Count, Many
<1>19. CASE SubmitWithoutBvid
  BY <1>19 DEF SubmitWithoutBvid, Present, Count, Many
<1>20. CASE SubmitRejected
  BY <1>20 DEF SubmitRejected, Present
<1>21. CASE SubmitRaises
  BY <1>21 DEF SubmitRaises, Count, Many
<1>22. CASE RecordPublished
  BY <1>22 DEF RecordPublished, Present
<1>23. CASE RecordRaises
  BY <1>23 DEF RecordRaises
<1>24. CASE Cleanup
  BY <1>24 DEF Cleanup
<1>25. CASE HandleException
  BY <1>25 DEF HandleException, Present
<1>26. CASE Report
  BY <1>26 DEF Report, Forget
<1>27. CASE ReportRaises
  BY <1>27 DEF ReportRaises
<1>28. CASE UNCHANGED vars
  BY <1>28 DEF vars, workerVars
<1>29. QED
  BY <1>1, <1>2, <1>3, <1>4, <1>5, <1>6, <1>7, <1>8, <1>9, <1>10, <1>11,
     <1>12, <1>13, <1>14, <1>15, <1>16, <1>17, <1>18, <1>19, <1>20,
     <1>21, <1>22, <1>23, <1>24, <1>25, <1>26, <1>27, <1>28
     DEF Next, Dashboard, Clock, Cycle

(* No transaction leaves an eligible row without attempts.                  *)
LEMMA BudgetStep ==
    TypeOK /\ CyclePhase /\ BudgetRespected /\ [Next]_vars => BudgetRespected'
<1> SUFFICES ASSUME TypeOK, CyclePhase, BudgetRespected, [Next]_vars PROVE BudgetRespected'
  OBVIOUS
<1> USE MaxAttemptsAssumption, RowFacts, UpdateOneRow DEF TypeOK, CyclePhase, BudgetRespected, Steps, Working, queueVars, workerVars, history, platform
<1>1. ASSUME NEW v \in Videos, Stage(v) PROVE BudgetRespected'
  BY <1>1, InsertedRow DEF Stage, StageUpload, Insert, Present
<1>2. ASSUME NEW v \in Videos, Approve(v) PROVE BudgetRespected'
  BY SMTT(30), <1>2 DEF Approve, ActivateStaged, Present
<1>3. ASSUME NEW v \in Videos, Enqueue(v) PROVE BudgetRespected'
  BY <1>3, InsertedRow DEF Enqueue, InsertUpload, Insert, Present
<1>4. ASSUME NEW v \in Videos, RetryUpload(v) PROVE BudgetRespected'
  BY <1>4 DEF RetryUpload, RequeueFailed, Present
<1>5. ASSUME NEW v \in Videos, Withdraw(v) PROVE BudgetRespected'
  BY <1>5, EmptyRow DEF Withdraw, WithdrawStaged
<1>6. ASSUME NEW v \in Videos, TimePasses(v) PROVE BudgetRespected'
  BY <1>6 DEF TimePasses, BackoffElapses, Present
<1>7. CASE Start
  BY SMTT(30), <1>7 DEF Start, RecoverQueue
<1>8. CASE Stop
  BY <1>8 DEF Stop, Forget
<1>9. CASE Crash
  BY <1>9 DEF Crash, Forget
<1>10. CASE Peek
  BY <1>10 DEF Peek, IsNext, Due
<1>11. CASE LoadMetadata
  BY <1>11 DEF LoadMetadata, Present
<1>12. CASE CheckLogin
  BY <1>12 DEF CheckLogin
<1>13. CASE Claim
  BY <1>13 DEF Claim, IsNext, Due, Present
<1>14. CASE UploadFile
  BY <1>14 DEF UploadFile, Count, Many
<1>15. CASE UploadRaises
  BY <1>15 DEF UploadRaises, Count, Many
<1>16. CASE RecordUpload
  BY <1>16 DEF RecordUpload, Present
<1>17. CASE Reclaim
  BY <1>17 DEF Reclaim, IsNext, Due, Present
<1>18. CASE SubmitAccepted
  BY <1>18 DEF SubmitAccepted, Count, Many
<1>19. CASE SubmitWithoutBvid
  BY <1>19, RetriedBudget DEF SubmitWithoutBvid, Present, Count, Many
<1>20. CASE SubmitRejected
  BY SMTT(30), <1>20, RetriedBudget DEF SubmitRejected, Present
<1>21. CASE SubmitRaises
  BY <1>21 DEF SubmitRaises, Count, Many
<1>22. CASE RecordPublished
  BY <1>22 DEF RecordPublished, Present
<1>23. CASE RecordRaises
  BY <1>23 DEF RecordRaises
<1>24. CASE Cleanup
  BY <1>24 DEF Cleanup
<1>25. CASE HandleException
  BY <1>25, RetriedBudget DEF HandleException, Present
<1>26. CASE Report
  BY <1>26 DEF Report, Forget
<1>27. CASE ReportRaises
  BY <1>27 DEF ReportRaises
<1>28. CASE UNCHANGED vars
  BY <1>28 DEF vars, workerVars
<1>29. QED
  BY <1>1, <1>2, <1>3, <1>4, <1>5, <1>6, <1>7, <1>8, <1>9, <1>10, <1>11,
     <1>12, <1>13, <1>14, <1>15, <1>16, <1>17, <1>18, <1>19, <1>20,
     <1>21, <1>22, <1>23, <1>24, <1>25, <1>26, <1>27, <1>28
     DEF Next, Dashboard, Clock, Cycle

(* The evidence of an upload or a submission is never dropped: it is in the *)
(* row, in the step about to record it, or lost with a crash or an error.   *)
LEMMA EffectsStep ==
    IInv /\ [Next]_vars => EffectsAccounted'
<1> SUFFICES ASSUME TypeOK, CyclePhase, PhaseMatchesRemote, EffectsAccounted, [Next]_vars PROVE EffectsAccounted'
  BY DEF IInv
<1> USE RowFacts, UpdateOneRow DEF TypeOK, CyclePhase, PhaseMatchesRemote, EffectsAccounted, Steps, Working, queueVars, workerVars, history, platform
<1>1. ASSUME NEW v \in Videos, Stage(v) PROVE EffectsAccounted'
  BY <1>1, InsertedRow DEF Stage, StageUpload, Insert, Present
<1>2. ASSUME NEW v \in Videos, Approve(v) PROVE EffectsAccounted'
  BY <1>2 DEF Approve, ActivateStaged, Present
<1>3. ASSUME NEW v \in Videos, Enqueue(v) PROVE EffectsAccounted'
  BY <1>3, InsertedRow DEF Enqueue, InsertUpload, Insert, Present
<1>4. ASSUME NEW v \in Videos, RetryUpload(v) PROVE EffectsAccounted'
  BY <1>4 DEF RetryUpload, RequeueFailed, Present
<1>5. ASSUME NEW v \in Videos, Withdraw(v) PROVE EffectsAccounted'
  BY <1>5, EmptyRow DEF Withdraw, WithdrawStaged
<1>6. ASSUME NEW v \in Videos, TimePasses(v) PROVE EffectsAccounted'
  BY <1>6 DEF TimePasses, BackoffElapses, Present
<1>7. CASE Start
  BY SMTT(30), <1>7 DEF Start, RecoverQueue
<1>8. CASE Stop
  BY <1>8 DEF Stop, Forget
<1>9. CASE Crash
  BY <1>9 DEF Crash, Forget
<1>10. CASE Peek
  BY <1>10 DEF Peek, IsNext, Due
<1>11. CASE LoadMetadata
  BY <1>11 DEF LoadMetadata, Present
<1>12. CASE CheckLogin
  BY <1>12 DEF CheckLogin
<1>13. CASE Claim
  BY <1>13 DEF Claim, IsNext, Due, Present
<1>14. CASE UploadFile
  BY <1>14 DEF UploadFile, Count, Many
<1>15. CASE UploadRaises
  BY <1>15 DEF UploadRaises, Count, Many
<1>16. CASE RecordUpload
  BY <1>16 DEF RecordUpload, Present
<1>17. CASE Reclaim
  BY <1>17 DEF Reclaim, IsNext, Due, Present
<1>18. CASE SubmitAccepted
  BY <1>18 DEF SubmitAccepted, Count, Many
<1>19. CASE SubmitWithoutBvid
  BY <1>19 DEF SubmitWithoutBvid, Present, Count, Many
<1>20. CASE SubmitRejected
  BY <1>20 DEF SubmitRejected, Present
<1>21. CASE SubmitRaises
  BY <1>21 DEF SubmitRaises, Count, Many
<1>22. CASE RecordPublished
  BY <1>22 DEF RecordPublished, Present
<1>23. CASE RecordRaises
  BY <1>23 DEF RecordRaises
<1>24. CASE Cleanup
  BY <1>24 DEF Cleanup
<1>25. CASE HandleException
  BY <1>25 DEF HandleException, Present
<1>26. CASE Report
  BY <1>26 DEF Report, Forget
<1>27. CASE ReportRaises
  BY <1>27 DEF ReportRaises
<1>28. CASE UNCHANGED vars
  BY <1>28 DEF vars, workerVars
<1>29. QED
  BY <1>1, <1>2, <1>3, <1>4, <1>5, <1>6, <1>7, <1>8, <1>9, <1>10, <1>11,
     <1>12, <1>13, <1>14, <1>15, <1>16, <1>17, <1>18, <1>19, <1>20,
     <1>21, <1>22, <1>23, <1>24, <1>25, <1>26, <1>27, <1>28
     DEF Next, Dashboard, Clock, Cycle

(* Nothing is sent or submitted twice unless the evidence of the first time *)
(* was lost.                                                                *)
LEMMA OnceStep ==
    IInv /\ [Next]_vars => BytesSentOnce' /\ PublishedOnceUnlessLost'
<1> SUFFICES ASSUME TypeOK, CyclePhase, PhaseMatchesRemote, EffectsAccounted, BytesSentOnce, PublishedOnceUnlessLost, [Next]_vars PROVE (BytesSentOnce /\ PublishedOnceUnlessLost)'
  BY DEF IInv
<1> USE RowFacts, UpdateOneRow DEF TypeOK, CyclePhase, PhaseMatchesRemote, EffectsAccounted, BytesSentOnce, PublishedOnceUnlessLost, Steps, Working, queueVars, workerVars, history, platform
<1>1. ASSUME NEW v \in Videos, Stage(v) PROVE (BytesSentOnce /\ PublishedOnceUnlessLost)'
  BY <1>1, InsertedRow DEF Stage, StageUpload, Insert, Present
<1>2. ASSUME NEW v \in Videos, Approve(v) PROVE (BytesSentOnce /\ PublishedOnceUnlessLost)'
  BY <1>2 DEF Approve, ActivateStaged, Present
<1>3. ASSUME NEW v \in Videos, Enqueue(v) PROVE (BytesSentOnce /\ PublishedOnceUnlessLost)'
  BY <1>3, InsertedRow DEF Enqueue, InsertUpload, Insert, Present
<1>4. ASSUME NEW v \in Videos, RetryUpload(v) PROVE (BytesSentOnce /\ PublishedOnceUnlessLost)'
  BY <1>4 DEF RetryUpload, RequeueFailed, Present
<1>5. ASSUME NEW v \in Videos, Withdraw(v) PROVE (BytesSentOnce /\ PublishedOnceUnlessLost)'
  BY <1>5, EmptyRow DEF Withdraw, WithdrawStaged
<1>6. ASSUME NEW v \in Videos, TimePasses(v) PROVE (BytesSentOnce /\ PublishedOnceUnlessLost)'
  BY <1>6 DEF TimePasses, BackoffElapses, Present
<1>7. CASE Start
  BY <1>7 DEF Start, RecoverQueue
<1>8. CASE Stop
  BY <1>8 DEF Stop, Forget
<1>9. CASE Crash
  BY <1>9 DEF Crash, Forget
<1>10. CASE Peek
  BY <1>10 DEF Peek, IsNext, Due
<1>11. CASE LoadMetadata
  BY <1>11 DEF LoadMetadata, Present
<1>12. CASE CheckLogin
  BY <1>12 DEF CheckLogin
<1>13. CASE Claim
  BY <1>13 DEF Claim, IsNext, Due, Present
<1>14. CASE UploadFile
  BY <1>14 DEF UploadFile, Count, Many
<1>15. CASE UploadRaises
  BY <1>15 DEF UploadRaises, Count, Many
<1>16. CASE RecordUpload
  BY <1>16 DEF RecordUpload, Present
<1>17. CASE Reclaim
  BY <1>17 DEF Reclaim, IsNext, Due, Present
<1>18. CASE SubmitAccepted
  BY <1>18 DEF SubmitAccepted, Count, Many
<1>19. CASE SubmitWithoutBvid
  BY <1>19 DEF SubmitWithoutBvid, Present, Count, Many
<1>20. CASE SubmitRejected
  BY <1>20 DEF SubmitRejected, Present
<1>21. CASE SubmitRaises
  BY <1>21 DEF SubmitRaises, Count, Many
<1>22. CASE RecordPublished
  BY <1>22 DEF RecordPublished, Present
<1>23. CASE RecordRaises
  BY <1>23 DEF RecordRaises
<1>24. CASE Cleanup
  BY <1>24 DEF Cleanup
<1>25. CASE HandleException
  BY <1>25 DEF HandleException, Present
<1>26. CASE Report
  BY <1>26 DEF Report, Forget
<1>27. CASE ReportRaises
  BY <1>27 DEF ReportRaises
<1>28. CASE UNCHANGED vars
  BY <1>28 DEF vars, workerVars
<1>29. QED
  BY <1>1, <1>2, <1>3, <1>4, <1>5, <1>6, <1>7, <1>8, <1>9, <1>10, <1>11,
     <1>12, <1>13, <1>14, <1>15, <1>16, <1>17, <1>18, <1>19, <1>20,
     <1>21, <1>22, <1>23, <1>24, <1>25, <1>26, <1>27, <1>28
     DEF Next, Dashboard, Clock, Cycle

(* The queue starts empty and the consumer starts down.                     *)
LEMMA InitIInv == Init => IInv
<1> SUFFICES ASSUME Init PROVE IInv
  OBVIOUS
<1> USE EmptyRow DEF Init, QueueInit
<1>1. TypeOK
  BY DEF TypeOK, Steps, Many
<1>2. CyclePhase /\ EffectsAccounted
  BY DEF CyclePhase, Working, EffectsAccounted
<1>3. PhaseMatchesRemote /\ BudgetRespected
  BY MaxAttemptsAssumption DEF PhaseMatchesRemote, BudgetRespected
<1>4. BytesSentOnce /\ PublishedOnceUnlessLost
  BY DEF BytesSentOnce, PublishedOnceUnlessLost
<1>5. QED
  BY <1>1, <1>2, <1>3, <1>4 DEF IInv

(* The inductive invariant holds throughout, for every set of videos, every *)
(* budget, and whether or not the status file can fail.                     *)
THEOREM InductiveInvariant == Spec => []IInv
<1>1. IInv /\ [Next]_vars => IInv'
  BY TypeStep, PhaseStep, RemoteStep, BudgetStep, EffectsStep, OnceStep DEF IInv
<1>2. QED
  BY <1>1, InitIInv, PTL DEF Spec

(* Every variable keeps its type.                                           *)
THEOREM TypeCorrect == Spec => []TypeOK
<1>1. IInv => TypeOK
  BY DEF IInv
<1>2. QED
  BY <1>1, InductiveInvariant, PTL

(* A row waits for, or is being, published only with its bytes on the CDN.  *)
THEOREM RemoteCorrect == Spec => []PhaseMatchesRemote
<1>1. IInv => PhaseMatchesRemote
  BY DEF IInv
<1>2. QED
  BY <1>1, InductiveInvariant, PTL

(* Bytes are sent again only after the answer of the first upload was lost. *)
THEOREM EffectsOnce == Spec => []BytesSentOnce
<1>1. IInv => BytesSentOnce
  BY DEF IInv
<1>2. QED
  BY <1>1, InductiveInvariant, PTL

(* A video is submitted again only after the answer of the first submission *)
(* was lost.                                                                *)
THEOREM PublishedOnce == Spec => []PublishedOnceUnlessLost
<1>1. IInv => PublishedOnceUnlessLost
  BY DEF IInv
<1>2. QED
  BY <1>1, InductiveInvariant, PTL

(* A row that may still be tried has attempts left.                         *)
THEOREM BudgetCorrect == Spec => []BudgetRespected
<1>1. IInv => BudgetRespected
  BY DEF IInv
<1>2. QED
  BY <1>1, InductiveInvariant, PTL

-----------------------------------------------------------------------------
(* What the cycle may believe of its rows' numbers.                         *)

(* A row's number outlives every transaction but its deletion.              *)
LEMMA RowKeepsId ==
    ASSUME NEW row \in Row
    PROVE  /\ Restaged(row) \in Row /\ Restaged(row).id = row.id
           /\ Activated(row) \in Row /\ Activated(row).id = row.id
           /\ Requeued(row) \in Row /\ Requeued(row).id = row.id
           /\ Claimed(row) \in Row /\ Claimed(row).id = row.id
           /\ Completed(row) \in Row /\ Completed(row).id = row.id
           /\ Published(row) \in Row /\ Published(row).id = row.id
           /\ Failed(row) \in Row /\ Failed(row).id = row.id
           /\ Retried(row) \in Row /\ Retried(row).id = row.id
           /\ Deferred(row) \in Row /\ Deferred(row).id = row.id
           /\ Elapsed(row) \in Row /\ Elapsed(row).id = row.id
           /\ Recovered(row) \in Row /\ Recovered(row).id = row.id
<1>1. /\ Restaged(row).id = row.id
      /\ Activated(row).id = row.id
      /\ Requeued(row).id = row.id
      /\ Claimed(row).id = row.id
      /\ Completed(row).id = row.id
      /\ Published(row).id = row.id
      /\ Failed(row).id = row.id
      /\ Retried(row).id = row.id
      /\ Deferred(row).id = row.id
      /\ Elapsed(row).id = row.id
      /\ Recovered(row).id = row.id
  BY DEF Row, Restaged, Activated, Requeued, Claimed, Completed, Published, Failed,
         Retried, Deferred, Elapsed, Recovered
<1>2. /\ Restaged(row) \in Row
      /\ Activated(row) \in Row
      /\ Requeued(row) \in Row
      /\ Claimed(row) \in Row
      /\ Completed(row) \in Row
      /\ Published(row) \in Row
      /\ Failed(row) \in Row
      /\ Retried(row) \in Row
      /\ Deferred(row) \in Row
      /\ Elapsed(row) \in Row
      /\ Recovered(row) \in Row
  BY RowFacts
<1>3. QED
  BY <1>1, <1>2

(* A transaction that keeps its row's number keeps every row's.             *)
LEMMA UpdateKeepsIds ==
    ASSUME TypeOK, NEW v \in Videos, NEW row \in Row, row.id = queue[v].id, Update(v, row)
    PROVE  \A w \in Videos : Present(w)' => Present(w) /\ queue'[w].id = queue[w].id
BY DEF TypeOK, Row, Update, Present

(* A step numbers one new row with the counter, or no row at all.           *)
LEMMA IdsMove ==
    ASSUME TypeOK, CyclePhase, [Next]_vars
    PROVE  \/ /\ UNCHANGED nextId
              /\ \A v \in Videos :
                    Present(v)' => Present(v) /\ queue'[v].id = queue[v].id
           \/ \E v \in Videos, status \in {"staged", "queued"} :
                 ~Present(v) /\ Insert(v, status)
<1> DEFINE Kept == /\ UNCHANGED nextId
                   /\ \A v \in Videos :
                         Present(v)' => Present(v) /\ queue'[v].id = queue[v].id
           Rewritten == /\ UNCHANGED nextId
                        /\ \E v \in Videos, row \in Row :
                              row.id = queue[v].id /\ Update(v, row)
           Numbered == \E v \in Videos, status \in {"staged", "queued"} :
                          ~Present(v) /\ Insert(v, status)
<1>1. Rewritten => Kept
  BY UpdateKeepsIds
<1>2. UNCHANGED queue /\ UNCHANGED nextId => Kept
  BY DEF Present
<1> SUFFICES Kept \/ Rewritten \/ Numbered
  BY <1>1
<1>3. \A v \in Videos :
         /\ queue[v] \in Row
         /\ \A row \in Row : row.id = queue[v].id /\ Update(v, row) /\ UNCHANGED nextId
               => Rewritten
  BY DEF TypeOK
<1>4. \A v \in Videos, status \in {"staged", "queued"} :
         ~Present(v) /\ Insert(v, status) => Numbered
  OBVIOUS
<1>5. item \in Videos \/ pc \notin Working
  BY DEF CyclePhase
<1>6. pc = "load" => peeked \in Videos
  BY DEF CyclePhase
<1> HIDE DEF Rewritten, Kept, Numbered
<1> USE RowKeepsId
<1>7. CASE Dashboard \/ Clock
  <2> SUFFICES ASSUME NEW v \in Videos,
                      \/ Stage(v) \/ Approve(v) \/ Enqueue(v) \/ RetryUpload(v)
                      \/ Withdraw(v) \/ TimePasses(v)
               PROVE  Kept \/ Rewritten \/ Numbered
    BY <1>7 DEF Dashboard, Clock
  <2>1. CASE Approve(v) \/ RetryUpload(v) \/ TimePasses(v)
    BY <1>3, <2>1 DEF Approve, ActivateStaged, RetryUpload, RequeueFailed,
                      TimePasses, BackoffElapses
  <2>2. CASE Withdraw(v)
    <3>1. \A w \in Videos : w = v \/ queue'[w] = queue[w]
      BY <2>2 DEF Withdraw, WithdrawStaged, TypeOK
    <3>2. queue'[v].status = "none" /\ UNCHANGED nextId
      BY <2>2 DEF Withdraw, WithdrawStaged, NoRow, TypeOK
    <3>3. QED
      BY <3>1, <3>2 DEF Kept, Present
  <2>3. CASE Stage(v)
    BY <1>3, <1>4, <2>3 DEF Stage, StageUpload
  <2>4. CASE Enqueue(v)
    BY <1>4, <2>4 DEF Enqueue, InsertUpload
  <2>5. QED
    BY <2>1, <2>2, <2>3, <2>4
<1>8. CASE Start
  <2>1. \A v \in Videos : queue'[v] = Recovered(queue[v]) /\ queue[v] \in Row
    BY <1>8 DEF Start, RecoverQueue, TypeOK
  <2>2. \A v \in Videos : queue[v].status = "none" => queue'[v].status = "none"
    BY <2>1 DEF Recovered
  <2>3. \A v \in Videos : queue'[v].id = queue[v].id
    BY <2>1
  <2>4. QED
    BY <1>8, <2>2, <2>3 DEF Start, Kept, Present
<1>9. CASE Stop \/ Crash \/ UNCHANGED vars
  BY <1>2, <1>9 DEF Stop, Crash, vars, queueVars
<1>10. CASE \/ Peek \/ CheckLogin \/ UploadFile \/ UploadRaises \/ SubmitAccepted
            \/ SubmitRaises \/ RecordRaises \/ Cleanup \/ Report \/ ReportRaises
  BY <1>2, <1>10 DEF Peek, CheckLogin, UploadFile, UploadRaises, SubmitAccepted,
              SubmitRaises, RecordRaises, Cleanup, Report, ReportRaises, queueVars
<1>11. CASE LoadMetadata
  BY <1>2, <1>3, <1>6, <1>11 DEF LoadMetadata
<1>12. CASE Claim
  BY <1>2, <1>3, <1>12 DEF Claim
<1>13. CASE Reclaim
  BY <1>2, <1>3, <1>13 DEF Reclaim
<1>14. CASE \/ RecordUpload \/ SubmitWithoutBvid \/ SubmitRejected
            \/ RecordPublished \/ HandleException
  <2>1. pc \in Working
    BY <1>14 DEF Working, RecordUpload, SubmitWithoutBvid, SubmitRejected,
                 RecordPublished, HandleException
  <2>2. QED
    BY <1>3, <1>5, <1>14, <2>1
       DEF RecordUpload, SubmitWithoutBvid, SubmitRejected, RecordPublished,
           HandleException
<1>15. QED
  BY <1>7, <1>8, <1>9, <1>10, <1>11, <1>12, <1>13, <1>14 DEF Next, Cycle

(* Present rows keep different numbers, all below the counter.              *)
LEMMA NumbersStep ==
    TypeOK /\ CyclePhase /\ RowsNumbered /\ [Next]_vars => RowsNumbered'
<1> SUFFICES ASSUME TypeOK, CyclePhase, RowsNumbered, [Next]_vars PROVE RowsNumbered'
  OBVIOUS
<1> USE DEF TypeOK, RowsNumbered, Row
<1>1. CASE /\ UNCHANGED nextId
           /\ \A v \in Videos : Present(v)' => Present(v) /\ queue'[v].id = queue[v].id
  BY <1>1
<1>2. ASSUME NEW v \in Videos, NEW status \in {"staged", "queued"}, Insert(v, status)
      PROVE  RowsNumbered'
  <2>1. /\ nextId' = nextId + 1 /\ queue'[v].id = nextId
        /\ \A w \in Videos \ {v} : queue'[w] = queue[w]
    BY <1>2 DEF Insert, NewRow, NoRow
  <2>2. \A w \in Videos \ {v} : Present(w)' => Present(w) /\ queue'[w].id < nextId
    BY <2>1 DEF Present
  <2>3. QED
    BY <2>1, <2>2 DEF Present
<1>3. QED
  BY <1>1, <1>2, IdsMove

(* The row peeked is not taken from the cycle, and the row it works on is   *)
(* not deleted before its outcome is written.                               *)
LEMMA HoldsStep ==
    TypeOK /\ CyclePhase /\ PhaseMatchesRemote /\ CycleHoldsRows /\ [Next]_vars
        => CycleHoldsRows'
<1> SUFFICES ASSUME TypeOK, CyclePhase, PhaseMatchesRemote, CycleHoldsRows, [Next]_vars
             PROVE  CycleHoldsRows'
  OBVIOUS
<1> USE RowFacts, UpdateOneRow
    DEF TypeOK, CyclePhase, PhaseMatchesRemote, CycleHoldsRows, Steps, Working,
        queueVars, workerVars, Present
<1>1. ASSUME NEW v \in Videos, Stage(v) PROVE CycleHoldsRows'
  <2>1. UNCHANGED <<pc, peeked, item>> /\ \A w \in Videos \ {v} : queue'[w] = queue[w]
    BY <1>1 DEF Stage, StageUpload, Insert
  <2>2. /\ queue[v].status \in {"none", "failed"}
        /\ queue'[v].status = "staged" /\ (queue[v].remote => queue'[v].remote)
    BY SMTT(30), <1>1, InsertedRow DEF Stage, StageUpload, Insert
  <2>3. QED
    BY <2>1, <2>2
<1>2. ASSUME NEW v \in Videos, Approve(v) PROVE CycleHoldsRows'
  BY <1>2 DEF Approve, ActivateStaged
<1>3. ASSUME NEW v \in Videos, Enqueue(v) PROVE CycleHoldsRows'
  BY <1>3, InsertedRow DEF Enqueue, InsertUpload, Insert
<1>4. ASSUME NEW v \in Videos, RetryUpload(v) PROVE CycleHoldsRows'
  BY <1>4 DEF RetryUpload, RequeueFailed
<1>5. ASSUME NEW v \in Videos, Withdraw(v) PROVE CycleHoldsRows'
  BY <1>5, EmptyRow DEF Withdraw, WithdrawStaged
<1>6. ASSUME NEW v \in Videos, TimePasses(v) PROVE CycleHoldsRows'
  BY <1>6 DEF TimePasses, BackoffElapses
<1>7. CASE Start
  BY <1>7 DEF Start
<1>8. CASE Stop
  BY <1>8 DEF Stop, Forget
<1>9. CASE Crash
  BY <1>9 DEF Crash, Forget
<1>10. CASE Peek
  BY <1>10 DEF Peek, IsNext, Due
<1>11. CASE LoadMetadata
  BY <1>11 DEF LoadMetadata
<1>12. CASE CheckLogin
  BY <1>12 DEF CheckLogin
<1>13. CASE Claim
  BY <1>13 DEF Claim, IsNext, Due
<1>14. CASE UploadFile
  BY <1>14 DEF UploadFile
<1>15. CASE UploadRaises
  BY <1>15 DEF UploadRaises
<1>16. CASE RecordUpload
  BY <1>16 DEF RecordUpload
<1>17. CASE Reclaim
  BY <1>17 DEF Reclaim, IsNext, Due
<1>18. CASE SubmitAccepted
  BY <1>18 DEF SubmitAccepted
<1>19. CASE SubmitWithoutBvid
  BY <1>19 DEF SubmitWithoutBvid
<1>20. CASE SubmitRejected
  BY <1>20 DEF SubmitRejected
<1>21. CASE SubmitRaises
  BY <1>21 DEF SubmitRaises
<1>22. CASE RecordPublished
  BY <1>22 DEF RecordPublished
<1>23. CASE RecordRaises
  BY <1>23 DEF RecordRaises
<1>24. CASE Cleanup
  BY <1>24 DEF Cleanup
<1>25. CASE HandleException
  BY <1>25 DEF HandleException
<1>26. CASE Report
  BY <1>26 DEF Report, Forget
<1>27. CASE ReportRaises
  BY <1>27 DEF ReportRaises
<1>28. CASE UNCHANGED vars
  BY <1>28 DEF vars
<1>29. QED
  BY <1>1, <1>2, <1>3, <1>4, <1>5, <1>6, <1>7, <1>8, <1>9, <1>10, <1>11,
     <1>12, <1>13, <1>14, <1>15, <1>16, <1>17, <1>18, <1>19, <1>20, <1>21, <1>22,
     <1>23, <1>24, <1>25, <1>26, <1>27, <1>28
     DEF Next, Dashboard, Clock, Cycle

(* A row that is claimed although another was peeked has the smaller number *)
(* of the two, and both keep their numbers as long as the cycle needs them. *)
LEMMA OvertakeStep ==
    IInv /\ OrderInv /\ [Next]_vars => OnlyOlderRowsOvertake'
<1> SUFFICES ASSUME IInv, OrderInv, [Next]_vars PROVE OnlyOlderRowsOvertake'
  OBVIOUS
<1> USE DEF IInv, OrderInv, TypeOK
<1>1. CASE Claim
  <2> SUFFICES ASSUME NEW v \in Videos, IsNext(v), Update(v, Claimed(queue[v])),
                      item' = v, peeked # v
               PROVE  queue'[v].id < queue'[peeked].id
    BY <1>1 DEF Claim, OnlyOlderRowsOvertake, Working
  <2>1. pc = "claim" /\ peeked' = peeked
    BY <1>1 DEF Claim
  <2>2. /\ peeked \in Videos /\ Due(peeked)
        /\ queue[peeked].status \in {"queued", "uploaded"}
    BY <2>1 DEF CyclePhase, CycleHoldsRows, Due
  <2>3. Present(v) /\ Present(peeked)
    BY <2>2 DEF IsNext, Due, Present
  <2>4. queue[v].id <= queue[peeked].id /\ queue[v].id # queue[peeked].id
    BY <2>2, <2>3 DEF IsNext, RowsNumbered
  <2>5. queue'[v].id = queue[v].id /\ queue'[peeked].id = queue[peeked].id
    BY <2>2, <2>3, RowKeepsId DEF Update
  <2>6. queue[v].id \in Nat /\ queue[peeked].id \in Nat
    BY <2>2 DEF Row
  <2>7. QED
    BY <2>4, <2>5, <2>6
<1>2. CASE ~Claim
  <2>1. SUFFICES ASSUME pc' \in Working \ {"reportLast"}, item' # peeked'
                 PROVE  queue'[item'].id < queue'[peeked'].id
    BY DEF OnlyOlderRowsOvertake
  <2>2. /\ pc \in Working \ {"reportLast"} /\ item' = item /\ peeked' = peeked
        /\ item \in Videos /\ peeked \in Videos
    <3>1. UNCHANGED <<item, peeked>> /\ pc \in Working \ {"reportLast"}
      BY <1>2, <2>1 DEF Next, Dashboard, Clock, Cycle, Working, Steps, workerVars,
           Stage, Approve, Enqueue, RetryUpload, Withdraw, TimePasses, Start, Stop,
           Crash, Forget, Peek, LoadMetadata, CheckLogin, UploadFile, UploadRaises,
           RecordUpload, Reclaim, SubmitAccepted, SubmitWithoutBvid, SubmitRejected,
           SubmitRaises, RecordPublished, RecordRaises, Cleanup, HandleException,
           Report, ReportRaises, vars
    <3>2. QED
      BY <3>1 DEF CyclePhase, CycleHoldsRows
  <2>3. queue[item].id < queue[peeked].id
    BY <2>1, <2>2 DEF OnlyOlderRowsOvertake
  <2>4. Present(item) /\ Present(peeked)
    BY <2>1, <2>2 DEF CyclePhase, CycleHoldsRows, Working, Present
  <2>5. Present(item)' /\ Present(peeked)'
    <3>1. CyclePhase' /\ CycleHoldsRows'
      BY PhaseStep, HoldsStep
    <3>2. QED
      BY <2>1, <2>2, <3>1 DEF CyclePhase, CycleHoldsRows, Working, Present
  <2>6. queue'[item].id = queue[item].id /\ queue'[peeked].id = queue[peeked].id
    <3>1. CASE \A v \in Videos : Present(v)' => Present(v) /\ queue'[v].id = queue[v].id
      BY <2>2, <2>5, <3>1
    <3>2. ASSUME NEW v \in Videos, NEW status \in {"staged", "queued"},
                 ~Present(v), Insert(v, status)
          PROVE  queue'[item] = queue[item] /\ queue'[peeked] = queue[peeked]
      BY <2>2, <2>4, <3>2 DEF Insert
    <3>3. QED
      BY <3>1, <3>2, IdsMove
  <2>7. QED
    BY <2>2, <2>3, <2>6
<1>3. QED
  BY <1>1, <1>2

(* Rows are numbered apart, and a cycle holds on to the rows it knows.      *)
THEOREM OrderInvariant == Spec => []OrderInv
<1>1. Init => OrderInv
  BY EmptyRow DEF Init, QueueInit, OrderInv, RowsNumbered, CycleHoldsRows,
                  OnlyOlderRowsOvertake, Present, Working
<1>2. IInv /\ OrderInv /\ [Next]_vars => OrderInv'
  BY NumbersStep, HoldsStep, OvertakeStep DEF IInv, OrderInv
<1>3. QED
  BY <1>1, <1>2, InductiveInvariant, PTL DEF Spec

(* A cycle works on another row than the one it peeked only if that row has *)
(* the smaller number: it came due in between (claim_next_upload).          *)
THEOREM OvertakenByOlder == Spec => []OnlyOlderRowsOvertake
<1>1. OrderInv => OnlyOlderRowsOvertake
  BY DEF OrderInv
<1>2. QED
  BY <1>1, OrderInvariant, PTL

-----------------------------------------------------------------------------
(* What holds when the status file can always be written.                   *)

(* No step brings a row out of staging but a release, and staging takes the *)
(* release back.                                                            *)
LEMMA ReleaseStep ==
    ASSUME ~StatusFileMayFail
    PROVE  TypeOK /\ CyclePhase /\ OutMeansApproved /\ [Next]_vars => OutMeansApproved'
<1> SUFFICES ASSUME TypeOK, CyclePhase, OutMeansApproved, [Next]_vars PROVE OutMeansApproved'
  OBVIOUS
<1> USE RowFacts, UpdateOneRow DEF TypeOK, CyclePhase, OutMeansApproved, Steps, Working, queueVars, workerVars, history, platform
<1>1. ASSUME NEW v \in Videos, Stage(v) PROVE OutMeansApproved'
  BY <1>1, InsertedRow DEF Stage, StageUpload, Insert, Present
<1>2. ASSUME NEW v \in Videos, Approve(v) PROVE OutMeansApproved'
  BY <1>2 DEF Approve, ActivateStaged, Present
<1>3. ASSUME NEW v \in Videos, Enqueue(v) PROVE OutMeansApproved'
  BY <1>3, InsertedRow DEF Enqueue, InsertUpload, Insert, Present
<1>4. ASSUME NEW v \in Videos, RetryUpload(v) PROVE OutMeansApproved'
  BY <1>4 DEF RetryUpload, RequeueFailed, Present
<1>5. ASSUME NEW v \in Videos, Withdraw(v) PROVE OutMeansApproved'
  BY <1>5, EmptyRow DEF Withdraw, WithdrawStaged
<1>6. ASSUME NEW v \in Videos, TimePasses(v) PROVE OutMeansApproved'
  BY <1>6 DEF TimePasses, BackoffElapses, Present
<1>7. CASE Start
  BY SMTT(30), <1>7 DEF Start, RecoverQueue
<1>8. CASE Stop
  BY <1>8 DEF Stop, Forget
<1>9. CASE Crash
  BY <1>9 DEF Crash, Forget
<1>10. CASE Peek
  BY <1>10 DEF Peek, IsNext, Due
<1>11. CASE LoadMetadata
  BY <1>11 DEF LoadMetadata, Present
<1>12. CASE CheckLogin
  BY <1>12 DEF CheckLogin
<1>13. CASE Claim
  BY <1>13 DEF Claim, IsNext, Due, Present
<1>14. CASE UploadFile
  BY <1>14 DEF UploadFile, Count, Many
<1>15. CASE UploadRaises
  BY <1>15 DEF UploadRaises, Count, Many
<1>16. CASE RecordUpload
  BY <1>16 DEF RecordUpload, Present
<1>17. CASE Reclaim
  BY <1>17 DEF Reclaim, IsNext, Due, Present
<1>18. CASE SubmitAccepted
  BY <1>18 DEF SubmitAccepted, Count, Many
<1>19. CASE SubmitWithoutBvid
  BY <1>19 DEF SubmitWithoutBvid, Present, Count, Many
<1>20. CASE SubmitRejected
  BY <1>20 DEF SubmitRejected, Present
<1>21. CASE SubmitRaises
  BY <1>21 DEF SubmitRaises, Count, Many
<1>22. CASE RecordPublished
  BY <1>22 DEF RecordPublished, Present
<1>23. CASE RecordRaises
  BY <1>23 DEF RecordRaises
<1>24. CASE Cleanup
  BY <1>24 DEF Cleanup
<1>25. CASE HandleException
  BY <1>25 DEF HandleException, Present
<1>26. CASE Report
  BY <1>26 DEF Report, Forget
<1>27. CASE ReportRaises
  BY <1>27 DEF ReportRaises
<1>28. CASE UNCHANGED vars
  BY <1>28 DEF vars, workerVars
<1>29. QED
  BY <1>1, <1>2, <1>3, <1>4, <1>5, <1>6, <1>7, <1>8, <1>9, <1>10, <1>11,
     <1>12, <1>13, <1>14, <1>15, <1>16, <1>17, <1>18, <1>19, <1>20,
     <1>21, <1>22, <1>23, <1>24, <1>25, <1>26, <1>27, <1>28
     DEF Next, Dashboard, Clock, Cycle

(* When the status file can be written, a row is out of staging only if it  *)
(* was released since.                                                      *)
THEOREM ReleaseCorrect ==
    ASSUME ~StatusFileMayFail
    PROVE  Spec => []OutMeansApproved
<1>1. Init => OutMeansApproved
  BY EmptyRow DEF Init, QueueInit, OutMeansApproved
<1>2. IInv /\ OutMeansApproved /\ [Next]_vars => OutMeansApproved'
  BY ReleaseStep DEF IInv
<1>3. QED
  BY <1>1, <1>2, InductiveInvariant, PTL DEF Spec

(* Then nothing is sent or submitted before its release.                    *)
THEOREM NothingUnapproved ==
    ASSUME ~StatusFileMayFail
    PROVE  Spec => NothingUnapprovedLeaves
<1> DEFINE Leaves == \A v \in Videos :
      (sent[v]' # sent[v] \/ accepted[v]' # accepted[v]) => v \in approved
<1>1. IInv /\ OutMeansApproved /\ [Next]_vars => [Leaves]_vars
  <2> SUFFICES ASSUME IInv, OutMeansApproved, Next PROVE Leaves
    OBVIOUS
  <2> USE DEF IInv, TypeOK, CyclePhase, Working, OutMeansApproved, history, platform
  <2>1. CASE Dashboard \/ Clock \/ Start \/ Stop \/ Crash
    BY <2>1 DEF Dashboard, Clock, Stage, Approve, Enqueue, RetryUpload, Withdraw,
                TimePasses, Start, Stop, Crash
  <2>2. CASE UploadFile \/ UploadRaises
    BY <2>2 DEF UploadFile, UploadRaises
  <2>3. CASE SubmitAccepted \/ SubmitWithoutBvid \/ SubmitRaises
    BY <2>3 DEF SubmitAccepted, SubmitWithoutBvid, SubmitRaises
  <2>4. CASE Peek \/ LoadMetadata \/ CheckLogin \/ Claim \/ RecordUpload \/ Reclaim
             \/ SubmitRejected \/ RecordPublished \/ RecordRaises \/ Cleanup
             \/ HandleException \/ Report \/ ReportRaises
    BY <2>4 DEF Peek, LoadMetadata, CheckLogin, Claim, RecordUpload, Reclaim,
                SubmitRejected, RecordPublished, RecordRaises, Cleanup,
                HandleException, Report, ReportRaises
  <2>5. QED
    BY <2>1, <2>2, <2>3, <2>4 DEF Next, Cycle
<1>2. Spec => []OutMeansApproved
  BY ReleaseCorrect
<1>3. QED
  BY <1>1, <1>2, InductiveInvariant, PTL DEF Spec, NothingUnapprovedLeaves

-----------------------------------------------------------------------------
(* The queue and its consumer implement UploadLedger as long as the status  *)
(* file can be written.  Every transaction rewrites one row, so each step   *)
(* is shown to move one video of the ledger, or none.                       *)

(* A transaction that rewrites v's row moves v in the ledger, and no other. *)
LEMMA RowMoves ==
    ASSUME TypeOK, NEW v \in Videos, NEW row \in Row,
           queue' = [queue EXCEPT ![v] = row], row.remote = queue[v].remote,
           NEW from, LedgerPhase(queue[v]) \in from
    PROVE  Ledger!Move(v, from, LedgerPhase(row))
<1> USE DEF TypeOK, Row
<1>1. [w \in Videos |-> LedgerPhase(queue'[w])] =
        [[w \in Videos |-> LedgerPhase(queue[w])] EXCEPT ![v] = LedgerPhase(row)]
  OBVIOUS
<1>2. [w \in Videos |-> queue'[w].remote] = [w \in Videos |-> queue[w].remote]
  OBVIOUS
<1>3. QED
  BY <1>1, <1>2 DEF Ledger!Move

(* A transaction that leaves v in its phase is invisible in the ledger.     *)
LEMMA RowStays ==
    ASSUME TypeOK, NEW v \in Videos, NEW row \in Row,
           queue' = [queue EXCEPT ![v] = row], row.remote = queue[v].remote,
           LedgerPhase(row) = LedgerPhase(queue[v])
    PROVE  UNCHANGED Ledger!ledger
<1> USE DEF TypeOK, Row
<1>1. [w \in Videos |-> LedgerPhase(queue'[w])] = [w \in Videos |-> LedgerPhase(queue[w])]
  OBVIOUS
<1>2. [w \in Videos |-> queue'[w].remote] = [w \in Videos |-> queue[w].remote]
  OBVIOUS
<1>3. QED
  BY <1>1, <1>2 DEF Ledger!ledger

(* Retrying, deferring or failing an open row gives it up or leaves it.     *)
LEMMA OpenRowRewritten ==
    ASSUME TypeOK, NEW v \in Videos, NEW row \in Row, Update(v, row),
           LedgerPhase(queue[v]) = "open", row.remote = queue[v].remote,
           LedgerPhase(row) \in {"open", "dead"}
    PROVE  UNCHANGED Ledger!ledger \/ Ledger!GiveUp(v)
<1>1. queue' = [queue EXCEPT ![v] = row]
  BY DEF Update, Present, LedgerPhase
<1>2. CASE LedgerPhase(row) = "open"
  BY <1>1, <1>2, RowStays
<1>3. CASE LedgerPhase(row) = "dead"
  BY <1>1, <1>3, RowMoves DEF Ledger!GiveUp
<1>4. QED
  BY <1>2, <1>3

-----------------------------------------------------------------------------

(* A step of the dashboard or the clock moves one video of the ledger.      *)
LEMMA DashboardMoves ==
    ASSUME IInv, NEW v \in Videos,
           \/ Stage(v) \/ Approve(v) \/ Enqueue(v) \/ RetryUpload(v)
           \/ Withdraw(v) \/ TimePasses(v)
    PROVE  UNCHANGED Ledger!ledger \/ Ledger!LedgerNext
<1> USE DEF IInv, TypeOK
<1> DEFINE row == queue[v]
<1>1. row \in Row
  OBVIOUS
<1>2. TypeOK /\ PhaseMatchesRemote
  OBVIOUS
<1>3. CASE Stage(v)
  <2>1. CASE ~Present(v) /\ Insert(v, "staged")
    <3>1. /\ NewRow("staged") \in Row /\ ~NewRow("staged").remote
          /\ NewRow("staged").status = "staged"
      BY <1>2, InsertedRow
    <3>2. queue' = [queue EXCEPT ![v] = NewRow("staged")] /\ ~row.remote
      BY <1>1, <2>1 DEF Insert, Present, PhaseMatchesRemote
    <3>3. LedgerPhase(row) \in {"none", "dead"} /\ LedgerPhase(NewRow("staged")) = "held"
      BY <2>1, <3>1 DEF Present, LedgerPhase
    <3>4. NewRow("staged").remote = row.remote
      BY <1>1, <3>1, <3>2 DEF Row
    <3>5. Ledger!Hold(v)
      BY <1>2, <3>1, <3>2, <3>3, <3>4, RowMoves DEF Ledger!Hold
    <3>6. QED
      BY <3>5 DEF Ledger!LedgerNext
  <2>2. CASE row.status = "failed" /\ Update(v, Restaged(row))
    <3>1. queue' = [queue EXCEPT ![v] = Restaged(row)]
      BY <2>2 DEF Update, Present
    <3>2. LedgerPhase(row) \in {"none", "dead"} /\ LedgerPhase(Restaged(row)) = "held"
      BY <1>1, <2>2, RowFacts DEF LedgerPhase
    <3>3. Restaged(row) \in Row /\ Restaged(row).remote = row.remote
      BY <1>1, RowFacts
    <3>4. Ledger!Hold(v)
      BY <1>2, <3>1, <3>2, <3>3, RowMoves DEF Ledger!Hold
    <3>5. QED
      BY <3>4 DEF Ledger!LedgerNext
  <2>3. QED
    BY <1>3, <2>1, <2>2 DEF Stage, StageUpload
<1>4. CASE Approve(v)
  <2>1. queue' = [queue EXCEPT ![v] = Activated(row)]
    BY <1>4 DEF Approve, ActivateStaged, Update, Present
  <2>2. LedgerPhase(row) \in {"held"} /\ LedgerPhase(Activated(row)) = "open"
    BY <1>1, <1>4, RowFacts DEF Approve, ActivateStaged, LedgerPhase
  <2>3. Activated(row) \in Row /\ Activated(row).remote = row.remote
    BY <1>1, RowFacts
  <2>4. Ledger!Release(v)
    BY <1>2, <2>1, <2>2, <2>3, RowMoves DEF Ledger!Release
  <2>5. QED
    BY <2>4 DEF Ledger!LedgerNext
<1>5. CASE Enqueue(v)
  <2>1. /\ NewRow("queued") \in Row /\ ~NewRow("queued").remote
        /\ NewRow("queued").status = "queued"
    BY <1>2, InsertedRow
  <2>2. queue' = [queue EXCEPT ![v] = NewRow("queued")] /\ ~row.remote
    BY <1>1, <1>5 DEF Enqueue, InsertUpload, Insert, Present, PhaseMatchesRemote
  <2>3. LedgerPhase(row) \in {"none"} /\ LedgerPhase(NewRow("queued")) = "open"
    BY <1>5, <2>1 DEF Enqueue, InsertUpload, Present, LedgerPhase
  <2>4. NewRow("queued").remote = row.remote
    BY <1>1, <2>1, <2>2 DEF Row
  <2>5. Ledger!Admit(v)
    BY <1>2, <2>1, <2>2, <2>3, <2>4, RowMoves DEF Ledger!Admit
  <2>6. QED
    BY <2>5 DEF Ledger!LedgerNext
<1>6. CASE RetryUpload(v)
  <2>1. queue' = [queue EXCEPT ![v] = Requeued(row)] /\ ~row.remote
    BY <1>6 DEF RetryUpload, RequeueFailed, Update, Present
  <2>2. LedgerPhase(row) \in {"dead"} /\ LedgerPhase(Requeued(row)) = "open"
    BY <1>1, <1>6, RowFacts DEF RetryUpload, RequeueFailed, LedgerPhase
  <2>3. Requeued(row) \in Row /\ Requeued(row).remote = row.remote
    BY <1>1, RowFacts
  <2>4. Ledger!Revive(v)
    BY <1>2, <2>1, <2>2, <2>3, RowMoves DEF Ledger!Revive
  <2>5. QED
    BY <2>4 DEF Ledger!LedgerNext
<1>7. CASE Withdraw(v)
  <2>1. queue' = [queue EXCEPT ![v] = NoRow] /\ ~row.remote
    BY <1>7 DEF Withdraw, WithdrawStaged
  <2>2. LedgerPhase(row) \in {"held"} /\ LedgerPhase(NoRow) = "none"
    BY <1>7, EmptyRow DEF Withdraw, WithdrawStaged, LedgerPhase
  <2>3. NoRow.remote = row.remote
    BY <1>1, <2>1, EmptyRow DEF Row, NoRow
  <2>4. NoRow \in Row /\ TypeOK
    BY <1>2, EmptyRow
  <2>5. Ledger!Move(v, {"held"}, "none")
    BY ONLY ZenonT(60), <2>1, <2>2, <2>3, <2>4, RowMoves
  <2>6. Ledger!Drop(v)
    BY <2>1, <2>5 DEF Ledger!Drop
  <2>7. QED
    BY <2>6 DEF Ledger!LedgerNext
<1>8. CASE TimePasses(v)
  <2>1. /\ LedgerPhase(Elapsed(row)) = LedgerPhase(row)
        /\ Elapsed(row) \in Row /\ Elapsed(row).remote = row.remote
    BY <1>1, RowFacts DEF LedgerPhase
  <2>2. queue' = [queue EXCEPT ![v] = Elapsed(row)] \/ queue' = queue
    BY <1>8 DEF TimePasses, BackoffElapses, Update
  <2>3. CASE queue' = [queue EXCEPT ![v] = Elapsed(row)]
    BY <1>2, <2>1, <2>3, RowStays
  <2>4. CASE queue' = queue
    BY <2>4 DEF Ledger!ledger
  <2>5. QED
    BY <2>2, <2>3, <2>4
<1>9. QED
  BY <1>3, <1>4, <1>5, <1>6, <1>7, <1>8

(* A restart brings interrupted rows back, in the phase they had.           *)
LEMMA StartStutters == ASSUME IInv, Start PROVE UNCHANGED Ledger!ledger
<1> USE DEF IInv, TypeOK, Start, RecoverQueue
<1>1. \A v \in Videos : queue[v] \in Row /\ queue'[v] = Recovered(queue[v])
  OBVIOUS
<1>2. \A row \in Row : LedgerPhase(Recovered(row)) = LedgerPhase(row)
  BY RowFacts DEF LedgerPhase
<1>3. \A v \in Videos : /\ LedgerPhase(queue'[v]) = LedgerPhase(queue[v])
                        /\ queue'[v].remote = queue[v].remote
  BY <1>1, <1>2, RowFacts
<1>4. QED
  BY <1>3 DEF Ledger!ledger

(* A step of the cycle stores the bytes of its row, publishes it, gives it  *)
(* up, or leaves the ledger as it is.                                       *)
LEMMA CycleMoves ==
    ASSUME ~StatusFileMayFail, IInv, Cycle
    PROVE  UNCHANGED Ledger!ledger \/ Ledger!LedgerNext
<1> USE DEF IInv, TypeOK, CyclePhase, Working
<1>1. TypeOK /\ PhaseMatchesRemote
  OBVIOUS
<1>2. SUFFICES \/ UNCHANGED queue
               \/ \E v \in Videos, row \in Row :
                    /\ Update(v, row)
                    /\ LedgerPhase(queue[v]) = "open"
                    /\ LedgerPhase(row) \in {"open", "dead"}
                    /\ row.remote = queue[v].remote
               \/ RecordUpload \/ RecordPublished
  <2>1. CASE UNCHANGED queue
    BY <2>1 DEF Ledger!ledger
  <2>2. CASE \E v \in Videos, row \in Row :
               /\ Update(v, row)
               /\ LedgerPhase(queue[v]) = "open"
               /\ LedgerPhase(row) \in {"open", "dead"}
               /\ row.remote = queue[v].remote
    BY <1>1, <2>2, OpenRowRewritten DEF Ledger!LedgerNext
  <2>3. CASE RecordUpload
    <3>1. item \in Videos /\ queue[item] \in Row /\ queue[item].status = "uploading"
      BY <2>3 DEF RecordUpload
    <3>2. queue' = [queue EXCEPT ![item] = Completed(queue[item])] /\ ~queue[item].remote
      BY <2>3, <3>1 DEF RecordUpload, Update, Present, PhaseMatchesRemote
    <3>3. LedgerPhase(queue[item]) = "open" /\ LedgerPhase(Completed(queue[item])) = "open"
      BY <3>1, RowFacts DEF LedgerPhase
    <3>4. [w \in Videos |-> LedgerPhase(queue'[w])] = [w \in Videos |-> LedgerPhase(queue[w])]
      BY <3>1, <3>2, <3>3
    <3>5. Completed(queue[item]).remote = TRUE
      BY <3>1 DEF Completed, Row
    <3>6. [w \in Videos |-> queue'[w].remote] =
            [[w \in Videos |-> queue[w].remote] EXCEPT ![item] = TRUE]
      BY <3>1, <3>2, <3>5
    <3>7. \E v \in Videos : Ledger!Store(v)
      BY <3>1, <3>2, <3>3, <3>4, <3>6 DEF Ledger!Store
    <3>8. QED
      BY <3>7 DEF Ledger!LedgerNext
  <2>4. CASE RecordPublished
    <3>1. item \in Videos /\ queue[item] \in Row /\ queue[item].status = "publishing"
      BY <2>4 DEF RecordPublished
    <3>2. queue' = [queue EXCEPT ![item] = Published(queue[item])] /\ queue[item].remote
      BY <2>4, <3>1 DEF RecordPublished, Update, Present, PhaseMatchesRemote
    <3>3. LedgerPhase(queue[item]) \in {"open"} /\ LedgerPhase(Published(queue[item])) = "done"
      BY <3>1, RowFacts DEF LedgerPhase
    <3>4. /\ Published(queue[item]) \in Row
          /\ Published(queue[item]).remote = queue[item].remote
      BY <3>1, RowFacts
    <3>5. Ledger!Move(item, {"open"}, "done")
      BY ZenonT(60), <1>1, <3>1, <3>2, <3>3, <3>4, RowMoves
    <3>6. Ledger!Publish(item)
      BY <3>1, <3>2, <3>5 DEF Ledger!Publish
    <3>7. QED
      BY <3>1, <3>6 DEF Ledger!LedgerNext
  <2>5. QED
    BY <2>1, <2>2, <2>3, <2>4
<1> USE RowFacts DEF LedgerPhase
<1>3. CASE LoadMetadata
  BY <1>3 DEF LoadMetadata
<1>4. CASE Claim
  BY <1>4 DEF Claim, IsNext, Due
<1>5. CASE Reclaim
  BY SMTT(30), <1>5 DEF Reclaim, IsNext, Due
<1>6. CASE SubmitWithoutBvid
  BY SMTT(30), <1>6 DEF SubmitWithoutBvid
<1>7. CASE SubmitRejected
  BY <1>7 DEF SubmitRejected
<1>8. CASE HandleException
  BY <1>8 DEF HandleException
<1>9. CASE \/ Peek \/ CheckLogin \/ UploadFile \/ UploadRaises \/ SubmitAccepted
           \/ SubmitRaises \/ RecordRaises \/ Cleanup \/ Report \/ ReportRaises
  BY <1>9 DEF Peek, CheckLogin, UploadFile, UploadRaises, SubmitAccepted,
              SubmitRaises, RecordRaises, Cleanup, Report, ReportRaises, queueVars
<1>10. QED
  BY <1>3, <1>4, <1>5, <1>6, <1>7, <1>8, <1>9 DEF Cycle

(* As long as the status file can be written, the queue, its producers and  *)
(* its consumer with every crash and restart implement the ledger: bytes    *)
(* are stored once and kept, publication follows storage and is final, and  *)
(* a held video waits for its release.                                      *)
THEOREM Refinement ==
    ASSUME ~StatusFileMayFail
    PROVE  Spec => ImplementsLedger
<1>1. Init => Ledger!LedgerInit
  BY EmptyRow DEF Init, QueueInit, Ledger!LedgerInit, LedgerPhase, NoRow
<1>2. IInv /\ [Next]_vars => [Ledger!LedgerNext]_(Ledger!ledger)
  <2> SUFFICES ASSUME IInv, [Next]_vars
               PROVE  UNCHANGED Ledger!ledger \/ Ledger!LedgerNext
    BY DEF Ledger!ledger
  <2>1. CASE Dashboard \/ Clock
    BY <2>1, DashboardMoves DEF Dashboard, Clock
  <2>2. CASE Start
    BY <2>2, StartStutters
  <2>3. CASE Cycle
    BY <2>3, CycleMoves
  <2>4. CASE Stop \/ Crash \/ UNCHANGED vars
    BY <2>4 DEF Stop, Crash, vars, queueVars, Ledger!ledger
  <2>5. QED
    BY <2>1, <2>2, <2>3, <2>4 DEF Next
<1>3. QED
  BY <1>1, <1>2, InductiveInvariant, PTL DEF Spec, ImplementsLedger, Ledger!LedgerSpec
=============================================================================
