------------------------- MODULE SegmentReviewProofs -------------------------
(***************************************************************************)
(* Theorems of SegmentReview, for any ranges, styles and manual subtitles, *)
(* on the Pi and on Windows.                                               *)
(***************************************************************************)
EXTENDS SegmentReview, TLAPS

USE DEF history, disk, At, Goto, Bumped, NoJobActive, RowKnown, NoJob, NewJob

Finalizing == {"render", "metadata", "ready", "withdraw", "stage", "succeed"}

(* The path and the status the worker remembers are some it may use.        *)
Reads ==
    /\ worker.at \in Finalizing => worker.plan \in Finals
    /\ At("succeed") => worker.status \in Publishing \cup {"staged"}
    /\ At("approved") => worker.status \in Publishing

RecordTypes ==
    /\ seg \in Segment
    /\ job \in Job
    /\ worker \in Worker
    /\ queue \in [Finals -> Q!Row]
    /\ Reads

(* What the names of sets stand for is only needed here.                    *)
LEMMA Members ==
    /\ Clip \in Finals
    /\ \A r \in Ranges, y \in Styles : [range |-> r, style |-> y] \in Finals
    /\ {"review", "judge_failed", "drop", "keep", "manual_keep"} \subseteq Judgements
    /\ Q!Statuses \ {"staged", "failed"} \subseteq Publishing
    /\ Spoken \in Subtitles /\ Texts \subseteq Subtitles
    /\ \A step \in {"idle", "claimed", "render", "metadata", "ready", "withdraw", "stage",
                     "succeed", "approved", "done", "raised"} : step \in Steps
    /\ {"finalize_segment", "render_segment", "retry_judge", "approve_publish",
        "create_missed_segment"} \subseteq Actions
<1>1. Clip \in Finals
  BY DEF Finals
<1>2. ASSUME NEW r \in Ranges, NEW y \in Styles PROVE [range |-> r, style |-> y] \in Finals
  BY DEF Finals, Cuts
<1>3. {"review", "judge_failed", "drop", "keep", "manual_keep"} \subseteq Judgements
  BY DEF Judgements, Decided, Kept
<1>4. Q!Statuses \ {"staged", "failed"} \subseteq Publishing
  BY DEF Q!Statuses, Publishing, InFlight
<1>5. Spoken \in Subtitles /\ Texts \subseteq Subtitles
  BY DEF Subtitles
<1>6. \A step \in {"idle", "claimed", "render", "metadata", "ready", "withdraw", "stage",
                  "succeed", "approved", "done", "raised"} : step \in Steps
  BY DEF Steps
<1>7. {"finalize_segment", "render_segment", "retry_judge", "approve_publish",
       "create_missed_segment"} \subseteq Actions
  BY DEF Actions
<1> QED
  BY <1>1, <1>2, <1>3, <1>4, <1>5, <1>6, <1>7

LEMMA IdleTyped == Idle \in Worker
BY Members DEF Idle, Worker

(* What an edit makes of a segment is a segment.                            *)
LEMMA EditedTypes ==
    ASSUME RecordTypes
    PROVE  /\ Invalidated \in Segment
           /\ \A s \in Segment, r \in Ranges : WithRange(s, r) \in Segment
           /\ \A r \in Ranges, y \in Styles, edited \in {{}} \cup {{t} : t \in Texts} :
                 Prepared(r, y, edited) \in Segment
<1>1. Invalidated \in Segment
  BY DEF RecordTypes, Segment, Invalidated
<1>2. ASSUME NEW s \in Segment, NEW r \in Ranges PROVE WithRange(s, r) \in Segment
  BY Members DEF Segment, WithRange
<1>3. ASSUME NEW r \in Ranges, NEW y \in Styles,
             NEW edited \in {{}} \cup {{t} : t \in Texts}
      PROVE  Prepared(r, y, edited) \in Segment
  <2> DEFINE ranged == WithRange(Invalidated, r)
             s == IF edited # {} THEN [ranged EXCEPT !.subs = CHOOSE t \in edited : TRUE,
                                                     !.burn = TRUE]
                                 ELSE ranged
  <2>1. ranged \in Segment
    BY <1>1, <1>2
  <2>2. edited # {} => (CHOOSE t \in edited : TRUE) \in Texts
    BY <1>3
  <2>3. s \in Segment
    BY <2>1, <2>2, Members DEF Segment
  <2>4. [range |-> r, style |-> y] \in Finals \cup {NoPath}
    BY Members
  <2>5. [s EXCEPT !.style = y, !.upload = "not_queued",
                  !.final = [range |-> r, style |-> y]] \in Segment
    <3> HIDE DEF s
    <3> QED
      BY <2>3, <2>4 DEF Segment
  <2> QED
    BY <2>5 DEF Prepared
<1> QED
  BY <1>1, <1>2, <1>3

(* Preparing keeps the verdict and the approval.                            *)
LEMMA PreparedKeeps ==
    ASSUME RecordTypes, NEW y \in Styles
    PROVE  /\ Prepared(seg.range, y, {}).approved = seg.approved
           /\ Prepared(seg.range, y, {}).judge = seg.judge
BY DEF RecordTypes, Segment, Prepared, WithRange, Invalidated

(* ... names the new final, remembers the old one, and leaves nothing queued. *)
LEMMA PreparedRemembers ==
    ASSUME RecordTypes, NEW r \in Ranges, NEW y \in Styles,
           NEW edited \in {{}} \cup {{t} : t \in Texts}
    PROVE  /\ Prepared(r, y, edited).final = CutOf(Prepared(r, y, edited))
           /\ seg.history \subseteq Prepared(r, y, edited).history
           /\ seg.final # NoPath => seg.final \in Prepared(r, y, edited).history
           /\ Prepared(r, y, edited).upload = "not_queued"
BY DEF RecordTypes, Segment, Prepared, WithRange, Invalidated, CutOf

LEMMA JudgedTypes ==
    ASSUME RecordTypes
    PROVE  /\ \A v \in Judgements :
                 [seg EXCEPT !.judge = v, !.upload = "not_queued"] \in Segment
           /\ [seg EXCEPT !.preview = TRUE, !.judge = "manual_keep",
                          !.upload = "not_queued"] \in Segment
<1>1. ASSUME NEW v \in Judgements
      PROVE  [seg EXCEPT !.judge = v, !.upload = "not_queued"] \in Segment
  BY <1>1 DEF RecordTypes, Segment
<1>2. [seg EXCEPT !.preview = TRUE, !.judge = "manual_keep", !.upload = "not_queued"] \in Segment
  BY Members DEF RecordTypes, Segment
<1> QED
  BY <1>1, <1>2

LEMMA FailedTyped ==
    ASSUME RecordTypes, Failing PROVE seg' \in Segment
<1>1. CASE Record([seg EXCEPT !.judge = "judge_failed", !.upload = "not_queued"])
  BY <1>1, JudgedTypes, Members DEF Record
<1>2. CASE UNCHANGED <<seg, review>>
  BY <1>2 DEF RecordTypes
<1> QED
  BY <1>1, <1>2 DEF Failing

(* A failure, recorded or not, leaves the clip alone.                       *)
LEMMA FailureKeeps ==
    ASSUME RecordTypes, Failing
    PROVE  /\ worker' = [worker EXCEPT !.at = "raised"] /\ At("raised")'
           /\ \A f \in {"range", "style", "subs", "burn", "approved", "preview",
                         "final", "candidate", "history"} : seg'[f] = seg[f]
           /\ seg'.upload \in {seg.upload, "not_queued"}
BY DEF RecordTypes, Segment, Worker, Failing, Record, Goto, At

LEMMA PlannedTyped ==
    ASSUME NEW s \in Segment
    PROVE  Planned(s) \in Worker /\ Planned(s).plan \in Finals /\ Planned(s).at = "render"
<1>1. CutOf(s) \in Finals
  BY Members DEF CutOf, Segment
<1>2. s.subs \in Subtitles /\ s.burn \in BOOLEAN /\ s.history \in SUBSET Finals
  BY DEF Segment
<1> QED
  BY <1>1, <1>2, IdleTyped, Members DEF Planned, Worker

LEMMA InitTypes == Init => RecordTypes
<1> SUFFICES ASSUME Init PROVE RecordTypes
  OBVIOUS
<1> USE DEF Reads, Finalizing
<1> USE ReviewFirstAssumption, Members
<1>1. FirstSegment \in Segment
  BY DEF FirstSegment, Segment
<1>2. NoJob \in Job /\ NewJob("create_missed_segment") \in Job
  BY DEF Job
<1>3. Q!NoRow \in Q!Row /\ Q!NewRow("staged") \in Q!Row
  BY DEF Q!Row, Q!NoRow, Q!NewRow, Q!Statuses
<1>4. worker \in Worker /\ At("idle")
  BY IdleTyped DEF Init, Idle
<1> HIDE DEF NoJob, NewJob
<1>5. CASE InitUnkept
  BY <1>1, <1>2, <1>3, <1>4, <1>5 DEF InitUnkept, RecordTypes, Segment
<1>6. CASE InitKept
  BY <1>1, <1>2, <1>3, <1>4, <1>6 DEF InitKept, RecordTypes, Segment
<1>7. CASE InitUnstaged
  <2>1. \A v \in BOOLEAN : [FirstSegment EXCEPT !.judge = "judge_failed", !.preview = v,
                                 !.final = Clip, !.candidate = Clip] \in Segment
    BY <1>1 DEF Segment
  <2>2. seg \in Segment
    BY <1>7, <2>1 DEF InitUnstaged
  <2> QED
    BY <1>2, <1>3, <1>4, <1>7, <2>2 DEF InitUnstaged, RecordTypes, Reads
<1>8. CASE InitMissed
  BY <1>1, <1>2, <1>3, <1>4, <1>8 DEF InitMissed, RecordTypes, Segment
<1> QED
  BY <1>5, <1>6, <1>7, <1>8 DEF Init

(* Every step keeps the types: of the segment,                              *)
LEMMA StepSegment ==
    ASSUME RecordTypes, [Next]_vars PROVE seg' \in Segment
<1> USE Members, EditedTypes DEF RecordTypes, Reads, Segment, CutOf
<1>1. ASSUME NEW r \in Ranges, NEW db \in BOOLEAN, EditRange(r, db) PROVE seg' \in Segment
  BY <1>1 DEF EditRange, Change, Record
<1>2. ASSUME NEW r \in Ranges, NEW db \in BOOLEAN, ManualKeep(r, db) PROVE seg' \in Segment
  BY <1>2 DEF ManualKeep, Unpublished, Change, Record
<1>3. ASSUME NEW y \in Styles, NEW db \in BOOLEAN, EditStyle(y, db) PROVE seg' \in Segment
  BY <1>3 DEF EditStyle, Invalidated, InvalidateFinal, Invalidable, Unpublished,
     Withdraw, Staged, Change, Record
<1>4. ASSUME NEW t \in Texts, NEW db \in BOOLEAN, EditSubtitles(t, db) PROVE seg' \in Segment
  BY <1>4 DEF EditSubtitles, Change, Record
<1>5. ASSUME NEW db \in BOOLEAN, EditInterrupted(db) PROVE seg' \in Segment
  BY <1>5 DEF EditInterrupted, InvalidateFinal, Invalidable, Unpublished, Withdraw,
     Staged, Change, Record
<1>6. ASSUME NEW db \in BOOLEAN, Drop(db) PROVE seg' \in Segment
  BY <1>6 DEF Drop, Unpublished, Withdraw, Change, Record
<1>7. ASSUME NEW r \in Ranges, NEW y \in Styles,
                NEW edited \in {{}} \cup {{t} : t \in Texts}, NEW db \in BOOLEAN, RequestFinalize(r, y, edited, db) PROVE seg' \in Segment
  BY <1>7 DEF RequestFinalize, Change, Record
<1>8. ASSUME NEW db \in BOOLEAN, CompleteReview(db) PROVE seg' \in Segment
  BY <1>8 DEF CompleteReview
<1>9. ASSUME NEW action \in {"retry_judge", "render_segment"}, RequestAction(action) PROVE seg' \in Segment
  BY <1>9 DEF RequestAction, QueuedSegment, Enqueue
<1>10. ASSUME NEW p \in Finals, NEW current \in BOOLEAN, RequestApproval(p, current) PROVE seg' \in Segment
  BY <1>10 DEF RequestApproval, QueuedSegment, Enqueue
<1>11. CASE Claim
  BY <1>11 DEF Claim
<1>12. CASE StartFinalize
  <2>1. CASE Raise
    BY <2>1, FailedTyped DEF Raise
  <2>2. CASE ~Raise
    BY <1>12, <2>2 DEF StartFinalize
  <2> QED
    BY <2>1, <2>2
<1>13. CASE Burn
  BY <1>13 DEF Burn
<1>14. CASE WriteMetadata
  BY <1>14 DEF WriteMetadata
<1>15. CASE MarkReady
  BY <1>15 DEF MarkReady, Save, Record, Produced, Worker
<1>16. CASE WithdrawDeferred
  BY <1>16 DEF WithdrawDeferred, Withdraw
<1>17. CASE StageFinal
  BY <1>17 DEF StageFinal, StagedRow
<1>18. CASE Succeed
  <2>1. CASE At("succeed")
    <3>1. worker.plan \in Finals
      BY <2>1 DEF Reads, Finalizing
    <3>2. (IF worker.status = "staged" THEN "awaiting_publish" ELSE worker.status)
            \in Publishing \cup {"not_queued", "awaiting_publish"}
      BY <2>1
    <3>3. seg' = Produced("manual_keep", IF worker.status = "staged" THEN "awaiting_publish"
                                                                   ELSE worker.status)
      BY <1>18 DEF Succeed, Save, Record
    <3>4. \A v \in Publishing \cup {"not_queued", "awaiting_publish"} :
             Produced("manual_keep", v) \in Segment
      BY <3>1 DEF Produced
    <3> QED
      BY <3>2, <3>3, <3>4
  <2> QED
    BY <1>18, <2>1 DEF Succeed
<1>19. CASE SucceedRaises
  BY <1>19, FailedTyped DEF SucceedRaises
<1>20. CASE StageFails
  <2>1. CASE FailFinalize
    BY <1>20, <2>1 DEF StageFails, FailFinalize, Save, Record, Worker
  <2> QED
    BY <1>20, <2>1, FailedTyped DEF StageFails, Raise
<1>21. CASE RecordRaises
  BY <1>21 DEF RecordRaises, Raise, Failing, Record
<1>22. CASE RecordApproval
  BY <1>22 DEF RecordApproval, Save, Record, Worker, Publishing
<1>23. CASE CutMissed
  <2>1. CASE Raise
    BY <2>1, FailedTyped DEF Raise
  <2>2. CASE ~Raise
    <3> HIDE DEF RecordTypes, Segment, Reads
    <3> QED
      BY <1>23, <2>2, JudgedTypes DEF CutMissed, Save, Record
  <2> QED
    BY <2>1, <2>2
<1>24. CASE FinishJob
  BY <1>24 DEF FinishJob
<1>25. CASE CrashWorker
  BY <1>25 DEF CrashWorker
<1>26. ASSUME NEW db \in BOOLEAN, NEW y \in Styles,
               StartRender(y, db) PROVE seg' \in Segment
  <2>1. CASE Change(Prepared(seg.range, y, {}), db)
    BY <2>1, EditedTypes DEF Change, Record
  <2>2. CASE UNCHANGED seg
    BY <2>2
  <2>3. CASE Raise
    BY <2>3, FailedTyped DEF Raise
  <2> QED
    BY <1>26, <2>1, <2>2, <2>3 DEF StartRender
<1>27. ASSUME NEW db \in BOOLEAN, Activate(db) PROVE seg' \in Segment
  <2>1. CASE Raise
    BY <2>1, FailedTyped DEF Raise
  <2>2. CASE ~Raise
    BY <1>27, <2>2 DEF Activate
  <2> QED
    BY <2>1, <2>2
<1>28. ASSUME NEW db \in BOOLEAN,
                NEW verdict \in Judgements \ {"manual_keep"}, RetryJudge(db, verdict) PROVE seg' \in Segment
  <2>1. CASE Raise
    BY <2>1, FailedTyped DEF Raise
  <2>2. CASE ~Raise
    <3> HIDE DEF RecordTypes, Segment, Reads
    <3> QED
      BY <1>28, <2>2, JudgedTypes DEF RetryJudge, Change, Record
  <2> QED
    BY <2>1, <2>2
<1>29. ASSUME NEW p \in Finals, ClaimUpload(p) PROVE seg' \in Segment
  BY <1>29 DEF ClaimUpload, Consume
<1>30. ASSUME NEW p \in Finals, RefuseUpload(p) PROVE seg' \in Segment
  BY <1>30 DEF RefuseUpload, Consume
<1>31. ASSUME NEW p \in Finals, StepUpload(p) PROVE seg' \in Segment
  BY <1>31 DEF StepUpload, Consume
<1>32. ASSUME NEW p \in Finals, PublishUpload(p) PROVE seg' \in Segment
  BY <1>32 DEF PublishUpload, Consume
<1>33. CASE UNCHANGED vars
  BY <1>33 DEF vars
<1> HIDE DEF RecordTypes, Reads, Segment, CutOf
<1> QED
  BY <1>1, <1>2, <1>3, <1>4, <1>5, <1>6, <1>7, <1>8, <1>9, <1>10, <1>11, <1>12,
     <1>13, <1>14, <1>15, <1>16, <1>17, <1>18, <1>19, <1>20, <1>21, <1>22, <1>23,
     <1>24, <1>25, <1>26, <1>27, <1>28, <1>29, <1>30, <1>31, <1>32, <1>33 DEF Next,
     Reviewer, WorkerSteps, Consumer

(* ... of the job,                                                          *)
LEMMA StepJob ==
    ASSUME RecordTypes, [Next]_vars PROVE job' \in Job
<1> USE Members DEF RecordTypes, Job
<1>1. ASSUME NEW r \in Ranges, NEW db \in BOOLEAN, EditRange(r, db) PROVE job' \in Job
  BY <1>1 DEF EditRange, WithRange, Invalidated, InvalidateFinal, Invalidable,
     Unpublished, Withdraw, Staged, Change, Record
<1>2. ASSUME NEW r \in Ranges, NEW db \in BOOLEAN, ManualKeep(r, db) PROVE job' \in Job
  BY <1>2 DEF ManualKeep, Unpublished, Change, Record
<1>3. ASSUME NEW y \in Styles, NEW db \in BOOLEAN, EditStyle(y, db) PROVE job' \in Job
  BY <1>3 DEF EditStyle, Invalidated, InvalidateFinal, Invalidable, Unpublished,
     Withdraw, Staged, Change, Record
<1>4. ASSUME NEW t \in Texts, NEW db \in BOOLEAN, EditSubtitles(t, db) PROVE job' \in Job
  BY <1>4 DEF EditSubtitles, Invalidated, InvalidateFinal, Invalidable, Unpublished,
     Withdraw, Staged, Change, Record
<1>5. ASSUME NEW db \in BOOLEAN, EditInterrupted(db) PROVE job' \in Job
  BY <1>5 DEF EditInterrupted, InvalidateFinal, Invalidable, Unpublished, Withdraw,
     Staged, Change, Record
<1>6. ASSUME NEW db \in BOOLEAN, Drop(db) PROVE job' \in Job
  BY <1>6 DEF Drop, Unpublished, Withdraw, Change, Record
<1>7. ASSUME NEW r \in Ranges, NEW y \in Styles,
                NEW edited \in {{}} \cup {{t} : t \in Texts}, NEW db \in BOOLEAN, RequestFinalize(r, y, edited, db) PROVE job' \in Job
  <2>1. NoJob \in Job /\ NewJob("finalize_segment") \in Job
    BY Members
  <2> HIDE DEF NoJob, NewJob, Job
  <2> QED
    BY <1>7, <2>1 DEF RequestFinalize
<1>8. ASSUME NEW db \in BOOLEAN, CompleteReview(db) PROVE job' \in Job
  BY <1>8 DEF CompleteReview
<1>9. ASSUME NEW action \in {"retry_judge", "render_segment"}, RequestAction(action) PROVE job' \in Job
  BY <1>9 DEF RequestAction, QueuedSegment, Enqueue
<1>10. ASSUME NEW p \in Finals, NEW current \in BOOLEAN, RequestApproval(p, current) PROVE job' \in Job
  BY <1>10 DEF RequestApproval, QueuedSegment, Enqueue
<1>11. CASE Claim
  BY <1>11 DEF Claim
<1>12. CASE StartFinalize
  BY <1>12 DEF StartFinalize, Planned, Raise, Failing, Record
<1>13. CASE Burn
  BY <1>13 DEF Burn
<1>14. CASE WriteMetadata
  BY <1>14 DEF WriteMetadata
<1>15. CASE MarkReady
  BY <1>15 DEF MarkReady, Save, Record, Produced
<1>16. CASE WithdrawDeferred
  BY <1>16 DEF WithdrawDeferred, Withdraw
<1>17. CASE StageFinal
  BY <1>17 DEF StageFinal, StagedRow
<1>18. CASE Succeed
  BY <1>18 DEF Succeed, Save, Record, Produced
<1>19. CASE SucceedRaises
  BY <1>19 DEF SucceedRaises, Failing, Record
<1>20. CASE StageFails
  BY <1>20 DEF StageFails, FailFinalize, Raise, Failing, Save, Record
<1>21. CASE RecordRaises
  BY <1>21 DEF RecordRaises, Raise, Failing, Record
<1>22. CASE RecordApproval
  BY <1>22 DEF RecordApproval, Save, Record
<1>23. CASE CutMissed
  BY <1>23 DEF CutMissed, Raise, Failing, Save, Record
<1>24. CASE FinishJob
  BY <1>24 DEF FinishJob
<1>25. CASE CrashWorker
  BY <1>25 DEF CrashWorker
<1>26. ASSUME NEW db \in BOOLEAN, NEW y \in Styles,
               StartRender(y, db) PROVE job' \in Job
  BY <1>26 DEF StartRender, Prepared, WithRange, Planned, Invalidated, Raise,
     Failing, InvalidateFinal, Invalidable, Unpublished, Withdraw, Staged, Change,
     Record
<1>27. ASSUME NEW db \in BOOLEAN, Activate(db) PROVE job' \in Job
  BY <1>27 DEF Activate, Approvable, FinalExists, Raise, Failing, Record
<1>28. ASSUME NEW db \in BOOLEAN,
                NEW verdict \in Judgements \ {"manual_keep"}, RetryJudge(db, verdict) PROVE job' \in Job
  BY <1>28 DEF RetryJudge, Unpublished, Change, Raise, Failing, Record
<1>29. ASSUME NEW p \in Finals, ClaimUpload(p) PROVE job' \in Job
  BY <1>29 DEF ClaimUpload, Consume
<1>30. ASSUME NEW p \in Finals, RefuseUpload(p) PROVE job' \in Job
  BY <1>30 DEF RefuseUpload, Consume
<1>31. ASSUME NEW p \in Finals, StepUpload(p) PROVE job' \in Job
  BY <1>31 DEF StepUpload, Consume
<1>32. ASSUME NEW p \in Finals, PublishUpload(p) PROVE job' \in Job
  BY <1>32 DEF PublishUpload, Consume
<1>33. CASE UNCHANGED vars
  BY <1>33 DEF vars
<1> HIDE DEF RecordTypes, Job
<1> QED
  BY <1>1, <1>2, <1>3, <1>4, <1>5, <1>6, <1>7, <1>8, <1>9, <1>10, <1>11, <1>12,
     <1>13, <1>14, <1>15, <1>16, <1>17, <1>18, <1>19, <1>20, <1>21, <1>22, <1>23,
     <1>24, <1>25, <1>26, <1>27, <1>28, <1>29, <1>30, <1>31, <1>32, <1>33 DEF Next,
     Reviewer, WorkerSteps, Consumer

(* ... of the worker,                                                       *)
LEMMA StepWorker ==
    ASSUME RecordTypes, [Next]_vars PROVE worker' \in Worker
<1> USE Members, IdleTyped DEF RecordTypes, Worker
<1>1. ASSUME NEW r \in Ranges, NEW db \in BOOLEAN, EditRange(r, db) PROVE worker' \in Worker
  BY <1>1 DEF EditRange, WithRange, Invalidated, InvalidateFinal, Invalidable,
     Unpublished, Withdraw, Staged, Change, Record
<1>2. ASSUME NEW r \in Ranges, NEW db \in BOOLEAN, ManualKeep(r, db) PROVE worker' \in Worker
  BY <1>2 DEF ManualKeep, Unpublished, Change, Record
<1>3. ASSUME NEW y \in Styles, NEW db \in BOOLEAN, EditStyle(y, db) PROVE worker' \in Worker
  BY <1>3 DEF EditStyle, Invalidated, InvalidateFinal, Invalidable, Unpublished,
     Withdraw, Staged, Change, Record
<1>4. ASSUME NEW t \in Texts, NEW db \in BOOLEAN, EditSubtitles(t, db) PROVE worker' \in Worker
  BY <1>4 DEF EditSubtitles, Invalidated, InvalidateFinal, Invalidable, Unpublished,
     Withdraw, Staged, Change, Record
<1>5. ASSUME NEW db \in BOOLEAN, EditInterrupted(db) PROVE worker' \in Worker
  BY <1>5 DEF EditInterrupted, InvalidateFinal, Invalidable, Unpublished, Withdraw,
     Staged, Change, Record
<1>6. ASSUME NEW db \in BOOLEAN, Drop(db) PROVE worker' \in Worker
  BY <1>6 DEF Drop, Unpublished, Withdraw, Change, Record
<1>7. ASSUME NEW r \in Ranges, NEW y \in Styles,
                NEW edited \in {{}} \cup {{t} : t \in Texts}, NEW db \in BOOLEAN, RequestFinalize(r, y, edited, db) PROVE worker' \in Worker
  BY <1>7 DEF RequestFinalize, Prepared, WithRange, Invalidated, InvalidateFinal,
     Invalidable, Unpublished, Withdraw, Staged, Change, Record
<1>8. ASSUME NEW db \in BOOLEAN, CompleteReview(db) PROVE worker' \in Worker
  BY <1>8 DEF CompleteReview
<1>9. ASSUME NEW action \in {"retry_judge", "render_segment"}, RequestAction(action) PROVE worker' \in Worker
  BY <1>9 DEF RequestAction, QueuedSegment, Enqueue
<1>10. ASSUME NEW p \in Finals, NEW current \in BOOLEAN, RequestApproval(p, current) PROVE worker' \in Worker
  BY <1>10 DEF RequestApproval, QueuedSegment, Enqueue
<1>11. CASE Claim
  BY <1>11 DEF Claim
<1>12. CASE StartFinalize
  <2>1. CASE worker' = Planned(seg)
    BY <2>1, PlannedTyped
  <2>2. CASE Raise
    BY <2>2 DEF Raise, Failing
  <2> QED
    BY <1>12, <2>1, <2>2 DEF StartFinalize
<1>13. CASE Burn
  BY <1>13 DEF Burn
<1>14. CASE WriteMetadata
  BY <1>14 DEF WriteMetadata
<1>15. CASE MarkReady
  BY <1>15 DEF MarkReady, Save, Record, Produced
<1>16. CASE WithdrawDeferred
  BY <1>16 DEF WithdrawDeferred, Withdraw
<1>17. CASE StageFinal
  <2>1. At("stage") => worker.plan \in Finals
    BY DEF Reads, Finalizing
  <2>2. At("stage") => StagedRow(queue[worker.plan]).status \in Q!Statuses \cup {"none"}
    BY <2>1 DEF StagedRow, Q!NewRow, Q!NoRow, Q!Restaged, Q!Row, Q!Statuses
  <2> QED
    BY <1>17, <2>2 DEF StageFinal
<1>18. CASE Succeed
  BY <1>18 DEF Succeed, Save, Record, Produced
<1>19. CASE SucceedRaises
  BY <1>19 DEF SucceedRaises, Failing, Record
<1>20. CASE StageFails
  BY <1>20 DEF StageFails, FailFinalize, Raise, Failing, Save, Record
<1>21. CASE RecordRaises
  BY <1>21 DEF RecordRaises, Raise, Failing, Record
<1>22. CASE RecordApproval
  BY <1>22 DEF RecordApproval, Save, Record
<1>23. CASE CutMissed
  BY <1>23 DEF CutMissed, Raise, Failing, Save, Record
<1>24. CASE FinishJob
  BY <1>24, IdleTyped DEF FinishJob
<1>25. CASE CrashWorker
  BY <1>25, IdleTyped DEF CrashWorker
<1>26. ASSUME NEW db \in BOOLEAN, NEW y \in Styles,
               StartRender(y, db) PROVE worker' \in Worker
  <2>1. CASE worker' = Planned(Prepared(seg.range, y, {}))
    BY <2>1, PlannedTyped, EditedTypes DEF Segment
  <2>2. CASE worker' = Idle
    BY <2>2, IdleTyped
  <2>3. CASE Raise
    BY <2>3 DEF Raise, Failing
  <2> QED
    BY <1>26, <2>1, <2>2, <2>3 DEF StartRender
<1>27. ASSUME NEW db \in BOOLEAN, Activate(db) PROVE worker' \in Worker
  <2>1. CASE Raise
    BY <2>1 DEF Raise, Failing
  <2>2. CASE Approvable(db) /\ ~Raise
    <3>1. seg.final \in Finals
      BY <2>2 DEF Approvable, FinalExists, Segment
    <3>2. Q!Activated(queue[seg.final]).status \in Q!Statuses
      BY <3>1 DEF Q!Activated, Q!ResumePhase, Q!Row, Q!Statuses
    <3>3. queue[seg.final].status \in Q!Statuses \cup {"none"}
      BY <3>1 DEF Q!Row
    <3> QED
      BY <1>27, <2>2, <3>2, <3>3 DEF Activate
  <2> QED
    BY <1>27, <2>1, <2>2 DEF Activate
<1>28. ASSUME NEW db \in BOOLEAN,
                NEW verdict \in Judgements \ {"manual_keep"}, RetryJudge(db, verdict) PROVE worker' \in Worker
  BY <1>28 DEF RetryJudge, Unpublished, Change, Raise, Failing, Record
<1>29. ASSUME NEW p \in Finals, ClaimUpload(p) PROVE worker' \in Worker
  BY <1>29 DEF ClaimUpload, Consume
<1>30. ASSUME NEW p \in Finals, RefuseUpload(p) PROVE worker' \in Worker
  BY <1>30 DEF RefuseUpload, Consume
<1>31. ASSUME NEW p \in Finals, StepUpload(p) PROVE worker' \in Worker
  BY <1>31 DEF StepUpload, Consume
<1>32. ASSUME NEW p \in Finals, PublishUpload(p) PROVE worker' \in Worker
  BY <1>32 DEF PublishUpload, Consume
<1>33. CASE UNCHANGED vars
  BY <1>33 DEF vars
<1> HIDE DEF RecordTypes, Worker
<1> QED
  BY <1>1, <1>2, <1>3, <1>4, <1>5, <1>6, <1>7, <1>8, <1>9, <1>10, <1>11, <1>12,
     <1>13, <1>14, <1>15, <1>16, <1>17, <1>18, <1>19, <1>20, <1>21, <1>22, <1>23,
     <1>24, <1>25, <1>26, <1>27, <1>28, <1>29, <1>30, <1>31, <1>32, <1>33 DEF Next,
     Reviewer, WorkerSteps, Consumer

(* ... of the rows,                                                         *)
LEMMA StepQueue ==
    ASSUME RecordTypes, [Next]_vars PROVE queue' \in [Finals -> Q!Row]
<1> USE DEF RecordTypes, Q!Row, Q!NoRow, Q!NewRow, Q!Statuses
<1>1. ASSUME NEW r \in Ranges, NEW db \in BOOLEAN, EditRange(r, db) PROVE queue' \in [Finals -> Q!Row]
  BY <1>1 DEF EditRange, WithRange, Invalidated, InvalidateFinal, Invalidable,
     Unpublished, Withdraw, Staged, Change, Record
<1>2. ASSUME NEW r \in Ranges, NEW db \in BOOLEAN, ManualKeep(r, db) PROVE queue' \in [Finals -> Q!Row]
  BY <1>2 DEF ManualKeep, Unpublished, Change, Record
<1>3. ASSUME NEW y \in Styles, NEW db \in BOOLEAN, EditStyle(y, db) PROVE queue' \in [Finals -> Q!Row]
  BY <1>3 DEF EditStyle, Invalidated, InvalidateFinal, Invalidable, Unpublished,
     Withdraw, Staged, Change, Record
<1>4. ASSUME NEW t \in Texts, NEW db \in BOOLEAN, EditSubtitles(t, db) PROVE queue' \in [Finals -> Q!Row]
  BY <1>4 DEF EditSubtitles, Invalidated, InvalidateFinal, Invalidable, Unpublished,
     Withdraw, Staged, Change, Record
<1>5. ASSUME NEW db \in BOOLEAN, EditInterrupted(db) PROVE queue' \in [Finals -> Q!Row]
  BY <1>5 DEF EditInterrupted, InvalidateFinal, Invalidable, Unpublished, Withdraw,
     Staged, Change, Record
<1>6. ASSUME NEW db \in BOOLEAN, Drop(db) PROVE queue' \in [Finals -> Q!Row]
  BY <1>6 DEF Drop, Unpublished, Withdraw, Change, Record
<1>7. ASSUME NEW r \in Ranges, NEW y \in Styles,
                NEW edited \in {{}} \cup {{t} : t \in Texts}, NEW db \in BOOLEAN, RequestFinalize(r, y, edited, db) PROVE queue' \in [Finals -> Q!Row]
  BY <1>7 DEF RequestFinalize, Prepared, WithRange, Invalidated, InvalidateFinal,
     Invalidable, Unpublished, Withdraw, Staged, Change, Record
<1>8. ASSUME NEW db \in BOOLEAN, CompleteReview(db) PROVE queue' \in [Finals -> Q!Row]
  BY <1>8 DEF CompleteReview
<1>9. ASSUME NEW action \in {"retry_judge", "render_segment"}, RequestAction(action) PROVE queue' \in [Finals -> Q!Row]
  BY <1>9 DEF RequestAction, QueuedSegment, Enqueue
<1>10. ASSUME NEW p \in Finals, NEW current \in BOOLEAN, RequestApproval(p, current) PROVE queue' \in [Finals -> Q!Row]
  BY <1>10 DEF RequestApproval, QueuedSegment, Enqueue
<1>11. CASE Claim
  BY <1>11 DEF Claim
<1>12. CASE StartFinalize
  BY <1>12 DEF StartFinalize, Planned, Raise, Failing, Record
<1>13. CASE Burn
  BY <1>13 DEF Burn
<1>14. CASE WriteMetadata
  BY <1>14 DEF WriteMetadata
<1>15. CASE MarkReady
  BY <1>15 DEF MarkReady, Save, Record, Produced
<1>16. CASE WithdrawDeferred
  BY <1>16 DEF WithdrawDeferred, Withdraw
<1>17. CASE StageFinal
  <2>1. At("stage") => worker.plan \in Finals
    BY DEF Reads, Finalizing
  <2>2. At("stage") => StagedRow(queue[worker.plan]) \in Q!Row
    BY <2>1 DEF StagedRow, Q!Restaged
  <2> HIDE DEF Q!Row
  <2> QED
    BY <1>17, <2>2 DEF StageFinal
<1>18. CASE Succeed
  BY <1>18 DEF Succeed, Save, Record, Produced
<1>19. CASE SucceedRaises
  BY <1>19 DEF SucceedRaises, Failing, Record
<1>20. CASE StageFails
  BY <1>20 DEF StageFails, FailFinalize, Raise, Failing, Save, Record
<1>21. CASE RecordRaises
  BY <1>21 DEF RecordRaises, Raise, Failing, Record
<1>22. CASE RecordApproval
  BY <1>22 DEF RecordApproval, Save, Record
<1>23. CASE CutMissed
  BY <1>23 DEF CutMissed, Raise, Failing, Save, Record
<1>24. CASE FinishJob
  BY <1>24 DEF FinishJob
<1>25. CASE CrashWorker
  BY <1>25 DEF CrashWorker
<1>26. ASSUME NEW db \in BOOLEAN, NEW y \in Styles,
               StartRender(y, db) PROVE queue' \in [Finals -> Q!Row]
  <2>1. ASSUME NEW deferred \in BOOLEAN, InvalidateFinal(db, deferred)
        PROVE  queue' \in [Finals -> Q!Row]
    BY <2>1 DEF InvalidateFinal, Withdraw
  <2> QED
    BY <1>26, <2>1 DEF StartRender, Raise
<1>27. ASSUME NEW db \in BOOLEAN, Activate(db) PROVE queue' \in [Finals -> Q!Row]
  BY <1>27 DEF Activate, Approvable, FinalExists, Raise, Failing, Record,
     Q!Activated, Q!ResumePhase
<1>28. ASSUME NEW db \in BOOLEAN,
                NEW verdict \in Judgements \ {"manual_keep"}, RetryJudge(db, verdict) PROVE queue' \in [Finals -> Q!Row]
  BY <1>28 DEF RetryJudge, Unpublished, Change, Raise, Failing, Record
<1>29. ASSUME NEW p \in Finals, ClaimUpload(p) PROVE queue' \in [Finals -> Q!Row]
  BY <1>29 DEF ClaimUpload, Consume, Q!Claimed
<1>30. ASSUME NEW p \in Finals, RefuseUpload(p) PROVE queue' \in [Finals -> Q!Row]
  BY <1>30 DEF RefuseUpload, Consume, Q!Failed
<1>31. ASSUME NEW p \in Finals, StepUpload(p) PROVE queue' \in [Finals -> Q!Row]
  <2>1. /\ Q!Completed(queue[p]) \in Q!Row
        /\ Q!Failed(queue[p]) \in Q!Row
        /\ Q!Requeued(queue[p]) \in Q!Row
    BY DEF Q!Completed, Q!Failed, Q!Requeued, Q!ResumePhase
  <2>2. Q!Recovered(queue[p]) \in Q!Row
    BY DEF Q!Recovered, Q!ResumePhase
  <2> HIDE DEF Q!Row
  <2> QED
    BY <1>31, <2>1, <2>2 DEF StepUpload, Consume
<1>32. ASSUME NEW p \in Finals, PublishUpload(p) PROVE queue' \in [Finals -> Q!Row]
  BY <1>32 DEF PublishUpload, Consume, Q!Published
<1>33. CASE UNCHANGED vars
  BY <1>33 DEF vars
<1> HIDE DEF RecordTypes, Q!Row, Q!NoRow, Q!NewRow, Q!Statuses
<1> QED
  BY <1>1, <1>2, <1>3, <1>4, <1>5, <1>6, <1>7, <1>8, <1>9, <1>10, <1>11, <1>12,
     <1>13, <1>14, <1>15, <1>16, <1>17, <1>18, <1>19, <1>20, <1>21, <1>22, <1>23,
     <1>24, <1>25, <1>26, <1>27, <1>28, <1>29, <1>30, <1>31, <1>32, <1>33 DEF Next,
     Reviewer, WorkerSteps, Consumer

(* ... and of what the worker remembers.                                    *)
LEMMA StepReads ==
    ASSUME RecordTypes, worker' \in Worker, [Next]_vars PROVE Reads'
<1> USE DEF RecordTypes, Reads, Finalizing, Worker
<1>1. ASSUME NEW r \in Ranges, NEW db \in BOOLEAN, EditRange(r, db) PROVE Reads'
  BY <1>1 DEF EditRange, WithRange, Invalidated, InvalidateFinal, Invalidable,
     Unpublished, Withdraw, Staged, Change, Record
<1>2. ASSUME NEW r \in Ranges, NEW db \in BOOLEAN, ManualKeep(r, db) PROVE Reads'
  BY <1>2 DEF ManualKeep, Unpublished, Change, Record
<1>3. ASSUME NEW y \in Styles, NEW db \in BOOLEAN, EditStyle(y, db) PROVE Reads'
  BY <1>3 DEF EditStyle, Invalidated, InvalidateFinal, Invalidable, Unpublished,
     Withdraw, Staged, Change, Record
<1>4. ASSUME NEW t \in Texts, NEW db \in BOOLEAN, EditSubtitles(t, db) PROVE Reads'
  BY <1>4 DEF EditSubtitles, Invalidated, InvalidateFinal, Invalidable, Unpublished,
     Withdraw, Staged, Change, Record
<1>5. ASSUME NEW db \in BOOLEAN, EditInterrupted(db) PROVE Reads'
  BY <1>5 DEF EditInterrupted, InvalidateFinal, Invalidable, Unpublished, Withdraw,
     Staged, Change, Record
<1>6. ASSUME NEW db \in BOOLEAN, Drop(db) PROVE Reads'
  BY <1>6 DEF Drop, Unpublished, Withdraw, Change, Record
<1>7. ASSUME NEW r \in Ranges, NEW y \in Styles,
                NEW edited \in {{}} \cup {{t} : t \in Texts}, NEW db \in BOOLEAN, RequestFinalize(r, y, edited, db) PROVE Reads'
  BY <1>7 DEF RequestFinalize
<1>8. ASSUME NEW db \in BOOLEAN, CompleteReview(db) PROVE Reads'
  BY <1>8 DEF CompleteReview
<1>9. ASSUME NEW action \in {"retry_judge", "render_segment"}, RequestAction(action) PROVE Reads'
  BY <1>9 DEF RequestAction, QueuedSegment, Enqueue
<1>10. ASSUME NEW p \in Finals, NEW current \in BOOLEAN, RequestApproval(p, current) PROVE Reads'
  BY <1>10 DEF RequestApproval, QueuedSegment, Enqueue
<1>11. CASE Claim
  BY <1>11 DEF Claim
<1>12. CASE StartFinalize
  <2>1. CASE worker' = Planned(seg)
    BY <2>1, PlannedTyped
  <2>2. CASE Raise
    BY <2>2 DEF Raise, Failing
  <2> QED
    BY <1>12, <2>1, <2>2 DEF StartFinalize
<1>13. CASE Burn
  BY <1>13 DEF Burn
<1>14. CASE WriteMetadata
  BY <1>14 DEF WriteMetadata
<1>15. CASE MarkReady
  BY <1>15 DEF MarkReady, Save, Record, Produced
<1>16. CASE WithdrawDeferred
  BY <1>16 DEF WithdrawDeferred, Withdraw
<1>17. CASE StageFinal
  <2>1. At("stage") => StagedRow(queue[worker.plan]).status \in Publishing \cup {"staged"}
    BY DEF StagedRow, Q!NewRow, Q!NoRow, Q!Restaged, Q!Row, Q!Statuses, Publishing, InFlight
  <2> QED
    BY <1>17, <2>1 DEF StageFinal
<1>18. CASE Succeed
  BY <1>18 DEF Succeed, Save, Record, Produced
<1>19. CASE SucceedRaises
  BY <1>19 DEF SucceedRaises, Failing, Record
<1>20. CASE StageFails
  BY <1>20 DEF StageFails, FailFinalize, Raise, Failing, Save, Record
<1>21. CASE RecordRaises
  BY <1>21 DEF RecordRaises, Raise, Failing, Record
<1>22. CASE RecordApproval
  BY <1>22 DEF RecordApproval, Save, Record
<1>23. CASE CutMissed
  BY <1>23 DEF CutMissed, Raise, Failing, Save, Record
<1>24. CASE FinishJob
  BY <1>24 DEF FinishJob, Idle
<1>25. CASE CrashWorker
  BY <1>25 DEF CrashWorker, Idle
<1>26. ASSUME NEW db \in BOOLEAN, NEW y \in Styles,
               StartRender(y, db) PROVE Reads'
  <2>1. CASE worker' = Planned(Prepared(seg.range, y, {}))
    BY <2>1, PlannedTyped, EditedTypes DEF Segment
  <2>2. CASE worker' = Idle
    BY <2>2 DEF Idle
  <2>3. CASE Raise
    BY <2>3 DEF Raise, Failing
  <2> QED
    BY <1>26, <2>1, <2>2, <2>3 DEF StartRender
<1>27. ASSUME NEW db \in BOOLEAN, Activate(db) PROVE Reads'
  <2>1. CASE Raise
    BY <2>1 DEF Raise, Failing
  <2>2. CASE Approvable(db) /\ ~Raise
    <3>1. seg.final \in Finals
      BY <2>2 DEF Approvable, FinalExists, Segment
    <3>2. (IF queue[seg.final].status = "staged" THEN Q!Activated(queue[seg.final])
                                                 ELSE queue[seg.final]).status \in Publishing
      BY <2>2, <3>1 DEF Approvable, Q!Activated, Q!ResumePhase, Q!Row, Publishing, InFlight
    <3> QED
      BY <1>27, <2>2, <3>2 DEF Activate
  <2> QED
    BY <1>27, <2>1, <2>2 DEF Activate
<1>28. ASSUME NEW db \in BOOLEAN,
                NEW verdict \in Judgements \ {"manual_keep"}, RetryJudge(db, verdict) PROVE Reads'
  BY <1>28 DEF RetryJudge, Unpublished, Change, Raise, Failing, Record
<1>29. ASSUME NEW p \in Finals, ClaimUpload(p) PROVE Reads'
  BY <1>29 DEF ClaimUpload, Consume
<1>30. ASSUME NEW p \in Finals, RefuseUpload(p) PROVE Reads'
  BY <1>30 DEF RefuseUpload, Consume
<1>31. ASSUME NEW p \in Finals, StepUpload(p) PROVE Reads'
  BY <1>31 DEF StepUpload, Consume
<1>32. ASSUME NEW p \in Finals, PublishUpload(p) PROVE Reads'
  BY <1>32 DEF PublishUpload, Consume
<1>33. CASE UNCHANGED vars
  BY <1>33 DEF vars
<1> HIDE DEF RecordTypes, Reads, Finalizing, Worker
<1> QED
  BY <1>1, <1>2, <1>3, <1>4, <1>5, <1>6, <1>7, <1>8, <1>9, <1>10, <1>11, <1>12,
     <1>13, <1>14, <1>15, <1>16, <1>17, <1>18, <1>19, <1>20, <1>21, <1>22, <1>23,
     <1>24, <1>25, <1>26, <1>27, <1>28, <1>29, <1>30, <1>31, <1>32, <1>33 DEF Next,
     Reviewer, WorkerSteps, Consumer

(* No approval is given while the worker finalizes: a request to finalize   *)
(* needs a segment that is not approved, and until its job is over it is    *)
(* the segment's only one.                                                  *)
ReviewInv ==
    /\ worker.at \in Finalizing =>
          ~seg.approved /\ job.action \in {"finalize_segment", "render_segment"}
    /\ job.action = "finalize_segment" => ~seg.approved
    /\ At("approved") => job.action = "approve_publish"
    /\ ~At("idle") => ~NoJobActive

LEMMA InitReview == Init => ReviewInv
<1> SUFFICES ASSUME Init PROVE ReviewInv
  OBVIOUS
<1> USE DEF Init, FirstSegment, ReviewInv, Finalizing, Idle
<1>1. CASE InitUnkept
  BY <1>1 DEF InitUnkept
<1>2. CASE InitKept
  BY <1>2 DEF InitKept
<1>3. CASE InitUnstaged
  BY <1>3 DEF InitUnstaged
<1>4. CASE InitMissed
  BY <1>4 DEF InitMissed
<1> QED
  BY <1>1, <1>2, <1>3, <1>4

(* Every step keeps approving and finalizing apart.                         *)
LEMMA StepReview ==
    ASSUME RecordTypes, ReviewInv, [Next]_vars PROVE ReviewInv'
<1> USE DEF RecordTypes, Segment, Job, Worker, ReviewInv, Finalizing, Idle
<1>1. ASSUME NEW r \in Ranges, NEW db \in BOOLEAN, EditRange(r, db) PROVE ReviewInv'
  BY <1>1 DEF EditRange, WithRange, Invalidated, InvalidateFinal, Invalidable,
     Unpublished, Withdraw, Staged, Change, Record
<1>2. ASSUME NEW r \in Ranges, NEW db \in BOOLEAN, ManualKeep(r, db) PROVE ReviewInv'
  BY <1>2 DEF ManualKeep, Unpublished, Change, Record
<1>3. ASSUME NEW y \in Styles, NEW db \in BOOLEAN, EditStyle(y, db) PROVE ReviewInv'
  BY <1>3 DEF EditStyle, Invalidated, InvalidateFinal, Invalidable, Unpublished,
     Withdraw, Staged, Change, Record
<1>4. ASSUME NEW t \in Texts, NEW db \in BOOLEAN, EditSubtitles(t, db) PROVE ReviewInv'
  BY <1>4 DEF EditSubtitles, Invalidated, InvalidateFinal, Invalidable, Unpublished,
     Withdraw, Staged, Change, Record
<1>5. ASSUME NEW db \in BOOLEAN, EditInterrupted(db) PROVE ReviewInv'
  BY <1>5 DEF EditInterrupted, InvalidateFinal, Invalidable, Unpublished, Withdraw,
     Staged, Change, Record
<1>6. ASSUME NEW db \in BOOLEAN, Drop(db) PROVE ReviewInv'
  BY <1>6 DEF Drop, Unpublished, Withdraw, Change, Record
<1>7. ASSUME NEW r \in Ranges, NEW y \in Styles,
                NEW edited \in {{}} \cup {{t} : t \in Texts}, NEW db \in BOOLEAN, RequestFinalize(r, y, edited, db) PROVE ReviewInv'
  BY <1>7 DEF RequestFinalize, Prepared, WithRange, Invalidated, InvalidateFinal,
     Invalidable, Unpublished, Withdraw, Staged, Change, Record
<1>8. ASSUME NEW db \in BOOLEAN, CompleteReview(db) PROVE ReviewInv'
  BY <1>8 DEF CompleteReview
<1>9. ASSUME NEW action \in {"retry_judge", "render_segment"}, RequestAction(action) PROVE ReviewInv'
  BY <1>9 DEF RequestAction, QueuedSegment, Enqueue
<1>10. ASSUME NEW p \in Finals, NEW current \in BOOLEAN, RequestApproval(p, current) PROVE ReviewInv'
  BY <1>10 DEF RequestApproval, QueuedSegment, Enqueue
<1>11. CASE Claim
  BY <1>11 DEF Claim
<1>12. CASE StartFinalize
  <2>1. CASE Raise
    BY <1>12, <2>1 DEF StartFinalize, Raise, Failing, Record
  <2>2. CASE ~Raise
    BY <1>12, <2>2, PlannedTyped DEF StartFinalize
  <2> QED
    BY <2>1, <2>2
<1>13. CASE Burn
  BY <1>13 DEF Burn
<1>14. CASE WriteMetadata
  BY <1>14 DEF WriteMetadata
<1>15. CASE MarkReady
  BY <1>15 DEF MarkReady, Save, Record, Produced
<1>16. CASE WithdrawDeferred
  BY <1>16 DEF WithdrawDeferred, Withdraw
<1>17. CASE StageFinal
  BY <1>17 DEF StageFinal, StagedRow
<1>18. CASE Succeed
  BY <1>18 DEF Succeed, Save, Record, Produced
<1>19. CASE SucceedRaises
  BY <1>19 DEF SucceedRaises, Failing, Record
<1>20. CASE StageFails
  BY <1>20 DEF StageFails, FailFinalize, Raise, Failing, Save, Record
<1>21. CASE RecordRaises
  BY <1>21 DEF RecordRaises, Raise, Failing, Record
<1>22. CASE RecordApproval
  BY <1>22 DEF RecordApproval, Save, Record
<1>23. CASE CutMissed
  BY <1>23 DEF CutMissed, Raise, Failing, Save, Record
<1>24. CASE FinishJob
  BY <1>24 DEF FinishJob
<1>25. CASE CrashWorker
  BY <1>25 DEF CrashWorker
<1>26. ASSUME NEW db \in BOOLEAN, NEW y \in Styles,
               StartRender(y, db) PROVE ReviewInv'
  <2>1. CASE /\ Invalidable(db)
             /\ Change(Prepared(seg.range, y, {}), db)
             /\ job' = Bumped
             /\ worker' = Planned(Prepared(seg.range, y, {}))
             /\ \A p \in Finals : queue'[p] \in {queue[p], Q!NoRow}
             /\ job.action = "render_segment"
    BY <2>1, PreparedKeeps, PlannedTyped, EditedTypes
       DEF Invalidable, Unpublished, Change, Record
  <2>2. CASE worker' = Idle /\ UNCHANGED <<seg, job, rewritten>>
             /\ \A p \in Finals : queue'[p] \in {queue[p], Q!NoRow}
    BY <2>2 DEF Idle
  <2>3. CASE Raise
    BY <1>26, <2>3 DEF StartRender, Raise, Failing, Record
  <2> QED
    BY <1>26, <2>1, <2>2, <2>3 DEF StartRender, InvalidateFinal, Withdraw
<1>27. ASSUME NEW db \in BOOLEAN, Activate(db) PROVE ReviewInv'
  <2>1. CASE Raise
    BY <1>27, <2>1 DEF Activate, Raise, Failing, Record
  <2>2. CASE ~Raise
    BY <1>27, <2>2 DEF Activate
  <2> QED
    BY <2>1, <2>2
<1>28. ASSUME NEW db \in BOOLEAN,
                NEW verdict \in Judgements \ {"manual_keep"}, RetryJudge(db, verdict) PROVE ReviewInv'
  <2>1. CASE Raise
    BY <1>28, <2>1 DEF RetryJudge, Raise, Failing, Record
  <2>2. CASE ~Raise
    BY <1>28, <2>2 DEF RetryJudge, Change, Record
  <2> QED
    BY <2>1, <2>2
<1>29. ASSUME NEW p \in Finals, ClaimUpload(p) PROVE ReviewInv'
  BY <1>29 DEF ClaimUpload, Consume
<1>30. ASSUME NEW p \in Finals, RefuseUpload(p) PROVE ReviewInv'
  BY <1>30 DEF RefuseUpload, Consume
<1>31. ASSUME NEW p \in Finals, StepUpload(p) PROVE ReviewInv'
  BY <1>31 DEF StepUpload, Consume
<1>32. ASSUME NEW p \in Finals, PublishUpload(p) PROVE ReviewInv'
  BY <1>32 DEF PublishUpload, Consume
<1>33. CASE UNCHANGED vars
  BY <1>33 DEF vars
<1> HIDE DEF RecordTypes, Segment, Job, Worker, ReviewInv, Finalizing, Idle
<1> QED
  BY <1>1, <1>2, <1>3, <1>4, <1>5, <1>6, <1>7, <1>8, <1>9, <1>10, <1>11, <1>12,
     <1>13, <1>14, <1>15, <1>16, <1>17, <1>18, <1>19, <1>20, <1>21, <1>22, <1>23,
     <1>24, <1>25, <1>26, <1>27, <1>28, <1>29, <1>30, <1>31, <1>32, <1>33 DEF Next,
     Reviewer, WorkerSteps, Consumer

(* A current approval is of someone who watched the path's content, unless  *)
(* it was replaced without a new revision.  A row that is out stays out.    *)
SeenInv ==
    /\ job.action = "approve_publish" /\ job.fresh => job.seen \/ rewritten
    /\ \A p \in Finals :
          p = seg.final /\ (seg.approved \/ At("approved")) => queue[p].status # "staged"

LEMMA InitSeen == Init => SeenInv
<1> SUFFICES ASSUME Init PROVE SeenInv
  OBVIOUS
<1> USE DEF Init, FirstSegment, SeenInv, Idle
<1>1. CASE InitUnkept
  BY <1>1 DEF InitUnkept
<1>2. CASE InitKept
  BY <1>2 DEF InitKept
<1>3. CASE InitUnstaged
  BY <1>3 DEF InitUnstaged
<1>4. CASE InitMissed
  BY <1>4 DEF InitMissed
<1> QED
  BY <1>1, <1>2, <1>3, <1>4

(* Every step keeps it.                                                     *)
LEMMA StepSeen ==
    ASSUME RecordTypes, ReviewInv, SeenInv, [Next]_vars PROVE SeenInv'
<1>e. ASSUME Raise PROVE SeenInv'
  BY <1>e, FailureKeeps DEF Raise, SeenInv
<1> USE DEF RecordTypes, Reads, Segment, Job, Worker, ReviewInv, SeenInv,
         Finalizing, Idle, Kept, Q!Row, Q!NoRow
<1>1. ASSUME NEW r \in Ranges, NEW db \in BOOLEAN, EditRange(r, db) PROVE SeenInv'
  BY <1>1 DEF EditRange, WithRange, Invalidated, InvalidateFinal, Invalidable,
     Unpublished, Withdraw, Staged, Change, Record
<1>2. ASSUME NEW r \in Ranges, NEW db \in BOOLEAN, ManualKeep(r, db) PROVE SeenInv'
  BY <1>2 DEF ManualKeep, Unpublished, Change, Record
<1>3. ASSUME NEW y \in Styles, NEW db \in BOOLEAN, EditStyle(y, db) PROVE SeenInv'
  BY <1>3 DEF EditStyle, Invalidated, InvalidateFinal, Invalidable, Unpublished,
     Withdraw, Staged, Change, Record
<1>4. ASSUME NEW t \in Texts, NEW db \in BOOLEAN, EditSubtitles(t, db) PROVE SeenInv'
  BY <1>4 DEF EditSubtitles, Invalidated, InvalidateFinal, Invalidable, Unpublished,
     Withdraw, Staged, Change, Record
<1>5. ASSUME NEW db \in BOOLEAN, EditInterrupted(db) PROVE SeenInv'
  BY <1>5 DEF EditInterrupted, InvalidateFinal, Invalidable, Unpublished, Withdraw,
     Staged, Change, Record
<1>6. ASSUME NEW db \in BOOLEAN, Drop(db) PROVE SeenInv'
  BY <1>6 DEF Drop, Unpublished, Withdraw, Change, Record
<1>7. ASSUME NEW r \in Ranges, NEW y \in Styles,
                NEW edited \in {{}} \cup {{t} : t \in Texts}, NEW db \in BOOLEAN, RequestFinalize(r, y, edited, db) PROVE SeenInv'
  BY <1>7 DEF RequestFinalize, Prepared, WithRange, Invalidated, InvalidateFinal,
     Invalidable, Unpublished, Withdraw, Staged, Change, Record
<1>8. ASSUME NEW db \in BOOLEAN, CompleteReview(db) PROVE SeenInv'
  BY <1>8 DEF CompleteReview
<1>9. ASSUME NEW action \in {"retry_judge", "render_segment"}, RequestAction(action) PROVE SeenInv'
  BY <1>9 DEF RequestAction, QueuedSegment, Enqueue
<1>10. ASSUME NEW p \in Finals, NEW current \in BOOLEAN, RequestApproval(p, current) PROVE SeenInv'
  BY <1>10 DEF RequestApproval, QueuedSegment, Enqueue
<1>11. CASE Claim
  BY <1>11 DEF Claim
<1>12. CASE StartFinalize
  <2>1. CASE Raise
    BY <1>e, <2>1
  <2>2. CASE worker' = Planned(seg) /\ UNCHANGED <<seg, queue, history>>
             /\ job' = [job EXCEPT !.validated = TRUE]
    BY <2>2, PlannedTyped
  <2> QED
    BY <1>12, <2>1, <2>2 DEF StartFinalize
<1>13. CASE Burn
  BY <1>13 DEF Burn
<1>14. CASE WriteMetadata
  BY <1>14 DEF WriteMetadata
<1>15. CASE MarkReady
  BY <1>15 DEF MarkReady, Save, Record, Produced
<1>16. CASE WithdrawDeferred
  BY <1>16 DEF WithdrawDeferred, Withdraw
<1>17. CASE StageFinal
  BY <1>17 DEF StageFinal, StagedRow
<1>18. CASE Succeed
  BY <1>18 DEF Succeed, Save, Record, Produced
<1>19. CASE SucceedRaises
  BY <1>19 DEF SucceedRaises, Failing, Record
<1>20. CASE StageFails
  <2>1. CASE FailFinalize
    BY <1>20, <2>1 DEF StageFails, FailFinalize, Save, Record
  <2> QED
    BY <1>20, <1>e, <2>1 DEF StageFails
<1>21. CASE RecordRaises
  BY <1>21, <1>e DEF RecordRaises
<1>22. CASE RecordApproval
  BY <1>22 DEF RecordApproval, Save, Record
<1>23. CASE CutMissed
  <2>1. CASE Raise
    BY <1>e, <2>1
  <2>2. CASE /\ seg' = [seg EXCEPT !.preview = TRUE, !.judge = "manual_keep",
                                  !.upload = "not_queued"]
             /\ ~rewritten' /\ UNCHANGED queue
             /\ At("done")'
             /\ job.action # "approve_publish" /\ job' = Bumped
    BY <2>2
  <2>3. CASE ~Raise
    BY <1>23, <2>2, <2>3 DEF CutMissed, Save, Record
  <2> QED
    BY <2>1, <2>3
<1>24. CASE FinishJob
  BY <1>24 DEF FinishJob
<1>25. CASE CrashWorker
  BY <1>25 DEF CrashWorker
<1>26. ASSUME NEW db \in BOOLEAN, NEW y \in Styles,
               StartRender(y, db) PROVE SeenInv'
  <2>1. CASE /\ Invalidable(db)
             /\ Change(Prepared(seg.range, y, {}), db)
             /\ job' = Bumped
             /\ worker' = Planned(Prepared(seg.range, y, {}))
             /\ \A p \in Finals : queue'[p] \in {queue[p], Q!NoRow}
             /\ job.action = "render_segment"
    BY <2>1, PreparedKeeps, PlannedTyped, EditedTypes
       DEF Invalidable, Unpublished, Change, Record
  <2>2. CASE worker' = Idle /\ UNCHANGED <<seg, job, rewritten>>
             /\ \A p \in Finals : queue'[p] \in {queue[p], Q!NoRow}
    BY <2>2 DEF Idle
  <2>3. CASE Raise
    BY <1>e, <2>3
  <2> QED
    BY <1>26, <2>1, <2>2, <2>3 DEF StartRender, InvalidateFinal, Withdraw
<1>27. ASSUME NEW db \in BOOLEAN, Activate(db) PROVE SeenInv'
  <2>1. CASE Raise
    BY <1>e, <2>1
  <2>2. CASE ~Raise
    <3>1. seg.final \in Finals
      BY <1>27, <2>2 DEF Activate, Approvable, FinalExists
    <3>2. queue'[seg.final].status # "staged"
      BY <1>27, <2>2, <3>1 DEF Activate, Approvable, Q!Activated, Q!ResumePhase
    <3>3. \A q \in Finals \ {seg.final} : queue'[q] = queue[q]
      BY <1>27, <2>2, <3>1 DEF Activate
    <3>4. /\ UNCHANGED <<seg, job, history>>
          /\ worker' = [worker EXCEPT !.at = "approved", !.status = worker'.status]
      BY <1>27, <2>2 DEF Activate
    <3>5. ~At("done") /\ ~At("raised") /\ worker'.at = "approved"
      BY <1>27, <3>4 DEF Activate
    <3> QED
      BY <3>2, <3>3, <3>4, <3>5
  <2> QED
    BY <2>1, <2>2
<1>28. ASSUME NEW db \in BOOLEAN,
                NEW verdict \in Judgements \ {"manual_keep"}, RetryJudge(db, verdict) PROVE SeenInv'
  <2>1. CASE Raise
    BY <1>e, <2>1
  <2>2. CASE ~Raise
    BY <2>2, <1>28 DEF RetryJudge, Unpublished, Change, Record
  <2> QED
    BY <2>1, <2>2
<1>29. ASSUME NEW p \in Finals, ClaimUpload(p) PROVE SeenInv'
  BY <1>29 DEF ClaimUpload, Consume, Q!Claimed
<1>30. ASSUME NEW p \in Finals, RefuseUpload(p) PROVE SeenInv'
  BY <1>30 DEF RefuseUpload, Consume, Q!Failed
<1>31. ASSUME NEW p \in Finals, StepUpload(p) PROVE SeenInv'
  <2>1. queue'[p].status # "staged"
    <3>1. /\ Q!Completed(queue[p]).status # "staged"
          /\ Q!Failed(queue[p]).status # "staged"
          /\ Q!Requeued(queue[p]).status # "staged"
      BY DEF Q!Completed, Q!Failed, Q!Requeued, Q!ResumePhase
    <3>2. queue[p].status \in {"uploading", "publishing"} =>
              Q!Recovered(queue[p]).status # "staged"
      BY DEF Q!Recovered, Q!ResumePhase
    <3> QED
      BY <1>31, <3>1, <3>2 DEF StepUpload, Consume
  <2>2. \A q \in Finals \ {p} : queue'[q] = queue[q]
    BY <1>31 DEF StepUpload, Consume
  <2> QED
    BY <1>31, <2>1, <2>2 DEF StepUpload
<1>32. ASSUME NEW p \in Finals, PublishUpload(p) PROVE SeenInv'
  BY <1>32 DEF PublishUpload, Consume, Q!Published
<1>33. CASE UNCHANGED vars
  BY <1>33 DEF vars
<1> HIDE DEF RecordTypes, Reads, Segment, Job, Worker, ReviewInv, SeenInv,
          Finalizing, Idle, Kept, Q!Row, Q!NoRow
<1> QED
  BY <1>1, <1>2, <1>3, <1>4, <1>5, <1>6, <1>7, <1>8, <1>9, <1>10, <1>11, <1>12,
     <1>13, <1>14, <1>15, <1>16, <1>17, <1>18, <1>19, <1>20, <1>21, <1>22, <1>23,
     <1>24, <1>25, <1>26, <1>27, <1>28, <1>29, <1>30, <1>31, <1>32, <1>33 DEF Next,
     Reviewer, WorkerSteps, Consumer

(* Where a staged row can be found: what is finalized is the segment's      *)
(* final from the request on, and what was its final is in its history.     *)
KnownInv ==
    /\ job.action = "finalize_segment" => seg.final = CutOf(seg)
    /\ worker.at \in Finalizing => worker.plan = seg.final
    /\ \A p \in Finals : queue[p].status = "staged" => p \in seg.history \cup {seg.final}

LEMMA InitKnown == Init => KnownInv
<1> SUFFICES ASSUME Init PROVE KnownInv
  OBVIOUS
<1> USE DEF Init, FirstSegment, KnownInv, Finalizing, Idle, Q!NoRow, Q!NewRow
<1>1. CASE InitUnkept
  BY <1>1 DEF InitUnkept
<1>2. CASE InitKept
  BY <1>2 DEF InitKept
<1>3. CASE InitUnstaged
  BY <1>3 DEF InitUnstaged
<1>4. CASE InitMissed
  BY <1>4 DEF InitMissed
<1> QED
  BY <1>1, <1>2, <1>3, <1>4

(* Every step keeps staged rows in sight.                                   *)
LEMMA StepKnown ==
    ASSUME RecordTypes, ReviewInv, KnownInv, [Next]_vars PROVE KnownInv'
<1>e. ASSUME Raise PROVE KnownInv'
  BY <1>e, FailureKeeps DEF Raise, KnownInv, Finalizing, CutOf
<1> USE DEF RecordTypes, Reads, Segment, Job, Worker, ReviewInv, KnownInv,
         Finalizing, CutOf, Q!Row, Q!NoRow
<1>1. ASSUME NEW r \in Ranges, NEW db \in BOOLEAN, EditRange(r, db) PROVE KnownInv'
  BY <1>1 DEF EditRange, WithRange, Invalidated, InvalidateFinal, Invalidable,
     Unpublished, Withdraw, Staged, Change, Record
<1>2. ASSUME NEW r \in Ranges, NEW db \in BOOLEAN, ManualKeep(r, db) PROVE KnownInv'
  BY <1>2 DEF ManualKeep, Unpublished, Change, Record
<1>3. ASSUME NEW y \in Styles, NEW db \in BOOLEAN, EditStyle(y, db) PROVE KnownInv'
  BY <1>3 DEF EditStyle, Invalidated, InvalidateFinal, Invalidable, Unpublished,
     Withdraw, Staged, Change, Record
<1>4. ASSUME NEW t \in Texts, NEW db \in BOOLEAN, EditSubtitles(t, db) PROVE KnownInv'
  BY <1>4 DEF EditSubtitles, Invalidated, InvalidateFinal, Invalidable, Unpublished,
     Withdraw, Staged, Change, Record
<1>5. ASSUME NEW db \in BOOLEAN, EditInterrupted(db) PROVE KnownInv'
  BY <1>5 DEF EditInterrupted, InvalidateFinal, Invalidable, Unpublished, Withdraw,
     Staged, Change, Record
<1>6. ASSUME NEW db \in BOOLEAN, Drop(db) PROVE KnownInv'
  BY <1>6 DEF Drop, Unpublished, Withdraw, Change, Record
<1>7. ASSUME NEW r \in Ranges, NEW y \in Styles,
                NEW edited \in {{}} \cup {{t} : t \in Texts}, NEW db \in BOOLEAN, RequestFinalize(r, y, edited, db) PROVE KnownInv'
  <2>1. \A q \in Finals : queue'[q] \in {queue[q], Q!NoRow}
    BY <1>7 DEF RequestFinalize, InvalidateFinal, Withdraw
  <2>2. seg' = Prepared(r, y, edited) /\ UNCHANGED worker /\ At("idle")
    BY <1>7 DEF RequestFinalize, Change, Record
  <2>3. job'.action = "finalize_segment" => seg'.final = CutOf(seg')
    BY <2>2, PreparedRemembers
  <2>4. seg.history \subseteq seg'.history
    BY <2>2, PreparedRemembers
  <2>5. \A q \in Finals : q = seg.final => q \in seg'.history
    <3>1. seg.final # NoPath => seg.final \in seg'.history
      BY <2>2, PreparedRemembers
    <3> HIDE DEF RecordTypes, Segment, KnownInv, ReviewInv
    <3> QED
      BY <3>1, ReviewPathAssumption
  <2> QED
    BY <2>1, <2>2, <2>3, <2>4, <2>5
<1>8. ASSUME NEW db \in BOOLEAN, CompleteReview(db) PROVE KnownInv'
  BY <1>8 DEF CompleteReview
<1>9. ASSUME NEW action \in {"retry_judge", "render_segment"}, RequestAction(action) PROVE KnownInv'
  BY <1>9 DEF RequestAction, QueuedSegment, Enqueue
<1>10. ASSUME NEW p \in Finals, NEW current \in BOOLEAN, RequestApproval(p, current) PROVE KnownInv'
  BY <1>10 DEF RequestApproval, QueuedSegment, Enqueue
<1>11. CASE Claim
  BY <1>11 DEF Claim
<1>12. CASE StartFinalize
  <2>1. CASE Raise
    BY <1>e, <2>1
  <2>2. CASE ~Raise
    <3>1. worker' = Planned(seg) /\ UNCHANGED <<seg, queue>> /\ job.action = "finalize_segment"
      BY <1>12, <2>2 DEF StartFinalize
    <3>2. job'.action = job.action
      BY <1>12, <2>2 DEF StartFinalize
    <3> QED
      BY <3>1, <3>2 DEF Planned
  <2> QED
    BY <2>1, <2>2
<1>13. CASE Burn
  BY <1>13 DEF Burn
<1>14. CASE WriteMetadata
  BY <1>14 DEF WriteMetadata
<1>15. CASE MarkReady
  BY <1>15 DEF MarkReady, Save, Record, Produced
<1>16. CASE WithdrawDeferred
  BY <1>16 DEF WithdrawDeferred, Withdraw
<1>17. CASE StageFinal
  BY <1>17 DEF StageFinal, StagedRow
<1>18. CASE Succeed
  BY <1>18 DEF Succeed, Save, Record, Produced
<1>19. CASE SucceedRaises
  BY <1>19 DEF SucceedRaises, Failing, Record
<1>20. CASE StageFails
  <2>1. CASE FailFinalize
    BY <1>20, <2>1 DEF StageFails, FailFinalize, Save, Record
  <2> QED
    BY <1>20, <1>e, <2>1 DEF StageFails
<1>21. CASE RecordRaises
  BY <1>21, <1>e DEF RecordRaises
<1>22. CASE RecordApproval
  BY <1>22 DEF RecordApproval, Save, Record
<1>23. CASE CutMissed
  <2>1. CASE Raise
    BY <1>e, <2>1
  <2>2. CASE ~Raise
    <3>1. /\ UNCHANGED queue /\ job' = Bumped /\ worker' = [worker EXCEPT !.at = "done"]
          /\ ~blind' => ~blind
      BY <1>23, <2>2 DEF CutMissed, Save, Record
    <3>2. /\ seg'.final = seg.final /\ seg'.history = seg.history
          /\ seg'.range = seg.range /\ seg'.style = seg.style
      <4> HIDE DEF Job, Worker, Q!Row, Q!NoRow, ReviewInv, Finalizing
      <4> QED
        BY <1>23, <2>2 DEF CutMissed, Save, Record
    <3>3. job'.action = job.action /\ worker'.at = "done"
      BY <3>1
    <3> QED
      BY <3>1, <3>2, <3>3
  <2> QED
    BY <2>1, <2>2
<1>24. CASE FinishJob
  BY <1>24 DEF FinishJob, Idle
<1>25. CASE CrashWorker
  BY <1>25 DEF CrashWorker, Idle
<1>26. ASSUME NEW db \in BOOLEAN, NEW y \in Styles,
               StartRender(y, db) PROVE KnownInv'
  <2> DEFINE new == Prepared(seg.range, y, {})
  <2>1. CASE Raise
    BY <1>e, <2>1
  <2>2. ASSUME ~Raise PROVE \A q \in Finals : queue'[q] \in {queue[q], Q!NoRow}
    BY <1>26, <2>2 DEF StartRender, InvalidateFinal, Withdraw
  <2>3. CASE worker' = Idle /\ UNCHANGED <<seg, job>> /\ ~Raise
    BY <2>2, <2>3 DEF Idle
  <2>4. CASE seg' = new /\ job' = Bumped /\ worker' = Planned(new) /\ ~Raise
    <3>1. worker'.plan = CutOf(new)
      BY <2>4 DEF Planned
    <3>2. job'.action = "render_segment"
      BY <1>26, <2>4 DEF StartRender
    <3>3. /\ new.final = CutOf(new) /\ seg.history \subseteq new.history
          /\ seg.final # NoPath => seg.final \in new.history
      BY PreparedRemembers
    <3> HIDE DEF new
    <3>4. \A q \in Finals : q = seg.final => q \in new.history
      BY <3>3, ReviewPathAssumption
    <3> QED
      BY <2>2, <2>4, <3>1, <3>2, <3>3, <3>4
  <2> QED
    BY <1>26, <2>1, <2>3, <2>4 DEF StartRender, Change, Record
<1>27. ASSUME NEW db \in BOOLEAN, Activate(db) PROVE KnownInv'
  <2>1. CASE Raise
    BY <1>e, <2>1
  <2>2. CASE ~Raise
    <3>1. seg.final \in Finals
      BY <1>27, <2>2 DEF Activate, Approvable, FinalExists
    <3>2. \A q \in Finals \ {seg.final} : queue'[q] = queue[q]
      BY <1>27, <2>2, <3>1 DEF Activate
    <3>3. UNCHANGED <<seg, job>> /\ worker'.at = "approved"
      BY <1>27, <2>2 DEF Activate
    <3> QED
      BY <3>2, <3>3
  <2> QED
    BY <2>1, <2>2
<1>28. ASSUME NEW db \in BOOLEAN,
                NEW verdict \in Judgements \ {"manual_keep"}, RetryJudge(db, verdict) PROVE KnownInv'
  <2>1. CASE Raise
    BY <1>e, <2>1
  <2>2. CASE ~Raise
    <3>1. /\ UNCHANGED queue /\ job' = Bumped /\ worker' = [worker EXCEPT !.at = "done"]
          /\ ~blind' => ~blind
      BY <1>28, <2>2 DEF RetryJudge, Change, Record
    <3>2. /\ seg'.final = seg.final /\ seg'.history = seg.history
          /\ seg'.range = seg.range /\ seg'.style = seg.style
      <4> HIDE DEF Job, Worker, Q!Row, Q!NoRow, ReviewInv, Finalizing
      <4> QED
        BY <1>28, <2>2 DEF RetryJudge, Change, Record
    <3>3. job'.action = job.action /\ worker'.at = "done"
      BY <3>1
    <3> QED
      BY <3>1, <3>2, <3>3
  <2> QED
    BY <2>1, <2>2
<1>29. ASSUME NEW p \in Finals, ClaimUpload(p) PROVE KnownInv'
  BY <1>29 DEF ClaimUpload, Consume, Q!Claimed
<1>30. ASSUME NEW p \in Finals, RefuseUpload(p) PROVE KnownInv'
  BY <1>30 DEF RefuseUpload, Consume, Q!Failed
<1>31. ASSUME NEW p \in Finals, StepUpload(p) PROVE KnownInv'
  <2>1. queue'[p].status # "staged"
    <3>1. /\ Q!Completed(queue[p]).status # "staged"
          /\ Q!Failed(queue[p]).status # "staged"
          /\ Q!Requeued(queue[p]).status # "staged"
      BY DEF Q!Completed, Q!Failed, Q!Requeued, Q!ResumePhase
    <3>2. queue[p].status \in {"uploading", "publishing"} =>
              Q!Recovered(queue[p]).status # "staged"
      BY DEF Q!Recovered, Q!ResumePhase
    <3> QED
      BY <1>31, <3>1, <3>2 DEF StepUpload, Consume
  <2>2. \A q \in Finals \ {p} : queue'[q] = queue[q]
    BY <1>31 DEF StepUpload, Consume
  <2> QED
    BY <1>31, <2>1, <2>2 DEF StepUpload
<1>32. ASSUME NEW p \in Finals, PublishUpload(p) PROVE KnownInv'
  BY <1>32 DEF PublishUpload, Consume, Q!Published
<1>33. CASE UNCHANGED vars
  BY <1>33 DEF vars
<1> HIDE DEF RecordTypes, Reads, Segment, Job, Worker, ReviewInv, KnownInv,
          Finalizing, CutOf, Q!Row, Q!NoRow
<1> QED
  BY <1>1, <1>2, <1>3, <1>4, <1>5, <1>6, <1>7, <1>8, <1>9, <1>10, <1>11, <1>12,
     <1>13, <1>14, <1>15, <1>16, <1>17, <1>18, <1>19, <1>20, <1>21, <1>22, <1>23,
     <1>24, <1>25, <1>26, <1>27, <1>28, <1>29, <1>30, <1>31, <1>32, <1>33 DEF Next,
     Reviewer, WorkerSteps, Consumer

(* Why a preview that may be approved shows what its path holds: whoever    *)
(* rewrites a final, or means to, has taken its row or its preview away, and *)
(* both come back only with a new revision.  A staged row has its file.     *)
Unshown == seg.preview => (seg.final \in Finals => queue[seg.final].status # "staged")

ShownInv ==
    /\ finals \in [Finals -> Subtitles \cup {NoFile}]
    /\ rewritten \/ seg.burn => Unshown
    /\ worker.at \in {"withdraw", "stage", "succeed"} => ~rewritten /\ ~seg.burn
    /\ At("render") => worker.burn = seg.burn
    /\ \A p \in Finals : queue[p].status = "staged" =>
          /\ finals[p] # NoFile
          /\ seg.preview => seg.final # NoPath
          /\ job.action # "create_missed_segment"
    /\ worker.at \in Finalizing \ {"render"} =>
          finals[worker.plan] # NoFile \/ queue[worker.plan].status = "published"

LEMMA InitShown == Init => ShownInv
<1> SUFFICES ASSUME Init PROVE ShownInv
  OBVIOUS
<1> USE DEF Init, FirstSegment, ShownInv, Unshown, Finalizing, Subtitles, Idle, Q!NoRow, Q!NewRow
<1>1. CASE InitUnkept
  BY <1>1 DEF InitUnkept
<1>2. CASE InitKept
  <2>1. NoPath \notin Finals /\ Clip # NoPath /\ Spoken # NoFile
    BY ReviewPathAssumption, Members DEF Spoken, NoFile
  <2> QED
    BY <1>2, <2>1 DEF InitKept
<1>3. CASE InitUnstaged
  <2>1. PICK rendered \in BOOLEAN :
           /\ seg = [FirstSegment EXCEPT !.judge = "judge_failed", !.preview = rendered,
                        !.final = Clip, !.candidate = Clip]
           /\ finals = [p \in Finals |-> IF p = Clip /\ rendered THEN Spoken ELSE NoFile]
    BY <1>3 DEF InitUnstaged
  <2>2. finals \in [Finals -> Subtitles \cup {NoFile}] /\ ~seg.burn
    BY <2>1
  <2> QED
    BY <1>3, <2>2 DEF InitUnstaged
<1>4. CASE InitMissed
  BY <1>4 DEF InitMissed
<1> QED
  BY <1>1, <1>2, <1>3, <1>4

(* A change of the segment that keeps the preview keeps the final with it,  *)
(* or there was none and nothing is staged.                                 *)
LEMMA ChangeShown ==
    ASSUME RecordTypes, ShownInv, ~rewritten', UNCHANGED finals,
           \A q \in Finals : queue'[q] \in {queue[q], Q!NoRow},
           seg'.preview => /\ seg.preview
                           /\ seg.final = NoPath \/ (/\ seg'.final = seg.final
                                                     /\ seg'.burn = seg.burn),
           job'.action \in {job.action, "none", "finalize_segment"},
           worker'.at \notin Finalizing \/ (At("render")' /\ worker'.burn = seg'.burn)
    PROVE  ShownInv'
<1>1. \A q \in Finals : queue'[q].status = "staged" => queue[q].status = "staged"
  BY DEF Q!NoRow
<1>2. seg'.preview /\ seg.final = NoPath => \A q \in Finals : queue[q].status # "staged"
  BY DEF ShownInv
<1>3. seg'.burn => Unshown'
  BY <1>1, <1>2 DEF ShownInv, Unshown
<1>4. \A p \in Finals : queue'[p].status = "staged" =>
          /\ finals'[p] # NoFile
          /\ seg'.preview => seg'.final # NoPath
          /\ job'.action # "create_missed_segment"
  BY <1>1, <1>2 DEF ShownInv
<1> QED
  BY <1>3, <1>4 DEF ShownInv, Finalizing

(* Every edit is such a change.                                             *)
LEMMA EditKeepsPreview ==
    ASSUME RecordTypes, NEW r \in Ranges, NEW y \in Styles,
           NEW edited \in {{}} \cup {{t} : t \in Texts},
           NEW s \in {WithRange(Invalidated, r), [Invalidated EXCEPT !.style = y],
                     Prepared(r, y, edited)}
    PROVE  s.preview => seg.preview /\ (seg.final = NoPath \/ (/\ s.final = seg.final
                                                               /\ s.burn = seg.burn))
<1>1. Invalidated \in Segment
  BY EditedTypes
<1>2. seg.final # NoPath => ~Invalidated.preview
  BY DEF RecordTypes, Segment, Invalidated
<1>3. seg.final = NoPath => Invalidated = seg
  BY DEF Invalidated
<1>4. s.preview = Invalidated.preview
  <2>1. [Invalidated EXCEPT !.style = y].preview = Invalidated.preview
    BY <1>1 DEF Segment
  <2>2. WithRange(Invalidated, r).preview = Invalidated.preview
    BY <1>1 DEF Segment, WithRange
  <2>3. Prepared(r, y, edited).preview = Invalidated.preview
    <3> DEFINE ranged == WithRange(Invalidated, r)
    <3>1. /\ ranged.preview = Invalidated.preview
          /\ DOMAIN ranged = DOMAIN Invalidated
          /\ DOMAIN Invalidated = {"range", "style", "subs", "burn", "judge", "upload",
                "approved", "preview", "final", "candidate", "history"}
      BY <1>1 DEF Segment, WithRange
    <3> HIDE DEF ranged
    <3>2. CASE edited = {}
      BY <3>1, <3>2 DEF Prepared, ranged
    <3>3. CASE edited # {}
      BY <3>1, <3>3 DEF Prepared, ranged
    <3> QED
      BY <3>2, <3>3
  <2> QED
    BY <2>1, <2>2, <2>3
<1> QED
  BY <1>2, <1>3, <1>4

(* Every step keeps it.                                                     *)
LEMMA StepShown ==
    ASSUME RecordTypes, ReviewInv, KnownInv, ShownInv, [Next]_vars PROVE ShownInv'
<1> USE DEF Q!NoRow
<1>a. ASSUME NoJobActive PROVE At("idle")
  BY <1>a DEF ReviewInv
<1>b. At("idle") => worker.at \notin Finalizing
  BY DEF Finalizing
<1>c. worker.at \in Finalizing => worker.plan = seg.final /\ worker.plan \in Finals
  BY DEF KnownInv, RecordTypes, Reads
<1>d. NoPath \notin Finals
  BY ReviewPathAssumption
<1>e. ASSUME Raise PROVE ShownInv'
  BY <1>e, FailureKeeps DEF Raise, ShownInv, Unshown, Finalizing
<1>f. ASSUME UNCHANGED <<finals, rewritten>>, NEW p \in Finals, NEW row, queue[p].status # "staged",
             row.status # "staged", queue[p].status = "published" => row.status = "published",
             Consume(p, row), UNCHANGED <<seg, job, worker>>
      PROVE  ShownInv'
  <2>1. queue'[p] = row /\ \A q \in Finals \ {p} : queue'[q] = queue[q]
    BY <1>f DEF Consume, RecordTypes
  <2> QED
    BY <1>c, <1>f, <2>1 DEF ShownInv, Unshown
<1>1. ASSUME NEW r \in Ranges, NEW db \in BOOLEAN, EditRange(r, db) PROVE ShownInv'
  <2>1. seg'.preview => seg.preview /\ (seg.final = NoPath \/ (/\ seg'.final = seg.final
                                                               /\ seg'.burn = seg.burn))
    BY <1>1, EditKeepsPreview, ReviewFirstAssumption,
       {} \in {{}} \cup {{t} : t \in Texts} DEF EditRange, Change, Record
  <2> QED
    BY <1>1, <2>1, <1>a, <1>b, ChangeShown DEF EditRange, InvalidateFinal, Withdraw, Change
<1>2. ASSUME NEW r \in Ranges, NEW db \in BOOLEAN, ManualKeep(r, db) PROVE ShownInv'
  <2>1. /\ seg'.preview = seg.preview /\ seg'.final = seg.final /\ seg'.burn = seg.burn
    BY <1>2 DEF ManualKeep, Change, Record, RecordTypes, Segment
  <2> QED
    BY <1>2, <2>1, <1>a, <1>b, ChangeShown DEF ManualKeep, Change
<1>3. ASSUME NEW y \in Styles, NEW db \in BOOLEAN, EditStyle(y, db) PROVE ShownInv'
  <2>1. seg'.preview => seg.preview /\ (seg.final = NoPath \/ (/\ seg'.final = seg.final
                                                               /\ seg'.burn = seg.burn))
    BY <1>3, EditKeepsPreview, ReviewFirstAssumption,
       {} \in {{}} \cup {{t} : t \in Texts} DEF EditStyle, Change, Record
  <2> QED
    BY <1>3, <2>1, <1>a, <1>b, ChangeShown DEF EditStyle, InvalidateFinal, Withdraw, Change
<1>4. ASSUME NEW t \in Texts, NEW db \in BOOLEAN, EditSubtitles(t, db) PROVE ShownInv'
  <2>1. ~seg'.preview
    BY <1>4, EditedTypes DEF EditSubtitles, Change, Record, Segment
  <2> QED
    BY <1>4, <2>1, <1>a, <1>b, ChangeShown
       DEF EditSubtitles, InvalidateFinal, Withdraw, Change
<1>5. ASSUME NEW db \in BOOLEAN, EditInterrupted(db) PROVE ShownInv'
  <2>1. \A q \in Finals : queue'[q].status = "staged" => queue[q].status = "staged"
    BY <1>5 DEF EditInterrupted, InvalidateFinal, Withdraw
  <2> QED
    BY <1>5, <2>1, <1>a, <1>b DEF EditInterrupted, ShownInv, Unshown, Finalizing
<1>6. ASSUME NEW db \in BOOLEAN, Drop(db) PROVE ShownInv'
  <2>1. /\ seg'.preview = seg.preview /\ seg'.final = seg.final /\ seg'.burn = seg.burn
    BY <1>6 DEF Drop, Change, Record, RecordTypes, Segment
  <2> QED
    BY <1>6, <2>1, <1>a, <1>b, ChangeShown DEF Drop, Withdraw, Change
<1>7. ASSUME NEW r \in Ranges, NEW y \in Styles,
             NEW edited \in {{}} \cup {{t} : t \in Texts}, NEW db \in BOOLEAN,
             RequestFinalize(r, y, edited, db)
      PROVE  ShownInv'
  <2>1. seg'.preview => seg.preview /\ (seg.final = NoPath \/ (/\ seg'.final = seg.final
                                                               /\ seg'.burn = seg.burn))
    BY <1>7, EditKeepsPreview DEF RequestFinalize, Change, Record
  <2> QED
    BY <1>7, <2>1, <1>a, <1>b, ChangeShown DEF RequestFinalize, InvalidateFinal, Withdraw, Change
<1>8. ASSUME NEW db \in BOOLEAN, CompleteReview(db) PROVE ShownInv'
  BY <1>8 DEF CompleteReview, ShownInv, Unshown
<1>9. ASSUME NEW action \in {"retry_judge", "render_segment"}, RequestAction(action)
      PROVE  ShownInv'
  BY <1>9 DEF RequestAction, QueuedSegment, Enqueue, ShownInv, Unshown
<1>10. ASSUME NEW p \in Finals, NEW current \in BOOLEAN, RequestApproval(p, current)
       PROVE  ShownInv'
  BY <1>10 DEF RequestApproval, QueuedSegment, Enqueue, ShownInv, Unshown
<1>11. CASE Claim
  BY <1>11 DEF Claim, ShownInv, Unshown, Finalizing, RecordTypes, Worker
<1>12. CASE StartFinalize
  <2>1. CASE worker' = Planned(seg) /\ UNCHANGED <<seg, queue, finals, rewritten>>
             /\ job' = [job EXCEPT !.validated = TRUE]
    BY <2>1 DEF Planned, Idle, ShownInv, Unshown, Finalizing, RecordTypes, Job
  <2> QED
    BY <1>12, <1>e, <2>1 DEF StartFinalize
<1>13. CASE Burn
  <2>1. At("render") /\ At("metadata")' /\ worker'.plan = worker.plan /\ worker.plan \in Finals
    BY <1>13, <1>c DEF Burn, RecordTypes, Worker, Finalizing
  <2>2. CASE ReuseFinal /\ UNCHANGED <<finals, history>>
    BY <1>13, <2>1, <2>2 DEF Burn, ReuseFinal, ShownInv, Unshown, Finalizing
  <2>3. CASE ~ReuseFinal /\ finals' = [finals EXCEPT ![worker.plan] = worker.subs]
    <3>1. Unshown
      BY <2>1, <2>3, <1>c DEF ReuseFinal, ShownInv, Unshown, Finalizing
    <3>2. worker.subs # NoFile
      BY ReviewTextAssumption DEF RecordTypes, Worker, Subtitles, Spoken, NoFile
    <3>3. /\ finals'[worker.plan] # NoFile
          /\ \A q \in Finals \ {worker.plan} : finals'[q] = finals[q]
          /\ finals' \in [Finals -> Subtitles \cup {NoFile}]
      BY <2>1, <2>3, <3>2 DEF ShownInv, RecordTypes, Worker
    <3> QED
      BY <1>13, <2>1, <3>1, <3>3 DEF Burn, ShownInv, Unshown, Finalizing
  <2> QED
    BY <1>13, <2>2, <2>3 DEF Burn
<1>14. CASE WriteMetadata
  BY <1>14 DEF WriteMetadata, ShownInv, Unshown, Finalizing, RecordTypes, Worker
<1>15. CASE MarkReady
  <2>1. /\ ~rewritten' /\ UNCHANGED <<queue, finals>> /\ At("ready") /\ At("withdraw")'
        /\ worker'.plan = worker.plan /\ job'.action = job.action
    BY <1>15 DEF MarkReady, Save, RecordTypes, Worker, Job
  <2>2. ~seg'.burn /\ seg'.final = worker.plan /\ worker.plan \in Finals
    BY <1>15, <1>c DEF MarkReady, Save, Record, Produced, RecordTypes, Segment, Finalizing
  <2> QED
    BY <2>1, <2>2, <1>d DEF ShownInv, Unshown, Finalizing
<1>16. CASE WithdrawDeferred
  <2>1. \A q \in Finals : /\ queue'[q].status = "staged" => queue[q].status = "staged"
                          /\ queue[q].status = "published" => queue'[q] = queue[q]
    BY <1>16 DEF WithdrawDeferred, Withdraw, Withdrawable
  <2> QED
    BY <1>16, <2>1, <1>c DEF WithdrawDeferred, ShownInv, Unshown, Finalizing, RecordTypes, Worker
<1>17. CASE StageFinal
  <2>1. /\ At("stage") /\ At("succeed")' /\ worker'.plan = worker.plan /\ worker.plan = seg.final
        /\ worker.plan \in Finals /\ UNCHANGED <<seg, finals, job, rewritten>>
        /\ job.action # "create_missed_segment"
    BY <1>17, <1>c DEF StageFinal, RecordTypes, Worker, Finalizing, ReviewInv
  <2>2. \A q \in Finals \ {worker.plan} : queue'[q] = queue[q]
    BY <1>17, <2>1 DEF StageFinal
  <2>3. queue[worker.plan].status = "published" => queue'[worker.plan].status = "published"
    BY <1>17, <2>1 DEF StageFinal, StagedRow, RecordTypes
  <2> QED
    BY <2>1, <2>2, <2>3, <1>d DEF ShownInv, Unshown, Finalizing
<1>18. CASE Succeed
  <2>1. /\ ~rewritten' /\ UNCHANGED <<queue, finals>> /\ At("succeed") /\ At("done")'
        /\ job'.action = job.action
    BY <1>18 DEF Succeed, Save, RecordTypes, Worker, Job
  <2>2. ~seg'.burn /\ seg'.final = worker.plan /\ worker.plan \in Finals
    BY <1>18, <1>c DEF Succeed, Save, Record, Produced, RecordTypes, Segment, Finalizing
  <2> QED
    BY <2>1, <2>2, <1>d DEF ShownInv, Unshown, Finalizing
<1>19. CASE SucceedRaises
  <2>1. \A q \in Finals : queue'[q].status = "staged" => queue[q].status = "staged"
    BY <1>19 DEF SucceedRaises, RecordTypes
  <2> QED
    BY <1>19, <2>1, FailureKeeps DEF SucceedRaises, ShownInv, Unshown, Finalizing
<1>20. CASE StageFails
  <2>1. CASE FailFinalize
    <3>1. /\ seg'.final = seg.final /\ seg'.preview = seg.preview /\ seg'.burn = seg.burn
      BY <1>20, <2>1, <1>c DEF StageFails, FailFinalize, Save, Record, RecordTypes, Segment,
         Finalizing
    <3>2. ~rewritten' /\ At("raised")' /\ job'.action = job.action
      BY <2>1 DEF FailFinalize, Save, RecordTypes, Worker, Job
    <3> QED
      BY <2>1, <3>1, <3>2 DEF FailFinalize, ShownInv, Unshown, Finalizing
  <2> QED
    BY <1>20, <1>e, <2>1 DEF StageFails
<1>21. CASE RecordRaises
  BY <1>21, <1>e DEF RecordRaises
<1>22. CASE RecordApproval
  <2>1. /\ ~rewritten' /\ UNCHANGED <<queue, finals>> /\ At("done")' /\ job'.action = job.action
    BY <1>22 DEF RecordApproval, Save, RecordTypes, Worker, Job
  <2>2. /\ seg'.final = seg.final /\ seg'.preview = seg.preview /\ seg'.burn = seg.burn
    BY <1>22 DEF RecordApproval, Save, Record, RecordTypes, Segment
  <2> QED
    BY <2>1, <2>2 DEF ShownInv, Unshown, Finalizing
<1>23. CASE CutMissed
  <2>1. CASE ~Raise
    <3>1. /\ ~rewritten' /\ UNCHANGED <<queue, finals>> /\ At("done")' /\ job'.action = job.action
          /\ job.action = "create_missed_segment"
      BY <1>23, <2>1 DEF CutMissed, Save, RecordTypes, Worker, Job
    <3> QED
      BY <3>1 DEF ShownInv, Unshown, Finalizing
  <2> QED
    BY <1>e, <2>1
<1>24. CASE FinishJob
  BY <1>24 DEF FinishJob, Idle, ShownInv, Unshown, Finalizing
<1>25. CASE CrashWorker
  BY <1>25 DEF CrashWorker, Idle, ShownInv, Unshown, Finalizing
<1>26. ASSUME NEW db \in BOOLEAN, NEW y \in Styles, StartRender(y, db) PROVE ShownInv'
  <2> DEFINE new == Prepared(seg.range, y, {})
  <2>1. CASE /\ InvalidateFinal(db, FALSE) /\ Change(new, db) /\ job' = Bumped
             /\ worker' = Planned(new) /\ UNCHANGED finals
    <3>1. At("render")' /\ worker'.burn = seg'.burn /\ job'.action = job.action /\ ~rewritten'
      BY <2>1 DEF Planned, Idle, Change, Record, RecordTypes, Job
    <3>2. seg'.preview => seg.preview /\ (seg.final = NoPath \/ (/\ seg'.final = seg.final
                                                                 /\ seg'.burn = seg.burn))
      <4>1. seg.range \in Ranges
        BY DEF RecordTypes, Segment
      <4> QED
        BY <2>1, <4>1, EditKeepsPreview DEF Change, Record
    <3>3. \A q \in Finals : queue'[q] \in {queue[q], Q!NoRow}
      BY <2>1 DEF InvalidateFinal, Withdraw
    <3> HIDE DEF new
    <3> QED
      BY <2>1, <3>1, <3>2, <3>3, ChangeShown
  <2>2. CASE InvalidateFinal(db, FALSE) /\ worker' = Idle /\ UNCHANGED <<seg, finals, job, history>>
    <3>1. \A q \in Finals : queue'[q].status = "staged" => queue[q].status = "staged"
      BY <2>2 DEF InvalidateFinal, Withdraw
    <3> QED
      BY <2>2, <3>1 DEF Idle, ShownInv, Unshown, Finalizing
  <2> QED
    BY <1>26, <1>e, <2>1, <2>2 DEF StartRender
<1>27. ASSUME NEW db \in BOOLEAN, Activate(db) PROVE ShownInv'
  <2>1. CASE ~Raise
    <3>1. /\ seg.final \in Finals /\ At("approved")' /\ UNCHANGED <<seg, finals, job, rewritten>>
      BY <1>27, <2>1 DEF Activate, Approvable, FinalExists, RecordTypes, Segment, Worker
    <3>2. /\ queue'[seg.final].status # "staged"
          /\ \A q \in Finals \ {seg.final} : queue'[q] = queue[q]
      BY <1>27, <2>1, <3>1 DEF Activate, Q!Activated, Q!ResumePhase, RecordTypes, Q!Row
    <3> QED
      BY <3>1, <3>2 DEF ShownInv, Unshown, Finalizing
  <2> QED
    BY <1>e, <2>1
<1>28. ASSUME NEW db \in BOOLEAN, NEW verdict \in Judgements \ {"manual_keep"},
              RetryJudge(db, verdict)
       PROVE  ShownInv'
  <2>1. CASE ~Raise
    <3>1. /\ seg'.preview = seg.preview /\ seg'.final = seg.final /\ seg'.burn = seg.burn
      BY <1>28, <2>1 DEF RetryJudge, Change, Record, RecordTypes, Segment
    <3>2. /\ ~rewritten' /\ UNCHANGED <<queue, finals>> /\ At("done")' /\ job'.action = job.action
      BY <1>28, <2>1 DEF RetryJudge, Change, RecordTypes, Worker, Job
    <3> QED
      BY <3>1, <3>2 DEF ShownInv, Unshown, Finalizing
  <2> QED
    BY <1>e, <2>1
<1>29. ASSUME NEW p \in Finals, ClaimUpload(p) PROVE ShownInv'
  <2>1. Q!Claimed(queue[p]).status # "staged"
    BY DEF Q!Claimed, RecordTypes, Q!Row
  <2> QED
    BY <1>29, <2>1, <1>f DEF ClaimUpload, Q!Due, history
<1>30. ASSUME NEW p \in Finals, RefuseUpload(p) PROVE ShownInv'
  <2>1. Q!Failed(queue[p]).status # "staged"
    BY DEF Q!Failed, RecordTypes, Q!Row
  <2> QED
    BY <1>30, <2>1, <1>f DEF RefuseUpload, Q!Due, history
<1>31. ASSUME NEW p \in Finals, StepUpload(p) PROVE ShownInv'
  <2>1. /\ Q!Completed(queue[p]).status # "staged" /\ Q!Failed(queue[p]).status # "staged"
        /\ Q!Requeued(queue[p]).status # "staged"
    BY DEF Q!Completed, Q!Failed, Q!Requeued, Q!ResumePhase, RecordTypes, Q!Row
  <2>2. queue[p].status \in {"uploading", "publishing"} => Q!Recovered(queue[p]).status # "staged"
    BY DEF Q!Recovered, Q!ResumePhase, RecordTypes, Q!Row
  <2> QED
    BY <1>31, <2>1, <2>2, <1>f DEF StepUpload, history
<1>32. ASSUME NEW p \in Finals, PublishUpload(p) PROVE ShownInv'
  <2>1. /\ queue'[p].status = "published" /\ \A q \in Finals \ {p} : queue'[q] = queue[q]
        /\ UNCHANGED <<seg, job, worker, rewritten>>
    BY <1>32 DEF PublishUpload, Consume, Q!Published, RecordTypes, Q!Row, history
  <2>2. /\ \A q \in Finals \ {p} : finals'[q] = finals[q]
        /\ finals' \in [Finals -> Subtitles \cup {NoFile}]
    BY <1>32 DEF PublishUpload, ShownInv
  <2> QED
    BY <1>c, <2>1, <2>2 DEF ShownInv, Unshown
<1>33. CASE UNCHANGED vars
  BY <1>33 DEF vars, ShownInv, Unshown
<1> QED
  BY <1>1, <1>2, <1>3, <1>4, <1>5, <1>6, <1>7, <1>8, <1>9, <1>10, <1>11, <1>12,
     <1>13, <1>14, <1>15, <1>16, <1>17, <1>18, <1>19, <1>20, <1>21, <1>22, <1>23,
     <1>24, <1>25, <1>26, <1>27, <1>28, <1>29, <1>30, <1>31, <1>32, <1>33 DEF Next,
     Reviewer, WorkerSteps, Consumer

(* As long as no change was saved past an unread database, a row that is    *)
(* out belongs to the segment's final, and nobody makes another.            *)
OutInv ==
    ~blind => \A p \in Finals : queue[p].status \notin {"none", "staged"} =>
        p = seg.final /\ worker.at \notin Finalizing /\ job.action # "finalize_segment"

LEMMA InitOut == Init => OutInv
<1> SUFFICES ASSUME Init PROVE OutInv
  OBVIOUS
<1> USE DEF Init, OutInv, Q!NoRow, Q!NewRow
<1>1. CASE InitUnkept
  BY <1>1 DEF InitUnkept
<1>2. CASE InitKept
  BY <1>2 DEF InitKept
<1>3. CASE InitUnstaged
  BY <1>3 DEF InitUnstaged
<1>4. CASE InitMissed
  BY <1>4 DEF InitMissed
<1> QED
  BY <1>1, <1>2, <1>3, <1>4

(* An edit that is allowed by the database finds no row that is out.        *)
LEMMA NoneOut ==
    ASSUME RecordTypes, OutInv, ~blind, Invalidable(TRUE)
    PROVE  \A p \in Finals : queue[p].status \in {"none", "staged"}
BY DEF RecordTypes, OutInv, Invalidable, Unpublished, UploadPaths, Withdrawable


(* Every step keeps what is out apart from what is made.                    *)
LEMMA StepOut ==
    ASSUME RecordTypes, ReviewInv, OutInv, [Next]_vars PROVE OutInv'
<1>e. ASSUME Raise PROVE OutInv'
  BY <1>e, FailureKeeps DEF Raise, OutInv, Finalizing
<1> USE DEF RecordTypes, Reads, Segment, Job, Worker, ReviewInv, OutInv, Finalizing,
         Q!Row, Q!NoRow
<1>1. ASSUME NEW r \in Ranges, NEW db \in BOOLEAN, EditRange(r, db) PROVE OutInv'
  <2>1. \A q \in Finals : queue'[q] \in {queue[q], Q!NoRow}
    BY <1>1 DEF EditRange, InvalidateFinal, Withdraw
  <2>2. ~blind' => ~blind /\ Invalidable(TRUE)
    BY <1>1 DEF EditRange, InvalidateFinal, Change
  <2> QED
    BY <2>1, <2>2, NoneOut
<1>2. ASSUME NEW r \in Ranges, NEW db \in BOOLEAN, ManualKeep(r, db) PROVE OutInv'
  BY <1>2 DEF ManualKeep, Unpublished, Change, Record
<1>3. ASSUME NEW y \in Styles, NEW db \in BOOLEAN, EditStyle(y, db) PROVE OutInv'
  <2>1. \A q \in Finals : queue'[q] \in {queue[q], Q!NoRow}
    BY <1>3 DEF EditStyle, InvalidateFinal, Withdraw
  <2>2. ~blind' => ~blind /\ Invalidable(TRUE)
    BY <1>3 DEF EditStyle, InvalidateFinal, Change
  <2> QED
    BY <2>1, <2>2, NoneOut
<1>4. ASSUME NEW t \in Texts, NEW db \in BOOLEAN, EditSubtitles(t, db) PROVE OutInv'
  <2>1. \A q \in Finals : queue'[q] \in {queue[q], Q!NoRow}
    BY <1>4 DEF EditSubtitles, InvalidateFinal, Withdraw
  <2>2. ~blind' => ~blind /\ Invalidable(TRUE)
    BY <1>4 DEF EditSubtitles, InvalidateFinal, Change
  <2> QED
    BY <2>1, <2>2, NoneOut
<1>5. ASSUME NEW db \in BOOLEAN, EditInterrupted(db) PROVE OutInv'
  BY <1>5 DEF EditInterrupted, InvalidateFinal, Invalidable, Unpublished, Withdraw,
     Staged, Change, Record
<1>6. ASSUME NEW db \in BOOLEAN, Drop(db) PROVE OutInv'
  BY <1>6 DEF Drop, Unpublished, Withdraw, Change, Record
<1>7. ASSUME NEW r \in Ranges, NEW y \in Styles,
                NEW edited \in {{}} \cup {{t} : t \in Texts}, NEW db \in BOOLEAN, RequestFinalize(r, y, edited, db) PROVE OutInv'
  <2>1. \A q \in Finals : queue'[q] \in {queue[q], Q!NoRow}
    BY <1>7 DEF RequestFinalize, InvalidateFinal, Withdraw
  <2>2. ~blind' => ~blind /\ Invalidable(TRUE)
    BY <1>7 DEF RequestFinalize, InvalidateFinal, Change
  <2> QED
    BY <2>1, <2>2, NoneOut
<1>8. ASSUME NEW db \in BOOLEAN, CompleteReview(db) PROVE OutInv'
  BY <1>8 DEF CompleteReview
<1>9. ASSUME NEW action \in {"retry_judge", "render_segment"}, RequestAction(action) PROVE OutInv'
  BY <1>9 DEF RequestAction, QueuedSegment, Enqueue
<1>10. ASSUME NEW p \in Finals, NEW current \in BOOLEAN, RequestApproval(p, current) PROVE OutInv'
  BY <1>10 DEF RequestApproval, QueuedSegment, Enqueue
<1>11. CASE Claim
  BY <1>11 DEF Claim
<1>12. CASE StartFinalize
  <2>1. CASE Raise
    BY <1>e, <2>1
  <2>2. CASE ~Raise
    BY <1>12, <2>2 DEF StartFinalize
  <2> QED
    BY <2>1, <2>2
<1>13. CASE Burn
  BY <1>13 DEF Burn
<1>14. CASE WriteMetadata
  BY <1>14 DEF WriteMetadata
<1>15. CASE MarkReady
  BY <1>15 DEF MarkReady, Save, Record, Produced
<1>16. CASE WithdrawDeferred
  BY <1>16 DEF WithdrawDeferred, Withdraw
<1>17. CASE StageFinal
  BY <1>17 DEF StageFinal, StagedRow, Q!NewRow, Q!Restaged
<1>18. CASE Succeed
  BY <1>18 DEF Succeed, Save, Record, Produced
<1>19. CASE SucceedRaises
  BY <1>19 DEF SucceedRaises, Failing, Record
<1>20. CASE StageFails
  <2>1. CASE FailFinalize
    BY <1>20, <2>1 DEF StageFails, FailFinalize, Save, Record
  <2> QED
    BY <1>20, <1>e, <2>1 DEF StageFails
<1>21. CASE RecordRaises
  BY <1>21, <1>e DEF RecordRaises
<1>22. CASE RecordApproval
  BY <1>22 DEF RecordApproval, Save, Record
<1>23. CASE CutMissed
  <2>1. CASE Raise
    BY <1>e, <2>1
  <2>2. CASE ~Raise
    <3>1. /\ UNCHANGED queue /\ job' = Bumped /\ worker' = [worker EXCEPT !.at = "done"]
          /\ ~blind' => ~blind
      BY <1>23, <2>2 DEF CutMissed, Save, Record
    <3>2. /\ seg'.final = seg.final /\ seg'.history = seg.history
          /\ seg'.range = seg.range /\ seg'.style = seg.style
      <4> HIDE DEF Job, Worker, Q!Row, Q!NoRow, ReviewInv, Finalizing
      <4> QED
        BY <1>23, <2>2 DEF CutMissed, Save, Record
    <3>3. job'.action = job.action /\ worker'.at = "done"
      BY <3>1
    <3> QED
      BY <3>1, <3>2, <3>3
  <2> QED
    BY <2>1, <2>2
<1>24. CASE FinishJob
  BY <1>24 DEF FinishJob, Idle
<1>25. CASE CrashWorker
  BY <1>25 DEF CrashWorker, Idle
<1>26. ASSUME NEW db \in BOOLEAN, NEW y \in Styles,
               StartRender(y, db) PROVE OutInv'
  <2>1. \A q \in Finals : queue'[q] \in {queue[q], Q!NoRow}
    BY <1>26 DEF StartRender, InvalidateFinal, Withdraw, Raise
  <2>2. CASE Change(Prepared(seg.range, y, {}), db) /\ InvalidateFinal(db, FALSE)
    <3>1. ~blind' => ~blind /\ Invalidable(TRUE)
      BY <2>2 DEF InvalidateFinal, Change
    <3> QED
      BY <2>1, <3>1, NoneOut
  <2>3. CASE worker' = Idle /\ UNCHANGED <<seg, job, blind>>
    BY <2>1, <2>3 DEF Idle
  <2>4. CASE Raise
    BY <1>e, <2>4
  <2> QED
    BY <1>26, <2>2, <2>3, <2>4 DEF StartRender
<1>27. ASSUME NEW db \in BOOLEAN, Activate(db) PROVE OutInv'
  <2>1. CASE Raise
    BY <1>e, <2>1
  <2>2. CASE ~Raise
    <3>1. seg.final \in Finals
      BY <1>27, <2>2 DEF Activate, Approvable, FinalExists
    <3>2. \A q \in Finals \ {seg.final} : queue'[q] = queue[q]
      BY <1>27, <2>2, <3>1 DEF Activate
    <3>3. UNCHANGED <<seg, job, blind>> /\ worker'.at = "approved"
      BY <1>27, <2>2 DEF Activate
    <3>4. job.action = "approve_publish"
      BY <1>27 DEF Activate
    <3> QED
      BY <3>2, <3>3, <3>4
  <2> QED
    BY <2>1, <2>2
<1>28. ASSUME NEW db \in BOOLEAN,
                NEW verdict \in Judgements \ {"manual_keep"}, RetryJudge(db, verdict) PROVE OutInv'
  <2>1. CASE Raise
    BY <1>e, <2>1
  <2>2. CASE ~Raise
    <3>1. /\ UNCHANGED queue /\ job' = Bumped /\ worker' = [worker EXCEPT !.at = "done"]
          /\ ~blind' => ~blind
      BY <1>28, <2>2 DEF RetryJudge, Change, Record
    <3>2. /\ seg'.final = seg.final /\ seg'.history = seg.history
          /\ seg'.range = seg.range /\ seg'.style = seg.style
      <4> HIDE DEF Job, Worker, Q!Row, Q!NoRow, ReviewInv, Finalizing
      <4> QED
        BY <1>28, <2>2 DEF RetryJudge, Change, Record
    <3>3. job'.action = job.action /\ worker'.at = "done"
      BY <3>1
    <3> QED
      BY <3>1, <3>2, <3>3
  <2> QED
    BY <2>1, <2>2
<1>29. ASSUME NEW p \in Finals, ClaimUpload(p) PROVE OutInv'
  BY <1>29 DEF ClaimUpload, Consume, Q!Claimed, Q!Due
<1>30. ASSUME NEW p \in Finals, RefuseUpload(p) PROVE OutInv'
  BY <1>30 DEF RefuseUpload, Consume, Q!Failed, Q!Due
<1>31. ASSUME NEW p \in Finals, StepUpload(p) PROVE OutInv'
  <2>1. queue[p].status \notin {"none", "staged"}
    BY <1>31 DEF StepUpload
  <2>2. \A q \in Finals \ {p} : queue'[q] = queue[q]
    BY <1>31 DEF StepUpload, Consume
  <2> QED
    BY <1>31, <2>1, <2>2 DEF StepUpload
<1>32. ASSUME NEW p \in Finals, PublishUpload(p) PROVE OutInv'
  BY <1>32 DEF PublishUpload, Consume, Q!Published
<1>33. CASE UNCHANGED vars
  BY <1>33 DEF vars
<1> HIDE DEF RecordTypes, Reads, Segment, Job, Worker, ReviewInv, OutInv,
          Finalizing, Q!Row, Q!NoRow
<1> QED
  BY <1>1, <1>2, <1>3, <1>4, <1>5, <1>6, <1>7, <1>8, <1>9, <1>10, <1>11, <1>12,
     <1>13, <1>14, <1>15, <1>16, <1>17, <1>18, <1>19, <1>20, <1>21, <1>22, <1>23,
     <1>24, <1>25, <1>26, <1>27, <1>28, <1>29, <1>30, <1>31, <1>32, <1>33 DEF Next,
     Reviewer, WorkerSteps, Consumer

(* Why one final awaits: the finalization withdraws every staged row of the *)
(* history, and until it is over the record does not say that it awaits.    *)
AwaitInv ==
    /\ worker.at \in {"render", "metadata", "ready", "withdraw"} => worker.old = seg.history
    /\ worker.at \in {"withdraw", "stage", "succeed"} => seg.upload = "not_queued"
    /\ ~blind => \A p \in Finals : queue[p].status = "staged" => ~queue[p].remote
    /\ ~blind /\ worker.at \in {"stage", "succeed"} =>
          \A p \in Finals : queue[p].status = "staged" => p = seg.final
    /\ OneFinalAwaits

LEMMA InitAwait == Init => AwaitInv
<1> SUFFICES ASSUME Init PROVE AwaitInv
  OBVIOUS
<1> USE DEF Init, FirstSegment, AwaitInv, OneFinalAwaits, Idle, Q!NoRow, Q!NewRow
<1>1. CASE InitUnkept
  BY <1>1 DEF InitUnkept
<1>2. CASE InitKept
  BY <1>2 DEF InitKept
<1>3. CASE InitUnstaged
  BY <1>3 DEF InitUnstaged
<1>4. CASE InitMissed
  BY <1>4 DEF InitMissed
<1> QED
  BY <1>1, <1>2, <1>3, <1>4

(* Every step keeps it.                                                     *)
LEMMA StepAwait ==
    ASSUME RecordTypes, ReviewInv, KnownInv, OutInv, AwaitInv, [Next]_vars PROVE AwaitInv'
<1>e. ASSUME Raise PROVE AwaitInv'
  BY <1>e, FailureKeeps DEF Raise, AwaitInv, OneFinalAwaits
<1> USE DEF RecordTypes, Reads, Segment, Job, Worker, ReviewInv, KnownInv, OutInv,
         AwaitInv, OneFinalAwaits, Finalizing, Q!Row, Q!NoRow
<1>1. ASSUME NEW r \in Ranges, NEW db \in BOOLEAN, EditRange(r, db) PROVE AwaitInv'
  BY <1>1 DEF EditRange, WithRange, Invalidated, InvalidateFinal, Invalidable,
     Unpublished, Withdraw, Staged, Change, Record
<1>2. ASSUME NEW r \in Ranges, NEW db \in BOOLEAN, ManualKeep(r, db) PROVE AwaitInv'
  BY <1>2 DEF ManualKeep, Unpublished, Change, Record
<1>3. ASSUME NEW y \in Styles, NEW db \in BOOLEAN, EditStyle(y, db) PROVE AwaitInv'
  BY <1>3 DEF EditStyle, Invalidated, InvalidateFinal, Invalidable, Unpublished,
     Withdraw, Staged, Change, Record
<1>4. ASSUME NEW t \in Texts, NEW db \in BOOLEAN, EditSubtitles(t, db) PROVE AwaitInv'
  BY <1>4 DEF EditSubtitles, Invalidated, InvalidateFinal, Invalidable, Unpublished,
     Withdraw, Staged, Change, Record
<1>5. ASSUME NEW db \in BOOLEAN, EditInterrupted(db) PROVE AwaitInv'
  BY <1>5 DEF EditInterrupted, InvalidateFinal, Invalidable, Unpublished, Withdraw,
     Staged, Change, Record
<1>6. ASSUME NEW db \in BOOLEAN, Drop(db) PROVE AwaitInv'
  BY <1>6 DEF Drop, Unpublished, Withdraw, Change, Record
<1>7. ASSUME NEW r \in Ranges, NEW y \in Styles,
                NEW edited \in {{}} \cup {{t} : t \in Texts}, NEW db \in BOOLEAN, RequestFinalize(r, y, edited, db) PROVE AwaitInv'
  BY <1>7 DEF RequestFinalize, Prepared, WithRange, Invalidated, InvalidateFinal,
     Invalidable, Unpublished, Withdraw, Staged, Change, Record
<1>8. ASSUME NEW db \in BOOLEAN, CompleteReview(db) PROVE AwaitInv'
  BY <1>8 DEF CompleteReview
<1>9. ASSUME NEW action \in {"retry_judge", "render_segment"}, RequestAction(action) PROVE AwaitInv'
  BY <1>9 DEF RequestAction, QueuedSegment, Enqueue
<1>10. ASSUME NEW p \in Finals, NEW current \in BOOLEAN, RequestApproval(p, current) PROVE AwaitInv'
  BY <1>10 DEF RequestApproval, QueuedSegment, Enqueue
<1>11. CASE Claim
  BY <1>11 DEF Claim
<1>12. CASE StartFinalize
  <2>1. CASE Raise
    BY <1>e, <2>1
  <2>2. CASE ~Raise
    <3>1. worker' = Planned(seg) /\ UNCHANGED <<seg, queue, blind>>
      BY <1>12, <2>2 DEF StartFinalize
    <3>2. worker'.at = "render" /\ worker'.old = seg.history
      BY <3>1 DEF Planned
    <3> QED
      BY <3>1, <3>2
  <2> QED
    BY <2>1, <2>2
<1>13. CASE Burn
  BY <1>13 DEF Burn
<1>14. CASE WriteMetadata
  BY <1>14 DEF WriteMetadata
<1>15. CASE MarkReady
  BY <1>15 DEF MarkReady, Save, Record, Produced
<1>16. CASE WithdrawDeferred
  BY <1>16 DEF WithdrawDeferred, Withdraw, Withdrawable
<1>17. CASE StageFinal
  BY <1>17 DEF StageFinal, StagedRow, Q!NewRow, Q!Restaged
<1>18. CASE Succeed
  BY <1>18 DEF Succeed, Save, Record, Produced
<1>19. CASE SucceedRaises
  BY <1>19 DEF SucceedRaises, Failing, Record
<1>20. CASE StageFails
  <2>1. CASE FailFinalize
    BY <1>20, <2>1 DEF StageFails, FailFinalize, Save, Record
  <2> QED
    BY <1>20, <1>e, <2>1 DEF StageFails
<1>21. CASE RecordRaises
  BY <1>21, <1>e DEF RecordRaises
<1>22. CASE RecordApproval
  BY <1>22 DEF RecordApproval, Save, Record, Publishing, InFlight
<1>23. CASE CutMissed
  <2>1. CASE Raise
    BY <1>e, <2>1
  <2>2. CASE ~Raise
    <3>1. /\ UNCHANGED queue /\ worker' = [worker EXCEPT !.at = "done"]
          /\ ~blind' => ~blind
      BY <1>23, <2>2 DEF CutMissed, Save, Record
    <3>2. seg'.upload = "not_queued"
      <4> HIDE DEF Job, Worker, Q!Row, Q!NoRow, ReviewInv, Finalizing, KnownInv, OutInv
      <4> QED
        BY <1>23, <2>2 DEF CutMissed, Save, Record
    <3>3. worker'.at = "done"
      BY <3>1
    <3> QED
      BY <3>1, <3>2, <3>3
  <2> QED
    BY <2>1, <2>2
<1>24. CASE FinishJob
  BY <1>24 DEF FinishJob, Idle
<1>25. CASE CrashWorker
  BY <1>25 DEF CrashWorker, Idle
<1>26. ASSUME NEW db \in BOOLEAN, NEW y \in Styles,
               StartRender(y, db) PROVE AwaitInv'
  <2> DEFINE new == Prepared(seg.range, y, {})
  <2>1. CASE Raise
    BY <1>e, <2>1
  <2>2. ASSUME ~Raise
        PROVE  (\A q \in Finals : queue'[q] \in {queue[q], Q!NoRow}) /\ (~blind' => ~blind)
    <3>1. InvalidateFinal(db, FALSE)
      BY <1>26, <2>2 DEF StartRender
    <3>2. \A q \in Finals : queue'[q] \in {queue[q], Q!NoRow}
      BY <3>1 DEF InvalidateFinal, Withdraw
    <3>3. ~blind' => ~blind
      BY <1>26, <2>2 DEF StartRender, Change
    <3> QED
      BY <3>2, <3>3
  <2>3. CASE worker' = Idle /\ UNCHANGED <<seg, job>> /\ ~Raise
    BY <2>2, <2>3 DEF Idle
  <2>4. CASE seg' = new /\ worker' = Planned(new) /\ ~Raise
    <3>1. worker'.at = "render" /\ worker'.old = new.history
      BY <2>4 DEF Planned
    <3>2. new.upload = "not_queued"
      BY PreparedRemembers
    <3> HIDE DEF new
    <3> QED
      BY <2>2, <2>4, <3>1, <3>2
  <2> QED
    BY <1>26, <2>1, <2>3, <2>4 DEF StartRender, Change, Record
<1>27. ASSUME NEW db \in BOOLEAN, Activate(db) PROVE AwaitInv'
  <2>1. CASE Raise
    BY <1>e, <2>1
  <2>2. CASE ~Raise
    <3>1. seg.final \in Finals
      BY <1>27, <2>2 DEF Activate, Approvable, FinalExists
    <3>2. \A q \in Finals \ {seg.final} : queue'[q] = queue[q]
      BY <1>27, <2>2, <3>1 DEF Activate
    <3>3. queue'[seg.final].status # "staged"
      BY <1>27, <2>2, <3>1 DEF Activate, Approvable, Q!Activated, Q!ResumePhase
    <3>4. UNCHANGED <<seg, job, blind>> /\ worker'.at = "approved"
      BY <1>27, <2>2 DEF Activate
    <3> QED
      BY <3>2, <3>3, <3>4
  <2> QED
    BY <2>1, <2>2
<1>28. ASSUME NEW db \in BOOLEAN,
                NEW verdict \in Judgements \ {"manual_keep"}, RetryJudge(db, verdict) PROVE AwaitInv'
  <2>1. CASE Raise
    BY <1>e, <2>1
  <2>2. CASE ~Raise
    <3>1. /\ UNCHANGED queue /\ worker' = [worker EXCEPT !.at = "done"]
          /\ ~blind' => ~blind
      BY <1>28, <2>2 DEF RetryJudge, Change, Record
    <3>2. seg'.upload = "not_queued"
      <4> HIDE DEF Job, Worker, Q!Row, Q!NoRow, ReviewInv, Finalizing, KnownInv, OutInv
      <4> QED
        BY <1>28, <2>2 DEF RetryJudge, Change, Record
    <3>3. worker'.at = "done"
      BY <3>1
    <3> QED
      BY <3>1, <3>2, <3>3
  <2> QED
    BY <2>1, <2>2
<1>29. ASSUME NEW p \in Finals, ClaimUpload(p) PROVE AwaitInv'
  BY <1>29 DEF ClaimUpload, Consume, Q!Claimed, Q!Due
<1>30. ASSUME NEW p \in Finals, RefuseUpload(p) PROVE AwaitInv'
  BY <1>30 DEF RefuseUpload, Consume, Q!Failed, Q!Due
<1>31. ASSUME NEW p \in Finals, StepUpload(p) PROVE AwaitInv'
  <2>1. queue'[p].status # "staged"
    <3>1. /\ Q!Completed(queue[p]).status # "staged"
          /\ Q!Failed(queue[p]).status # "staged"
          /\ Q!Requeued(queue[p]).status # "staged"
      BY DEF Q!Completed, Q!Failed, Q!Requeued, Q!ResumePhase
    <3>2. queue[p].status \in {"uploading", "publishing"} =>
              Q!Recovered(queue[p]).status # "staged"
      BY DEF Q!Recovered, Q!ResumePhase
    <3> QED
      BY <1>31, <3>1, <3>2 DEF StepUpload, Consume
  <2>2. \A q \in Finals \ {p} : queue'[q] = queue[q]
    BY <1>31 DEF StepUpload, Consume
  <2> QED
    BY <1>31, <2>1, <2>2 DEF StepUpload
<1>32. ASSUME NEW p \in Finals, PublishUpload(p) PROVE AwaitInv'
  BY <1>32 DEF PublishUpload, Consume, Q!Published
<1>33. CASE UNCHANGED vars
  BY <1>33 DEF vars
<1> HIDE DEF RecordTypes, Reads, Segment, Job, Worker, ReviewInv, KnownInv, OutInv,
          AwaitInv, OneFinalAwaits, Finalizing, Q!Row, Q!NoRow
<1> QED
  BY <1>1, <1>2, <1>3, <1>4, <1>5, <1>6, <1>7, <1>8, <1>9, <1>10, <1>11, <1>12,
     <1>13, <1>14, <1>15, <1>16, <1>17, <1>18, <1>19, <1>20, <1>21, <1>22, <1>23,
     <1>24, <1>25, <1>26, <1>27, <1>28, <1>29, <1>30, <1>31, <1>32, <1>33 DEF Next,
     Reviewer, WorkerSteps, Consumer

Frozen ==
    seg.approved =>
        /\ seg'.approved
        /\ \A f \in {"range", "style", "subs", "final"} : seg'[f] = seg[f]

AsSeen ==
    \A p \in Finals : Activated(p) =>
        /\ job.seen /\ job.media = p /\ seg.final = p
        /\ seg.judge \in Kept
        /\ finals[p] # NoFile

Untouched ==
    \A p \in Finals : queue[p].status \in InFlight /\ ~blind' =>
        /\ finals'[p] # finals[p] => queue'[p].status = "published"
        /\ seg'.final = p

(* No step touches what is approved,                                        *)
LEMMA StepFrozen ==
    ASSUME RecordTypes, ReviewInv, [Next]_vars PROVE Frozen
<1> USE DEF RecordTypes, Segment, ReviewInv, Finalizing, Frozen
<1>1. ASSUME NEW r \in Ranges, NEW db \in BOOLEAN, EditRange(r, db) PROVE Frozen
  BY <1>1 DEF EditRange, WithRange, Invalidated, InvalidateFinal, Invalidable,
     Unpublished, Withdraw, Staged, Change, Record
<1>2. ASSUME NEW r \in Ranges, NEW db \in BOOLEAN, ManualKeep(r, db) PROVE Frozen
  BY <1>2 DEF ManualKeep, Unpublished, Change, Record
<1>3. ASSUME NEW y \in Styles, NEW db \in BOOLEAN, EditStyle(y, db) PROVE Frozen
  BY <1>3 DEF EditStyle, Invalidated, InvalidateFinal, Invalidable, Unpublished,
     Withdraw, Staged, Change, Record
<1>4. ASSUME NEW t \in Texts, NEW db \in BOOLEAN, EditSubtitles(t, db) PROVE Frozen
  BY <1>4 DEF EditSubtitles, Invalidated, InvalidateFinal, Invalidable, Unpublished,
     Withdraw, Staged, Change, Record
<1>5. ASSUME NEW db \in BOOLEAN, EditInterrupted(db) PROVE Frozen
  BY <1>5 DEF EditInterrupted, InvalidateFinal, Invalidable, Unpublished, Withdraw,
     Staged, Change, Record
<1>6. ASSUME NEW db \in BOOLEAN, Drop(db) PROVE Frozen
  BY <1>6 DEF Drop, Unpublished, Withdraw, Change, Record
<1>7. ASSUME NEW r \in Ranges, NEW y \in Styles,
                NEW edited \in {{}} \cup {{t} : t \in Texts}, NEW db \in BOOLEAN, RequestFinalize(r, y, edited, db) PROVE Frozen
  BY <1>7 DEF RequestFinalize, Prepared, WithRange, Invalidated, InvalidateFinal,
     Invalidable, Unpublished, Withdraw, Staged, Change, Record
<1>8. ASSUME NEW db \in BOOLEAN, CompleteReview(db) PROVE Frozen
  BY <1>8 DEF CompleteReview
<1>9. ASSUME NEW action \in {"retry_judge", "render_segment"}, RequestAction(action) PROVE Frozen
  BY <1>9 DEF RequestAction, QueuedSegment, Enqueue
<1>10. ASSUME NEW p \in Finals, NEW current \in BOOLEAN, RequestApproval(p, current) PROVE Frozen
  BY <1>10 DEF RequestApproval, QueuedSegment, Enqueue
<1>11. CASE Claim
  BY <1>11 DEF Claim
<1>12. CASE StartFinalize
  BY <1>12 DEF StartFinalize, Planned, Raise, Failing, Record
<1>13. CASE Burn
  BY <1>13 DEF Burn
<1>14. CASE WriteMetadata
  BY <1>14 DEF WriteMetadata
<1>15. CASE MarkReady
  BY <1>15 DEF MarkReady, Save, Record, Produced
<1>16. CASE WithdrawDeferred
  BY <1>16 DEF WithdrawDeferred, Withdraw
<1>17. CASE StageFinal
  BY <1>17 DEF StageFinal, StagedRow
<1>18. CASE Succeed
  BY <1>18 DEF Succeed, Save, Record, Produced
<1>19. CASE SucceedRaises
  BY <1>19 DEF SucceedRaises, Failing, Record
<1>20. CASE StageFails
  BY <1>20 DEF StageFails, FailFinalize, Raise, Failing, Save, Record
<1>21. CASE RecordRaises
  BY <1>21 DEF RecordRaises, Raise, Failing, Record
<1>22. CASE RecordApproval
  BY <1>22 DEF RecordApproval, Save, Record
<1>23. CASE CutMissed
  BY <1>23 DEF CutMissed, Raise, Failing, Save, Record
<1>24. CASE FinishJob
  BY <1>24 DEF FinishJob
<1>25. CASE CrashWorker
  BY <1>25 DEF CrashWorker
<1>26. ASSUME NEW db \in BOOLEAN, NEW y \in Styles,
               StartRender(y, db) PROVE Frozen
  BY <1>26 DEF StartRender, Prepared, WithRange, Planned, Invalidated, Raise,
     Failing, InvalidateFinal, Invalidable, Unpublished, Withdraw, Staged, Change,
     Record
<1>27. ASSUME NEW db \in BOOLEAN, Activate(db) PROVE Frozen
  BY <1>27 DEF Activate, Approvable, FinalExists, Raise, Failing, Record
<1>28. ASSUME NEW db \in BOOLEAN,
                NEW verdict \in Judgements \ {"manual_keep"}, RetryJudge(db, verdict) PROVE Frozen
  BY <1>28 DEF RetryJudge, Unpublished, Change, Raise, Failing, Record
<1>29. ASSUME NEW p \in Finals, ClaimUpload(p) PROVE Frozen
  BY <1>29 DEF ClaimUpload, Consume
<1>30. ASSUME NEW p \in Finals, RefuseUpload(p) PROVE Frozen
  BY <1>30 DEF RefuseUpload, Consume
<1>31. ASSUME NEW p \in Finals, StepUpload(p) PROVE Frozen
  BY <1>31 DEF StepUpload, Consume
<1>32. ASSUME NEW p \in Finals, PublishUpload(p) PROVE Frozen
  BY <1>32 DEF PublishUpload, Consume
<1>33. CASE UNCHANGED vars
  BY <1>33 DEF vars
<1> HIDE DEF RecordTypes, Segment, ReviewInv, Finalizing, Frozen
<1> QED
  BY <1>1, <1>2, <1>3, <1>4, <1>5, <1>6, <1>7, <1>8, <1>9, <1>10, <1>11, <1>12,
     <1>13, <1>14, <1>15, <1>16, <1>17, <1>18, <1>19, <1>20, <1>21, <1>22, <1>23,
     <1>24, <1>25, <1>26, <1>27, <1>28, <1>29, <1>30, <1>31, <1>32, <1>33 DEF Next,
     Reviewer, WorkerSteps, Consumer

(* ... none lets a final out that nobody watched,                           *)
LEMMA StepAsSeen ==
    ASSUME RecordTypes, ReviewInv, SeenInv, ShownInv, [Next]_vars PROVE AsSeen
<1> USE DEF RecordTypes, Reads, Segment, ReviewInv, SeenInv, ShownInv, Unshown, AsSeen, Activated,
         InFlight, Kept, Q!Row, Q!NoRow
<1>1. ASSUME NEW r \in Ranges, NEW db \in BOOLEAN, EditRange(r, db) PROVE AsSeen
  BY <1>1 DEF EditRange, WithRange, Invalidated, InvalidateFinal, Invalidable,
     Unpublished, Withdraw, Staged, Change, Record
<1>2. ASSUME NEW r \in Ranges, NEW db \in BOOLEAN, ManualKeep(r, db) PROVE AsSeen
  BY <1>2 DEF ManualKeep, Unpublished, Change, Record
<1>3. ASSUME NEW y \in Styles, NEW db \in BOOLEAN, EditStyle(y, db) PROVE AsSeen
  BY <1>3 DEF EditStyle, Invalidated, InvalidateFinal, Invalidable, Unpublished,
     Withdraw, Staged, Change, Record
<1>4. ASSUME NEW t \in Texts, NEW db \in BOOLEAN, EditSubtitles(t, db) PROVE AsSeen
  BY <1>4 DEF EditSubtitles, Invalidated, InvalidateFinal, Invalidable, Unpublished,
     Withdraw, Staged, Change, Record
<1>5. ASSUME NEW db \in BOOLEAN, EditInterrupted(db) PROVE AsSeen
  BY <1>5 DEF EditInterrupted, InvalidateFinal, Invalidable, Unpublished, Withdraw,
     Staged, Change, Record
<1>6. ASSUME NEW db \in BOOLEAN, Drop(db) PROVE AsSeen
  BY <1>6 DEF Drop, Unpublished, Withdraw, Change, Record
<1>7. ASSUME NEW r \in Ranges, NEW y \in Styles,
                NEW edited \in {{}} \cup {{t} : t \in Texts}, NEW db \in BOOLEAN, RequestFinalize(r, y, edited, db) PROVE AsSeen
  BY <1>7 DEF RequestFinalize, Prepared, WithRange, Invalidated, InvalidateFinal,
     Invalidable, Unpublished, Withdraw, Staged, Change, Record
<1>8. ASSUME NEW db \in BOOLEAN, CompleteReview(db) PROVE AsSeen
  BY <1>8 DEF CompleteReview
<1>9. ASSUME NEW action \in {"retry_judge", "render_segment"}, RequestAction(action) PROVE AsSeen
  BY <1>9 DEF RequestAction, QueuedSegment, Enqueue
<1>10. ASSUME NEW p \in Finals, NEW current \in BOOLEAN, RequestApproval(p, current) PROVE AsSeen
  BY <1>10 DEF RequestApproval, QueuedSegment, Enqueue
<1>11. CASE Claim
  BY <1>11 DEF Claim
<1>12. CASE StartFinalize
  BY <1>12 DEF StartFinalize, Planned, Raise, Failing, Record
<1>13. CASE Burn
  BY <1>13 DEF Burn
<1>14. CASE WriteMetadata
  BY <1>14 DEF WriteMetadata
<1>15. CASE MarkReady
  BY <1>15 DEF MarkReady, Save, Record, Produced
<1>16. CASE WithdrawDeferred
  BY <1>16 DEF WithdrawDeferred, Withdraw
<1>17. CASE StageFinal
  BY <1>17 DEF StageFinal, StagedRow
<1>18. CASE Succeed
  BY <1>18 DEF Succeed, Save, Record, Produced
<1>19. CASE SucceedRaises
  BY <1>19 DEF SucceedRaises, Failing, Record
<1>20. CASE StageFails
  BY <1>20 DEF StageFails, FailFinalize, Raise, Failing, Save, Record
<1>21. CASE RecordRaises
  BY <1>21 DEF RecordRaises, Raise, Failing, Record
<1>22. CASE RecordApproval
  BY <1>22 DEF RecordApproval, Save, Record
<1>23. CASE CutMissed
  BY <1>23 DEF CutMissed, Raise, Failing, Save, Record
<1>24. CASE FinishJob
  BY <1>24 DEF FinishJob
<1>25. CASE CrashWorker
  BY <1>25 DEF CrashWorker
<1>26. ASSUME NEW db \in BOOLEAN, NEW y \in Styles,
               StartRender(y, db) PROVE AsSeen
  BY <1>26 DEF StartRender, Prepared, WithRange, Planned, Invalidated, Raise,
     Failing, InvalidateFinal, Invalidable, Unpublished, Withdraw, Staged, Change,
     Record
<1>27. ASSUME NEW db \in BOOLEAN, Activate(db) PROVE AsSeen
  BY <1>27 DEF Activate, Approvable, FinalExists, PreviewAllowed, Raise, Failing,
     Record, Q!Activated, Q!ResumePhase
<1>28. ASSUME NEW db \in BOOLEAN,
                NEW verdict \in Judgements \ {"manual_keep"}, RetryJudge(db, verdict) PROVE AsSeen
  BY <1>28 DEF RetryJudge, Unpublished, Change, Raise, Failing, Record
<1>29. ASSUME NEW p \in Finals, ClaimUpload(p) PROVE AsSeen
  BY <1>29 DEF ClaimUpload, Consume, Q!Claimed, Q!Due
<1>30. ASSUME NEW p \in Finals, RefuseUpload(p) PROVE AsSeen
  BY <1>30 DEF RefuseUpload, Consume, Q!Failed
<1>31. ASSUME NEW p \in Finals, StepUpload(p) PROVE AsSeen
  BY <1>31 DEF StepUpload, Consume, Q!Completed, Q!Failed, Q!Recovered, Q!Requeued,
     Q!ResumePhase
<1>32. ASSUME NEW p \in Finals, PublishUpload(p) PROVE AsSeen
  BY <1>32 DEF PublishUpload, Consume, Q!Published
<1>33. CASE UNCHANGED vars
  BY <1>33 DEF vars
<1> HIDE DEF RecordTypes, Reads, Segment, ReviewInv, SeenInv, ShownInv, Unshown, AsSeen, Activated,
          InFlight, Kept, Q!Row, Q!NoRow
<1> QED
  BY <1>1, <1>2, <1>3, <1>4, <1>5, <1>6, <1>7, <1>8, <1>9, <1>10, <1>11, <1>12,
     <1>13, <1>14, <1>15, <1>16, <1>17, <1>18, <1>19, <1>20, <1>21, <1>22, <1>23,
     <1>24, <1>25, <1>26, <1>27, <1>28, <1>29, <1>30, <1>31, <1>32, <1>33 DEF Next,
     Reviewer, WorkerSteps, Consumer

(* ... and none touches a final that is out.                                *)
LEMMA StepUntouched ==
    ASSUME RecordTypes, OutInv, [Next]_vars PROVE Untouched
<1> USE DEF RecordTypes, Reads, Segment, OutInv, Untouched, InFlight, Finalizing
<1>1. ASSUME NEW r \in Ranges, NEW db \in BOOLEAN, EditRange(r, db) PROVE Untouched
  <2>1. ~blind' => ~blind /\ Invalidable(TRUE)
    BY <1>1 DEF EditRange, InvalidateFinal, Change
  <2> QED
    BY <2>1, NoneOut
<1>2. ASSUME NEW r \in Ranges, NEW db \in BOOLEAN, ManualKeep(r, db) PROVE Untouched
  BY <1>2 DEF ManualKeep, Unpublished, Change, Record
<1>3. ASSUME NEW y \in Styles, NEW db \in BOOLEAN, EditStyle(y, db) PROVE Untouched
  <2>1. ~blind' => ~blind /\ Invalidable(TRUE)
    BY <1>3 DEF EditStyle, InvalidateFinal, Change
  <2> QED
    BY <2>1, NoneOut
<1>4. ASSUME NEW t \in Texts, NEW db \in BOOLEAN, EditSubtitles(t, db) PROVE Untouched
  <2>1. ~blind' => ~blind /\ Invalidable(TRUE)
    BY <1>4 DEF EditSubtitles, InvalidateFinal, Change
  <2> QED
    BY <2>1, NoneOut
<1>5. ASSUME NEW db \in BOOLEAN, EditInterrupted(db) PROVE Untouched
  BY <1>5 DEF EditInterrupted, InvalidateFinal, Invalidable, Unpublished, Withdraw,
     Staged, Change, Record
<1>6. ASSUME NEW db \in BOOLEAN, Drop(db) PROVE Untouched
  BY <1>6 DEF Drop, Unpublished, Withdraw, Change, Record
<1>7. ASSUME NEW r \in Ranges, NEW y \in Styles,
                NEW edited \in {{}} \cup {{t} : t \in Texts}, NEW db \in BOOLEAN, RequestFinalize(r, y, edited, db) PROVE Untouched
  <2>1. ~blind' => ~blind /\ Invalidable(TRUE)
    BY <1>7 DEF RequestFinalize, InvalidateFinal, Change
  <2> QED
    BY <2>1, NoneOut
<1>8. ASSUME NEW db \in BOOLEAN, CompleteReview(db) PROVE Untouched
  BY <1>8 DEF CompleteReview
<1>9. ASSUME NEW action \in {"retry_judge", "render_segment"}, RequestAction(action) PROVE Untouched
  BY <1>9 DEF RequestAction, QueuedSegment, Enqueue
<1>10. ASSUME NEW p \in Finals, NEW current \in BOOLEAN, RequestApproval(p, current) PROVE Untouched
  BY <1>10 DEF RequestApproval, QueuedSegment, Enqueue
<1>11. CASE Claim
  BY <1>11 DEF Claim
<1>12. CASE StartFinalize
  BY <1>12 DEF StartFinalize, Planned, Raise, Failing, Record
<1>13. CASE Burn
  BY <1>13 DEF Burn
<1>14. CASE WriteMetadata
  BY <1>14 DEF WriteMetadata
<1>15. CASE MarkReady
  BY <1>15 DEF MarkReady, Save, Record, Produced
<1>16. CASE WithdrawDeferred
  BY <1>16 DEF WithdrawDeferred, Withdraw
<1>17. CASE StageFinal
  BY <1>17 DEF StageFinal, StagedRow
<1>18. CASE Succeed
  BY <1>18 DEF Succeed, Save, Record, Produced
<1>19. CASE SucceedRaises
  BY <1>19 DEF SucceedRaises, Failing, Record
<1>20. CASE StageFails
  BY <1>20 DEF StageFails, FailFinalize, Raise, Failing, Save, Record
<1>21. CASE RecordRaises
  BY <1>21 DEF RecordRaises, Raise, Failing, Record
<1>22. CASE RecordApproval
  BY <1>22 DEF RecordApproval, Save, Record
<1>23. CASE CutMissed
  BY <1>23 DEF CutMissed, Raise, Failing, Save, Record
<1>24. CASE FinishJob
  BY <1>24 DEF FinishJob
<1>25. CASE CrashWorker
  BY <1>25 DEF CrashWorker
<1>26. ASSUME NEW db \in BOOLEAN, NEW y \in Styles,
               StartRender(y, db) PROVE Untouched
  <2>1. CASE UNCHANGED <<seg, finals, blind>>
    BY <2>1
  <2>2. CASE Change(Prepared(seg.range, y, {}), db) /\ InvalidateFinal(db, FALSE)
    <3>1. ~blind' => ~blind /\ Invalidable(TRUE)
      BY <2>2 DEF InvalidateFinal, Change
    <3> QED
      BY <3>1, NoneOut
  <2>3. CASE Raise
    BY <2>3 DEF Raise, Failing, Record
  <2> QED
    BY <1>26, <2>1, <2>2, <2>3 DEF StartRender
<1>27. ASSUME NEW db \in BOOLEAN, Activate(db) PROVE Untouched
  BY <1>27 DEF Activate, Approvable, FinalExists, Raise, Failing, Record
<1>28. ASSUME NEW db \in BOOLEAN,
                NEW verdict \in Judgements \ {"manual_keep"}, RetryJudge(db, verdict) PROVE Untouched
  BY <1>28 DEF RetryJudge, Unpublished, Change, Raise, Failing, Record
<1>29. ASSUME NEW p \in Finals, ClaimUpload(p) PROVE Untouched
  BY <1>29 DEF ClaimUpload, Consume
<1>30. ASSUME NEW p \in Finals, RefuseUpload(p) PROVE Untouched
  BY <1>30 DEF RefuseUpload, Consume
<1>31. ASSUME NEW p \in Finals, StepUpload(p) PROVE Untouched
  BY <1>31 DEF StepUpload, Consume
<1>32. ASSUME NEW p \in Finals, PublishUpload(p) PROVE Untouched
  BY <1>32 DEF PublishUpload, Consume, Q!Published
<1>33. CASE UNCHANGED vars
  BY <1>33 DEF vars
<1> HIDE DEF RecordTypes, Reads, Segment, OutInv, Untouched, InFlight, Finalizing
<1> QED
  BY <1>1, <1>2, <1>3, <1>4, <1>5, <1>6, <1>7, <1>8, <1>9, <1>10, <1>11, <1>12,
     <1>13, <1>14, <1>15, <1>16, <1>17, <1>18, <1>19, <1>20, <1>21, <1>22, <1>23,
     <1>24, <1>25, <1>26, <1>27, <1>28, <1>29, <1>30, <1>31, <1>32, <1>33 DEF Next,
     Reviewer, WorkerSteps, Consumer

Inv == RecordTypes /\ ReviewInv /\ SeenInv /\ KnownInv /\ ShownInv /\ OutInv
       /\ AwaitInv

(* For any ranges, styles and texts, however requests, the worker's writes, *)
(* its crashes and the consumer follow one another.                         *)
THEOREM ReviewInvariant == Spec => []Inv
<1>1. Init => Inv
  BY InitTypes, InitReview, InitSeen, InitKnown, InitShown, InitOut, InitAwait DEF Inv
<1>2. Inv /\ [Next]_vars => Inv'
  <2> SUFFICES ASSUME Inv, [Next]_vars PROVE Inv'
    OBVIOUS
  <2>1. RecordTypes'
    <3>1. RecordTypes
      BY DEF Inv
    <3>2. seg' \in Segment /\ job' \in Job /\ worker' \in Worker /\ queue' \in [Finals -> Q!Row]
      BY <3>1, StepSegment, StepJob, StepWorker, StepQueue
    <3> QED
      BY <3>1, <3>2, StepReads DEF RecordTypes
  <2>2. ReviewInv' /\ SeenInv' /\ KnownInv' /\ ShownInv' /\ OutInv' /\ AwaitInv'
    BY StepReview, StepSeen, StepKnown, StepShown, StepOut, StepAwait DEF Inv
  <2> QED
    BY <2>1, <2>2 DEF Inv
<1> QED
  BY <1>1, <1>2, PTL DEF Spec

(* Nothing the reviewer watched changes once its approval is recorded.      *)
THEOREM ApprovalStands == Spec => ApprovedIsFrozen
<1>1. Inv /\ [Next]_vars => [Frozen]_vars
  BY StepFrozen DEF Inv
<1> QED
  BY <1>1, ReviewInvariant, PTL DEF Spec, ApprovedIsFrozen, Frozen

(* While the consumer may read a final nobody replaces it.                  *)
THEOREM InFlightIsUntouched == Spec => UntouchedInFlight
<1>1. Inv /\ [Next]_vars => [Untouched]_vars
  BY StepUntouched DEF Inv
<1> QED
  BY <1>1, ReviewInvariant, PTL DEF Spec, UntouchedInFlight, Untouched

(* A segment that awaits its approval has one row to approve.               *)
THEOREM OneAwaits == Spec => []OneFinalAwaits
<1>1. Inv => OneFinalAwaits
  BY DEF Inv, AwaitInv
<1> QED
  BY <1>1, ReviewInvariant, PTL

(* No staged row is lost sight of.                                          *)
THEOREM StagedRowsAreKnown == Spec => []StagedIsKnown
<1>1. Inv => StagedIsKnown
  BY DEF Inv, KnownInv, StagedIsKnown
<1> QED
  BY <1>1, ReviewInvariant, PTL

(* Only a final that somebody watched as it is now leaves the staging area. *)
THEOREM OnlySeenIsActivated == Spec => ActivatedAsSeen
<1>1. Inv /\ [Next]_vars => [AsSeen]_vars
  BY StepAsSeen DEF Inv
<1> QED
  BY <1>1, ReviewInvariant, PTL DEF Spec, ActivatedAsSeen, AsSeen

=============================================================================
