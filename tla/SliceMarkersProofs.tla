-------------------------- MODULE SliceMarkersProofs --------------------------
(* For any set of requests, any calls and any number of kills and faults:   *)
(* the marker of the recording that is sliced stands and names the worker,  *)
(* and nobody recovers it.                                                  *)
EXTENDS SliceMarkers, TLAPS

USE DEF Processes, files, records, local, bounds, ghosts, vars

IInv == TypeOK /\ MarkInv

(* Nothing is marked, locked or under way at the start.                     *)
LEMMA InitMarks == Init => IInv
<1> SUFFICES ASSUME Init PROVE IInv
  OBVIOUS
<1>1. TypeOK
  BY DEF Init, TypeOK, Kinds, Histories, Reviews
<1>2. MarkInv
  BY MarkersProcesses DEF Init, MarkInv, LockSteps, Recovering, Slicing, SweepSteps,
                          RecordSteps, FailSteps
<1> QED BY <1>1, <1>2 DEF IInv

(* Every step keeps the types: a request's ...                             *)
LEMMA RequestTypes ==
    ASSUME TypeOK, NEW d \in Requests, Request(d) PROVE TypeOK'
<1> USE DEF TypeOK, Written, Unlinked, Taken, Released, Withdrawn, Fault, Call, Asked,
        Goes, Check, Kinds, Histories, Reviews, CallSteps
<1>1. CASE Scan(d) BY <1>1 DEF Scan
<1>2. CASE ScanHistory(d) BY <1>2 DEF ScanHistory
<1>3. CASE ScanHistoryRaises(d) BY <1>3 DEF ScanHistoryRaises
<1>4. CASE ScanReview(d)
  <2>1. review' \in Reviews BY <1>4 DEF ScanReview
  <2>2. woken' \in BOOLEAN BY <1>4 DEF ScanReview
  <2>3. faults' \in Nat BY <1>4 DEF ScanReview
  <2> QED BY <1>4, <2>1, <2>2, <2>3 DEF ScanReview
<1>5. CASE RequeueCheck(d) BY <1>5 DEF RequeueCheck
<1>6. CASE Requeue(d) BY <1>6 DEF Requeue
<1>7. CASE RequeueHistory(d) BY <1>7 DEF RequeueHistory
<1>8. CASE RequeueHistoryRaises(d) BY <1>8 DEF RequeueHistoryRaises
<1>9. CASE RequeueUnlink(d)
  <2>1. pc' \in [Processes -> {"idle"} \cup CallSteps \cup SweepSteps \cup WorkerSteps]
    BY <1>9 DEF RequeueUnlink
  <2>2. markers' \subseteq Kinds /\ woken' \in BOOLEAN BY <1>9 DEF RequeueUnlink
  <2> QED BY <1>9, <2>1, <2>2 DEF RequeueUnlink
<1>10. CASE CancelCheck(d) BY <1>10 DEF CancelCheck
<1>11. CASE Cancel(d) BY <1>11 DEF Cancel
<1>12. CASE MarkCheck(d) BY <1>12 DEF MarkCheck
<1>13. CASE MarkDone(d)
  <2>1. pc' \in [Processes -> {"idle"} \cup CallSteps \cup SweepSteps \cup WorkerSteps]
    BY <1>13 DEF MarkDone
  <2>2. markers' \subseteq Kinds BY <1>13 DEF MarkDone
  <2> QED BY <1>13, <2>1, <2>2 DEF MarkDone
<1>14. CASE MarkPending(d)
  <2>1. pc' \in [Processes -> {"idle"} \cup CallSteps \cup SweepSteps \cup WorkerSteps]
    BY <1>14 DEF MarkPending
  <2>2. markers' \subseteq Kinds /\ owed' \in BOOLEAN BY <1>14 DEF MarkPending
  <2> QED BY <1>14, <2>1, <2>2 DEF MarkPending
<1>15. CASE MarkHistory(d)
  <2>1. history' \in Histories /\ faults' \in Nat BY <1>15 DEF MarkHistory
  <2> QED BY <1>15, <2>1 DEF MarkHistory
<1> QED BY <1>1, <1>2, <1>3, <1>4, <1>5, <1>6, <1>7, <1>8, <1>9, <1>10, <1>11, <1>12,
           <1>13, <1>14, <1>15 DEF Request, ScanCall, RequeueCall, CancelCall, MarkCall

(* A request's step that leaves .processing, the marker's owner and the      *)
(* worker's hand alone, and takes or frees the lock with its locked steps,  *)
(* leaves MarkInv alone.                                                    *)
LEMMA RequestAside ==
    ASSUME TypeOK, MarkInv, NEW d \in Requests, NEW a, NEW b, Goes(d, a, b),
           owner' = owner, hand' = hand,
           "processing" \in markers' <=> "processing" \in markers,
           \/ lock' = lock /\ (a \in LockSteps(d) <=> b \in LockSteps(d))
           \/ lock = Nobody /\ lock' = d /\ b \in LockSteps(d)
           \/ a \in LockSteps(d) /\ lock' = Nobody /\ b \notin LockSteps(d)
    PROVE  MarkInv'
<1>1. d \in Processes /\ d # Worker /\ d # Api /\ Nobody \notin Processes
  BY MarkersProcesses
<1>2. /\ \A p \in Processes \ {d} : pc'[p] = pc[p]
      /\ pc[d] = a /\ pc'[d] = b
  BY <1>1 DEF Goes, TypeOK
<1>3. \A p \in Processes : lock' = p <=> pc'[p] \in LockSteps(p)
  BY <1>1, <1>2 DEF MarkInv
<1>4. pc'[Worker] = pc[Worker] /\ pc'[Api] = pc[Api]
  BY <1>1, <1>2
<1> QED BY <1>3, <1>4 DEF MarkInv, Recovering, Slicing

(* ... and every step of a request is of that kind.                         *)
LEMMA RequestMarks ==
    ASSUME TypeOK, MarkInv, NEW d \in Requests, Request(d) PROVE MarkInv'
<1>1. d # Worker /\ d # Api /\ d \in Processes BY MarkersProcesses
<1>2. lock = d <=> pc[d] \in LockSteps(d) BY <1>1 DEF MarkInv
<1> USE <1>1, <1>2, RequestAside DEF Written, Unlinked, Taken, Released, Withdrawn, Asked,
        LockSteps
<1>3. CASE Scan(d) BY <1>3 DEF Scan
<1>4. CASE ScanHistory(d) BY <1>4 DEF ScanHistory
<1>5. CASE ScanHistoryRaises(d) BY <1>5 DEF ScanHistoryRaises
<1>6. CASE ScanReview(d) BY <1>6 DEF ScanReview
<1>7. CASE RequeueCheck(d) BY <1>7 DEF RequeueCheck, Check
<1>8. CASE Requeue(d) BY <1>8 DEF Requeue
<1>9. CASE RequeueHistory(d) BY <1>9 DEF RequeueHistory
<1>10. CASE RequeueHistoryRaises(d) BY <1>10 DEF RequeueHistoryRaises
<1>11. CASE RequeueUnlink(d) BY <1>11 DEF RequeueUnlink
<1>12. CASE CancelCheck(d) BY <1>12 DEF CancelCheck, Check
<1>13. CASE Cancel(d) BY <1>13 DEF Cancel
<1>14. CASE MarkCheck(d) BY <1>14 DEF MarkCheck, Check
<1>15. CASE MarkDone(d) BY <1>15 DEF MarkDone
<1>16. CASE MarkPending(d) BY <1>16 DEF MarkPending
<1>17. CASE MarkHistory(d) BY <1>17 DEF MarkHistory
<1> QED BY <1>3, <1>4, <1>5, <1>6, <1>7, <1>8, <1>9, <1>10, <1>11, <1>12, <1>13, <1>14, <1>15,
           <1>16, <1>17
       DEF Request, ScanCall, RequeueCall, CancelCall, MarkCall

(* ... the worker's, outside recovery ...                                   *)
LEMMA WorkTypes ==
    ASSUME TypeOK, MarkInv,
           StopWorker \/ Start \/ RunOnce \/ Claim \/ Slice \/ Except \/ AnotherPass \/ Leave
    PROVE  TypeOK'
<1> USE MarkersProcesses DEF TypeOK, Kinds, Histories, Reviews, SweepSteps, WorkerSteps, CallSteps,
        Written, Unlinked, Taken, Released, Fault, Goes, Claimable, StillOwed
<1>1. CASE Start BY <1>1 DEF Start
<1>2. CASE RunOnce
  <2>1. woken' \in BOOLEAN BY <1>2 DEF RunOnce
  <2>2. hand' \in {"pending", "processing"} BY <1>2 DEF RunOnce
  <2>3. pc' \in [Processes -> {"idle"} \cup SweepSteps \cup WorkerSteps \cup CallSteps]
    BY <1>2 DEF RunOnce
  <2> QED BY <1>2, <2>1, <2>2, <2>3 DEF RunOnce
<1>3. CASE ClaimNothing BY <1>3 DEF ClaimNothing
<1>4. CASE ClaimRename BY <1>4 DEF ClaimRename
<1>5. CASE ClaimRaises BY <1>5 DEF ClaimRaises
<1>6. CASE Stamp BY <1>6 DEF Stamp
<1>7. CASE StampRaises BY <1>7 DEF StampRaises
<1>8. CASE BeginSlice BY <1>8 DEF BeginSlice
<1>9. CASE SkipSmall BY <1>9 DEF SkipSmall
<1>10. CASE SliceEnds BY <1>10 DEF SliceEnds
<1>11. CASE WriteDone BY <1>11 DEF WriteDone
<1>12. CASE UnlinkProcessing BY <1>12 DEF UnlinkProcessing
<1>13. CASE ClearFailed BY <1>13 DEF ClearFailed
<1>14. CASE RecordHistory BY <1>14 DEF RecordHistory
<1>15. CASE RecordReview BY <1>15 DEF RecordReview
<1>16. CASE Raises BY <1>16 DEF Raises
<1>17. CASE FailHistory BY <1>17 DEF FailHistory
<1>18. CASE FailMarker BY <1>18 DEF FailMarker
<1>19. CASE FailMarkerRaises
  <2>1. owed' \in BOOLEAN BY <1>19 DEF FailMarkerRaises
  <2> QED BY <1>19, <2>1 DEF FailMarkerRaises
<1>20. CASE FailUnlink BY <1>20 DEF FailUnlink
<1>21. CASE AnotherPass BY <1>21 DEF AnotherPass
<1>22. CASE Leave BY <1>22 DEF Leave
<1>23. CASE StopWorker BY <1>23 DEF StopWorker
<1> QED BY <1>1, <1>2, <1>3, <1>4, <1>5, <1>6, <1>7, <1>8, <1>9, <1>10, <1>11, <1>12, <1>13,
           <1>14, <1>15, <1>16, <1>17, <1>18, <1>19, <1>20, <1>21, <1>22, <1>23
       DEF Claim, Slice, Except

(* ... recovery's ...                                                       *)
LEMMA SweepTypes ==
    ASSUME TypeOK, MarkInv, NEW p \in {Worker, Api}, Sweep(p) PROVE TypeOK'
<1> USE MarkersProcesses DEF TypeOK, Kinds, Histories, Reviews, SweepSteps, WorkerSteps, CallSteps,
        Written, Unlinked, Taken, Released, Fault, Goes, IsAbandoned, AfterSweep
<1>1. CASE SweepNothing(p) BY <1>1 DEF SweepNothing
<1>2. CASE SweepWrite(p) BY <1>2 DEF SweepWrite
<1>3. CASE SweepHistory(p) BY <1>3 DEF SweepHistory
<1>4. CASE SweepUnlink(p) BY <1>4 DEF SweepUnlink
<1>5. CASE SweepRaises(p) BY <1>5 DEF SweepRaises
<1> QED BY <1>1, <1>2, <1>3, <1>4, <1>5 DEF Sweep

(* ... and a kill.                                                          *)
LEMMA KillTypes ==
    ASSUME TypeOK, MarkInv, NEW p \in Processes, Kill(p) PROVE TypeOK'
BY MarkersProcesses DEF TypeOK, Kinds, Histories, Reviews, SweepSteps, WorkerSteps, CallSteps, Kill

(* The worker marks, stamps and unmarks with the lock or the marker in hand. *)
LEMMA WorkMarks ==
    ASSUME TypeOK, MarkInv,
           StopWorker \/ Start \/ RunOnce \/ Claim \/ Slice \/ Except \/ AnotherPass \/ Leave
    PROVE  MarkInv'
<1> USE MarkersProcesses DEF TypeOK, MarkInv, LockSteps, Recovering, Slicing, SweepSteps,
        RecordSteps, FailSteps,
        Written, Unlinked, Taken, Released, Fault, Goes, Claimable, StillOwed
<1>1. CASE Start BY <1>1 DEF Start
<1>2. CASE RunOnce
  <2>1. CASE "pending" \in markers /\ pc[Worker] = "idle" BY <1>2, <2>1 DEF RunOnce
  <2>2. CASE ~("pending" \in markers /\ pc[Worker] = "idle") BY <1>2, <2>2 DEF RunOnce
  <2> QED BY <2>1, <2>2
<1>3. CASE ClaimNothing BY <1>3 DEF ClaimNothing
<1>4. CASE ClaimRename BY <1>4 DEF ClaimRename
<1>5. CASE ClaimRaises BY <1>5 DEF ClaimRaises
<1>6. CASE Stamp BY <1>6 DEF Stamp
<1>7. CASE StampRaises BY <1>7 DEF StampRaises
<1>8. CASE BeginSlice BY <1>8 DEF BeginSlice
<1>9. CASE SkipSmall BY <1>9 DEF SkipSmall
<1>10. CASE SliceEnds BY <1>10 DEF SliceEnds
<1>11. CASE WriteDone BY <1>11 DEF WriteDone
<1>12. CASE UnlinkProcessing BY <1>12 DEF UnlinkProcessing
<1>13. CASE ClearFailed BY <1>13 DEF ClearFailed
<1>14. CASE RecordHistory BY <1>14 DEF RecordHistory
<1>15. CASE RecordReview BY <1>15 DEF RecordReview
<1>16. CASE Raises BY <1>16 DEF Raises
<1>17. CASE FailHistory BY <1>17 DEF FailHistory
<1>18. CASE FailMarker BY <1>18 DEF FailMarker
<1>19. CASE FailMarkerRaises BY <1>19 DEF FailMarkerRaises
<1>20. CASE FailUnlink BY <1>20 DEF FailUnlink
<1>21. CASE AnotherPass BY <1>21 DEF AnotherPass
<1>22. CASE Leave BY <1>22 DEF Leave
<1>23. CASE StopWorker BY <1>23 DEF StopWorker
<1> QED BY <1>1, <1>2, <1>3, <1>4, <1>5, <1>6, <1>7, <1>8, <1>9, <1>10, <1>11, <1>12, <1>13,
           <1>14, <1>15, <1>16, <1>17, <1>18, <1>19, <1>20, <1>21, <1>22, <1>23
       DEF Claim, Slice, Except

(* Recovery holds the lock, and its marker has no running owner.            *)
LEMMA SweepMarks ==
    ASSUME TypeOK, MarkInv, NEW p \in {Worker, Api}, Sweep(p) PROVE MarkInv'
<1> USE MarkersProcesses DEF TypeOK, MarkInv, LockSteps, Recovering, Slicing, SweepSteps,
        RecordSteps, FailSteps,
        Written, Unlinked, Taken, Released, Fault, Goes, IsAbandoned, AfterSweep
<1>1. CASE SweepNothing(p) BY <1>1 DEF SweepNothing
<1>2. CASE SweepWrite(p) BY <1>2 DEF SweepWrite
<1>3. CASE SweepHistory(p) BY <1>3 DEF SweepHistory
<1>4. CASE SweepUnlink(p) BY <1>4 DEF SweepUnlink
<1>5. CASE SweepRaises(p) BY <1>5 DEF SweepRaises
<1> QED BY <1>1, <1>2, <1>3, <1>4, <1>5 DEF Sweep

(* A killed process frees its lock, a killed worker its marker.             *)
LEMMA KillMarks ==
    ASSUME TypeOK, MarkInv, NEW p \in Processes, Kill(p) PROVE MarkInv'
BY MarkersProcesses DEF TypeOK, MarkInv, LockSteps, Recovering, Slicing, SweepSteps,
                        RecordSteps, FailSteps, Kill

(* The invariant is inductive.                                              *)
LEMMA NextKeepsIInv == IInv /\ [Next]_vars => IInv'
<1> SUFFICES ASSUME IInv, [Next]_vars PROVE IInv'
  OBVIOUS
<1> USE DEF IInv
<1>1. CASE \E d \in Requests : Request(d)
  BY <1>1, RequestTypes, RequestMarks
<1>2. CASE Sweep(Api)
  BY <1>2, SweepTypes, SweepMarks
<1>3. CASE Sweep(Worker)
  BY <1>3, SweepTypes, SweepMarks
<1>4. CASE StopWorker \/ Start \/ RunOnce \/ Claim \/ Slice \/ Except \/ AnotherPass \/ Leave
  BY <1>4, WorkTypes, WorkMarks
<1>5. CASE \E p \in Processes : Kill(p)
  BY <1>5, KillTypes, KillMarks
<1>6. CASE UNCHANGED vars
  BY <1>6 DEF TypeOK, MarkInv, LockSteps, Recovering, Slicing
<1> QED BY <1>1, <1>2, <1>3, <1>4, <1>5, <1>6 DEF Next, Work

(* The types, and the reason why recovery and the worker keep apart, hold   *)
(* in every reachable state.                                                *)
THEOREM MarkInvHolds == Spec => [](TypeOK /\ MarkInv)
<1>1. Init => IInv
  BY InitMarks
<1>2. IInv /\ [Next]_vars => IInv'
  BY NextKeepsIInv
<1> QED BY <1>1, <1>2, PTL DEF Spec, IInv

(* A recording that is being sliced is marked as this worker's, and neither *)
(* the next worker nor the API's stop is putting it back into the queue.    *)
THEOREM RecoveryKeepsOff == Spec => []MarkedWhileSliced
<1>1. TypeOK /\ MarkInv => MarkedWhileSliced
  BY MarkersProcesses DEF MarkInv, MarkedWhileSliced, Slicing, Recovering, RecordSteps
<1> QED BY <1>1, MarkInvHolds, PTL

-----------------------------------------------------------------------------
(* What the markers still allow to be started: one for the pending marker,  *)
(* one for a claimed recording that was not started yet, and one, with or   *)
(* without a pending marker beside it, for one that recovery will merge.    *)
Pendings == IF "pending" \in markers THEN 1 ELSE 0

Left ==
    IF pc[Worker] \in {"stamp", "begin"} THEN 1 + Pendings
    ELSE IF "processing" \in markers /\ owner = Nobody THEN 1 ELSE Pendings

StartsInv == starts + Left <= asked + breaks

(* A step pays for what it starts or makes startable.                       *)
LEMMA StartsKept ==
    ASSUME IInv, StartsInv, [Next]_vars PROVE StartsInv'
<1> USE MarkersProcesses DEF IInv, TypeOK, MarkInv, LockSteps, Recovering, Slicing,
        SweepSteps, RecordSteps, FailSteps, Written, Unlinked, Taken, Released,
        Withdrawn, Asked, Call, Fault, Goes, Claimable, IsAbandoned, AfterSweep, StillOwed,
        StartsInv, Left, Pendings
<1>1. ASSUME NEW d \in Requests, Scan(d) PROVE StartsInv' BY <1>1 DEF Scan
<1>2. ASSUME NEW d \in Requests, ScanHistory(d) PROVE StartsInv' BY <1>2 DEF ScanHistory
<1>3. ASSUME NEW d \in Requests, ScanHistoryRaises(d) PROVE StartsInv' BY <1>3 DEF ScanHistoryRaises
<1>4. ASSUME NEW d \in Requests, ScanReview(d) PROVE StartsInv' BY <1>4 DEF ScanReview
<1>5. ASSUME NEW d \in Requests, RequeueCheck(d) PROVE StartsInv' BY <1>5 DEF RequeueCheck, Check
<1>6. ASSUME NEW d \in Requests, Requeue(d) PROVE StartsInv' BY <1>6 DEF Requeue
<1>7. ASSUME NEW d \in Requests, RequeueHistory(d) PROVE StartsInv' BY <1>7 DEF RequeueHistory
<1>8. ASSUME NEW d \in Requests, RequeueHistoryRaises(d) PROVE StartsInv' BY <1>8 DEF RequeueHistoryRaises
<1>9. ASSUME NEW d \in Requests, RequeueUnlink(d) PROVE StartsInv' BY <1>9 DEF RequeueUnlink
<1>10. ASSUME NEW d \in Requests, CancelCheck(d) PROVE StartsInv' BY <1>10 DEF CancelCheck, Check
<1>11. ASSUME NEW d \in Requests, Cancel(d) PROVE StartsInv' BY <1>11 DEF Cancel
<1>12. ASSUME NEW d \in Requests, MarkCheck(d) PROVE StartsInv' BY <1>12 DEF MarkCheck, Check
<1>13. ASSUME NEW d \in Requests, MarkDone(d) PROVE StartsInv' BY <1>13 DEF MarkDone
<1>14. ASSUME NEW d \in Requests, MarkPending(d) PROVE StartsInv' BY <1>14 DEF MarkPending
<1>15. ASSUME NEW d \in Requests, MarkHistory(d) PROVE StartsInv' BY <1>15 DEF MarkHistory
<1>16. ASSUME NEW p \in {Worker, Api}, SweepNothing(p) PROVE StartsInv' BY <1>16 DEF SweepNothing
<1>17. ASSUME NEW p \in {Worker, Api}, SweepWrite(p) PROVE StartsInv' BY <1>17 DEF SweepWrite
<1>18. ASSUME NEW p \in {Worker, Api}, SweepHistory(p) PROVE StartsInv' BY <1>18 DEF SweepHistory
<1>19. ASSUME NEW p \in {Worker, Api}, SweepUnlink(p) PROVE StartsInv' BY <1>19 DEF SweepUnlink
<1>20. ASSUME NEW p \in {Worker, Api}, SweepRaises(p) PROVE StartsInv' BY <1>20 DEF SweepRaises
<1>21. CASE StopWorker BY <1>21 DEF StopWorker
<1>22. CASE Start BY <1>22 DEF Start
<1>23. CASE RunOnce BY <1>23 DEF RunOnce
<1>24. CASE ClaimNothing BY <1>24 DEF ClaimNothing
<1>25. CASE ClaimRename BY <1>25 DEF ClaimRename
<1>26. CASE ClaimRaises BY <1>26 DEF ClaimRaises
<1>27. CASE Stamp BY <1>27 DEF Stamp
<1>28. CASE StampRaises BY <1>28 DEF StampRaises
<1>29. CASE BeginSlice BY <1>29 DEF BeginSlice
<1>30. CASE SkipSmall BY <1>30 DEF SkipSmall
<1>31. CASE SliceEnds BY <1>31 DEF SliceEnds
<1>32. CASE WriteDone BY <1>32 DEF WriteDone
<1>33. CASE UnlinkProcessing BY <1>33 DEF UnlinkProcessing
<1>34. CASE ClearFailed BY <1>34 DEF ClearFailed
<1>35. CASE RecordHistory BY <1>35 DEF RecordHistory
<1>36. CASE RecordReview BY <1>36 DEF RecordReview
<1>37. CASE Raises BY <1>37 DEF Raises
<1>38. CASE FailHistory BY <1>38 DEF FailHistory
<1>39. CASE FailMarker BY <1>39 DEF FailMarker
<1>40. CASE FailMarkerRaises BY <1>40 DEF FailMarkerRaises
<1>41. CASE FailUnlink BY <1>41 DEF FailUnlink
<1>42. CASE AnotherPass BY <1>42 DEF AnotherPass
<1>43. CASE Leave BY <1>43 DEF Leave
<1>44. ASSUME NEW p \in Processes, Kill(p) PROVE StartsInv' BY <1>44 DEF Kill
<1>45. CASE UNCHANGED vars BY <1>45
<1> QED
  BY <1>1, <1>2, <1>3, <1>4, <1>5, <1>6, <1>7, <1>8, <1>9, <1>10, <1>11, <1>12, <1>13,
     <1>14, <1>15, <1>16, <1>17, <1>18, <1>19, <1>20, <1>21, <1>22, <1>23, <1>24, <1>25,
     <1>26, <1>27, <1>28, <1>29, <1>30, <1>31, <1>32, <1>33, <1>34, <1>35, <1>36, <1>37,
     <1>38, <1>39, <1>40, <1>41, <1>42, <1>43, <1>44, <1>45
  DEF Next, Request, ScanCall, RequeueCall, CancelCall, MarkCall, Sweep, Work, Claim,
      Slice, Except

(* The pipeline is started once per request, and again only for a break.    *)
THEOREM SlicedOnce == Spec => []SlicedOnceUnlessInterrupted
<1>1. Init => StartsInv
  BY DEF Init, StartsInv, Left, Pendings
<1>2. IInv /\ StartsInv /\ [Next]_vars => StartsInv'
  BY StartsKept
<1>3. IInv /\ StartsInv => SlicedOnceUnlessInterrupted
  BY DEF IInv, TypeOK, StartsInv, Left, Pendings, SlicedOnceUnlessInterrupted
<1> QED BY <1>1, <1>2, <1>3, InitMarks, NextKeepsIInv, PTL DEF Spec

-----------------------------------------------------------------------------
(* Before the marker that holds a request is removed, the request is        *)
(* settled, or another marker holds it.                                     *)
KeptInv == faults = 0 =>
    /\ RequestKept
    /\ \/ pc[Worker] \in {"unlink", "failUnlink"}
       \/ \E p \in {Worker, Api} : Recovering(p)
       => (owed => "pending" \in markers)
    /\ pc[Worker] \in FailSteps => hand = "processing"
    /\ pc[Worker] # "abort"

(* No operation raises: a request is kept by every step.                    *)
LEMMA KeptKept ==
    ASSUME IInv, KeptInv, [Next]_vars PROVE KeptInv'
<1> USE MarkersProcesses DEF IInv, TypeOK, MarkInv, LockSteps, Recovering, Slicing,
        SweepSteps, RecordSteps, FailSteps, Written, Unlinked, Taken, Released,
        Withdrawn, Asked, Call, Fault, Goes, Claimable, IsAbandoned, AfterSweep, StillOwed,
        KeptInv, RequestKept
<1>1. ASSUME NEW d \in Requests, Scan(d) PROVE KeptInv' BY <1>1 DEF Scan
<1>2. ASSUME NEW d \in Requests, ScanHistory(d) PROVE KeptInv' BY <1>2 DEF ScanHistory
<1>3. ASSUME NEW d \in Requests, ScanHistoryRaises(d) PROVE KeptInv' BY <1>3 DEF ScanHistoryRaises
<1>4. ASSUME NEW d \in Requests, ScanReview(d) PROVE KeptInv' BY <1>4 DEF ScanReview
<1>5. ASSUME NEW d \in Requests, RequeueCheck(d) PROVE KeptInv' BY <1>5 DEF RequeueCheck, Check
<1>6. ASSUME NEW d \in Requests, Requeue(d) PROVE KeptInv' BY <1>6 DEF Requeue
<1>7. ASSUME NEW d \in Requests, RequeueHistory(d) PROVE KeptInv' BY <1>7 DEF RequeueHistory
<1>8. ASSUME NEW d \in Requests, RequeueHistoryRaises(d) PROVE KeptInv' BY <1>8 DEF RequeueHistoryRaises
<1>9. ASSUME NEW d \in Requests, RequeueUnlink(d) PROVE KeptInv' BY <1>9 DEF RequeueUnlink
<1>10. ASSUME NEW d \in Requests, CancelCheck(d) PROVE KeptInv' BY <1>10 DEF CancelCheck, Check
<1>11. ASSUME NEW d \in Requests, Cancel(d) PROVE KeptInv' BY <1>11 DEF Cancel
<1>12. ASSUME NEW d \in Requests, MarkCheck(d) PROVE KeptInv' BY <1>12 DEF MarkCheck, Check
<1>13. ASSUME NEW d \in Requests, MarkDone(d) PROVE KeptInv' BY <1>13 DEF MarkDone
<1>14. ASSUME NEW d \in Requests, MarkPending(d) PROVE KeptInv'
  <2>1. pc'[Worker] = pc[Worker] /\ pc'[Api] = pc[Api] BY <1>14 DEF MarkPending
  <2>2. CASE UNCHANGED <<markers, owed>> BY <1>14, <2>1, <2>2 DEF MarkPending
  <2>3. CASE markers' = markers \ {"pending"} /\ owed' = (owed /\ "pending" \notin markers)
    <3>1. owed' => owed /\ "pending" \notin markers BY <2>3
    <3> QED BY <1>14, <2>1, <2>3, <3>1 DEF MarkPending
  <2> QED BY <1>14, <2>2, <2>3 DEF MarkPending
<1>15. ASSUME NEW d \in Requests, MarkHistory(d) PROVE KeptInv' BY <1>15 DEF MarkHistory
<1>16. ASSUME NEW p \in {Worker, Api}, SweepNothing(p) PROVE KeptInv' BY <1>16 DEF SweepNothing
<1>17. ASSUME NEW p \in {Worker, Api}, SweepWrite(p) PROVE KeptInv' BY <1>17 DEF SweepWrite
<1>18. ASSUME NEW p \in {Worker, Api}, SweepHistory(p) PROVE KeptInv' BY <1>18 DEF SweepHistory
<1>19. ASSUME NEW p \in {Worker, Api}, SweepUnlink(p) PROVE KeptInv' BY <1>19 DEF SweepUnlink
<1>20. ASSUME NEW p \in {Worker, Api}, SweepRaises(p) PROVE KeptInv' BY <1>20 DEF SweepRaises
<1>21. CASE StopWorker BY <1>21 DEF StopWorker
<1>22. CASE Start BY <1>22 DEF Start
<1>23. CASE RunOnce BY <1>23 DEF RunOnce
<1>24. CASE ClaimNothing BY <1>24 DEF ClaimNothing
<1>25. CASE ClaimRename BY <1>25 DEF ClaimRename
<1>26. CASE ClaimRaises BY <1>26 DEF ClaimRaises
<1>27. CASE Stamp BY <1>27 DEF Stamp
<1>28. CASE StampRaises BY <1>28 DEF StampRaises
<1>29. CASE BeginSlice BY <1>29 DEF BeginSlice
<1>30. CASE SkipSmall BY <1>30 DEF SkipSmall
<1>31. CASE SliceEnds BY <1>31 DEF SliceEnds
<1>32. CASE WriteDone BY <1>32 DEF WriteDone
<1>33. CASE UnlinkProcessing BY <1>33 DEF UnlinkProcessing
<1>34. CASE ClearFailed BY <1>34 DEF ClearFailed
<1>35. CASE RecordHistory BY <1>35 DEF RecordHistory
<1>36. CASE RecordReview BY <1>36 DEF RecordReview
<1>37. CASE Raises BY <1>37 DEF Raises
<1>38. CASE FailHistory BY <1>38 DEF FailHistory
<1>39. CASE FailMarker BY <1>39 DEF FailMarker
<1>40. CASE FailMarkerRaises BY <1>40 DEF FailMarkerRaises
<1>41. CASE FailUnlink BY <1>41 DEF FailUnlink
<1>42. CASE AnotherPass BY <1>42 DEF AnotherPass
<1>43. CASE Leave BY <1>43 DEF Leave
<1>44. ASSUME NEW p \in Processes, Kill(p) PROVE KeptInv' BY <1>44 DEF Kill
<1>45. CASE UNCHANGED vars BY <1>45
<1> QED
  BY <1>1, <1>2, <1>3, <1>4, <1>5, <1>6, <1>7, <1>8, <1>9, <1>10, <1>11, <1>12, <1>13,
     <1>14, <1>15, <1>16, <1>17, <1>18, <1>19, <1>20, <1>21, <1>22, <1>23, <1>24, <1>25,
     <1>26, <1>27, <1>28, <1>29, <1>30, <1>31, <1>32, <1>33, <1>34, <1>35, <1>36, <1>37,
     <1>38, <1>39, <1>40, <1>41, <1>42, <1>43, <1>44, <1>45
  DEF Next, Request, ScanCall, RequeueCall, CancelCall, MarkCall, Sweep, Work, Claim,
      Slice, Except

(* While no file operation raised, an accepted request is never lost.       *)
THEOREM RequestsAreKept == Spec => []RequestKept
<1>1. Init => KeptInv
  BY MarkersProcesses DEF Init, KeptInv, RequestKept, Recovering, FailSteps
<1>2. IInv /\ KeptInv /\ [Next]_vars => KeptInv'
  BY KeptKept
<1>3. KeptInv => RequestKept
  BY DEF KeptInv, RequestKept
<1> QED BY <1>1, <1>2, <1>3, InitMarks, NextKeepsIInv, PTL DEF Spec

-----------------------------------------------------------------------------
(* Where requests only scan and cancel: their steps are those two, and what *)
(* wrote .done has it beside the recording until it is through.             *)
QuietCalls ==
    /\ \A d \in Requests : pc[d] \in {"idle", "scanHistory", "scanReview", "cancel"}
    /\ pc[Worker] \in {"unlink", "clear", "history", "review"} => "done" \in markers

(* No request is between its pending marker and its history while the       *)
(* recording is marked or done; no marker waits beside a run; and recorded  *)
(* candidates have nothing left around them that could start another run.   *)
OneRun ==
    /\ markers \cap {"processing", "done"} # {} =>
          \A d \in Requests : pc[d] # "scanHistory"
    /\ pc[Worker] \in {"stamp", "begin", "slice"} \cup RecordSteps => "pending" \notin markers
    /\ history = "candidates" /\ faults = 0 =>
          /\ "done" \in markers /\ markers \cap {"pending", "processing"} = {}
          /\ pc[Worker] \notin {"clear", "history"} \cup FailSteps

(* No request does anything else, and nobody takes .done away.              *)
LEMMA QuietKept ==
    ASSUME Calls \subseteq {"scan", "cancel"}, IInv, QuietCalls, [Next]_vars
    PROVE  QuietCalls' /\ ("done" \in markers => "done" \in markers')
<1> USE MarkersProcesses DEF IInv, TypeOK, MarkInv, Written, Unlinked, Withdrawn, Asked,
        Goes, QuietCalls, AfterSweep
<1>1. ASSUME NEW d \in Requests, Request(d)
      PROVE  QuietCalls' /\ ("done" \in markers => "done" \in markers')
  <2>1. ScanCall(d) \/ CancelCall(d)
    BY <1>1 DEF Request, RequeueCall, RequeueCheck, Requeue, RequeueHistory,
                RequeueHistoryRaises, RequeueUnlink, MarkCall, MarkCheck, MarkDone,
                MarkPending, MarkHistory, Check, Call
  <2>2. /\ "done" \in markers => "done" \in markers'
        /\ pc'[d] \in {"idle", "scanHistory", "scanReview", "cancel"}
        /\ \A p \in Processes \ {d} : pc'[p] = pc[p]
    BY <2>1 DEF ScanCall, Scan, ScanHistory, ScanHistoryRaises, ScanReview, CancelCall,
                CancelCheck, Cancel, Check
  <2> QED BY <2>2
<1>2. ASSUME NEW p \in {Worker, Api}, Sweep(p)
      PROVE  QuietCalls' /\ ("done" \in markers => "done" \in markers')
  <2>1. /\ "done" \in markers => "done" \in markers'
        /\ pc'[p] \in {"claim", "idle", "rewrite", "reunlink"}
        /\ \A q \in Processes \ {p} : pc'[q] = pc[q]
    BY <1>2 DEF Sweep, SweepNothing, SweepWrite, SweepHistory, SweepUnlink, SweepRaises
  <2> QED BY <2>1
<1>3. CASE StopWorker
  BY <1>3 DEF StopWorker
<1>4. CASE Start \/ RunOnce \/ Claim \/ AnotherPass \/ Leave
  <2>1. /\ "done" \in markers => "done" \in markers'
        /\ pc'[Worker] = pc[Worker] \/ pc'[Worker] \in
              {"sweep", "quiet", "stamp", "begin", "fail", "leaving", "idle"}
        /\ \A q \in Processes \ {Worker} : pc'[q] = pc[q]
    BY <1>4 DEF Start, RunOnce, Claim, ClaimNothing, ClaimRename, ClaimRaises, Stamp,
                StampRaises, AnotherPass, Leave
  <2> QED BY <2>1
<1>5. CASE Slice
  <2>1. /\ "done" \in markers => "done" \in markers'
        /\ pc'[Worker] \in {"unlink", "clear", "history", "review"} => "done" \in markers'
        /\ \A q \in Processes \ {Worker} : pc'[q] = pc[q]
    BY <1>5 DEF Slice, BeginSlice, SkipSmall, SliceEnds, WriteDone, UnlinkProcessing,
                ClearFailed, RecordHistory, RecordReview, Raises
  <2> QED BY <2>1
<1>6. CASE Except
  <2>1. /\ "done" \in markers => "done" \in markers'
        /\ pc'[Worker] \in {"failMark", "failUnlink", "abort", "quiet", "idle"}
        /\ \A q \in Processes \ {Worker} : pc'[q] = pc[q]
    BY <1>6 DEF Except, FailHistory, FailMarker, FailMarkerRaises, FailUnlink
  <2> QED BY <2>1
<1>7. ASSUME NEW p \in Processes, Kill(p)
      PROVE  QuietCalls' /\ ("done" \in markers => "done" \in markers')
  BY <1>7 DEF Kill
<1>8. CASE UNCHANGED vars
  BY <1>8
<1> QED
  BY <1>1, <1>2, <1>3, <1>4, <1>5, <1>6, <1>7, <1>8 DEF Next, Work

(* A marked or finished recording is not queued again but by recovery, and  *)
(* recovery needs .processing.                                              *)
LEMMA OneRunKept ==
    ASSUME Calls \subseteq {"scan", "cancel"}, IInv, QuietCalls, OneRun, [Next]_vars
    PROVE  OneRun'
<1>1. QuietCalls' /\ ("done" \in markers => "done" \in markers')
  BY QuietKept
<1> USE MarkersProcesses DEF IInv, TypeOK, MarkInv, LockSteps, Recovering, Slicing,
        SweepSteps, RecordSteps, FailSteps, Written, Unlinked, Taken, Released,
        Withdrawn, Asked, Call, Fault, Goes, Claimable, IsAbandoned, AfterSweep,
        QuietCalls, OneRun
<1>2. ASSUME NEW d \in Requests, Scan(d) PROVE OneRun'
  BY <1>2 DEF Scan, IsQueueCandidate
<1>3. ASSUME NEW d \in Requests, ScanHistory(d) PROVE OneRun'
  BY <1>3 DEF ScanHistory
<1>4. ASSUME NEW d \in Requests, ScanHistoryRaises(d) PROVE OneRun'
  BY <1>4 DEF ScanHistoryRaises
<1>5. ASSUME NEW d \in Requests, ScanReview(d) PROVE OneRun'
  BY <1>5 DEF ScanReview
<1>6. ASSUME NEW d \in Requests, CancelCall(d) PROVE OneRun'
  BY <1>6 DEF CancelCall, CancelCheck, Check, Cancel
<1>7. ASSUME NEW d \in Requests, RequeueCall(d) \/ MarkCall(d) PROVE OneRun'
  BY <1>7 DEF RequeueCall, RequeueCheck, Requeue, RequeueHistory,
              RequeueHistoryRaises, RequeueUnlink, MarkCall, MarkCheck, MarkDone,
              MarkPending, MarkHistory, Check
<1>8. ASSUME NEW p \in {Worker, Api}, SweepNothing(p) PROVE OneRun'
  BY <1>8 DEF SweepNothing
<1>9. ASSUME NEW p \in {Worker, Api}, SweepWrite(p) PROVE OneRun'
  BY <1>9 DEF SweepWrite
<1>10. ASSUME NEW p \in {Worker, Api}, SweepHistory(p) PROVE OneRun'
  BY <1>10 DEF SweepHistory
<1>11. ASSUME NEW p \in {Worker, Api}, SweepUnlink(p) PROVE OneRun'
  BY <1>11 DEF SweepUnlink
<1>12. ASSUME NEW p \in {Worker, Api}, SweepRaises(p) PROVE OneRun'
  BY <1>12 DEF SweepRaises
<1>13. CASE Start BY <1>1, <1>13 DEF Start
<1>14. CASE RunOnce BY <1>1, <1>14 DEF RunOnce
<1>15. CASE ClaimNothing BY <1>1, <1>15 DEF ClaimNothing
<1>16. CASE ClaimRename BY <1>1, <1>16 DEF ClaimRename
<1>17. CASE ClaimRaises BY <1>1, <1>17 DEF ClaimRaises
<1>18. CASE Stamp BY <1>1, <1>18 DEF Stamp
<1>19. CASE StampRaises BY <1>1, <1>19 DEF StampRaises
<1>20. CASE BeginSlice BY <1>1, <1>20 DEF BeginSlice
<1>21. CASE SkipSmall BY <1>1, <1>21 DEF SkipSmall
<1>22. CASE SliceEnds BY <1>1, <1>22 DEF SliceEnds
<1>23. CASE WriteDone BY <1>1, <1>23 DEF WriteDone
<1>24. CASE UnlinkProcessing BY <1>1, <1>24 DEF UnlinkProcessing
<1>25. CASE ClearFailed BY <1>1, <1>25 DEF ClearFailed
<1>26. CASE RecordHistory BY <1>1, <1>26 DEF RecordHistory
<1>27. CASE RecordReview BY <1>1, <1>27 DEF RecordReview
<1>28. CASE Raises BY <1>1, <1>28 DEF Raises
<1>29. CASE FailHistory BY <1>1, <1>29 DEF FailHistory
<1>30. CASE FailMarker BY <1>1, <1>30 DEF FailMarker
<1>31. CASE FailMarkerRaises BY <1>1, <1>31 DEF FailMarkerRaises
<1>32. CASE FailUnlink BY <1>1, <1>32 DEF FailUnlink
<1>33. CASE AnotherPass BY <1>1, <1>33 DEF AnotherPass
<1>34. CASE Leave BY <1>1, <1>34 DEF Leave
<1>35. CASE StopWorker BY <1>1, <1>35 DEF StopWorker
<1>36. ASSUME NEW p \in Processes, Kill(p) PROVE OneRun' BY <1>36 DEF Kill
<1>37. CASE UNCHANGED vars BY <1>37
<1> QED
  BY <1>2, <1>3, <1>4, <1>5, <1>6, <1>7, <1>8, <1>9, <1>10, <1>11, <1>12, <1>13, <1>14,
     <1>15, <1>16, <1>17, <1>18, <1>19, <1>20, <1>21, <1>22, <1>23, <1>24, <1>25, <1>26, <1>27,
     <1>28, <1>29, <1>30, <1>31, <1>32, <1>33, <1>34, <1>35, <1>36, <1>37
     DEF Next, Request, ScanCall, Sweep, Work, Claim, Slice, Except

(* Nothing is marked or asked at the start.                                 *)
LEMMA InitQuiet == Init => QuietCalls /\ OneRun
BY MarkersProcesses DEF Init, QuietCalls, OneRun, RecordSteps, FailSteps

(* Where requests only scan and cancel, the reasons hold throughout.        *)
LEMMA QuietHolds ==
    ASSUME Calls \subseteq {"scan", "cancel"}
    PROVE  Spec => [](IInv /\ QuietCalls /\ OneRun)
<1>1. IInv /\ QuietCalls /\ OneRun /\ [Next]_vars => (IInv /\ QuietCalls /\ OneRun)'
  BY NextKeepsIInv, QuietKept, OneRunKept
<1> QED BY <1>1, InitMarks, InitQuiet, PTL DEF Spec

(* Recorded candidates are never overwritten before an operation raises,    *)
(* for any number of requests, scans, cancels and kills.                    *)
THEOREM ResultsAreKept ==
    ASSUME Calls \subseteq {"scan", "cancel"}
    PROVE  Spec => ResultsSurvive
<1> DEFINE Kept == history = "candidates" /\ faults' = 0 => history' = "candidates"
<1>1. IInv /\ QuietCalls /\ OneRun /\ [Next]_vars => [Kept]_vars
  <2> SUFFICES ASSUME IInv, QuietCalls, OneRun, Next, history = "candidates", faults' = 0
               PROVE  history' = "candidates"
    OBVIOUS
  <2> USE MarkersProcesses DEF IInv, TypeOK, Fault, Goes
  <2>1. /\ "done" \in markers /\ markers \cap {"pending", "processing"} = {}
        /\ pc[Worker] \notin {"clear", "history"} \cup FailSteps
        /\ \A d \in Requests : pc[d] # "scanHistory"
    <3>1. faults = 0
      BY DEF Next, Request, ScanCall, Scan, ScanHistory, ScanHistoryRaises, ScanReview,
             RequeueCall, RequeueCheck, Requeue, RequeueHistory, RequeueHistoryRaises,
             RequeueUnlink, CancelCall, CancelCheck, Cancel, MarkCall, MarkCheck,
             MarkDone, MarkPending, MarkHistory, Check, StopWorker, Sweep, SweepNothing,
             SweepWrite, SweepHistory, SweepUnlink, SweepRaises, Start, RunOnce, Work,
             Claim, ClaimNothing, ClaimRename, ClaimRaises, Stamp, StampRaises, Slice,
             BeginSlice, SkipSmall, SliceEnds, WriteDone, UnlinkProcessing, ClearFailed,
             RecordHistory, RecordReview, Raises, Except, FailHistory, FailMarker,
             FailMarkerRaises, FailUnlink, AnotherPass, Leave, Kill
    <3> QED BY <3>1 DEF OneRun
  <2>2. ASSUME NEW d \in Requests, Request(d) PROVE history' = history
    BY <2>1, <2>2 DEF QuietCalls, Request, ScanCall, Scan, ScanHistory,
           ScanHistoryRaises, ScanReview, RequeueCall, RequeueCheck, Requeue,
           RequeueHistory, RequeueHistoryRaises, RequeueUnlink, CancelCall, CancelCheck,
           Cancel, MarkCall, MarkCheck, MarkDone, MarkPending, MarkHistory, Check
  <2>3. ASSUME NEW p \in {Worker, Api}, Sweep(p) PROVE history' = history
    BY <2>1, <2>3 DEF MarkInv, Recovering, Sweep, SweepNothing, SweepWrite,
                      SweepHistory, SweepUnlink, SweepRaises
  <2>4. CASE StopWorker \/ Start \/ RunOnce \/ Claim \/ Except \/ AnotherPass \/ Leave
    BY <2>1, <2>4 DEF StopWorker, Start, RunOnce, Claim, ClaimNothing, ClaimRename,
           ClaimRaises, Stamp, StampRaises, Except, FailHistory, FailMarker,
           FailMarkerRaises, FailUnlink, AnotherPass, Leave, FailSteps
  <2>5. CASE Slice
    BY <2>1, <2>5 DEF MarkInv, Slicing, Slice, BeginSlice, SkipSmall, SliceEnds,
           WriteDone, UnlinkProcessing, ClearFailed, RecordHistory, RecordReview, Raises
  <2>6. ASSUME NEW p \in Processes, Kill(p) PROVE history' = history
    BY <2>6 DEF Kill
  <2> QED BY <2>2, <2>3, <2>4, <2>5, <2>6 DEF Next, Work
<1>2. Spec => [](IInv /\ QuietCalls /\ OneRun)
  BY QuietHolds
<1> QED BY <1>1, <1>2, PTL DEF Spec, ResultsSurvive

(* ... and the status shown follows README.md:187, faults or none: the      *)
(* outcome only after processing, processing only after pending, pending    *)
(* again only after a failure or a withdrawal, and nothing after done.      *)
THEOREM ShownFollows ==
    ASSUME Calls \subseteq {"scan", "cancel"}
    PROVE  Spec => ShownFollowsTheDiagram
<1> DEFINE Follows == Shown' # Shown =>
              /\ Shown # "done"
              /\ Shown' = "done" => Shown = "processing"
              /\ Shown' = "processing" => Shown = "pending"
              /\ Shown = "failed" => Shown' = "pending"
<1>1. IInv /\ QuietCalls /\ OneRun /\ [Next]_vars => [Follows]_vars
  <2> SUFFICES ASSUME IInv, QuietCalls, OneRun, [Next]_vars PROVE Follows
    OBVIOUS
  <2>1. "done" \in markers => "done" \in markers'
    BY QuietKept
  <2>2. SUFFICES \/ markers' = markers
                 \/ "done" \in markers /\ "done" \in markers'
                 \/ markers' = markers \cup {"pending"}
                 \/ markers' = markers \ {"pending"}
                 \/ Claimable /\ markers' = (markers \ {"pending"}) \cup {"processing"}
                 \/ "processing" \in markers /\ markers' = markers \cup {"done"}
                 \/ markers' = markers \ {"processing"}
                 \/ markers' = markers \cup {"failed"}
    BY <2>1 DEF Shown, Claimable
  <2> USE DEF Written, Unlinked, Withdrawn, Asked
  <2>3. ASSUME NEW d \in Requests, Request(d)
        PROVE  \/ markers' = markers \/ markers' = markers \cup {"pending"}
               \/ markers' = markers \ {"pending"}
    BY <2>3 DEF QuietCalls, Goes, Request, ScanCall, Scan, ScanHistory,
           ScanHistoryRaises, ScanReview, RequeueCall, RequeueCheck, Requeue,
           RequeueHistory, RequeueHistoryRaises, RequeueUnlink, CancelCall, CancelCheck,
           Cancel, MarkCall, MarkCheck, MarkDone, MarkPending, MarkHistory, Check, Call
  <2>4. ASSUME NEW p \in {Worker, Api}, Sweep(p)
        PROVE  \/ markers' = markers \/ markers' = markers \cup {"pending"}
               \/ markers' = markers \ {"processing"}
    BY <2>4 DEF Sweep, SweepNothing, SweepWrite, SweepHistory, SweepUnlink, SweepRaises
  <2>5. CASE StopWorker \/ Start \/ RunOnce \/ Claim \/ AnotherPass \/ Leave
    BY <2>5 DEF StopWorker, Start, RunOnce, Claim, ClaimNothing, ClaimRename,
           ClaimRaises, Stamp, StampRaises, AnotherPass, Leave
  <2>6. CASE Slice
    BY <2>1, <2>6 DEF IInv, MarkInv, Slicing, QuietCalls, Goes, Slice, BeginSlice,
           SkipSmall, SliceEnds, WriteDone, UnlinkProcessing, ClearFailed,
           RecordHistory, RecordReview, Raises
  <2>7. CASE Except
    BY <2>7 DEF IInv, TypeOK, Except, FailHistory, FailMarker, FailMarkerRaises, FailUnlink
  <2>8. ASSUME NEW p \in Processes, Kill(p) PROVE markers' = markers
    BY <2>8 DEF Kill
  <2>9. CASE UNCHANGED vars
    BY <2>9
  <2> QED
    BY <2>3, <2>4, <2>5, <2>6, <2>7, <2>8, <2>9 DEF Next, Work
<1>2. Spec => [](IInv /\ QuietCalls /\ OneRun)
  BY QuietHolds
<1> QED BY <1>1, <1>2, PTL DEF Spec, ShownFollowsTheDiagram

=============================================================================
