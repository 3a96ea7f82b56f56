-------------------------- MODULE WorkerWakeProofs --------------------------
(***************************************************************************)
(* Theorems of WorkerWake, for any pids, requests, clients and faults: one *)
(* worker serves at a time and the lock file names it, a stop ends the     *)
(* worker that was serving, and the idle shutdown strands nothing.         *)
(***************************************************************************)
EXTENDS WorkerWake, TLAPS

USE DEF lock, work, process, stop, uploads, history, vars

IInv == TypeOK /\ HoldsToServe /\ FileNamesServer /\ StopInv /\ ReadingInv

LEMMA InitWake == Init => IInv
<1> SUFFICES ASSUME Init PROVE IInv
  OBVIOUS
<1>1. TypeOK
  <2>1. LockTypeOK
    BY DEF Init, LockTypeOK, Places
  <2>2. faults \in 0 .. MaxFaults
    BY WakeAssumption DEF Init
  <2> QED
    BY <2>1, <2>2 DEF Init, TypeOK
<1>2. HoldsToServe /\ FileNamesServer
  BY PidsAssumption DEF Init, HoldsToServe, FileNamesServer, Holding
<1>3. StopInv /\ ReadingInv
  BY DEF Init, StopInv, ReadingInv, NoWorker
<1> QED BY <1>1, <1>2, <1>3 DEF IInv

(* A bounded failure keeps the count within its bound.                      *)
LEMMA BoundedFaults ==
    ASSUME TypeOK, Fault \/ UNCHANGED faults PROVE faults' \in 0 .. MaxFaults
BY WakeAssumption DEF TypeOK, Fault

(* Every step keeps the types.                                              *)
LEMMA StepTypes ==
    ASSUME TypeOK, [Next]_vars PROVE TypeOK'
<1> USE PidsAssumption DEF TypeOK, LockTypeOK, Places, Probers
<1>1. ASSUME NEW r \in Requests, Request(r) PROVE TypeOK'
  BY <1>1 DEF Request
<1>2. CASE ReleaseRow
  BY <1>2 DEF ReleaseRow
<1>3. CASE StartUpload
  <2>1. elapsed' \in BOOLEAN
    BY <1>3 DEF StartUpload, StartConsumer, Answers
  <2> QED
    BY <1>3, <2>1 DEF StartUpload, StartConsumer, Answers
<1>4. CASE Stop
  <2>1. elapsed' \in BOOLEAN
    BY <1>4 DEF Stop, PostStop, Answers, Fault, Loops
  <2>2. faults' \in 0 .. MaxFaults
    BY <1>4, BoundedFaults DEF Stop, PostStop, Answers, Loops
  <2> QED
    BY <1>4, <2>1, <2>2 DEF Stop, PostStop, Answers, Loops
<1>5. CASE ApiHangs
  <2>1. faults' \in 0 .. MaxFaults
    BY <1>5, BoundedFaults DEF ApiHangs
  <2> QED
    BY <1>5, <2>1 DEF ApiHangs
<1>6. CASE ConsumerDies
  <2>1. faults' \in 0 .. MaxFaults
    BY <1>6, BoundedFaults DEF ConsumerDies
  <2> QED
    BY <1>6, <2>1 DEF ConsumerDies
<1>7. ASSUME NEW w \in Workers, WorkerKilled(w) PROVE TypeOK'
  <2>1. faults' \in 0 .. MaxFaults
    BY <1>7, BoundedFaults DEF WorkerKilled, Ends, Dies, Goes, Forget, Alive
  <2> QED
    BY <1>7, <2>1 DEF WorkerKilled, Ends, Dies, Goes, Forget, Alive
<1>8. CASE StatusProbe
  <2>1. faults' \in 0 .. MaxFaults
    BY <1>8, BoundedFaults DEF StatusProbe, ProbeTakes, ProbeGives
  <2> QED
    BY <1>8, <2>1 DEF StatusProbe, ProbeTakes, ProbeGives
<1>9. CASE WindowPasses
  BY <1>9 DEF WindowPasses
<1>10. CASE Publish
  <2>1. rows' \in BOOLEAN
    BY <1>10 DEF Publish
  <2> QED
    BY <1>10, <2>1 DEF Publish
<1>11. CASE ApiStarts
  <2>1. faults' \in 0 .. MaxFaults
    BY <1>11, BoundedFaults DEF ApiStarts
  <2>2. owns' \in BOOLEAN
    BY <1>11 DEF ApiStarts
  <2>3. consumer' \in {"none", "owned", "orphan"}
    BY <1>11 DEF ApiStarts, StartConsumer
  <2> QED
    BY <1>11, <2>1, <2>2, <2>3 DEF ApiStarts
<1>12. CASE ApiExits
  BY <1>12 DEF ApiExits, StopConsumer
<1>13. CASE PollChild
  BY <1>13 DEF PollChild, Replies, Loops, Hanging
<1>14. CASE ProbeForStart
  BY <1>14 DEF ProbeForStart, Replies, Loops, Hanging, ProbeTakes, ProbeGives
<1>15. CASE ReadPid
  BY <1>15 DEF ReadPid, Loops
<1>16. CASE ReadLock
  BY <1>16 DEF ReadLock, Loops, ProbeTakes, ProbeGives
<1>17. CASE RecoverStopped
  BY <1>17 DEF RecoverStopped, Recover, Loops
<1>18. CASE Stopped
  BY <1>18 DEF Stopped, Loops
<1>19. CASE LookAtLock
  <2>1. busy' \in BOOLEAN
    BY <1>19 DEF LookAtLock, Loops, ProbeTakes, ProbeGives
  <2> QED
    BY <1>19, <2>1 DEF LookAtLock, Loops, ProbeTakes, ProbeGives
<1>20. CASE Conclude
  <2>1. elapsed' \in BOOLEAN
    BY <1>20 DEF Conclude, Loops
  <2>2. busy' \in BOOLEAN
    BY <1>20 DEF Conclude, Loops
  <2>3. confirming' \in BOOLEAN
    BY <1>20 DEF Conclude, Loops
  <2> QED
    BY <1>20, <2>1, <2>2, <2>3 DEF Conclude, Loops
<1>21. ASSUME NEW w \in Workers, Spawn(w) PROVE TypeOK'
  BY <1>21 DEF Spawn, Goes, Replies, Loops, Hanging, Alive
<1>22. ASSUME NEW w \in Workers, Terminate(w) PROVE TypeOK'
  BY <1>22 DEF Terminate, Ends, Dies, Goes, Forget, Alive
<1>23. CASE LookAtProcesses
  <2>1. confirming' \in BOOLEAN
    BY <1>23 DEF LookAtProcesses, Loops
  <2>2. busy' \in BOOLEAN
    BY <1>23 DEF LookAtProcesses, Loops
  <2> QED
    BY <1>23, <2>1, <2>2 DEF LookAtProcesses, Loops
<1>24. ASSUME NEW c \in Clients, Trigger(c) PROVE TypeOK'
  BY <1>24 DEF Trigger, At, Moves, OnlyTheClient
<1>25. ASSUME NEW c \in Clients, ReadStatus(c) PROVE TypeOK'
  <2>1. faults' \in 0 .. MaxFaults
    BY <1>25, BoundedFaults DEF ReadStatus, At, Moves, OnlyTheClient
  <2>2. client' \in [Clients -> {"idle", "status", "run", "end", "rerun", "poll", "post", "wait"}]
    BY <1>25 DEF ReadStatus, At, Moves, OnlyTheClient, Fault
  <2> QED
    BY <1>25, <2>1, <2>2 DEF ReadStatus, At, Moves, OnlyTheClient
<1>26. ASSUME NEW c \in Clients, Poll(c) PROVE TypeOK'
  <2>1. faults' \in 0 .. MaxFaults
    BY <1>26, BoundedFaults DEF Poll, At, Moves, OnlyTheClient
  <2>2. client' \in [Clients -> {"idle", "status", "run", "end", "rerun", "poll", "post", "wait"}]
    BY <1>26 DEF Poll, At, Moves, OnlyTheClient, Fault
  <2> QED
    BY <1>26, <2>1, <2>2 DEF Poll, At, Moves, OnlyTheClient
<1>27. ASSUME NEW c \in Clients, PostFails(c) PROVE TypeOK'
  <2>1. faults' \in 0 .. MaxFaults
    BY <1>27, BoundedFaults DEF PostFails, At, Moves
  <2>2. client' \in [Clients -> {"idle", "status", "run", "end", "rerun", "poll", "post", "wait"}]
    BY <1>27 DEF PostFails, At, Moves, Fault
  <2> QED
    BY <1>27, <2>1, <2>2 DEF PostFails, At, Moves
<1>28. ASSUME NEW c \in Clients, RunOnce(c) PROVE TypeOK'
  <2>1. elapsed' \in BOOLEAN
    BY <1>28 DEF RunOnce, At, Moves, Loops, Fault
  <2>2. faults' \in 0 .. MaxFaults
    BY <1>28, BoundedFaults DEF RunOnce, At, Moves, Loops
  <2>3. client' \in [Clients -> {"idle", "status", "run", "end", "rerun", "poll", "post", "wait"}]
    BY <1>28 DEF RunOnce, At, Moves, Loops, Fault
  <2> QED
    BY <1>28, <2>1, <2>2, <2>3 DEF RunOnce, At, Moves, Loops
<1>29. ASSUME NEW c \in Clients, RunTask(c) PROVE TypeOK'
  <2>1. faults' \in 0 .. MaxFaults
    BY <1>29, BoundedFaults DEF RunTask, At, Moves
  <2>2. client' \in [Clients -> {"idle", "status", "run", "end", "rerun", "poll", "post", "wait"}]
    BY <1>29 DEF RunTask, At, Moves, Fault
  <2> QED
    BY <1>29, <2>1, <2>2 DEF RunTask, At, Moves
<1>30. ASSUME NEW c \in Clients, EndTask(c) PROVE TypeOK'
  <2>1. confirming' \in BOOLEAN
    BY <1>30 DEF EndTask, At, Moves, ApiKilled, Hanging, Fault
  <2>2. busy' \in BOOLEAN
    BY <1>30 DEF EndTask, At, Moves, ApiKilled, Hanging, Fault
  <2>3. elapsed' \in BOOLEAN
    BY <1>30 DEF EndTask, At, Moves, ApiKilled, Hanging, Fault
  <2>4. faults' \in 0 .. MaxFaults
    BY <1>30, BoundedFaults DEF EndTask, At, Moves, ApiKilled, Hanging
  <2>5. client' \in [Clients -> {"idle", "status", "run", "end", "rerun", "poll", "post", "wait"}]
    BY <1>30 DEF EndTask, At, Moves, ApiKilled, Hanging, Fault
  <2>6. owns' \in BOOLEAN
    BY <1>30 DEF EndTask, At, Moves, ApiKilled, Hanging, Fault
  <2> QED
    BY <1>30, <2>1, <2>2, <2>3, <2>4, <2>5, <2>6 DEF EndTask, At, Moves, ApiKilled, Hanging
<1>31. ASSUME NEW w \in Workers, WorkerStep(w) PROVE TypeOK'
  BY <1>31 DEF WorkerStep, Acquire, Refused, WritePid, RemovePid, Release, Goes, Forget
<1>32. ASSUME NEW w \in Workers, RecoverPass(w) PROVE TypeOK'
  BY <1>32 DEF RecoverPass, Recover
<1>33. ASSUME NEW w \in Workers, Complete(w) PROVE TypeOK'
  <2>1. rows' \in BOOLEAN
    BY <1>33 DEF Complete
  <2> QED
    BY <1>33, <2>1 DEF Complete
<1>34. ASSUME NEW w \in Workers, Quiet(w) PROVE TypeOK'
  BY <1>34 DEF Quiet, Goes
<1>35. ASSUME NEW w \in Workers, NEW r \in Requests, Take(w, r) PROVE TypeOK'
  BY <1>35 DEF Take
<1>36. CASE UNCHANGED vars
  BY <1>36
<1> QED
  BY <1>1, <1>2, <1>3, <1>4, <1>5, <1>6, <1>7, <1>8, <1>9, <1>10, <1>11, <1>12,
     <1>13, <1>14, <1>15, <1>16, <1>17, <1>18, <1>19, <1>20, <1>21, <1>22, <1>23,
     <1>24, <1>25, <1>26, <1>27, <1>28, <1>29, <1>30, <1>31, <1>32, <1>33, <1>34,
     <1>35, <1>36 DEF Next, Arrivals, Failures, EventLoop, Client, Talks, Worker

(* ... the exclusion and the name in the file ...                           *)
LEMMA StepLock ==
    ASSUME LockTypeOK, HoldsToServe, FileNamesServer, [Next]_vars PROVE (HoldsToServe /\ FileNamesServer)'
<1> USE PidsAssumption DEF LockTypeOK, Places, Probers, Holding, HoldsToServe, FileNamesServer
<1>1. ASSUME NEW r \in Requests, Request(r) PROVE (HoldsToServe /\ FileNamesServer)'
  BY <1>1 DEF Request
<1>2. CASE ReleaseRow
  BY <1>2 DEF ReleaseRow
<1>3. CASE StartUpload
  BY <1>3 DEF StartUpload, StartConsumer, Answers
<1>4. CASE Stop
  BY <1>4 DEF Stop, PostStop, Answers, Fault, Loops
<1>5. CASE ApiHangs
  BY <1>5 DEF ApiHangs, Fault
<1>6. CASE ConsumerDies
  BY <1>6 DEF ConsumerDies, Fault
<1>7. ASSUME NEW w \in Workers, WorkerKilled(w) PROVE (HoldsToServe /\ FileNamesServer)'
  BY <1>7 DEF WorkerKilled, Fault, Ends, Dies, Goes, Forget, Alive
<1>8. CASE StatusProbe
  BY <1>8 DEF StatusProbe, Fault, ProbeTakes, ProbeGives
<1>9. CASE WindowPasses
  BY <1>9 DEF WindowPasses
<1>10. CASE Publish
  BY <1>10 DEF Publish
<1>11. CASE ApiStarts
  BY <1>11 DEF ApiStarts, StartConsumer
<1>12. CASE ApiExits
  BY <1>12 DEF ApiExits, StopConsumer
<1>13. CASE PollChild
  BY <1>13 DEF PollChild, Replies, Loops, Hanging
<1>14. CASE ProbeForStart
  BY <1>14 DEF ProbeForStart, Replies, Loops, Hanging, ProbeTakes, ProbeGives
<1>15. CASE ReadPid
  BY <1>15 DEF ReadPid, Loops
<1>16. CASE ReadLock
  BY <1>16 DEF ReadLock, Loops, ProbeTakes, ProbeGives
<1>17. CASE RecoverStopped
  BY <1>17 DEF RecoverStopped, Recover, Loops
<1>18. CASE Stopped
  BY <1>18 DEF Stopped, Loops
<1>19. CASE LookAtLock
  BY <1>19 DEF LookAtLock, Loops, ProbeTakes, ProbeGives
<1>20. CASE Conclude
  BY <1>20 DEF Conclude, Loops
<1>21. ASSUME NEW w \in Workers, Spawn(w) PROVE (HoldsToServe /\ FileNamesServer)'
  BY <1>21 DEF Spawn, Goes, Replies, Loops, Hanging, Alive
<1>22. ASSUME NEW w \in Workers, Terminate(w) PROVE (HoldsToServe /\ FileNamesServer)'
  BY <1>22 DEF Terminate, Ends, Dies, Goes, Forget, Alive
<1>23. CASE LookAtProcesses
  BY <1>23 DEF LookAtProcesses, Loops
<1>24. ASSUME NEW c \in Clients, Trigger(c) PROVE (HoldsToServe /\ FileNamesServer)'
  BY <1>24 DEF Trigger, At, Moves, OnlyTheClient
<1>25. ASSUME NEW c \in Clients, ReadStatus(c) PROVE (HoldsToServe /\ FileNamesServer)'
  BY <1>25 DEF ReadStatus, At, Moves, OnlyTheClient, Fault
<1>26. ASSUME NEW c \in Clients, Poll(c) PROVE (HoldsToServe /\ FileNamesServer)'
  BY <1>26 DEF Poll, At, Moves, OnlyTheClient, Fault
<1>27. ASSUME NEW c \in Clients, PostFails(c) PROVE (HoldsToServe /\ FileNamesServer)'
  BY <1>27 DEF PostFails, At, Moves, Fault
<1>28. ASSUME NEW c \in Clients, RunOnce(c) PROVE (HoldsToServe /\ FileNamesServer)'
  BY <1>28 DEF RunOnce, At, Moves, Loops, Fault
<1>29. ASSUME NEW c \in Clients, RunTask(c) PROVE (HoldsToServe /\ FileNamesServer)'
  BY <1>29 DEF RunTask, At, Moves, Fault
<1>30. ASSUME NEW c \in Clients, EndTask(c) PROVE (HoldsToServe /\ FileNamesServer)'
  BY <1>30 DEF EndTask, At, Moves, ApiKilled, Hanging, Fault
<1>31. ASSUME NEW w \in Workers, WorkerStep(w) PROVE (HoldsToServe /\ FileNamesServer)'
  BY <1>31 DEF WorkerStep, Acquire, Refused, WritePid, RemovePid, Release, Goes, Forget
<1>32. ASSUME NEW w \in Workers, RecoverPass(w) PROVE (HoldsToServe /\ FileNamesServer)'
  BY <1>32 DEF RecoverPass, Recover
<1>33. ASSUME NEW w \in Workers, Complete(w) PROVE (HoldsToServe /\ FileNamesServer)'
  BY <1>33 DEF Complete
<1>34. ASSUME NEW w \in Workers, Quiet(w) PROVE (HoldsToServe /\ FileNamesServer)'
  BY <1>34 DEF Quiet, Goes
<1>35. ASSUME NEW w \in Workers, NEW r \in Requests, Take(w, r) PROVE (HoldsToServe /\ FileNamesServer)'
  BY <1>35 DEF Take
<1>36. CASE UNCHANGED vars
  BY <1>36
<1> QED
  BY <1>1, <1>2, <1>3, <1>4, <1>5, <1>6, <1>7, <1>8, <1>9, <1>10, <1>11, <1>12,
     <1>13, <1>14, <1>15, <1>16, <1>17, <1>18, <1>19, <1>20, <1>21, <1>22, <1>23,
     <1>24, <1>25, <1>26, <1>27, <1>28, <1>29, <1>30, <1>31, <1>32, <1>33, <1>34,
     <1>35, <1>36 DEF Next, Arrivals, Failures, EventLoop, Client, Talks, Worker

(* ... what a stop knows of the server ...                                  *)
LEMMA StepStop ==
    ASSUME TypeOK, HoldsToServe, FileNamesServer, StopInv, [Next]_vars PROVE StopInv'
<1> USE PidsAssumption DEF StopInv, Stopping
<1>1. ASSUME NEW r \in Requests, Request(r) PROVE StopInv'
  BY <1>1 DEF Request, TypeOK, LockTypeOK
<1>2. CASE ReleaseRow
  BY <1>2 DEF ReleaseRow, TypeOK, LockTypeOK
<1>3. CASE StartUpload
  BY <1>3 DEF StartUpload, StartConsumer, Answers, TypeOK, LockTypeOK
<1>4. CASE Stop
  BY <1>4 DEF Stop, PostStop, Answers, Fault, Loops, TypeOK, LockTypeOK
<1>5. CASE ApiHangs
  BY <1>5 DEF ApiHangs, Fault, TypeOK, LockTypeOK
<1>6. CASE ConsumerDies
  BY <1>6 DEF ConsumerDies, Fault, TypeOK, LockTypeOK
<1>7. ASSUME NEW w \in Workers, WorkerKilled(w) PROVE StopInv'
  BY <1>7 DEF WorkerKilled, Fault, Ends, Dies, Goes, Forget, Alive, TypeOK, LockTypeOK
<1>8. CASE StatusProbe
  BY <1>8 DEF StatusProbe, Fault, ProbeTakes, ProbeGives, TypeOK, LockTypeOK
<1>9. CASE WindowPasses
  BY <1>9 DEF WindowPasses, TypeOK, LockTypeOK
<1>10. CASE Publish
  BY <1>10 DEF Publish, TypeOK, LockTypeOK
<1>11. CASE ApiStarts
  BY <1>11 DEF ApiStarts, StartConsumer, TypeOK, LockTypeOK
<1>12. CASE ApiExits
  BY <1>12 DEF ApiExits, StopConsumer, TypeOK, LockTypeOK
<1>13. CASE PollChild
  BY <1>13 DEF PollChild, Replies, Loops, Hanging, TypeOK, LockTypeOK
<1>14. CASE ProbeForStart
  BY <1>14 DEF ProbeForStart, Replies, Loops, Hanging, ProbeTakes, ProbeGives, TypeOK, LockTypeOK
<1>15. CASE ReadPid
  BY <1>15 DEF ReadPid, Loops, TypeOK, LockTypeOK, HoldsToServe, FileNamesServer, Holding
<1>16. CASE ReadLock
  <2>1. server # Nobody /\ pc[server] = "draining" => guard = server /\ file = server
    BY DEF TypeOK, HoldsToServe, FileNamesServer, Holding
  <2>2. server # Nobody /\ pc[server] = "draining" => OwnerRunning /\ file # Nobody /\ guard # "loop"
    BY <2>1 DEF OwnerRunning, TypeOK, Probers
  <2> QED
    BY <1>16, <2>1, <2>2 DEF ReadLock, Loops, ProbeTakes, ProbeGives, TypeOK, LockTypeOK
<1>17. CASE RecoverStopped
  BY <1>17 DEF RecoverStopped, Recover, Loops, TypeOK, LockTypeOK
<1>18. CASE Stopped
  BY <1>18 DEF Stopped, Loops, TypeOK, LockTypeOK
<1>19. CASE LookAtLock
  BY <1>19 DEF LookAtLock, Loops, ProbeTakes, ProbeGives, TypeOK, LockTypeOK
<1>20. CASE Conclude
  BY <1>20 DEF Conclude, Loops, TypeOK, LockTypeOK
<1>21. ASSUME NEW w \in Workers, Spawn(w) PROVE StopInv'
  BY <1>21 DEF Spawn, Goes, Replies, Loops, Hanging, Alive, TypeOK, LockTypeOK
<1>22. ASSUME NEW w \in Workers, Terminate(w) PROVE StopInv'
  BY <1>22 DEF Terminate, Ends, Dies, Goes, Forget, Alive, TypeOK, LockTypeOK
<1>23. CASE LookAtProcesses
  BY <1>23 DEF LookAtProcesses, Loops, TypeOK, LockTypeOK
<1>24. ASSUME NEW c \in Clients, Trigger(c) PROVE StopInv'
  BY <1>24 DEF Trigger, At, Moves, OnlyTheClient, TypeOK, LockTypeOK
<1>25. ASSUME NEW c \in Clients, ReadStatus(c) PROVE StopInv'
  BY <1>25 DEF ReadStatus, At, Moves, OnlyTheClient, Fault, TypeOK, LockTypeOK
<1>26. ASSUME NEW c \in Clients, Poll(c) PROVE StopInv'
  BY <1>26 DEF Poll, At, Moves, OnlyTheClient, Fault, TypeOK, LockTypeOK
<1>27. ASSUME NEW c \in Clients, PostFails(c) PROVE StopInv'
  BY <1>27 DEF PostFails, At, Moves, Fault, TypeOK, LockTypeOK
<1>28. ASSUME NEW c \in Clients, RunOnce(c) PROVE StopInv'
  BY <1>28 DEF RunOnce, At, Moves, Loops, Fault, TypeOK, LockTypeOK
<1>29. ASSUME NEW c \in Clients, RunTask(c) PROVE StopInv'
  BY <1>29 DEF RunTask, At, Moves, Fault, TypeOK, LockTypeOK
<1>30. ASSUME NEW c \in Clients, EndTask(c) PROVE StopInv'
  BY <1>30 DEF EndTask, At, Moves, ApiKilled, Hanging, Fault, TypeOK, LockTypeOK
<1>31. ASSUME NEW w \in Workers, WorkerStep(w) PROVE StopInv'
  BY <1>31 DEF WorkerStep, Acquire, Refused, WritePid, RemovePid, Release, Goes, Forget, TypeOK, LockTypeOK
<1>32. ASSUME NEW w \in Workers, RecoverPass(w) PROVE StopInv'
  BY <1>32 DEF RecoverPass, Recover, TypeOK, LockTypeOK
<1>33. ASSUME NEW w \in Workers, Complete(w) PROVE StopInv'
  BY <1>33 DEF Complete, TypeOK, LockTypeOK
<1>34. ASSUME NEW w \in Workers, Quiet(w) PROVE StopInv'
  BY <1>34 DEF Quiet, Goes, TypeOK, LockTypeOK
<1>35. ASSUME NEW w \in Workers, NEW r \in Requests, Take(w, r) PROVE StopInv'
  BY <1>35 DEF Take, TypeOK, LockTypeOK
<1>36. CASE UNCHANGED vars
  BY <1>36 DEF TypeOK, LockTypeOK
<1> QED
  BY <1>1, <1>2, <1>3, <1>4, <1>5, <1>6, <1>7, <1>8, <1>9, <1>10, <1>11, <1>12,
     <1>13, <1>14, <1>15, <1>16, <1>17, <1>18, <1>19, <1>20, <1>21, <1>22, <1>23,
     <1>24, <1>25, <1>26, <1>27, <1>28, <1>29, <1>30, <1>31, <1>32, <1>33, <1>34,
     <1>35, <1>36 DEF Next, Arrivals, Failures, EventLoop, Client, Talks, Worker

(* ... and what a reading of the watchdog knows.                            *)
LEMMA StepReading ==
    ASSUME TypeOK, HoldsToServe, ReadingInv, [Next]_vars PROVE ReadingInv'
<1> USE PidsAssumption DEF ReadingInv, NoWorker
<1>1. ASSUME NEW r \in Requests, Request(r) PROVE ReadingInv'
  BY <1>1 DEF Request, TypeOK, LockTypeOK
<1>2. CASE ReleaseRow
  BY <1>2 DEF ReleaseRow, TypeOK, LockTypeOK
<1>3. CASE StartUpload
  BY <1>3 DEF StartUpload, StartConsumer, Answers, TypeOK, LockTypeOK
<1>4. CASE Stop
  BY <1>4 DEF Stop, PostStop, Answers, Fault, Loops, TypeOK, LockTypeOK
<1>5. CASE ApiHangs
  BY <1>5 DEF ApiHangs, Fault, TypeOK, LockTypeOK
<1>6. CASE ConsumerDies
  BY <1>6 DEF ConsumerDies, Fault, TypeOK, LockTypeOK
<1>7. ASSUME NEW w \in Workers, WorkerKilled(w) PROVE ReadingInv'
  BY <1>7 DEF WorkerKilled, Fault, Ends, Dies, Goes, Forget, Alive, TypeOK, LockTypeOK
<1>8. CASE StatusProbe
  BY <1>8 DEF StatusProbe, Fault, ProbeTakes, ProbeGives, TypeOK, LockTypeOK
<1>9. CASE WindowPasses
  BY <1>9 DEF WindowPasses, TypeOK, LockTypeOK
<1>10. CASE Publish
  BY <1>10 DEF Publish, TypeOK, LockTypeOK
<1>11. CASE ApiStarts
  BY <1>11 DEF ApiStarts, StartConsumer, TypeOK, LockTypeOK
<1>12. CASE ApiExits
  BY <1>12 DEF ApiExits, StopConsumer, TypeOK, LockTypeOK
<1>13. CASE PollChild
  BY <1>13 DEF PollChild, Replies, Loops, Hanging, TypeOK, LockTypeOK
<1>14. CASE ProbeForStart
  BY <1>14 DEF ProbeForStart, Replies, Loops, Hanging, ProbeTakes, ProbeGives, TypeOK, LockTypeOK
<1>15. CASE ReadPid
  BY <1>15 DEF ReadPid, Loops, TypeOK, LockTypeOK
<1>16. CASE ReadLock
  BY <1>16 DEF ReadLock, Loops, ProbeTakes, ProbeGives, TypeOK, LockTypeOK
<1>17. CASE RecoverStopped
  BY <1>17 DEF RecoverStopped, Recover, Loops, TypeOK, LockTypeOK
<1>18. CASE Stopped
  BY <1>18 DEF Stopped, Loops, TypeOK, LockTypeOK
<1>19. CASE LookAtLock
  <2>1. guard = Nobody /\ elapsed => NoWorker
    BY DEF TypeOK, LockTypeOK, Places, HoldsToServe, Holding
  <2>2. CASE loop = "lookLock" /\ OwnerRunning
    <3>1. busy' /\ loop' = "lookPending"
      BY <1>19, <2>2 DEF LookAtLock, Loops, ProbeTakes, ProbeGives, OwnerRunning
    <3> QED
      BY <1>19, <2>2, <3>1 DEF LookAtLock, Loops, OwnerRunning, ProbeTakes
  <2>3. CASE loop = "lookLock" /\ ProbeTakes("loop")
    BY <1>19, <2>1, <2>3 DEF LookAtLock, Loops, ProbeTakes, ProbeGives, OwnerRunning
  <2>4. CASE loop = "looking"
    BY <1>19, <2>4 DEF LookAtLock, Loops, ProbeTakes, ProbeGives, TypeOK
  <2> QED
    BY <1>19, <2>2, <2>3, <2>4 DEF LookAtLock
<1>20. CASE Conclude
  BY <1>20 DEF Conclude, Loops, TypeOK, LockTypeOK
<1>21. ASSUME NEW w \in Workers, Spawn(w) PROVE ReadingInv'
  BY <1>21 DEF Spawn, Goes, Replies, Loops, Hanging, Alive, TypeOK, LockTypeOK
<1>22. ASSUME NEW w \in Workers, Terminate(w) PROVE ReadingInv'
  BY <1>22 DEF Terminate, Ends, Dies, Goes, Forget, Alive, TypeOK, LockTypeOK
<1>23. CASE LookAtProcesses
  <2>1. busy' \in BOOLEAN /\ (~busy' => ~rows)
    BY <1>23 DEF LookAtProcesses, UploadWaits
  <2>2. CASE loop = "free"
    BY <1>23, <2>2 DEF LookAtProcesses, Loops, TypeOK
  <2>3. CASE loop = "confirm"
    BY <1>23, <2>1, <2>3 DEF LookAtProcesses, Loops, TypeOK
  <2> QED
    BY <1>23, <2>2, <2>3 DEF LookAtProcesses
<1>24. ASSUME NEW c \in Clients, Trigger(c) PROVE ReadingInv'
  BY <1>24 DEF Trigger, At, Moves, OnlyTheClient, TypeOK, LockTypeOK
<1>25. ASSUME NEW c \in Clients, ReadStatus(c) PROVE ReadingInv'
  BY <1>25 DEF ReadStatus, At, Moves, OnlyTheClient, Fault, TypeOK, LockTypeOK
<1>26. ASSUME NEW c \in Clients, Poll(c) PROVE ReadingInv'
  BY <1>26 DEF Poll, At, Moves, OnlyTheClient, Fault, TypeOK, LockTypeOK
<1>27. ASSUME NEW c \in Clients, PostFails(c) PROVE ReadingInv'
  BY <1>27 DEF PostFails, At, Moves, Fault, TypeOK, LockTypeOK
<1>28. ASSUME NEW c \in Clients, RunOnce(c) PROVE ReadingInv'
  <2>1. ~confirming /\ ~elapsed' /\ ~confirming' /\ loop' \in {"free", "poll"}
    BY <1>28 DEF RunOnce, Answers, Loops, TypeOK
  <2> QED
    BY <1>28, <2>1 DEF RunOnce, TypeOK
<1>29. ASSUME NEW c \in Clients, RunTask(c) PROVE ReadingInv'
  BY <1>29 DEF RunTask, At, Moves, Fault, TypeOK, LockTypeOK
<1>30. ASSUME NEW c \in Clients, EndTask(c) PROVE ReadingInv'
  BY <1>30 DEF EndTask, At, Moves, ApiKilled, Hanging, Fault, TypeOK, LockTypeOK
<1>31. ASSUME NEW w \in Workers, WorkerStep(w) PROVE ReadingInv'
  BY <1>31 DEF WorkerStep, Acquire, Refused, WritePid, RemovePid, Release, Goes, Forget, TypeOK, LockTypeOK
<1>32. ASSUME NEW w \in Workers, RecoverPass(w) PROVE ReadingInv'
  BY <1>32 DEF RecoverPass, Recover, TypeOK, LockTypeOK
<1>33. ASSUME NEW w \in Workers, Complete(w) PROVE ReadingInv'
  BY <1>33 DEF Complete, TypeOK, LockTypeOK
<1>34. ASSUME NEW w \in Workers, Quiet(w) PROVE ReadingInv'
  BY <1>34 DEF Quiet, Goes, TypeOK, LockTypeOK
<1>35. ASSUME NEW w \in Workers, NEW r \in Requests, Take(w, r) PROVE ReadingInv'
  BY <1>35 DEF Take, TypeOK, LockTypeOK
<1>36. CASE UNCHANGED vars
  BY <1>36 DEF TypeOK, LockTypeOK
<1> QED
  BY <1>1, <1>2, <1>3, <1>4, <1>5, <1>6, <1>7, <1>8, <1>9, <1>10, <1>11, <1>12,
     <1>13, <1>14, <1>15, <1>16, <1>17, <1>18, <1>19, <1>20, <1>21, <1>22, <1>23,
     <1>24, <1>25, <1>26, <1>27, <1>28, <1>29, <1>30, <1>31, <1>32, <1>33, <1>34,
     <1>35, <1>36 DEF Next, Arrivals, Failures, EventLoop, Client, Talks, Worker

(* The API begins to end itself by the watchdog's conclusion alone.         *)
LEMMA OnlyConclude ==
    ASSUME TypeOK, [Next]_vars PROVE api = "up" /\ api' = "exiting" => Conclude
<1>1. ASSUME NEW r \in Requests, Request(r) PROVE api = "up" /\ api' = "exiting" => Conclude
  BY <1>1 DEF Request
<1>2. CASE ReleaseRow
  BY <1>2 DEF ReleaseRow
<1>3. CASE StartUpload
  BY <1>3 DEF StartUpload, StartConsumer, Answers
<1>4. CASE Stop
  BY <1>4 DEF Stop, PostStop, Answers, Fault, Loops
<1>5. CASE ApiHangs
  BY <1>5 DEF ApiHangs, Fault
<1>6. CASE ConsumerDies
  BY <1>6 DEF ConsumerDies, Fault
<1>7. ASSUME NEW w \in Workers, WorkerKilled(w) PROVE api = "up" /\ api' = "exiting" => Conclude
  BY <1>7 DEF WorkerKilled, Fault, Ends, Dies, Goes, Forget, Alive
<1>8. CASE StatusProbe
  BY <1>8 DEF StatusProbe, Fault, ProbeTakes, ProbeGives
<1>9. CASE WindowPasses
  BY <1>9 DEF WindowPasses
<1>10. CASE Publish
  BY <1>10 DEF Publish
<1>11. CASE ApiStarts
  BY <1>11 DEF ApiStarts, StartConsumer
<1>12. CASE ApiExits
  BY <1>12 DEF ApiExits, StopConsumer
<1>13. CASE PollChild
  BY <1>13 DEF PollChild, Replies, Loops, Hanging
<1>14. CASE ProbeForStart
  BY <1>14 DEF ProbeForStart, Replies, Loops, Hanging, ProbeTakes, ProbeGives
<1>15. CASE ReadPid
  BY <1>15 DEF ReadPid, Loops
<1>16. CASE ReadLock
  BY <1>16 DEF ReadLock, Loops, ProbeTakes, ProbeGives
<1>17. CASE RecoverStopped
  BY <1>17 DEF RecoverStopped, Recover, Loops
<1>18. CASE Stopped
  BY <1>18 DEF Stopped, Loops
<1>19. CASE LookAtLock
  BY <1>19 DEF LookAtLock, Loops, ProbeTakes, ProbeGives
<1>20. CASE Conclude
  BY <1>20
<1>21. ASSUME NEW w \in Workers, Spawn(w) PROVE api = "up" /\ api' = "exiting" => Conclude
  BY <1>21 DEF Spawn, Goes, Replies, Loops, Hanging, Alive
<1>22. ASSUME NEW w \in Workers, Terminate(w) PROVE api = "up" /\ api' = "exiting" => Conclude
  BY <1>22 DEF Terminate, Ends, Dies, Goes, Forget, Alive
<1>23. CASE LookAtProcesses
  BY <1>23 DEF LookAtProcesses, Loops
<1>24. ASSUME NEW c \in Clients, Trigger(c) PROVE api = "up" /\ api' = "exiting" => Conclude
  BY <1>24 DEF Trigger, At, Moves, OnlyTheClient
<1>25. ASSUME NEW c \in Clients, ReadStatus(c) PROVE api = "up" /\ api' = "exiting" => Conclude
  BY <1>25 DEF ReadStatus, At, Moves, OnlyTheClient, Fault
<1>26. ASSUME NEW c \in Clients, Poll(c) PROVE api = "up" /\ api' = "exiting" => Conclude
  BY <1>26 DEF Poll, At, Moves, OnlyTheClient, Fault
<1>27. ASSUME NEW c \in Clients, PostFails(c) PROVE api = "up" /\ api' = "exiting" => Conclude
  BY <1>27 DEF PostFails, At, Moves, Fault
<1>28. ASSUME NEW c \in Clients, RunOnce(c) PROVE api = "up" /\ api' = "exiting" => Conclude
  BY <1>28 DEF RunOnce, At, Moves, Loops, Fault
<1>29. ASSUME NEW c \in Clients, RunTask(c) PROVE api = "up" /\ api' = "exiting" => Conclude
  BY <1>29 DEF RunTask, At, Moves, Fault
<1>30. ASSUME NEW c \in Clients, EndTask(c) PROVE api = "up" /\ api' = "exiting" => Conclude
  BY <1>30 DEF EndTask, At, Moves, ApiKilled, Hanging, Fault
<1>31. ASSUME NEW w \in Workers, WorkerStep(w) PROVE api = "up" /\ api' = "exiting" => Conclude
  BY <1>31 DEF WorkerStep, Acquire, Refused, WritePid, RemovePid, Release, Goes, Forget
<1>32. ASSUME NEW w \in Workers, RecoverPass(w) PROVE api = "up" /\ api' = "exiting" => Conclude
  BY <1>32 DEF RecoverPass, Recover
<1>33. ASSUME NEW w \in Workers, Complete(w) PROVE api = "up" /\ api' = "exiting" => Conclude
  BY <1>33 DEF Complete
<1>34. ASSUME NEW w \in Workers, Quiet(w) PROVE api = "up" /\ api' = "exiting" => Conclude
  BY <1>34 DEF Quiet, Goes
<1>35. ASSUME NEW w \in Workers, NEW r \in Requests, Take(w, r) PROVE api = "up" /\ api' = "exiting" => Conclude
  BY <1>35 DEF Take
<1>36. CASE UNCHANGED vars
  BY <1>36
<1> QED
  BY <1>1, <1>2, <1>3, <1>4, <1>5, <1>6, <1>7, <1>8, <1>9, <1>10, <1>11, <1>12,
     <1>13, <1>14, <1>15, <1>16, <1>17, <1>18, <1>19, <1>20, <1>21, <1>22, <1>23,
     <1>24, <1>25, <1>26, <1>27, <1>28, <1>29, <1>30, <1>31, <1>32, <1>33, <1>34,
     <1>35, <1>36 DEF Next, Arrivals, Failures, EventLoop, Client, Talks, Worker

(* The inductive invariant, for any pids, requests, clients and faults.      *)
THEOREM WakeInvariant == Spec => []IInv
<1>1. IInv /\ [Next]_vars => IInv'
  BY StepTypes, StepLock, StepStop, StepReading DEF IInv, TypeOK
<1> QED BY InitWake, <1>1, PTL DEF Spec

(* Types.                                                                   *)
THEOREM WakeTypeCorrect == Spec => []TypeOK
<1>1. IInv => TypeOK BY DEF IInv
<1> QED BY WakeInvariant, <1>1, PTL

(* Two workers never serve the queue at once, whoever started them, and     *)
(* however many readers try the lock (worker_lock.py:140-195).              *)
THEOREM OneServes == Spec => []HoldsToServe
<1>1. IInv => HoldsToServe BY DEF IInv
<1> QED BY WakeInvariant, <1>1, PTL

(* The pid file names the worker that serves (worker_lock.py:154-195).       *)
THEOREM ServerIsNamed == Spec => []FileNamesServer
<1>1. IInv => FileNamesServer BY DEF IInv
<1> QED BY WakeInvariant, <1>1, PTL

(* A stop request ends the worker that was serving when it came, although   *)
(* the pid is read before the lock is tried (worker_control.py:81-158).            *)
THEOREM StopIsEffective == Spec => []StopEndsTheServer
<1>1. IInv => StopEndsTheServer
  BY DEF IInv, StopInv, Stopping, StopEndsTheServer
<1> QED BY WakeInvariant, <1>1, PTL

(* The idle shutdown leaves no worker, and only work that arrived during    *)
(* the last of its two readings (worker_idle.py:51-98).                     *)
THEOREM NothingIsStranded == Spec => ShutdownStrandsNothing
<1>1. ASSUME IInv, [Next]_vars, api = "up", api' = "exiting"
      PROVE  (\A w \in Workers : ~Alive(w)) /\ pending \subseteq late /\ (rows => Row \in late)
  <2>1. Conclude BY <1>1, OnlyConclude DEF IInv
  <2>2. ~busy /\ pending = {} /\ confirming
    BY <1>1, <2>1 DEF Conclude
  <2>3. NoWorker /\ (rows => Row \in late)
    BY <1>1, <2>2 DEF IInv, ReadingInv
  <2> QED BY <2>2, <2>3 DEF NoWorker, Alive
<1>2. IInv /\ [Next]_vars =>
        [ api = "up" /\ api' = "exiting" =>
              /\ \A w \in Workers : ~Alive(w)
              /\ pending \subseteq late
              /\ rows => Row \in late ]_vars
  BY <1>1
<1> QED BY WakeInvariant, <1>2, PTL DEF Spec, ShutdownStrandsNothing
=============================================================================
