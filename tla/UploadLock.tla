----------------------------- MODULE UploadLock -----------------------------
(***************************************************************************)
(* The lock file of the upload consumer (src/upload/lock.py): created with *)
(* O_EXCL, then filled with the creator's pid; a file that holds no pid of *)
(* a running process is taken for stale, unlinked and created anew.        *)
(*                                                                         *)
(* A consumer that leaves or dies comes back with another pid; its old one *)
(* (Gone) is then that of no process, unless the system gives it to an     *)
(* unrelated one, or to a consumer, before somebody probes it.             *)
(***************************************************************************)
CONSTANTS
    Consumers,           \* the processes that start a consumer
    Nobody,              \* no process: there is no file, or no pid in it
    Gone,                \* the pid of a process that has ended
    PidsAreReused,       \* whether such a pid may be another process's
    OpenFilesDeletable   \* POSIX; on Windows unlinking a file somebody has open raises

ASSUME LockAssumption ==
    /\ Nobody \notin Consumers /\ Gone \notin Consumers /\ Nobody # Gone
    /\ OpenFilesDeletable \in BOOLEAN /\ PidsAreReused \in BOOLEAN

VARIABLES
    file,      \* the creator of the file at the lock's path, or Nobody
    filled,    \* whether the creator has written its pid into that file
    left,      \* whether the creator of that file has left or died
    pc,        \* consumer -> where it is in __enter__ and __exit__
    seen,      \* consumer -> the process whose pid it has read
    broken,    \* history: a file was unlinked whose creator was still there
    met,       \* history: consumers that were not alone since they entered
    misled     \* history: consumers that found a dead one's pid in use again

vars == <<file, filled, left, pc, seen, broken, met, misled>>

(* "out" is no process; "fill" has the new file open; "refused" is raising  *)
(* UploadAlreadyRunning.                                                    *)
Steps == {"out", "create", "read", "probe", "unlink", "recreate", "fill", "held", "refused"}

Init ==
    /\ file = Nobody /\ filled = FALSE /\ left = FALSE
    /\ pc = [p \in Consumers |-> "out"]
    /\ seen = [p \in Consumers |-> Nobody]
    /\ broken = FALSE /\ met = {} /\ misled = {}

Goes(p, step) == pc' = [pc EXCEPT ![p] = step]

(* p's process ends, and with it what it has read.                          *)
Ends(p) ==
    /\ Goes(p, "out")
    /\ seen' = [q \in Consumers |->
                  IF q = p THEN Nobody ELSE IF seen[q] = p THEN Gone ELSE seen[q]]

(* Mutation: created without O_EXCL.                                        *)
CreatedOver(p) == file' = p /\ filled' = FALSE /\ left' = FALSE

Created(p) ==
    /\ file = Nobody
    /\ file' = p /\ filled' = FALSE /\ left' = FALSE

(* Whatever file is at the path.                                            *)
Unlinked == file' = Nobody /\ filled' = FALSE /\ left' = FALSE

OpenInFill == file # Nobody /\ ~left /\ pc[file] = "fill"

Enter(p) ==
    /\ pc[p] = "out"
    /\ Goes(p, "create")
    /\ LET others == {q \in Consumers \ {p} : pc[q] # "out"}
       IN  met' = IF others = {} THEN met \ {p} ELSE met \cup {p} \cup others
    /\ misled' = misled \ {p}
    /\ UNCHANGED <<file, filled, left, seen, broken>>

Create(p) ==
    /\ pc[p] = "create"
    /\ \/ Created(p) /\ Goes(p, "fill")
       \/ file # Nobody /\ Goes(p, "read") /\ UNCHANGED <<file, filled, left>>
    /\ UNCHANGED <<seen, broken, met, misled>>

(* Mutation: any pid in the file is taken for that of a running process.    *)
ReadAnyPid(p) ==
    /\ pc[p] = "read"
    /\ seen' = [seen EXCEPT ![p] = IF filled THEN file ELSE Nobody]
    /\ Goes(p, "probe")
    /\ UNCHANGED <<file, filled, left, broken, met, misled>>

(* _existing_owner_is_running reads the pid, if the file has one.           *)
Read(p) ==
    /\ pc[p] = "read"
    /\ seen' = [seen EXCEPT ![p] =
          IF file = Nobody \/ ~filled THEN Nobody ELSE IF left THEN Gone ELSE file]
    /\ Goes(p, "probe")
    /\ UNCHANGED <<file, filled, left, broken, met, misled>>

(* _pid_is_running asks whether some process has that pid, not which: one   *)
(* that has refuses p (UploadAlreadyRunning).                               *)
Probe(p) ==
    /\ pc[p] = "probe"
    /\ \/ seen[p] \in Consumers /\ Goes(p, "refused") /\ UNCHANGED misled
       \/ seen[p] \notin Consumers /\ Goes(p, "unlink") /\ UNCHANGED misled
       \/ /\ seen[p] = Gone /\ PidsAreReused
          /\ Goes(p, "refused") /\ misled' = misled \cup {p}
    /\ UNCHANGED <<file, filled, left, seen, broken, met>>

Unlink(p) ==
    /\ pc[p] = "unlink"
    /\ OpenInFill => OpenFilesDeletable
    /\ Unlinked
    /\ broken' = (broken \/ (file # Nobody /\ ~left))
    /\ Goes(p, "recreate")
    /\ UNCHANGED <<seen, met, misled>>

(* PermissionError is not caught.                                           *)
UnlinkRaises(p) ==
    /\ pc[p] = "unlink"
    /\ OpenInFill /\ ~OpenFilesDeletable
    /\ Ends(p)
    /\ UNCHANGED <<file, filled, left, broken, met, misled>>

Recreate(p) ==
    /\ pc[p] = "recreate"
    /\ \/ Created(p) /\ Goes(p, "fill")
       \/ file # Nobody /\ Goes(p, "refused") /\ UNCHANGED <<file, filled, left>>
    /\ UNCHANGED <<seen, broken, met, misled>>

Refused(p) ==
    /\ pc[p] = "refused"
    /\ Ends(p)
    /\ UNCHANGED <<file, filled, left, broken, met, misled>>

(* The pid goes into the file p created, wherever its name is by now.       *)
Fill(p) ==
    /\ pc[p] = "fill"
    /\ filled' = (filled \/ (file = p /\ ~left))
    /\ Goes(p, "held")
    /\ UNCHANGED <<file, left, seen, broken, met, misled>>

(* __exit__ unlinks the path without looking whose file it is.              *)
Exit(p) ==
    /\ pc[p] = "held"
    /\ IF OpenInFill /\ ~OpenFilesDeletable
       THEN UNCHANGED <<file, filled, left, broken>>
       ELSE Unlinked /\ broken' = (broken \/ (file \notin {Nobody, p} /\ ~left))
    /\ Ends(p)
    /\ UNCHANGED <<met, misled>>

Crash(p) ==
    /\ pc[p] # "out"
    /\ Ends(p)
    /\ left' = (left \/ file = p)
    /\ UNCHANGED <<file, filled, broken, met, misled>>

Next == \E p \in Consumers :
    \/ Enter(p) \/ Create(p) \/ Read(p) \/ Probe(p) \/ Unlink(p) \/ UnlinkRaises(p)
    \/ Recreate(p) \/ Refused(p) \/ Fill(p) \/ Exit(p) \/ Crash(p)

Spec == Init /\ [][Next]_vars

-----------------------------------------------------------------------------

(* Every variable has its type.                                             *)
TypeOK ==
    /\ file \in Consumers \cup {Nobody}
    /\ filled \in BOOLEAN /\ left \in BOOLEAN /\ broken \in BOOLEAN
    /\ met \subseteq Consumers /\ misled \subseteq Consumers
    /\ pc \in [Consumers -> Steps]
    /\ seen \in [Consumers -> Consumers \cup {Nobody, Gone}]

(* One consumer at a time is past __enter__ (lock.py:2).                    *)
SingleInstance ==
    \A p, q \in Consumers : pc[p] = "held" /\ pc[q] = "held" => p = q

(* Two consumers can only run at once after a reclaim, or an exit, removed  *)
(* the file of a consumer that was still there: the creation itself, the    *)
(* probe and a crash let nobody past a live owner.                          *)
SingleUnlessBroken == broken \/ SingleInstance

(* A consumer is refused only if another one was in the lock's code since   *)
(* it entered, or if it found the pid of one that had ended in use again:   *)
(* no crash, however it falls among the steps of others, leaves a file that *)
(* keeps the next one out by itself.                                        *)
RefusedWithCause ==
    \A p \in Consumers : pc[p] = "refused" => p \in met \cup misled

(* "so a crashed previous owner can be detected and its stale lock          *)
(* reclaimed" (lock.py:4): a consumer is refused only if another one was in *)
(* the lock's code.  The code does not keep this if PidsAreReused, since a  *)
(* pid is all that the file has (lock.py:95-102).                           *)
StaleLockNeverRefuses ==
    \A p \in Consumers : pc[p] = "refused" => p \in met

=============================================================================
