----------------------------- MODULE WorkerLock -----------------------------
(***************************************************************************)
(* The lock of the one-shot slice worker (server/worker_lock.py): a kernel *)
(* lock on a guard file says whether a worker runs, a pid file beside it   *)
(* says which one.  Every reader of the lock's status takes the kernel     *)
(* lock itself for a moment.                                               *)
(***************************************************************************)
CONSTANTS
    Workers,   (* pids that worker processes can have *)
    Nobody     (* no process *)

VARIABLES
    guard,   (* who holds the kernel lock on the guard file *)
    file,    (* the pid in the lock file; Nobody if there is no file *)
    pc       (* where each worker process is *)

lock == <<guard, file, pc>>

(* The readers in the API process: its event loop and its request threads.  *)
Probers == {"loop", "status"}

ASSUME PidsAssumption == /\ Nobody \notin Workers
                         /\ Probers \cap (Workers \cup {Nobody}) = {}

(* none: no such process; spawned: not locked yet; owner: locked, the pid   *)
(* not written; draining: serving the queue; leaving: about to remove its   *)
(* pid; removed: about to release the lock.                                 *)
Places == {"none", "spawned", "owner", "draining", "leaving", "removed"}
Holding == {"owner", "draining", "leaving", "removed"}

Goes(w, place) == pc' = [pc EXCEPT ![w] = place]
Alive(w) == pc[w] # "none"

-----------------------------------------------------------------------------
(* WorkerProcessLock.__enter__ *)

Acquire(w) ==
    /\ pc[w] = "spawned"
    /\ guard = Nobody
    /\ guard' = w
    /\ Goes(w, "owner")
    /\ UNCHANGED file

(* WorkerAlreadyRunning: main logs it and returns.                          *)
Refused(w) ==
    /\ pc[w] = "spawned"
    /\ guard # Nobody
    /\ Goes(w, "none")
    /\ UNCHANGED <<guard, file>>

WritePid(w) ==
    /\ pc[w] = "owner"
    /\ file' = w
    /\ Goes(w, "draining")
    /\ UNCHANGED guard

(* Mutation: the lock is released before the pid is looked at.              *)
ReleasedFirst(w) ==
    \/ /\ pc[w] = "leaving" /\ guard = w
       /\ guard' = Nobody
       /\ UNCHANGED <<file, pc>>
    \/ /\ pc[w] = "leaving" /\ guard # w
       /\ file' = Nobody
       /\ Goes(w, "removed")
       /\ UNCHANGED guard

(* WorkerProcessLock.__exit__: only its own pid is removed, and the lock is *)
(* released last.                                                           *)
RemovePid(w) ==
    /\ pc[w] = "leaving"
    /\ file' = IF file = w THEN Nobody ELSE file
    /\ Goes(w, "removed")
    /\ UNCHANGED guard

Release(w) ==
    /\ pc[w] = "removed"
    /\ guard' = IF guard = w THEN Nobody ELSE guard
    /\ Goes(w, "none")
    /\ UNCHANGED file

(* A process that ends any other way drops the kernel lock and leaves the   *)
(* pid file.                                                                *)
Dies(w) ==
    /\ guard' = IF guard = w THEN Nobody ELSE guard
    /\ Goes(w, "none")
    /\ UNCHANGED file

-----------------------------------------------------------------------------
(* read_worker_lock: whoever cannot take the kernel lock concludes that the *)
(* owner runs; whoever can gives it back.                                   *)

OwnerRunning == guard # Nobody

ProbeTakes(p) ==
    /\ guard = Nobody
    /\ guard' = p
    /\ UNCHANGED <<file, pc>>

ProbeGives(p) ==
    /\ guard = p
    /\ guard' = Nobody
    /\ UNCHANGED <<file, pc>>

-----------------------------------------------------------------------------

LockTypeOK ==
    /\ guard \in Workers \cup Probers \cup {Nobody}
    /\ file \in Workers \cup {Nobody}
    /\ pc \in [Workers -> Places]

(* A worker holds the kernel lock exactly while it is at a place where it   *)
(* must: two workers never serve the queue at once.                         *)
HoldsToServe == \A w \in Workers : guard = w <=> pc[w] \in Holding

(* While a worker serves the queue the pid file names it, whatever workers  *)
(* before it left behind: stop_worker finds it there.  Since the file names *)
(* one process, no two serve at once.                                       *)
FileNamesServer == \A w \in Workers : pc[w] \in {"draining", "leaving"} => file = w
=============================================================================
