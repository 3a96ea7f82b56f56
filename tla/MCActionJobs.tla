--------------------------- MODULE MCActionJobs ---------------------------
(* ActionJobs on a small instance: a worker and the API that stops one.     *)
EXTENDS ActionJobs, FiniteSets, TLC

(* Segments are interchangeable: the first job is about the first of them.  *)
(* (A symmetry set would not be sound for the liveness property.)           *)
FirstSegment == CHOOSE t \in Targets : TRUE

FirstIsFirst == target[1] \in {NoTarget, FirstSegment}

(* One fault of a kind: the pid of one job's worker may be reused, and the  *)
(* action_state of one job may be impossible to write.                      *)
FewFaults ==
    /\ \A j \in Jobs \ {1} : owner[j] # Stranger
    /\ Cardinality(unsynced) <= 1
=============================================================================
