----------------------------- MODULE JobLedger ------------------------------
(***************************************************************************)
(* What the action-job queue promises to someone who reads the status of   *)
(* jobs: a job is taken at most once at a time, may be put back before it  *)
(* is settled, and stays settled; a target has one unsettled job at most.  *)
(***************************************************************************)
EXTENDS Naturals

CONSTANTS Targets, NoTarget, MaxJobs

VARIABLES state, subject

jobLedger == <<state, subject>>

JobIds == 1 .. MaxJobs

Settled == {"done", "failed"}

JobLedgerInit ==
    /\ state = [j \in JobIds |-> "none"]
    /\ subject = [j \in JobIds |-> NoTarget]

Accept(j, t) ==
    /\ state[j] = "none"
    /\ \A i \in JobIds : subject[i] = t => state[i] \in Settled
    /\ state' = [state EXCEPT ![j] = "waiting"]
    /\ subject' = [subject EXCEPT ![j] = t]

Becomes(j, from, to) ==
    /\ state[j] \in from
    /\ state' = [state EXCEPT ![j] = to]
    /\ UNCHANGED subject

Take(j)    == Becomes(j, {"waiting"}, "running")
PutBack(j) == Becomes(j, {"running"}, "waiting")
Settle(j)  == \E outcome \in Settled : Becomes(j, {"waiting", "running"}, outcome)
SetAside(j) == Becomes(j, {"waiting", "running"}, "aside")

JobLedgerNext == \E j \in JobIds :
    \/ \E t \in Targets : Accept(j, t)
    \/ Take(j) \/ PutBack(j) \/ Settle(j) \/ SetAside(j)

JobLedgerSpec == JobLedgerInit /\ [][JobLedgerNext]_jobLedger
=============================================================================
