---------------------------- MODULE UploadLedger ----------------------------
(***************************************************************************)
(* What the upload queue promises about one video, without the consumer,   *)
(* its two claims, its retries and its restarts:                           *)
(*                                                                         *)
(*   none --Hold--> held --Release--> open --Publish--> done               *)
(*                                                                         *)
(* A held video is invisible to the platform until it is released.  Its    *)
(* bytes are stored at most once, are never forgotten, and a video is      *)
(* published only after they were stored; "done" is final.  An open video  *)
(* may be given up; it is then held again, or revived if nothing of it was *)
(* stored.                                                                 *)
(***************************************************************************)
CONSTANT Videos

VARIABLES phase, stored

ledger == <<phase, stored>>

Phases == {"none", "held", "open", "done", "dead"}

LedgerInit ==
    /\ phase = [v \in Videos |-> "none"]
    /\ stored = [v \in Videos |-> FALSE]

Move(v, from, to) ==
    /\ phase[v] \in from
    /\ phase' = [phase EXCEPT ![v] = to]
    /\ UNCHANGED stored

Hold(v)    == Move(v, {"none", "dead"}, "held")
Release(v) == Move(v, {"held"}, "open")
Admit(v)   == Move(v, {"none"}, "open")
GiveUp(v)  == Move(v, {"open"}, "dead")
Publish(v) == stored[v] /\ Move(v, {"open"}, "done")
Revive(v)  == ~stored[v] /\ Move(v, {"dead"}, "open")
Drop(v)    == ~stored[v] /\ Move(v, {"held"}, "none")

Store(v) ==
    /\ phase[v] = "open"
    /\ ~stored[v]
    /\ stored' = [stored EXCEPT ![v] = TRUE]
    /\ UNCHANGED phase

LedgerNext == \E v \in Videos :
    \/ Hold(v) \/ Release(v) \/ Admit(v) \/ Drop(v)
    \/ Store(v) \/ Publish(v) \/ GiveUp(v) \/ Revive(v)

LedgerSpec == LedgerInit /\ [][LedgerNext]_ledger
=============================================================================
