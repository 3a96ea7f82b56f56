---------------------------- MODULE MCRecordings ----------------------------
(* One recording; the operator's script, one daily pass and one worker.     *)
EXTENDS Recordings

(* A short one beside a broken MP4 of an earlier tool; one beyond recovery.  *)
MCSources == {<<"small", "broken">>, <<"damaged", "none">>}

(* What the script and a job on the same files do to each other is followed *)
(* while they run; nothing is queued or kept alive behind their backs.      *)
WhileBeside == overlapped => jobs["trash"] # "pending" /\ pass = "idle" /\ slice # "waiting"
=============================================================================
