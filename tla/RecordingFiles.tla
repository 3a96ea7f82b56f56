--------------------------- MODULE RecordingFiles ---------------------------
(***************************************************************************)
(* The files of one recording on the Windows host, from the recorder's FLV *)
(* to the MP4 (server/recording_remux.py, maintenance/runtime_cleanup.py). *)
(* The worker remuxes a completed FLV as an action job; an operator's      *)
(* maintenance script goes through the same steps for every FLV it finds   *)
(* and can then delete the MP4 files that do not decode.                   *)
(***************************************************************************)
EXTENDS Naturals

CONSTANTS
    MaxFaults,     (* bound on kills, failures and runs of the script *)
    ProbesMayFail, (* ffprobe and ffmpeg can fail on a file that is whole *)
    Sources        (* the states <<flv, mp4>> that recordings are found in *)

ASSUME FilesAssumption ==
    /\ MaxFaults \in Nat /\ ProbesMayFail \in BOOLEAN
    /\ Sources \subseteq {"whole", "damaged", "small", "tiny"} \X {"none", "broken"}

VARIABLES
    flv,        (* the recorder's file: none, whole, damaged; small (whole, but below
                   the size that is recovered unseen), tiny (small and damaged) *)
    mp4,        (* the source recording: none, broken or whole *)
    partial,    (* <stem>.partial.mp4, the remuxer's output *)
    step,       (* where the worker and the operator's script are *)
    jobs,       (* the recording's two action jobs: expected from the recorder,
                   none, pending or processing *)
    faults,     (* how often the bounded things happened *)
    overlapped, (* history: the script and a job on these files have run at once *)
    misjudged   (* history: what the script acts on now is a verdict that was wrong *)

files == <<flv, mp4, partial>>
history == <<overlapped, misjudged>>
fileVars == <<files, step, jobs, faults, history>>

Processes == {"worker", "operator"}
Kinds == {"remux", "trash"}

RemuxSteps == {"check", "drop", "size", "purgeFlv", "purgeMp4", "clear", "remux", "verify",
               "replace", "discard"}

Readable == {"whole", "small"}

Goes(p, place) == step' = [step EXCEPT ![p] = place]
At(p, place) == step[p] = place
Fault == faults < MaxFaults /\ faults' = faults + 1

(* A finished job has left the queue; the worker looks for the next one.    *)
Settles(kind) ==
    /\ Goes("worker", "idle")
    /\ jobs' = [jobs EXCEPT ![kind] = "none"]

(* recover_recording returns, or raises: the worker's job is settled, the   *)
(* script goes on to the audit of the MP4 files.                            *)
Returns(p) ==
    IF p = "worker" THEN Settles("remux")
    ELSE Goes(p, "audit") /\ UNCHANGED jobs

(* validate_media; it answers "invalid" when its programs cannot be run or  *)
(* time out, too.                                                           *)
Verdict(file, valid) ==
    \/ valid = (file \in Readable)
    \/ ProbesMayFail /\ ~valid

(* Windows refuses to remove or to replace a file that ffmpeg has open, the *)
(* FLV or its output.                                                       *)
InUseByOther(p) == \E q \in Processes \ {p} : At(q, "remux")

FilesInit ==
    /\ \E found \in Sources : flv = found[1] /\ mp4 = found[2]
    /\ partial = "none"
    /\ step = [p \in Processes |-> "idle"]
    /\ jobs = [k \in Kinds |-> IF k = "remux" THEN "expected" ELSE "none"]
    /\ faults = 0
    /\ overlapped = FALSE /\ misjudged = FALSE

-----------------------------------------------------------------------------
(* The recorder has finished the FLV: it queues the job, or fails to.       *)
QueueCompleted ==
    /\ jobs["remux"] = "expected"
    /\ \/ jobs' = [jobs EXCEPT !["remux"] = "pending"] /\ UNCHANGED faults
       \/ jobs' = [jobs EXCEPT !["remux"] = "none"] /\ Fault
    /\ UNCHANGED <<files, step, history>>

(* Slicing and rendering only read the MP4.                                 *)
Busy(p) == step[p] \notin {"idle", "slice", "render"}

Begins(p, place) ==
    /\ At(p, "idle")
    /\ Goes(p, place)
    /\ overlapped' = (overlapped \/ \E q \in Processes \ {p} : Busy(q))
    /\ UNCHANGED misjudged

(* remux_completed_recording                                                *)
BeginRemuxJob ==
    /\ jobs["remux"] = "pending"
    /\ Begins("worker", "check")
    /\ jobs' = [jobs EXCEPT !["remux"] = "processing"]
    /\ UNCHANGED <<files, faults>>

(* recover_recordings, for the FLV files it finds.                          *)
BeginScript ==
    /\ flv # "none" /\ jobs["remux"] # "expected"
    /\ Begins("operator", "check")
    /\ Fault
    /\ UNCHANGED <<files, jobs>>

(* The size is noted and the MP4 looked at; a job whose FLV is gone ends.   *)
Check(p) ==
    /\ At(p, "check")
    /\ \E valid \in BOOLEAN :
          /\ Verdict(mp4, valid)
          /\ \/ p = "worker" /\ flv = "none" /\ Returns(p)
             \/ /\ p = "operator" \/ flv # "none"
                /\ Goes(p, CASE valid -> "drop"
                             [] ~valid /\ flv \in {"whole", "damaged"} -> "clear"
                             [] OTHER -> "size")
                /\ UNCHANGED jobs
          /\ misjudged' = IF p = "operator" THEN ~valid /\ mp4 = "whole" ELSE misjudged
    /\ UNCHANGED <<files, faults, overlapped>>

(* Mutation: the source goes as soon as the remuxer has returned.           *)
DropUnverified(p) ==
    /\ step[p] \in {"drop", "verify"}
    /\ flv' = "none"
    /\ IF At(p, "drop") THEN Returns(p) ELSE Goes(p, "replace") /\ UNCHANGED jobs
    /\ UNCHANGED <<mp4, partial, faults, history>>

(* source.unlink: there is a whole MP4.                                     *)
Drop(p) ==
    /\ At(p, "drop")
    /\ flv' = IF InUseByOther(p) THEN flv ELSE "none"
    /\ Returns(p)
    /\ UNCHANGED <<mp4, partial, faults, history>>

(* A small FLV is recovered if it can be read.  If not it is left alone,    *)
(* or the script is about to delete it ...                                  *)
Size(p) ==
    /\ At(p, "size")
    /\ \E valid \in BOOLEAN :
          /\ Verdict(flv, valid)
          /\ \/ valid /\ Goes(p, "clear") /\ UNCHANGED jobs
             \/ ~valid /\ Returns(p)
             \/ ~valid /\ p = "operator" /\ Goes(p, "purgeFlv") /\ UNCHANGED jobs
          /\ misjudged' = (misjudged \/ (p = "operator" /\ ~valid /\ flv \in Readable))
    /\ UNCHANGED <<files, faults, overlapped>>

(* ... and then the MP4 that was invalid when it looked.                    *)
Purge(p) ==
    /\ \/ /\ At(p, "purgeFlv")
          /\ IF InUseByOther(p) THEN Returns(p) /\ UNCHANGED flv
             ELSE Goes(p, "purgeMp4") /\ flv' = "none" /\ UNCHANGED jobs
          /\ UNCHANGED mp4
       \/ At(p, "purgeMp4") /\ mp4' = "none" /\ Returns(p) /\ UNCHANGED flv
    /\ UNCHANGED <<partial, faults, history>>

(* The output of an earlier attempt is removed, and ffmpeg opens its own.   *)
Clear(p) ==
    /\ At(p, "clear")
    /\ IF InUseByOther(p) THEN Returns(p) /\ UNCHANGED partial
       ELSE Goes(p, "remux") /\ partial' = "broken" /\ UNCHANGED jobs
    /\ UNCHANGED <<flv, mp4, faults, history>>

(* ffmpeg ends, or fails; with two of them on one file its content is       *)
(* anything.                                                                *)
RemuxEnds(p) ==
    /\ At(p, "remux")
    /\ \/ flv \in Readable /\ partial' = "whole" /\ Goes(p, "verify") /\ UNCHANGED faults
       \/ /\ flv \notin Readable \/ InUseByOther(p)
          /\ \/ partial' = "broken" /\ Goes(p, "verify")
             \/ UNCHANGED partial /\ Goes(p, "discard")
          /\ UNCHANGED faults
       \/ Fault /\ Goes(p, "discard") /\ UNCHANGED partial
    /\ UNCHANGED <<flv, mp4, jobs, history>>

Verify(p) ==
    /\ At(p, "verify")
    /\ \E valid \in BOOLEAN :
          /\ Verdict(partial, valid)
          /\ Goes(p, IF valid THEN "replace" ELSE "discard")
    /\ UNCHANGED <<files, jobs, faults, history>>

Replace(p) ==
    /\ At(p, "replace")
    /\ IF partial = "none" \/ InUseByOther(p) THEN Returns(p) /\ UNCHANGED files
       ELSE mp4' = partial /\ partial' = "none" /\ Goes(p, "drop") /\ UNCHANGED <<flv, jobs>>
    /\ UNCHANGED <<faults, history>>

(* recovery_failed_preserved                                                *)
Discard(p) ==
    /\ At(p, "discard")
    /\ partial' = IF InUseByOther(p) THEN partial ELSE "none"
    /\ Returns(p)
    /\ UNCHANGED <<flv, mp4, faults, history>>

(* audit_mp4_recordings, with --delete-invalid: first the verdict, then the *)
(* removal.                                                                 *)
Audit ==
    /\ \/ /\ At("operator", "audit")
          /\ \E valid \in BOOLEAN :
                /\ Verdict(mp4, valid)
                /\ Goes("operator", IF valid THEN "idle" ELSE "delete")
                /\ misjudged' = (~valid /\ mp4 = "whole")
          /\ UNCHANGED mp4
       \/ /\ At("operator", "delete")
          /\ mp4' = "none"
          /\ Goes("operator", "idle") /\ misjudged' = FALSE
    /\ UNCHANGED <<flv, partial, jobs, faults, overlapped>>

(* The worker is killed, and its job recovered; the script is interrupted.  *)
Killed(p) ==
    /\ Fault /\ ~At(p, "idle")
    /\ Goes(p, "idle")
    /\ jobs' = IF p = "worker"
               THEN [k \in Kinds |-> IF jobs[k] = "processing" THEN "pending" ELSE jobs[k]]
               ELSE jobs
    /\ misjudged' = (misjudged /\ p = "worker")
    /\ UNCHANGED <<files, overlapped>>

RecoverRecording(p) ==
    \/ Check(p) \/ Drop(p) \/ Size(p) \/ Purge(p) \/ Clear(p)
    \/ RemuxEnds(p) \/ Verify(p) \/ Replace(p) \/ Discard(p)

FilesNext ==
    \/ QueueCompleted \/ BeginRemuxJob \/ BeginScript \/ Audit \/ Killed("operator")
    \/ \E p \in Processes : RecoverRecording(p)
=============================================================================
