---------------------------- MODULE SlicePipeline ----------------------------
(***************************************************************************)
(* One run of the slicer over one recording (slice_only, burn/             *)
(* slice_only.py): the recording is cut into candidates (BurstDetector), a *)
(* pool of threads asks the model about each, and the one thread that runs *)
(* the task collects the answers in the order they arrive, compares those  *)
(* of overlapping candidates (ClipJudgement), and burns, describes and     *)
(* stages the clips that are kept.                                         *)
(*                                                                         *)
(* A write of the progress file, which the dashboard reads, and any of the *)
(* stages may fail; an exception outside the loop's handler ends the run.  *)
(* Nothing raises once a row is staged but the OSError caught at :1389, so *)
(* the handler's withdrawal of the row (:1416) has nothing to do.  A kill  *)
(* of the worker leaves the files and rows of the state it meets, and the  *)
(* next run begins with some of them (Earlier).  The analysis JSON, edit   *)
(* instructions, features, timings and diagnostics are left out.           *)
(***************************************************************************)
EXTENDS BurstDetector, ClipJudgement

CONSTANTS
    Densities,    \* the recordings
    FollowedUp,   \* bound: those that are cut and judged, not only detected
    Answers,      \* bound: by recording, what a call may bring: [ok, reply, speech]
    Speeches,     \* bound: what a second transcription may hear
    Earlier,      \* bound: the rows, by clip path, that an earlier run left
    Parallelism,  \* mimo_request_parallelism
    MaxFaults     \* bound: operations that fail

Span == Int \X Int
Spoken == {s \in Span : s[1] < s[2]}    \* what _valid_transcript_segments lets through
Reply == [form : {"malformed", "drop", "unscored", "keep"}, scores : Int, rank : Int,
          passes : BOOLEAN, topic : STRING, trim : Span, core : Span]
QueueStatus == {"staged", "queued", "uploading", "uploaded", "publishing", "published", "failed"}

(* A recording lasts a second at least, and one that is cut longer than a   *)
(* context: the windows of two bursts are then never the same, and neither  *)
(* are the names of their clips.                                            *)
ASSUME PipelineAssumption ==
    /\ \A d \in Densities : Lasts(d) \in Nat \ {0} /\ d \in [0..Lasts(d) -> Nat]
    /\ FollowedUp \subseteq {d \in Densities : Lasts(d) > Context}
    /\ \A d \in FollowedUp :
          Answers[d] \subseteq [ok : BOOLEAN, reply : Seq(Reply), speech : SUBSET Spoken]
    /\ Speeches \subseteq SUBSET Spoken
    /\ \A e \in Earlier : e \in [DOMAIN e -> QueueStatus]
    /\ MaxFaults \in Nat

VARIABLES
    density,      \* the recording
    candidates,   \* its candidates, the densest first
    groups,       \* sets of candidates that wait for one another
    phase,        \* of the run
    call,         \* per candidate: where the call of the model is
    answer,       \* per candidate: its clip, NoClip or Raised
    speech,       \* per candidate: what the first transcription heard
    ready,        \* candidates whose group is complete, taken by their number
    step,         \* of the clip in hand
    record,       \* its segment record
    segments,     \* the records so far
    rows,         \* upload_queue: path -> status
    metas,        \* paths with an upload metadata sidecar
    finals,       \* paths of rendered clips
    faults,       \* operations that have failed
    said,         \* history: the clips as the model gave them
    staged        \* history: the paths this run staged

pool == <<call, speech, said>>
hand == <<step, record>>
disk == <<rows, metas, finals, staged>>
vars == <<density, candidates, groups, phase, answer, pool, ready, hand, segments, disk, faults>>

Candidates == DOMAIN candidates
NoRecord == [of |-> 0]

Init ==
    /\ density \in Densities
    /\ candidates = <<>> /\ groups = {} /\ phase = "recorded"
    /\ call = <<>> /\ answer = <<>> /\ speech = <<>> /\ said = <<>>
    /\ ready = {} /\ step = "free" /\ record = NoRecord /\ segments = <<>>
    /\ rows \in (IF density \in FollowedUp THEN Earlier ELSE {<<>>})
    /\ metas = DOMAIN rows /\ finals = DOMAIN rows
    /\ faults = 0 /\ staged = {}

MayFail == faults < MaxFaults /\ faults' = faults + 1
Fine == UNCHANGED faults

-----------------------------------------------------------------------------
(* Cutting.                                                                 *)

(* The recording or its danmaku are missing, or it is too small.            *)
TurnAway ==
    /\ phase = "recorded" /\ density \in FollowedUp
    /\ phase' \in {"failed", "skipped"}
    /\ UNCHANGED <<density, candidates, groups, answer, pool, ready, hand, segments, disk, faults>>

(* Mutation: a candidate joins only the first group it overlaps.            *)
MergeFirst(made, c) ==
    LET met == {g \in made : \E d \in g : Overlap(candidates'[c], candidates'[d]) > 0}
    IN IF met = {} THEN made \cup {{c}}
       ELSE LET g == CHOOSE g \in met : TRUE IN (made \ {g}) \cup {g \cup {c}}

(* Candidates whose windows overlap, directly or through others, form a     *)
(* group.                                                                   *)
MergeMet(made, c) ==
    LET met == {g \in made : \E d \in g : Overlap(candidates'[c], candidates'[d]) > 0}
    IN (made \ met) \cup {(UNION met) \cup {c}}

Grouped(all) == FoldLeft(MergeMet, {}, [k \in all |-> k])

Cut ==
    /\ phase = "recorded" /\ density \in FollowedUp
    /\ \/ /\ Fine /\ phase' = "judging"
          /\ candidates' = Detect(density)
          /\ LET all == DOMAIN candidates'
             IN /\ call' = [c \in all |-> "waiting"]
                /\ answer' = [c \in all |-> NoClip] /\ said' = answer'
                /\ speech' = [c \in all |-> {}]
                /\ groups' = Grouped(all)
       \/ /\ MayFail /\ phase' \in {"failed", "raised"}
          /\ UNCHANGED <<candidates, groups, answer, pool>>
    /\ UNCHANGED <<density, ready, hand, segments, disk>>

-----------------------------------------------------------------------------
(* The pool.  Calls start in the order they were submitted and end in any.  *)

Running == {c \in Candidates : call[c] = "running"}

StartCall(c) ==
    /\ phase = "judging" /\ call[c] = "waiting"
    /\ \A d \in 1..c - 1 : call[d] # "waiting"
    /\ Cardinality(Running) < Max({1, Parallelism})
    /\ call' = [call EXCEPT ![c] = "running"]
    /\ UNCHANGED <<density, candidates, groups, phase, answer, speech, said, ready, hand, segments,
                   disk, faults>>

(* A lone candidate is judged within the loop's own head, where nothing     *)
(* catches what its call raises.                                            *)
CallEnds(c) ==
    /\ phase = "judging" /\ call[c] = "running"
    /\ call' = [call EXCEPT ![c] = "answered"]
    /\ \/ \E a \in Answers[density] :
            /\ Fine /\ UNCHANGED phase
            /\ answer' = [answer EXCEPT ![c] = Answer(a)]
            /\ speech' = [speech EXCEPT ![c] = a.speech]
       \/ /\ MayFail /\ phase' = IF Len(candidates) = 1 THEN "raised" ELSE phase
          /\ answer' = [answer EXCEPT ![c] = Raised] /\ UNCHANGED speech
    /\ said' = [said EXCEPT ![c] = answer'[c]]
    /\ UNCHANGED <<density, candidates, groups, ready, hand, segments, disk>>

-----------------------------------------------------------------------------
(* Collecting.  The candidates of a group wait for one another.             *)

Group(c) == CHOOSE g \in groups : c \in g

(* Mutation: a group waits for every other call.                            *)
AllGathered(c) == \A d \in Candidates \ {c} : call[d] \notin {"waiting", "running", "answered"}
Complete(c) == \A d \in Group(c) \ {c} : call[d] = "gathered"

Collect(c) ==
    /\ phase = "judging" /\ step = "free" /\ ready = {} /\ call[c] = "answered"
    /\ \/ /\ Fine /\ ~Complete(c)
          /\ call' = [call EXCEPT ![c] = "gathered"]
          /\ UNCHANGED <<phase, answer, ready>>
       \/ /\ Fine /\ Complete(c)
          /\ call' = [d \in Candidates |-> IF d \in Group(c) THEN "ready" ELSE call[d]]
          /\ ready' = Group(c)
          /\ \E winners \in {Winners(answer, candidates, Group(c))} :
                answer' = IF Len(candidates) = 1 THEN answer
                          ELSE Marked(answer, candidates, Group(c), winners)
          /\ UNCHANGED phase
       \/ /\ MayFail /\ Len(candidates) > 1 /\ phase' = "raised"
          /\ UNCHANGED <<call, answer, ready>>
    /\ UNCHANGED <<density, candidates, groups, speech, said, hand, segments, disk>>

-----------------------------------------------------------------------------
(* The clip in hand.                                                        *)

(* Mutation: a clip is named by its start within the window.                *)
ClipOfStart(c, start) == <<0, start>>

(* clip_output_path: a clip is named by its candidate and its own start.    *)
Clip(c, start) == <<candidates[c].start, start>>
NoFile == -1
WindowOf(c) == <<candidates[c].start, candidates[c].end>>

(* build_segment_record: a clip that failed is listed as its whole window.  *)
Record(c, v) ==
    LET range == IF v.status \in {"keep", "review"} THEN Absolute(v.trim, candidates[c])
                 ELSE WindowOf(c)
    IN [of |-> c, id |-> range, key |-> v.key, duplicateOf |-> v.duplicateOf,
        status |-> v.status, upload |-> "not_queued", trim |-> v.trim, core |-> v.core,
        heard |-> v.heard, path |-> Clip(c, IF v.status = "keep" THEN range[1] ELSE NoFile)]

Bare(c) == Record(c, FailedCall)
Failed(r) == [r EXCEPT !.status = "judge_failed", !.upload = "not_queued"]

Finished(c, list) ==
    /\ segments' = segments \o list
    /\ call' = [call EXCEPT ![c] = "finished"]
    /\ ready' = ready \ {c} /\ step' = "free" /\ record' = NoRecord

(* The handler of the loop, which itself writes the progress file.          *)
Handle(r, failed) ==
    \/ /\ faults' = failed /\ Finished(r.of, <<Failed(r)>>)
       /\ metas' = metas \ {r.path} /\ UNCHANGED phase
    \/ /\ failed < MaxFaults /\ faults' = failed + 1 /\ phase' = "raised"
       /\ UNCHANGED <<segments, call, ready, hand, metas>>

Raises(r) == faults < MaxFaults /\ Handle(r, faults + 1)

Analyse(c) ==
    /\ phase = "judging" /\ step = "free"
    /\ c \in ready /\ \A d \in ready : c <= d
    /\ LET w == candidates[c]
           burst == <<w.core[1] - w.start, w.core[2] - w.start>>
       IN \/ Raises(Bare(c))
          \/ answer[c] = Raised /\ Handle(Bare(c), faults)
          \/ /\ answer[c] = NoClip
             /\ Fine /\ Finished(c, <<>>) /\ UNCHANGED <<phase, metas>>
          \/ /\ answer[c] \notin {NoClip, Raised}
             /\ \E v \in {Analysed(answer[c], w.end - w.start, burst, speech[c], after) :
                            after \in IF speech[c] # {} THEN {{}} ELSE Speeches \cup {{}}} :
                  IF v.status = "keep"
                  THEN step' = "burn" /\ record' = Record(c, v) /\ UNCHANGED <<segments, call, ready>>
                  ELSE Finished(c, <<Record(c, v)>>)
             /\ Fine /\ UNCHANGED <<phase, metas>>
    /\ UNCHANGED <<density, candidates, groups, answer, speech, said, rows, finals, staged>>

(* A stage that reports failure; from the metadata on, the sidecar goes.    *)
GiveUp(left) ==
    /\ MayFail /\ Finished(record.of, <<Failed(record)>>)
    /\ metas' = left /\ UNCHANGED phase

Burn ==
    /\ phase = "judging" /\ step = "burn"
    /\ \/ /\ Fine /\ step' = "describe" /\ finals' = finals \cup {record.path}
          /\ UNCHANGED <<phase, record, segments, call, ready, metas>>
       \/ GiveUp(metas) /\ UNCHANGED finals
       \/ Raises(record) /\ finals' \in {finals, finals \cup {record.path}}
    /\ UNCHANGED <<density, candidates, groups, answer, speech, said, rows, staged>>

Describe ==
    /\ phase = "judging" /\ step = "describe"
    /\ \/ /\ Fine /\ step' = "stage" /\ metas' = metas \cup {record.path}
          /\ UNCHANGED <<phase, record, segments, call, ready>>
       \/ GiveUp(metas \ {record.path})
       \/ Raises(record)
    /\ UNCHANGED <<density, candidates, groups, answer, speech, said, rows, finals, staged>>

(* A new row, or the row of an earlier run: a failed one is staged again.   *)
StagedRow(path) ==
    IF path \notin DOMAIN rows \/ rows[path] = "failed" THEN "staged" ELSE rows[path]

StageClip ==
    /\ phase = "judging" /\ step = "stage"
    /\ LET status == StagedRow(record.path)
           upload == IF status = "staged" THEN "awaiting_publish" ELSE status
       IN \/ /\ Fine
             /\ rows' = [p \in DOMAIN rows \cup {record.path} |->
                            IF p = record.path THEN status ELSE rows[p]]
             /\ staged' = IF status = "staged" THEN staged \cup {record.path} ELSE staged
             /\ Finished(record.of, <<[record EXCEPT !.upload = upload]>>)
             /\ UNCHANGED <<phase, metas>>
          \/ (GiveUp(metas \ {record.path}) \/ Raises(record)) /\ UNCHANGED <<rows, staged>>
    /\ UNCHANGED <<density, candidates, groups, answer, speech, said, finals>>

-----------------------------------------------------------------------------
(* The end: the records in the order of the recording, and each duplicate   *)
(* naming the segment of its winner, which the evidence may have moved.     *)

Precedes(r, s) ==
    LET a == <<candidates[r.of].start, r.id[1], r.path[2]>>
        b == <<candidates[s.of].start, s.id[1], s.path[2]>>
    IN \/ a[1] < b[1]
       \/ a[1] = b[1] /\ (a[2] < b[2] \/ (a[2] = b[2] /\ a[3] < b[3]))

Ordered(list) ==
    {sorted \in Arranged(list) :
        \A k \in DOMAIN list : \A j \in 1..k - 1 : ~Precedes(sorted[k], sorted[j])}

Named(sorted) ==
    LET Keyed(key) == {k \in DOMAIN sorted : key # NoRange /\ sorted[k].key = key}
    IN [k \in DOMAIN sorted |->
          IF Keyed(sorted[k].duplicateOf) = {} THEN sorted[k]
          ELSE [sorted[k] EXCEPT !.duplicateOf = sorted[Max(Keyed(@))].id]]

Empty == {c \in Candidates : answer[c] = NoClip}

Finish ==
    /\ phase = "judging" /\ step = "free"
    /\ \A c \in Candidates : call[c] = "finished"
    /\ \/ /\ Fine
          /\ \E sorted \in Ordered(segments) : segments' = Named(sorted)
          /\ phase' = IF segments = <<>> /\ Empty # Candidates THEN "failed" ELSE "done"
       \/ MayFail /\ phase' = "raised" /\ UNCHANGED segments
    /\ UNCHANGED <<density, candidates, groups, answer, pool, ready, hand, disk>>

-----------------------------------------------------------------------------
Worker == Burn \/ Describe \/ StageClip \/ Finish \/ \E c \in Candidates : Collect(c) \/ Analyse(c)

Next == TurnAway \/ Cut \/ Worker \/ \E c \in Candidates : StartCall(c) \/ CallEnds(c)

Spec == Init /\ [][Next]_vars

(* The task's thread goes on as long as it can; no call need ever end.      *)
FairSpec == Spec /\ WF_vars(Worker)
-----------------------------------------------------------------------------
(* Detection.                                                               *)

(* Every bursting second is shown by its burst's candidate, unless it is    *)
(* further than a context from the burst's anchor (burst_detector.py:210)   *)
(* or the burst gives way to candidates at least as dense (:245-262); and   *)
(* every candidate's window fits the recording and shows some of its burst, *)
(* however bursts are merged and windows moved in from the ends (:218-224). *)
CutIsComplete ==
    phase = "recorded" =>
        /\ \A i \in Bursting(density) : Accounted(density, i)
        /\ LET found == Detect(density) IN \A k \in DOMAIN found : Fits(density, found[k])

-----------------------------------------------------------------------------
(* Judgement.                                                               *)

Judged == {c \in Candidates : answer[c] \notin {NoClip, Raised}}
Beaten(c) == answer[c].duplicateOf # NoRange

Overlapping(c, d) == Overlap(candidates[c], candidates[d]) > 0
SameGroup(c, d) ==
    \A S \in SUBSET Candidates :
        (c \in S /\ \A p \in S, q \in Candidates \ S : ~Overlapping(p, q)) => d \in S

Beats(w, c) ==
    /\ w \in Judged \ {c} /\ Eligible(said, w) /\ SameGroup(c, w)
    /\ Twins(said, candidates, c, w) /\ Outranks(said, candidates, w, c)

(* Two clips of the same seconds: their dedupe keys are equal.              *)
SamePlace(c, d) == Place(said, candidates, c) = Place(said, candidates, d)

(* Whatever the order in which the calls start and end, a clip is a         *)
(* duplicate exactly if a clip of its group that is none is alike, outranks *)
(* it and passes the gate it passes (slice_only.py:250-331, 937-948); and   *)
(* the segment it names is that clip's, or one first cut at the very same   *)
(* seconds, wherever the evidence has moved it, unless its record failed.   *)
DuplicatesDecidedByRank ==
    phase = "done" /\ Len(candidates) > 1 =>
        /\ \A c \in Judged :
               Beaten(c) <=> Eligible(said, c) /\ \E w \in Judged : Beats(w, c) /\ ~Beaten(w)
        /\ \A s \in {r \in ToSet(segments) : r.duplicateOf # NoRange} :
               \E t \in ToSet(segments) :
                   /\ Beats(t.of, s.of) /\ ~Beaten(t.of)
                   /\ \/ t.status = "judge_failed"
                      \/ \E u \in ToSet(segments) : u.id = s.duplicateOf /\ SamePlace(u.of, t.of)

(* "assert loser["duplicate_of"] == winner["segment_id"]"                   *)
(* (tests/test_slice_only_multi_clip.py:359).  The code does not keep this: *)
(* the segments are found by the seconds of their clips (:204), which two   *)
(* winners can share if one is another topic; the loser is a third clip,    *)
(* that the model gave a trim outside its window.                           *)
DuplicatesNameTheirWinner ==
    phase = "done" =>
        \A s \in {r \in ToSet(segments) : r.duplicateOf # NoRange} :
            \E t \in ToSet(segments) :
                Beats(t.of, s.of) /\ (t.id = s.duplicateOf \/ t.status = "judge_failed")

(* Every clip the model gave ends as one segment and no candidate as two,   *)
(* whatever failed on the way; "all candidates failed" (slice_only.py:1436) *)
(* is never the outcome of a loop that was reached.  A row this run staged  *)
(* has its rendered clip and its metadata from that moment on, so that a    *)
(* kill never leaves it without them, and a run that is done lists exactly  *)
(* the staged clips as awaiting publication.                                *)
StagedIsListed ==
    /\ staged \subseteq finals \cap metas /\ \A p \in staged : rows[p] = "staged"
    /\ phase = "failed" => candidates = <<>>
    /\ phase = "done" =>
          /\ \A c \in Candidates :
                LET listed == {k \in DOMAIN segments : segments[k].of = c}
                IN Cardinality(listed) <= 1 /\ (listed = {} => answer[c] = NoClip)
          /\ staged = {s.path : s \in {t \in ToSet(segments) : t.upload = "awaiting_publish"}}

Kept == {s \in ToSet(segments) : s.status = "keep"} \cup
        (IF step = "free" THEN {} ELSE {record})

(* The clip as the model gave it: scores, topic, trim and boundary.         *)
PassedTheGates(c) ==
    LET length == candidates[c].end - candidates[c].start
    IN /\ said[c].passes /\ ~Beaten(c)
       /\ ValidTrim(said[c].trim, length) /\ ~AtBoundary(said[c].trim, length)

(* What is rendered without a reviewer passed every gate as the model gave  *)
(* it, and its trim, which the evidence has moved since, is still one of    *)
(* the candidate that covers the clip's core; the core meets the burst      *)
(* where the detector gave it any length, and the speech that was heard     *)
(* within the trim, of the pass before the judgement if that heard any,     *)
(* includes some before the core and some after it                          *)
(* (candidate_analyzer.py:462-484, 611-667).                                *)
KeptIsProven ==
    \A s \in Kept :
        LET w == candidates[s.of]
        IN /\ PassedTheGates(s.of)
           /\ ValidTrim(s.trim, w.end - w.start)
           /\ Covers(s.trim, s.core)
           /\ w.core[1] < w.core[2] => Meets(Absolute(s.core, w), w.core)
           /\ \E h \in s.heard : h[1] < s.core[1] /\ h[2] > s.trim[1]
           /\ \E h \in s.heard : h[2] > s.core[2] /\ h[1] < s.trim[2]
           /\ speech[s.of] # {} => s.heard \subseteq speech[s.of]

(* "Keep boundary-dependent trims out of automatic previews"                *)
(* (candidate_analyzer.py:462). The code does not keep this: the evidence   *)
(* widens a trim after the gate has looked at it.                           *)
KeptClearsTheBoundary ==
    \A s \in Kept : LET w == candidates[s.of] IN ~AtBoundary(s.trim, w.end - w.start)

(* "Independent ready groups can finalize while unrelated MiMo requests     *)
(* continue in the pool" (slice_only.py:946): a group whose calls have all  *)
(* ended is finished, even if another call never ends.                      *)
HasEnded(c) == call[c] \notin {"waiting", "running"}
ReadyGroupFinishes ==
    \A c \in 1..TopN :
        (phase = "judging" /\ c \in Candidates /\ \A d \in Group(c) : HasEnded(d))
            ~> (phase = "judging" => c \in Candidates /\ call[c] = "finished")
=============================================================================
