---------------------------- MODULE ClipJudgement ----------------------------
(***************************************************************************)
(* What becomes of the model's reply about one candidate: parsed into one  *)
(* clip (autoslice/mllm_sdk/mimo_video.py), compared with the clips of     *)
(* overlapping candidates (burn/slice_only.py), then held against the      *)
(* quality gate, the shape of its trim and the speech that was heard       *)
(* (autoslice/candidate_analyzer.py).                                      *)
(*                                                                         *)
(* Times of a clip are relative to its candidate.  Of its three scores,    *)
(* scores is their place in the order of quality, then completeness, then  *)
(* confidence, rank that of their weighted sum, and passes tells whether   *)
(* each of the three reaches its minimum.  A transcript is the set of its  *)
(* segments, <<start, end>>.                                               *)
(***************************************************************************)
EXTENDS Integers, Sequences, SequencesExt

CONSTANTS
    MinTrim,    \* the shortest clip (5 s)
    Boundary,   \* TRIM_BOUNDARY_REVIEW_SECONDS
    Tolerance,  \* SNAP_TRIM_TOLERANCE
    Similar     \* pairs of topics that are alike (_text_similarity >= 0.50)

ASSUME JudgementAssumption == MinTrim \in Nat \ {0} /\ {Boundary, Tolerance} \subseteq Nat

(* Neither transitive nor, as of two empty topics, reflexive.               *)
ASSUME SimilarAssumption ==
    /\ Similar \subseteq STRING \X STRING
    /\ \A pair \in Similar : <<pair[2], pair[1]>> \in Similar

NoRange == <<0, 0>>      \* empty: no core interval, no duplicate key

(* A clip: its status, trim and core; key and duplicateOf are the ranges    *)
(* that _dedupe_key and duplicate_of name, and heard, of a clip that is     *)
(* kept, its transcript_segments.                                           *)
Verdict(status, clip) ==
    [status |-> status, trim |-> clip.trim, core |-> clip.core, scores |-> clip.scores,
     rank |-> clip.rank, passes |-> clip.passes, topic |-> clip.topic, heard |-> {},
     key |-> NoRange, duplicateOf |-> NoRange]
Unknown == [trim |-> NoRange, core |-> NoRange, scores |-> 0, rank |-> 0, passes |-> FALSE,
            topic |-> "none"]
FailedCall == Verdict("judge_failed", Unknown)
NoClip == Verdict("no_clip", Unknown)    \* the model found none
Raised == Verdict("raised", Unknown)     \* its call raised

-----------------------------------------------------------------------------
(* What the call gave: ~ok (no key, no answer, no JSON), or a reply of clips *)
(* whose form is malformed, drop, unscored (a score missing or not within   *)
(* 0..1) or keep.  A drop is left out, and of several clips one is primary. *)

Parsed(clip) ==
    CASE clip.form = "malformed" -> FailedCall
      [] clip.form = "unscored" -> Verdict("review", clip)
      [] clip.form = "keep" -> Verdict("keep", clip)

CoreLength(v) == Max({0, v.core[2] - v.core[1]})
Better(v, w) ==
    IF (v.status = "keep") # (w.status = "keep") THEN v.status = "keep"
    ELSE \/ v.scores > w.scores
         \/ v.scores = w.scores /\ CoreLength(v) > CoreLength(w)

Primary(best, clip) ==
    IF clip.form # "drop" /\ (best = NoClip \/ Better(Parsed(clip), best))
    THEN Parsed(clip) ELSE best

Answer(given) ==
    IF ~given.ok THEN FailedCall ELSE FoldLeft(Primary, NoClip, given.reply)

-----------------------------------------------------------------------------
(* Gates.                                                                   *)

QualityGate(v) == IF v.status = "keep" /\ ~v.passes THEN [v EXCEPT !.status = "review"] ELSE v

ValidTrim(trim, length) ==
    /\ 0 <= trim[1] /\ trim[2] <= length
    /\ trim[2] - trim[1] >= MinTrim

AtBoundary(trim, length) == trim[1] <= Boundary \/ length - trim[2] <= Boundary

-----------------------------------------------------------------------------
(* Evidence: the trim is widened to the core and to the ends of speech, and *)
(* must be valid, cover the core, and hold speech before and after it.      *)

Covers(a, b) == a[1] <= b[1] /\ b[2] <= a[2]
Meets(a, b) == Min({a[2], b[2]}) > Max({a[1], b[1]})

Snapped(trim, speech) ==
    LET starts == {s[1] : s \in speech} \cap (trim[1] - Tolerance) .. trim[1]
        ends == {s[2] : s \in speech} \cap trim[2] .. (trim[2] + Tolerance)
    IN <<IF starts = {} THEN trim[1] ELSE Max(starts), IF ends = {} THEN trim[2] ELSE Min(ends)>>

Repaired(v, speech) ==
    Snapped(<<Min({v.trim[1], v.core[1]}), Max({v.trim[2], v.core[2]})>>, speech)

(* The errors before the trim is replaced ...                               *)
NoEvidence(v, length, burst, speech) ==
    \/ speech = {}
    \/ v.core[1] < 0 \/ v.core[2] <= v.core[1] \/ v.core[2] > length
    \/ burst[2] > burst[1] /\ ~Meets(v.core, burst)

(* Mutation: speech within the trim is enough, wherever its core is.        *)
Inaudible(v, trim, length, speech) ==
    \/ ~ValidTrim(trim, length)
    \/ ~Covers(trim, v.core)
    \/ ~\E s \in speech : Meets(s, trim)

(* ... and those after.                                                     *)
Unproven(v, trim, length, speech) ==
    \/ ~ValidTrim(trim, length)
    \/ ~Covers(trim, v.core)
    \/ ~\E s \in speech : s[1] < v.core[1] /\ s[2] > trim[1]
    \/ ~\E s \in speech : s[2] > v.core[2] /\ s[1] < trim[2]
    \/ ~\E s \in speech : Meets(s, trim)

Prepared(v, length, burst, speech) ==
    IF NoEvidence(v, length, burst, speech) THEN [ok |-> FALSE, trim |-> v.trim, heard |-> {}]
    ELSE LET trim == Repaired(v, speech)
         IN [ok |-> ~Unproven(v, trim, length, speech), trim |-> trim,
             heard |-> {s \in speech : Meets(s, trim)}]

(* A review keeps what was prepared, or is transcribed for its reviewer.    *)
ForReview(v, length, burst, before, after) ==
    IF before # {} THEN v
    ELSE [v EXCEPT !.trim = Prepared(v, length, burst, after).trim]

(* analyze_candidate_clip_results on the one clip: before is the speech of  *)
(* the pass that precedes the model's judgement, and after what a second    *)
(* pass hears if that was none ({} also if it fails).                       *)
Analysed(answer, length, burst, before, after) ==
    LET v == QualityGate(answer)
        proof == Prepared(v, length, burst, IF before # {} THEN before ELSE after)
    IN IF answer.status = "judge_failed" THEN answer
       ELSE IF answer.status # "review" /\ ~ValidTrim(v.trim, length)
       THEN [v EXCEPT !.status = "judge_failed", !.trim = NoRange]
       ELSE IF v.status = "review" THEN ForReview(v, length, burst, before, after)
       ELSE IF AtBoundary(v.trim, length) THEN [v EXCEPT !.status = "review"]
       ELSE IF proof.ok THEN [v EXCEPT !.trim = proof.trim, !.heard = proof.heard]
       ELSE [v EXCEPT !.status = IF before # {} THEN "review" ELSE "judge_failed",
                      !.trim = proof.trim]

-----------------------------------------------------------------------------
(* Clips of overlapping candidates.  answers maps candidates to the clip,   *)
(* NoClip or Raised, and windows to their windows in the recording.         *)

Absolute(range, window) == <<range[1] + window.start, range[2] + window.start>>
Length(range) == range[2] - range[1]

(* An overlap of 60 % of the union or of 80 % of the shorter.               *)
Alike(a, b) ==
    LET overlap == Min({a[2], b[2]}) - Max({a[1], b[1]})
    IN /\ overlap > 0
       /\ \/ 10 * overlap >= 6 * (Length(a) + Length(b) - overlap)
          \/ 10 * overlap >= 8 * Min({Length(a), Length(b)})

Eligible(answers, c) ==
    /\ answers[c] \notin {NoClip, Raised}
    /\ QualityGate(answers[c]).status = "keep"
    /\ answers[c].trim[1] < answers[c].trim[2]

Place(answers, windows, c) == Absolute(answers[c].trim, windows[c])

Outranks(answers, windows, c, d) ==
    LET a == Place(answers, windows, c)
        b == Place(answers, windows, d)
    IN \/ answers[c].rank > answers[d].rank
       \/ /\ answers[c].rank = answers[d].rank
          /\ \/ a[1] < b[1]
             \/ a[1] = b[1] /\ (a[2] < b[2] \/ (a[2] = b[2] /\ c < d))

Twins(answers, windows, c, d) ==
    /\ <<answers[c].topic, answers[d].topic>> \in Similar
    /\ Alike(Place(answers, windows, c), Place(answers, windows, d))

(* The pass over one group of candidates, from the highest rank down: a     *)
(* clip wins unless it is the twin of a clip that has won before it.        *)
Winners(answers, windows, group) ==
    LET entries == {c \in group : Eligible(answers, c)}
        Wins[c \in entries] ==
            \A d \in entries : Outranks(answers, windows, d, c)
                                   => ~(Twins(answers, windows, c, d) /\ Wins[d])
    IN {c \in entries : Wins[c]}

(* Who won is marked by its own range, who lost by the range of the first   *)
(* winner it is a twin of.                                                  *)
Marked(answers, windows, group, winners) ==
    LET FirstTwin(c) ==
            LET twins == {w \in winners : Twins(answers, windows, c, w)}
            IN CHOOSE w \in twins : \A v \in twins \ {w} : Outranks(answers, windows, w, v)
    IN [c \in DOMAIN answers |->
          IF c \notin group \/ answers[c] \in {NoClip, Raised} THEN answers[c]
          ELSE IF ~Eligible(answers, c) THEN QualityGate(answers[c])
          ELSE IF c \in winners THEN [answers[c] EXCEPT !.key = Place(answers, windows, c)]
          ELSE [answers[c] EXCEPT !.status = "review",
                                  !.duplicateOf = Place(answers, windows, FirstTwin(c))]]
=============================================================================
