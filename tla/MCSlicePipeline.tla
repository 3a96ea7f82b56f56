--------------------------- MODULE MCSlicePipeline ---------------------------
(* Recordings of up to eleven seconds are only detected; four are sliced as *)
(* well.  A second of the model is some twenty of the program.              *)
EXTENDS SlicePipeline

(* One burst; two whose windows overlap; two that are apart; three in a     *)
(* chain of which the outer two are apart and come first.                   *)
Peaks(last, at) == [i \in 0..last |-> IF i \in at THEN 4 ELSE 1]
Lone == Peaks(7, {4})
Pair == Peaks(10, {4, 7})
Apart == Peaks(14, {4, 11})
Chain == [Peaks(13, {4, 7, 10}) EXCEPT ![7] = 3]
MCFollowedUp == {Lone, Pair, Apart, Chain}

(* A window is six seconds.  In longer recordings it is moved in from       *)
(* either end, and a burst in every other second may be longer than it;     *)
(* where one second is denser than the rest of its burst, the window is     *)
(* about that one.                                                          *)
Long == UNION {[0..last -> {1, 2}] : last \in 8..10}
OnePeak == UNION {{[d EXCEPT ![peak] = 3] : d \in [0..last -> {1, 2}], peak \in 0..last} :
                  last \in 7..9}
MCDensities == MCFollowedUp \cup UNION {[0..last -> 0..2] : last \in 1..6} \cup Long \cup OnePeak

ReplyClip(clipForm, clipRank, clipTrim, clipCore) ==
    [form |-> clipForm, scores |-> clipRank, rank |-> clipRank, passes |-> TRUE, topic |-> "a",
     trim |-> clipTrim, core |-> clipCore]

(* Topic b is like a and like c, which are not like each other.             *)
MCSimilar == {"a", "b", "c"} \X {"a", "b", "c"} \ {<<"a", "c">>, <<"c", "a">>}

(* Of two windows that overlap, late in the first and early in the second   *)
(* are the same seconds; across holds both ends.                            *)
Late == ReplyClip("keep", 3, <<4, 5>>, <<3, 5>>)
Across == ReplyClip("keep", 2, <<1, 5>>, <<4, 5>>)
Early == ReplyClip("keep", 1, <<1, 2>>, <<1, 5>>)

(* The first of two clips by its scores, although not by their weighted sum. *)
Uneven == <<[Early EXCEPT !.scores = 4], Late>>

(* The same seconds again, but given by the first window of a chain.        *)
Beyond == ReplyClip("keep", 1, <<7, 8>>, <<3, 5>>)

All == {<<0, 6>>}
Sentences == {<<0, 3>>, <<3, 6>>}
Mumble == {<<4, 5>>}

Gives(clips, heard) == [ok |-> TRUE, reply |-> clips, speech |-> heard]
NoAnswer == [Gives(<<>>, All) EXCEPT !.ok = FALSE]

Dropped == ReplyClip("drop", 0, NoRange, NoRange)
Malformed == ReplyClip("malformed", 0, NoRange, NoRange)
Keeps(trim, core) == ReplyClip("keep", 1, trim, core)

(* Empty, filtered, several, malformed, unscored and poor replies; then a   *)
(* trim outside the window or at its start, a core outside the burst or     *)
(* reversed, and two clips that depend on what speech is heard.             *)
Replies == {
    <<>>, <<Dropped>>, <<Dropped, Across>>, <<Early, Late>>, Uneven, <<Malformed>>, <<Malformed, Across>>,
    <<[Late EXCEPT !.form = "unscored"]>>, <<[Across EXCEPT !.passes = FALSE]>>,
    <<Keeps(<<1, 8>>, <<4, 5>>)>>, <<Keeps(<<0, 5>>, <<4, 5>>)>>,
    <<Keeps(<<1, 5>>, <<1, 2>>)>>, <<Keeps(<<2, 5>>, <<5, 4>>)>>,
    <<Keeps(<<3, 5>>, <<4, 5>>)>>, <<Keeps(<<4, 5>>, <<4, 5>>)>>}

MCAnswers == [d \in MCFollowedUp |->
    CASE d = Lone -> {NoAnswer} \cup {Gives(r, s) : r \in Replies, s \in {{}, All, Sentences, Mumble}}
      [] d = Pair -> {NoAnswer, Gives(Uneven, All)} \cup {Gives(<<clip>>, All) :
            clip \in {Late, Across, Early, [Late EXCEPT !.topic = "c"],
                      [Across EXCEPT !.passes = FALSE], [Early EXCEPT !.rank = 3]}}
      [] d = Apart -> {Gives(<<>>, All), Gives(<<Across>>, All)}
      [] d = Chain -> {NoAnswer} \cup {Gives(<<clip>>, All) :
            clip \in {Late, [Across EXCEPT !.topic = "b"], Early, [Early EXCEPT !.topic = "c"],
                      Beyond}}]

MCSpeeches == {Sentences, Mumble}

MCEarlier == {<<>>} \cup {(<<0, 3>> :> status) : status \in {"staged", "queued", "failed"}}
=============================================================================
