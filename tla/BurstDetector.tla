---------------------------- MODULE BurstDetector ----------------------------
(***************************************************************************)
(* How a recording is cut into candidates: the seconds in which the        *)
(* danmaku burst against the recording's background, one window around     *)
(* each burst, and the densest windows that do not crowd each other        *)
(* (autoslice/burst_detector.py, _build_generated_slice of                 *)
(* autoslice/danmaku_slice.py).                                            *)
(*                                                                         *)
(* A recording is its density series, a function from its seconds 0..n-1   *)
(* to the danmaku of each; it lasts n-1 whole seconds.  Densities are      *)
(* compared as fractions [sum, width], without the rounding of floats.     *)
(***************************************************************************)
EXTENDS Integers, Sequences, SequencesExt

CONSTANTS
    Ratio,       \* burst_ratio: local density against the background
    HalfWindow,  \* burst_window // 2
    Context,     \* seconds taken on either side of a burst
    MergeGap,    \* bursts at most this far apart are one
    TopN,        \* candidates at most
    Lag,         \* lag_seconds: the danmaku come this long after the event
    Skip,        \* seconds at either end that the background leaves out
    CoreReach    \* half the core of a burst whose own range is empty

ASSUME DetectorAssumption ==
    /\ {Ratio, Context, TopN, CoreReach} \subseteq Nat \ {0}
    /\ {HalfWindow, MergeGap, Lag, Skip} \subseteq Nat

Seconds(density) == Cardinality(DOMAIN density)
Lasts(density) == Seconds(density) - 1
Within(low, x, high) == Max({low, Min({x, high})})

-----------------------------------------------------------------------------
(* Bursting seconds.                                                        *)

(* The seconds the background is taken from, those with danmaku in order of *)
(* their density.  A recording too short to lose both ends still loses its  *)
(* beginning.                                                               *)
Busy(density) ==
    LET n == Seconds(density)
        middle == IF n > 2 * Skip THEN n - 2 * Skip ELSE Max({0, n - Skip})
    IN SortSeq(SelectSeq([k \in 1..middle |-> density[Skip + k - 1]], LAMBDA d : d > 0), <)

(* Twice the median of those; twice 1 if there are none.                    *)
Background2(density) ==
    LET busy == Busy(density)
        half == Len(busy) \div 2
    IN CASE busy = <<>> -> 2
         [] Len(busy) = 2 * half + 1 -> 2 * busy[half + 1]
         [] OTHER -> busy[half] + busy[half + 1]

Local(density, i) ==
    LET around == Max({0, i - HalfWindow}) .. Min({Lasts(density), i + HalfWindow})
    IN [sum |-> SumFunctionOnSet(density, around), width |-> Cardinality(around)]

Denser(a, b) == a.sum * b.width > b.sum * a.width

Bursting(density) ==
    LET background == Background2(density)
    IN {i \in DOMAIN density :
            LET here == Local(density, i)
            IN 2 * here.sum >= Ratio * background * here.width}

-----------------------------------------------------------------------------
(* Bursts, as [from, to): the scan over the seconds, then the merge.        *)

ScanSecond(flagged, scan, i) ==
    CASE i \in flagged /\ ~scan.open ->
            [scan EXCEPT !.open = TRUE, !.from = i]
      [] i \notin flagged /\ scan.open ->
            [scan EXCEPT !.open = FALSE, !.found = Append(@, [from |-> scan.from, to |-> i])]
      [] OTHER -> scan

Segments(density) ==
    LET flagged == Bursting(density)
        Step(scan, i) == ScanSecond(flagged, scan, i)
        end == FoldLeft(Step, [open |-> FALSE, from |-> 0, found |-> <<>>],
                        [k \in 1..Seconds(density) |-> k - 1])
    IN IF end.open THEN Append(end.found, [from |-> end.from, to |-> Seconds(density)])
       ELSE end.found

Join(merged, segment) ==
    IF merged # <<>> /\ segment.from - Last(merged).to <= MergeGap
    THEN [merged EXCEPT ![Len(merged)].to = segment.to]
    ELSE Append(merged, segment)

Bursts(density) == FoldLeft(Join, <<>>, Segments(density))

-----------------------------------------------------------------------------
(* The window around a burst.                                               *)

(* The first of its fullest seconds.                                        *)
Peak(density, burst) ==
    CHOOSE i \in burst.from .. burst.to - 1 :
        \A j \in burst.from .. burst.to - 1 :
            density[j] <= density[i] /\ (density[j] = density[i] => i <= j)

(* Mutation: a window is moved in from the end a context too early.         *)
WindowMovedEarly(anchor, last) ==
    CASE anchor + 2 * Context > last -> [start |-> Max({0, last - 2 * Context}), end |-> last]
      [] anchor + 2 * Context <= last -> [start |-> Max({0, anchor - Context}),
                                          end |-> Max({2 * Context, anchor + Context})]

(* Context on either side of the anchor; near an end of the recording the   *)
(* other side makes up for what is missing.                                 *)
Window(anchor, last) ==
    CASE anchor + Context > last -> [start |-> Max({0, last - 2 * Context}), end |-> last]
      [] anchor + Context <= last /\ anchor < Context ->
            [start |-> 0, end |-> Min({last, 2 * Context})]
      [] OTHER -> [start |-> anchor - Context, end |-> anchor + Context]

(* The burst's own seconds, as far as the window shows them.                *)
Core(density, burst, window) ==
    LET from == Within(0, burst.from, Lasts(density))
        to == Max({from, Min({burst.to, Lasts(density)})})
        peak == Peak(density, burst)
        own == IF to > from THEN <<from, to>>
               ELSE <<Max({window.start, peak - CoreReach}), Min({window.end, peak + CoreReach})>>
        start == Within(window.start, own[1], window.end)
    IN <<start, Max({start, Min({window.end, own[2]})})>>

Event(density, burst) ==
    LET peak == Peak(density, burst)
        window == Window(Max({0, peak - Lag}), Lasts(density))
    IN [start |-> window.start, end |-> window.end, core |-> Core(density, burst, window),
        burst |-> burst, density |-> Local(density, peak)]

-----------------------------------------------------------------------------
(* Selection: the densest first, one that crowds a selected one left out.   *)

Overlap(a, b) == Min({a.end, b.end}) - Max({a.start, b.start})
Crowds(event, chosen) == \E k \in DOMAIN chosen : Overlap(event, chosen[k]) > Context

Ahead(a, b) ==
    \/ Denser(a.density, b.density)
    \/ ~Denser(b.density, a.density) /\ a.burst.from < b.burst.from

(* The ways to put a sequence in an order.                                  *)
Arranged(list) ==
    {[k \in DOMAIN list |-> list[p[k]]] : p \in Bijection(DOMAIN list, DOMAIN list)}

Ranked(events) ==
    CHOOSE ranked \in Arranged(events) :
        \A k \in DOMAIN ranked : \A j \in 1..k - 1 : ~Ahead(ranked[k], ranked[j])

Choose(chosen, event) ==
    IF Len(chosen) >= TopN \/ Crowds(event, chosen) THEN chosen ELSE Append(chosen, event)

Events(density) == LET bursts == Bursts(density)
                   IN [k \in DOMAIN bursts |-> Event(density, bursts[k])]

Detect(density) ==
    IF Lasts(density) <= 0 THEN <<>>
    ELSE FoldLeft(Choose, <<>>, Ranked(Events(density)))

-----------------------------------------------------------------------------
(* What a cut owes the recording.                                           *)

(* Every bursting second up to a context from its burst's anchor is shown   *)
(* by that burst's candidate, wherever the window has been moved; what a    *)
(* longer burst has beyond is cut off.  Or its burst gives way: a candidate *)
(* at least as dense takes more than a context of its window, or as many as *)
(* are wanted are at least as dense.                                        *)
Accounted(density, i) ==
    LET chosen == Detect(density)
        events == Events(density)
        Near(e) == LET anchor == Max({0, Peak(density, e.burst) - Lag})
                   IN i \in anchor - Context .. anchor + Context
        AsDense(k, e) == ~Denser(e.density, chosen[k].density)
    IN \E e \in ToSet(events) :
        /\ i \in e.burst.from .. e.burst.to - 1
        /\ IF e \in ToSet(chosen) THEN Near(e) => i \in e.start .. e.end
           ELSE \/ \E k \in DOMAIN chosen : AsDense(k, e) /\ Overlap(e, chosen[k]) > Context
                \/ Len(chosen) = TopN /\ \A k \in DOMAIN chosen : AsDense(k, e)

(* A window is inside the recording, as long as two contexts if the         *)
(* recording is, and its core a part of it that holds more than a moment,   *)
(* however near an end the burst is (danmaku_slice.py:248).                 *)
Fits(density, candidate) ==
    /\ 0 <= candidate.start /\ candidate.end <= Lasts(density)
    /\ candidate.end - candidate.start = Min({Lasts(density), 2 * Context})
    /\ candidate.start <= candidate.core[1] /\ candidate.core[2] <= candidate.end
    /\ Lag < Context => candidate.core[1] < candidate.core[2]
=============================================================================
