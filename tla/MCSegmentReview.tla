--------------------------- MODULE MCSegmentReview ---------------------------
(* SegmentReview on small instances, up to the first change that is saved   *)
(* although the unread database forbids it.                                 *)
EXTENDS SegmentReview

Sighted == ~blind
=============================================================================
