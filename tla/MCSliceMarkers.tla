---------------------------- MODULE MCSliceMarkers ----------------------------
(* SliceMarkers for TLC: the dashboard's requests are interchangeable.      *)
EXTENDS SliceMarkers, TLC

RequestsAreAlike == Permutations(Requests)
===============================================================================
