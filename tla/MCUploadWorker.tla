--------------------------- MODULE MCUploadWorker ---------------------------
(* UploadWorker on small instances; the videos are interchangeable.         *)
EXTENDS UploadWorker, TLC

Symmetry == Permutations(Videos)
=============================================================================
