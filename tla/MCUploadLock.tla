---------------------------- MODULE MCUploadLock ----------------------------
(* UploadLock on small instances; the consumers are interchangeable.        *)
EXTENDS UploadLock, TLC

Symmetry == Permutations(Consumers)
=============================================================================
