--------------------------- MODULE MCBufferCache ----------------------------
(* The buffer cache with a small pool; bounds are in the .cfg files.       *)
EXTENDS BufferCache, TLC

\* Callers differ in nothing but their name.
HolderSymmetry == Permutations(Holders)
=============================================================================
