------------------------------- MODULE MCHeap -------------------------------
(* The heap on a range of a few blocks; the bounds are in the .cfg files.  *)
EXTENDS Heap
=============================================================================
