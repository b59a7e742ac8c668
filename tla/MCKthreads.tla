----------------------------- MODULE MCKthreads -----------------------------
(* Threads on a small page table; bounds are in the .cfg file.             *)
EXTENDS Kthreads
=============================================================================
