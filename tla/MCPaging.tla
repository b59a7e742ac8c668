------------------------------ MODULE MCPaging ------------------------------
(* The page table on a few frames and pages; bounds are in the .cfg file.  *)
EXTENDS Paging
=============================================================================
