-------------------------------- MODULE MCAta --------------------------------
(* The driver and a drive of a few sectors; bounds are in the .cfg files.  *)
EXTENDS Ata
=============================================================================
