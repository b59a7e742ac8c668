---------------------------- MODULE MCInterrupts -----------------------------
(* Two seconds between which all the values of the clock change, and keys  *)
(* that are pressed and released.                                          *)
EXTENDS Interrupts, TLC

MCMoments == << <<59, 59, 23, 31, 12, 2099>>, <<0, 0, 0, 1, 1, 2100>> >>

MCTable == 0 :> "nothing" @@ 30 :> "a"
=============================================================================
