----------------------------- MODULE MCTerminal ------------------------------
(* A terminal of a few cells; bounds are in the .cfg file.                 *)
EXTENDS Terminal

MCMessage == <<97, 10, 97>>
=============================================================================
