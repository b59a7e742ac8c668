------------------------------- MODULE MCBoot --------------------------------
(* Loaders, linkers and devices of a few kinds.                            *)
EXTENDS Boot

MCOwners ==
    {[n \in 3..5 |-> "spare"], [n \in 3..5 |-> IF n = 4 THEN "gp" ELSE "spare"],
     [n \in 3..5 |-> "tss"], [n \in 3..5 |-> IF n = 5 THEN "tss" ELSE "spare"]}

\* In the middle of the image and at the end of a megabyte.
MCTssPlaces == {<<49168, 40000>>, <<49167, 65500>>}

MCPlaces == {0, 1, 255} \X {0, 31} \X {0, 7}
=============================================================================
