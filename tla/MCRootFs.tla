------------------------------ MODULE MCRootFs -------------------------------
(* Directories of up to two blocks of two sectors of four units, and files *)
(* of a few blocks.                                                        *)
EXTENDS RootFs

Ent(sec, off, len, name, inode) ==
    [sec |-> sec, off |-> off, size |-> len, name |-> name, inode |-> inode, live |-> TRUE]

\* A block whose sectors both begin with an entry.
Full(s, n) ==
    {Ent(s, 0, 1, n[1], 1), Ent(s, 1, 1, n[2], 2), Ent(s, 2, 2, n[3], 3),
     Ent(s + 1, 0, 2, n[4], 4), Ent(s + 1, 2, 2, n[5], 5)}

\* A block with a free entry in front of the one that has its name now.
Freed(s, n) ==
    {Ent(s, 0, 1, n[1], 0), Ent(s, 1, 1, n[1], 2), Ent(s, 2, 2, n[2], 3), Ent(s + 1, 0, 4, n[3], 4)}

\* A block whose second entry reaches into its second sector, with a deleted
\* entry, or nothing, at the start of that.
Across(s, n, left) == {Ent(s, 0, 1, n[1], 1), Ent(s, 1, 7, n[2], 3)} \cup left
Deleted(s, x, len) == {[Ent(s + 1, 0, len, x, 6) EXCEPT !.live = FALSE]}

MCDirectories ==
    {[mode |-> 1, blocks |-> 0, ents |-> {}],
     [mode |-> 0, blocks |-> 1, ents |-> Full(0, <<"a", "b", "last", "d", "e">>)],
     [mode |-> 1, blocks |-> 1, ents |-> Full(0, <<"a", "b", "last", "d", "e">>)],
     [mode |-> 1, blocks |-> 2, ents |-> Full(0, <<"a", "b", "last", "d", "e">>)
                                        \cup Full(2, <<"c", "f", "g", "h", "i">>)],
     [mode |-> 1, blocks |-> 2, ents |-> Freed(0, <<"a", "last", "e">>)
                                        \cup Full(2, <<"b", "c", "f", "d", "g">>)],
     [mode |-> 1, blocks |-> 2, ents |-> Full(0, <<"b", "c", "e", "d", "last">>)
                                        \cup Freed(2, <<"a", "f", "g">>)],
     [mode |-> 1, blocks |-> 1, ents |-> Across(0, <<"a", "last">>, {})],
     [mode |-> 1, blocks |-> 1, ents |-> Across(0, <<"a", "last">>, Deleted(0, "b", 1))],
     [mode |-> 1, blocks |-> 2, ents |-> Full(0, <<"a", "b", "last", "d", "e">>)
                                        \cup Across(2, <<"c", "f">>, Deleted(2, "g", 3))],
     [mode |-> 1, blocks |-> 2, ents |-> Across(0, <<"a", "last">>, Deleted(0, "b", 9))
                                        \cup Full(2, <<"b", "c", "e", "d", "f">>)]}

\* Files of one block, with a hole, of all direct blocks (three of them, with an
\* indirect one behind), of two blocks, of none, and something that is not a regular file.
File(size, slot, reg) == [size |-> size, slot |-> slot, reg |-> reg]
MCInodes ==
    << File(7,  [n \in 0..3 |-> IF n = 0 THEN 7 ELSE 0], TRUE),
       File(13, [n \in 0..3 |-> IF n = 1 THEN 0 ELSE 9], TRUE),
       File(24, [n \in 0..3 |-> 3 + n], TRUE),
       File(13, [n \in 0..3 |-> IF n < 2 THEN 4 + n ELSE 0], TRUE),
       File(7,  [n \in 0..3 |-> IF n = 0 THEN 7 ELSE 0], FALSE),
       File(5,  [n \in 0..3 |-> 0], TRUE) >>
=============================================================================
