--------------------------------- MODULE Vfs ---------------------------------
(***************************************************************************)
(* The registry of file systems and the list of super blocks               *)
(* (src/fs/vfs/vfs.c); Ext2Mount mounts through it.                        *)
(*                                                                         *)
(* file_systems is a list linked through the callers' own structures.      *)
(* find_file_system compares only as many characters as the name looked    *)
(* for has, so that a name finds every type whose name begins with it.     *)
(* Names are told apart by that relation alone.                            *)
(***************************************************************************)
EXTENDS Integers, FiniteSets, Sequences

CONSTANTS
    FileSystems,    \* the file_system_type structures
    Null,
    NameOf,         \* structure -> its name
    EmptyName,
    ReaderOf,       \* structure -> the name its read_super looks up: "ext2" or "devfs"
    Begins,         \* pairs <<a, b>> of names such that b begins with a
    MaxSupers       \* bound on the list of super blocks

N == Cardinality(FileSystems)
Names == {NameOf[f] : f \in FileSystems}

ASSUME VfsAssumption ==
    /\ IsFiniteSet(FileSystems) /\ Null \notin FileSystems /\ MaxSupers \in Nat
    /\ DOMAIN NameOf = FileSystems /\ DOMAIN ReaderOf = FileSystems
    /\ \A a \in Names : <<a, a>> \in Begins
    /\ \A a, b, c \in Names :
         <<a, b>> \in Begins /\ <<b, c>> \in Begins => <<a, c>> \in Begins
    /\ \A a, b \in Names : <<a, b>> \in Begins /\ <<b, a>> \in Begins => a = b

VARIABLES
    file_systems,   \* the head of the list
    next,           \* structure -> its next field
    supers,         \* file system types of the super blocks, from sb_head on
    wild,           \* the last super block's next field is not 0
    halt            \* "no", "loop" (a walk that never ends), "not ext2" or "wild"
                    \*   (a pointer that was never set is followed)

vfsVars == <<file_systems, next, supers, wild, halt>>

\* The type in a super block that is neither 0 nor a structure.
Garbage == "garbage"

-----------------------------------------------------------------------------
\* The structures a walk meets, one more step than there are structures.
Walk(head, link) ==
    LET at[n \in 0..N] ==
          IF n = 0 THEN head ELSE IF at[n - 1] = Null THEN Null ELSE link[at[n - 1]]
    IN  at

Listed == {Walk(file_systems, next)[n] : n \in 0..N} \ {Null}
Ends == Walk(file_systems, next)[N] = Null

\* Where find_file_system stops; nowhere if it runs to the end or round a cycle.
Stops(head, link, name) ==
    {n \in 0..N : /\ name # EmptyName
                  /\ Walk(head, link)[n] # Null
                  /\ <<name, NameOf[Walk(head, link)[n]]>> \in Begins}

\* find_file_system, with its result followed.
FindIn(head, link, name) ==
    LET stops == Stops(head, link, name) IN
    IF stops = {} THEN Null
    ELSE Walk(head, link)[CHOOSE n \in stops : \A m \in stops : n <= m]

FindFileSystem(name) == FindIn(file_systems, next, name)
LoopsFor(name) == Stops(file_systems, next, name) = {} /\ ~Ends

\* Defect: the structure is linked in front.
LinkedInFront(fs) ==
    <<fs, IF file_systems = Null THEN next ELSE [next EXCEPT ![fs] = file_systems]>>

\* The list with fs at its end.
Linked(fs) ==
    IF file_systems = Null THEN <<fs, next>>
    ELSE <<file_systems,
           [next EXCEPT ![CHOOSE f \in Listed : next[f] = Null] = fs]>>

\* register_filesystem's two tests.
Accepts(fs) == next[fs] = Null /\ FindFileSystem(NameOf[fs]) = Null

AfterRegister(fs) == IF Accepts(fs) THEN Linked(fs) ELSE <<file_systems, next>>

SetList(list) == file_systems' = list[1] /\ next' = list[2]

VfsInit ==
    /\ file_systems = Null
    /\ next = [f \in FileSystems |-> Null]
    /\ supers = <<>> /\ wild = FALSE
    /\ halt = "no"

Register(fs) ==
    /\ halt = "no"
    /\ IF next[fs] = Null /\ LoopsFor(NameOf[fs])
       THEN halt' = "loop" /\ UNCHANGED <<file_systems, next>>
       ELSE /\ SetList(AfterRegister(fs))
            /\ UNCHANGED halt
    /\ UNCHANGED <<supers, wild>>

\* Defect: the next field keeps its value.
UnlinkedWithoutReset(fs) ==
    IF file_systems = fs THEN <<next[fs], next>>
    ELSE <<file_systems,
           [f \in FileSystems |-> IF f \in Listed /\ next[f] = fs THEN next[fs] ELSE next[f]]>>

\* The list without fs, whose next field is cleared.
Unlinked(fs) ==
    IF file_systems = fs THEN <<next[fs], [next EXCEPT ![fs] = Null]>>
    ELSE <<file_systems,
           [f \in FileSystems |-> IF f = fs THEN Null
                                  ELSE IF f \in Listed /\ next[f] = fs THEN next[fs]
                                  ELSE next[f]]>>

Unregister(fs) ==
    /\ halt = "no"
    /\ IF fs \in Listed THEN SetList(Unlinked(fs)) /\ UNCHANGED halt
       ELSE /\ halt' = IF Ends THEN "no" ELSE "loop"
            /\ UNCHANGED <<file_systems, next>>
    /\ UNCHANGED <<supers, wild>>

\* init_fs's new super block, which replaces the list, after read_super.  It comes
\* from kmalloc uncleared: read_super looks its type up only if it finds 0 there, and
\* nothing sets its next field.
NewSuper(fs, type, link) ==
    /\ supers' = <<IF type = Null THEN FindIn(file_systems', next', ReaderOf[fs]) ELSE type>>
    /\ wild' = link

\* add_sb: a super block of a registered type goes to the front.
AddSb(fs) ==
    /\ halt = "no" /\ Len(supers) < MaxSupers
    /\ fs \in Listed
    /\ supers' = <<fs>> \o supers
    /\ UNCHANGED <<file_systems, next, wild, halt>>

\* find_super_block: the position of the super block, 0 for NULL, -1 for whatever
\* the walk finds where the last next field leads.
FindSuperBlock(name) ==
    LET type == FindFileSystem(name)
        same == {n \in 1..Len(supers) : supers[n] = type}
    IN  IF type = Null THEN 0
        ELSE IF same = {} THEN IF wild THEN -1 ELSE 0
        ELSE CHOOSE n \in same : \A m \in same : n <= m

VfsStep == \E fs \in FileSystems : Register(fs) \/ Unregister(fs) \/ AddSb(fs)

-----------------------------------------------------------------------------
(* Properties.                                                             *)

\* The list ends, whatever is registered, registered again and unregistered, as
\* long as no type in it has an empty name: those are never found, so the last one
\* can be linked to itself.  A structure that is not in it can be registered.
ListEnds ==
    /\ (\A f \in Listed : NameOf[f] # EmptyName) => Ends /\ halt # "loop"
    /\ \A f \in FileSystems \ Listed : next[f] = Null

\* The name of a registered type finds that type and no longer one, though only
\* the beginning is compared: the shorter name can only be registered first.  And
\* it finds a super block of that type whenever there is one, wherever the list
\* goes on behind it.
FoundByName ==
    \A f \in Listed : NameOf[f] # EmptyName =>
        /\ FindFileSystem(NameOf[f]) = f
        /\ (\E n \in DOMAIN supers : supers[n] = f) =>
             /\ FindSuperBlock(NameOf[f]) \in DOMAIN supers
             /\ supers[FindSuperBlock(NameOf[f])] = f
=============================================================================
