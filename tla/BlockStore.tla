----------------------------- MODULE BlockStore ------------------------------
(***************************************************************************)
(* What callers of get_block and put_block rely on (src/fs/devfs/buffer.c),*)
(* with no buffers and no disk: a store of blocks.  A caller that opens a  *)
(* block has its contents before it, and what it writes is in the store.   *)
(***************************************************************************)
CONSTANTS Blocks, Values, Holders

VARIABLES
    store,              \* block -> value
    view                \* holder -> the block it has open and what it sees there

vars == <<store, view>>

Closed == <<>>

Init == store \in [Blocks -> Values] /\ view = [h \in Holders |-> Closed]

Open(h, b) ==
    /\ view[h] = Closed
    /\ view' = [view EXCEPT ![h] = <<b, store[b]>>]
    /\ UNCHANGED store

\* Everyone who has the block open sees what is written.
Write(h, v) ==
    /\ view[h] # Closed
    /\ store' = [store EXCEPT ![view[h][1]] = v]
    /\ view' = [g \in Holders |-> IF view[g] # Closed /\ view[g][1] = view[h][1]
                                  THEN <<view[g][1], v>> ELSE view[g]]

Close(h) ==
    /\ view[h] # Closed
    /\ view' = [view EXCEPT ![h] = Closed]
    /\ UNCHANGED store

Next ==
    \E h \in Holders :
      \/ \E b \in Blocks : Open(h, b)
      \/ \E v \in Values : Write(h, v)
      \/ Close(h)

Spec == Init /\ [][Next]_vars
=============================================================================
