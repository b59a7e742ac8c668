------------------------------ MODULE Allocator ------------------------------
(***************************************************************************)
(* What a caller of kmalloc and kfree relies on (src/mm/heap.c), with no   *)
(* blocks and no lists: regions of one address range are handed out and    *)
(* returned, and a region handed out overlaps none that is still held.     *)
(***************************************************************************)
EXTENDS Integers

CONSTANTS Lo, Hi        \* the address range managed

VARIABLES
    owned,              \* regions callers hold: [ptr, size]
    stopped             \* the kernel has halted

vars == <<owned, stopped>>

Region == [ptr : Lo..Hi, size : 0..(Hi - Lo)]

Apart(r, s) == r.ptr + r.size <= s.ptr \/ s.ptr + s.size <= r.ptr

Init == owned = {} /\ stopped = FALSE

\* A region inside the range, apart from all that are held, is handed out.
Allocate(r) ==
    /\ ~stopped
    /\ r.ptr + r.size <= Hi
    /\ \A s \in owned : r.ptr # s.ptr /\ Apart(r, s)
    /\ owned' = owned \cup {r}
    /\ UNCHANGED stopped

Release(r) ==
    /\ ~stopped
    /\ owned' = owned \ {r}
    /\ UNCHANGED stopped

\* The heap is exhausted and the kernel panics.
Stop == ~stopped /\ stopped' = TRUE /\ UNCHANGED owned

Next ==
    \/ \E r \in owned' \ owned : r \in Region /\ Allocate(r)
    \/ \E r \in owned : Release(r)
    \/ Stop

Spec == Init /\ [][Next]_vars
=============================================================================
