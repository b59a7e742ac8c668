------------------------------ MODULE Kthreads ------------------------------
(***************************************************************************)
(* Kernel threads: src/task.c and src/switch.s on top of the page table,   *)
(* with the boot sequence of kernel_main (src/kernel.c) that maps the heap *)
(* and then creates, joins and frees threads.                              *)
(*                                                                         *)
(* Thread 0 is main_thread; the others are kthread_t structs that          *)
(* kernel_main takes from kmalloc, named by their place in the heap.  Once *)
(* a struct was joined its memory is freed, so what kmalloc returns for    *)
(* the next one may be that place or another.  The switch is cooperative:  *)
(* threads run test(), which only calls preempt, and kernel_main gives up  *)
(* the processor only inside kthread_create.                               *)
(*                                                                         *)
(* The translation cache is modelled for stack pages, because kfree_page   *)
(* does not invalidate it and switch_task uses the new stack before it     *)
(* reloads CR3.                                                            *)
(***************************************************************************)
EXTENDS Paging, FiniteSets

CONSTANTS
    MaxThreads,     \* places in the heap for kthread_t structs (bound)
    HeapPages       \* pages that kernel_main may map for the heap (15): with several
                    \*   numbers, stacks begin anywhere in a word of frame_map

\* None is also the NULL of a next field: it is neither a page nor a thread.
ASSUME KthreadsAssumption ==
    MaxThreads \in Nat \ {0} /\ HeapPages \subseteq Nat /\ None \notin Nat

VARIABLES
    heap_pages,     \* pages kernel_main maps for the heap
    booted,         \* heap pages mapped so far
    live,           \* structs handed to kthread_create and not yet joined
    next,           \* the next field of each struct
    last_thread,
    running_thread,
    stack,          \* virtual_addr of each struct
    tlb,            \* page -> frame, for the stack page used since CR3 was loaded
    pushed,         \* the frame switch_task's first push on a new stack went to
    dead,           \* "no", or how the thread code stopped the kernel
    ran,            \* history: threads that ran since main_thread last did
    overlapped,     \* history: a thread was joined while another was live
    strayed         \* history: a thread was created in another struct than the joined
                    \*   one that last_thread still pointed to

threadVars == <<live, next, last_thread, running_thread, stack, tlb, pushed,
                dead, ran, overlapped, strayed>>
vars == <<pagingVars, threadVars, booted, heap_pages>>

Main == 0
Slots == 1..MaxThreads
Threads == {Main} \cup Slots

Up == halt = "no" /\ dead = "no"

-----------------------------------------------------------------------------
Init ==
    /\ PagingInit
    /\ heap_pages \in HeapPages /\ booted = 0
    /\ live = {}
    /\ next = [t \in Threads |-> None]          \* init_tasking
    /\ last_thread = Main
    /\ running_thread = Main
    /\ stack = [t \in Slots |-> None]
    /\ tlb = [p \in Pages |-> None]
    /\ pushed = None
    /\ dead = "no"
    /\ ran = {}
    /\ overlapped = FALSE /\ strayed = FALSE

\* kernel_main maps the heap: it keeps the first address kalloc_page returns and
\* takes the following ones to be consecutive.
BootPage ==
    /\ Up
    /\ booted < heap_pages
    /\ KallocPage
    /\ booted' = booted + 1
    /\ UNCHANGED <<threadVars, heap_pages>>

\* Frame f, if any, is the memory of a page other than p.
MappedElsewhere(f, p) == \E q \in Pages \ {p} : f # None /\ pt_entry'[q] = f

\* Defect: CR3 is not reloaded.
SwitchKeepingTlb(to) ==
    LET p == IF to \in Slots THEN stack'[to] ELSE None
        frame == IF p = None THEN None
                 ELSE IF tlb[p] # None THEN tlb[p] ELSE pt_entry'[p]
    IN  /\ running_thread' = to
        /\ pushed' = frame
        /\ ran' = IF running_thread = Main THEN {to} ELSE ran \cup {to}
        /\ dead' = IF to = None \/ (p # None /\ frame = None) THEN "fault"
                   ELSE IF to \in live' \cup {Main} /\ ~MappedElsewhere(frame, p)
                   THEN "no" ELSE "corrupt"
        /\ tlb' = IF p = None THEN tlb ELSE [tlb EXCEPT ![p] = frame]

\* switch_task to thread `to' (NULL if the list ended): push on its stack with
\* the translations cached so far, then reload CR3, which empties the cache, and
\* go on running on that stack.  The push overwrites the memory of another page
\* if that one has the same frame, and a thread that was joined, whose stack page
\* belongs to another by now, returns through memory that is not its own.
SwitchTask(to) ==
    LET p == IF to \in Slots THEN stack'[to] ELSE None
        frame == IF p = None THEN None
                 ELSE IF tlb[p] # None THEN tlb[p] ELSE pt_entry'[p]
    IN  /\ running_thread' = to
        /\ pushed' = frame
        /\ ran' = IF running_thread = Main THEN {to} ELSE ran \cup {to}
        /\ dead' = IF to = None \/ (p # None /\ frame = None) THEN "fault"
                   ELSE IF to \in live' \cup {Main} /\ ~MappedElsewhere(frame, p)
                   THEN "no" ELSE "corrupt"
        /\ tlb' = [q \in Pages |-> IF q = p THEN pt_entry'[q] ELSE None]

\* Defect: the test for the end of the list is missing.
SuccessorUnchecked(r, nx, last) == nx[r]

\* Defect: at the end of the list the walk starts over behind main_thread.
SuccessorSkippingMain(r, nx, last) == IF r = last THEN nx[Main] ELSE nx[r]

\* The thread preempt picks, given the list it finds.
Successor(r, nx, last) == IF r = last THEN Main ELSE nx[r]

\* A thread other than main_thread calls preempt (test in kernel.c).
Preempt ==
    /\ Up
    /\ running_thread # Main
    /\ UNCHANGED <<pagingVars, booted, heap_pages, live, next, last_thread, stack,
                   overlapped, strayed>>
    /\ SwitchTask(Successor(running_thread, next, last_thread))

\* Defect: the new thread is linked behind main_thread, last_thread stays.
LinkAtHead(t) ==
    /\ next' = [next EXCEPT ![t] = next[Main], ![Main] = t]
    /\ UNCHANGED last_thread

\* The new struct is linked behind last_thread, which may have been joined and freed.
\* The struct's own next field is reset first, so a struct that is still last_thread
\* ends up linked to itself.
LinkAtEnd(t) ==
    /\ next' = [[next EXCEPT ![t] = None] EXCEPT ![last_thread] = t]
    /\ last_thread' = t

\* kthread_create of any struct that kmalloc may return, called by kernel_main.
KthreadCreate(t) ==
    /\ Up
    /\ booted = heap_pages
    /\ running_thread = Main
    /\ t \notin live
    /\ KallocPage
    /\ UNCHANGED <<booted, heap_pages, overlapped>>
    /\ \/ /\ halt' # "no"
          /\ UNCHANGED threadVars
       \/ /\ halt' = "no"
          /\ stack' = [stack EXCEPT ![t] = next_free_page]
          /\ live' = live \cup {t}
          /\ LinkAtEnd(t)
          /\ strayed' = (strayed \/ last_thread \notin live \cup {Main, t})
          /\ SwitchTask(Successor(Main, next', last_thread'))

\* The list after kthread_join's loop.  If the struct follows main_thread the
\* body never runs and it stays on the list.  Otherwise the first pass links
\* main_thread to thread->next and goes there: NULL is dereferenced, or the loop
\* ends because that struct points back, or it links that struct to itself and
\* never ends.
JoinLoop(t) ==
    LET after == next[t]
        first == [next EXCEPT ![Main] = after]
        spins == after # None /\ first[after] # t
    IN  \/ /\ next[Main] = t
           /\ dead' = "no"
           /\ UNCHANGED <<next, last_thread>>
        \/ /\ next[Main] # t
           /\ next' = IF spins THEN [first EXCEPT ![after] = after] ELSE first
           /\ last_thread' = IF spins THEN after ELSE Main
           /\ dead' = IF spins THEN "hang" ELSE IF after = None THEN "fault" ELSE "no"

\* kthread_join, then kfree of the struct, called by kernel_main.
KthreadJoin(t) ==
    /\ Up
    /\ booted = heap_pages
    /\ running_thread = Main
    /\ t \in live
    /\ JoinLoop(t)
    /\ \/ /\ dead' # "no"
          /\ UNCHANGED <<pagingVars, live>>
       \/ /\ dead' = "no"
          /\ KfreePage(stack[t])
          /\ live' = live \ {t}
    /\ overlapped' = (overlapped \/ live # {t})
    /\ UNCHANGED <<booted, heap_pages, running_thread, stack, tlb, pushed, ran, strayed>>

Next ==
    \/ BootPage
    \/ Preempt
    \/ \E t \in Slots : KthreadCreate(t) \/ KthreadJoin(t)

Spec == Init /\ [][Next]_vars

\* test() never stops calling preempt, and nothing else takes the processor
\* from it; kernel_main is free to do nothing.
FairSpec == Spec /\ WF_vars(Preempt)

-----------------------------------------------------------------------------
(* Properties.                                                             *)

\* The heap pages kernel_main mapped at boot are consecutive and stay mapped
\* (kheap_init got the whole range), and every live thread has a stack page behind
\* them that is mapped and its own, whatever was created, joined and freed.
PagesApart ==
    halt = "no" =>
      /\ \A i \in 0..(booted - 1) : Present(KernelFrames + i)
      /\ \A t \in live : /\ stack[t] # None
                         /\ Present(stack[t])
                         /\ stack[t] >= KernelFrames + heap_pages
      /\ \A t, u \in live : t # u => stack[t] # stack[u]

\* A live thread's stack is in a frame that kalloc_frame has given out twice.
StackFrameShared ==
    \E t \in live, q \in Pages : q # stack[t] /\ pt_entry[q] = pt_entry[stack[t]]

\* As long as threads are joined one at a time: if every thread created after a join is
\* in the struct that was joined, and stacks have frames of their own, preempt hands the
\* processor only to live threads, and joining and creating never stop the kernel.  With
\* another struct they always do: kthread_join leaves the joined one behind main_thread
\* (its loop does not run), the new one is linked behind it, and preempt goes to a thread
\* whose memory and stack were freed.
OnlyLiveThreadsRun ==
    halt = "no" /\ ~overlapped =>
        /\ strayed => dead # "no"
        /\ ~strayed /\ ~StackFrameShared =>
              dead = "no" /\ running_thread \in live \cup {Main}

\* As long as threads are joined one at a time, every live thread has had a turn
\* when main_thread gets its next one.
RoundRobin ==
    halt = "no" /\ ~overlapped /\ running_thread = Main => live \subseteq ran

\* switch_task pushes on the new stack before it reloads CR3, and kfree_page
\* leaves the cached translation of a freed page: the push still goes to the
\* frame the page table names.
PushReachesStack ==
    halt = "no" /\ running_thread \in live => pushed = pt_entry[stack[running_thread]]

\* The processor always comes back to main_thread, unless the kernel stops.
MainRunsAgain == [](running_thread # Main => <>(running_thread = Main \/ ~Up))
=============================================================================
