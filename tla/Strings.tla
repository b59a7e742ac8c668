------------------------------- MODULE Strings -------------------------------
(***************************************************************************)
(* The string and memory functions (src/common.c) on a memory m of bytes,  *)
(* address -> byte.  They copy and compare a byte at a time, upwards.      *)
(***************************************************************************)
EXTENDS Integers

Lowest(S) == CHOOSE i \in S : \A j \in S : i <= j

\* There is a 0 at a or behind it.
IsString(m, a) == \E b \in DOMAIN m : b >= a /\ m[b] = 0

strlen(m, a) == Lowest({b - a : b \in {c \in DOMAIN m : c >= a /\ m[c] = 0}})

\* The difference of the first two bytes that differ.
memcmp(m, a, b, n) ==
    LET differ == {i \in 0..(n - 1) : m[a + i] # m[b + i]}
    IN  IF differ = {} THEN 0 ELSE m[a + Lowest(differ)] - m[b + Lowest(differ)]

\* A char is signed.  A 0 does not end the comparison.
strncmp(m, a, b, n) ==
    LET differ == {i \in 0..(n - 1) : m[a + i] # m[b + i]}
        char(v) == IF v >= 128 THEN v - 256 ELSE v
    IN  IF differ = {} THEN 0
        ELSE char(m[a + Lowest(differ)]) - char(m[b + Lowest(differ)])

\* The loop runs while i is not 0, and it begins at 0.
strcmp(m, a, b) == 0

memset(m, dest, value, count) ==
    [b \in DOMAIN m |-> IF b \in dest..(dest + count - 1) THEN value ELSE m[b]]

\* Defect: the bytes are copied downwards.
memcpyDownwards(m, dest, src, count) ==
    LET copied[n \in 0..count] ==
          IF n = 0 THEN m
          ELSE [copied[n - 1] EXCEPT ![dest + count - n] = copied[n - 1][src + count - n]]
    IN  copied[count]

\* What the n-th copy reads may be what an earlier one wrote.
memcpy(m, dest, src, count) ==
    LET copied[n \in 0..count] ==
          IF n = 0 THEN m
          ELSE [copied[n - 1] EXCEPT ![dest + n - 1] = copied[n - 1][src + n - 1]]
    IN  copied[count]

\* By way of an array of n bytes on the stack.
memmove(m, dest, src, n) ==
    LET tmp == [i \in 0..(n - 1) |-> m[src + i]]
    IN  [b \in DOMAIN m |-> IF b \in dest..(dest + n - 1) THEN tmp[b - dest] ELSE m[b]]
=============================================================================
