--------------------------- MODULE ExtentAllocator --------------------------
(***************************************************************************)
(* What an allocator of address ranges promises: a range handed out lies   *)
(* in the memory and touches no range that is still out; ranges are given  *)
(* back one at a time, or all at once when the memory itself goes.         *)
(***************************************************************************)
EXTENDS Integers

CONSTANT total_size

VARIABLE live   \* the ranges handed out: [at, size]

Apart(p, q) == p.at + p.size <= q.at \/ q.at + q.size <= p.at

Init == live = {}

Alloc == \E p \in live' \ live :
           /\ live' = live \cup {p}
           /\ p.at >= 0 /\ p.at + p.size <= total_size
           /\ \A q \in live : Apart(p, q)

Free == \E p \in live : live' = live \ {p}

Clear == live' = {}

Next == Alloc \/ Free \/ Clear

Spec == Init /\ [][Next]_live

=============================================================================
