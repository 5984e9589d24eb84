---------------------------- MODULE MemoryRegion ----------------------------
(***************************************************************************)
(* What an allocator of a contiguous region of physical memory promises,   *)
(* without chunks and lists: every allocation lies inside the region, no   *)
(* two share a byte of memory or of the caller's address space, and an     *)
(* allocation goes away as it came.                                        *)
(***************************************************************************)
EXTENDS Integers

CONSTANTS First, Size   \* the region's first address and its size

VARIABLE allocated      \* the allocations: records of virt, phys and size

Inside(r) == r.size > 0 /\ First <= r.phys /\ r.phys + r.size <= First + Size

Apart(a, b, n, m) == a + n <= b \/ b + m <= a

Disjoint(r, s) ==
    /\ Apart(r.phys, s.phys, r.size, s.size)
    /\ Apart(r.virt, s.virt, r.size, s.size)

Allocate(r) ==
    /\ Inside(r)
    /\ \A s \in allocated : Disjoint(r, s)
    /\ allocated' = allocated \cup {r}

Release(r) ==
    /\ r \in allocated
    /\ allocated' = allocated \ {r}

Init == allocated = {}

Next == \/ \E r \in allocated' : Allocate(r)
        \/ \E r \in allocated : Release(r)

Spec == Init /\ [][Next]_allocated

=============================================================================
