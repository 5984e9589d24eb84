------------------------------- MODULE VeAlloc -------------------------------
(***************************************************************************)
(* The allocator of the video engine's reserved memory (ve.c): a singly    *)
(* linked list of chunks that ve_malloc splits and ve_free coalesces, and  *)
(* the translation ve_virt2phys reads off it.                              *)
(*                                                                         *)
(* A chunk is named by its physical address, which never changes while it  *)
(* is on the list.  ve_malloc is one step; the loop of ve_free is one step *)
(* per merge or advance.  The rwlock is commented out in the code: calls   *)
(* do not overlap (Supervisor's NoUseAfterTeardown is why they need not).  *)
(* A ve_malloc that finds no chunk, or whose mmap fails, changes nothing.  *)
(***************************************************************************)
EXTENDS Integers

CONSTANTS
    PAGE_SIZE,
    PhysBase,      \* first_memchunk.phys_addr
    RegionSize,    \* reserved_mem_size
    Sizes,         \* sizes callers ask for
    VirtAddrs      \* addresses mmap may return

ASSUME VeAllocAssumption ==
    /\ PAGE_SIZE \in Nat \ {0} /\ PhysBase \in Nat \ {0}
    /\ RegionSize \in Nat \ {0}
    /\ Sizes \subseteq Nat \ {0} /\ VirtAddrs \subseteq Nat \ {0}

NULL == 0
RegionEnd == PhysBase + RegionSize
Addr == PhysBase..(RegionEnd - 1)

VARIABLES
    chunks,       \* phys_addr of the chunks on the list
    size,         \* fields of the chunk at each address
    virt_addr,
    next,
    mapped,       \* the mappings the process has (external): virt, phys, size
    free_pc,      \* "idle", or "merge" while ve_free coalesces
    c             \* ve_free's cursor

listVars == <<chunks, size, virt_addr, next>>
vars == <<listVars, mapped, free_pc, c>>

Free(n) == virt_addr[n] = NULL

-----------------------------------------------------------------------------
(* ve_malloc. *)

(* (size + PAGE_SIZE - 1) & ~(PAGE_SIZE - 1), PAGE_SIZE being a power of two. *)
PageAlign(s) == ((s + PAGE_SIZE - 1) \div PAGE_SIZE) * PAGE_SIZE

(* Fault form: a chunk in use is taken too. *)
Fits_InUse(n, s) == size[n] >= s

Fits(n, s) == Free(n) /\ size[n] >= s

(* The smallest chunk that fits, the first of several; an exact fit ends the
   search. *)
Best(n, s) ==
    /\ Fits(n, s)
    /\ \A m \in chunks : Fits(m, s) =>
          size[n] < size[m] \/ (size[n] = size[m] /\ n <= m)

Apart(a, b, n, m) == a + n <= b \/ b + m <= a

(* mmap (external) returns an address range that is not in use. *)
Unused(v, s) == \A r \in mapped : Apart(v, r.virt, s, r.size)

(* Fault form: the rest is made a chunk even when nothing is left. *)
Take_AlwaysSplits(n, s, v) ==
    /\ chunks' = chunks \cup {n + s}
    /\ size' = [size EXCEPT ![n] = s, ![n + s] = size[n] - s]
    /\ virt_addr' = [virt_addr EXCEPT ![n] = v, ![n + s] = NULL]
    /\ next' = [next EXCEPT ![n] = n + s, ![n + s] = next[n]]

(* What is left of the chunk becomes a free chunk behind it. *)
Take(n, s, v) ==
    IF size[n] > s
    THEN /\ chunks' = chunks \cup {n + s}
         /\ size' = [size EXCEPT ![n] = s, ![n + s] = size[n] - s]
         /\ virt_addr' = [virt_addr EXCEPT ![n] = v, ![n + s] = NULL]
         /\ next' = [next EXCEPT ![n] = n + s, ![n + s] = next[n]]
    ELSE /\ virt_addr' = [virt_addr EXCEPT ![n] = v]
         /\ UNCHANGED <<chunks, size, next>>

ve_malloc(request) ==
    LET s == PageAlign(request) IN
    /\ free_pc = "idle"
    /\ \E n \in chunks, v \in VirtAddrs :
          /\ Best(n, s)
          /\ Unused(v, s)
          /\ Take(n, s, v)
          /\ mapped' = mapped \cup {[virt |-> v, phys |-> n, size |-> s]}
    /\ UNCHANGED <<free_pc, c>>

-----------------------------------------------------------------------------
(* ve_free. *)

(* The chunk is unmapped; munmap (external) takes away every mapping in the range. *)
Unmap(n) ==
    /\ free_pc = "idle"
    /\ ~Free(n)
    /\ mapped' = {r \in mapped : Apart(virt_addr[n], r.virt, size[n], r.size)}
    /\ virt_addr' = [virt_addr EXCEPT ![n] = NULL]
    /\ free_pc' = "merge"
    /\ c' = PhysBase
    /\ UNCHANGED <<chunks, size, next>>

MergesNext(n) == Free(n) /\ next[n] # NULL /\ Free(next[n])

(* Fault form: the size of the chunk swallowed is not added. *)
Merge_KeepsSize ==
    /\ free_pc = "merge" /\ MergesNext(c)
    /\ next' = [next EXCEPT ![c] = next[next[c]]]
    /\ chunks' = chunks \ {next[c]}
    /\ UNCHANGED <<size, virt_addr, mapped, free_pc, c>>

(* Fault form: an if in place of the while, one merge a chunk. *)
Merge_Once ==
    /\ free_pc = "merge" /\ MergesNext(c)
    /\ size' = [size EXCEPT ![c] = size[c] + size[next[c]]]
    /\ next' = [next EXCEPT ![c] = next[next[c]]]
    /\ chunks' = chunks \ {next[c]}
    /\ c' = next'[c]
    /\ free_pc' = IF c' = NULL THEN "idle" ELSE "merge"
    /\ UNCHANGED <<virt_addr, mapped>>

(* The chunk at the cursor swallows the free one behind it, which is freed. *)
Merge ==
    /\ free_pc = "merge" /\ MergesNext(c)
    /\ size' = [size EXCEPT ![c] = size[c] + size[next[c]]]
    /\ next' = [next EXCEPT ![c] = next[next[c]]]
    /\ chunks' = chunks \ {next[c]}
    /\ UNCHANGED <<virt_addr, mapped, free_pc, c>>

Advance ==
    /\ free_pc = "merge" /\ ~MergesNext(c)
    /\ c' = next[c]
    /\ free_pc' = IF next[c] = NULL THEN "idle" ELSE "merge"
    /\ UNCHANGED <<listVars, mapped>>

-----------------------------------------------------------------------------
(* ve_virt2phys. *)

(* Fault form: the byte behind a chunk counts as its own. *)
Covers_OneMore(n, p) ==
    ~Free(n) /\ virt_addr[n] <= p /\ p <= virt_addr[n] + size[n]

Covers(n, p) == ~Free(n) /\ virt_addr[n] <= p /\ p < virt_addr[n] + size[n]

Covering(p) == {n \in chunks : Covers(n, p)}
FirstCovering(p) == CHOOSE n \in Covering(p) : \A m \in Covering(p) : n <= m

(* The first chunk that covers the pointer tells; 0 for a pointer of no chunk. *)
ve_virt2phys(p) ==
    IF Covering(p) = {} THEN 0
    ELSE FirstCovering(p) + (p - virt_addr[FirstCovering(p)])

-----------------------------------------------------------------------------
Init ==
    /\ chunks = {PhysBase}
    /\ size = [a \in Addr |-> IF a = PhysBase THEN RegionSize ELSE 0]
    /\ virt_addr = [a \in Addr |-> NULL]
    /\ next = [a \in Addr |-> NULL]
    /\ mapped = {}
    /\ free_pc = "idle"
    /\ c = PhysBase

Next ==
    \/ \E request \in Sizes : ve_malloc(request)
    \/ \E n \in chunks : Unmap(n)
    \/ Merge \/ Advance

Spec == Init /\ [][Next]_vars

-----------------------------------------------------------------------------
(* Type invariant: no chunk is made outside the region (ve.c:235-246). *)
TypeOK ==
    /\ chunks \subseteq Addr
    /\ size \in [Addr -> Nat]
    /\ virt_addr \in [Addr -> VirtAddrs \cup {NULL}]
    /\ next \in [Addr -> Addr \cup {NULL}]
    /\ mapped \subseteq [virt : VirtAddrs, phys : Addr, size : Nat]
    /\ free_pc \in {"idle", "merge"}
    /\ c \in Addr \cup {NULL}
    /\ free_pc = "merge" => c \in chunks

(* The chunks tile the region: each ends where the next on the list begins, the
   last where the region ends, so that no byte is lost or in two chunks, also
   between the merges of a ve_free (ve.c:235-246, 276-286). *)
ChunksTile ==
    /\ PhysBase \in chunks
    /\ \A n \in chunks :
          /\ size[n] > 0
          /\ IF n + size[n] = RegionEnd THEN next[n] = NULL
             ELSE next[n] = n + size[n] /\ next[n] \in chunks
          /\ \A m \in chunks : n < m => n + size[n] <= m

(* No memory is stranded: between calls two free chunks are never neighbours, so
   a request is refused only when no gap is large enough (ve.c:276-286). *)
NothingStranded == free_pc = "idle" => \A n \in chunks : ~MergesNext(n)

(* The engine and the process mean the same byte: inside a mapping ve_virt2phys
   gives the address it is mapped to, outside of all mappings 0 (ve.c:293-324). *)
TranslationExact ==
    /\ \A r \in mapped : \A offset \in 0..(r.size - 1) :
          ve_virt2phys(r.virt + offset) = r.phys + offset
    /\ \A p \in VirtAddrs :
          (\A r \in mapped : p < r.virt \/ p >= r.virt + r.size) => ve_virt2phys(p) = 0

(* The list implements the region of memory. *)
Region == INSTANCE MemoryRegion WITH
    First <- PhysBase, Size <- RegionSize, allocated <- mapped

(* Allocations are disjoint, in memory and in the address space, stay as they are
   until they are freed and are unmapped whole (ve.c:186-291). *)
ImplementsRegion == Region!Spec

=============================================================================
