--------------------------- MODULE VeAllocProofs ---------------------------
(***************************************************************************)
(* The allocator of ve.c for a region of any size, any page size and any   *)
(* sequence of calls.  The inductive invariant is IInv: the chunks tile    *)
(* the region, the mappings are those of the chunks in use, and behind the *)
(* cursor of ve_free nothing is left to merge.                             *)
(***************************************************************************)
EXTENDS VeAlloc, TLAPS

Mapping(n) == [virt |-> virt_addr[n], phys |-> n, size |-> size[n]]

(* The mappings are those of the chunks in use, and share no address. *)
Mappings ==
    /\ \A r \in mapped : r.phys \in chunks /\ ~Free(r.phys) /\ r = Mapping(r.phys)
    /\ \A n \in chunks : ~Free(n) => Mapping(n) \in mapped
    /\ \A r, s \in mapped : r.phys # s.phys => Apart(r.virt, s.virt, r.size, s.size)

(* Behind the cursor, and everywhere between calls, no free chunks are neighbours. *)
Coalesced ==
    \A n \in chunks : free_pc = "idle" \/ n < c => ~MergesNext(n)

IInv == TypeOK /\ ChunksTile /\ Mappings /\ Coalesced

(* ve_malloc never asks for nothing. *)
LEMMA PageAlignPositive ==
    ASSUME NEW request \in Sizes PROVE PageAlign(request) \in Nat \ {0}
<1> DEFINE q == (request + PAGE_SIZE - 1) \div PAGE_SIZE
<1>1. PAGE_SIZE \in Nat /\ PAGE_SIZE > 0 /\ request \in Nat /\ request > 0
  BY VeAllocAssumption
<1>2. q \in Int /\ q >= 1
  BY <1>1
<1> HIDE DEF q
<1>3. q * PAGE_SIZE \in Nat /\ q * PAGE_SIZE > 0
  BY <1>1, <1>2
<1> QED
  BY <1>3 DEF PageAlign, q

(* The region begins as one free chunk. *)
LEMMA IInvInit == Init => IInv
<1> SUFFICES ASSUME Init PROVE IInv
  OBVIOUS
<1>1. PhysBase \in Addr
  BY VeAllocAssumption DEF Addr, RegionEnd
<1>2. TypeOK
  BY <1>1, VeAllocAssumption DEF Init, TypeOK, Addr, RegionEnd
<1>3. ChunksTile /\ Mappings /\ Coalesced
  BY <1>1, VeAllocAssumption
  DEF Init, ChunksTile, Mappings, Coalesced, MergesNext, Free, RegionEnd
<1> QED
  BY <1>2, <1>3 DEF IInv

(* The facts about the chunks that every step uses. *)
LEMMA ChunkFacts ==
    ASSUME IInv
    PROVE  /\ PhysBase \in Nat /\ PhysBase > 0 /\ RegionEnd \in Nat
           /\ \A n \in chunks : /\ n \in Nat /\ n >= PhysBase /\ n < RegionEnd
                                /\ size[n] \in Nat /\ size[n] > 0
                                /\ n + size[n] <= RegionEnd
                                /\ next[n] = NULL \/ next[n] \in chunks
                                /\ next[n] # NULL => next[n] = n + size[n]
                                /\ next[n] = NULL => n + size[n] = RegionEnd
                                /\ virt_addr[n] \in Nat
<1> SUFFICES ASSUME NEW n \in chunks
             PROVE  /\ n \in Nat /\ n >= PhysBase /\ n < RegionEnd
                    /\ size[n] \in Nat /\ size[n] > 0
                    /\ n + size[n] <= RegionEnd
                    /\ next[n] = NULL \/ next[n] \in chunks
                    /\ next[n] # NULL => next[n] = n + size[n]
                    /\ next[n] = NULL => n + size[n] = RegionEnd
                    /\ virt_addr[n] \in Nat
  BY VeAllocAssumption DEF RegionEnd
<1>0. n \in Addr /\ size[n] \in Nat /\ virt_addr[n] \in VirtAddrs \cup {NULL}
  BY DEF IInv, TypeOK
<1>1. n \in Nat /\ n >= PhysBase /\ n < RegionEnd /\ size[n] \in Nat /\ virt_addr[n] \in Nat
  <2>1. n \in Nat /\ n >= PhysBase /\ n < RegionEnd
    BY <1>0, VeAllocAssumption DEF Addr, RegionEnd
  <2>2. VirtAddrs \cup {NULL} \subseteq Nat
    BY VeAllocAssumption DEF NULL
  <2> QED
    BY <1>0, <2>1, <2>2
<1>2. /\ size[n] > 0
      /\ IF n + size[n] = RegionEnd THEN next[n] = NULL
         ELSE next[n] = n + size[n] /\ next[n] \in chunks
  BY DEF IInv, ChunksTile
<1>3. n + size[n] # RegionEnd => n + size[n] < RegionEnd
  <2>1. n + size[n] # RegionEnd => n + size[n] \in Addr
    BY <1>2 DEF IInv, TypeOK
  <2> QED
    BY <2>1, <1>1, VeAllocAssumption DEF Addr, RegionEnd
<1> QED
  BY <1>1, <1>2, <1>3, VeAllocAssumption DEF NULL, RegionEnd

(* A chunk that ve_malloc takes as it is. *)
LEMMA TakeWhole ==
    ASSUME IInv, NEW n \in chunks, NEW s \in Nat \ {0}, NEW v \in VirtAddrs,
           free_pc = "idle", Best(n, s), Unused(v, s), Take(n, s, v), ~(size[n] > s),
           mapped' = mapped \cup {[virt |-> v, phys |-> n, size |-> s]},
           UNCHANGED <<free_pc, c>>
    PROVE  IInv'
<1> USE ChunkFacts
<1>1. size[n] = s /\ Free(n) /\ v \in Nat /\ v # NULL /\ n \in Addr
  BY VeAllocAssumption DEF Best, Fits, NULL, IInv, TypeOK
<1>2. UNCHANGED <<chunks, size, next>> /\ virt_addr' = [virt_addr EXCEPT ![n] = v]
  BY DEF Take
<1>3. /\ virt_addr'[n] = v
      /\ \A k \in Addr \ {n} : virt_addr'[k] = virt_addr[k]
  BY <1>1, <1>2 DEF IInv, TypeOK
<1>4. TypeOK'
  BY <1>1, <1>2 DEF IInv, TypeOK
<1>5. ChunksTile'
  BY <1>2 DEF IInv, ChunksTile
<1>6. Mappings'
  <2>1. \A r \in mapped : r.phys \in chunks /\ r.phys # n /\ r = Mapping(r.phys)
    BY <1>1 DEF IInv, Mappings
  <2>2. \A k \in chunks \ {n} : Mapping(k)' = Mapping(k) /\ (Free(k)' <=> Free(k))
    BY <1>2, <1>3 DEF Mapping, Free, IInv, TypeOK
  <2>3. Mapping(n)' = [virt |-> v, phys |-> n, size |-> s] /\ ~Free(n)'
    BY <1>1, <1>2, <1>3 DEF Mapping, Free
  <2>4. \A r \in mapped : Apart(v, r.virt, s, r.size) /\ Apart(r.virt, v, r.size, s)
    BY DEF Unused, Apart
  <2>5. (\A r \in mapped : r.phys \in chunks /\ ~Free(r.phys) /\ r = Mapping(r.phys))'
    BY <1>2, <2>1, <2>2, <2>3 DEF IInv, Mappings
  <2>6. (\A k \in chunks : ~Free(k) => Mapping(k) \in mapped)'
    BY <1>2, <2>2, <2>3 DEF IInv, Mappings
  <2>7. (\A r, t \in mapped : r.phys # t.phys => Apart(r.virt, t.virt, r.size, t.size))'
    BY <2>4 DEF IInv, Mappings, Apart
  <2> QED
    BY <2>5, <2>6, <2>7 DEF Mappings
<1>7. Coalesced'
  <2>1. \A k \in chunks : MergesNext(k)' => MergesNext(k)
    BY <1>1, <1>2, <1>3 DEF MergesNext, Free, IInv, TypeOK
  <2> QED
    BY <1>2, <2>1 DEF IInv, Coalesced
<1> QED
  BY <1>4, <1>5, <1>6, <1>7 DEF IInv

(* A chunk that ve_malloc splits. *)
LEMMA TakePart ==
    ASSUME IInv, NEW n \in chunks, NEW s \in Nat \ {0}, NEW v \in VirtAddrs,
           free_pc = "idle", Best(n, s), Unused(v, s), Take(n, s, v), size[n] > s,
           mapped' = mapped \cup {[virt |-> v, phys |-> n, size |-> s]},
           UNCHANGED <<free_pc, c>>
    PROVE  IInv'
<1> USE ChunkFacts
<1> DEFINE m == n + s
<1>1. Free(n) /\ v \in Nat /\ v # NULL /\ n \in Addr /\ chunks \subseteq Addr
  BY VeAllocAssumption DEF Best, Fits, NULL, IInv, TypeOK
<1>2. m \in Nat /\ n < m /\ m < n + size[n] /\ m < RegionEnd /\ m \in Addr /\ m # NULL
  BY <1>1 DEF Addr, NULL
<1>3. m \notin chunks
  BY <1>2 DEF IInv, ChunksTile
<1>4. /\ chunks' = chunks \cup {m}
      /\ size' = [size EXCEPT ![n] = s, ![m] = size[n] - s]
      /\ virt_addr' = [virt_addr EXCEPT ![n] = v, ![m] = NULL]
      /\ next' = [next EXCEPT ![n] = m, ![m] = next[n]]
  BY DEF Take
<1> HIDE DEF m
<1>5. /\ size'[n] = s /\ size'[m] = size[n] - s
      /\ \A k \in Addr \ {n, m} : size'[k] = size[k]
  BY <1>1, <1>2, <1>4 DEF IInv, TypeOK
<1>6. /\ virt_addr'[n] = v /\ virt_addr'[m] = NULL
      /\ \A k \in Addr \ {n, m} : virt_addr'[k] = virt_addr[k]
  BY <1>1, <1>2, <1>4 DEF IInv, TypeOK
<1>7. /\ next'[n] = m /\ next'[m] = next[n]
      /\ \A k \in Addr \ {n, m} : next'[k] = next[k]
  BY <1>1, <1>2, <1>4 DEF IInv, TypeOK
<1>8. TypeOK'
  <2>1. size[n] - s \in Nat
    BY <1>1
  <2>2. size' \in [Addr -> Nat]
    BY <1>1, <1>2, <1>4, <2>1 DEF IInv, TypeOK
  <2>3. virt_addr' \in [Addr -> VirtAddrs \cup {NULL}]
    BY <1>1, <1>2, <1>4 DEF IInv, TypeOK
  <2>4. next' \in [Addr -> Addr \cup {NULL}]
    BY <1>1, <1>2, <1>4 DEF IInv, TypeOK
  <2> QED
    BY <1>1, <1>2, <1>4, <2>2, <2>3, <2>4 DEF IInv, TypeOK
<1>9. ChunksTile'
  <2>1. \A k \in chunks \ {n} : k \in Addr \ {n, m}
    BY <1>1, <1>3
  <2>2. \A k \in chunks : k < n => k + size[k] <= n
    BY DEF IInv, ChunksTile
  <2>3. \A k \in chunks : n < k => n + size[n] <= k
    BY DEF IInv, ChunksTile
  <2>4. SUFFICES ASSUME NEW k \in chunks'
                 PROVE  /\ size'[k] > 0
                        /\ IF k + size'[k] = RegionEnd THEN next'[k] = NULL
                           ELSE next'[k] = k + size'[k] /\ next'[k] \in chunks'
                        /\ \A j \in chunks' : k < j => k + size'[k] <= j
    BY <1>4 DEF IInv, ChunksTile, RegionEnd
  <2>5. CASE k = n
    <3>1. n + size'[n] = m /\ size'[n] > 0 /\ m # RegionEnd
      BY <1>2, <1>5 DEF m
    <3>2. \A j \in chunks' : n < j => m <= j
      BY <1>2, <1>4, <2>3
    <3>3. next'[n] = m /\ m \in chunks'
      BY <1>4, <1>7
    <3> QED
      BY <2>5, <3>1, <3>2, <3>3
  <2>6. CASE k = m
    <3>1. m + size'[m] = n + size[n]
      BY <1>2, <1>5 DEF m
    <3>2. size'[m] > 0
      BY <1>5
    <3>3. IF m + size'[m] = RegionEnd THEN next'[m] = NULL
          ELSE next'[m] = m + size'[m] /\ next'[m] \in chunks'
      BY <1>4, <1>7, <3>1 DEF IInv, ChunksTile
    <3>4. \A j \in chunks' : m < j => m + size'[m] <= j
      BY <1>2, <1>4, <2>3, <3>1
    <3> QED
      BY <2>6, <3>2, <3>3, <3>4
  <2>7. CASE k \in chunks \ {n}
    <3>1. size'[k] = size[k] /\ next'[k] = next[k]
      BY <1>5, <1>7, <2>1, <2>7
    <3>4. /\ size[k] > 0
          /\ IF k + size[k] = RegionEnd THEN next[k] = NULL
             ELSE next[k] = k + size[k] /\ next[k] \in chunks
      BY <2>7 DEF IInv, ChunksTile
    <3>2. k < m => k < n
      BY <1>2, <2>3, <2>7
    <3>3. \A j \in chunks' : k < j => k + size[k] <= j
      BY <1>2, <1>4, <2>2, <2>7, <3>2 DEF IInv, ChunksTile
    <3>5. chunks \subseteq chunks'
      BY <1>4
    <3> QED
      BY <3>1, <3>3, <3>4, <3>5
  <2> QED
    BY <1>4, <2>5, <2>6, <2>7
<1>10. Mappings'
  <2>1. \A r \in mapped : /\ r.phys \in chunks \ {n} /\ ~Free(r.phys)
                           /\ r = Mapping(r.phys)
    BY <1>1 DEF IInv, Mappings
  <2>2. \A k \in chunks \ {n} : Mapping(k)' = Mapping(k) /\ (Free(k)' <=> Free(k))
    BY <1>1, <1>3, <1>5, <1>6 DEF Mapping, Free
  <2>3. /\ Mapping(n)' = [virt |-> v, phys |-> n, size |-> s] /\ ~Free(n)'
        /\ Free(m)'
    BY <1>1, <1>5, <1>6 DEF Mapping, Free
  <2>4. \A r \in mapped : Apart(v, r.virt, s, r.size) /\ Apart(r.virt, v, r.size, s)
    BY DEF Unused, Apart
  <2>5. (\A r \in mapped : r.phys \in chunks /\ ~Free(r.phys) /\ r = Mapping(r.phys))'
    BY <1>4, <2>1, <2>2, <2>3
  <2>6. (\A k \in chunks : ~Free(k) => Mapping(k) \in mapped)'
    BY <1>4, <2>2, <2>3 DEF IInv, Mappings
  <2>7. (\A r, t \in mapped : r.phys # t.phys => Apart(r.virt, t.virt, r.size, t.size))'
    BY <2>4 DEF IInv, Mappings, Apart
  <2> QED
    BY <2>5, <2>6, <2>7 DEF Mappings
<1>11. Coalesced'
  <2>1. \A k \in chunks : ~MergesNext(k)
    BY DEF IInv, Coalesced
  <2>2. \A k \in chunks' : ~MergesNext(k)'
    <3> SUFFICES ASSUME NEW k \in chunks' PROVE ~MergesNext(k)'
      OBVIOUS
    <3>1. CASE k = n
      BY <1>1, <1>6, <3>1 DEF MergesNext, Free
    <3>2. CASE k = m
      <4>1. next[n] # NULL => next[n] \in chunks \ {n}
        BY <1>1
      <4>2. next[n] # NULL => virt_addr'[next[n]] = virt_addr[next[n]]
        BY <1>1, <1>3, <1>6, <4>1
      <4> QED
        BY <1>1, <1>7, <2>1, <3>2, <4>2 DEF MergesNext, Free
    <3>3. CASE k \in chunks \ {n}
      <4>1. virt_addr'[k] = virt_addr[k] /\ next'[k] = next[k]
        BY <1>1, <1>3, <1>6, <1>7, <3>3
      <4>2. next[k] # NULL /\ next[k] # n =>
                virt_addr'[next[k]] = virt_addr[next[k]]
        BY <1>1, <1>3, <1>6, <3>3
      <4> QED
        BY <1>1, <1>6, <2>1, <3>3, <4>1, <4>2 DEF MergesNext, Free
    <3> QED
      BY <1>4, <3>1, <3>2, <3>3
  <2> QED
    BY <2>2 DEF Coalesced
<1> QED
  BY <1>8, <1>9, <1>10, <1>11 DEF IInv

(* ve_malloc takes a chunk whole or splits it. *)
LEMMA MallocStep ==
    ASSUME IInv, NEW request \in Sizes, ve_malloc(request)
    PROVE  IInv'
<1> DEFINE s == PageAlign(request)
<1>1. s \in Nat \ {0}
  BY PageAlignPositive
<1>2. PICK n \in chunks, v \in VirtAddrs :
          /\ Best(n, s) /\ Unused(v, s) /\ Take(n, s, v)
          /\ mapped' = mapped \cup {[virt |-> v, phys |-> n, size |-> s]}
  BY DEF ve_malloc
<1>3. free_pc = "idle" /\ UNCHANGED <<free_pc, c>>
  BY DEF ve_malloc
<1> HIDE DEF s
<1>4. CASE size[n] > s
  BY <1>1, <1>2, <1>3, <1>4, TakePart
<1>5. CASE ~(size[n] > s)
  BY <1>1, <1>2, <1>3, <1>5, TakeWhole
<1> QED
  BY <1>4, <1>5

(* munmap takes away exactly the mapping of the chunk that is freed. *)
LEMMA UnmapsOne ==
    ASSUME IInv, NEW n \in chunks, Unmap(n)
    PROVE  /\ Mapping(n) \in mapped
           /\ mapped' = mapped \ {Mapping(n)}
           /\ \A r \in mapped' : r.phys # n
<1> USE ChunkFacts
<1>1. Mapping(n) \in mapped
  BY DEF Unmap, IInv, Mappings
<1>2. \A r \in mapped : r.phys = n => r = Mapping(n)
  BY DEF IInv, Mappings
<1>3. \A r \in mapped : r.phys # n => Apart(virt_addr[n], r.virt, size[n], r.size)
  BY <1>1 DEF IInv, Mappings, Mapping, Apart
<1>4. ~Apart(virt_addr[n], virt_addr[n], size[n], size[n])
  BY DEF Apart
<1>5. /\ Mapping(n).phys = n /\ Mapping(n).virt = virt_addr[n]
      /\ Mapping(n).size = size[n]
  BY DEF Mapping
<1>6. mapped' = {r \in mapped : Apart(virt_addr[n], r.virt, size[n], r.size)}
  BY DEF Unmap
<1> QED
  BY <1>1, <1>2, <1>3, <1>4, <1>5, <1>6

LEMMA UnmapStep ==
    ASSUME IInv, NEW n \in chunks, Unmap(n)
    PROVE  IInv'
<1> USE ChunkFacts
<1>1. /\ UNCHANGED <<chunks, size, next>> /\ virt_addr' = [virt_addr EXCEPT ![n] = NULL]
      /\ free_pc' = "merge" /\ c' = PhysBase
  BY DEF Unmap
<1>2. /\ virt_addr'[n] = NULL /\ n \in Addr /\ chunks \subseteq Addr
      /\ \A k \in Addr \ {n} : virt_addr'[k] = virt_addr[k]
  BY <1>1 DEF IInv, TypeOK
<1>3. PhysBase \in chunks
  BY DEF IInv, ChunksTile
<1>4. mapped' = mapped \ {Mapping(n)} /\ \A r \in mapped' : r.phys # n
  BY UnmapsOne
<1>5. TypeOK'
  BY <1>1, <1>2, <1>3, <1>4 DEF IInv, TypeOK
<1>6. ChunksTile'
  BY <1>1 DEF IInv, ChunksTile
<1>7. Mappings'
  <2>1. \A k \in chunks \ {n} : Mapping(k)' = Mapping(k) /\ (Free(k)' <=> Free(k))
    BY <1>1, <1>2 DEF Mapping, Free
  <2>2. Free(n)'
    BY <1>2 DEF Free
  <2>3. \A k \in chunks : Mapping(k).phys = k
    BY DEF Mapping
  <2>4. (\A r \in mapped : r.phys \in chunks /\ ~Free(r.phys) /\ r = Mapping(r.phys))'
    BY <1>1, <1>4, <2>1 DEF IInv, Mappings
  <2>5. (\A k \in chunks : ~Free(k) => Mapping(k) \in mapped)'
    BY <1>1, <1>4, <2>1, <2>2, <2>3 DEF IInv, Mappings
  <2>6. (\A r, t \in mapped : r.phys # t.phys => Apart(r.virt, t.virt, r.size, t.size))'
    BY <1>4 DEF IInv, Mappings, Apart
  <2> QED
    BY <2>4, <2>5, <2>6 DEF Mappings
<1>8. Coalesced'
  BY <1>1 DEF Coalesced
<1> QED
  BY <1>5, <1>6, <1>7, <1>8 DEF IInv

LEMMA MergeStep ==
    ASSUME IInv, Merge
    PROVE  IInv'
<1> USE ChunkFacts
<1> DEFINE d == next[c]
<1>1. /\ free_pc = "merge" /\ c \in chunks /\ chunks \subseteq Addr
      /\ Free(c) /\ Free(d) /\ d \in chunks /\ d = c + size[c] /\ d # c
  BY DEF Merge, MergesNext, IInv, TypeOK
<1>2. /\ chunks' = chunks \ {d} /\ UNCHANGED <<virt_addr, mapped, free_pc, c>>
      /\ size' = [size EXCEPT ![c] = size[c] + size[d]]
      /\ next' = [next EXCEPT ![c] = next[d]]
  BY DEF Merge
<1> HIDE DEF d
<1>3. /\ size'[c] = size[c] + size[d]
      /\ \A k \in Addr \ {c} : size'[k] = size[k]
  BY <1>1, <1>2 DEF IInv, TypeOK
<1>4. /\ next'[c] = next[d]
      /\ \A k \in Addr \ {c} : next'[k] = next[k]
  BY <1>1, <1>2 DEF IInv, TypeOK
<1>5. TypeOK'
  <2>1. size' \in [Addr -> Nat]
    BY <1>1, <1>2 DEF IInv, TypeOK
  <2>2. next' \in [Addr -> Addr \cup {NULL}]
    BY <1>1, <1>2 DEF IInv, TypeOK
  <2> QED
    BY <1>1, <1>2, <2>1, <2>2 DEF IInv, TypeOK
<1>6. \A k \in chunks \ {c} : next[k] # d
  <2> SUFFICES ASSUME NEW k \in chunks \ {c}, next[k] = d PROVE FALSE
    OBVIOUS
  <2>1. k + size[k] = d
    BY <1>1
  <2>2. k < c => k + size[k] <= c
    BY <1>1 DEF IInv, ChunksTile
  <2>3. c < k => c + size[c] <= k
    BY <1>1 DEF IInv, ChunksTile
  <2> QED
    BY <1>1, <2>1, <2>2, <2>3
<1>7. ChunksTile'
  <2>1. PhysBase # d
    BY <1>1
  <2>2. SUFFICES ASSUME NEW k \in chunks'
                 PROVE  /\ size'[k] > 0
                        /\ IF k + size'[k] = RegionEnd THEN next'[k] = NULL
                           ELSE next'[k] = k + size'[k] /\ next'[k] \in chunks'
                        /\ \A j \in chunks' : k < j => k + size'[k] <= j
    BY <1>2, <2>1 DEF IInv, ChunksTile, RegionEnd
  <2>3. CASE k = c
    <3>1. c + size'[c] = d + size[d] /\ size'[c] > 0
      BY <1>1, <1>3
    <3>2. IF d + size[d] = RegionEnd THEN next[d] = NULL
          ELSE next[d] = d + size[d] /\ next[d] \in chunks /\ next[d] # d
      BY <1>1 DEF IInv, ChunksTile
    <3>3. \A j \in chunks : c < j => d <= j
      BY <1>1 DEF IInv, ChunksTile
    <3>4. \A j \in chunks : d < j => d + size[d] <= j
      BY <1>1 DEF IInv, ChunksTile
    <3>5. \A j \in chunks' : c < j => d + size[d] <= j
      BY <1>1, <1>2, <3>3, <3>4
    <3> QED
      BY <1>2, <1>4, <2>3, <3>1, <3>2, <3>5
  <2>4. CASE k \in chunks \ {c, d}
    <3>1. size'[k] = size[k] /\ next'[k] = next[k]
      BY <1>1, <1>3, <1>4, <2>4
    <3>2. /\ size[k] > 0
          /\ IF k + size[k] = RegionEnd THEN next[k] = NULL
             ELSE next[k] = k + size[k] /\ next[k] \in chunks
          /\ \A j \in chunks : k < j => k + size[k] <= j
      BY <2>4 DEF IInv, ChunksTile
    <3> QED
      BY <1>2, <1>6, <2>4, <3>1, <3>2
  <2> QED
    BY <1>2, <2>3, <2>4
<1>8. Mappings'
  <2>1. \A k \in chunks \ {c, d} : Mapping(k)' = Mapping(k)
    BY <1>1, <1>2, <1>3 DEF Mapping
  <2>2. \A k \in chunks : Free(k)' <=> Free(k)
    BY <1>2 DEF Free
  <2>3. \A r \in mapped : /\ r.phys \in chunks \ {c, d} /\ ~Free(r.phys)
                           /\ r = Mapping(r.phys)
    BY <1>1 DEF IInv, Mappings
  <2>4. (\A r \in mapped : r.phys \in chunks /\ ~Free(r.phys) /\ r = Mapping(r.phys))'
    BY <1>2, <2>1, <2>2, <2>3
  <2>5. (\A k \in chunks : ~Free(k) => Mapping(k) \in mapped)'
    BY <1>1, <1>2, <2>1, <2>2 DEF IInv, Mappings
  <2>6. (\A r, t \in mapped : r.phys # t.phys => Apart(r.virt, t.virt, r.size, t.size))'
    BY <1>2 DEF IInv, Mappings, Apart
  <2> QED
    BY <2>4, <2>5, <2>6 DEF Mappings
<1>9. Coalesced'
  <2>1. \A k \in chunks : k < c => ~MergesNext(k)
    BY <1>1 DEF IInv, Coalesced
  <2>2. \A k \in chunks \ {c} : next'[k] = next[k]
    BY <1>1, <1>4
  <2>3. \A k \in chunks' : k < c => ~MergesNext(k)'
    BY <1>1, <1>2, <2>1, <2>2 DEF MergesNext, Free
  <2> QED
    BY <1>1, <1>2, <2>3 DEF Coalesced
<1> QED
  BY <1>5, <1>7, <1>8, <1>9 DEF IInv

LEMMA AdvanceStep ==
    ASSUME IInv, Advance
    PROVE  IInv'
<1> USE ChunkFacts
<1>1. /\ free_pc = "merge" /\ c \in chunks /\ ~MergesNext(c) /\ c' = next[c]
      /\ free_pc' = IF next[c] = NULL THEN "idle" ELSE "merge"
      /\ UNCHANGED <<chunks, size, virt_addr, next, mapped>>
  BY DEF Advance, listVars, IInv, TypeOK
<1>2. TypeOK'
  BY <1>1 DEF IInv, TypeOK
<1>3. ChunksTile' /\ Mappings'
  BY <1>1 DEF IInv, ChunksTile, Mappings, Free, Mapping
<1>4. \A k \in chunks : c < k => c + size[c] <= k
  BY <1>1 DEF IInv, ChunksTile
<1>5. \A k \in chunks : k < c => ~MergesNext(k)
  BY <1>1 DEF IInv, Coalesced
<1>6. \A k \in chunks : next[c] = NULL \/ k < next[c] => k <= c
  BY <1>1, <1>4
<1>7. \A k \in chunks : next[c] = NULL \/ k < next[c] => ~MergesNext(k)
  BY <1>1, <1>5, <1>6
<1>8. Coalesced'
  <2>1. \A k \in chunks : MergesNext(k)' <=> MergesNext(k)
    BY <1>1 DEF MergesNext, Free
  <2> QED
    BY <1>1, <1>7, <2>1 DEF Coalesced
<1> QED
  BY <1>2, <1>3, <1>8 DEF IInv

(* Every step keeps the inductive invariant. *)
LEMMA IInvStep == IInv /\ [Next]_vars => IInv'
<1> SUFFICES ASSUME IInv, [Next]_vars PROVE IInv'
  OBVIOUS
<1>1. CASE \E request \in Sizes : ve_malloc(request)
  BY <1>1, MallocStep
<1>2. CASE \E n \in chunks : Unmap(n)
  BY <1>2, UnmapStep
<1>3. CASE Merge
  BY <1>3, MergeStep
<1>4. CASE Advance
  BY <1>4, AdvanceStep
<1>5. CASE UNCHANGED vars
  BY <1>5 DEF vars, listVars, IInv, TypeOK, ChunksTile, Mappings, Coalesced,
              MergesNext, Free, Mapping
<1> QED
  BY <1>1, <1>2, <1>3, <1>4, <1>5 DEF Next

(* The inductive invariant, in every state: what ve_malloc and ve_free keep true of
   the list of chunks between any two of their steps. *)
THEOREM InvariantHolds == Spec => []IInv
<1> QED
  BY IInvInit, IInvStep, PTL DEF Spec

(* Type correctness: no chunk is made outside the region. *)
THEOREM TypeCorrect == Spec => []TypeOK
<1>1. IInv => TypeOK
  BY DEF IInv
<1> QED
  BY <1>1, InvariantHolds, PTL

(* The chunks tile the region, whatever ve_malloc split and ve_free merged. *)
THEOREM ChunksTiled == Spec => []ChunksTile
<1>1. IInv => ChunksTile
  BY DEF IInv
<1> QED
  BY <1>1, InvariantHolds, PTL

(* After every ve_free no two free chunks are neighbours. *)
THEOREM NoStranding == Spec => []NothingStranded
<1>1. IInv => NothingStranded
  BY DEF IInv, Coalesced, NothingStranded
<1> QED
  BY <1>1, InvariantHolds, PTL

-----------------------------------------------------------------------------
(* The chunk that covers an address of a mapping is the mapping's, and no other
   does. *)
LEMMA CoverUnique ==
    ASSUME IInv, NEW r \in mapped, NEW offset \in 0..(r.size - 1), NEW n \in chunks
    PROVE  Covers(n, r.virt + offset) <=> n = r.phys
<1> USE ChunkFacts
<1>1. /\ r.phys \in chunks /\ ~Free(r.phys)
      /\ r.virt = virt_addr[r.phys] /\ r.size = size[r.phys]
  BY DEF IInv, Mappings, Mapping
<1>2. virt_addr[r.phys] \in Nat /\ size[r.phys] \in Nat
  BY <1>1
<1>3. /\ offset \in Nat /\ offset < r.size /\ r.virt \in Nat
      /\ r.size \in Nat /\ size[n] \in Nat /\ virt_addr[n] \in Nat
  BY <1>1, <1>2
<1>4. Covers(r.phys, r.virt + offset)
  BY <1>1, <1>2, <1>3 DEF Covers
<1>5. ASSUME ~Free(n), n # r.phys PROVE Apart(virt_addr[n], r.virt, size[n], r.size)
  <2>1. /\ Mapping(n) \in mapped /\ Mapping(n).phys = n
        /\ Mapping(n).virt = virt_addr[n] /\ Mapping(n).size = size[n]
    BY <1>5 DEF IInv, Mappings, Mapping
  <2>2. \A q, t \in mapped : q.phys # t.phys => Apart(q.virt, t.virt, q.size, t.size)
    BY DEF IInv, Mappings
  <2>3. Apart(Mapping(n).virt, r.virt, Mapping(n).size, r.size)
    BY <1>5, <2>1, <2>2
  <2> QED
    BY <2>1, <2>3
<1>6. n # r.phys => ~Covers(n, r.virt + offset)
  BY <1>2, <1>3, <1>5 DEF Covers, Apart
<1> QED
  BY <1>4, <1>6

(* ve_virt2phys is exact: the engine's address of a byte is that of the mapping. *)
LEMMA TranslationFromInvariant == IInv => TranslationExact
<1> SUFFICES ASSUME IInv PROVE TranslationExact
  OBVIOUS
<1> USE ChunkFacts
<1>1. ASSUME NEW r \in mapped, NEW offset \in 0..(r.size - 1)
      PROVE  ve_virt2phys(r.virt + offset) = r.phys + offset
  <2> DEFINE p == r.virt + offset
  <2>1. r.phys \in chunks /\ virt_addr[r.phys] = r.virt /\ r.size = size[r.phys]
    BY DEF IInv, Mappings, Mapping
  <2>2. Covering(p) = {r.phys}
    BY <2>1, CoverUnique DEF Covering
  <2>3. r.phys \in Nat /\ r.virt \in Nat /\ offset \in Nat
    <3>1. r.phys \in Nat /\ virt_addr[r.phys] \in Nat /\ size[r.phys] \in Nat
      BY <2>1
    <3> QED
      BY <2>1, <3>1
  <2> HIDE DEF p
  <2>4. FirstCovering(p) = r.phys
    BY <2>2, <2>3 DEF FirstCovering
  <2>5. ve_virt2phys(p) = r.phys + (p - r.virt)
    BY <2>1, <2>2, <2>4 DEF ve_virt2phys
  <2> QED
    BY <2>3, <2>5 DEF p
<1>2. ASSUME NEW p \in VirtAddrs,
             \A r \in mapped : p < r.virt \/ p >= r.virt + r.size
      PROVE  ve_virt2phys(p) = 0
  <2>1. ASSUME NEW n \in chunks PROVE ~Covers(n, p)
    <3>1. ~Free(n) => Mapping(n) \in mapped
      BY DEF IInv, Mappings
    <3>2. Mapping(n).virt = virt_addr[n] /\ Mapping(n).size = size[n]
      BY DEF Mapping
    <3>3. p \in Nat /\ virt_addr[n] \in Nat /\ size[n] \in Nat
      BY VeAllocAssumption
    <3>4. ~Free(n) => p < virt_addr[n] \/ p >= virt_addr[n] + size[n]
      BY <1>2, <3>1, <3>2
    <3> QED
      BY <3>3, <3>4 DEF Covers
  <2>2. Covering(p) = {}
    BY <2>1 DEF Covering
  <2> QED
    BY <2>2 DEF ve_virt2phys
<1> QED
  BY <1>1, <1>2 DEF TranslationExact

(* The engine and the process mean the same byte by a buffer's address. *)
THEOREM Translation == Spec => []TranslationExact
<1> QED
  BY InvariantHolds, TranslationFromInvariant, PTL

-----------------------------------------------------------------------------
(* Two mappings are disjoint, in memory too: their chunks are. *)
LEMMA ChunksApart ==
    ASSUME IInv, NEW n \in chunks, NEW m \in chunks, n # m
    PROVE  Region!Apart(n, m, size[n], size[m])
<1> USE ChunkFacts
<1>1. n < m => n + size[n] <= m
  BY DEF IInv, ChunksTile
<1>2. m < n => m + size[m] <= n
  BY DEF IInv, ChunksTile
<1> QED
  BY <1>1, <1>2 DEF Region!Apart

(* ve_malloc allocates, munmap releases, and the merges change nothing a caller
   sees. *)
LEMMA MallocRefines ==
    ASSUME IInv, NEW request \in Sizes, ve_malloc(request)
    PROVE  Region!Next
<1> USE ChunkFacts
<1> DEFINE s == PageAlign(request)
<1>1. s \in Nat \ {0}
  BY PageAlignPositive
<1>2. PICK n \in chunks, v \in VirtAddrs :
          /\ Best(n, s) /\ Unused(v, s)
          /\ mapped' = mapped \cup {[virt |-> v, phys |-> n, size |-> s]}
  BY DEF ve_malloc
<1> HIDE DEF s
<1> DEFINE r == [virt |-> v, phys |-> n, size |-> s]
<1>3. Free(n) /\ s <= size[n]
  BY <1>1, <1>2 DEF Best, Fits
<1>4. Region!Inside(r)
  BY <1>1, <1>3 DEF Region!Inside, RegionEnd
<1>5. ASSUME NEW t \in mapped PROVE Region!Disjoint(r, t)
  <2>1. t.phys \in chunks /\ ~Free(t.phys) /\ t.size = size[t.phys]
    BY DEF IInv, Mappings, Mapping
  <2>2. Region!Apart(n, t.phys, size[n], t.size)
    BY <1>3, <2>1, ChunksApart
  <2>3. Region!Apart(n, t.phys, s, t.size)
    BY <1>1, <1>3, <2>1, <2>2 DEF Region!Apart
  <2>4. Region!Apart(v, t.virt, s, t.size)
    BY <1>2 DEF Unused, Apart, Region!Apart
  <2> QED
    BY <2>3, <2>4 DEF Region!Disjoint
<1>6. Region!Allocate(r)
  BY <1>2, <1>4, <1>5 DEF Region!Allocate
<1>7. r \in mapped'
  BY <1>2
<1> QED
  BY <1>6, <1>7 DEF Region!Next

LEMMA StepRefines == IInv /\ [Next]_vars => [Region!Next]_mapped
<1> SUFFICES ASSUME IInv, [Next]_vars PROVE [Region!Next]_mapped
  OBVIOUS
<1>1. CASE \E request \in Sizes : ve_malloc(request)
  BY <1>1, MallocRefines
<1>2. ASSUME NEW n \in chunks, Unmap(n) PROVE Region!Next
  BY <1>2, UnmapsOne DEF Region!Next, Region!Release
<1>3. CASE Merge
  BY <1>3 DEF Merge
<1>4. CASE Advance
  BY <1>4 DEF Advance
<1>5. CASE UNCHANGED vars
  BY <1>5 DEF vars
<1> QED
  BY <1>1, <1>2, <1>3, <1>4, <1>5 DEF Next

(* The list of chunks implements a region of disjoint allocations. *)
THEOREM RegionImplemented == Spec => ImplementsRegion
<1>1. Init => Region!Init
  BY DEF Init, Region!Init
<1> QED
  BY <1>1, InvariantHolds, StepRefines, PTL DEF Spec, ImplementsRegion, Region!Spec

=============================================================================
