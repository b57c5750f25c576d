-------------------------------- MODULE Heap --------------------------------
(***************************************************************************)
(* The heap of MOS (src_umm_malloc/umm_malloc.c, best fit, one heap): an   *)
(* array of blocks chained by index in both directions, the free ones also *)
(* chained to each other through the bytes they would otherwise lend.      *)
(*                                                                         *)
(* The chains live in the memory they describe: writing a free link        *)
(* destroys the data of its block (Links), data destroys the headers and   *)
(* links in its way, and whatever no chain reaches may hold anything       *)
(* (Garbage), so an operation that follows a stale header or loses data in *)
(* a move does so here too.                                                *)
(***************************************************************************)
EXTENDS Integers, FiniteSets

CONSTANTS
  NBlocks,     \* UMM_NUMBLOCKS
  Requests,    \* sizes in bytes that programs ask for
  Items,       \* counts of items that programs ask calloc for
  Owners       \* bound: allocations alive at a time, each with an owner

ASSUME HeapAssumption ==
  NBlocks \in Nat /\ NBlocks > 2 /\ NBlocks < 32767 /\ Requests \subseteq Nat

Blocks  == 0 .. NBlocks - 1
Last    == NBlocks - 1          \* UMM_BLOCK_LAST
Null    == -1
Garbage == NBlocks              \* a header or a link that data has overwritten
Links   == <<>>                 \* data that a free link has overwritten

VARIABLES
  heap,      \* the blocks: next, prev, free, nf, pf and data, each by index
  live,      \* the allocations programs hold: pointer -> size, owner, blocks filled
  lastCall   \* the last request: blocks asked for, pointer returned

heapVars == <<heap, live, lastCall>>

\* The header takes 4 of the 8 bytes of a first block (UINT24 arithmetic).
umm_blocks(size) ==
  IF size <= 4 THEN 1
  ELSE LET n == 2 + ((size - 5) \div 8) IN IF n > 32767 THEN 32767 ELSE n

SetNfree(h, b, x) == [h EXCEPT !.nf[b] = x, !.data[b] = Links]
SetPfree(h, b, x) == [h EXCEPT !.pf[b] = x, !.data[b] = Links]

umm_split_block(h, c, n, mask) ==
  [h EXCEPT !.next[c + n] = h.next[c], !.free[c + n] = mask, !.prev[c + n] = c,
            !.prev[h.next[c]] = c + n, !.next[c] = c + n, !.free[c] = FALSE]

umm_disconnect_from_free_list(h, c) ==
  [SetPfree(SetNfree(h, h.pf[c], h.nf[c]), h.nf[c], h.pf[c]) EXCEPT !.free[c] = FALSE]

\* c swallows the block after it, if that one is free.
umm_assimilate_up(h, c) ==
  IF ~h.free[h.next[c]] THEN h
  ELSE LET g == umm_disconnect_from_free_list(h, h.next[c])
       IN [g EXCEPT !.prev[g.next[g.next[c]]] = c, !.next[c] = g.next[g.next[c]]]

\* The block before c swallows c.
umm_assimilate_down(h, c, mask) ==
  [h EXCEPT !.next[h.prev[c]] = h.next[c], !.free[h.prev[c]] = mask,
            !.prev[h.next[c]] = h.prev[c]]

AddToFreeList(h, c) ==
  [SetNfree(SetPfree(SetNfree(SetPfree(h, h.nf[0], c), c, h.nf[0]), c, 0), 0, c)
     EXCEPT !.free[c] = TRUE]

\* A seeded fault: the block before is not looked at.
FreeCoreNoMerge(h, c) == AddToFreeList(h, c)
FreeCore(h, c) ==
  IF h.free[h.prev[c]] THEN umm_assimilate_down(h, c, TRUE) ELSE AddToFreeList(h, c)

umm_free_core(h, c) == FreeCore(umm_assimilate_up(h, c), c)

\* NULL and pointers outside the heap are ignored.
umm_free(h, p) == IF p \in Blocks THEN umm_free_core(h, p) ELSE h

\* The free list, in order, as the set of its members.
FreeList(h) ==
  LET Walk[k \in 0 .. NBlocks] ==
        IF k = 0 THEN {h.nf[0]} \ {0} ELSE Walk[k - 1] \cup ({h.nf[b] : b \in Walk[k - 1]} \ {0})
  IN Walk[NBlocks]
SizeOf(h, b) == h.next[b] - b


\* A seeded fault: an exact fit is passed over.
BestFitTooLarge(h, n) ==
  LET fits == {b \in FreeList(h) : SizeOf(h, b) > n} IN IF fits = {} THEN 0 ELSE CHOOSE b \in fits : TRUE

\* The first of the smallest free blocks of n blocks or more; 0 when there is none.
BestFit(h, n) ==
  LET Scan[k \in 0 .. NBlocks] ==
        IF k = 0 THEN [cf |-> h.nf[0], block |-> 0, size |-> 32767]
        ELSE LET s == Scan[k - 1] IN
             IF s.cf = 0 THEN s
             ELSE IF SizeOf(h, s.cf) >= n /\ SizeOf(h, s.cf) < s.size
                  THEN [cf |-> h.nf[s.cf], block |-> s.cf, size |-> SizeOf(h, s.cf)]
                  ELSE [s EXCEPT !.cf = h.nf[s.cf]]
  IN Scan[NBlocks].block

\* The front of free block c is given away, the rest takes its place in the list.
Carve(h, c, n) ==
  LET s == umm_split_block(h, c, n, TRUE)
      r == SetPfree(SetNfree(s, s.pf[c], c + n), c + n, s.pf[c])
  IN SetNfree(SetPfree(r, r.nf[c], c + n), c + n, r.nf[c])

NotGiven(h) == [h |-> h, ptr |-> Null]

umm_malloc_core(h, size) ==
  LET n == umm_blocks(size)
      c == BestFit(h, n)
  IN IF c = 0 THEN NotGiven(h)
     ELSE [ptr |-> c, h |-> IF SizeOf(h, c) = n THEN umm_disconnect_from_free_list(h, c)
                            ELSE Carve(h, c, n)]

umm_malloc(h, size) == IF size = 0 THEN NotGiven(h) ELSE umm_malloc_core(h, size)

\* k blocks of data go from one place to another: the headers and links that
\* were inside the second are gone.
Memmove(h, from, to, k) ==
  LET In(b) == b \in to .. to + k - 1
      Inside(b) == b \in to + 1 .. to + k - 1
  IN [next |-> [b \in Blocks |-> IF Inside(b) THEN Garbage ELSE h.next[b]],
      prev |-> [b \in Blocks |-> IF Inside(b) THEN Garbage ELSE h.prev[b]],
      free |-> [b \in Blocks |-> Inside(b) \/ h.free[b]],
      nf   |-> [b \in Blocks |-> IF In(b) THEN Garbage ELSE h.nf[b]],
      pf   |-> [b \in Blocks |-> IF In(b) THEN Garbage ELSE h.pf[b]],
      data |-> [b \in Blocks |-> IF In(b) THEN h.data[from + b - to] ELSE h.data[b]]]

\* The allocation at c takes over the free block before it, data and all.
MoveDown(h, c) ==
  Memmove(umm_assimilate_down(umm_disconnect_from_free_list(h, h.prev[c]), c, FALSE),
          c, h.prev[c], SizeOf(h, c))

\* A block of n blocks or more is cut to n, the rest freed.
Trimmed(h, c, n) ==
  IF SizeOf(h, c) <= n THEN h
  ELSE umm_free_core(umm_split_block(h, c, n, FALSE), c + n)

Elsewhere(h, c, size) ==
  LET r == umm_malloc_core(h, size)
  IN IF r.ptr = Null THEN r
     ELSE [r EXCEPT !.h = umm_free_core(Memmove(r.h, c, r.ptr, SizeOf(h, c)), c)]

\* Grow in place, downwards, both ways, or elsewhere: the first that fits.
umm_realloc(h, p, size) ==
  LET n    == umm_blocks(size)
      mine == SizeOf(h, p)
      up   == IF h.free[h.next[p]] THEN SizeOf(h, h.next[p]) ELSE 0
      down == IF h.free[h.prev[p]] THEN p - h.prev[p] ELSE 0
      Stay(g) == [h |-> Trimmed(g, p, n), ptr |-> p]
      Down(g) == [h |-> Trimmed(MoveDown(g, p), h.prev[p], n), ptr |-> h.prev[p]]
  IN IF p = Null THEN umm_malloc(h, size)
     ELSE IF size = 0 THEN NotGiven(umm_free(h, p))
     ELSE IF mine >= n THEN Stay(h)
     ELSE IF mine + up = n \/ (down = 0 /\ mine + up >= n) THEN Stay(umm_assimilate_up(h, p))
     ELSE IF down + mine >= n THEN Down(h)
     ELSE IF down + mine + up >= n THEN Down(umm_assimilate_up(h, p))
     ELSE Elsewhere(h, p, size)

CallocSize(num, size) == (num * size) % (2 ^ 24)

\* The figures of the MEM command; copyFile asks for all of the largest.
LargestFree(h) == LET sizes == {SizeOf(h, b) : b \in FreeList(h)}
                  IN IF sizes = {} THEN 0
                     ELSE 8 * (CHOOSE s \in sizes : \A t \in sizes : t <= s) - 4

-----------------------------------------------------------------------------
\* The blocks met from block 0 on.
Starts(h) ==
  LET Walk[k \in 0 .. NBlocks] ==
        IF k = 0 THEN {0} ELSE Walk[k - 1] \cup {h.next[b] : b \in Walk[k - 1]}
  IN Walk[NBlocks]

\* Memory no chain reaches and no caller holds may hold anything.
Settled(h, held) ==
  LET starts == Starts(h)
      linked == FreeList(h) \cup {0}
      kept   == UNION {p .. p + held[p].filled - 1 : p \in DOMAIN held}
  IN [next |-> [b \in Blocks |-> IF b \in starts THEN h.next[b] ELSE Garbage],
      prev |-> [b \in Blocks |-> IF b \in starts THEN h.prev[b] ELSE Garbage],
      free |-> [b \in Blocks |-> b \in starts => h.free[b]],
      nf   |-> [b \in Blocks |-> IF b \in linked THEN h.nf[b] ELSE Garbage],
      pf   |-> [b \in Blocks |-> IF b \in linked THEN h.pf[b] ELSE Garbage],
      data |-> [b \in Blocks |-> IF b \in kept THEN h.data[b] ELSE Links]]

Ends(h, held, op, size, p) ==
  /\ heap' = Settled(h, held)
  /\ live' = held
  /\ lastCall' = [op |-> op, size |-> size, ptr |-> p]

Without(held, p) == [q \in DOMAIN held \ {p} |-> held[q]]
With(held, p, a) == [q \in DOMAIN held \cup {p} |-> IF q = p THEN a ELSE held[q]]

\* The holder of p writes n blocks there.
Filling(h, p, n, who) ==
  [h EXCEPT !.data = [b \in Blocks |-> IF b \in p .. p + n - 1 THEN <<who, b - p>> ELSE @[b]]]

\* A caller receives p for size bytes and fills it.
Receives(r, size, who) ==
  LET n == umm_blocks(size)
  IN IF r.ptr = Null THEN Ends(r.h, live, "malloc", size, Null)
     ELSE Ends(Filling(r.h, r.ptr, n, who),
               With(live, r.ptr, [size |-> size, who |-> who, filled |-> n]),
               "malloc", size, r.ptr)

FreeOwners == Owners \ {live[p].who : p \in DOMAIN live}

HeapMalloc == \E size \in Requests \cup {LargestFree(heap)}, who \in FreeOwners :
  Receives(umm_malloc(heap, size), size, who)

HeapCalloc == \E num \in Items, size \in Requests, who \in FreeOwners :
  LET bytes == CallocSize(num, size) IN Receives(umm_malloc(heap, bytes), bytes, who)

HeapFree == \E p \in DOMAIN live : Ends(umm_free(heap, p), Without(live, p), "free", 0, p)

\* The caller keeps the old pointer when a reallocation fails.
Resized(p, q, size) ==
  LET n == umm_blocks(size)
  IN IF q # Null
     THEN With(Without(live, p), q, [live[p] EXCEPT !.size = size, !.filled = IF n < @ THEN n ELSE @])
     ELSE IF size = 0 THEN Without(live, p) ELSE live
HeapRealloc == \E p \in DOMAIN live, size \in Requests :
  \E r \in {umm_realloc(heap, p, size)} : Ends(r.h, Resized(p, r.ptr, size), "realloc", size, r.ptr)

\* A caller writes to all of a block that was enlarged.
HeapFill == \E p \in DOMAIN live :
  LET n == umm_blocks(live[p].size)
  IN /\ live[p].filled < n
     /\ Ends(Filling(heap, p, n, live[p].who), [live EXCEPT ![p].filled = n], "fill", 0, p)

HeapInit ==
  /\ heap = LET zero == [b \in Blocks |-> 0] IN
            Settled([next |-> [zero EXCEPT ![0] = 1, ![1] = Last], prev |-> [zero EXCEPT ![Last] = 1],
                     free |-> [b \in Blocks |-> b = 1],
                     nf |-> [zero EXCEPT ![0] = 1], pf |-> [zero EXCEPT ![0] = 1],
                     data |-> [b \in Blocks |-> Links]], << >>)
  /\ live = << >>
  /\ lastCall = [op |-> "init", size |-> 0, ptr |-> Null]

HeapNext == HeapMalloc \/ HeapCalloc \/ HeapFree \/ HeapRealloc \/ HeapFill

HeapSpec == HeapInit /\ [][HeapNext]_heapVars

-----------------------------------------------------------------------------
(* Properties.                                                             *)

\* The block chain runs through the heap in order and back, the free list
\* holds exactly its free blocks and no two of them are neighbours: what is
\* freed is usable again.
ChainsAgree ==
  LET blocks == Starts(heap)
      frees  == FreeList(heap)
  IN /\ Last \in blocks
     /\ \A b \in blocks \ {Last} : /\ b < heap.next[b]
                                   /\ heap.prev[heap.next[b]] = b
                                   /\ ~(heap.free[b] /\ heap.free[heap.next[b]])
     /\ frees = {b \in blocks : heap.free[b]}
     /\ \A b \in frees : /\ heap.pf[heap.nf[b]] = b \/ heap.nf[b] = 0
                         /\ heap.nf[heap.pf[b]] = b

\* The blocks in use are exactly those callers hold, each as large as asked.
HeldBlocks ==
  LET blocks == Starts(heap)
  IN /\ DOMAIN live = {b \in blocks \ {0, Last} : ~heap.free[b]}
     /\ \A p \in DOMAIN live : SizeOf(heap, p) >= umm_blocks(live[p].size)

\* No operation loses what a caller wrote, the moves of a reallocation included.
DataKept == \A p \in DOMAIN live : \A i \in 0 .. live[p].filled - 1 :
              heap.data[p + i] = <<live[p].who, i>>

\* NULL means no free run is large enough, and the largest free size that is
\* reported can be had.
NullMeansNoRoom ==
  [][lastCall'.op = "malloc" /\ lastCall'.ptr = Null /\ lastCall'.size > 0 =>
       /\ \A b \in FreeList(heap) : SizeOf(heap, b) < umm_blocks(lastCall'.size)
       /\ lastCall'.size # LargestFree(heap)]_heapVars

\* The allocator never gives a byte twice, loses one or changes one: the chains
\* are sound without two free neighbours, callers own disjoint blocks, and their
\* data stays (umm_malloc_core, umm_free_core, umm_realloc).
HeapIsSound == ChainsAgree /\ HeldBlocks /\ DataKept
=============================================================================
