-------------------------------- MODULE Heap --------------------------------
(***************************************************************************)
(* The kernel's allocator, mm/mm.c, as operators on a heap record          *)
(*     mem   the words written so far, by address (others read as 0)       *)
(*     brk   alloc_addr: where kalloc allocates before there is a manager  *)
(*     mngr  base_mngr: address of the chunk manager, 0 before it exists   *)
(* Addresses and sizes are in bytes, and every size a caller passes is a   *)
(* multiple of 4.  A chunk is the code's chunk_t: prev_foot and head, then *)
(* (while it is free) fnext and fprev.  The manager is the words free and  *)
(* size.  Constants scale the page and the heap down.                      *)
(***************************************************************************)
EXTENDS Integers, Sequences, FiniteSets

CONSTANTS PAGE_SIZE,   \* 0x1000
          MNGR_SIZE,   \* 0x1000000
          MEM_START,   \* 0x11F000
          MOD          \* 2^32: values of a word

ASSUME HeapAssumption ==
    /\ {PAGE_SIZE, MNGR_SIZE, MEM_START, MOD} \subseteq Nat \ {0}
    /\ PAGE_SIZE % 32 = 0 /\ MNGR_SIZE % PAGE_SIZE = 0
    /\ MEM_START % PAGE_SIZE = 0
    /\ MEM_START + 3 * MNGR_SIZE < MOD

CHUNK_SIZE == 8
CHUNK_T == 16

Word(h, a) == IF a \in DOMAIN h.mem THEN h.mem[a] ELSE 0
\* The function f with x mapped to v.
With(f, x, v) ==
    [[y \in DOMAIN f \cup {x} |-> IF y \in DOMAIN f THEN f[y] ELSE v] EXCEPT ![x] = v]

\* The heap after the store *a = v, w = <<a, v>>, or after none.
Stored(h, w) == IF w = <<>> THEN h ELSE [h EXCEPT !.mem = With(@, w[1], w[2])]
\* Several stores in a row, in the code's order.
h ## w == Stored(h, w)
\* if(test) *a = v
If(test, a, v) == IF test THEN <<a, v>> ELSE <<>>

Foot(h, c)  == Word(h, c)
HeadOf(h, c)  == Word(h, c + 4)
FNext(h, c) == Word(h, c + 8)
FPrev(h, c) == Word(h, c + 12)
Free(h) == Word(h, h.mngr)

\* Fault: rounding down.
PageBelow(x) == x - (x % PAGE_SIZE)

\* ALIGN, ALIGN_START: the page boundary above x, also when x is on one.
PageAfter(x) == (x - (x % PAGE_SIZE) + PAGE_SIZE) % MOD
PrevChunk(h, c) == (c - Foot(h, c) - CHUNK_SIZE) % MOD
NextChunk(h, c) == (c + CHUNK_SIZE + HeadOf(h, c)) % MOD

-----------------------------------------------------------------------------
(* _cm_alloc: first fit along the free list.                               *)

Takes(h, c, size, align) == HeadOf(h, c) > size \/ (HeadOf(h, c) = size /\ ~align)

FirstFit(h, size, align) ==
    LET fit[c \in Nat] == IF c = 0 \/ Takes(h, c, size, align) THEN c ELSE fit[FNext(h, c)]
    IN fit[Free(h)]

\* The chunk is larger: what is left of it becomes a new chunk in its place
\* on the list.  Aligning moves the new chunk to a page, but computes the
\* size from the size asked for, not from where the chunk is.
Split(h, c, asked, align) ==
    LET end  == c + asked + CHUNK_SIZE
        new  == IF align THEN PageAfter(end) ELSE end
        size == IF align THEN PAGE_SIZE - (asked % PAGE_SIZE) ELSE asked
        next == FNext(h, c)
        prev == FPrev(h, c)
    IN h ## <<new + 4, (HeadOf(h, c) - size - CHUNK_SIZE) % MOD>> ## <<new, size>>
         ## <<new + 12, prev>> ## <<new + 8, next>>
         ## If(next # 0, next + 12, new) ## If(prev # 0, prev + 8, new)
         ## If(c = Free(h), h.mngr, new)
         ## <<c + 4, size>> ## <<c + 12, 0>> ## <<c + 8, 0>>

\* The chunk has the size asked for: it leaves the list.
Unlink(h, c) ==
    LET next == FNext(h, c)
        prev == FPrev(h, c)
    IN h ## If(next # 0, next + 12, prev) ## If(prev # 0, prev + 8, next)
         ## If(c = Free(h), h.mngr, next) ## <<c + 12, 0>> ## <<c + 8, 0>>

CmAlloc(h, asked, align) ==
    LET size == IF asked < CHUNK_T - CHUNK_SIZE THEN CHUNK_T - CHUNK_SIZE ELSE asked
        c == FirstFit(h, size, align)
    IN IF c = 0 THEN [heap |-> h, addr |-> 0]
       ELSE [heap |-> IF HeadOf(h, c) > size THEN Split(h, c, size, align) ELSE Unlink(h, c),
             addr |-> c + CHUNK_SIZE]

\* kalloc: by moving alloc_addr until paging has set up the manager.
Kalloc(h, size, align) ==
    IF h.mngr # 0 THEN CmAlloc(h, size, align)
    ELSE LET at == IF align THEN PageAfter(h.brk) ELSE h.brk
         IN [heap |-> [h EXCEPT !.brk = at + size], addr |-> at]

\* _mngr_init, with the assignment to base_mngr: the heap that is one free
\* chunk, on the page after the manager.
MngrInit(h) ==
    LET k == Kalloc(h, MNGR_SIZE, FALSE)
        cm == k.addr
        first == PageAfter(cm + CHUNK_SIZE)
        size == PageAfter(MNGR_SIZE - 2 * CHUNK_SIZE - CHUNK_SIZE)
    IN [k.heap EXCEPT !.mngr = cm]
         ## <<cm, first>> ## <<cm + 4, size>> ## <<first + 4, size>>
         ## <<first, 0>> ## <<first + 12, 0>> ## <<first + 8, 0>>

-----------------------------------------------------------------------------
(* _cm_free: insertion in address order, then merging with the neighbours  *)
(* that prev_foot and head point at.                                       *)

\* The last free chunk before the first one above chunk.
LastBelow(h, chunk) ==
    LET from[c \in Nat] == IF FNext(h, c) = 0 \/ FNext(h, c) > chunk THEN c ELSE from[FNext(h, c)]
    IN from[Free(h)]

InsertFree(h, c) ==
    IF Free(h) = 0 THEN h ## <<h.mngr, c>> ## <<c + 12, 0>> ## <<c + 8, 0>>
    ELSE IF c < Free(h)
    THEN h ## <<Free(h) + 12, c>> ## <<c + 8, Free(h)>> ## <<h.mngr, c>> ## <<c + 12, 0>>
    ELSE LET last == LastBelow(h, c)
             next == FNext(h, last)
         IN IF next = 0 THEN h ## <<c + 12, 0>> ## <<c + 8, 0>> ## <<last + 8, c>>
            ELSE h ## <<c + 12, last>> ## <<c + 8, next>> ## <<next + 12, c>> ## <<last + 8, c>>

\* Fault: the merged chunk keeps the size it had.
CoalesceKeepsHead(h, head, m1, m2) ==
    h ## <<m1 + 8, FNext(h, m2)>> ## If(FNext(h, m2) # 0, FNext(h, m2) + 12, m1)

\* coalesce(head, m1, m2): m1 takes in m2, and the chunk behind learns it.
Coalesce(h, head, m1, m2) ==
    LET next == FNext(h, m2)
    IN h ## <<m1 + 4, head>> ## <<m1 + 8, next>> ## If(next # 0, next + 12, m1)
         ## <<(m1 + head + CHUNK_SIZE) % MOD, head>>

\* The code's test for neighbours that were aligned allocations.
PagedNeighbours(h, c) ==
    /\ FPrev(h, c) % PAGE_SIZE = 0 /\ FNext(h, c) % PAGE_SIZE = 0
    /\ \/ PageAfter(PrevChunk(h, c)) = FPrev(h, c)
       \/ PageAfter(NextChunk(h, c)) = FNext(h, c)

Merge(h, c) ==
    LET paged == PagedNeighbours(h, c)
        prev == IF paged THEN PageAfter(PrevChunk(h, c)) ELSE PrevChunk(h, c)
        next == IF paged THEN PageAfter(NextChunk(h, c)) ELSE NextChunk(h, c)
        joinsPrev == prev = FPrev(h, c)
        joinsNext == next = FNext(h, c)
    IN CASE joinsPrev /\ joinsNext ->
              Coalesce(h, (HeadOf(h, prev) + HeadOf(h, c) + HeadOf(h, next) + 2 * CHUNK_SIZE) % MOD,
                       prev, next)
         [] ~joinsPrev /\ joinsNext ->
              Coalesce(h, (HeadOf(h, c) + HeadOf(h, next) + CHUNK_SIZE) % MOD, c, next)
         [] joinsPrev /\ ~joinsNext ->
              Coalesce(h, (HeadOf(h, prev) + HeadOf(h, c) + CHUNK_SIZE) % MOD, prev, c)
         [] OTHER -> h

-----------------------------------------------------------------------------
(* What the structure is meant to be.                                      *)

FirstChunk(h) == PageAfter(h.mngr + CHUNK_SIZE)
HeapEnd(h) == FirstChunk(h) + CHUNK_SIZE + Word(h, h.mngr + 4)

\* Bound: no run makes this many chunks, so a longer chain is a cycle.
MaxChunks == 16

\* The chunks in address order, by their heads, and the free list; -1 ends a
\* chain that is broken.
Chunks(h) ==
    LET from[c \in Nat, n \in 0..MaxChunks] ==
            IF c = HeapEnd(h) THEN <<>>
            ELSE IF c > HeapEnd(h) \/ n = 0 THEN <<-1>>
            ELSE <<c>> \o from[NextChunk(h, c), n - 1]
    IN from[FirstChunk(h), MaxChunks]
FreeList(h) ==
    LET after(c) == IF c = 0 THEN 0 ELSE FNext(h, c)
        at[n \in 0..MaxChunks] == IF n = 0 THEN Free(h) ELSE after(at[n - 1])
        ends == {n \in 0..MaxChunks : at[n] = 0}
    IN IF ends = {} THEN <<-1>>
       ELSE [k \in 1..(CHOOSE n \in ends : \A m \in ends : n <= m) |-> at[k - 1]]
Elems(s) == {s[i] : i \in DOMAIN s}
Ascending(s) == \A i, j \in DOMAIN s : i < j => s[i] < s[j]

\* The chunks tile the heap; the free list holds, in address order, exactly
\* those that are not given out; and every block given out fits its chunk.
Sound(h, live) ==
    LET chunks == Chunks(h)  free == FreeList(h)
    IN /\ -1 \notin Elems(chunks) \cup Elems(free)
       /\ Ascending(free) /\ Elems(free) \subseteq Elems(chunks)
       /\ {b.at : b \in live} = {c + CHUNK_SIZE : c \in Elems(chunks) \ Elems(free)}
       /\ \A b \in live : b.size <= HeadOf(h, b.at - CHUNK_SIZE)

\* What freeing relies on: every footer repeats the size of the chunk before,
\* and every back link the free chunk before.
FeetRight(h) ==
    LET s == Chunks(h) IN \A i \in DOMAIN s : i > 1 => Foot(h, s[i]) = HeadOf(h, s[i-1])
LinksRight(h) ==
    LET s == FreeList(h)
    IN \A i \in DOMAIN s : FPrev(h, s[i]) = IF i = 1 THEN 0 ELSE s[i-1]
=============================================================================
