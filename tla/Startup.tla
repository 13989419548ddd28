------------------------------ MODULE Startup -------------------------------
(***************************************************************************)
(* From power-on to the first process: the loader, then the steps of _init *)
(* (kernel/system.c) that build the kernel's memory: _paging_init          *)
(* (mm/paging.c, mm/framefunc.c), initSMP (smp/bsp.c) with the shell's     *)
(* load_process, and after them whoever calls kalloc and kfree.            *)
(*                                                                         *)
(* Interrupts are off and one processor runs, so the steps are a sequence; *)
(* what varies is the machine: the programs on the disk, reads that fail,  *)
(* memory that is not zero at power-on, and what CPUID answers.            *)
(***************************************************************************)
EXTENDS Loader, Heap

CONSTANTS TABLE_SIZE,    \* 1024: entries of a page table
          TOTAL_FRAMES,  \* PHYS_MEM_SIZE / PAGE_SIZE = 4096
          DirtyFrames,   \* sets of frames whose bit may be set at power-on
          Garbage,       \* what find_frame's caller gets when none is free
          CpuCounts,     \* what CPUID may give as number of processors
          Sizes,         \* sizes later callers of kalloc ask for
          MaxCalls       \* bound: calls of kalloc and kfree after start-up

ASSUME StartupAssumption ==
    /\ TABLE_SIZE \in Nat /\ PAGE_SIZE = 4 * TABLE_SIZE
    /\ TOTAL_FRAMES \in Nat \ {0}
    /\ Garbage \in 0..(TOTAL_FRAMES - 1)
    /\ CpuCounts \subseteq 0..255
    /\ Sizes \subseteq Nat \ {0} /\ \A s \in Sizes : s % 4 = 0
    /\ MaxCalls \in Nat

VARIABLES ic,      \* where _init is: the part of the kernel that runs next
          heap,    \* see Heap
          i,       \* the loop variable of _paging_init, as a page number
          tables,  \* base_dir->tables: table number |-> address
          pages,   \* the page entries falloc has filled: page |-> frame
          taken,   \* frames whose bit is set in frame_loc
          cr3,     \* the directory in use, 0 while paging is off
          first, last,  \* the shell's list of programs
          live,    \* blocks kalloc has given out from the chunks: [at, size]
          freed,   \* whether kfree was ever called
          calls

kernelVars == <<ic, heap, i, tables, pages, taken, cr3, first, last, live, freed, calls>>
vars == <<loaderVars, kernelVars>>

Frames == 0..(TOTAL_FRAMES - 1)
PageOf(a) == a \div PAGE_SIZE

\* The loader jumps to the kernel, which keeps nothing of it.  With a
\* command line that is not sensible, what is there need not be the kernel.
EnterKernel ==
    /\ pc = "go" /\ Sensible
    /\ pc' = "kernel" /\ ic' = "frames"
    /\ layout' = <<>> /\ image' = <<>> /\ info' = <<>> /\ written' = <<>>
    /\ di' = 1 /\ ax' = 0 /\ es' = 0 /\ bx' = 0 /\ cx' = 0
    /\ chs' = [cyl |-> 0, head |-> 0, sec |-> 1]
    /\ taken' \in DirtyFrames
    /\ UNCHANGED <<heap, i, tables, pages, cr3, first, last, live, freed, calls>>

-----------------------------------------------------------------------------
(* _paging_init.                                                           *)

\* The frame bitmap is allocated and cleared, with as many BYTES as it has
\* words: the bits of the last three quarters of the frames stay what the
\* memory held.  Then the directory.
NothingCleared == {}    \* Fault: the bitmap is not cleared
ClearedFrames == 0..(TOTAL_FRAMES \div 4 - 1)
AllocFrames ==
    /\ ic = "frames"
    /\ LET bitmap == Kalloc(heap, TOTAL_FRAMES \div 32, FALSE)
           dir == Kalloc(bitmap.heap, 2 * 4 * TABLE_SIZE, TRUE)
       IN heap' = dir.heap
    /\ taken' = taken \ ClearedFrames
    /\ i' = PageOf(MEM_START)
    /\ ic' = "tables"
    /\ UNCHANGED <<loaderVars, tables, pages, cr3, first, last, live, freed, calls>>

\* get_page(page, 1, dir): its table is allocated if it does not exist.
TableOf(p) == p \div TABLE_SIZE
GetPage(h, t, p) ==
    IF TableOf(p) \in DOMAIN t THEN [heap |-> h, tables |-> t]
    ELSE LET k == Kalloc(h, 4 * TABLE_SIZE, TRUE)
         IN [heap |-> k.heap, tables |-> With(t, TableOf(p), k.addr)]

HeapPage(p) == p * PAGE_SIZE < MEM_START + MNGR_SIZE

MakeTables ==
    /\ ic = "tables"
    /\ IF HeapPage(i)
       THEN /\ LET g == GetPage(heap, tables, i)
               IN heap' = g.heap /\ tables' = g.tables
            /\ i' = i + 1
            /\ UNCHANGED ic
       ELSE /\ ic' = "identity" /\ i' = 0
            /\ UNCHANGED <<heap, tables>>
    /\ UNCHANGED <<loaderVars, pages, taken, cr3, first, last, live, freed, calls>>

\* find_frame: the first frame whose bit is clear; with none, the function
\* falls off its end, and the caller takes what is left in the register
\* (INDEX(total_frames), the loop's bound, in the Makefile's build).
FindFrame(f) == IF Frames \subseteq taken THEN f = Garbage
                ELSE f \in Frames \ taken /\ 0..(f - 1) \subseteq taken

\* falloc(get_page(page)): nothing for a page that has a frame; frame 0
\* counts as none.
Falloc(p) ==
    /\ LET g == GetPage(heap, tables, p)
       IN heap' = g.heap /\ tables' = g.tables
    /\ IF p \in DOMAIN pages /\ pages[p] # 0
       THEN UNCHANGED <<pages, taken>>
       ELSE \E f \in Frames :
              /\ FindFrame(f)
              /\ pages' = With(pages, p, f)
              /\ taken' = taken \cup {f}

\* The memory in use so far, which is where alloc_addr says it ends by then,
\* and a page more.
IdentityMap ==
    /\ ic = "identity"
    /\ IF i * PAGE_SIZE < heap.brk + PAGE_SIZE
       THEN /\ Falloc(i)
            /\ i' = i + 1
            /\ UNCHANGED ic
       ELSE /\ ic' = "mapheap" /\ i' = PageOf(MEM_START)
            /\ UNCHANGED <<heap, tables, pages, taken>>
    /\ UNCHANGED <<loaderVars, cr3, first, last, live, freed, calls>>

MapHeap ==
    /\ ic = "mapheap"
    /\ IF HeapPage(i)
       THEN /\ Falloc(i)
            /\ i' = i + 1
            /\ UNCHANGED ic
       ELSE /\ ic' = "enable"
            /\ UNCHANGED <<heap, i, tables, pages, taken>>
    /\ UNCHANGED <<loaderVars, cr3, first, last, live, freed, calls>>

\* move_page_dir, then _mngr_init.  The directory is the first aligned block.
BaseDir == PageAfter(MEM_START)
EnablePaging ==
    /\ ic = "enable"
    /\ cr3' = BaseDir
    /\ heap' = MngrInit(heap)
    /\ ic' = "smp"
    /\ UNCHANGED <<loaderVars, i, tables, pages, taken, first, last, live, freed, calls>>

-----------------------------------------------------------------------------
(* initSMP, and the shell's list it starts.                                *)

Block(at, size) == [at |-> at, size |-> size]

\* load_process(name, function) with heap h: a node <<name, function, next>>
\* behind the last one.  The list's ends are given and returned.
LoadProcess(h, f, l) ==
    LET k == Kalloc(h, 12, FALSE)
    IN [heap  |-> k.heap ## <<k.addr, 1>> ## <<k.addr + 4, 1>> ## <<k.addr + 8, 0>>
                         ## If(f # 0, l + 8, k.addr),
        first |-> IF f = 0 THEN k.addr ELSE f,
        last  |-> k.addr]

\* checkCPUs: without CPUID, or without the extended functions and with a
\* signature it does not know, -1; else what CPUID says, 0 included.
CheckCPUs == {-1} \cup CpuCounts

\* startup_cpus: infos[1], infos[2], ... become <<apicID, offline>>.  An
\* element of infos has 8 bytes.
OFFLINE == 2
StartupCpus(h, infos, n) ==
    LET ids    == {infos + 8 * p : p \in 1..(n - 1)}
        states == {infos + 8 * p + 4 : p \in 1..(n - 1)}
    IN [h EXCEPT !.mem = [a \in DOMAIN @ \cup ids \cup states |->
                            IF a \in ids THEN (a - infos) \div 8
                            ELSE IF a \in states THEN OFFLINE ELSE @[a]]]

\* initSMP: infos gets a pointer's 4 bytes for every processor.
InitSMP(count) ==
    /\ ic = "smp"
    /\ LET shell == LoadProcess(heap, first, last)
           cpus  == Kalloc(shell.heap, 12, FALSE)
           counts == cpus.heap ## <<cpus.addr, 0>> ## <<cpus.addr + 4, count>>
           infos == Kalloc(counts, 4 * count, FALSE)
       IN /\ first' = shell.first /\ last' = shell.last
          /\ \/ /\ count = -1
                /\ heap' = shell.heap
                /\ live' = {Block(shell.last, 12)}
             \/ /\ count # -1
                /\ heap' = StartupCpus(infos.heap ## <<cpus.addr + 8, infos.addr>>,
                                       infos.addr, count)
                /\ live' = {Block(shell.last, 12), Block(cpus.addr, 12),
                            Block(infos.addr, 4 * count)}
    /\ ic' = "up"
    /\ UNCHANGED <<loaderVars, i, tables, pages, taken, cr3, freed, calls>>

-----------------------------------------------------------------------------
(* The kernel is up.                                                       *)

HeapSound == Sound(heap, live)

\* The shell registers a program (test/cakesh.c).
ShellLoads ==
    /\ ic = "up" /\ calls < MaxCalls /\ HeapSound
    /\ \E s \in {LoadProcess(heap, first, last)} :
          /\ heap' = s.heap /\ first' = s.first /\ last' = s.last
          /\ live' = live \cup {Block(s.last, 12)}
    /\ calls' = calls + 1
    /\ UNCHANGED <<loaderVars, ic, i, tables, pages, taken, cr3, freed>>

\* Any other caller of kalloc.  Aligned blocks are what the USB driver asks
\* for; nobody frees once it has done so.
Alloc(size, align) ==
    /\ ic = "up" /\ calls < MaxCalls
    /\ IF align THEN ~freed ELSE HeapSound \/ ~freed
    /\ \E k \in {Kalloc(heap, size, align)} :
          /\ k.addr # 0
          /\ heap' = k.heap
          /\ live' = live \cup {Block(k.addr, size)}
    /\ calls' = calls + 1
    /\ UNCHANGED <<loaderVars, ic, i, tables, pages, taken, cr3, first, last, freed>>

\* kfree of a block given out.  Bound: not on a heap that is already broken.
Release(b) ==
    /\ ic = "up" /\ calls < MaxCalls /\ HeapSound
    /\ b.at # first /\ b.at # last
    /\ IF b.at = 0 THEN UNCHANGED heap
       ELSE \E inserted \in {InsertFree(heap, b.at - CHUNK_SIZE)} :
              heap' = Merge(inserted, b.at - CHUNK_SIZE)
    /\ live' = live \ {b}
    /\ freed' = TRUE
    /\ calls' = calls + 1
    /\ UNCHANGED <<loaderVars, ic, i, tables, pages, taken, cr3, first, last>>

Init ==
    /\ LoaderInit
    /\ ic = "off"
    /\ heap = [mem |-> <<>>, brk |-> MEM_START, mngr |-> 0]
    /\ i = 0 /\ tables = <<>> /\ pages = <<>> /\ taken = {} /\ cr3 = 0
    /\ first = 0 /\ last = 0
    /\ live = {} /\ freed = FALSE /\ calls = 0

KernelStep ==
    \/ AllocFrames \/ MakeTables \/ IdentityMap \/ MapHeap \/ EnablePaging
    \/ \E count \in CheckCPUs : InitSMP(count)
    \/ ShellLoads
    \/ \E size \in Sizes, align \in BOOLEAN : Alloc(size, align)
    \/ \E b \in live : Release(b)

Next ==
    \/ LoaderNext /\ UNCHANGED kernelVars
    \/ EnterKernel
    \/ KernelStep

Spec == Init /\ [][Next]_vars /\ WF_vars(Next)
-----------------------------------------------------------------------------
(* Properties.                                                             *)

\* While paging is on, everything the kernel used before it - its own image,
\* the frame bitmap, the directory, every page table, the chunk manager -
\* is where it was: its page is mapped to the frame of the same number.
\* _paging_init clears only a quarter of the bitmap; that this is enough
\* depends on how little memory is in use by then.
KernelMapped ==
    cr3 # 0 =>
        /\ \A p \in 0..PageOf(heap.mngr) : p \in DOMAIN pages /\ pages[p] = p
        /\ \A t \in DOMAIN tables : PageOf(tables[t] + 4 * TABLE_SIZE - 1) <= PageOf(heap.mngr)
        /\ \A p \in DOMAIN pages : TableOf(p) \in DOMAIN tables

\* What kalloc has given out is disjoint, and no chunk header lies in it,
\* as long as nobody frees: with aligned requests too, whose chunks record
\* a size that is not theirs.
LiveDisjoint ==
    ic = "up" /\ ~freed =>
        \A b \in live :
            /\ \A d \in live \ {b} : b.at + b.size <= d.at \/ d.at + d.size <= b.at
            /\ \A c \in Elems(FreeList(heap)) \cup {d.at - CHUNK_SIZE : d \in live} :
                c + CHUNK_SIZE <= b.at \/ b.at + b.size <= c

\* A call of kalloc or kfree leaves a sound heap sound, if the footers and
\* back links it finds are right, a chunk it splits has room for another
\* header, and no free chunk starts on a page (_cm_free takes that for an
\* aligned neighbour and merges over what is between).  None of the four
\* stays true by itself, and an aligned request is outside the claim.
RoomToSplit ==
    \A c \in Elems(FreeList(heap)) : \A s \in Sizes \cup {12} :
        HeadOf(heap, c) > s => HeadOf(heap, c) >= s + CHUNK_T
OffPage == \A c \in Elems(FreeList(heap)) : c % PAGE_SIZE # 0
SoundStep ==
    [][ic = "up" /\ HeapSound /\ FeetRight(heap) /\ LinksRight(heap)
        /\ RoomToSplit /\ OffPage
        => HeapSound' \/ \E size \in Sizes : Alloc(size, TRUE)]_vars

\* initSMP leaves the heap fit for use: "a cpus_t structure to hold
\* information about each of the cores" is filled inside its own blocks.
SmpKeepsHeap == ic = "up" /\ calls = 0 => HeapSound

\* Start-up comes to an end: the image is refused, the loader freezes with a
\* message, it jumps to what a senseless command line put there (or reads
\* past its table), or the kernel is up.
StartupEnds == <>(pc \in {"quit", "frozen", "wild"} \/ ic = "up" \/ (pc = "go" /\ ~Sensible))
=============================================================================
