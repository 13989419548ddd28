------------------------------- MODULE Loader -------------------------------
(***************************************************************************)
(* From program files to a running kernel: utils/BuildImage.c lays the     *)
(* bootstrap and the programs out on a disk and writes the table of        *)
(* <<sectors, segment, offset>> at the end of the bootstrap;               *)
(* boot/bootstrap.S reads that table backwards, fetches every sector       *)
(* through the BIOS and jumps to the kernel.                               *)
(*                                                                         *)
(* A sector's contents are its name <<file, index>> (file 0 is the         *)
(* bootstrap), and `written' is the log of the BIOS reads: which sector of *)
(* the disk was put at which address.  Addresses are in the scale the      *)
(* constants choose; the code's values are given beside them.              *)
(***************************************************************************)
EXTENDS Integers, Sequences, FiniteSets

CONSTANTS Layouts,      \* command lines: sequences of programs (see Program)
          PARA,         \* 16: bytes a segment number stands for
          SECTOR_SIZE,  \* 512
          WORD,         \* 65536: values of a 16-bit register
          TOP,          \* 0xA0000: first address that is not memory
          BOOT_ADDRESS, \* 0x7C00
          N_INFO,       \* 256: shorts in the array info
          ROOM,         \* zero words at the end of the assembled bootstrap
          TRACK,        \* sectors of a track, as the BIOS reports them
          HEADS,        \* heads, as the BIOS reports them
          TRACKS        \* 80: tracks the loader is willing to read

\* A program argument: n sectors (after copy_file padded the last one), and
\* an address that is "flat" (hi is the number) or a "pair" hi:lo of 16-bit
\* numbers.
Program == [n : Nat, form : {"flat", "pair"}, hi : Nat, lo : 0..(WORD - 1)]

ASSUME LoaderAssumption ==
    /\ Layouts \subseteq Seq(Program)
    /\ {PARA, SECTOR_SIZE, WORD, TOP, TRACK, HEADS, TRACKS} \subseteq Nat \ {0}
    /\ {BOOT_ADDRESS, N_INFO, ROOM} \subseteq Nat
    /\ WORD % SECTOR_SIZE = 0 /\ WORD % PARA = 0
    /\ TRACK > 1 /\ TOP <= WORD * PARA

VARIABLES layout,   \* the program arguments: constant once chosen
          pc,       \* where the builder or the loader is
          image,    \* the disk: a sequence of sector names
          info,     \* the table, first block first
          di,       \* the entry of the table %di points at
          ax,       \* sectors of the block still to read
          es, bx,   \* where the next sector goes
          chs,      \* next sector: [cyl, head, sec]
          cx,       \* tries left for this sector
          written   \* BIOS reads that succeeded: [at, lba]

buildVars == <<layout, image, info>>
loaderVars == <<layout, pc, image, info, di, ax, es, bx, chs, cx, written>>

-----------------------------------------------------------------------------
(* BuildImage.                                                             *)

\* A 16-bit pattern read as a C short.
Short(x) == IF x % WORD < WORD \div 2 THEN x % WORD ELSE (x % WORD) - WORD

\* What process_file computes: both halves of a pair are shorts, so either
\* may be negative and the address with it.
Address(p) == IF p.form = "pair" THEN Short(p.hi) * PARA + Short(p.lo) ELSE p.hi
Valid(p) == p.form = "pair" \/ p.hi < TOP
Fits(p) == Address(p) + p.n * SECTOR_SIZE < TOP

\* The segment and offset stored in the table, as the loader will read them.
Segment(p) == IF p.form = "pair" THEN p.hi ELSE (p.hi \div PARA) % WORD
Offset(p) == IF p.form = "pair" THEN p.lo ELSE p.hi % PARA

Sectors(file, n) == [k \in 1..n |-> <<file, k - 1>>]

\* quit: the builder ends and removes its output; there is no disk to boot.
Quit == pc' = "quit"

\* process_file: the sectors are copied before the address is looked at.
ProcessFile ==
    /\ pc = "build" /\ Len(info) < Len(layout)
    /\ LET p == layout[Len(info) + 1] IN
        /\ image' = image \o Sectors(Len(info) + 1, p.n)
        /\ \/ /\ Valid(p) /\ Fits(p) /\ 3 * (Len(info) + 1) <= N_INFO
              /\ info' = Append(info, [n |-> p.n, seg |-> Segment(p), off |-> Offset(p)])
              /\ UNCHANGED pc
           \/ /\ ~(Valid(p) /\ Fits(p) /\ 3 * (Len(info) + 1) <= N_INFO)
              /\ Quit
              /\ UNCHANGED info
    /\ UNCHANGED <<layout, di, ax, es, bx, chs, cx, written>>

\* main's end: the table may only replace zero words of the bootstrap.
TableFits == 3 * Len(info) <= ROOM
WriteTable ==
    /\ pc = "build" /\ Len(info) = Len(layout)
    /\ IF TableFits THEN pc' = "power" ELSE Quit
    /\ UNCHANGED <<buildVars, di, ax, es, bx, chs, cx, written>>

-----------------------------------------------------------------------------
(* bootstrap.S.  The BIOS has put sector 0 at BOOT_ADDRESS.                *)

\* The entry point: a disk that reports an error freezes the loader; else
\* the second sector of the bootstrap is asked for, right behind the first.
DiskStatus(ok) ==
    /\ pc = "power"
    /\ \/ /\ ok
          /\ pc' = "read" /\ ax' = 1 /\ cx' = 3
          /\ es' = 0 /\ bx' = BOOT_ADDRESS + SECTOR_SIZE
       \/ /\ ~ok
          /\ pc' = "frozen"
          /\ UNCHANGED <<ax, es, bx, cx>>
    /\ UNCHANGED <<buildVars, di, chs, written>>

\* int 0x13: the disk's own numbering of <<cylinder, head, sector>> (external).
Lba(d) == (d.cyl * HEADS + d.head) * TRACK + d.sec - 1

\* The address a sector is read to, and where the one after it goes: only
\* the exact offset OFFSET_LIMIT moves the segment on.
Physical(s, o) == s * PARA + o
OffsetLimit == WORD - SECTOR_SIZE
\* Fault: the segment is never moved on.
StaysInSegment(s, o) == s
NextOffset(o) == IF o = OffsetLimit THEN 0 ELSE (o + SECTOR_SIZE) % WORD
NextSegment(s, o) == IF o = OffsetLimit THEN (s + WORD \div PARA) % WORD ELSE s

\* Fault: the BIOS's largest sector number taken for the number of the
\* first one that is not there.
ShortTrack(d) ==
    IF d.sec < TRACK - 1 THEN [d EXCEPT !.sec = @ + 1]
    ELSE IF d.head < HEADS - 1 THEN [d EXCEPT !.sec = 1, !.head = @ + 1]
    ELSE [cyl |-> d.cyl + 1, head |-> 0, sec |-> 1]

\* readcont2: the sector after d, switching heads and then tracks.
NextSector(d) ==
    IF d.sec < TRACK THEN [d EXCEPT !.sec = @ + 1]
    ELSE IF d.head < HEADS - 1 THEN [d EXCEPT !.sec = 1, !.head = @ + 1]
    ELSE [cyl |-> d.cyl + 1, head |-> 0, sec |-> 1]

\* One successful read.  Running off the last track freezes the loader,
\* whether or not this was the last sector it needed.
ReadSector ==
    /\ pc = "read" /\ Lba(chs) < Len(image)
    /\ written' = Append(written, [at |-> Physical(es, bx), lba |-> Lba(chs)])
    /\ es' = NextSegment(es, bx) /\ bx' = NextOffset(bx)
    /\ IF NextSector(chs).cyl = TRACKS
       THEN /\ pc' = "frozen"
            /\ UNCHANGED <<ax, cx, chs>>
       ELSE /\ chs' = NextSector(chs)
            /\ ax' = ax - 1 /\ cx' = 3
            /\ pc' = IF ax' > 0 THEN "read" ELSE "next"
    /\ UNCHANGED <<buildVars, di>>

\* Fault: the count of tries starts again instead of ending.
RetriesForever ==
    /\ pc = "read"
    /\ cx' = IF cx = 1 THEN 3 ELSE cx - 1
    /\ UNCHANGED <<buildVars, pc, di, ax, es, bx, chs, written>>

\* A failed read: three tries for a sector, then the loader freezes.
ReadFails ==
    /\ pc = "read"
    /\ cx' = cx - 1
    /\ pc' = IF cx' = 0 THEN "frozen" ELSE "read"
    /\ UNCHANGED <<buildVars, di, ax, es, bx, chs, written>>

\* The count word %di points at: the table's, then the zero words left
\* before it, then (no zero word being left) the last word of the GDT.
Count == IF di <= Len(info) THEN info[di].n
         ELSE IF 3 * Len(info) < ROOM THEN 0 ELSE -1

NextBlock ==
    /\ pc = "next"
    /\ \/ /\ Count > 0
          /\ ax' = Count /\ es' = info[di].seg /\ bx' = info[di].off
          /\ di' = di + 1 /\ cx' = 3 /\ pc' = "read"
       \/ /\ Count <= 0
          /\ pc' = IF Count = 0 THEN "go" ELSE "wild"
          /\ UNCHANGED <<ax, es, bx, di, cx>>
    /\ UNCHANGED <<buildVars, chs, written>>

LoaderInit ==
    /\ layout \in Layouts
    /\ pc = "build"
    /\ image = Sectors(0, 2) /\ info = <<>>
    /\ di = 1 /\ ax = 0 /\ es = 0 /\ bx = 0 /\ cx = 0
    /\ chs = [cyl |-> 0, head |-> 0, sec |-> 2]
    /\ written = <<>>

LoaderNext ==
    \/ ProcessFile \/ WriteTable
    \/ \E ok \in BOOLEAN : DiskStatus(ok)
    \/ ReadSector \/ ReadFails
    \/ NextBlock
-----------------------------------------------------------------------------
(* Properties.                                                             *)

\* Where the command line asks for sector k of program p, and the bytes of a
\* sector at a.
Wanted(p, k) == Physical(Segment(p), Offset(p)) + k * SECTOR_SIZE
Bytes(a) == a..(a + SECTOR_SIZE - 1)
Footprint(p) == UNION {Bytes(Wanted(p, k)) : k \in 0..(p.n - 1)}
Bootstrap == Bytes(BOOT_ADDRESS) \cup Bytes(BOOT_ADDRESS + SECTOR_SIZE)

\* What the documented use of the tool gives: programs that are not empty,
\* in memory, apart from each other and from the running bootstrap, and
\* that start on a sector boundary or end in the segment they start in.
Sensible ==
    /\ \A p \in DOMAIN layout :
        /\ layout[p].n > 0
        /\ Footprint(layout[p]) \subseteq 0..(TOP - 1)
        /\ Footprint(layout[p]) \cap Bootstrap = {}
        /\ \/ Offset(layout[p]) % SECTOR_SIZE = 0
           \/ Offset(layout[p]) + layout[p].n * SECTOR_SIZE <= WORD
    /\ \A p, q \in DOMAIN layout :
        p # q => Footprint(layout[p]) \cap Footprint(layout[q]) = {}
    /\ 3 * Len(layout) < ROOM

\* The sector called name is in memory at a, whole: the last read that
\* touched those bytes brought it.
Holds(a, name) ==
    \E w \in DOMAIN written :
        /\ written[w].at = a
        /\ image[written[w].lba + 1] = name
        /\ \A v \in DOMAIN written :
            v > w => Bytes(written[v].at) \cap Bytes(a) = {}

\* When the loader jumps to the kernel, every sector of every program is at
\* the address the command line gave, whatever reads had to be repeated:
\* BuildImage's table, its order, the loader's walk over it, its segment
\* arithmetic and its disk arithmetic agree.
InPlace ==
    pc = "go" /\ Sensible =>
        /\ Holds(BOOT_ADDRESS + SECTOR_SIZE, <<0, 1>>)
        /\ \A p \in DOMAIN layout : \A k \in 0..(layout[p].n - 1) :
            Holds(Wanted(layout[p], k), <<p, k>>)

\* The disk is read once, in its order, behind the boot sector: a repeated
\* try asks for the same sector, and no change of head or track skips one.
DiskInOrder ==
    [][Len(written') > Len(written) =>
        written' = Append(written, [at |-> Physical(es, bx), lba |-> Len(written) + 1])]_loaderVars
=============================================================================
