---------------------------- MODULE StartupProofs ----------------------------
(***************************************************************************)
(* BuildImage and the loader, for every disk geometry, every command line  *)
(* and any reads that fail; _paging_init, for every memory at power-on;    *)
(* the heap, for every sequence of allocations.                            *)
(***************************************************************************)
EXTENDS Startup, SequenceTheorems, FiniteSetTheorems, TLAPS

\* The constants, one by one.
LEMMA Constants ==
  /\ PARA \in Nat \ {0} /\ SECTOR_SIZE \in Nat \ {0} /\ WORD \in Nat \ {0}
  /\ TOP \in Nat \ {0} /\ TRACK \in Nat \ {0} /\ HEADS \in Nat \ {0}
  /\ TRACKS \in Nat \ {0}
  /\ BOOT_ADDRESS \in Nat /\ N_INFO \in Nat /\ ROOM \in Nat
  /\ TRACK > 1 /\ TOP <= WORD * PARA
BY LoaderAssumption

-----------------------------------------------------------------------------
(***************************************************************************)
(* Types.                                                                  *)
(***************************************************************************)
Entry == [n : Nat, seg : Nat, off : 0..(WORD - 1)]
Place == [cyl : Nat, head : 0..(HEADS - 1), sec : 1..TRACK]

LoaderTypes ==
  /\ layout \in Seq(Program)
  /\ info \in Seq(Entry) /\ Len(info) <= Len(layout)
  /\ es \in Nat /\ bx \in Nat
  /\ di \in Nat \ {0}
  /\ chs \in Place
  /\ written \in Seq([at : Nat, lba : Int])

\* The next sector, in the BIOS's terms and in the disk's own.
LEMMA NextSectorIs ==
  ASSUME NEW d \in Place
  PROVE  NextSector(d) \in Place /\ Lba(NextSector(d)) = Lba(d) + 1 /\ Lba(d) \in Int
<1> USE Constants
<1> DEFINE c == d.cyl  h == d.head  s == d.sec
<1>1. c \in Nat /\ h \in 0..(HEADS - 1) /\ s \in 1..TRACK
      /\ d = [cyl |-> c, head |-> h, sec |-> s]
  BY DEF Place
<1>2. Lba(d) = (c * HEADS + h) * TRACK + s - 1
  BY DEF Lba
<1> HIDE DEF c, h, s
<1>3. CASE s < TRACK
  <2>1. NextSector(d) = [cyl |-> c, head |-> h, sec |-> s + 1]
    BY <1>1, <1>3 DEF NextSector
  <2>2. Lba(NextSector(d)) = (c * HEADS + h) * TRACK + (s + 1) - 1
    BY <2>1 DEF Lba
  <2> QED BY <2>1, <2>2, <1>1, <1>2, <1>3 DEF Place
<1>4. CASE s = TRACK /\ h < HEADS - 1
  <2>1. NextSector(d) = [cyl |-> c, head |-> h + 1, sec |-> 1]
    <3>1. ~(s < TRACK) /\ d.sec = s /\ d.head = h
      BY <1>1, <1>4
    <3>2. [d EXCEPT !.sec = 1, !.head = @ + 1] = [cyl |-> c, head |-> h + 1, sec |-> 1]
      <4> DEFINE q == [d EXCEPT !.sec = 1]
                 r == [q EXCEPT !.head = h + 1]
      <4>1. q = [cyl |-> c, head |-> h, sec |-> 1]
        BY <1>1
      <4>2. r = [cyl |-> c, head |-> h + 1, sec |-> 1]
        <5> HIDE DEF q
        <5> QED BY <4>1
      <4>3. [d EXCEPT !.sec = 1, !.head = @ + 1] = r
        BY <1>1
      <4> QED BY <4>2, <4>3
    <3> QED BY <3>1, <3>2, <1>4 DEF NextSector
  <2>2. Lba(NextSector(d)) = (c * HEADS + (h + 1)) * TRACK + 1 - 1
    BY <2>1 DEF Lba
  <2>3. (c * HEADS + (h + 1)) * TRACK = (c * HEADS + h) * TRACK + TRACK
    BY <1>1
  <2> QED BY <2>1, <2>2, <2>3, <1>1, <1>2, <1>4 DEF Place
<1>5. CASE s = TRACK /\ h = HEADS - 1
  <2>1. NextSector(d) = [cyl |-> c + 1, head |-> 0, sec |-> 1]
    BY <1>1, <1>5 DEF NextSector
  <2>2. Lba(NextSector(d)) = ((c + 1) * HEADS + 0) * TRACK + 1 - 1
    BY <2>1 DEF Lba
  <2>3. ((c + 1) * HEADS + 0) * TRACK = (c * HEADS + (HEADS - 1)) * TRACK + TRACK
    BY <1>1
  <2> QED BY <2>1, <2>2, <2>3, <1>1, <1>2, <1>5 DEF Place
<1> QED BY <1>1, <1>3, <1>4, <1>5

\* What the table says of a program, as the loader's registers take it.
LEMMA EntryIs ==
  ASSUME NEW p \in Program
  PROVE  Segment(p) \in Nat /\ Offset(p) \in 0..(WORD - 1)
<1> USE Constants
<1>0. PARA <= WORD
  BY LoaderAssumption
<1> DEFINE a == p.hi
<1>1. a \in Nat /\ p.lo \in 0..(WORD - 1)
  BY DEF Program
<1> HIDE DEF a
<1>2. a \div PARA \in Nat
  BY <1>1
<1> DEFINE q == a \div PARA
<1> HIDE DEF q
<1>3. q % WORD \in Nat
  BY <1>2 DEF q
<1>4. a % PARA \in 0..(WORD - 1)
  BY <1>0, <1>1
<1> QED BY <1>1, <1>3, <1>4 DEF Segment, Offset, a, q

\* Every step keeps the types.
LEMMA LoaderTypesKept ==
  ASSUME LoaderTypes, [Next]_vars
  PROVE  LoaderTypes'
<1> USE Constants
<1> DEFINE Read == [at : Nat, lba : Int]
<1>1. CASE ProcessFile
  <2>1. UNCHANGED <<layout, es, bx, di, chs, written>>
    BY <1>1 DEF ProcessFile
  <2>2. CASE UNCHANGED info
    BY <2>1, <2>2 DEF LoaderTypes, Place, Entry, Program
  <2>3. CASE ~UNCHANGED info
    <3> DEFINE p == layout[Len(info) + 1]
               e == [n |-> p.n, seg |-> Segment(p), off |-> Offset(p)]
    <3>1. info' = Append(info, e) /\ Len(info) < Len(layout)
      BY <1>1, <2>3 DEF ProcessFile
    <3>2. Len(info) + 1 \in 1..Len(layout)
      BY <3>1, LenProperties DEF LoaderTypes
    <3>3. p \in Program
      BY <3>2, ElementOfSeq DEF LoaderTypes
    <3> HIDE DEF p
    <3>4. e \in Entry
      BY <3>3, EntryIs DEF Entry, Program
    <3> HIDE DEF e
    <3>5. info' \in Seq(Entry) /\ Len(info') = Len(info) + 1
      BY <3>1, <3>4, AppendProperties DEF LoaderTypes
    <3>6. Len(info') <= Len(layout)
      BY <3>2, <3>5, LenProperties DEF LoaderTypes
    <3> QED BY <3>5, <3>6, <2>1 DEF LoaderTypes, Place, Entry, Program
  <2> QED BY <2>2, <2>3
<1>2. CASE WriteTable \/ ReadFails
  <2>1. UNCHANGED <<layout, info, es, bx, di, chs, written>>
    BY <1>2 DEF WriteTable, ReadFails, buildVars
  <2> QED BY <2>1, Zenon DEF LoaderTypes, Place, Entry, Program
<1>3. CASE \E ok \in BOOLEAN : DiskStatus(ok)
  <2>1. /\ UNCHANGED <<layout, info, di, chs, written>>
        /\ UNCHANGED <<es, bx>> \/ (es' = 0 /\ bx' = BOOT_ADDRESS + SECTOR_SIZE)
    BY <1>3 DEF DiskStatus, buildVars
  <2>2. es' \in Nat /\ bx' \in Nat
    BY <2>1 DEF LoaderTypes
  <2> QED BY <2>1, <2>2 DEF LoaderTypes, Place, Entry, Program
<1>4. CASE ReadSector
  <2>1. /\ UNCHANGED <<layout, info, di>>
        /\ written' = Append(written, [at |-> Physical(es, bx), lba |-> Lba(chs)])
        /\ es' = NextSegment(es, bx) /\ bx' = NextOffset(bx)
        /\ UNCHANGED chs \/ chs' = NextSector(chs)
    BY <1>4 DEF ReadSector, buildVars
  <2>2. chs' \in Place /\ Lba(chs) \in Int
    BY <2>1, NextSectorIs DEF LoaderTypes
  <2>3. es' \in Nat /\ bx' \in Nat
    <3> DEFINE a == es + WORD \div PARA
               b == bx + SECTOR_SIZE
    <3>1. a \in Nat /\ b \in Nat
      BY DEF LoaderTypes
    <3> HIDE DEF a, b
    <3>2. a % WORD \in Nat /\ b % WORD \in Nat
      BY <3>1
    <3> QED BY <3>2, <2>1 DEF NextSegment, NextOffset, LoaderTypes, a, b
  <2>4. Physical(es, bx) \in Nat
    BY DEF Physical, LoaderTypes
  <2>5. [at |-> Physical(es, bx), lba |-> Lba(chs)] \in Read
    BY <2>2, <2>4
  <2>6. written' \in Seq(Read)
    BY <2>1, <2>5, AppendProperties DEF LoaderTypes
  <2> QED BY <2>1, <2>2, <2>3, <2>6 DEF LoaderTypes, Place, Entry, Program
<1>5. CASE NextBlock
  <2>1. UNCHANGED <<layout, info, chs, written>>
    BY <1>5 DEF NextBlock, buildVars
  <2>2. CASE UNCHANGED <<es, bx, di>>
    BY <2>1, <2>2 DEF LoaderTypes, Place, Entry, Program
  <2>3. CASE ~UNCHANGED <<es, bx, di>>
    <3>1. /\ es' = info[di].seg /\ bx' = info[di].off /\ di' = di + 1
          /\ Count > 0
      BY <1>5, <2>3 DEF NextBlock
    <3>2. di \in 1..Len(info)
      BY <3>1, LenProperties DEF LoaderTypes, Count
    <3>3. info[di] \in Entry
      BY <3>2, ElementOfSeq DEF LoaderTypes
    <3>4. es' \in Nat /\ bx' \in Nat /\ di' \in Nat \ {0}
      <4>1. info[di].seg \in Nat /\ info[di].off \in Nat
        BY <3>3 DEF Entry
      <4> QED BY <3>1, <4>1 DEF LoaderTypes
    <3> QED BY <2>1, <3>4 DEF LoaderTypes, Place, Entry, Program
  <2> QED BY <2>2, <2>3
<1>6. CASE EnterKernel
  <2>1. /\ layout' = <<>> /\ info' = <<>> /\ written' = <<>>
        /\ di' = 1 /\ es' = 0 /\ bx' = 0
        /\ chs' = [cyl |-> 0, head |-> 0, sec |-> 1]
    BY <1>6 DEF EnterKernel
  <2>2. chs' \in Place
    BY <2>1 DEF Place
  <2>3. layout' \in Seq(Program) /\ info' \in Seq(Entry) /\ written' \in Seq(Read)
        /\ Len(info') = 0 /\ Len(layout') = 0
    BY <2>1, EmptySeq
  <2> QED BY <2>1, <2>2, <2>3 DEF LoaderTypes, Place, Entry, Program
<1>7. CASE KernelStep \/ UNCHANGED vars
  <2>1. UNCHANGED loaderVars
    BY <1>7 DEF KernelStep, AllocFrames, MakeTables, IdentityMap, MapHeap, EnablePaging,
                InitSMP, ShellLoads, Alloc, Release, vars
  <2> QED BY <2>1, Zenon DEF LoaderTypes, Place, Entry, Program, loaderVars
<1> QED BY <1>1, <1>2, <1>3, <1>4, <1>5, <1>6, <1>7 DEF Next, LoaderNext

-----------------------------------------------------------------------------
(***************************************************************************)
(* The order of the disk.                                                  *)
(***************************************************************************)

\* While the loader reads, it is at the sector after those it has read, which
\* follow the boot sector.
Cursor ==
  pc \in {"build", "power", "read", "next"} =>
    /\ Lba(chs) = Len(written) + 1
    /\ \A v \in 1..Len(written) : written[v].lba = v

\* A read appends the next sector to the log.
LEMMA ReadIs ==
  ASSUME LoaderTypes, Cursor, ReadSector
  PROVE  /\ written' = Append(written, [at |-> Physical(es, bx), lba |-> Len(written) + 1])
         /\ Len(written) \in Nat /\ Len(written') = Len(written) + 1
         /\ \A v \in 1..Len(written) : written'[v] = written[v]
         /\ written'[Len(written) + 1] = [at |-> Physical(es, bx), lba |-> Len(written) + 1]
<1> DEFINE r == [at |-> Physical(es, bx), lba |-> Len(written) + 1]
<1>1. written' = Append(written, r)
  BY DEF ReadSector, Cursor
<1>2. Len(written) \in Nat
  BY LenProperties DEF LoaderTypes
<1>3. r \in [at : Nat, lba : Int]
  <2>1. Physical(es, bx) \in Nat
    BY Constants DEF LoaderTypes, Physical
  <2> QED BY <1>2, <2>1
<1> HIDE DEF r
<1> QED BY <1>1, <1>2, <1>3, AppendProperties DEF r, LoaderTypes

\* Every step keeps the cursor behind what has been read.
LEMMA CursorKept ==
  ASSUME LoaderTypes, Cursor, [Next]_vars
  PROVE  Cursor'
<1>1. CASE ReadSector
  <2>1. CASE pc' \notin {"build", "power", "read", "next"}
    BY <2>1 DEF Cursor
  <2>2. CASE pc' \in {"build", "power", "read", "next"}
    <3>1. chs' = NextSector(chs) /\ pc = "read"
      BY <1>1, <2>2 DEF ReadSector
    <3>2. Lba(chs') = Lba(chs) + 1 /\ Lba(chs) = Len(written) + 1
      BY <3>1, NextSectorIs DEF LoaderTypes, Cursor
    <3>3. Lba(chs)' = Lba(chs')
      BY DEF Lba
    <3>4. Len(written) \in Nat /\ Len(written') = Len(written) + 1
      BY <1>1, ReadIs
    <3>5. \A v \in 1..Len(written') : written'[v].lba = v
      <4> TAKE v \in 1..Len(written')
      <4>1. CASE v \in 1..Len(written)
        BY <4>1, <1>1, <3>1, ReadIs DEF Cursor
      <4>2. CASE v = Len(written) + 1
        BY <4>2, <1>1, ReadIs
      <4> QED BY <4>1, <4>2, <3>4
    <3> QED BY <3>2, <3>3, <3>4, <3>5 DEF Cursor
  <2> QED BY <2>1, <2>2
<1>2. CASE EnterKernel
  BY <1>2 DEF EnterKernel, Cursor
<1>3. CASE KernelStep \/ UNCHANGED vars
  <2>1. UNCHANGED loaderVars
    BY <1>3 DEF KernelStep, AllocFrames, MakeTables, IdentityMap, MapHeap, EnablePaging,
                InitSMP, ShellLoads, Alloc, Release, vars
  <2> QED BY <2>1, Zenon DEF Cursor, Lba, loaderVars
<1>4. CASE ProcessFile \/ WriteTable \/ (\E ok \in BOOLEAN : DiskStatus(ok)) \/ ReadFails
           \/ NextBlock
  <2>1. UNCHANGED <<chs, written>> /\ pc \in {"build", "power", "read", "next"}
    BY <1>4 DEF ProcessFile, WriteTable, DiskStatus, ReadFails, NextBlock, buildVars
  <2> QED BY <2>1 DEF Cursor, Lba
<1> QED BY <1>1, <1>2, <1>3, <1>4 DEF Next, LoaderNext

\* Nothing has been read, and the boot sector is the first sector.
LEMMA LoaderStarts ==
  ASSUME Init
  PROVE  LoaderTypes /\ Cursor
<1> USE Constants
<1>1. /\ layout \in Layouts /\ info = <<>> /\ written = <<>>
      /\ di = 1 /\ es = 0 /\ bx = 0
      /\ chs = [cyl |-> 0, head |-> 0, sec |-> 2]
  BY DEF Init, LoaderInit
<1>2. layout \in Seq(Program)
  BY <1>1, LoaderAssumption
<1>3. info \in Seq(Entry) /\ Len(info) = 0 /\ written \in Seq([at : Nat, lba : Int])
      /\ Len(written) = 0
  BY <1>1, EmptySeq
<1>4. chs \in Place
  BY <1>1 DEF Place
<1>5. Lba(chs) = 1
  <2>1. Lba(chs) = (0 * HEADS + 0) * TRACK + 2 - 1
    BY <1>1 DEF Lba
  <2> QED BY <2>1
<1>6. Len(layout) \in Nat
  BY <1>2, LenProperties
<1> QED BY <1>1, <1>2, <1>3, <1>4, <1>5, <1>6 DEF LoaderTypes, Cursor

\* Types and cursor, in every state of start-up.
THEOREM CursorInvariant == Spec => [](LoaderTypes /\ Cursor)
<1>1. Init => LoaderTypes /\ Cursor
  BY LoaderStarts
<1>2. LoaderTypes /\ Cursor /\ [Next]_vars => (LoaderTypes /\ Cursor)'
  BY LoaderTypesKept, CursorKept
<1> QED BY <1>1, <1>2, PTL DEF Spec

\* bootstrap.S reads the disk once and in its order, for any number of heads
\* and of sectors in a track: neither a repeated try nor a change of head or
\* track skips or repeats one.
THEOREM DiskReadInOrder == Spec => DiskInOrder
<1>1. LoaderTypes /\ Cursor /\ [Next]_vars =>
        [Len(written') > Len(written) =>
           written' = Append(written, [at |-> Physical(es, bx),
                                       lba |-> Len(written) + 1])]_loaderVars
  <2> SUFFICES ASSUME LoaderTypes, Cursor, [Next]_vars, Len(written') > Len(written)
               PROVE  written' = Append(written, [at |-> Physical(es, bx),
                                                  lba |-> Len(written) + 1])
    OBVIOUS
  <2>0. Len(written) \in Nat
    BY LenProperties DEF LoaderTypes
  <2>1. CASE ReadSector
    BY <2>1, ReadIs
  <2>2. CASE EnterKernel
    BY <2>0, <2>2, EmptySeq DEF EnterKernel
  <2>3. CASE KernelStep \/ UNCHANGED vars
    <3>1. UNCHANGED written
      BY <2>3 DEF KernelStep, AllocFrames, MakeTables, IdentityMap, MapHeap, EnablePaging,
                  InitSMP, ShellLoads, Alloc, Release, vars, loaderVars
    <3> QED BY <3>1, <2>0
  <2>4. CASE ProcessFile \/ WriteTable \/ (\E ok \in BOOLEAN : DiskStatus(ok)) \/ ReadFails
             \/ NextBlock
    <3>1. UNCHANGED written
      BY <2>4 DEF ProcessFile, WriteTable, DiskStatus, ReadFails, NextBlock
    <3> QED BY <3>1, <2>0
  <2> QED BY <2>1, <2>2, <2>3, <2>4 DEF Next, LoaderNext
<1> QED BY <1>1, CursorInvariant, PTL DEF Spec, DiskInOrder

-----------------------------------------------------------------------------
(***************************************************************************)
(* Every sector in its place.  The files are the bootstrap, which is       *)
(* number 0, and the programs; a sector is named by its file and its       *)
(* number in it.  All of this is about command lines that are sensible.    *)
(***************************************************************************)
Size(f)  == IF f = 0 THEN 2 ELSE layout[f].n
At(f, k) == IF f = 0 THEN BOOT_ADDRESS + k * SECTOR_SIZE ELSE Wanted(layout[f], k)

\* The sector that follows x on the disk.
After(x) == IF x[2] + 1 < Size(x[1]) THEN <<x[1], x[2] + 1>> ELSE <<x[1] + 1, 0>>

\* The disk holds the files whose entries are in the table, one after the
\* other and each sector once.
Laid ==
  /\ image \in Seq(Nat \X Nat) /\ Len(image) > 0
  /\ image[1] = <<0, 0>>
  /\ image[Len(image)] = <<Len(info), Size(Len(info)) - 1>>
  /\ \A j \in 1..Len(image) : /\ image[j][1] \in 0..Len(info)
                              /\ image[j][2] \in 0..(Size(image[j][1]) - 1)
  /\ \A j \in 1..(Len(image) - 1) : image[j + 1] = After(image[j])
  /\ \A f \in 0..Len(info) : \A k \in 0..(Size(f) - 1) :
       \E j \in 1..Len(image) : image[j] = <<f, k>>
  /\ \A j, l \in 1..Len(image) : image[j] = image[l] => j = l
  /\ \A f \in 1..Len(info) :
       info[f] = [n |-> layout[f].n, seg |-> Segment(layout[f]), off |-> Offset(layout[f])]
  /\ pc # "build" => Len(info) = Len(layout)

\* What has been read is in place; the registers say where the next sector
\* goes, and the loader is at the end of a file between two blocks.
Loaded ==
  /\ pc \in {"build", "power"} => written = <<>> /\ di = 1
  /\ di \in 1..(Len(info) + 1)
  /\ Len(written) < Len(image)
  /\ \A v \in 1..Len(written) :
       /\ written[v].lba = v
       /\ written[v].at = At(image[v + 1][1], image[v + 1][2])
  /\ pc = "read" =>
       /\ ax \in 1..Size(di - 1)
       /\ di = 1 => ax = 1
       /\ After(image[Len(written) + 1]) = <<di - 1, Size(di - 1) - ax>>
       /\ Physical(es, bx) = At(di - 1, Size(di - 1) - ax)
       /\ di > 1 => bx < WORD /\ (bx % SECTOR_SIZE = 0 \/ bx + ax * SECTOR_SIZE <= WORD)
  /\ pc \in {"next", "go"} => image[Len(written) + 1] = <<di - 1, Size(di - 1) - 1>>
  /\ pc = "go" => di = Len(info) + 1

OnTheWay == pc \in {"build", "power", "read", "next", "go"} /\ Sensible
Placing  == OnTheWay => Laid /\ Loaded

-----------------------------------------------------------------------------
(***************************************************************************)
(* Addresses.                                                              *)
(***************************************************************************)

\* Quotient and remainder.
LEMMA Division ==
  ASSUME NEW d \in Nat, d > 0, NEW a \in Nat
  PROVE  a = (a \div d) * d + (a % d)
OBVIOUS

\* Multiples of d, and their remainders.
LEMMA Multiples ==
  ASSUME NEW d \in Nat \ {0}, NEW a \in Nat
  PROVE  /\ a % d = 0 => \E x \in Nat : a = x * d
         /\ a % d = 0 => (a + d) % d = 0
<1>1. ASSUME a % d = 0 PROVE \E x \in Nat : a = x * d
  <2>1. a = (a \div d) * d + (a % d)
    BY Division
  <2>2. a \div d \in Nat
    OBVIOUS
  <2>3. a = (a \div d) * d
    <3> DEFINE y == (a \div d) * d
    <3>1. y \in Nat /\ a = y + (a % d)
      BY <2>1, <2>2
    <3> HIDE DEF y
    <3>2. a = y
      BY <3>1, <1>1
    <3> QED BY <3>2 DEF y
  <2> QED BY <2>2, <2>3
<1>2. ASSUME a % d = 0 PROVE (a + d) % d = 0
  <2>1. PICK x \in Nat : a = x * d
    BY <1>1, <1>2
  <2>2. a + d = (x + 1) * d /\ x + 1 \in Nat
    BY <2>1
  <2>3. ((x + 1) * d) % d = 0
    OBVIOUS
  <2> QED BY <2>2, <2>3
<1> QED BY <1>1, <1>2

\* The loader's segment arithmetic: the next sector goes right behind this
\* one, also over the end of a segment, as long as it is in memory and the
\* block is one that BuildImage can be sensibly asked for.
LEMMA NextIsBehind ==
  ASSUME NEW s \in Nat, NEW o \in 0..(WORD - 1), NEW n \in Nat, n > 1,
         o % SECTOR_SIZE = 0 \/ o + n * SECTOR_SIZE <= WORD,
         Physical(s, o) + SECTOR_SIZE < WORD * PARA
  PROVE  /\ Physical(NextSegment(s, o), NextOffset(o)) = Physical(s, o) + SECTOR_SIZE
         /\ NextOffset(o) \in 0..(WORD - 1)
         /\ \/ NextOffset(o) % SECTOR_SIZE = 0
            \/ NextOffset(o) + (n - 1) * SECTOR_SIZE <= WORD
<1> USE Constants
<1> DEFINE S == SECTOR_SIZE
<1>0. WORD % S = 0 /\ WORD % PARA = 0
  BY LoaderAssumption
<1>1. CASE o = OffsetLimit
  <2> DEFINE q == WORD \div PARA
  <2>1. q \in Nat /\ WORD = q * PARA
    <3>1. WORD = (WORD \div PARA) * PARA + (WORD % PARA)
      BY Division
    <3>2. WORD \div PARA \in Nat
      OBVIOUS
    <3> HIDE DEF q
    <3>3. q * PARA \in Nat /\ WORD = q * PARA + (WORD % PARA)
      BY <3>1, <3>2 DEF q
    <3> QED BY <3>2, <3>3, <1>0 DEF q
  <2> HIDE DEF q
  <2>2. (s + q) * PARA = s * PARA + WORD
    BY <2>1
  <2>3. Physical(s, o) + S = s * PARA + WORD
    BY <1>1 DEF Physical, OffsetLimit
  <2>4. s + q < WORD
    <3>1. (s + q) * PARA < WORD * PARA
      BY <2>2, <2>3
    <3>2. s + q >= WORD => (s + q) * PARA >= WORD * PARA
      BY <2>1
    <3>3. s + q \in Nat
      BY <2>1
    <3> DEFINE m == s + q
               mp == m * PARA
               wp == WORD * PARA
    <3>4. mp \in Nat /\ wp \in Nat /\ m \in Nat
      BY <3>3
    <3>5. mp < wp /\ (m >= WORD => mp >= wp)
      BY <3>1, <3>2
    <3> HIDE DEF m, mp, wp
    <3>6. m < WORD
      BY <3>4, <3>5
    <3> QED BY <3>6 DEF m
  <2> DEFINE m == s + q
  <2>5. m \in 0..(WORD - 1)
    BY <2>1, <2>4
  <2> HIDE DEF m
  <2>6. m % WORD = m
    BY <2>5
  <2>7. NextSegment(s, o) = m /\ NextOffset(o) = 0
    BY <1>1, <2>6 DEF NextSegment, NextOffset, m, q
  <2>8. Physical(m, 0) = (s + q) * PARA
    BY <2>1 DEF Physical, m
  <2>9. 0 % S = 0
    OBVIOUS
  <2> QED BY <2>2, <2>3, <2>7, <2>8, <2>9
<1>2. CASE o # OffsetLimit
  <2>1. o + S < WORD
    <3>1. CASE o % S = 0
      <4>0. o \in Nat /\ S \in Nat \ {0} /\ WORD \in Nat
        OBVIOUS
      <4> HIDE DEF S
      <4>1. PICK x \in Nat : o = x * S
        BY <4>0, <3>1, Multiples
      <4>2. PICK y \in Nat : WORD = y * S
        BY <4>0, <1>0, Multiples
      <4> USE DEF S
      <4>3. x < y
        BY <4>1, <4>2
      <4>4. x # y - 1
        <5>1. (y - 1) * S = WORD - S
          BY <4>2
        <5> QED BY <5>1, <4>1, <1>2 DEF OffsetLimit
      <4>5. x + 1 < y
        BY <4>3, <4>4
      <4>6. (x + 1) * S < y * S
        BY <4>5
      <4>7. (x + 1) * S = x * S + S
        OBVIOUS
      <4> QED BY <4>1, <4>2, <4>6, <4>7
    <3>2. CASE o + n * S <= WORD
      <4>1. n * S >= S + S
        BY SMTT(30)
      <4> DEFINE ns == n * S
      <4>2. ns \in Nat /\ ns >= S + S /\ o + ns <= WORD
        BY <3>2, <4>1
      <4> HIDE DEF ns
      <4> QED BY <4>2
    <3> QED BY <3>1, <3>2
  <2> DEFINE e == o + S
  <2>2. e \in 0..(WORD - 1)
    BY <2>1
  <2> HIDE DEF e
  <2>3. e % WORD = e
    BY <2>2
  <2>4. NextOffset(o) = e /\ NextSegment(s, o) = s
    BY <1>2, <2>3 DEF NextOffset, NextSegment, e
  <2>5. Physical(s, e) = Physical(s, o) + S
    BY DEF Physical, e
  <2>6. e % S = 0 \/ e + (n - 1) * S <= WORD
    <3>1. CASE o % S = 0
      BY <3>1, Multiples DEF e
    <3>2. CASE o + n * S <= WORD
      <4>1. (n - 1) * S = n * S - S
        OBVIOUS
      <4> DEFINE ns == n * S
      <4>2. ns \in Nat /\ o + ns <= WORD /\ (n - 1) * S = ns - S
        BY <3>2, <4>1
      <4> HIDE DEF ns
      <4> QED BY <4>2 DEF e
    <3> QED BY <3>1, <3>2
  <2> QED BY <2>2, <2>4, <2>5, <2>6
<1> QED BY <1>1, <1>2

\* Sectors that start a sector's length from each other share no byte.
LEMMA BytesApart ==
  ASSUME NEW a \in Int, NEW b \in Int, a + SECTOR_SIZE <= b \/ b + SECTOR_SIZE <= a
  PROVE  Bytes(a) \cap Bytes(b) = {}
BY Constants DEF Bytes

\* The bytes a file is asked to be at.
Land(f) == IF f = 0 THEN Bootstrap ELSE Footprint(layout[f])

\* A file's sectors follow each other in memory; a program's are in memory.
LEMMA FileIs ==
  ASSUME layout \in Seq(Program), Sensible, NEW f \in 0..Len(layout)
  PROVE  /\ Size(f) \in Nat \ {0}
         /\ \A k \in Nat : At(f, k) \in Nat /\ At(f, k + 1) = At(f, k) + SECTOR_SIZE
         /\ \A k, m \in Nat : k < m => At(f, k) + SECTOR_SIZE <= At(f, m)
         /\ \A k \in 0..(Size(f) - 1) : Bytes(At(f, k)) \subseteq Land(f)
         /\ f > 0 => \A k \in 0..(Size(f) - 1) : At(f, k) + SECTOR_SIZE <= TOP
<1> USE Constants
<1> DEFINE S == SECTOR_SIZE
<1>1. PICK a \in Nat : \A k \in Nat : At(f, k) = a + k * S
  <2>1. CASE f = 0
    BY <2>1 DEF At
  <2>2. CASE f # 0
    <3>1. f \in 1..Len(layout)
      BY <2>2, LenProperties
    <3>2. layout[f] \in Program
      BY <3>1, ElementOfSeq
    <3>3. Physical(Segment(layout[f]), Offset(layout[f])) \in Nat
      <4>1. Segment(layout[f]) \in Nat /\ Offset(layout[f]) \in Nat
        BY <3>2, EntryIs
      <4> QED BY <4>1 DEF Physical
    <3> QED BY <2>2, <3>3 DEF At, Wanted
  <2> QED BY <2>1, <2>2
<1>2. Size(f) \in Nat \ {0}
  <2>1. CASE f = 0
    BY <2>1 DEF Size
  <2>2. CASE f # 0
    <3>1. f \in 1..Len(layout) /\ f \in DOMAIN layout
      BY <2>2, LenProperties
    <3>2. layout[f] \in Program
      BY <3>1, ElementOfSeq
    <3> QED BY <2>2, <3>1, <3>2 DEF Size, Program, Sensible
  <2> QED BY <2>1, <2>2
<1>3. \A k \in Nat : At(f, k) \in Nat /\ At(f, k + 1) = At(f, k) + S
  <2> TAKE k \in Nat
  <2>1. (k + 1) * S = k * S + S /\ k * S \in Nat
    OBVIOUS
  <2> QED BY <2>1, <1>1
<1>4. \A k, m \in Nat : k < m => At(f, k) + S <= At(f, m)
  <2> TAKE k, m \in Nat
  <2> HAVE k < m
  <2>1. (k + 1) * S = k * S + S /\ k * S \in Nat /\ m * S \in Nat
    OBVIOUS
  <2>2. (k + 1) * S <= m * S
    <3>1. k + 1 <= m
      OBVIOUS
    <3> QED BY <3>1
  <2> DEFINE ks == k * S  ms == m * S
  <2>3. ks + S <= ms /\ ks \in Nat /\ ms \in Nat
    BY <2>1, <2>2
  <2>4. At(f, k) = a + ks /\ At(f, m) = a + ms
    BY <1>1
  <2> HIDE DEF ks, ms
  <2> QED BY <2>3, <2>4
<1>5. \A k \in 0..(Size(f) - 1) : Bytes(At(f, k)) \subseteq Land(f)
  <2> TAKE k \in 0..(Size(f) - 1)
  <2>1. CASE f = 0
    <3>1. k = 0 \/ k = 1
      BY <2>1 DEF Size
    <3>2. At(f, 0) = BOOT_ADDRESS /\ At(f, 1) = BOOT_ADDRESS + S
      BY <2>1 DEF At
    <3> QED BY <2>1, <3>1, <3>2 DEF Land, Bootstrap
  <2>2. CASE f # 0
    BY <2>2 DEF Land, Footprint, At, Size
  <2> QED BY <2>1, <2>2
<1>6. ASSUME f > 0, NEW k \in 0..(Size(f) - 1) PROVE At(f, k) + S <= TOP
  <2>1. f \in DOMAIN layout
    BY <1>6, LenProperties
  <2>2. Bytes(At(f, k)) \subseteq 0..(TOP - 1)
    BY <2>1, <1>5, <1>6 DEF Land, Sensible
  <2>3. At(f, k) \in Nat
    BY <1>2, <1>3
  <2>4. At(f, k) + S - 1 \in Bytes(At(f, k))
    BY <2>3 DEF Bytes
  <2> QED BY <2>2, <2>3, <2>4
<1> QED BY <1>2, <1>3, <1>4, <1>5, <1>6

\* No two sectors are asked to share a byte.
LEMMA SectorsApart ==
  ASSUME layout \in Seq(Program), Sensible,
         NEW f \in 0..Len(layout), NEW k \in 0..(Size(f) - 1),
         NEW g \in 0..Len(layout), NEW m \in 0..(Size(g) - 1),
         <<f, k>> # <<g, m>>
  PROVE  Bytes(At(f, k)) \cap Bytes(At(g, m)) = {}
<1>0. Size(f) \in Nat \ {0} /\ Size(g) \in Nat \ {0} /\ Len(layout) \in Nat
  BY FileIs, LenProperties
<1>1. k \in Nat /\ m \in Nat
  BY <1>0
<1>2. CASE f = g
  <2>1. k < m \/ m < k
    BY <1>1, <1>2
  <2>2. At(f, k) \in Nat /\ At(f, m) \in Nat
    BY <1>1, FileIs
  <2>3. At(f, k) + SECTOR_SIZE <= At(f, m) \/ At(f, m) + SECTOR_SIZE <= At(f, k)
    BY <1>1, <2>1, FileIs
  <2> QED BY <1>2, <2>2, <2>3, BytesApart
<1>3. CASE f # g
  <2>1. Land(f) \cap Land(g) = {}
    <3>1. (f # 0 => f \in DOMAIN layout) /\ (g # 0 => g \in DOMAIN layout)
      BY LenProperties
    <3> QED BY <3>1, <1>3 DEF Land, Sensible
  <2>2. Bytes(At(f, k)) \subseteq Land(f) /\ Bytes(At(g, m)) \subseteq Land(g)
    BY FileIs
  <2> QED BY <2>1, <2>2
<1> QED BY <1>2, <1>3

-----------------------------------------------------------------------------
(***************************************************************************)
(* The builder and the loader keep the sectors in their places.            *)
(***************************************************************************)

\* process_file puts the new file's sectors behind those on the disk.
LEMMA SectorsAppended ==
  ASSUME NEW f \in Nat, NEW n \in Nat, NEW im \in Seq(Nat \X Nat)
  PROVE  /\ im \o Sectors(f, n) \in Seq(Nat \X Nat)
         /\ Len(im \o Sectors(f, n)) = Len(im) + n
         /\ \A j \in 1..Len(im) : (im \o Sectors(f, n))[j] = im[j]
         /\ \A j \in 1..n : (im \o Sectors(f, n))[Len(im) + j] = <<f, j - 1>>
<1> DEFINE t == Sectors(f, n)
<1>1. t \in Seq(Nat \X Nat) /\ Len(t) = n
  <2>1. \A k \in 1..n : <<f, k - 1>> \in Nat \X Nat
    OBVIOUS
  <2>2. t \in [1..n -> Nat \X Nat] /\ DOMAIN t = 1..n
    BY <2>1 DEF Sectors
  <2>3. t \in Seq(Nat \X Nat)
    BY <2>2, SeqDef
  <2>4. Len(t) = n
    BY <2>2, <2>3, LenProperties
  <2> QED BY <2>3, <2>4
<1>2. \A j \in 1..n : t[j] = <<f, j - 1>>
  BY DEF Sectors
<1> HIDE DEF t
<1>3. Len(im) \in Nat
  BY LenProperties
<1>4. im \o t \in Seq(Nat \X Nat) /\ Len(im \o t) = Len(im) + n
  BY <1>1, ConcatProperties
<1>5. \A j \in 1..(Len(im) + Len(t)) :
        (im \o t)[j] = IF j <= Len(im) THEN im[j] ELSE t[j - Len(im)]
  BY <1>1, ConcatProperties
<1>6. \A j \in 1..Len(im) : (im \o t)[j] = im[j]
  BY <1>1, <1>3, <1>5
<1>7. \A j \in 1..n : (im \o t)[Len(im) + j] = <<f, j - 1>>
  <2> TAKE j \in 1..n
  <2>1. (im \o t)[Len(im) + j] = t[Len(im) + j - Len(im)]
    BY <1>1, <1>3, <1>5
  <2> QED BY <2>1, <1>2, <1>3
<1> QED BY <1>4, <1>6, <1>7 DEF t

\* A file that is accepted is laid out behind the others, and the table says
\* where it goes.
LEMMA FileLaid ==
  ASSUME LoaderTypes, Sensible, Laid, Loaded, ProcessFile, pc' = "build"
  PROVE  Laid' /\ Loaded'
<1> DEFINE L == Len(info)  N == Len(image)  f == L + 1  n == layout[f].n
           e == [n |-> n, seg |-> Segment(layout[f]), off |-> Offset(layout[f])]
<1>1. /\ pc = "build" /\ L < Len(layout)
      /\ image' = image \o Sectors(f, n) /\ info' = Append(info, e)
      /\ UNCHANGED <<layout, di, written>>
  BY DEF ProcessFile, Quit
<1>2. L \in Nat /\ N \in Nat \ {0} /\ Len(layout) \in Nat /\ f \in 1..Len(layout)
  BY <1>1, LenProperties DEF LoaderTypes, Laid
<1>3. layout[f] \in Program
  BY <1>2, ElementOfSeq DEF LoaderTypes
<1>4. n \in Nat \ {0} /\ Size(f) = n
  <2>1. Size(f) \in Nat \ {0}
    BY <1>2, FileIs DEF LoaderTypes
  <2>2. f # 0
    BY <1>2
  <2> QED BY <2>1, <2>2 DEF Size
<1>5. e \in Entry
  BY <1>3, EntryIs DEF Entry, Program
<1> HIDE DEF e
<1>6. Len(info') = f /\ info'[f] = e /\ \A g \in 1..L : info'[g] = info[g]
  BY <1>1, <1>5, AppendProperties DEF LoaderTypes
<1>7. /\ image' \in Seq(Nat \X Nat) /\ Len(image') = N + n
      /\ \A j \in 1..N : image'[j] = image[j]
      /\ \A j \in 1..n : image'[N + j] = <<f, j - 1>>
  <2>1. image \in Seq(Nat \X Nat) /\ f \in Nat /\ n \in Nat
    BY <1>2, <1>4 DEF Laid
  <2> HIDE DEF f, n
  <2> QED BY <2>1, <1>1, SectorsAppended, ZenonT(30)
<1> HIDE DEF L, N, f, n
<1>8. f = L + 1
  BY DEF f
<1>9. \A j \in 1..(N + n) : j \in 1..N \/ \E k \in 1..n : j = N + k
  <2> TAKE j \in 1..(N + n)
  <2>1. CASE j > N
    <3>1. j - N \in 1..n /\ j = N + (j - N)
      BY <2>1, <1>2, <1>4
    <3> QED BY <3>1
  <2> QED BY <2>1, <1>2, <1>4
<1>10. \A g : Size(g)' = Size(g)
  BY <1>1 DEF Size
<1>11. \A x : After(x)' = After(x)
  BY <1>1 DEF After, Size
<1> DEFINE OldRange(j) == image[j][1] \in 0..L /\ image[j][2] \in 0..(Size(image[j][1]) - 1)
<1>12. \A j \in 1..N : OldRange(j)
  BY DEF Laid, L, N
<1>13. \A j \in 1..(N + n) : /\ image'[j][1] \in 0..f
                             /\ image'[j][2] \in 0..(Size(image'[j][1]) - 1)
  <2> TAKE j \in 1..(N + n)
  <2>1. CASE j \in 1..N
    <3>1. image'[j] = image[j] /\ OldRange(j)
      BY <2>1, <1>7, <1>12
    <3> QED BY <3>1, <1>2, <1>8
  <2>2. ASSUME NEW k \in 1..n, j = N + k
        PROVE  image'[j][1] \in 0..f /\ image'[j][2] \in 0..(Size(image'[j][1]) - 1)
    <3>1. image'[j] = <<f, k - 1>>
      BY <2>2, <1>7
    <3>2. k - 1 \in 0..(n - 1) /\ f \in 0..f
      BY <1>2, <1>4, <1>8
    <3> QED BY <3>1, <3>2, <1>4
  <2> QED BY <2>1, <2>2, <1>9
<1>14. image'[N + n] = <<f, n - 1>>
  BY <1>4, <1>7
<1>15. image'[1] = <<0, 0>>
  BY <1>2, <1>7, SMTT(30) DEF Laid
<1>16. \A j \in 1..(N + n - 1) : image'[j + 1] = After(image'[j])
  <2> TAKE j \in 1..(N + n - 1)
  <2>1. CASE j < N
    <3>1. j \in 1..N /\ j + 1 \in 1..N /\ j \in 1..(N - 1)
      BY <2>1, <1>2
    <3>2. image[j + 1] = After(image[j])
      BY <3>1 DEF Laid, N
    <3> QED BY <3>1, <3>2, <1>7
  <2>2. CASE j = N
    <3>1. image'[j + 1] = <<f, 0>>
      BY <2>2, <1>4, <1>7
    <3>2. image'[j] = <<L, Size(L) - 1>>
      BY <2>2, <1>2, <1>7 DEF Laid, L, N
    <3>3. Size(L) \in Nat
      <4>1. L \in 0..Len(layout)
        BY <1>2, <1>8
      <4> QED BY <4>1, FileIs DEF LoaderTypes
    <3> QED BY <3>1, <3>2, <3>3, <1>8 DEF After
  <2>3. CASE j > N
    <3>1. PICK k \in 1..n : j = N + k
      BY <2>3, <1>2, <1>4, <1>9
    <3>2. k + 1 \in 1..n /\ j + 1 = N + (k + 1)
      BY <3>1, <1>2, <1>4
    <3>3. image'[j] = <<f, k - 1>> /\ image'[j + 1] = <<f, (k + 1) - 1>>
      BY <3>1, <3>2, <1>7
    <3> QED BY <3>2, <3>3, <1>4 DEF After
  <2> QED BY <2>1, <2>2, <2>3, <1>2
<1>17. \A g \in 0..f : \A k \in 0..(Size(g) - 1) : \E j \in 1..(N + n) : image'[j] = <<g, k>>
  <2> TAKE g \in 0..f
  <2> TAKE k \in 0..(Size(g) - 1)
  <2>1. CASE g # f
    <3>1. g \in 0..L
      BY <2>1, <1>2, <1>8
    <3>2. PICK j \in 1..N : image[j] = <<g, k>>
      BY <3>1 DEF Laid, L, N
    <3>3. j \in 1..(N + n) /\ image'[j] = image[j]
      BY <1>2, <1>4, <1>7
    <3> QED BY <3>2, <3>3
  <2>2. CASE g = f
    <3>1. k + 1 \in 1..n /\ N + (k + 1) \in 1..(N + n)
      BY <2>2, <1>2, <1>4
    <3>2. image'[N + (k + 1)] = <<f, (k + 1) - 1>>
      BY <3>1, <1>7
    <3> QED BY <2>2, <3>1, <3>2, <1>4
  <2> QED BY <2>1, <2>2
<1>18. \A j, l \in 1..(N + n) : image'[j] = image'[l] => j = l
  <2> TAKE j, l \in 1..(N + n)
  <2> HAVE image'[j] = image'[l]
  <2>1. CASE j \in 1..N /\ l \in 1..N
    BY <2>1, <1>7 DEF Laid, N
  <2>2. ASSUME NEW a \in 1..N, NEW b \in 1..n, image'[a] = image'[N + b]
        PROVE  FALSE
    <3>1. image[a] = <<f, b - 1>>
      BY <2>2, <1>7
    <3> QED BY <3>1, <1>2, <1>8, <1>12
  <2>3. ASSUME NEW a \in 1..n, NEW b \in 1..n, j = N + a, l = N + b
        PROVE  j = l
    <3>1. <<f, a - 1>> = <<f, b - 1>>
      BY <2>3, <1>7
    <3>2. a = b
      BY <3>1, <1>4
    <3> QED BY <3>2, <2>3
  <2> QED BY <2>1, <2>2, <2>3, <1>9
<1>19. \A g \in 1..f : info'[g] = [n |-> layout[g].n, seg |-> Segment(layout[g]),
                                   off |-> Offset(layout[g])]
  <2> TAKE g \in 1..f
  <2>1. CASE g = f
    BY <2>1, <1>6 DEF e, f, n
  <2>2. CASE g # f
    <3>1. g \in 1..L
      BY <2>2, <1>2, <1>8
    <3> QED BY <3>1, <1>6 DEF Laid, L
  <2> QED BY <2>1, <2>2
<1>20. Laid'
  <2>1. N + n > 0
    BY <1>2, <1>4
  <2>2. pc' = "build"
    OBVIOUS
  <2>3. (\A j \in 1..Len(image) : /\ image[j][1] \in 0..Len(info)
                                  /\ image[j][2] \in 0..(Size(image[j][1]) - 1))'
    BY <1>6, <1>7, <1>10, <1>13
  <2>4. (\A j \in 1..(Len(image) - 1) : image[j + 1] = After(image[j]))'
    <3>1. \A j : After(image[j])' = After(image'[j])
      BY <1>1 DEF After, Size
    <3>2. \A j \in 1..(N + n - 1) : image'[j + 1] = After(image'[j])
      BY <1>16
    <3>3. Len(image') - 1 = N + n - 1
      BY <1>2, <1>4, <1>7
    <3>4. \A j \in 1..(Len(image') - 1) : image'[j + 1] = After(image'[j])
      BY <3>2, <3>3, Zenon
    <3> QED BY <3>1, <3>4, Zenon
  <2>5. (\A g \in 0..Len(info) : \A k \in 0..(Size(g) - 1) :
           \E j \in 1..Len(image) : image[j] = <<g, k>>)'
    BY <1>6, <1>7, <1>10, <1>17
  <2>6. (image[Len(image)] = <<Len(info), Size(Len(info)) - 1>>)'
    BY <1>1, <1>4, <1>6, <1>7, <1>14 DEF Size
  <2>7. (\A j, l \in 1..Len(image) : image[j] = image[l] => j = l)'
    BY <1>7, <1>18
  <2>8. (\A g \in 1..Len(info) :
           info[g] = [n |-> layout[g].n, seg |-> Segment(layout[g]), off |-> Offset(layout[g])])'
    BY <1>1, <1>6, <1>19 DEF Segment, Offset
  <2>9. (image \in Seq(Nat \X Nat) /\ Len(image) > 0 /\ image[1] = <<0, 0>>)'
    BY <2>1, <1>7, <1>15
  <2>10. (pc # "build" => Len(info) = Len(layout))'
    BY <2>2
  <2> QED BY <2>3, <2>4, <2>5, <2>6, <2>7, <2>8, <2>9, <2>10 DEF Laid
<1>21. Loaded'
  <2>1. written' = <<>> /\ di' = 1 /\ Len(written') = 0
    BY <1>1, EmptySeq DEF Loaded
  <2>2. pc' = "build"
    OBVIOUS
  <2>3. di' \in 1..(Len(info') + 1)
    BY <2>1, <1>2, <1>6
  <2>4. Len(written') < Len(image')
    BY <2>1, <1>2, <1>4, <1>7
  <2> QED BY <2>1, <2>2, <2>3, <2>4 DEF Loaded
<1> QED BY <1>20, <1>21

\* What a step that leaves the disk and the table alone keeps.
LEMMA StaysLaid ==
  ASSUME Laid, UNCHANGED buildVars,
         pc # "build" \/ pc' = "build" \/ Len(info) = Len(layout)
  PROVE  Laid'
BY DEF Laid, Size, After, buildVars

\* The second sector of the bootstrap is asked for right behind the first.
LEMMA BootstrapAsked ==
  ASSUME LoaderTypes, Laid, Loaded, DiskStatus(TRUE)
  PROVE  Laid' /\ Loaded'
<1> USE Constants
<1>1. /\ pc = "power" /\ pc' = "read" /\ ax' = 1
      /\ es' = 0 /\ bx' = BOOT_ADDRESS + SECTOR_SIZE
      /\ UNCHANGED <<layout, image, info, di, written>>
  BY DEF DiskStatus, buildVars
<1>2. Laid'
  BY <1>1, StaysLaid DEF buildVars
<1>3. written = <<>> /\ di = 1 /\ Len(written) = 0
  BY <1>1, EmptySeq DEF Loaded
<1>4. After(image[1]) = <<0, 1>> /\ Size(0) = 2
  BY DEF Laid, After, Size
<1>5. At(0, 1) = BOOT_ADDRESS + SECTOR_SIZE /\ Physical(0, BOOT_ADDRESS + SECTOR_SIZE) = At(0, 1)
  BY DEF At, Physical
<1>6. (pc = "read" =>
         /\ ax \in 1..Size(di - 1)
         /\ di = 1 => ax = 1
         /\ After(image[Len(written) + 1]) = <<di - 1, Size(di - 1) - ax>>
         /\ Physical(es, bx) = At(di - 1, Size(di - 1) - ax)
         /\ di > 1 => bx < WORD /\ (bx % SECTOR_SIZE = 0 \/ bx + ax * SECTOR_SIZE <= WORD))'
  <2>1. (After(image[1]) = <<0, 1>> /\ Size(0) = 2 /\ At(0, 1) = BOOT_ADDRESS + SECTOR_SIZE)'
    BY <1>1, <1>4, <1>5 DEF After, Size, At
  <2>2. (Physical(es, bx) = BOOT_ADDRESS + SECTOR_SIZE)'
    BY <1>1, <1>5 DEF Physical
  <2>3. di' = 1 /\ Len(written') = 0
    BY <1>1, <1>3
  <2>4. ~(di' > 1) /\ di' - 1 = 0 /\ Len(written') + 1 = 1
    BY <2>3
  <2> QED BY <1>1, <2>1, <2>2, <2>4
<1>7. (\A v \in 1..Len(written) :
         /\ written[v].lba = v
         /\ written[v].at = At(image[v + 1][1], image[v + 1][2]))'
  BY <1>1, <1>3
<1>8. Loaded'
  BY <1>1, <1>3, <1>6, <1>7 DEF Loaded
<1> QED BY <1>2, <1>8

\* The sector that was asked for comes, and the registers move on to the one
\* behind it or the file is complete.
LEMMA SectorArrives ==
  ASSUME LoaderTypes, Cursor, Sensible, Laid, Loaded, ReadSector, pc' \in {"read", "next"}
  PROVE  Laid' /\ Loaded'
<1> USE Constants
<1> DEFINE w == Len(written)  f == di - 1  k == Size(f) - ax
<1>1. /\ pc = "read" /\ Lba(chs) < Len(image)
      /\ UNCHANGED <<layout, image, info, di>>
      /\ es' = NextSegment(es, bx) /\ bx' = NextOffset(bx)
      /\ ax' = ax - 1
      /\ pc' = IF ax' > 0 THEN "read" ELSE "next"
  BY DEF ReadSector, buildVars
<1>2. Laid'
  BY <1>1, StaysLaid DEF buildVars
<1>3. /\ w \in Nat /\ Len(written') = w + 1
      /\ \A v \in 1..w : written'[v] = written[v]
      /\ written'[w + 1] = [at |-> Physical(es, bx), lba |-> w + 1]
  BY ReadIs
<1>4. Len(image) \in Nat /\ Len(info) \in Nat /\ Len(layout) \in Nat /\ w + 1 < Len(image)
  BY <1>1, LenProperties DEF LoaderTypes, Laid, Cursor
<1>5. /\ f \in 0..Len(layout) /\ Len(info) = Len(layout)
      /\ Size(f) \in Nat \ {0} /\ ax \in 1..Size(f)
  <2>1. Len(info) = Len(layout)
    BY <1>1 DEF Laid
  <2>2. f \in 0..Len(layout)
    BY <2>1, <1>4 DEF Loaded
  <2> QED BY <2>1, <2>2, <1>1, FileIs DEF Loaded, LoaderTypes
<1>6. image[w + 2] = <<f, k>> /\ Physical(es, bx) = At(f, k) /\ k \in 0..(Size(f) - 1)
  <2>1. image[w + 2] = After(image[w + 1])
    <3>1. w + 1 \in 1..(Len(image) - 1) /\ (w + 1) + 1 = w + 2
      BY <1>3, <1>4
    <3>2. image[(w + 1) + 1] = After(image[w + 1])
      BY <3>1 DEF Laid
    <3> QED BY <3>1, <3>2
  <2>2. image[w + 2] = <<f, k>> /\ Physical(es, bx) = At(f, k)
    BY <2>1, <1>1 DEF Loaded
  <2>3. k \in 0..(Size(f) - 1)
    BY <1>5
  <2> QED BY <2>2, <2>3
<1>7. \A v \in 1..(w + 1) : /\ written'[v].lba = v
                            /\ written'[v].at = At(image[v + 1][1], image[v + 1][2])
  <2> TAKE v \in 1..(w + 1)
  <2>1. CASE v \in 1..w
    BY <2>1, <1>3 DEF Loaded
  <2>2. CASE v = w + 1
    <3>1. image[v + 1] = <<f, k>>
      BY <2>2, <1>3, <1>6
    <3> QED BY <3>1, <2>2, <1>3, <1>6
  <2> QED BY <2>1, <2>2, <1>3
<1>8. \A g : Size(g)' = Size(g) /\ \A m : At(g, m)' = At(g, m)
  BY <1>1 DEF Size, At
<1>9. image'[w + 2] = <<f, k>> /\ di' = di /\ Len(written') + 1 = w + 2
  BY <1>1, <1>3, <1>6
<1>10. ASSUME ax = 1
       PROVE  pc' = "next" /\ image'[Len(written') + 1] = <<f, Size(f) - 1>>
  BY <1>1, <1>9, <1>10
<1>11. ASSUME ax # 1
       PROVE  /\ pc' = "read" /\ di > 1
              /\ ax' \in 1..Size(f)
              /\ After(image[w + 2]) = <<f, Size(f) - ax'>>
              /\ Physical(es', bx') = At(f, Size(f) - ax')
              /\ bx' < WORD /\ (bx' % SECTOR_SIZE = 0 \/ bx' + ax' * SECTOR_SIZE <= WORD)
  <2>1. ax' > 0 /\ ax > 1 /\ ax' \in 1..Size(f) /\ pc' = "read"
    BY <1>1, <1>5, <1>11
  <2>2. di > 1
    BY <1>1, <1>11 DEF Loaded, LoaderTypes
  <2>3. bx \in 0..(WORD - 1) /\ (bx % SECTOR_SIZE = 0 \/ bx + ax * SECTOR_SIZE <= WORD)
    BY <1>1, <2>2 DEF Loaded, LoaderTypes
  <2>4. k + 1 \in 0..(Size(f) - 1) /\ k \in Nat /\ Size(f) - ax' = k + 1
    BY <1>1, <1>5, <2>1
  <2>5. f > 0
    BY <2>2 DEF LoaderTypes
  <2>6. /\ At(f, k) \in Nat /\ At(f, k + 1) = At(f, k) + SECTOR_SIZE
        /\ At(f, k + 1) + SECTOR_SIZE <= TOP
    BY <2>4, <2>5, <1>5, FileIs DEF LoaderTypes
  <2>7. Physical(es, bx) + SECTOR_SIZE < WORD * PARA
    <3> DEFINE wp == WORD * PARA  a == At(f, k)
    <3>1. TOP <= wp /\ wp \in Nat
      OBVIOUS
    <3>2. a \in Nat /\ a + SECTOR_SIZE + SECTOR_SIZE <= TOP
      BY <2>6
    <3>3. Physical(es, bx) = a
      BY <1>6
    <3> HIDE DEF wp, a
    <3>4. a + SECTOR_SIZE < wp
      BY <3>1, <3>2
    <3> QED BY <3>3, <3>4 DEF wp
  <2>8. es \in Nat /\ ax \in Nat
    BY <1>5 DEF LoaderTypes
  <2> HIDE DEF k, f
  <2>9. /\ Physical(NextSegment(es, bx), NextOffset(bx)) = Physical(es, bx) + SECTOR_SIZE
        /\ NextOffset(bx) \in 0..(WORD - 1)
        /\ \/ NextOffset(bx) % SECTOR_SIZE = 0
           \/ NextOffset(bx) + (ax - 1) * SECTOR_SIZE <= WORD
    BY <2>1, <2>3, <2>7, <2>8, NextIsBehind
  <2>10. Physical(es', bx') = At(f, Size(f) - ax')
    BY <2>4, <2>6, <2>9, <1>1, <1>6
  <2>11. After(image[w + 2]) = <<f, k + 1>>
    <3>1. k + 1 < Size(f)
      BY <2>4, <1>5
    <3> QED BY <3>1, <1>6 DEF After
  <2> QED BY <2>1, <2>2, <2>4, <2>9, <2>10, <2>11, <1>1
<1>12. (pc = "read" =>
          /\ ax \in 1..Size(di - 1)
          /\ di = 1 => ax = 1
          /\ After(image[Len(written) + 1]) = <<di - 1, Size(di - 1) - ax>>
          /\ Physical(es, bx) = At(di - 1, Size(di - 1) - ax)
          /\ di > 1 => bx < WORD /\ (bx % SECTOR_SIZE = 0 \/ bx + ax * SECTOR_SIZE <= WORD))'
  <2> SUFFICES ASSUME pc' = "read"
               PROVE  (/\ ax \in 1..Size(di - 1)
                       /\ di = 1 => ax = 1
                       /\ After(image[Len(written) + 1]) = <<di - 1, Size(di - 1) - ax>>
                       /\ Physical(es, bx) = At(di - 1, Size(di - 1) - ax)
                       /\ di > 1 => bx < WORD
                            /\ (bx % SECTOR_SIZE = 0 \/ bx + ax * SECTOR_SIZE <= WORD))'
    OBVIOUS
  <2>1. ax # 1
    BY <1>10
  <2>2. After(image[Len(written) + 1])' = After(image[w + 2])
    <3>1. image'[Len(written') + 1] = image[w + 2]
      BY <1>1, <1>9
    <3> QED BY <3>1, <1>8 DEF After
  <2>3. Size(di - 1)' = Size(f)
    BY <1>1, <1>8
  <2>4. At(di - 1, Size(di - 1) - ax)' = At(f, Size(f) - ax')
    BY <1>1 DEF At, Size
  <2>5. Physical(es, bx)' = Physical(es', bx')
    BY DEF Physical
  <2>6. di' > 1 /\ di' - 1 = f /\ di' # 1
    BY <1>1, <2>1, <1>11, <1>5
  <2> QED BY <2>1, <2>2, <2>3, <2>4, <2>5, <2>6, <1>11
<1>13. (pc \in {"next", "go"} => image[Len(written) + 1] = <<di - 1, Size(di - 1) - 1>>)'
  <2> SUFFICES ASSUME pc' = "next"
               PROVE  (image[Len(written) + 1] = <<di - 1, Size(di - 1) - 1>>)'
    OBVIOUS
  <2>1. ax = 1
    BY <1>11
  <2>2. Size(di - 1)' = Size(f)
    BY <1>1, <1>8
  <2> QED BY <2>1, <2>2, <1>1, <1>10
<1>14. (\A v \in 1..Len(written) :
          /\ written[v].lba = v
          /\ written[v].at = At(image[v + 1][1], image[v + 1][2]))'
  BY <1>1, <1>3, <1>7 DEF At
<1>15. (di \in 1..(Len(info) + 1) /\ Len(written) < Len(image))'
  BY <1>1, <1>3, <1>4 DEF Loaded
<1>16. Loaded'
  BY <1>12, <1>13, <1>14, <1>15 DEF Loaded
<1> QED BY <1>2, <1>16

\* The table is read entry by entry; behind the last one the loader finds a
\* zero and goes to the kernel.
LEMMA BlockChosen ==
  ASSUME LoaderTypes, Sensible, Laid, Loaded, NextBlock
  PROVE  Laid' /\ Loaded'
<1> USE Constants
<1> DEFINE w == Len(written)
<1>1. pc = "next" /\ UNCHANGED <<layout, image, info, written>>
  BY DEF NextBlock, buildVars
<1>2. Laid'
  BY <1>1, StaysLaid DEF buildVars
<1>3. /\ Len(info) = Len(layout) /\ Len(info) \in Nat
      /\ di \in 1..(Len(info) + 1) /\ 3 * Len(info) < ROOM
      /\ image[w + 1] = <<di - 1, Size(di - 1) - 1>>
  BY <1>1, LenProperties DEF Laid, Loaded, LoaderTypes, Sensible
<1>4. \A g : Size(g)' = Size(g) /\ \A m : At(g, m)' = At(g, m)
  BY <1>1 DEF Size, At
<1>5. (/\ \A v \in 1..Len(written) :
            /\ written[v].lba = v
            /\ written[v].at = At(image[v + 1][1], image[v + 1][2])
       /\ Len(written) < Len(image))'
  BY <1>1 DEF Loaded, At
<1>6. CASE di <= Len(info)
  <2> DEFINE p == layout[di]
  <2>1. di \in 1..Len(layout) /\ di \in 0..Len(layout)
    BY <1>3, <1>6
  <2>2. p \in Program
    BY <2>1, ElementOfSeq DEF LoaderTypes
  <2>3. Size(di) = p.n /\ Size(di) \in Nat \ {0}
    <3>1. Size(di) \in Nat \ {0}
      BY <2>1, FileIs DEF LoaderTypes
    <3> QED BY <3>1, <2>1 DEF Size
  <2>4. info[di] = [n |-> p.n, seg |-> Segment(p), off |-> Offset(p)]
    BY <1>3, <2>1 DEF Laid
  <2>5. Count = Size(di) /\ Count > 0
    BY <1>6, <2>3, <2>4 DEF Count
  <2>6. /\ ax' = Size(di) /\ es' = Segment(p) /\ bx' = Offset(p)
        /\ di' = di + 1 /\ pc' = "read"
    <3>1. ax' = Count /\ es' = info[di].seg /\ bx' = info[di].off /\ di' = di + 1 /\ pc' = "read"
      BY <2>3, <2>5 DEF NextBlock
    <3> QED BY <3>1, <2>4, <2>5
  <2>7. Segment(p) \in Nat /\ Offset(p) \in 0..(WORD - 1)
    BY <2>2, EntryIs
  <2>8. Physical(Segment(p), Offset(p)) = At(di, 0)
    BY <2>1, <2>7 DEF At, Wanted, Physical
  <2>9. Offset(p) % SECTOR_SIZE = 0 \/ Offset(p) + Size(di) * SECTOR_SIZE <= WORD
    BY <2>1, <2>3, LenProperties DEF Sensible, LoaderTypes
  <2>10. After(image[w + 1]) = <<di, 0>>
    <3>1. di - 1 \in 0..Len(layout) /\ (di - 1) + 1 = di
      BY <2>1
    <3>2. Size(di - 1) \in Nat \ {0}
      BY <3>1, FileIs DEF LoaderTypes
    <3>3. ~((Size(di - 1) - 1) + 1 < Size(di - 1))
      BY <3>2
    <3> QED BY <3>1, <3>3, <1>3 DEF After
  <2>11. (After(image[Len(written) + 1]) = <<di - 1, Size(di - 1) - ax>>)'
    <3>1. After(image[Len(written) + 1])' = After(image[w + 1])
      BY <1>1, <1>4 DEF After
    <3>2. di' - 1 = di /\ Size(di - 1)' = Size(di) /\ Size(di) - ax' = 0
      <4>1. di' - 1 = di
        BY <2>1, <2>6
      <4> QED BY <4>1, <2>3, <2>6, <1>4
    <3> QED BY <3>1, <3>2, <2>10
  <2>12. (Physical(es, bx) = At(di - 1, Size(di - 1) - ax))'
    <3>1. di' - 1 = di
      BY <2>1, <2>6
    <3>2. Size(di - 1)' = Size(di) /\ Size(di) - ax' = 0
      BY <3>1, <2>3, <2>6, <1>4
    <3>3. At(di - 1, Size(di - 1) - ax)' = At(di, 0)
      <4>1. At(di - 1, Size(di - 1) - ax)' = At(di, Size(di) - ax')
        BY <3>1, <1>1 DEF At, Size
      <4> QED BY <4>1, <3>2
    <3>4. Physical(es, bx)' = Physical(Segment(p), Offset(p))
      BY <2>6 DEF Physical
    <3> QED BY <3>3, <3>4, <2>8
  <2>13. (ax \in 1..Size(di - 1) /\ (di = 1 => ax = 1))'
    <3>1. di' - 1 = di /\ di' # 1
      BY <2>1, <2>6
    <3>2. Size(di - 1)' = Size(di)
      BY <3>1, <1>4
    <3> QED BY <3>1, <3>2, <2>3, <2>6
  <2>14. (di > 1 => bx < WORD /\ (bx % SECTOR_SIZE = 0 \/ bx + ax * SECTOR_SIZE <= WORD))'
    BY <2>6, <2>7, <2>9
  <2>15. (di \in 1..(Len(info) + 1))'
    BY <1>1, <1>3, <1>6, <2>6
  <2>16. Loaded'
    BY <2>6, <2>11, <2>12, <2>13, <2>14, <2>15, <1>5 DEF Loaded
  <2> QED BY <2>16, <1>2
<1>7. CASE ~(di <= Len(info))
  <2>1. di = Len(info) + 1 /\ Count = 0
    BY <1>3, <1>7 DEF Count
  <2>2. pc' = "go" /\ UNCHANGED di
    BY <2>1 DEF NextBlock
  <2>3. (image[Len(written) + 1] = <<di - 1, Size(di - 1) - 1>>)'
    BY <1>1, <1>3, <2>2 DEF Size
  <2>4. (di \in 1..(Len(info) + 1) /\ di = Len(info) + 1)'
    BY <1>1, <1>3, <2>1, <2>2
  <2>5. Loaded'
    BY <2>2, <2>3, <2>4, <1>5 DEF Loaded
  <2> QED BY <2>5, <1>2
<1> QED BY <1>6, <1>7

\* Every step keeps the sectors in their places.
LEMMA PlacingKept ==
  ASSUME LoaderTypes, Cursor, Placing, [Next]_vars
  PROVE  Placing'
<1> SUFFICES ASSUME OnTheWay'
             PROVE  Laid' /\ Loaded'
  BY DEF Placing
<1>1. pc' \in {"build", "power", "read", "next", "go"} /\ Sensible'
  BY DEF OnTheWay
<1>2. UNCHANGED layout => Sensible
  BY <1>1 DEF Sensible
<1>3. CASE ProcessFile
  <2>1. pc = "build" /\ UNCHANGED layout /\ pc' = "build"
    BY <1>1, <1>3 DEF ProcessFile, Quit
  <2> QED BY <2>1, <1>2, <1>3, FileLaid DEF Placing, OnTheWay
<1>4. CASE WriteTable
  <2>1. /\ pc = "build" /\ Len(info) = Len(layout) /\ pc' = "power"
        /\ UNCHANGED <<layout, image, info, di, ax, es, bx, written>>
    BY <1>1, <1>4 DEF WriteTable, Quit, buildVars
  <2>2. Laid /\ Loaded
    BY <2>1, <1>2 DEF Placing, OnTheWay
  <2>3. Laid'
    BY <2>1, <2>2, StaysLaid DEF buildVars
  <2>4. Loaded'
    BY <2>1, <2>2 DEF Loaded, At
  <2> QED BY <2>3, <2>4
<1>5. CASE \E ok \in BOOLEAN : DiskStatus(ok)
  <2>1. DiskStatus(TRUE)
    <3>1. CASE DiskStatus(FALSE)
      BY <3>1, <1>1 DEF DiskStatus
    <3> QED BY <3>1, <1>5
  <2>2. pc = "power" /\ UNCHANGED layout
    BY <2>1 DEF DiskStatus, buildVars
  <2> QED BY <2>1, <2>2, <1>2, BootstrapAsked DEF Placing, OnTheWay
<1>6. CASE ReadSector
  <2>1. pc = "read" /\ UNCHANGED layout /\ pc' \in {"read", "next"}
    BY <1>1, <1>6 DEF ReadSector, buildVars
  <2> QED BY <2>1, <1>2, <1>6, SectorArrives DEF Placing, OnTheWay
<1>7. CASE ReadFails
  <2>1. /\ pc = "read" /\ pc' = "read"
        /\ UNCHANGED <<layout, image, info, di, ax, es, bx, written>>
    BY <1>1, <1>7 DEF ReadFails, buildVars
  <2>2. Laid /\ Loaded
    BY <2>1, <1>2 DEF Placing, OnTheWay
  <2>3. Laid'
    BY <2>1, <2>2, StaysLaid DEF buildVars
  <2>4. Loaded'
    BY <2>1, <2>2 DEF Loaded, At, After, Size, Physical
  <2> QED BY <2>3, <2>4
<1>8. CASE NextBlock
  <2>1. pc = "next" /\ UNCHANGED layout
    BY <1>8 DEF NextBlock, buildVars
  <2> QED BY <2>1, <1>2, <1>8, BlockChosen DEF Placing, OnTheWay
<1>9. CASE EnterKernel
  BY <1>1, <1>9 DEF EnterKernel
<1>10. CASE KernelStep \/ UNCHANGED vars
  <2>1. UNCHANGED loaderVars
    BY <1>10 DEF KernelStep, AllocFrames, MakeTables, IdentityMap, MapHeap, EnablePaging,
                 InitSMP, ShellLoads, Alloc, Release, vars
  <2>2. UNCHANGED <<layout, pc, image, info, di, ax, es, bx, written>>
    BY <2>1 DEF loaderVars
  <2>3. Laid /\ Loaded
    BY <2>2, <1>1, <1>2 DEF Placing, OnTheWay
  <2>4. Laid'
    BY <2>2, <2>3, StaysLaid DEF buildVars
  <2>5. Loaded'
    BY <2>2, <2>3 DEF Loaded, At, After, Size, Physical
  <2> QED BY <2>4, <2>5
<1> QED BY <1>3, <1>4, <1>5, <1>6, <1>7, <1>8, <1>9, <1>10 DEF Next, LoaderNext

\* The builder starts with the two sectors of the bootstrap.
LEMMA PlacingStarts ==
  ASSUME Init
  PROVE  Placing
<1>1. LoaderTypes
  BY LoaderStarts
<1>2. pc = "build" /\ image = Sectors(0, 2) /\ info = <<>> /\ di = 1 /\ written = <<>>
  BY DEF Init, LoaderInit
<1>3. Len(info) = 0 /\ Len(written) = 0
  BY <1>2, EmptySeq
<1>4. image = <<<<0, 0>>, <<0, 1>>>>
  <2>1. Sectors(0, 2) = [k \in 1..2 |-> <<0, k - 1>>]
    BY DEF Sectors
  <2>2. DOMAIN image = 1..2 /\ image[1] = <<0, 0>> /\ image[2] = <<0, 1>>
    BY <2>1, <1>2
  <2>3. image = [k \in 1..2 |-> <<0, k - 1>>]
    BY <2>1, <1>2
  <2>4. \A k \in 1..2 : <<0, k - 1>> = <<<<0, 0>>, <<0, 1>>>>[k]
    <3> TAKE k \in 1..2
    <3>1. k = 1 \/ k = 2
      OBVIOUS
    <3> QED BY <3>1
  <2> QED BY <2>3, <2>4
<1>5. image \in Seq(Nat \X Nat) /\ Len(image) = 2 /\ image[1] = <<0, 0>> /\ image[2] = <<0, 1>>
  BY <1>4
<1>6. \A j \in 1..2 : j = 1 \/ j = 2
  OBVIOUS
<1>7. Size(0) = 2
  BY DEF Size
<1>8. Laid
  <2>1. \A j \in 1..Len(image) : /\ image[j][1] \in 0..Len(info)
                                 /\ image[j][2] \in 0..(Size(image[j][1]) - 1)
    BY <1>3, <1>5, <1>6, <1>7
  <2>2. \A j \in 1..(Len(image) - 1) : image[j + 1] = After(image[j])
    BY <1>5, <1>7 DEF After
  <2>3. \A f \in 0..Len(info) : \A k \in 0..(Size(f) - 1) :
          \E j \in 1..Len(image) : image[j] = <<f, k>>
    <3> SUFFICES ASSUME NEW k \in 0..1 PROVE \E j \in 1..2 : image[j] = <<0, k>>
      BY <1>3, <1>5, <1>7
    <3>1. k = 0 \/ k = 1
      OBVIOUS
    <3> QED BY <3>1, <1>5
  <2>4. \A j, l \in 1..Len(image) : image[j] = image[l] => j = l
    BY <1>5, <1>6
  <2>5. image[Len(image)] = <<Len(info), Size(Len(info)) - 1>>
    BY <1>3, <1>5, <1>7
  <2>6. \A f \in 1..Len(info) : FALSE
    BY <1>3
  <2>7. Len(image) > 0
    BY <1>5
  <2> QED BY <2>1, <2>2, <2>3, <2>4, <2>5, <2>6, <2>7, <1>2, <1>5 DEF Laid
<1>9. Loaded
  BY <1>2, <1>3, <1>5 DEF Loaded
<1> QED BY <1>8, <1>9 DEF Placing

\* What has been read is in its place, in every state of start-up.
THEOREM PlacingInvariant == Spec => []Placing
<1>1. Init => LoaderTypes /\ Cursor /\ Placing
  BY LoaderStarts, PlacingStarts
<1>2. LoaderTypes /\ Cursor /\ Placing /\ [Next]_vars => (LoaderTypes /\ Cursor /\ Placing)'
  BY LoaderTypesKept, CursorKept, PlacingKept
<1> QED BY <1>1, <1>2, PTL DEF Spec

\* Whatever the command line (as long as it is sensible), the disk and the
\* reads that fail: when the loader jumps to the kernel, every sector of
\* every program, and the second one of the bootstrap, is in memory where
\* BuildImage was asked to have it, and no later read has touched it.
THEOREM SectorsInPlace == Spec => []InPlace
<1>1. LoaderTypes /\ Placing => InPlace
  <2> SUFFICES ASSUME LoaderTypes, Placing, pc = "go", Sensible
               PROVE  /\ Holds(BOOT_ADDRESS + SECTOR_SIZE, <<0, 1>>)
                      /\ \A p \in DOMAIN layout : \A k \in 0..(layout[p].n - 1) :
                           Holds(Wanted(layout[p], k), <<p, k>>)
    BY DEF InPlace
  <2> USE Constants
  <2>1. Laid /\ Loaded
    BY DEF Placing, OnTheWay
  <2> DEFINE w == Len(written)
  <2>2. /\ w \in Nat /\ DOMAIN written = 1..w
        /\ Len(image) \in Nat /\ w < Len(image)
        /\ Len(info) = Len(layout) /\ Len(layout) \in Nat /\ DOMAIN layout = 1..Len(layout)
    BY <2>1, LenProperties DEF LoaderTypes, Laid, Loaded
  <2>3. w + 1 = Len(image)
    <3>1. di = Len(info) + 1 /\ image[w + 1] = <<di - 1, Size(di - 1) - 1>>
      BY <2>1 DEF Loaded
    <3>2. image[w + 1] = image[Len(image)]
      BY <3>1, <2>1, <2>2 DEF Laid
    <3>3. w + 1 \in 1..Len(image) /\ Len(image) \in 1..Len(image)
      BY <2>2
    <3> QED BY <3>2, <3>3, <2>1 DEF Laid
  <2>4. \A j \in 1..Len(image) :
          \E f \in 0..Len(layout) : \E k \in 0..(Size(f) - 1) : image[j] = <<f, k>>
    <3> TAKE j \in 1..Len(image)
    <3>1. image[j] \in Nat \X Nat
      BY <2>1, ElementOfSeq DEF Laid
    <3>2. PICK f, k \in Nat : image[j] = <<f, k>>
      BY <3>1
    <3>3. image[j][1] = f /\ image[j][2] = k
      BY <3>2
    <3>4. f \in 0..Len(layout) /\ k \in 0..(Size(f) - 1)
      BY <3>3, <2>1, <2>2 DEF Laid
    <3> QED BY <3>2, <3>4
  <2>5. ASSUME NEW f \in 0..Len(layout), NEW k \in 0..(Size(f) - 1), <<f, k>> # <<0, 0>>
        PROVE  Holds(At(f, k), <<f, k>>)
    <3>1. PICK j \in 1..Len(image) : image[j] = <<f, k>>
      BY <2>1, <2>2 DEF Laid
    <3>2. j # 1
      BY <3>1, <2>1, <2>5 DEF Laid
    <3> DEFINE r == j - 1
    <3>3. r \in 1..w /\ r + 1 = j
      BY <3>2, <2>2, <2>3
    <3>4. written[r].lba = r /\ written[r].at = At(f, k)
      BY <3>1, <3>3, <2>1, SMTT(30) DEF Loaded
    <3>5. ASSUME NEW v \in 1..w, v > r
          PROVE  Bytes(written[v].at) \cap Bytes(At(f, k)) = {}
      <4>1. v + 1 \in 1..Len(image) /\ v + 1 # j
        BY <3>3, <3>5, <2>2, <2>3
      <4>2. PICK g \in 0..Len(layout) : \E m \in 0..(Size(g) - 1) : image[v + 1] = <<g, m>>
        BY <4>1, <2>4
      <4>3. PICK m \in 0..(Size(g) - 1) : image[v + 1] = <<g, m>>
        BY <4>2
      <4>4. <<g, m>> # <<f, k>>
        <5>1. image[v + 1] = image[j] => v + 1 = j
          BY <4>1, <2>1 DEF Laid
        <5> QED BY <5>1, <4>1, <4>3, <3>1
      <4>5. written[v].at = At(g, m)
        <5>1. written[v].at = At(image[v + 1][1], image[v + 1][2])
          BY <2>1 DEF Loaded
        <5>2. image[v + 1][1] = g /\ image[v + 1][2] = m
          BY <4>3
        <5> QED BY <5>1, <5>2
      <4> QED BY <4>4, <4>5, SectorsApart DEF LoaderTypes
    <3> HIDE DEF r
    <3> QED BY <3>1, <3>3, <3>4, <3>5, <2>2 DEF Holds
  <2>6. Holds(BOOT_ADDRESS + SECTOR_SIZE, <<0, 1>>)
    <3>1. 0 \in 0..Len(layout) /\ 1 \in 0..(Size(0) - 1) /\ At(0, 1) = BOOT_ADDRESS + SECTOR_SIZE
      BY <2>2 DEF Size, At
    <3>2. <<0, 1>> # <<0, 0>>
      OBVIOUS
    <3>3. Holds(At(0, 1), <<0, 1>>)
      BY <3>1, <3>2, <2>5
    <3> QED BY <3>1, <3>3
  <2>7. ASSUME NEW p \in DOMAIN layout, NEW k \in 0..(layout[p].n - 1)
        PROVE  Holds(Wanted(layout[p], k), <<p, k>>)
    <3>1. p \in 0..Len(layout) /\ p # 0 /\ <<p, k>> # <<0, 0>>
      BY <2>2
    <3>2. k \in 0..(Size(p) - 1) /\ At(p, k) = Wanted(layout[p], k)
      BY <3>1 DEF Size, At
    <3>3. Holds(At(p, k), <<p, k>>)
      BY <3>1, <3>2, <2>5
    <3> QED BY <3>2, <3>3
  <2> QED BY <2>6, <2>7
<1> QED BY <1>1, CursorInvariant, PlacingInvariant, PTL

-----------------------------------------------------------------------------
(***************************************************************************)
(* Paging: what _paging_init maps, and that a quarter of a cleared bitmap  *)
(* is enough.                                                              *)
(***************************************************************************)

\* Where the page directory is, the first page behind the heap, the table
\* of the heap's last page, and how far memory is allocated when there are
\* n tables: each takes a page, and a page before it.
Directory == LET end == MEM_START + (TOTAL_FRAMES \div 32)
             IN  end - (end % PAGE_SIZE) + PAGE_SIZE
EndPage   == PageOf(MEM_START + MNGR_SIZE)
LastTable == TableOf(EndPage - 1)
InUse(n)  == Directory + 2 * PAGE_SIZE + n * (2 * PAGE_SIZE)

\* What the sizes have to satisfy: what is in use when there is a table for
\* every page up to the heap's end, and a page, fits below the heap's end and
\* in the part of the bitmap that is cleared.  With the source's sizes it is
\* 0x12C000, and the limits are 0x111F000 and 0x400000.
FewTables ==
  /\ InUse(LastTable + 1) + PAGE_SIZE <= MEM_START + MNGR_SIZE
  /\ InUse(LastTable + 1) + PAGE_SIZE <= (TOTAL_FRAMES \div 4) * PAGE_SIZE

\* The sizes, one by one.
LEMMA HeapSizes ==
  /\ PAGE_SIZE \in Nat \ {0} /\ MNGR_SIZE \in Nat \ {0} /\ MEM_START \in Nat \ {0}
  /\ MOD \in Nat \ {0} /\ TABLE_SIZE \in Nat \ {0} /\ TOTAL_FRAMES \in Nat \ {0}
  /\ PAGE_SIZE = 4 * TABLE_SIZE
  /\ MNGR_SIZE % PAGE_SIZE = 0 /\ MEM_START % PAGE_SIZE = 0
  /\ MEM_START + 3 * MNGR_SIZE < MOD
BY HeapAssumption, StartupAssumption

\* Multiplication keeps the order.
LEMMA TimesKeepsOrder ==
  ASSUME NEW d \in Nat \ {0}, NEW a \in Nat, NEW b \in Nat
  PROVE  a < b <=> a * d < b * d
OBVIOUS

\* A quotient is the largest number whose multiple is not above.
LEMMA QuotientIs ==
  ASSUME NEW d \in Nat \ {0}, NEW x \in Nat, NEW n \in Nat
  PROVE  /\ x \div d \in Nat
         /\ n <= x \div d <=> n * d <= x
<1> DEFINE q == x \div d
           r == x % d
           qd == q * d
           nd == n * d
<1>1. q \in Nat /\ r \in 0 .. d - 1 /\ x = q * d + r
  BY Division
<1>2. n <= q => nd <= qd
  <2> HIDE DEF q
  <2> QED BY <1>1, TimesKeepsOrder DEF qd, nd
<1>3. q < n => qd + d <= nd
  <2> HIDE DEF q
  <2>1. q < n => q + 1 <= n /\ q + 1 \in Nat
    BY <1>1
  <2>2. q < n => (q + 1) * d <= n * d
    BY <2>1, <1>1, TimesKeepsOrder
  <2>3. (q + 1) * d = q * d + d
    BY <1>1
  <2> QED BY <2>2, <2>3 DEF qd, nd
<1>4. qd \in Nat /\ nd \in Nat /\ x = qd + r
  <2> HIDE DEF q, r
  <2> QED BY <1>1 DEF qd, nd
<1> HIDE DEF q, r, qd, nd
<1>5. n <= q <=> nd <= x
  BY <1>1, <1>2, <1>3, <1>4
<1> QED BY <1>1, <1>5 DEF q, nd

\* Division keeps the order.
LEMMA DivKeepsOrder ==
  ASSUME NEW d \in Nat \ {0}, NEW a \in Nat, NEW b \in Nat, a <= b
  PROVE  a \div d <= b \div d
<1> DEFINE x == a \div d
           xd == x * d
<1>1. x \in Nat
  BY QuotientIs
<1> HIDE DEF x
<1>2. xd \in Nat
  BY <1>1
<1>3. x <= a \div d <=> xd <= a
  BY <1>1, QuotientIs
<1>4. x <= b \div d <=> xd <= b
  BY <1>1, QuotientIs
<1> HIDE DEF xd
<1>5. x <= b \div d
  <2>1. x <= a \div d
    BY <1>1 DEF x
  <2> QED BY <2>1, <1>2, <1>3, <1>4
<1> QED BY <1>5 DEF x

\* Multiples of d have no remainder.
LEMMA MultipleRemains ==
  ASSUME NEW d \in Nat \ {0}, NEW n \in Nat
  PROVE  (n * d) % d = 0
OBVIOUS

\* Rounding up to the boundary above.
LEMMA Rounding ==
  ASSUME NEW d \in Nat \ {0}, NEW x \in Nat
  PROVE  /\ x - (x % d) + d \in x + 1 .. x + d
         /\ (x - (x % d) + d) % d = 0
<1> DEFINE q == x \div d
           r == x % d
           qd == q * d
           n == q + 1
<1>1. q \in Nat /\ r \in 0 .. d - 1 /\ x = q * d + r
  BY Division
<1>2. n \in Nat /\ n * d = qd + d /\ qd \in Nat
  <2> HIDE DEF q
  <2> QED BY <1>1 DEF qd, n
<1>3. (n * d) % d = 0
  <2> HIDE DEF n
  <2> QED BY <1>2, MultipleRemains
<1>4. x = qd + r
  BY <1>1
<1> HIDE DEF q, r, qd, n
<1>5. x - r + d = qd + d /\ x - r + d \in x + 1 .. x + d
  BY <1>1, <1>2, <1>4
<1>6. (x - r + d) % d = 0
  BY <1>2, <1>3, <1>5
<1> QED BY <1>5, <1>6 DEF r

\* The page boundary above x.
LEMMA PageAfterIs ==
  ASSUME NEW x \in Nat, x + PAGE_SIZE < MOD
  PROVE  /\ PageAfter(x) = x - (x % PAGE_SIZE) + PAGE_SIZE
         /\ PageAfter(x) \in x + 1 .. x + PAGE_SIZE
         /\ PageAfter(x) % PAGE_SIZE = 0
         /\ x % PAGE_SIZE = 0 => PageAfter(x) = x + PAGE_SIZE
<1> DEFINE y == x - (x % PAGE_SIZE) + PAGE_SIZE
<1>1. PAGE_SIZE \in Nat \ {0} /\ MOD \in Nat
  BY HeapSizes
<1>2. y \in x + 1 .. x + PAGE_SIZE /\ y % PAGE_SIZE = 0
  BY <1>1, Rounding
<1>3. x % PAGE_SIZE = 0 => y = x + PAGE_SIZE
  BY <1>1
<1>4. PageAfter(x) = y % MOD
  BY DEF PageAfter
<1> HIDE DEF y
<1>5. y % MOD = y
  <2>1. y \in 0 .. MOD - 1
    BY <1>1, <1>2
  <2> QED BY <1>1, <2>1
<1>6. PageAfter(x) = y
  BY <1>4, <1>5
<1> QED BY <1>2, <1>3, <1>6 DEF y

\* A heap record, and a heap with the same manager and the same memory in
\* use as h.
Record(h) == h = [mem |-> h.mem, brk |-> h.brk, mngr |-> h.mngr]
Same(h, g) == Record(g) /\ g.brk = h.brk /\ g.mngr = h.mngr

\* A store changes the contents of memory.
LEMMA StoreIs ==
  ASSUME NEW h, NEW w
  PROVE  h ## w = h \/ \E m : h ## w = [h EXCEPT !.mem = m]
<1>1. h ## w = Stored(h, w)
  BY DEF ##
<1>2. CASE w = <<>>
  BY <1>1, <1>2 DEF Stored
<1>3. CASE w # <<>>
  <2>1. Stored(h, w) = [h EXCEPT !.mem = With(h.mem, w[1], w[2])]
    BY <1>3 DEF Stored
  <2> QED BY <1>1, <2>1
<1> QED BY <1>2, <1>3

\* The manager, and the memory in use, stay what they are.
LEMMA StoreKeeps ==
  ASSUME NEW h
  PROVE  \A g, w : Same(h, g) => Same(h, g ## w)
<1> SUFFICES ASSUME NEW g, NEW w, Same(h, g) PROVE Same(h, g ## w)
  OBVIOUS
<1>1. CASE g ## w = g
  BY <1>1
<1>2. CASE \E m : g ## w = [g EXCEPT !.mem = m]
  <2>1. PICK m : g ## w = [g EXCEPT !.mem = m]
    BY <1>2
  <2>2. g ## w = [mem |-> m, brk |-> g.brk, mngr |-> g.mngr]
    BY <2>1 DEF Same, Record
  <2> QED BY <2>2 DEF Same, Record
<1> QED BY <1>1, <1>2, StoreIs

\* Taking a chunk, and putting one back, are stores.
LEMMA SplitKeeps ==
  ASSUME NEW h, Record(h), NEW c, NEW asked, NEW align
  PROVE  Same(h, Split(h, c, asked, align)) /\ Same(h, Unlink(h, c))
<1>1. Same(h, h)
  BY DEF Same
<1>2. \A g, w : Same(h, g) => Same(h, g ## w)
  BY StoreKeeps
<1>3. Same(h, Split(h, c, asked, align))
  BY <1>1, <1>2 DEF Split
<1>4. Same(h, Unlink(h, c))
  BY <1>1, <1>2 DEF Unlink
<1> QED BY <1>3, <1>4

\* kalloc, once there is a manager.
LEMMA KallocKeeps ==
  ASSUME NEW h, Record(h), h.mngr # 0, NEW size, NEW align
  PROVE  Same(h, Kalloc(h, size, align).heap)
<1> DEFINE most == IF size < CHUNK_T - CHUNK_SIZE THEN CHUNK_T - CHUNK_SIZE ELSE size
           c == FirstFit(h, most, align)
           g == IF HeadOf(h, c) > most THEN Split(h, c, most, align) ELSE Unlink(h, c)
<1>1. Kalloc(h, size, align).heap = IF c = 0 THEN h ELSE g
  BY DEF Kalloc, CmAlloc
<1>2. Same(h, h)
  BY DEF Same
<1>3. Same(h, g)
  <2> HIDE DEF c, most
  <2> QED BY SplitKeeps
<1> HIDE DEF g, c
<1> QED BY <1>1, <1>2, <1>3

\* kfree.
LEMMA FreeKeeps ==
  ASSUME NEW h, Record(h), NEW c
  PROVE  Same(h, Merge(InsertFree(h, c), c))
<1>1. Same(h, h)
  BY DEF Same
<1>2. \A g, w : Same(h, g) => Same(h, g ## w)
  BY StoreKeeps
<1> DEFINE g == InsertFree(h, c)
<1>3. Same(h, g)
  BY <1>1, <1>2 DEF InsertFree
<1> HIDE DEF g
<1>4. \A head, m1, m2 : Same(h, Coalesce(g, head, m1, m2))
  BY <1>2, <1>3 DEF Coalesce
<1>5. Same(h, Merge(g, c))
  BY <1>3, <1>4, Zenon DEF Merge
<1> QED BY <1>5 DEF g

\* load_process, and what initSMP does once checkCPUs gave it a number.
LEMMA LoadKeeps ==
  ASSUME NEW h, Record(h), h.mngr # 0, NEW f, NEW l
  PROVE  Same(h, LoadProcess(h, f, l).heap)
<1> DEFINE k == Kalloc(h, 12, FALSE)
<1>1. Same(h, k.heap)
  BY KallocKeeps
<1>2. \A g, w : Same(h, g) => Same(h, g ## w)
  BY StoreKeeps
<1>3. LoadProcess(h, f, l).heap =
        k.heap ## <<k.addr, 1>> ## <<k.addr + 4, 1>> ## <<k.addr + 8, 0>>
               ## If(f # 0, l + 8, k.addr)
  BY DEF LoadProcess
<1> HIDE DEF k
<1> QED BY <1>1, <1>2, <1>3

\* So does startup_cpus, which writes into a block.
LEMMA CpusKeep ==
  ASSUME NEW h, NEW g, Same(h, g), NEW a, NEW n
  PROVE  Same(h, StartupCpus(g, a, n))
<1> DEFINE ids == {a + 8 * p : p \in 1..(n - 1)}
           states == {a + 8 * p + 4 : p \in 1..(n - 1)}
           m == [x \in DOMAIN g.mem \cup ids \cup states |->
                   IF x \in ids THEN (x - a) \div 8
                   ELSE IF x \in states THEN OFFLINE ELSE g.mem[x]]
<1>1. StartupCpus(g, a, n) = [g EXCEPT !.mem = m]
  BY DEF StartupCpus
<1> HIDE DEF m
<1>2. StartupCpus(g, a, n) = [mem |-> m, brk |-> g.brk, mngr |-> g.mngr]
  BY <1>1 DEF Same, Record
<1> QED BY <1>2 DEF Same, Record

\* Sums of multiples.
LEMMA SumOfMultiples ==
  ASSUME NEW d \in Nat \ {0}, NEW a \in Nat, NEW n \in Nat, a % d = 0
  PROVE  (a + n * d) % d = 0
<1>1. PICK x \in Nat : a = x * d
  BY Multiples
<1> DEFINE y == x + n
<1>2. y \in Nat /\ a + n * d = y * d
  BY <1>1
<1> HIDE DEF y
<1>3. (y * d) % d = 0
  BY <1>2
<1> QED BY <1>2, <1>3

\* The heap's pages, and the tables they are in.
LEMMA HeapPages ==
  /\ EndPage \in Nat /\ PageOf(MEM_START) \in Nat \ {0} /\ PageOf(MEM_START) < EndPage
  /\ EndPage * PAGE_SIZE = MEM_START + MNGR_SIZE
  /\ LastTable \in Nat
  /\ \A p \in Nat : HeapPage(p) <=> p < EndPage
  /\ \A p \in 0 .. EndPage - 1 : TableOf(p) \in 0 .. LastTable
<1>1. /\ PAGE_SIZE \in Nat \ {0} /\ MNGR_SIZE \in Nat \ {0} /\ MEM_START \in Nat \ {0}
      /\ TABLE_SIZE \in Nat \ {0}
      /\ MNGR_SIZE % PAGE_SIZE = 0 /\ MEM_START % PAGE_SIZE = 0
  BY HeapSizes
<1>2. PICK s \in Nat : MEM_START = s * PAGE_SIZE
  BY <1>1, Multiples
<1>3. PICK m \in Nat : MNGR_SIZE = m * PAGE_SIZE
  BY <1>1, Multiples
<1>4. s # 0 /\ m # 0
  BY <1>1, <1>2, <1>3
<1> DEFINE e == s + m
<1>5. e \in Nat /\ e * PAGE_SIZE = MEM_START + MNGR_SIZE /\ s < e
  BY <1>1, <1>2, <1>3, <1>4
<1> HIDE DEF e
<1>6. \A n \in Nat : (n * PAGE_SIZE) \div PAGE_SIZE = n
  BY <1>1
<1>7. PageOf(MEM_START) = s /\ EndPage = e
  BY <1>2, <1>5, <1>6 DEF PageOf, EndPage
<1>8. ASSUME NEW p \in Nat PROVE HeapPage(p) <=> p < e
  BY <1>1, <1>5, TimesKeepsOrder DEF HeapPage
<1>9. ASSUME NEW p \in 0 .. e - 1 PROVE TableOf(p) \in 0 .. LastTable
  <2>1. p \in Nat /\ e - 1 \in Nat /\ p <= e - 1
    BY <1>5
  <2>2. p \div TABLE_SIZE <= (e - 1) \div TABLE_SIZE
    BY <2>1, <1>1, DivKeepsOrder
  <2>3. p \div TABLE_SIZE \in Nat /\ (e - 1) \div TABLE_SIZE \in Nat
    BY <2>1, <1>1, QuotientIs
  <2> QED BY <2>2, <2>3, <1>7 DEF TableOf, LastTable
<1>10. LastTable \in Nat
  <2>1. e - 1 \in Nat
    BY <1>5
  <2> QED BY <2>1, <1>1, <1>7, QuotientIs DEF TableOf, LastTable
<1> QED BY <1>4, <1>5, <1>7, <1>8, <1>9, <1>10

\* The memory in use with n tables, and with one more.
LEMMA MemoryInUse ==
  ASSUME NEW n \in 0 .. LastTable + 1
  PROVE  /\ InUse(n) \in Nat \ {0} /\ InUse(n) % PAGE_SIZE = 0
         /\ InUse(n + 1) = InUse(n) + 2 * PAGE_SIZE
         /\ InUse(n) <= InUse(LastTable + 1)
<1>1. PAGE_SIZE \in Nat \ {0} /\ MEM_START \in Nat /\ TOTAL_FRAMES \in Nat /\ LastTable \in Nat
  BY HeapSizes, HeapPages
<1>2. Directory \in Nat /\ Directory % PAGE_SIZE = 0
  <2> DEFINE end == MEM_START + (TOTAL_FRAMES \div 32)
  <2>1. end \in Nat
    BY <1>1, QuotientIs
  <2>2. Directory = end - (end % PAGE_SIZE) + PAGE_SIZE
    BY DEF Directory
  <2> HIDE DEF end
  <2>3. Directory \in end + 1 .. end + PAGE_SIZE /\ Directory % PAGE_SIZE = 0
    BY <2>1, <2>2, <1>1, Rounding
  <2> QED BY <2>1, <2>3, <1>1
<1> DEFINE P == 2 * PAGE_SIZE
           last1 == LastTable + 1
           x == n * P
           y == last1 * P
           z == (n + 1) * P
<1>3. P \in Nat \ {0} /\ last1 \in Nat /\ n \in Nat /\ n <= last1
  BY <1>1
<1>4. /\ InUse(n) = Directory + P + x /\ InUse(n + 1) = Directory + P + z
      /\ InUse(LastTable + 1) = Directory + P + y
  BY DEF InUse
<1>5. x \in Nat /\ y \in Nat /\ z = x + P /\ x <= y
  <2> HIDE DEF P, last1
  <2>1. x \in Nat /\ y \in Nat /\ z = x + P
    BY <1>3
  <2>2. n < last1 => x < y
    BY <1>3, TimesKeepsOrder
  <2> QED BY <1>3, <2>1, <2>2
<1>6. InUse(n) % PAGE_SIZE = 0
  <2> DEFINE k == 2 + 2 * n
  <2>1. k \in Nat /\ k * PAGE_SIZE = P + x
    BY <1>1
  <2> HIDE DEF k, x, P
  <2>2. (Directory + k * PAGE_SIZE) % PAGE_SIZE = 0
    BY <1>1, <1>2, <2>1, SumOfMultiples
  <2>3. InUse(n) = Directory + k * PAGE_SIZE
    BY <2>1, <1>2, <1>3, <1>4, <1>5
  <2> QED BY <2>2, <2>3
<1>7. P = 2 * PAGE_SIZE
  OBVIOUS
<1> HIDE DEF x, y, z, P
<1> QED BY <1>1, <1>2, <1>3, <1>4, <1>5, <1>6, <1>7

\* There is room for a page behind it, below the heap's end and in the part
\* of the bitmap that is cleared.
LEMMA MemorySuffices ==
  ASSUME FewTables, NEW n \in 0 .. LastTable + 1
  PROVE  /\ InUse(n) + PAGE_SIZE < MOD
         /\ InUse(n) + PAGE_SIZE <= EndPage * PAGE_SIZE
         /\ InUse(n) + PAGE_SIZE <= (TOTAL_FRAMES \div 4) * PAGE_SIZE
<1>1. /\ PAGE_SIZE \in Nat \ {0} /\ MEM_START \in Nat /\ MNGR_SIZE \in Nat \ {0} /\ MOD \in Nat
      /\ MEM_START + 3 * MNGR_SIZE < MOD /\ EndPage * PAGE_SIZE = MEM_START + MNGR_SIZE
      /\ LastTable \in Nat
  BY HeapSizes, HeapPages
<1> DEFINE most == InUse(LastTable + 1)
           top == (TOTAL_FRAMES \div 4) * PAGE_SIZE
           end == EndPage * PAGE_SIZE
<1>2. InUse(n) \in Nat /\ InUse(n) <= most
  BY MemoryInUse
<1>3. most \in Nat
  <2>1. LastTable + 1 \in 0 .. LastTable + 1
    BY <1>1
  <2> QED BY <2>1, MemoryInUse
<1>4. top \in Nat
  <2> DEFINE t == TOTAL_FRAMES \div 4
  <2>1. t \in Nat
    BY HeapSizes, QuotientIs
  <2> HIDE DEF t
  <2>2. t * PAGE_SIZE \in Nat
    BY <2>1, <1>1
  <2> QED BY <2>2 DEF t
<1>5. most + PAGE_SIZE <= MEM_START + MNGR_SIZE /\ most + PAGE_SIZE <= top
  BY DEF FewTables
<1>6. end = MEM_START + MNGR_SIZE
  BY <1>1
<1> HIDE DEF most, top, end
<1>7. InUse(n) + PAGE_SIZE < MOD /\ InUse(n) + PAGE_SIZE <= end /\ InUse(n) + PAGE_SIZE <= top
  BY <1>1, <1>2, <1>3, <1>4, <1>5, <1>6
<1> QED BY <1>7 DEF top, end

\* Memory and tables before there is a manager: tables for pages up to the
\* heap's end, all below where the memory in use ends, and nothing else
\* behind the directory.
Tabled(h, t) ==
  /\ Record(h) /\ h.mngr = 0 /\ DOMAIN h.mem = {}
  /\ DOMAIN t \subseteq 0 .. LastTable
  /\ h.brk = InUse(Cardinality(DOMAIN t))
  /\ \A x \in DOMAIN t : t[x] \in Nat /\ t[x] + PAGE_SIZE <= h.brk

\* The number of tables.
LEMMA TabledSize ==
  ASSUME NEW h, NEW t, Tabled(h, t)
  PROVE  IsFiniteSet(DOMAIN t) /\ Cardinality(DOMAIN t) \in 0 .. LastTable + 1
<1>1. LastTable \in Nat
  BY HeapPages
<1>2. IsFiniteSet(0 .. LastTable) /\ Cardinality(0 .. LastTable) = LastTable + 1
  BY <1>1, FS_Interval
<1>3. /\ IsFiniteSet(DOMAIN t)
      /\ Cardinality(DOMAIN t) <= LastTable + 1
  <2>1. DOMAIN t \in SUBSET (0 .. LastTable)
    BY DEF Tabled
  <2>2. Cardinality(DOMAIN t) <= Cardinality(0 .. LastTable)
    BY <2>1, <1>2, FS_Subset
  <2>3. IsFiniteSet(DOMAIN t)
    BY <2>1, <1>2, FS_Subset
  <2> QED BY <2>2, <2>3, <1>2
<1>4. Cardinality(DOMAIN t) \in Nat
  BY <1>3, FS_CardinalityType
<1> QED BY <1>1, <1>3, <1>4

\* A function with one more argument mapped: where it is defined, and what
\* it is at that argument and at the others.
LEMMA WithDomain ==
  ASSUME NEW f, NEW x, NEW v
  PROVE  DOMAIN With(f, x, v) = DOMAIN f \cup {x}
BY DEF With

\* ... at the argument mapped ...
LEMMA WithAt ==
  ASSUME NEW f, NEW x, NEW v
  PROVE  With(f, x, v)[x] = v
BY DEF With

\* ... and at every other.
LEMMA WithElsewhere ==
  ASSUME NEW f, NEW x, NEW v, NEW y \in DOMAIN f, y # x
  PROVE  With(f, x, v)[y] = f[y]
BY DEF With

\* get_page allocates a page for a table that is missing.
LEMMA GetPageKeeps ==
  ASSUME FewTables, NEW h, NEW t, Tabled(h, t), NEW p \in 0 .. EndPage - 1
  PROVE  /\ Tabled(GetPage(h, t, p).heap, GetPage(h, t, p).tables)
         /\ DOMAIN GetPage(h, t, p).tables = DOMAIN t \cup {TableOf(p)}
         /\ TableOf(p) \in DOMAIN t => GetPage(h, t, p).heap = h /\ GetPage(h, t, p).tables = t
<1> DEFINE x == TableOf(p)
           n == Cardinality(DOMAIN t)
<1>1. x \in 0 .. LastTable
  BY HeapPages
<1>2. CASE x \in DOMAIN t
  <2>1. GetPage(h, t, p).heap = h /\ GetPage(h, t, p).tables = t
    BY <1>2 DEF GetPage
  <2> QED BY <2>1, <1>2
<1>3. CASE x \notin DOMAIN t
  <2>1. IsFiniteSet(DOMAIN t) /\ n \in 0 .. LastTable + 1
    BY TabledSize
  <2> DEFINE at == PageAfter(h.brk)
             g == [h EXCEPT !.brk = at + 4 * TABLE_SIZE]
             u == With(t, x, at)
  <2>2. GetPage(h, t, p) = [heap |-> g, tables |-> u]
    BY <1>3 DEF GetPage, Kalloc, Tabled
  <2>3. PAGE_SIZE \in Nat \ {0} /\ PAGE_SIZE = 4 * TABLE_SIZE /\ MOD \in Nat
    BY HeapSizes
  <2>4. /\ h.brk = InUse(n) /\ h.brk \in Nat /\ h.brk % PAGE_SIZE = 0
        /\ InUse(n + 1) = h.brk + 2 * PAGE_SIZE
        /\ h.brk + PAGE_SIZE < MOD
    <3>1. h.brk = InUse(n)
      BY DEF Tabled
    <3> HIDE DEF n
    <3> QED BY <3>1, <2>1, MemoryInUse, MemorySuffices
  <2>5. at = h.brk + PAGE_SIZE
    BY <2>3, <2>4, PageAfterIs
  <2>6. DOMAIN u = DOMAIN t \cup {x} /\ u[x] = at /\ \A y \in DOMAIN t : u[y] = t[y]
    <3>1. DOMAIN u = DOMAIN t \cup {x}
      BY WithDomain
    <3>2. u[x] = at
      BY WithAt
    <3>3. \A y \in DOMAIN t : u[y] = t[y]
      BY <1>3, WithElsewhere
    <3> QED BY <3>1, <3>2, <3>3
  <2>7. Cardinality(DOMAIN u) = n + 1
    BY <2>1, <2>6, <1>3, FS_AddElement
  <2> HIDE DEF at, u, x, n
  <2>8. g = [mem |-> h.mem, brk |-> InUse(n + 1), mngr |-> 0]
    BY <2>3, <2>4, <2>5 DEF Tabled, Record
  <2>9. Record(g) /\ g.mngr = 0 /\ g.brk = InUse(n + 1) /\ DOMAIN g.mem = {}
    <3> HIDE DEF g
    <3>1. DOMAIN h.mem = {}
      BY DEF Tabled
    <3> QED BY <2>8, <3>1 DEF Record
  <2> HIDE DEF g
  <2>10. ASSUME NEW y \in DOMAIN u PROVE u[y] \in Nat /\ u[y] + PAGE_SIZE <= g.brk
    <3>1. CASE y = x
      BY <3>1, <2>3, <2>4, <2>5, <2>6, <2>9
    <3>2. CASE y \in DOMAIN t
      <4>1. u[y] = t[y] /\ t[y] \in Nat /\ t[y] + PAGE_SIZE <= h.brk
        BY <3>2, <2>6 DEF Tabled
      <4> QED BY <4>1, <2>3, <2>4, <2>9
    <3> QED BY <3>1, <3>2, <2>6
  <2>11. DOMAIN u \subseteq 0 .. LastTable
    BY <1>1, <2>6 DEF Tabled
  <2>12. Tabled(g, u)
    BY <2>7, <2>9, <2>10, <2>11 DEF Tabled
  <2>13. GetPage(h, t, p).heap = g /\ GetPage(h, t, p).tables = u
    BY <2>2
  <2> QED BY <1>3, <2>6, <2>12, <2>13 DEF x
<1> QED BY <1>2, <1>3

\* The invariant.  While the tables are made, those of the pages before i
\* exist, and no cleared bit is set.  While the memory in use is mapped, the
\* frames handed out are the pages' own, one after the other: the cleared
\* bits that are set are those of the pages before i.  From then on every
\* page up to the memory in use has its frame; the heap's pages need no new
\* table, so the memory in use stays what it was until it becomes the
\* address of the manager.
AllTabled == \A p \in PageOf(MEM_START) .. EndPage - 1 : TableOf(p) \in DOMAIN tables
PagesTabled == \A p \in DOMAIN pages : TableOf(p) \in DOMAIN tables
Identity(p) == p \in DOMAIN pages /\ pages[p] = p

BeforePaging ==
  /\ Record(heap) /\ heap.brk = MEM_START /\ heap.mngr = 0 /\ DOMAIN heap.mem = {}
  /\ DOMAIN pages = {} /\ DOMAIN tables = {}
MakingTables ==
  /\ Tabled(heap, tables)
  /\ DOMAIN pages = {}
  /\ i \in PageOf(MEM_START) .. EndPage
  /\ \A p \in PageOf(MEM_START) .. i - 1 : TableOf(p) \in DOMAIN tables
  /\ taken \cap ClearedFrames = {}
MappingIdentity ==
  /\ Tabled(heap, tables) /\ AllTabled /\ PagesTabled
  /\ i \in Nat
  /\ DOMAIN pages = 0 .. i - 1 /\ \A p \in 0 .. i - 1 : pages[p] = p
  /\ 0 .. i - 1 \subseteq taken
  /\ taken \cap ClearedFrames \subseteq 0 .. i - 1
MappingHeap ==
  /\ Tabled(heap, tables) /\ AllTabled /\ PagesTabled
  /\ i \in Nat /\ i >= PageOf(MEM_START)
  /\ \A p \in 0 .. PageOf(heap.brk) : Identity(p)
PagingOn ==
  /\ Record(heap) /\ heap.mngr \in Nat \ {0}
  /\ PagesTabled
  /\ \A p \in 0 .. PageOf(heap.mngr) : Identity(p)
  /\ \A x \in DOMAIN tables : tables[x] \in Nat /\ tables[x] + PAGE_SIZE <= heap.mngr

Paging ==
  /\ ic \in {"off", "frames", "tables", "identity", "mapheap", "enable", "smp", "up"}
  /\ ic = "off" <=> pc # "kernel"
  /\ ic \notin {"smp", "up"} => cr3 = 0
  /\ ic \in {"off", "frames"} => BeforePaging
  /\ ic = "tables" => MakingTables
  /\ ic = "identity" => MappingIdentity
  /\ ic \in {"mapheap", "enable"} => MappingHeap
  /\ ic \in {"smp", "up"} => PagingOn

\* Nothing is mapped before the loader jumps to the kernel.
LEMMA PagingStarts ==
  ASSUME Init
  PROVE  Paging
<1>1. pc = "build" /\ ic = "off" /\ cr3 = 0
  BY DEF Init, LoaderInit
<1>2. heap = [mem |-> <<>>, brk |-> MEM_START, mngr |-> 0] /\ tables = <<>> /\ pages = <<>>
  BY DEF Init
<1>3. BeforePaging
  BY <1>2, EmptySeq DEF BeforePaging, Record
<1> QED BY <1>1, <1>3 DEF Paging

\* The bitmap and the directory.
LEMMA AllocFramesKeeps ==
  ASSUME FewTables, Paging, AllocFrames
  PROVE  Paging'
<1> DEFINE size == TOTAL_FRAMES \div 32
           end == MEM_START + size
           dir == PageAfter(end)
<1>1. ic = "frames" /\ ic' = "tables" /\ UNCHANGED <<pc, cr3, tables, pages>>
  BY DEF AllocFrames, loaderVars, buildVars
<1>2. BeforePaging /\ pc = "kernel" /\ cr3 = 0
  BY <1>1 DEF Paging
<1>3. heap = [mem |-> heap.mem, brk |-> MEM_START, mngr |-> 0]
  BY <1>2 DEF BeforePaging, Record
<1>4. heap' = [mem |-> heap.mem, brk |-> dir + 2 * 4 * TABLE_SIZE, mngr |-> 0]
  <2>1. Kalloc(heap, size, FALSE).heap = [mem |-> heap.mem, brk |-> end, mngr |-> 0]
    BY <1>3 DEF Kalloc
  <2> DEFINE h == [mem |-> heap.mem, brk |-> end, mngr |-> 0]
  <2>2. heap' = Kalloc(h, 2 * 4 * TABLE_SIZE, TRUE).heap
    BY <2>1 DEF AllocFrames
  <2>3. h.brk = end /\ h.mngr = 0 /\ h.mem = heap.mem
    OBVIOUS
  <2>4. \A x : [h EXCEPT !.brk = x] = [mem |-> heap.mem, brk |-> x, mngr |-> 0]
    OBVIOUS
  <2> HIDE DEF h, end, size
  <2> QED BY <2>2, <2>3, <2>4 DEF Kalloc
<1>5. PAGE_SIZE \in Nat \ {0} /\ PAGE_SIZE = 4 * TABLE_SIZE /\ MOD \in Nat
      /\ TABLE_SIZE \in Nat /\ MEM_START \in Nat /\ LastTable \in Nat
  BY HeapSizes, HeapPages
<1>6. end \in Nat
  <2>1. size \in Nat
    BY HeapSizes, QuotientIs
  <2> HIDE DEF size
  <2> QED BY <2>1, <1>5
<1>7. Directory = end - (end % PAGE_SIZE) + PAGE_SIZE
  BY DEF Directory
<1> HIDE DEF end
<1>8. Directory \in end + 1 .. end + PAGE_SIZE
  BY <1>5, <1>6, <1>7, Rounding
<1>9. InUse(0) = Directory + 2 * PAGE_SIZE /\ InUse(0) + PAGE_SIZE < MOD
  <2>1. 0 \in 0 .. LastTable + 1
    BY <1>5
  <2>2. 0 * (2 * PAGE_SIZE) = 0
    BY <1>5
  <2>3. InUse(0) + PAGE_SIZE < MOD
    BY <2>1, MemorySuffices
  <2>4. InUse(0) = Directory + 2 * PAGE_SIZE
    BY <2>2, <1>5, <1>6, <1>8 DEF InUse
  <2> QED BY <2>3, <2>4
<1>10. dir = Directory
  <2>1. end + PAGE_SIZE < MOD
    BY <1>5, <1>6, <1>8, <1>9
  <2> QED BY <2>1, <1>5, <1>6, <1>7, PageAfterIs
<1>11. Tabled(heap', tables')
  <2>1. DOMAIN tables' = {} /\ Cardinality({}) = 0
    BY <1>1, <1>2, FS_EmptySet DEF BeforePaging
  <2>2. heap' = [mem |-> heap.mem, brk |-> InUse(0), mngr |-> 0]
    <3> HIDE DEF dir
    <3>1. dir + 2 * 4 * TABLE_SIZE = InUse(0)
      BY <1>5, <1>6, <1>8, <1>9, <1>10
    <3> QED BY <3>1, <1>4
  <2>3. Record(heap') /\ heap'.mngr = 0 /\ heap'.brk = InUse(0) /\ DOMAIN heap'.mem = {}
    <3>1. DOMAIN heap.mem = {}
      BY <1>2 DEF BeforePaging
    <3> QED BY <2>2, <3>1 DEF Record
  <2> QED BY <2>1, <2>3 DEF Tabled
<1>12. MakingTables'
  <2>1. PageOf(MEM_START) \in Nat /\ EndPage \in Nat /\ PageOf(MEM_START) < EndPage
    BY HeapPages
  <2>2. i' = PageOf(MEM_START) /\ taken' = taken \ ClearedFrames
    BY DEF AllocFrames
  <2>3. i' \in PageOf(MEM_START) .. EndPage /\ PageOf(MEM_START) .. i' - 1 = {}
    BY <2>1, <2>2
  <2>4. DOMAIN pages' = {} /\ taken' \cap ClearedFrames = {}
    BY <1>1, <1>2, <2>2 DEF BeforePaging
  <2> QED BY <1>11, <2>3, <2>4 DEF MakingTables
<1> QED BY <1>1, <1>2, <1>12 DEF Paging

\* The heap's tables.
LEMMA MakeTablesKeeps ==
  ASSUME FewTables, Paging, MakeTables
  PROVE  Paging'
<1>1. ic = "tables" /\ UNCHANGED <<pc, cr3, pages, taken>>
  BY DEF MakeTables, loaderVars, buildVars
<1>2. MakingTables /\ pc = "kernel" /\ cr3 = 0
  BY <1>1 DEF Paging
<1>3. i \in Nat /\ EndPage \in Nat /\ PageOf(MEM_START) \in Nat \ {0}
      /\ (HeapPage(i) <=> i < EndPage) /\ i \in PageOf(MEM_START) .. EndPage
  <2>1. EndPage \in Nat /\ PageOf(MEM_START) \in Nat \ {0} /\ i \in PageOf(MEM_START) .. EndPage
    BY <1>2, HeapPages DEF MakingTables
  <2>2. i \in Nat
    BY <2>1
  <2> QED BY <2>1, <2>2, HeapPages
<1>4. CASE HeapPage(i)
  <2> DEFINE g == GetPage(heap, tables, i)
  <2>1. heap' = g.heap /\ tables' = g.tables /\ i' = i + 1 /\ ic' = ic
    BY <1>1, <1>4 DEF MakeTables
  <2>2. i \in 0 .. EndPage - 1
    BY <1>3, <1>4
  <2>3. Tabled(g.heap, g.tables) /\ DOMAIN g.tables = DOMAIN tables \cup {TableOf(i)}
    BY <1>2, <2>2, GetPageKeeps DEF MakingTables
  <2> HIDE DEF g
  <2>4. Tabled(heap', tables') /\ DOMAIN tables' = DOMAIN tables \cup {TableOf(i)}
    BY <2>1, <2>3
  <2>5. ASSUME NEW p \in PageOf(MEM_START) .. i' - 1 PROVE TableOf(p) \in DOMAIN tables'
    <3>1. p = i \/ p \in PageOf(MEM_START) .. i - 1
      BY <1>3, <2>1
    <3> QED BY <3>1, <2>4, <1>2 DEF MakingTables
  <2>6. i' \in PageOf(MEM_START) .. EndPage
    BY <1>3, <1>4, <2>1
  <2>7. DOMAIN pages' = {} /\ taken' \cap ClearedFrames = {}
    BY <1>1, <1>2 DEF MakingTables
  <2>8. MakingTables'
    BY <2>4, <2>5, <2>6, <2>7 DEF MakingTables
  <2> QED BY <1>1, <1>2, <2>1, <2>8 DEF Paging
<1>5. CASE ~HeapPage(i)
  <2>1. ic' = "identity" /\ i' = 0 /\ UNCHANGED <<heap, tables>>
    BY <1>1, <1>5 DEF MakeTables
  <2>2. i = EndPage
    BY <1>3, <1>5
  <2>3. Tabled(heap', tables') /\ AllTabled'
    BY <1>2, <2>1, <2>2 DEF MakingTables, AllTabled
  <2>4. 0 .. i' - 1 = {} /\ i' \in Nat
    BY <2>1
  <2>5. DOMAIN pages' = {} /\ taken' \cap ClearedFrames = {}
    BY <1>1, <1>2 DEF MakingTables
  <2>6. MappingIdentity'
    BY <2>3, <2>4, <2>5 DEF MappingIdentity, PagesTabled
  <2> QED BY <1>1, <1>2, <2>1, <2>6 DEF Paging
<1> QED BY <1>4, <1>5

\* A page in the memory in use, and the one behind it, is below the heap's
\* end and has a frame whose bit was cleared.
LEMMA PageInUse ==
  ASSUME FewTables, NEW h, NEW t, Tabled(h, t), NEW p \in Nat, p * PAGE_SIZE < h.brk + PAGE_SIZE
  PROVE  p \in 0 .. EndPage - 1 /\ p \in ClearedFrames /\ p \in Frames
<1> DEFINE n == Cardinality(DOMAIN t)
           last1 == TOTAL_FRAMES \div 4
           x == p * PAGE_SIZE
           y == EndPage * PAGE_SIZE
           z == last1 * PAGE_SIZE
<1>1. PAGE_SIZE \in Nat \ {0} /\ EndPage \in Nat /\ TOTAL_FRAMES \in Nat
  BY HeapSizes, HeapPages
<1>2. last1 \in Nat /\ last1 <= TOTAL_FRAMES
  BY <1>1
<1>3. n \in 0 .. LastTable + 1 /\ h.brk = InUse(n)
  BY TabledSize DEF Tabled
<1> HIDE DEF n
<1>4. h.brk \in Nat /\ h.brk + PAGE_SIZE <= y /\ h.brk + PAGE_SIZE <= z
  BY <1>3, MemoryInUse, MemorySuffices
<1>5. x \in Nat /\ y \in Nat /\ z \in Nat
  <2> HIDE DEF last1
  <2> QED BY <1>1, <1>2
<1>6. x < h.brk + PAGE_SIZE
  OBVIOUS
<1>7. x < y => p < EndPage
  BY <1>1, TimesKeepsOrder
<1>8. x < z => p < last1
  <2> HIDE DEF last1
  <2> QED BY <1>1, <1>2, TimesKeepsOrder
<1> HIDE DEF x, y, z
<1>9. p < EndPage /\ p < last1
  BY <1>1, <1>4, <1>5, <1>6, <1>7, <1>8
<1> HIDE DEF last1
<1>10. p \in 0 .. last1 - 1 /\ p \in 0 .. TOTAL_FRAMES - 1
  BY <1>1, <1>2, <1>9
<1> QED BY <1>1, <1>9, <1>10 DEF ClearedFrames, Frames, last1

\* The memory in use is mapped, and the tables that takes.
LEMMA IdentityMapKeeps ==
  ASSUME FewTables, Paging, IdentityMap
  PROVE  Paging'
<1>1. ic = "identity" /\ UNCHANGED <<pc, cr3>>
  BY DEF IdentityMap, loaderVars, buildVars
<1>2. MappingIdentity /\ pc = "kernel" /\ cr3 = 0
  BY <1>1 DEF Paging
<1>3. i \in Nat /\ Tabled(heap, tables) /\ AllTabled /\ PagesTabled
      /\ DOMAIN pages = 0 .. i - 1 /\ \A p \in 0 .. i - 1 : pages[p] = p
  BY <1>2 DEF MappingIdentity
<1>4. CASE i * PAGE_SIZE < heap.brk + PAGE_SIZE
  <2> DEFINE g == GetPage(heap, tables, i)
  <2>1. i \in 0 .. EndPage - 1 /\ i \in ClearedFrames /\ i \in Frames
    BY <1>3, <1>4, PageInUse
  <2>2. heap' = g.heap /\ tables' = g.tables /\ i' = i + 1 /\ ic' = ic
    BY <1>1, <1>4 DEF IdentityMap, Falloc
  <2>3. Tabled(g.heap, g.tables) /\ DOMAIN g.tables = DOMAIN tables \cup {TableOf(i)}
    BY <1>3, <2>1, GetPageKeeps
  <2> HIDE DEF g
  <2>4. Tabled(heap', tables') /\ DOMAIN tables' = DOMAIN tables \cup {TableOf(i)}
    BY <2>2, <2>3
  <2>5. PICK f \in Frames : FindFrame(f) /\ pages' = With(pages, i, f) /\ taken' = taken \cup {f}
    <3>1. i \notin DOMAIN pages
      BY <1>3
    <3> QED BY <3>1, <1>1, <1>4 DEF IdentityMap, Falloc
  <2>6. f = i
    <3>1. i \notin taken
      BY <1>2, <1>3, <2>1 DEF MappingIdentity
    <3>2. f \notin taken /\ 0 .. f - 1 \subseteq taken
      BY <2>1, <2>5, <3>1 DEF FindFrame
    <3>3. 0 .. i - 1 \subseteq taken
      BY <1>2 DEF MappingIdentity
    <3>4. f \in Nat
      BY <2>5, HeapSizes DEF Frames
    <3>5. ~(i < f) /\ ~(f < i)
      BY <1>3, <3>1, <3>2, <3>3, <3>4
    <3> QED BY <1>3, <3>4, <3>5
  <2>7. DOMAIN pages' = 0 .. i' - 1 /\ \A p \in 0 .. i' - 1 : pages'[p] = p
    <3>1. pages' = With(pages, i, i)
      BY <2>5, <2>6
    <3>2. DOMAIN pages' = DOMAIN pages \cup {i} /\ pages'[i] = i
          /\ \A p \in DOMAIN pages : p # i => pages'[p] = pages[p]
      <4>1. DOMAIN pages' = DOMAIN pages \cup {i}
        BY <3>1, WithDomain
      <4>2. pages'[i] = i
        BY <3>1, WithAt
      <4>3. \A p \in DOMAIN pages : p # i => pages'[p] = pages[p]
        BY <3>1, WithElsewhere
      <4> QED BY <4>1, <4>2, <4>3
    <3>3. 0 .. i' - 1 = (0 .. i - 1) \cup {i}
      BY <1>3, <2>2
    <3> QED BY <3>2, <3>3, <1>3
  <2>8. 0 .. i' - 1 \subseteq taken' /\ taken' \cap ClearedFrames \subseteq 0 .. i' - 1
    <3>1. 0 .. i' - 1 = (0 .. i - 1) \cup {i}
      BY <1>3, <2>2
    <3> QED BY <3>1, <2>5, <2>6, <1>2 DEF MappingIdentity
  <2>9. AllTabled' /\ PagesTabled'
    <3>1. DOMAIN pages' = DOMAIN pages \cup {i}
      BY <2>7, <2>2, <1>3
    <3> QED BY <3>1, <2>4, <1>3 DEF AllTabled, PagesTabled
  <2>10. MappingIdentity'
    BY <1>3, <2>2, <2>4, <2>7, <2>8, <2>9 DEF MappingIdentity
  <2> QED BY <1>1, <1>2, <2>2, <2>10 DEF Paging
<1>5. CASE ~(i * PAGE_SIZE < heap.brk + PAGE_SIZE)
  <2>1. ic' = "mapheap" /\ i' = PageOf(MEM_START) /\ UNCHANGED <<heap, tables, pages>>
    BY <1>1, <1>5 DEF IdentityMap
  <2>2. PAGE_SIZE \in Nat \ {0} /\ PageOf(MEM_START) \in Nat \ {0}
    BY HeapSizes, HeapPages
  <2>3. heap.brk \in Nat
    <3> DEFINE n == Cardinality(DOMAIN tables)
    <3>1. n \in 0 .. LastTable + 1 /\ heap.brk = InUse(n)
      BY <1>3, TabledSize DEF Tabled
    <3> HIDE DEF n
    <3> QED BY <3>1, MemoryInUse
  <2> DEFINE q == PageOf(heap.brk)
             x == q * PAGE_SIZE
             y == i * PAGE_SIZE
  <2>4. q \in Nat
    BY <2>2, <2>3, QuotientIs DEF PageOf
  <2>5. x <= heap.brk
    <3>1. q <= heap.brk \div PAGE_SIZE <=> q * PAGE_SIZE <= heap.brk
      BY <2>2, <2>3, <2>4, QuotientIs
    <3>2. q <= q /\ q = heap.brk \div PAGE_SIZE
      BY <2>4 DEF PageOf
    <3> QED BY <3>1, <3>2
  <2>6. x \in Nat /\ y \in Nat /\ (q < i <=> x < y)
    <3> HIDE DEF q
    <3> QED BY <1>3, <2>2, <2>4, TimesKeepsOrder
  <2>7. ~(y < heap.brk + PAGE_SIZE)
    BY <1>5
  <2>8. q < i
    <3> HIDE DEF q, x, y
    <3> QED BY <2>2, <2>3, <2>5, <2>6, <2>7
  <2>9. ASSUME NEW p \in 0 .. q PROVE p \in 0 .. i - 1
    <3> HIDE DEF q
    <3> QED BY <1>3, <2>4, <2>8
  <2>10. \A p \in 0 .. q : p \in DOMAIN pages' /\ pages'[p] = p
    <3> HIDE DEF q
    <3> QED BY <2>1, <2>9, <1>3
  <2>11. MappingHeap'
    <3> HIDE DEF q
    <3>1. i' \in Nat /\ i' >= PageOf(MEM_START)
      BY <2>1, <2>2
    <3>2. Tabled(heap', tables') /\ AllTabled' /\ PagesTabled'
      BY <1>3, <2>1 DEF AllTabled, PagesTabled
    <3>3. \A p \in 0 .. PageOf(heap'.brk) : Identity(p)'
      BY <2>1, <2>10 DEF Identity, q
    <3> QED BY <3>1, <3>2, <3>3 DEF MappingHeap
  <2> QED BY <1>1, <1>2, <2>1, <2>11 DEF Paging
<1> QED BY <1>4, <1>5

\* The heap's pages get the frames that are left, and disturb nothing.
LEMMA MapHeapKeeps ==
  ASSUME FewTables, Paging, MapHeap
  PROVE  Paging'
<1>1. ic = "mapheap" /\ UNCHANGED <<pc, cr3>>
  BY DEF MapHeap, loaderVars, buildVars
<1>2. MappingHeap /\ pc = "kernel" /\ cr3 = 0
  BY <1>1 DEF Paging
<1>3. i \in Nat /\ i >= PageOf(MEM_START) /\ i # 0
      /\ Tabled(heap, tables) /\ AllTabled /\ PagesTabled
      /\ \A p \in 0 .. PageOf(heap.brk) : Identity(p)
  BY <1>2, HeapPages DEF MappingHeap
<1>4. CASE HeapPage(i)
  <2> DEFINE g == GetPage(heap, tables, i)
  <2>1. EndPage \in Nat /\ i \in 0 .. EndPage - 1
    BY <1>3, <1>4, HeapPages
  <2>2. heap' = g.heap /\ tables' = g.tables /\ i' = i + 1 /\ ic' = ic
    BY <1>1, <1>4 DEF MapHeap, Falloc
  <2>3. /\ Tabled(g.heap, g.tables)
        /\ DOMAIN g.tables = DOMAIN tables \cup {TableOf(i)}
        /\ TableOf(i) \in DOMAIN tables => g.heap = heap /\ g.tables = tables
    BY <1>3, <2>1, GetPageKeeps
  <2> HIDE DEF g
  <2>4. Tabled(heap', tables') /\ DOMAIN tables' = DOMAIN tables \cup {TableOf(i)}
        /\ (TableOf(i) \in DOMAIN tables => heap' = heap)
    BY <2>2, <2>3
  <2>5. \/ UNCHANGED pages
        \/ \E f : pages' = With(pages, i, f) /\ (i \notin DOMAIN pages \/ pages[i] = 0)
    BY <1>1, <1>4 DEF MapHeap, Falloc
  <2>6. DOMAIN pages' \subseteq DOMAIN pages \cup {i}
    <3>1. ASSUME NEW f, pages' = With(pages, i, f) PROVE DOMAIN pages' = DOMAIN pages \cup {i}
      BY <3>1, WithDomain
    <3> QED BY <2>5, <3>1
  <2>7. ASSUME NEW p, Identity(p) PROVE p \in DOMAIN pages' /\ pages'[p] = p
    <3>1. p \in DOMAIN pages /\ pages[p] = p
      BY <2>7 DEF Identity
    <3>2. CASE UNCHANGED pages
      BY <3>1, <3>2
    <3>3. CASE \E f : pages' = With(pages, i, f) /\ (i \notin DOMAIN pages \/ pages[i] = 0)
      <4>1. PICK f : pages' = With(pages, i, f) /\ (i \notin DOMAIN pages \/ pages[i] = 0)
        BY <3>3
      <4>2. p # i
        BY <3>1, <4>1, <1>3
      <4>3. DOMAIN pages' = DOMAIN pages \cup {i}
        BY <4>1, WithDomain
      <4>4. pages'[p] = pages[p]
        BY <3>1, <4>1, <4>2, WithElsewhere
      <4> QED BY <3>1, <4>3, <4>4
    <3> QED BY <2>5, <3>2, <3>3
  <2>8. AllTabled' /\ PagesTabled'
    BY <2>4, <2>6, <1>3 DEF AllTabled, PagesTabled
  <2>9. heap' = heap
    <3>1. i \in PageOf(MEM_START) .. EndPage - 1
      BY <1>3, <2>1, HeapPages
    <3> QED BY <3>1, <2>4, <1>3 DEF AllTabled
  <2>10. MappingHeap'
    <3>1. i' \in Nat /\ i' >= PageOf(MEM_START)
      BY <1>3, <2>2, HeapPages
    <3>2. \A p \in 0 .. PageOf(heap'.brk) : Identity(p)'
      BY <1>3, <2>7, <2>9 DEF Identity
    <3> QED BY <3>1, <3>2, <2>4, <2>8 DEF MappingHeap
  <2> QED BY <1>1, <1>2, <2>2, <2>10 DEF Paging
<1>5. CASE ~HeapPage(i)
  <2>1. ic' = "enable" /\ UNCHANGED <<heap, i, tables, pages>>
    BY <1>1, <1>5 DEF MapHeap
  <2>2. MappingHeap'
    BY <1>2, <2>1 DEF MappingHeap, AllTabled, PagesTabled, Identity
  <2> QED BY <1>1, <1>2, <2>1, <2>2 DEF Paging
<1> QED BY <1>4, <1>5

\* The manager goes where the memory in use ended.
LEMMA EnablePagingKeeps ==
  ASSUME Paging, EnablePaging
  PROVE  Paging'
<1>1. ic = "enable" /\ ic' = "smp" /\ UNCHANGED <<pc, tables, pages>> /\ heap' = MngrInit(heap)
  BY DEF EnablePaging, loaderVars, buildVars
<1>2. MappingHeap /\ pc = "kernel"
  BY <1>1 DEF Paging
<1>3. Record(heap) /\ heap.mngr = 0
  BY <1>2 DEF MappingHeap, Tabled
<1>4. heap.brk \in Nat \ {0}
  <2> DEFINE n == Cardinality(DOMAIN tables)
  <2>1. n \in 0 .. LastTable + 1 /\ heap.brk = InUse(n)
    BY <1>2, TabledSize DEF MappingHeap, Tabled
  <2> HIDE DEF n
  <2> QED BY <2>1, MemoryInUse
<1>5. Record(heap') /\ heap'.mngr = heap.brk
  <2> DEFINE k == Kalloc(heap, MNGR_SIZE, FALSE)
             g == [k.heap EXCEPT !.mngr = k.addr]
  <2>1. k = [heap |-> [heap EXCEPT !.brk = heap.brk + MNGR_SIZE], addr |-> heap.brk]
    BY <1>3 DEF Kalloc
  <2>2. k.addr = heap.brk /\ k.heap = [mem |-> heap.mem, brk |-> heap.brk + MNGR_SIZE, mngr |-> 0]
    <3>1. \A x : [heap EXCEPT !.brk = x] = [mem |-> heap.mem, brk |-> x, mngr |-> 0]
      BY <1>3 DEF Record
    <3> HIDE DEF k
    <3> QED BY <2>1, <3>1
  <2> HIDE DEF k
  <2>3. g = [mem |-> heap.mem, brk |-> heap.brk + MNGR_SIZE, mngr |-> heap.brk]
    BY <2>2
  <2>4. Record(g) /\ g.mngr = heap.brk /\ Same(g, g)
    <3> HIDE DEF g
    <3> QED BY <2>3 DEF Same, Record
  <2>5. \A h, w : Same(g, h) => Same(g, h ## w)
    BY StoreKeeps
  <2>6. \E a, b, c, d, e, f : MngrInit(heap) = g ## a ## b ## c ## d ## e ## f
    BY DEF MngrInit, k
  <2> HIDE DEF g
  <2>7. Same(g, heap')
    BY <1>1, <2>4, <2>5, <2>6
  <2> QED BY <2>4, <2>7 DEF Same
<1>6. PagingOn'
  <2>1. \A p \in 0 .. PageOf(heap'.mngr) : Identity(p)'
    BY <1>1, <1>2, <1>5 DEF MappingHeap, Identity
  <2>2. \A x \in DOMAIN tables' : tables'[x] \in Nat /\ tables'[x] + PAGE_SIZE <= heap'.mngr
    BY <1>1, <1>2, <1>5 DEF MappingHeap, Tabled
  <2> QED BY <1>1, <1>2, <1>4, <1>5, <2>1, <2>2 DEF PagingOn, MappingHeap, PagesTabled
<1> QED BY <1>1, <1>2, <1>6 DEF Paging

\* Whoever calls kalloc and kfree afterwards leaves the manager where it is.
LEMMA RunningKeeps ==
  ASSUME PagingOn, UNCHANGED <<tables, pages>>, Same(heap, heap')
  PROVE  PagingOn'
BY DEF PagingOn, PagesTabled, Identity, Same

\* initSMP and the calls after it keep the paging.
LEMMA CallsKeep ==
  ASSUME Paging,
         \/ \E count \in CheckCPUs : InitSMP(count)
         \/ ShellLoads
         \/ \E size \in Sizes, align \in BOOLEAN : Alloc(size, align)
         \/ \E b \in live : Release(b)
  PROVE  Paging'
<1>1. ic \in {"smp", "up"} /\ ic' = "up" /\ UNCHANGED <<pc, tables, pages, cr3>>
  BY DEF InitSMP, ShellLoads, Alloc, Release, loaderVars, buildVars
<1>2. PagingOn /\ pc = "kernel"
  BY <1>1 DEF Paging
<1>3. Record(heap) /\ heap.mngr # 0 /\ Same(heap, heap)
  BY <1>2 DEF PagingOn, Same
<1>4. ASSUME NEW count \in CheckCPUs, InitSMP(count) PROVE Same(heap, heap')
  <2> DEFINE shell == LoadProcess(heap, first, last)
             cpus == Kalloc(shell.heap, 12, FALSE)
             counts == cpus.heap ## <<cpus.addr, 0>> ## <<cpus.addr + 4, count>>
             infos == Kalloc(counts, 4 * count, FALSE)
             told == infos.heap ## <<cpus.addr + 8, infos.addr>>
  <2>1. \/ heap' = shell.heap
        \/ heap' = StartupCpus(told, infos.addr, count)
    BY <1>4 DEF InitSMP
  <2>2. \A g, w : Same(heap, g) => Same(heap, g ## w)
    BY StoreKeeps
  <2>3. \A g, size, align : Same(heap, g) => Same(heap, Kalloc(g, size, align).heap)
    BY <1>3, KallocKeeps DEF Same
  <2>4. Same(heap, shell.heap)
    BY <1>3, LoadKeeps
  <2> HIDE DEF shell
  <2>5. Same(heap, cpus.heap)
    BY <2>3, <2>4
  <2> HIDE DEF cpus
  <2>6. Same(heap, counts)
    BY <2>2, <2>5
  <2> HIDE DEF counts
  <2>7. Same(heap, infos.heap)
    BY <2>3, <2>6
  <2> HIDE DEF infos
  <2>8. Same(heap, told)
    BY <2>2, <2>7
  <2> HIDE DEF told
  <2>9. Same(heap, StartupCpus(told, infos.addr, count))
    BY <2>8, CpusKeep
  <2> QED BY <2>1, <2>4, <2>9
<1>5. ASSUME ShellLoads PROVE Same(heap, heap')
  <2>1. heap' = LoadProcess(heap, first, last).heap
    BY <1>5 DEF ShellLoads
  <2> QED BY <2>1, <1>3, LoadKeeps
<1>6. ASSUME NEW size \in Sizes, NEW align \in BOOLEAN, Alloc(size, align)
      PROVE  Same(heap, heap')
  <2>1. heap' = Kalloc(heap, size, align).heap
    BY <1>6 DEF Alloc
  <2> QED BY <2>1, <1>3, KallocKeeps
<1>7. ASSUME NEW b \in live, Release(b) PROVE Same(heap, heap')
  <2> DEFINE c == b.at - CHUNK_SIZE
  <2>1. heap' = heap \/ heap' = Merge(InsertFree(heap, c), c)
    BY <1>7 DEF Release
  <2> HIDE DEF c
  <2> QED BY <2>1, <1>3, FreeKeeps
<1>8. Same(heap, heap')
  BY <1>4, <1>5, <1>6, <1>7
<1>9. PagingOn'
  BY <1>1, <1>2, <1>8, RunningKeeps
<1> QED BY <1>1, <1>2, <1>9 DEF Paging

\* Every step keeps the invariant.
LEMMA PagingKept ==
  ASSUME FewTables, Paging, [Next]_vars
  PROVE  Paging'
<1>1. CASE LoaderNext /\ UNCHANGED kernelVars
  <2>1. pc # "kernel" /\ pc' # "kernel"
    BY <1>1 DEF LoaderNext, ProcessFile, WriteTable, DiskStatus, ReadSector, ReadFails, NextBlock,
                Quit
  <2>2. UNCHANGED <<ic, heap, i, tables, pages, cr3>> /\ ic = "off"
    BY <1>1, <2>1 DEF kernelVars, Paging
  <2> QED BY <2>1, <2>2 DEF Paging, BeforePaging
<1>2. CASE EnterKernel
  <2>1. pc = "go" /\ pc' = "kernel" /\ ic' = "frames" /\ UNCHANGED <<heap, tables, pages, cr3>>
    BY <1>2 DEF EnterKernel
  <2> QED BY <2>1 DEF Paging, BeforePaging
<1>3. CASE KernelStep
  BY <1>3, AllocFramesKeeps, MakeTablesKeeps, IdentityMapKeeps, MapHeapKeeps,
     EnablePagingKeeps, CallsKeep DEF KernelStep
<1>4. CASE UNCHANGED vars
  <2>1. UNCHANGED <<pc, ic, heap, i, tables, pages, taken, cr3>>
    BY <1>4 DEF vars, loaderVars, kernelVars
  <2> QED BY <2>1 DEF Paging, BeforePaging, MakingTables, MappingIdentity, MappingHeap,
                      PagingOn, AllTabled, PagesTabled, Identity
<1> QED BY <1>1, <1>2, <1>3, <1>4 DEF Next

\* The invariant says where everything is once paging is on.
LEMMA PagingShows ==
  ASSUME Paging
  PROVE  KernelMapped
<1> SUFFICES ASSUME cr3 # 0 PROVE KernelMapped
  BY DEF KernelMapped
<1>1. PagingOn
  BY DEF Paging
<1>2. \A p \in 0 .. PageOf(heap.mngr) : p \in DOMAIN pages /\ pages[p] = p
  BY <1>1 DEF PagingOn, Identity
<1>3. ASSUME NEW t \in DOMAIN tables
      PROVE  PageOf(tables[t] + 4 * TABLE_SIZE - 1) <= PageOf(heap.mngr)
  <2>1. PAGE_SIZE \in Nat \ {0} /\ PAGE_SIZE = 4 * TABLE_SIZE /\ TABLE_SIZE \in Nat
    BY HeapSizes
  <2> DEFINE a == tables[t] + 4 * TABLE_SIZE - 1
  <2>2. heap.mngr \in Nat /\ tables[t] \in Nat /\ tables[t] + PAGE_SIZE <= heap.mngr
    BY <1>1 DEF PagingOn
  <2>3. a \in Nat /\ a <= heap.mngr
    BY <2>1, <2>2
  <2> HIDE DEF a
  <2>4. PageOf(a) <= PageOf(heap.mngr)
    BY <2>1, <2>2, <2>3, DivKeepsOrder DEF PageOf
  <2> QED BY <2>4 DEF a
<1> QED BY <1>1, <1>2, <1>3 DEF KernelMapped, PagingOn, PagesTabled

\* While paging is on, the pages of everything the kernel used before it are
\* mapped to the frames of the same number: the image, the bitmap, the
\* directory and the tables, which get their pages while the memory is being
\* mapped.  Clearing a quarter of the bitmap is enough, whatever memory held
\* before, if the tables are few.
THEOREM KernelStaysMapped ==
  ASSUME FewTables
  PROVE  Spec => []KernelMapped
<1>1. Init => Paging
  BY PagingStarts
<1>2. Paging /\ [Next]_vars => Paging'
  BY PagingKept
<1>3. Paging => KernelMapped
  BY PagingShows
<1> QED BY <1>1, <1>2, <1>3, PTL DEF Spec

-----------------------------------------------------------------------------
(***************************************************************************)
(* The heap until somebody frees: one free chunk, above everything that    *)
(* was given out.                                                          *)
(***************************************************************************)

\* Following next from c until Stop, as a recursive function does: there is
\* such a function, whatever the links are.
LEMMA WalkExists ==
  ASSUME NEW Stop \in SUBSET Nat, NEW next \in [Nat -> Nat]
  PROVE  \E f : f = [c \in Nat |-> IF c \in Stop THEN c ELSE f[next[c]]]
<1> DEFINE Closed(S) == \A y \in S : y \notin Stop => next[y] \in S
           Orbit(c) == {x \in Nat : \A S \in SUBSET Nat : c \in S /\ Closed(S) => x \in S}
           Ends(c) == Orbit(c) \cap Stop
           f == [c \in Nat |-> CHOOSE x : x \in Ends(c)]
<1>1. ASSUME NEW c \in Nat, c \in Stop PROVE Ends(c) = {c}
  <2>1. {c} \in SUBSET Nat /\ c \in {c} /\ Closed({c})
    BY <1>1
  <2>2. Orbit(c) \subseteq {c}
    <3> HIDE DEF Closed
    <3> QED BY <2>1
  <2>3. c \in Orbit(c)
    <3> HIDE DEF Closed
    <3> QED OBVIOUS
  <2> HIDE DEF Orbit
  <2> QED BY <1>1, <2>2, <2>3
<1>2. ASSUME NEW c \in Nat, c \notin Stop PROVE Ends(c) = Ends(next[c])
  <2>1. next[c] \in Nat
    OBVIOUS
  <2>2. ASSUME NEW x \in Orbit(next[c]) PROVE x \in Orbit(c)
    <3>1. ASSUME NEW S \in SUBSET Nat, c \in S, Closed(S) PROVE x \in S
      <4>1. next[c] \in S
        BY <1>2, <3>1
      <4> HIDE DEF Closed
      <4> QED BY <2>2, <3>1, <4>1
    <3> HIDE DEF Closed
    <3> QED BY <2>2, <3>1
  <2>3. ASSUME NEW x \in Orbit(c), x \in Stop PROVE x \in Orbit(next[c])
    <3>1. ASSUME NEW S \in SUBSET Nat, next[c] \in S, Closed(S) PROVE x \in S
      <4> DEFINE T == S \cup {c}
      <4>1. T \in SUBSET Nat /\ c \in T /\ Closed(T)
        BY <3>1
      <4>2. x \in T
        <5> HIDE DEF Closed, T
        <5> QED BY <2>3, <4>1
      <4> QED BY <1>2, <2>3, <4>2
    <3> HIDE DEF Closed
    <3> QED BY <2>3, <3>1
  <2> HIDE DEF Orbit
  <2> QED BY <2>2, <2>3
<1> HIDE DEF Ends
<1>3. ASSUME NEW c \in Nat PROVE f[c] = IF c \in Stop THEN c ELSE f[next[c]]
  <2>1. CASE c \in Stop
    <3>1. f[c] = CHOOSE x : x \in {c}
      BY <1>1, <2>1
    <3> QED BY <2>1, <3>1
  <2>2. CASE c \notin Stop
    <3>1. next[c] \in Nat /\ Ends(c) = Ends(next[c])
      BY <1>2, <2>2
    <3>2. f[c] = CHOOSE x : x \in Ends(c)
      OBVIOUS
    <3>3. f[next[c]] = CHOOSE x : x \in Ends(next[c])
      BY <3>1
    <3> QED BY <2>2, <3>1, <3>2, <3>3
  <2> QED BY <2>1, <2>2
<1>4. f = [c \in Nat |-> f[c]]
  OBVIOUS
<1> HIDE DEF f
<1>5. f = [c \in Nat |-> IF c \in Stop THEN c ELSE f[next[c]]]
  BY <1>3, <1>4, Zenon
<1> QED BY <1>5

\* The words of memory are numbers.
Numbers(h) == \A a : Word(h, a) \in Nat

\* _cm_alloc takes the first free chunk if that is large enough.
LEMMA FirstFitIs ==
  ASSUME NEW h, Numbers(h), NEW size, NEW align,
         Free(h) # 0, Takes(h, Free(h), size, align)
  PROVE  FirstFit(h, size, align) = Free(h)
<1> DEFINE Stop == {c \in Nat : c = 0 \/ Takes(h, c, size, align)}
           next == [c \in Nat |-> FNext(h, c)]
           Eq(f) == f = [c \in Nat |-> IF c = 0 \/ Takes(h, c, size, align) THEN c
                                       ELSE f[FNext(h, c)]]
           fit == CHOOSE f : Eq(f)
<1>1. Stop \in SUBSET Nat /\ next \in [Nat -> Nat] /\ Free(h) \in Nat
  BY DEF Numbers, FNext, Free
<1>2. PICK g : g = [c \in Nat |-> IF c \in Stop THEN c ELSE g[next[c]]]
  <2> HIDE DEF Stop, next
  <2> QED BY <1>1, WalkExists
<1>3. Eq(g)
  <2>1. \A c \in Nat : (c \in Stop <=> c = 0 \/ Takes(h, c, size, align)) /\ next[c] = FNext(h, c)
    OBVIOUS
  <2> HIDE DEF Stop, next
  <2>2. \A c \in Nat : (IF c \in Stop THEN c ELSE g[next[c]])
                       = (IF c = 0 \/ Takes(h, c, size, align) THEN c ELSE g[FNext(h, c)])
    BY <2>1
  <2> QED BY <1>2, <2>2, Zenon
<1>4. Eq(fit)
  <2> HIDE DEF Eq
  <2> QED BY <1>3, Zenon
<1>5. FirstFit(h, size, align) = fit[Free(h)]
  BY DEF FirstFit
<1> HIDE DEF fit
<1>6. fit[Free(h)] = Free(h)
  BY <1>1, <1>4
<1> QED BY <1>5, <1>6

\* A free list of one chunk.
LEMMA OneFree ==
  ASSUME NEW h, Free(h) # 0, FNext(h, Free(h)) = 0
  PROVE  Elems(FreeList(h)) = {Free(h)}
<1> DEFINE F == Free(h)
           M == MaxChunks
           after(c) == IF c = 0 THEN 0 ELSE FNext(h, c)
           Eq(f) == f = [n \in 0 .. M |-> IF n = 0 THEN F ELSE after(f[n - 1])]
           at == CHOOSE f : Eq(f)
           g == [n \in 0 .. M |-> IF n = 0 THEN F ELSE 0]
           ends == {n \in 0 .. M : at[n] = 0}
           first1 == CHOOSE n \in ends : \A m \in ends : n <= m
<1>1. F # 0 /\ after(F) = 0 /\ after(0) = 0
  OBVIOUS
<1>2. M = 16
  BY DEF MaxChunks
<1>3. Eq(g)
  <2>1. ASSUME NEW n \in 0 .. M PROVE g[n] = IF n = 0 THEN F ELSE after(g[n - 1])
    <3>1. CASE n = 0
      BY <3>1, <1>2
    <3>2. CASE n # 0
      <4>1. n - 1 \in 0 .. M
        BY <1>2, <3>2
      <4>2. g[n] = 0 /\ g[n - 1] = IF n - 1 = 0 THEN F ELSE 0
        BY <3>2, <4>1
      <4> HIDE DEF g, after
      <4> QED BY <1>1, <3>2, <4>2
    <3> QED BY <3>1, <3>2
  <2>2. g = [n \in 0 .. M |-> g[n]]
    OBVIOUS
  <2> HIDE DEF g, after
  <2> QED BY <2>1, <2>2, Zenon
<1>4. Eq(at)
  <2> HIDE DEF Eq, g
  <2> QED BY <1>3, Zenon
<1>5. FreeList(h) = IF ends = {} THEN <<-1>> ELSE [k \in 1 .. first1 |-> at[k - 1]]
  BY DEF FreeList
<1> HIDE DEF at, after
<1>6. at[0] = F /\ at[1] = 0
  <2>1. at[0] = F
    BY <1>2, <1>4
  <2>2. at[1] = after(at[0])
    BY <1>2, <1>4
  <2> QED BY <1>1, <2>1, <2>2
<1>7. 1 \in ends /\ 0 \notin ends /\ ends \subseteq Nat
  BY <1>1, <1>2, <1>6
<1>8. first1 = 1
  <2>1. \A m \in ends : 1 <= m
    <3> HIDE DEF ends
    <3> QED BY <1>7
  <2>2. first1 \in ends /\ \A m \in ends : first1 <= m
    <3> HIDE DEF ends
    <3> QED BY <1>7, <2>1
  <2> HIDE DEF first1, ends
  <2> QED BY <1>7, <2>1, <2>2
<1> HIDE DEF first1, ends
<1>9. FreeList(h) = [k \in 1 .. 1 |-> at[k - 1]]
  BY <1>5, <1>7, <1>8
<1>10. DOMAIN FreeList(h) = {1} /\ FreeList(h)[1] = F
  BY <1>6, <1>9
<1> QED BY <1>10 DEF Elems

\* A store is read back at its address, and nowhere else.
LEMMA WordStored ==
  ASSUME NEW h, Record(h), NEW a, NEW v
  PROVE  \A x : Word(h ## <<a, v>>, x) = IF x = a THEN v ELSE Word(h, x)
<1> DEFINE m == With(h.mem, a, v)
           g == h ## <<a, v>>
<1>1. g.mem = m
  <2>1. g = Stored(h, <<a, v>>)
    BY DEF ##
  <2>2. Stored(h, <<a, v>>) = [h EXCEPT !.mem = m]
    <3>1. <<a, v>> # <<>> /\ <<a, v>>[1] = a /\ <<a, v>>[2] = v
      OBVIOUS
    <3> HIDE DEF m
    <3>2. Stored(h, <<a, v>>) = [h EXCEPT !.mem = With(h.mem, <<a, v>>[1], <<a, v>>[2])]
      BY <3>1 DEF Stored
    <3> QED BY <3>1, <3>2 DEF m
  <2> HIDE DEF m, g
  <2>3. [h EXCEPT !.mem = m] = [mem |-> m, brk |-> h.brk, mngr |-> h.mngr]
    BY DEF Record
  <2> QED BY <2>1, <2>2, <2>3
<1> HIDE DEF g
<1>2. DOMAIN m = DOMAIN h.mem \cup {a}
  BY WithDomain
<1>3. m[a] = v
  BY WithAt
<1>4. \A x \in DOMAIN h.mem : x # a => m[x] = h.mem[x]
  BY WithElsewhere
<1> HIDE DEF m
<1>5. ASSUME NEW x PROVE Word(g, x) = IF x = a THEN v ELSE Word(h, x)
  <2>1. CASE x = a
    BY <1>1, <1>2, <1>3, <2>1 DEF Word
  <2>2. CASE x # a /\ x \in DOMAIN h.mem
    BY <1>1, <1>2, <1>4, <2>2 DEF Word
  <2>3. CASE x # a /\ x \notin DOMAIN h.mem
    BY <1>1, <1>2, <2>3 DEF Word
  <2> QED BY <2>1, <2>2, <2>3
<1> QED BY <1>5 DEF g

\* Stores of numbers, one after the other, leave numbers.
LEMMA NumbersStored ==
  ASSUME NEW h, NEW g, Same(h, g), Numbers(g), NEW a, NEW v \in Nat
  PROVE  /\ Same(h, g ## <<a, v>>) /\ Numbers(g ## <<a, v>>)
         /\ \A x : Word(g ## <<a, v>>, x) = IF x = a THEN v ELSE Word(g, x)
<1>1. Same(h, g ## <<a, v>>)
  BY StoreKeeps
<1>2. \A x : Word(g ## <<a, v>>, x) = IF x = a THEN v ELSE Word(g, x)
  BY WordStored DEF Same
<1> QED BY <1>1, <1>2 DEF Numbers

\* One free chunk, at the top: what was given out is below it.  Every call
\* of kalloc takes at most each bytes of it, and there is room for n calls.
OneTop(h, each, n) ==
  /\ Record(h) /\ Numbers(h) /\ h.mngr \in Nat \ {0}
  /\ h.mngr + CHUNK_SIZE < Free(h)
  /\ FNext(h, Free(h)) = 0 /\ FPrev(h, Free(h)) = 0
  /\ n * each + each <= HeadOf(h, Free(h)) /\ HeadOf(h, Free(h)) < MOD
  /\ Free(h) + n * each + each < MOD

\* A call of kalloc for at most most bytes, aligned or not.
Each(most) == most + CHUNK_SIZE + PAGE_SIZE

\* The block k is cut off the free chunk of h.
Cut(h, k, size, each, n) ==
  /\ k.addr = Free(h) + CHUNK_SIZE
  /\ OneTop(k.heap, each, n)
  /\ k.heap.mngr = h.mngr
  /\ Free(h) + CHUNK_SIZE + size <= Free(k.heap)

\* A store below the free chunk and above the manager changes neither.
LEMMA StoreBelowTop ==
  ASSUME NEW h, NEW each, NEW n, OneTop(h, each, n),
         NEW a \in Nat, h.mngr < a, a < Free(h), NEW v \in Nat
  PROVE  OneTop(h ## <<a, v>>, each, n) /\ Free(h ## <<a, v>>) = Free(h)
         /\ (h ## <<a, v>>).mngr = h.mngr
<1> DEFINE g == h ## <<a, v>>
<1>1. Same(h, h) /\ Numbers(h) /\ h.mngr \in Nat /\ Free(h) \in Nat
  BY DEF OneTop, Same, Numbers, Free
<1>2. /\ Same(h, g) /\ Numbers(g)
      /\ \A x : Word(g, x) = IF x = a THEN v ELSE Word(h, x)
  BY <1>1, NumbersStored
<1> HIDE DEF g
<1>3. Free(g) = Free(h)
  BY <1>1, <1>2 DEF Free, Same
<1>4. FNext(g, Free(g)) = FNext(h, Free(h)) /\ FPrev(g, Free(g)) = FPrev(h, Free(h))
      /\ HeadOf(g, Free(g)) = HeadOf(h, Free(h))
  BY <1>1, <1>2, <1>3 DEF FNext, FPrev, HeadOf
<1>5. OneTop(g, each, n) /\ g.mngr = h.mngr
  BY <1>1, <1>2, <1>3, <1>4 DEF OneTop, Same
<1> QED BY <1>3, <1>5 DEF g

\* Room for a call more is room for what is left of it.
LEMMA RoomLeft ==
  ASSUME NEW each \in Nat, NEW n \in Nat
  PROVE  n * each \in Nat /\ (n + 1) * each = n * each + each
OBVIOUS

\* kalloc cuts its block off the free chunk's lower end.
LEMMA KallocCuts ==
  ASSUME NEW most \in Nat, most >= 12, NEW n \in Nat,
         NEW h, OneTop(h, Each(most), n + 1),
         NEW size \in Nat, size <= most, NEW align
  PROVE  Cut(h, Kalloc(h, size, align), size, Each(most), n)
<1> DEFINE each == Each(most)
           r == n * each
           F == Free(h)
           M == h.mngr
           H == HeadOf(h, F)
           asked == IF size < CHUNK_T - CHUNK_SIZE THEN CHUNK_T - CHUNK_SIZE ELSE size
           end == F + asked + CHUNK_SIZE
           new == IF align THEN PageAfter(end) ELSE end
           len == IF align THEN PAGE_SIZE - (asked % PAGE_SIZE) ELSE asked
           left == (H - len - CHUNK_SIZE) % MOD
<1>1. PAGE_SIZE \in Nat \ {0} /\ MOD \in Nat \ {0} /\ CHUNK_SIZE = 8 /\ CHUNK_T = 16
  BY HeapSizes DEF CHUNK_SIZE, CHUNK_T
<1>2. each \in Nat /\ each = most + 8 + PAGE_SIZE
  BY <1>1 DEF Each
<1>3. r \in Nat /\ (n + 1) * each = r + each
  <2> HIDE DEF each
  <2> QED BY <1>2, RoomLeft
<1>4. /\ Record(h) /\ Numbers(h) /\ M \in Nat \ {0} /\ F \in Nat /\ H \in Nat
      /\ M + 8 < F
      /\ FNext(h, F) = 0 /\ FPrev(h, F) = 0
      /\ r + each + each <= H /\ H < MOD /\ F + (r + each) + each < MOD
  <2>1. F \in Nat /\ H \in Nat
    BY DEF OneTop, Numbers, Free, HeadOf
  <2> HIDE DEF r, F, H, M
  <2> QED BY <2>1, <1>1, <1>3 DEF OneTop, F, H, M
<1>5. asked \in Nat /\ asked >= 8 /\ asked >= size /\ asked <= most
  BY <1>1
<1> HIDE DEF asked, F, H, M, r, each
<1>6. end \in Nat /\ F + 16 <= end /\ F + 8 + size <= end /\ end + PAGE_SIZE <= F + each
  BY <1>1, <1>2, <1>4, <1>5
<1>7. new \in Nat /\ end <= new /\ new <= F + each
  <2>1. end + PAGE_SIZE < MOD
    BY <1>1, <1>2, <1>3, <1>4, <1>6
  <2> HIDE DEF end
  <2>2. PageAfter(end) \in end + 1 .. end + PAGE_SIZE
    BY <2>1, <1>6, PageAfterIs
  <2> QED BY <2>2, <1>1, <1>2, <1>4, <1>6
<1>8. len \in Nat /\ len + 8 <= each
  <2> DEFINE rest == asked % PAGE_SIZE
  <2>1. rest \in 0 .. PAGE_SIZE - 1
    BY <1>1, <1>5
  <2> HIDE DEF rest
  <2>2. PAGE_SIZE - rest \in Nat /\ PAGE_SIZE - rest <= PAGE_SIZE
    BY <2>1, <1>1
  <2> QED BY <2>2, <1>1, <1>2, <1>5 DEF rest
<1> HIDE DEF end, new, len
<1>9. left \in Nat /\ r + each <= left /\ left < MOD
  <2> DEFINE x == H - len - CHUNK_SIZE
  <2>1. x \in 0 .. MOD - 1 /\ r + each <= x
    BY <1>1, <1>2, <1>3, <1>4, <1>8
  <2> HIDE DEF x
  <2>2. x % MOD = x
    BY <2>1, <1>1
  <2> QED BY <2>1, <2>2, <1>1, <1>2, <1>3 DEF x
<1> HIDE DEF left
<1>10. F # 0 /\ H > asked
  BY <1>1, <1>2, <1>3, <1>4, <1>5
<1>11. FirstFit(h, asked, align) = F
  BY <1>4, <1>10, FirstFitIs DEF Takes, F, H
<1> DEFINE h1 == h ## <<new + 4, left>>
           h2 == h1 ## <<new, len>>
           h3 == h2 ## <<new + 12, 0>>
           h4 == h3 ## <<new + 8, 0>>
           h5 == h4 ## <<M, new>>
           h6 == h5 ## <<F + 4, len>>
           h7 == h6 ## <<F + 12, 0>>
           h8 == h7 ## <<F + 8, 0>>
<1>12. Split(h, F, asked, align) = h8
  <2>1. \A g : g ## If(0 # 0, 0 + 12, new) = g /\ g ## If(0 # 0, 0 + 8, new) = g
    <3>1. If(0 # 0, 0 + 12, new) = <<>> /\ If(0 # 0, 0 + 8, new) = <<>>
      BY DEF If
    <3>2. \A g : g ## <<>> = g
      <4>1. \A g : g ## <<>> = Stored(g, <<>>)
        BY DEF ##
      <4> QED BY <4>1 DEF Stored
    <3> QED BY <3>1, <3>2
  <2>2. If(F = Free(h), h.mngr, new) = <<M, new>>
    BY DEF If, F, M
  <2>3. Split(h, F, asked, align) =
          h4 ## If(0 # 0, 0 + 12, new) ## If(0 # 0, 0 + 8, new) ## If(F = Free(h), h.mngr, new)
             ## <<F + 4, len>> ## <<F + 12, 0>> ## <<F + 8, 0>>
    BY <1>4 DEF Split, new, end, len, left, H
  <2> HIDE DEF h1, h2, h3, h4
  <2> QED BY <2>1, <2>2, <2>3
<1>13. Kalloc(h, size, align) = [heap |-> h8, addr |-> F + CHUNK_SIZE]
  <2>1. Kalloc(h, size, align) = CmAlloc(h, size, align)
    BY <1>4 DEF Kalloc, M
  <2>2. CmAlloc(h, size, align) = [heap |-> Split(h, F, asked, align), addr |-> F + CHUNK_SIZE]
    BY <1>10, <1>11 DEF CmAlloc, asked, H
  <2> HIDE DEF h8
  <2> QED BY <1>12, <2>1, <2>2
<1>14. Same(h, h)
  BY <1>4 DEF Same
<1>15. Same(h, h1) /\ Numbers(h1) /\ \A x : Word(h1, x) = IF x = new + 4 THEN left ELSE Word(h, x)
  BY <1>4, <1>9, <1>14, NumbersStored
<1> HIDE DEF h1
<1>16. Same(h, h2) /\ Numbers(h2) /\ \A x : Word(h2, x) = IF x = new THEN len ELSE Word(h1, x)
  BY <1>8, <1>15, NumbersStored
<1> HIDE DEF h2
<1>17. Same(h, h3) /\ Numbers(h3) /\ \A x : Word(h3, x) = IF x = new + 12 THEN 0 ELSE Word(h2, x)
  BY <1>16, NumbersStored
<1> HIDE DEF h3
<1>18. Same(h, h4) /\ Numbers(h4) /\ \A x : Word(h4, x) = IF x = new + 8 THEN 0 ELSE Word(h3, x)
  BY <1>17, NumbersStored
<1> HIDE DEF h4
<1>19. Same(h, h5) /\ Numbers(h5) /\ \A x : Word(h5, x) = IF x = M THEN new ELSE Word(h4, x)
  BY <1>7, <1>18, NumbersStored
<1> HIDE DEF h5
<1>20. Same(h, h6) /\ Numbers(h6) /\ \A x : Word(h6, x) = IF x = F + 4 THEN len ELSE Word(h5, x)
  BY <1>8, <1>19, NumbersStored
<1> HIDE DEF h6
<1>21. Same(h, h7) /\ Numbers(h7) /\ \A x : Word(h7, x) = IF x = F + 12 THEN 0 ELSE Word(h6, x)
  BY <1>20, NumbersStored
<1> HIDE DEF h7
<1>22. Same(h, h8) /\ Numbers(h8) /\ \A x : Word(h8, x) = IF x = F + 8 THEN 0 ELSE Word(h7, x)
  BY <1>21, NumbersStored
<1> HIDE DEF h8
<1>23. F + 16 <= new
  BY <1>4, <1>6, <1>7
<1>24. Word(h8, M) = new
  BY <1>4, <1>19, <1>20, <1>21, <1>22
<1>25. Word(h8, new + 12) = 0 /\ Word(h8, new + 8) = 0 /\ Word(h8, new + 4) = left
  BY <1>4, <1>7, <1>15, <1>16, <1>17, <1>18, <1>19, <1>20, <1>21, <1>22, <1>23
<1>26. h8.mngr = M /\ Record(h8)
  BY <1>22 DEF Same, M
<1>27. Free(h8) = new
  BY <1>24, <1>26 DEF Free
<1>28. FNext(h8, new) = 0 /\ FPrev(h8, new) = 0 /\ HeadOf(h8, new) = left
  BY <1>25 DEF FNext, FPrev, HeadOf
<1>29. r + each <= left /\ new + r + each < MOD /\ M + 8 < new
  BY <1>1, <1>2, <1>3, <1>4, <1>7, <1>9, <1>23
<1>30. OneTop(h8, each, n)
  BY <1>1, <1>4, <1>9, <1>22, <1>26, <1>27, <1>28, <1>29 DEF OneTop, r
<1>31. F + CHUNK_SIZE + size <= new
  BY <1>1, <1>4, <1>6, <1>7, <1>23
<1> QED BY <1>13, <1>26, <1>27, <1>30, <1>31 DEF Cut, F, M, each

\* The blocks given out: they end where the free chunk begins, and each has
\* its header to itself.
Below(h, lv) ==
  /\ \A b \in lv : /\ b.at \in Nat /\ b.size \in Nat
                   /\ h.mngr + CHUNK_T < b.at /\ b.at + b.size <= Free(h)
  /\ \A b, d \in lv : b # d => \/ b.at + b.size + CHUNK_SIZE <= d.at
                               \/ d.at + d.size + CHUNK_SIZE <= b.at

\* What kalloc cuts off is a block more.
LEMMA BlockCut ==
  ASSUME NEW each, NEW n, NEW m, NEW h, NEW g, OneTop(h, each, n), OneTop(g, each, m),
         NEW lv, Below(h, lv), g.mngr = h.mngr,
         NEW size \in Nat, Free(h) + CHUNK_SIZE + size <= Free(g)
  PROVE  Below(g, lv \cup {Block(Free(h) + CHUNK_SIZE, size)})
<1> DEFINE c == Block(Free(h) + CHUNK_SIZE, size)
           F == Free(h)
           G == Free(g)
           M == h.mngr
<1>1. F \in Nat /\ G \in Nat /\ M \in Nat /\ M + 8 < F /\ F + 8 + size <= G /\ g.mngr = M
      /\ CHUNK_SIZE = 8 /\ CHUNK_T = 16
  BY DEF OneTop, Numbers, Free, CHUNK_SIZE, CHUNK_T
<1>2. c.at = F + 8 /\ c.size = size
  BY <1>1 DEF Block
<1>3. \A b \in lv : b.at \in Nat /\ b.size \in Nat /\ M + 16 < b.at /\ b.at + b.size <= F
  BY <1>1 DEF Below
<1>4. \A b, d \in lv : b # d => b.at + b.size + 8 <= d.at \/ d.at + d.size + 8 <= b.at
  BY <1>1 DEF Below
<1> HIDE DEF c, F, G, M
<1>5. ASSUME NEW b \in lv \cup {c}
      PROVE  b.at \in Nat /\ b.size \in Nat /\ M + 16 < b.at /\ b.at + b.size <= G
  <2>1. CASE b = c
    BY <2>1, <1>1, <1>2
  <2>2. CASE b \in lv
    <3>1. b.at \in Nat /\ b.size \in Nat /\ M + 16 < b.at /\ b.at + b.size <= F
      BY <2>2, <1>3
    <3> QED BY <3>1, <1>1
  <2> QED BY <2>1, <2>2
<1>6. \A b \in lv : b.at + b.size + 8 <= c.at
  <2> SUFFICES ASSUME NEW b \in lv PROVE b.at + b.size + 8 <= c.at
    OBVIOUS
  <2>1. b.at \in Nat /\ b.size \in Nat /\ b.at + b.size <= F
    BY <1>3
  <2> QED BY <2>1, <1>1, <1>2
<1>7. ASSUME NEW b \in lv \cup {c}, NEW d \in lv \cup {c}, b # d
      PROVE  b.at + b.size + 8 <= d.at \/ d.at + d.size + 8 <= b.at
  BY <1>4, <1>6, <1>7
<1> QED BY <1>1, <1>5, <1>7 DEF Below, G, c, F

\* load_process: a node is cut off, and linked behind the last one.
LEMMA LoadCuts ==
  ASSUME NEW most \in Nat, most >= 12, NEW n \in Nat,
         NEW h, OneTop(h, Each(most), n + 1), NEW lv, Below(h, lv),
         NEW f, NEW l, f # 0 => l \in Nat /\ Block(l, 12) \in lv
  PROVE  LET s == LoadProcess(h, f, l)
         IN  /\ OneTop(s.heap, Each(most), n)
             /\ Below(s.heap, lv \cup {Block(s.last, 12)})
             /\ s.last \in Nat
<1> DEFINE k == Kalloc(h, 12, FALSE)
           each == Each(most)
           F == Free(h)
           M == h.mngr
           h1 == k.heap ## <<k.addr, 1>>
           h2 == h1 ## <<k.addr + 4, 1>>
           h3 == h2 ## <<k.addr + 8, 0>>
           g == h3 ## If(f # 0, l + 8, k.addr)
<1>1. /\ k.addr = F + CHUNK_SIZE /\ OneTop(k.heap, each, n) /\ k.heap.mngr = M
      /\ F + CHUNK_SIZE + 12 <= Free(k.heap)
  <2>1. Cut(h, k, 12, each, n)
    BY KallocCuts
  <2> QED BY <2>1 DEF Cut
<1>2. M \in Nat /\ F \in Nat /\ M < F /\ CHUNK_SIZE = 8 /\ CHUNK_T = 16
  BY DEF OneTop, Numbers, Free, CHUNK_SIZE, CHUNK_T
<1>3. LoadProcess(h, f, l).heap = g /\ LoadProcess(h, f, l).last = k.addr
  BY DEF LoadProcess
<1> HIDE DEF k, each
<1>4. OneTop(h1, each, n) /\ Free(h1) = Free(k.heap) /\ h1.mngr = M
  <2> DEFINE G == Free(k.heap)
             a == k.addr
  <2>1. G \in Nat
    BY <1>1 DEF OneTop, Numbers, Free
  <2>2. a \in Nat /\ M < a /\ a < G
    <3> HIDE DEF F, M, G
    <3> QED BY <1>1, <1>2, <2>1 DEF G
  <2> QED BY <1>1, <2>2, StoreBelowTop
<1> HIDE DEF h1
<1>5. Free(k.heap) \in Nat
  BY <1>1 DEF OneTop, Numbers, Free
<1>6. OneTop(h2, each, n) /\ Free(h2) = Free(k.heap) /\ h2.mngr = M
  <2>1. k.addr + 4 \in Nat /\ M < k.addr + 4 /\ k.addr + 4 < Free(k.heap)
    <3> HIDE DEF F, M
    <3> QED BY <1>1, <1>2, <1>5
  <2> QED BY <1>4, <2>1, StoreBelowTop
<1> HIDE DEF h2
<1>7. OneTop(h3, each, n) /\ Free(h3) = Free(k.heap) /\ h3.mngr = M
  <2>1. k.addr + 8 \in Nat /\ M < k.addr + 8 /\ k.addr + 8 < Free(k.heap)
    <3> HIDE DEF F, M
    <3> QED BY <1>1, <1>2, <1>5
  <2> QED BY <1>6, <2>1, StoreBelowTop
<1> HIDE DEF h3
<1>8. OneTop(g, each, n) /\ Free(g) = Free(k.heap) /\ g.mngr = M
  <2>1. CASE f = 0
    <3>1. g = h3
      <4>1. If(f # 0, l + 8, k.addr) = <<>>
        BY <2>1 DEF If
      <4>2. h3 ## <<>> = Stored(h3, <<>>)
        BY DEF ##
      <4> QED BY <4>1, <4>2 DEF Stored
    <3> QED BY <3>1, <1>7
  <2>2. CASE f # 0
    <3>1. If(f # 0, l + 8, k.addr) = <<l + 8, k.addr>>
      BY <2>2 DEF If
    <3>2. l \in Nat /\ M + CHUNK_T < l /\ l + 12 <= F
      <4>1. Block(l, 12) \in lv /\ l \in Nat
        BY <2>2
      <4>2. Block(l, 12).at = l /\ Block(l, 12).size = 12
        BY DEF Block
      <4> QED BY <4>1, <4>2 DEF Below
    <3>3. l + 8 \in Nat /\ M < l + 8 /\ l + 8 < Free(h3) /\ k.addr \in Nat
      <4> HIDE DEF F, M
      <4> QED BY <3>2, <1>1, <1>2, <1>5, <1>7
    <3>4. g = h3 ## <<l + 8, k.addr>>
      BY <3>1
    <3> HIDE DEF g
    <3> QED BY <3>3, <3>4, <1>7, StoreBelowTop
  <2> QED BY <2>1, <2>2
<1> HIDE DEF g
<1>9. Below(g, lv \cup {Block(F + CHUNK_SIZE, 12)})
  <2>1. 12 \in Nat /\ Free(h) + CHUNK_SIZE + 12 <= Free(g) /\ g.mngr = h.mngr
    BY <1>1, <1>8
  <2>2. OneTop(h, Each(most), n + 1) /\ OneTop(g, each, n)
    BY <1>8
  <2>3. Below(g, lv \cup {Block(Free(h) + CHUNK_SIZE, 12)})
    BY <2>1, <2>2, BlockCut DEF each
  <2> QED BY <2>3
<1> QED BY <1>1, <1>2, <1>3, <1>8, <1>9 DEF each

\* What the requests have to satisfy for the heap never to be full: most is
\* the largest of them, and every call may take a chunk header and a page
\* more than it asks for.  There is one processor.
FitsHeap(most) ==
  /\ most \in Nat /\ most >= 12 /\ \A size \in Sizes : size <= most
  /\ (MaxCalls + 5) * Each(most) <= MNGR_SIZE
  /\ CpuCounts \subseteq {0, 1}

\* The invariant.
Growing(most) ==
  /\ ic # "up" => live = {} /\ first = 0 /\ calls = 0 /\ ~freed
  /\ ic = "smp" => OneTop(heap, Each(most), MaxCalls + 3)
  /\ ic = "up" /\ ~freed =>
       /\ calls \in 0 .. MaxCalls
       /\ OneTop(heap, Each(most), MaxCalls - calls)
       /\ Below(heap, live)
       /\ last \in Nat /\ Block(last, 12) \in live

\* The manager and its first chunk leave room for every call.
LEMMA MngrHasRoom ==
  ASSUME FewTables, NEW most, FitsHeap(most), NEW h, NEW t, Tabled(h, t)
  PROVE  OneTop(MngrInit(h), Each(most), MaxCalls + 3)
<1> DEFINE each == Each(most)
           n == MaxCalls + 3
           nn == n * each
           cm == h.brk
           first1 == PageAfter(cm + CHUNK_SIZE)
           size == PageAfter(MNGR_SIZE - 2 * CHUNK_SIZE - CHUNK_SIZE)
           g == [mem |-> h.mem, brk |-> h.brk + MNGR_SIZE, mngr |-> cm]
           h1 == g ## <<cm, first1>>
           h2 == h1 ## <<cm + 4, size>>
           h3 == h2 ## <<first1 + 4, size>>
           h4 == h3 ## <<first1, 0>>
           h5 == h4 ## <<first1 + 12, 0>>
           h6 == h5 ## <<first1 + 8, 0>>
<1>1. /\ PAGE_SIZE \in Nat \ {0} /\ MNGR_SIZE \in Nat \ {0} /\ MEM_START \in Nat
      /\ MOD \in Nat \ {0} /\ MEM_START + 3 * MNGR_SIZE < MOD
      /\ CHUNK_SIZE = 8 /\ PAGE_SIZE >= 32
  <2>1. PAGE_SIZE % 32 = 0
    BY HeapAssumption
  <2>2. PAGE_SIZE \in Nat \ {0}
    BY HeapSizes
  <2>3. PAGE_SIZE >= 32
    BY <2>1, <2>2
  <2> QED BY <2>3, HeapSizes DEF CHUNK_SIZE
<1>2. most \in Nat /\ most >= 12 /\ MaxCalls \in Nat
  BY StartupAssumption DEF FitsHeap
<1>3. each \in Nat /\ each = most + 8 + PAGE_SIZE
  BY <1>1, <1>2 DEF Each
<1>4. nn \in Nat /\ nn + each + each <= MNGR_SIZE
  <2>1. n \in Nat /\ n + 1 \in Nat /\ (n + 1) + 1 = MaxCalls + 5
    BY <1>2
  <2>2. (MaxCalls + 5) * each <= MNGR_SIZE
    BY DEF FitsHeap
  <2> HIDE DEF each, n
  <2>3. nn \in Nat /\ (n + 1) * each = nn + each
    BY <1>3, <2>1, RoomLeft
  <2>4. ((n + 1) + 1) * each = (n + 1) * each + each
    BY <1>3, <2>1, RoomLeft
  <2>5. (MaxCalls + 5) * each = nn + each + each
    BY <2>1, <2>3, <2>4
  <2> HIDE DEF nn
  <2> QED BY <2>2, <2>3, <2>5
<1>5. cm \in Nat \ {0} /\ cm <= MEM_START + MNGR_SIZE
  <2> DEFINE c == Cardinality(DOMAIN t)
  <2>1. c \in 0 .. LastTable + 1 /\ cm = InUse(c)
    BY TabledSize DEF Tabled
  <2> HIDE DEF c, cm
  <2>2. cm \in Nat \ {0} /\ cm + PAGE_SIZE <= EndPage * PAGE_SIZE
    BY <2>1, MemoryInUse, MemorySuffices
  <2>3. EndPage * PAGE_SIZE = MEM_START + MNGR_SIZE
    BY HeapPages
  <2> QED BY <2>2, <2>3, <1>1
<1> HIDE DEF nn, each, n
<1>6. first1 \in Nat /\ cm + 8 < first1 /\ first1 <= cm + 8 + PAGE_SIZE
  <2> HIDE DEF cm
  <2> DEFINE x == cm + CHUNK_SIZE
  <2>1. x \in Nat /\ x + PAGE_SIZE < MOD /\ x = cm + 8
    BY <1>1, <1>2, <1>3, <1>4, <1>5
  <2> HIDE DEF x
  <2>2. PageAfter(x) \in x + 1 .. x + PAGE_SIZE
    BY <2>1, PageAfterIs
  <2> QED BY <2>1, <2>2, <1>1, <1>5 DEF x
<1>7. size \in Nat /\ nn + each <= size /\ size < MOD
  <2> DEFINE x == MNGR_SIZE - 2 * CHUNK_SIZE - CHUNK_SIZE
  <2>1. x \in Nat /\ x + PAGE_SIZE < MOD /\ x = MNGR_SIZE - 24
    BY <1>1, <1>2, <1>3, <1>4
  <2> HIDE DEF x
  <2>2. PageAfter(x) \in x + 1 .. x + PAGE_SIZE
    BY <2>1, PageAfterIs
  <2> QED BY <2>1, <2>2, <1>1, <1>2, <1>3, <1>4 DEF x
<1> HIDE DEF first1, size
<1>8. Record(g) /\ g.mngr = cm /\ Same(g, g) /\ Numbers(g)
  <2>1. g.mem = h.mem /\ DOMAIN h.mem = {}
    BY DEF Tabled
  <2>2. Record(g) /\ g.mngr = cm
    BY DEF Record
  <2> HIDE DEF g
  <2> QED BY <2>1, <2>2 DEF Same, Numbers, Word
<1>9. MngrInit(h) = h6
  <2> DEFINE k == Kalloc(h, MNGR_SIZE, FALSE)
  <2>1. Record(h) /\ h.mngr = 0
    BY DEF Tabled
  <2>2. k = [heap |-> [h EXCEPT !.brk = cm + MNGR_SIZE], addr |-> cm]
    BY <2>1 DEF Kalloc
  <2>3. \A x : [h EXCEPT !.brk = x] = [mem |-> h.mem, brk |-> x, mngr |-> 0]
    BY <2>1 DEF Record
  <2>4. k.addr = cm /\ k.heap = [mem |-> h.mem, brk |-> cm + MNGR_SIZE, mngr |-> 0]
    <3> HIDE DEF k
    <3> QED BY <2>2, <2>3
  <2>5. MngrInit(h) = [k.heap EXCEPT !.mngr = k.addr]
                        ## <<k.addr, PageAfter(k.addr + CHUNK_SIZE)>> ## <<k.addr + 4, size>>
                        ## <<PageAfter(k.addr + CHUNK_SIZE) + 4, size>>
                        ## <<PageAfter(k.addr + CHUNK_SIZE), 0>>
                        ## <<PageAfter(k.addr + CHUNK_SIZE) + 12, 0>>
                        ## <<PageAfter(k.addr + CHUNK_SIZE) + 8, 0>>
    BY DEF MngrInit, size
  <2> HIDE DEF k
  <2>6. [k.heap EXCEPT !.mngr = k.addr] = g
    BY <2>4
  <2> HIDE DEF g
  <2> QED BY <2>4, <2>5, <2>6 DEF first1
<1> HIDE DEF g
<1>10. Same(g, h1) /\ Numbers(h1) /\ \A x : Word(h1, x) = IF x = cm THEN first1 ELSE Word(g, x)
  BY <1>6, <1>8, NumbersStored
<1> HIDE DEF h1
<1>11. Same(g, h2) /\ Numbers(h2) /\ \A x : Word(h2, x) = IF x = cm + 4 THEN size ELSE Word(h1, x)
  BY <1>7, <1>10, NumbersStored
<1> HIDE DEF h2
<1>12. Same(g, h3) /\ Numbers(h3)
       /\ \A x : Word(h3, x) = IF x = first1 + 4 THEN size ELSE Word(h2, x)
  BY <1>7, <1>11, NumbersStored
<1> HIDE DEF h3
<1>13. Same(g, h4) /\ Numbers(h4) /\ \A x : Word(h4, x) = IF x = first1 THEN 0 ELSE Word(h3, x)
  BY <1>12, NumbersStored
<1> HIDE DEF h4
<1>14. Same(g, h5) /\ Numbers(h5)
       /\ \A x : Word(h5, x) = IF x = first1 + 12 THEN 0 ELSE Word(h4, x)
  BY <1>13, NumbersStored
<1> HIDE DEF h5
<1>15. Same(g, h6) /\ Numbers(h6)
       /\ \A x : Word(h6, x) = IF x = first1 + 8 THEN 0 ELSE Word(h5, x)
  BY <1>14, NumbersStored
<1> HIDE DEF h6
<1>16. /\ Word(h6, cm) = first1 /\ Word(h6, first1 + 4) = size
       /\ Word(h6, first1 + 8) = 0 /\ Word(h6, first1 + 12) = 0
  <2> HIDE DEF cm
  <2> QED BY <1>5, <1>6, <1>10, <1>11, <1>12, <1>13, <1>14, <1>15
<1>17. Record(h6) /\ h6.mngr = cm
  BY <1>8, <1>15 DEF Same
<1>18. Free(h6) = first1
  BY <1>16, <1>17 DEF Free
<1>19. FNext(h6, first1) = 0 /\ FPrev(h6, first1) = 0 /\ HeadOf(h6, first1) = size
  BY <1>16 DEF FNext, FPrev, HeadOf
<1>20. first1 + nn + each < MOD
  <2> HIDE DEF cm
  <2> QED BY <1>1, <1>2, <1>3, <1>4, <1>5, <1>6
<1>21. OneTop(h6, each, n)
  <2>1. n * each + each <= size /\ first1 + n * each + each < MOD
    BY <1>7, <1>20 DEF nn
  <2>2. h6.mngr \in Nat \ {0} /\ h6.mngr + CHUNK_SIZE < first1
    BY <1>1, <1>5, <1>6, <1>17
  <2> HIDE DEF cm
  <2> QED BY <1>7, <1>15, <1>17, <1>18, <1>19, <2>1, <2>2 DEF OneTop
<1> QED BY <1>9, <1>21 DEF each, n

\* Room for more calls is room for fewer.
LEMMA FewerCalls ==
  ASSUME NEW each \in Nat, NEW n \in Nat, NEW m \in Nat, m <= n, NEW h, OneTop(h, each, n)
  PROVE  OneTop(h, each, m)
<1> DEFINE x == n * each
           y == m * each
           F == Free(h)
           H == HeadOf(h, F)
<1>1. x \in Nat /\ y \in Nat /\ y <= x
  <2>1. x \in Nat /\ y \in Nat
    OBVIOUS
  <2>2. CASE m = n
    BY <2>1, <2>2
  <2>3. CASE m < n /\ each # 0
    BY <2>1, <2>3, TimesKeepsOrder
  <2>4. CASE each = 0
    BY <2>4
  <2> QED BY <2>2, <2>3, <2>4
<1>2. F \in Nat /\ H \in Nat /\ MOD \in Nat
  BY HeapSizes DEF OneTop, Numbers, Free, HeadOf
<1>3. x + each <= H /\ F + x + each < MOD
  BY DEF OneTop
<1> HIDE DEF x, y, F, H
<1>4. y + each <= H /\ F + y + each < MOD
  BY <1>1, <1>2, <1>3
<1> QED BY <1>4 DEF OneTop, y, F, H

\* What is said of the heap is said of its words.
LEMMA SameWords ==
  ASSUME NEW each, NEW n, NEW h, OneTop(h, each, n), NEW lv, Below(h, lv),
         NEW g, Record(g), g.mngr = h.mngr, \A x : Word(g, x) = Word(h, x)
  PROVE  OneTop(g, each, n) /\ Below(g, lv)
<1>1. Free(g) = Free(h)
  BY DEF Free
<1>2. \A c : FNext(g, c) = FNext(h, c) /\ FPrev(g, c) = FPrev(h, c) /\ HeadOf(g, c) = HeadOf(h, c)
  BY DEF FNext, FPrev, HeadOf
<1>3. Numbers(g)
  BY DEF OneTop, Numbers
<1>4. OneTop(g, each, n)
  BY <1>1, <1>2, <1>3 DEF OneTop
<1>5. Below(g, lv)
  BY <1>1 DEF Below
<1> QED BY <1>4, <1>5

\* With one processor, startup_cpus has nobody to start.
LEMMA OneCpu ==
  ASSUME NEW h, Record(h), NEW a, NEW n \in {0, 1}
  PROVE  /\ Record(StartupCpus(h, a, n)) /\ StartupCpus(h, a, n).mngr = h.mngr
         /\ \A x : Word(StartupCpus(h, a, n), x) = Word(h, x)
<1> DEFINE ids == {a + 8 * p : p \in 1..(n - 1)}
           states == {a + 8 * p + 4 : p \in 1..(n - 1)}
           m == [x \in DOMAIN h.mem \cup ids \cup states |->
                   IF x \in ids THEN (x - a) \div 8
                   ELSE IF x \in states THEN OFFLINE ELSE h.mem[x]]
           g == StartupCpus(h, a, n)
<1>1. ids = {} /\ states = {}
  <2>1. 1..(n - 1) = {}
    OBVIOUS
  <2> QED BY <2>1
<1>2. g = [h EXCEPT !.mem = m]
  BY DEF StartupCpus
<1> HIDE DEF ids, states, g
<1>3. DOMAIN m = DOMAIN h.mem /\ \A x \in DOMAIN h.mem : m[x] = h.mem[x]
  BY <1>1
<1> HIDE DEF m
<1>4. g = [mem |-> m, brk |-> h.brk, mngr |-> h.mngr]
  BY <1>2 DEF Record
<1>5. Record(g) /\ g.mngr = h.mngr /\ g.mem = m
  BY <1>4 DEF Record
<1>6. \A x : Word(g, x) = Word(h, x)
  BY <1>3, <1>5 DEF Word
<1> QED BY <1>5, <1>6 DEF g

\* initSMP: the shell's node, and what there is to know about processors.
LEMMA SmpCuts ==
  ASSUME NEW most, FitsHeap(most), Growing(most), NEW count \in CheckCPUs, InitSMP(count)
  PROVE  Growing(most)'
<1> DEFINE shell == LoadProcess(heap, first, last)
           cpus == Kalloc(shell.heap, 12, FALSE)
           c1 == cpus.heap ## <<cpus.addr, 0>>
           counts == c1 ## <<cpus.addr + 4, count>>
           infos == Kalloc(counts, 4 * count, FALSE)
           told == infos.heap ## <<cpus.addr + 8, infos.addr>>
           each == Each(most)
           n == MaxCalls
           b1 == Block(shell.last, 12)
           b2 == Block(cpus.addr, 12)
           b3 == Block(infos.addr, 4 * count)
<1>1. /\ ic = "smp" /\ ic' = "up" /\ UNCHANGED <<freed, calls>>
      /\ last' = shell.last
      /\ \/ count = -1 /\ heap' = shell.heap /\ live' = {b1}
         \/ /\ count # -1 /\ heap' = StartupCpus(told, infos.addr, count)
            /\ live' = {b1, b2, b3}
  BY DEF InitSMP
<1>2. first = 0 /\ calls = 0 /\ ~freed /\ OneTop(heap, each, n + 3)
  BY <1>1 DEF Growing
<1>3. /\ n \in Nat /\ n + 2 \in Nat /\ n + 1 \in Nat /\ most \in Nat /\ most >= 12
      /\ each \in Nat /\ n + 3 = (n + 2) + 1 /\ n + 2 = (n + 1) + 1
  BY StartupAssumption, HeapSizes DEF FitsHeap, Each, CHUNK_SIZE
<1> HIDE DEF n
<1>4. OneTop(shell.heap, each, n + 2) /\ Below(shell.heap, {b1}) /\ shell.last \in Nat
  <2>1. Below(heap, {})
    BY DEF Below
  <2>2. OneTop(heap, each, (n + 2) + 1)
    BY <1>2, <1>3
  <2>3. /\ OneTop(shell.heap, each, n + 2)
        /\ Below(shell.heap, {} \cup {b1})
        /\ shell.last \in Nat
    BY <1>2, <1>3, <2>1, <2>2, LoadCuts
  <2> QED BY <2>3
<1> HIDE DEF shell
<1>5. CASE count = -1
  <2>1. heap' = shell.heap /\ live' = {b1}
    BY <1>1, <1>5
  <2>2. OneTop(shell.heap, each, n - calls)
    <3>1. n - calls = n /\ n <= n + 2
      BY <1>2, <1>3
    <3> HIDE DEF each
    <3> QED BY <1>3, <1>4, <3>1, FewerCalls
  <2> QED BY <1>1, <1>2, <1>3, <1>4, <2>1, <2>2 DEF Growing, n
<1>6. CASE count # -1
  <2>1. heap' = StartupCpus(told, infos.addr, count) /\ live' = {b1, b2, b3}
    BY <1>1, <1>6
  <2>2. count \in {0, 1}
    BY <1>6 DEF CheckCPUs, FitsHeap
  <2>3. Cut(shell.heap, cpus, 12, each, n + 1)
    <3>1. OneTop(shell.heap, Each(most), (n + 1) + 1)
      BY <1>3, <1>4
    <3> QED BY <1>3, <3>1, KallocCuts
  <2> HIDE DEF each
  <2>4. Below(cpus.heap, {b1} \cup {b2})
    <3>1. Below(cpus.heap, {b1} \cup {Block(Free(shell.heap) + CHUNK_SIZE, 12)})
      BY <1>4, <2>3, BlockCut DEF Cut
    <3> QED BY <2>3, <3>1 DEF Cut
  <2> DEFINE G == Free(cpus.heap)
             M == heap.mngr
             a == cpus.addr
  <2>5. G \in Nat /\ a \in Nat /\ cpus.heap.mngr < a /\ a + 12 <= G
        /\ OneTop(cpus.heap, each, n + 1) /\ cpus.heap.mngr \in Nat
    <3>1. OneTop(cpus.heap, each, n + 1) /\ cpus.heap.mngr = shell.heap.mngr
          /\ a = Free(shell.heap) + CHUNK_SIZE /\ a + 12 <= G
      BY <2>3 DEF Cut
    <3>2. Free(shell.heap) \in Nat /\ shell.heap.mngr \in Nat
          /\ shell.heap.mngr + CHUNK_SIZE < Free(shell.heap)
      BY <1>4 DEF OneTop, Numbers, Free
    <3>3. G \in Nat
      BY <3>1 DEF OneTop, Numbers, Free
    <3> HIDE DEF cpus
    <3> QED BY <3>1, <3>2, <3>3 DEF CHUNK_SIZE
  <2> HIDE DEF cpus
  <2>6. OneTop(c1, each, n + 1) /\ Free(c1) = G /\ c1.mngr = cpus.heap.mngr
    <3>1. a < G
      BY <2>5
    <3> QED BY <2>5, <3>1, StoreBelowTop
  <2> HIDE DEF c1
  <2>7. OneTop(counts, each, n + 1) /\ Free(counts) = G /\ counts.mngr = cpus.heap.mngr
    <3>1. a + 4 \in Nat /\ c1.mngr < a + 4 /\ a + 4 < Free(c1) /\ count \in Nat
      BY <2>2, <2>5, <2>6
    <3> QED BY <2>6, <3>1, StoreBelowTop
  <2> HIDE DEF counts
  <2>8. Below(counts, {b1, b2})
    <3>1. {b1} \cup {b2} = {b1, b2}
      OBVIOUS
    <3> HIDE DEF b1, b2
    <3> QED BY <2>4, <2>7, <3>1 DEF Below
  <2> DEFINE size == 4 * count
  <2>9. size \in Nat /\ size <= most
    BY <1>3, <2>2
  <2> HIDE DEF size
  <2>10. Cut(counts, infos, size, each, n)
    <3>1. infos = Kalloc(counts, size, FALSE)
      BY DEF size
    <3> HIDE DEF infos
    <3>2. OneTop(counts, Each(most), n + 1)
      BY <2>7 DEF each
    <3> QED BY <1>3, <2>9, <3>1, <3>2, KallocCuts DEF each
  <2> HIDE DEF infos
  <2>11. Below(infos.heap, {b1, b2} \cup {b3})
    <3>1. Below(infos.heap, {b1, b2} \cup {Block(Free(counts) + CHUNK_SIZE, size)})
      <4> HIDE DEF b1, b2
      <4> QED BY <2>7, <2>8, <2>9, <2>10, BlockCut DEF Cut
    <3>2. b3 = Block(Free(counts) + CHUNK_SIZE, size)
      BY <2>10 DEF Cut, size
    <3> HIDE DEF b1, b2, b3
    <3> QED BY <3>1, <3>2
  <2>12. OneTop(told, each, n) /\ Free(told) = Free(infos.heap) /\ told.mngr = infos.heap.mngr
    <3>1. OneTop(infos.heap, each, n) /\ infos.heap.mngr = counts.mngr
          /\ infos.addr = G + CHUNK_SIZE /\ G + CHUNK_SIZE + size <= Free(infos.heap)
      BY <2>7, <2>10 DEF Cut
    <3>2. Free(infos.heap) \in Nat
      BY <3>1 DEF OneTop, Numbers, Free
    <3> HIDE DEF G
    <3>3. a + 8 \in Nat /\ infos.heap.mngr < a + 8 /\ a + 8 < Free(infos.heap) /\ infos.addr \in Nat
      BY <2>5, <2>7, <2>9, <3>1, <3>2 DEF CHUNK_SIZE
    <3> QED BY <3>1, <3>3, StoreBelowTop
  <2> HIDE DEF told
  <2>13. Below(told, {b1, b2, b3})
    <3>1. {b1, b2} \cup {b3} = {b1, b2, b3}
      OBVIOUS
    <3> HIDE DEF b1, b2, b3
    <3> QED BY <2>11, <2>12, <3>1 DEF Below
  <2>14. OneTop(heap', each, n) /\ Below(heap', live')
    <3>1. /\ Record(heap') /\ heap'.mngr = told.mngr
          /\ \A x : Word(heap', x) = Word(told, x)
      <4>1. Record(told)
        BY <2>12 DEF OneTop
      <4> QED BY <4>1, <2>1, <2>2, OneCpu
    <3> HIDE DEF b1, b2, b3
    <3> QED BY <2>1, <2>12, <2>13, <3>1, SameWords
  <2>15. b1 \in live' /\ n - calls = n
    BY <1>2, <1>3, <2>1
  <2> QED BY <1>1, <1>2, <1>3, <1>4, <2>14, <2>15 DEF Growing, n, each
<1> QED BY <1>5, <1>6

\* Every step keeps the invariant.
LEMMA GrowingKept ==
  ASSUME FewTables, NEW most, FitsHeap(most), Paging, Growing(most), [Next]_vars
  PROVE  Growing(most)'
<1>1. MaxCalls \in Nat /\ most \in Nat /\ most >= 12 /\ \A size \in Sizes : size <= most
      /\ Sizes \subseteq Nat
  BY StartupAssumption DEF FitsHeap
<1>2. CASE UNCHANGED <<ic, heap, live, first, last, calls, freed>>
  BY <1>2 DEF Growing
<1>3. CASE LoaderNext /\ UNCHANGED kernelVars
  BY <1>2, <1>3 DEF kernelVars
<1>4. CASE UNCHANGED vars
  BY <1>2, <1>4 DEF vars, kernelVars
<1>5. CASE EnterKernel
  <2>1. pc = "go" /\ ic' = "frames" /\ UNCHANGED <<live, first, calls, freed>>
    BY <1>5 DEF EnterKernel
  <2>2. ic = "off"
    BY <2>1 DEF Paging
  <2> QED BY <2>1, <2>2 DEF Growing
<1>6. CASE AllocFrames \/ MakeTables \/ IdentityMap \/ MapHeap
  <2>1. ic \notin {"smp", "up"} /\ ic' \notin {"smp", "up"} /\ UNCHANGED <<live, first, calls, freed>>
    BY <1>6 DEF AllocFrames, MakeTables, IdentityMap, MapHeap
  <2> QED BY <2>1 DEF Growing
<1>7. CASE EnablePaging
  <2>1. ic = "enable" /\ ic' = "smp" /\ heap' = MngrInit(heap)
        /\ UNCHANGED <<live, first, calls, freed>>
    BY <1>7 DEF EnablePaging
  <2>2. Tabled(heap, tables)
    BY <2>1 DEF Paging, MappingHeap
  <2>3. OneTop(heap', Each(most), MaxCalls + 3)
    BY <2>1, <2>2, MngrHasRoom
  <2> QED BY <2>1, <2>3 DEF Growing
<1>8. CASE \E count \in CheckCPUs : InitSMP(count)
  BY <1>8, SmpCuts
<1>10. CASE ShellLoads
  <2> DEFINE s == LoadProcess(heap, first, last)
             n == MaxCalls - calls'
  <2>1. /\ ic = "up" /\ ic' = "up" /\ calls < MaxCalls /\ calls' = calls + 1 /\ UNCHANGED freed
        /\ heap' = s.heap /\ last' = s.last /\ live' = live \cup {Block(s.last, 12)}
    BY <1>10 DEF ShellLoads
  <2>2. SUFFICES ASSUME ~freed PROVE Growing(most)'
    BY <2>1 DEF Growing
  <2>3. /\ calls \in 0 .. MaxCalls /\ OneTop(heap, Each(most), MaxCalls - calls)
        /\ Below(heap, live) /\ last \in Nat /\ Block(last, 12) \in live
    BY <2>1, <2>2 DEF Growing
  <2>4. n \in Nat /\ MaxCalls - calls = n + 1 /\ calls' \in 0 .. MaxCalls
    BY <1>1, <2>1, <2>3
  <2> HIDE DEF n
  <2>5. OneTop(s.heap, Each(most), n) /\ Below(s.heap, live \cup {Block(s.last, 12)}) /\ s.last \in Nat
    <3>1. OneTop(heap, Each(most), n + 1)
      BY <2>3, <2>4
    <3> QED BY <1>1, <2>3, <2>4, <3>1, LoadCuts
  <2> HIDE DEF s
  <2>6. Block(last', 12) \in live'
    BY <2>1
  <2> QED BY <2>1, <2>4, <2>5, <2>6 DEF Growing, n
<1>11. ASSUME NEW size \in Sizes, NEW align \in BOOLEAN, Alloc(size, align)
       PROVE  Growing(most)'
  <2> DEFINE k == Kalloc(heap, size, align)
             n == MaxCalls - calls'
  <2>1. /\ ic = "up" /\ ic' = "up" /\ calls < MaxCalls /\ calls' = calls + 1
        /\ UNCHANGED <<freed, last>>
        /\ heap' = k.heap /\ live' = live \cup {Block(k.addr, size)}
    BY <1>11 DEF Alloc
  <2>2. SUFFICES ASSUME ~freed PROVE Growing(most)'
    BY <2>1 DEF Growing
  <2>3. /\ calls \in 0 .. MaxCalls /\ OneTop(heap, Each(most), MaxCalls - calls)
        /\ Below(heap, live) /\ last \in Nat /\ Block(last, 12) \in live
    BY <2>1, <2>2 DEF Growing
  <2>4. n \in Nat /\ MaxCalls - calls = n + 1 /\ calls' \in 0 .. MaxCalls
    BY <1>1, <2>1, <2>3
  <2> HIDE DEF n
  <2>5. Cut(heap, k, size, Each(most), n)
    <3>1. OneTop(heap, Each(most), n + 1)
      BY <2>3, <2>4
    <3>2. size \in Nat /\ size <= most
      BY <1>1
    <3> QED BY <1>1, <2>4, <3>1, <3>2, KallocCuts
  <2> HIDE DEF k
  <2>6. Below(heap', live')
    <3>1. size \in Nat
      BY <1>1
    <3>2. OneTop(k.heap, Each(most), n) /\ k.heap.mngr = heap.mngr
          /\ k.addr = Free(heap) + CHUNK_SIZE
          /\ Free(heap) + CHUNK_SIZE + size <= Free(k.heap)
      BY <2>5 DEF Cut
    <3>3. Below(k.heap, live \cup {Block(Free(heap) + CHUNK_SIZE, size)})
      BY <2>3, <3>1, <3>2, BlockCut
    <3> QED BY <2>1, <3>2, <3>3
  <2>7. OneTop(heap', Each(most), n)
    BY <2>1, <2>5 DEF Cut
  <2> QED BY <2>1, <2>3, <2>4, <2>6, <2>7 DEF Growing, n
<1>12. CASE \E b \in live : Release(b)
  <2>1. ic' = "up" /\ freed' = TRUE
    BY <1>12 DEF Release
  <2> QED BY <2>1 DEF Growing
<1> QED BY <1>3, <1>4, <1>5, <1>6, <1>7, <1>8, <1>10, <1>11, <1>12 DEF Next, KernelStep

\* What is given out is apart, and the only free chunk is above it.
LEMMA GrowingShows ==
  ASSUME NEW most, Growing(most)
  PROVE  LiveDisjoint
<1> SUFFICES ASSUME ic = "up", ~freed, NEW b \in live
             PROVE  /\ \A d \in live \ {b} : b.at + b.size <= d.at \/ d.at + d.size <= b.at
                    /\ \A c \in Elems(FreeList(heap)) \cup {d.at - CHUNK_SIZE : d \in live} :
                         c + CHUNK_SIZE <= b.at \/ b.at + b.size <= c
  BY DEF LiveDisjoint
<1>1. /\ OneTop(heap, Each(most), MaxCalls - calls) /\ Below(heap, live)
      /\ CHUNK_SIZE = 8
  BY DEF Growing, CHUNK_SIZE
<1>2. \A d \in live : d.at \in Nat /\ d.size \in Nat /\ d.at + d.size <= Free(heap)
  BY <1>1 DEF Below
<1>3. \A d \in live : d # b => b.at + b.size + 8 <= d.at \/ d.at + d.size + 8 <= b.at
  BY <1>1 DEF Below
<1>4. ASSUME NEW d \in live \ {b} PROVE b.at + b.size <= d.at \/ d.at + d.size <= b.at
  BY <1>2, <1>3
<1>5. Elems(FreeList(heap)) = {Free(heap)}
  <2>1. Free(heap) # 0 /\ FNext(heap, Free(heap)) = 0
    BY <1>1 DEF OneTop
  <2> QED BY <2>1, OneFree
<1>6. ASSUME NEW d \in live PROVE (d.at - 8) + 8 <= b.at \/ b.at + b.size <= d.at - 8
  <2>1. d.at \in Nat /\ d.size \in Nat /\ b.at \in Nat /\ b.size \in Nat
    BY <1>2
  <2>2. CASE d = b
    BY <2>1, <2>2
  <2>3. CASE d # b
    BY <2>1, <2>3, <1>3
  <2> QED BY <2>2, <2>3
<1>7. ASSUME NEW c \in Elems(FreeList(heap)) \cup {d.at - CHUNK_SIZE : d \in live}
      PROVE  c + CHUNK_SIZE <= b.at \/ b.at + b.size <= c
  <2>1. CASE c = Free(heap)
    BY <1>2, <2>1
  <2>2. CASE c \in {d.at - CHUNK_SIZE : d \in live}
    <3>1. PICK d \in live : c = d.at - CHUNK_SIZE
      BY <2>2
    <3> QED BY <1>1, <1>6, <3>1
  <2> QED BY <1>5, <2>1, <2>2
<1> QED BY <1>4, <1>7

\* Until somebody frees, what kalloc has given out is disjoint and holds no
\* chunk header, aligned or not: as long as the requests fit the heap, each
\* with a header and a page to spare, and there is one processor (with more,
\* initSMP writes behind its block).
THEOREM BlocksApart ==
  ASSUME FewTables, NEW most, FitsHeap(most)
  PROVE  Spec => []LiveDisjoint
<1>1. Init => Paging /\ Growing(most)
  <2>1. Init => Paging
    BY PagingStarts
  <2>2. Init => Growing(most)
    BY DEF Init, Growing
  <2> QED BY <2>1, <2>2
<1>2. Paging /\ Growing(most) /\ [Next]_vars => (Paging /\ Growing(most))'
  BY PagingKept, GrowingKept
<1>3. Growing(most) => LiveDisjoint
  BY GrowingShows
<1> QED BY <1>1, <1>2, <1>3, PTL DEF Spec
=============================================================================
