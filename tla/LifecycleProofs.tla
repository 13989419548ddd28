-------------------------- MODULE LifecycleProofs ---------------------------
(***************************************************************************)
(* The life cycle of processes, for every number of PCBs and stacks: what  *)
(* fork hands out and what the two ways of releasing a dead process give   *)
(* back; readers and input; zombies and those that wait for them; killed   *)
(* processes; children of dead ones; sleepers and the clock.               *)
(***************************************************************************)
EXTENDS KernelProofs, FiniteSetTheorems

OnList(F) == {F[i] : i \in DOMAIN F}

\* Every stack is on the free list F once, or belongs to one PCB.
Owned(tab, F) ==
  /\ F \in Seq(Stacks)
  /\ \A i, j \in DOMAIN F : F[i] = F[j] => i = j
  /\ \A p, q \in PCBs :
       tab[p].stack # NULL /\ tab[p].stack = tab[q].stack => p = q
  /\ \A s \in Stacks : s \in OnList(F) <=> ~ \E p \in PCBs : tab[p].stack = s

\* PCBs with a stack have different pids, all below n.
Named(tab, n) ==
  /\ \A p, q \in PCBs :
       /\ tab[p].stack # NULL /\ tab[q].stack # NULL
       /\ tab[p].pid = tab[q].pid
       => p = q
  /\ \A p \in PCBs : tab[p].stack # NULL => tab[p].pid \in 1 .. n - 1

\* The PCBs on the free list A are those without a stack.
Spare(tab, A) == \A p \in PCBs : p \in DataOf(A) <=> tab[p].stack = NULL

Identity ==
  /\ Owned(pcbs, freeStacks)
  /\ Named(pcbs, nextPid)
  /\ Spare(pcbs, queue[Avail])

-----------------------------------------------------------------------------
(***************************************************************************)
(* What a step can do to stacks and pids.                                  *)
(***************************************************************************)

\* Data of a queue that grows or shrinks at its ends.
LEMMA DataOfAppend ==
  ASSUME NEW q \in Seq([data : PCBs, key : Nat]), NEW d \in PCBs, NEW k \in Nat
  PROVE  DataOf(QAppend(q, d, k)) = DataOf(q) \cup {d}
<1> DEFINE r == QAppend(q, d, k)
<1>1. /\ Entry(d, k) \in [data : PCBs, key : Nat] /\ Entry(d, k).data = d
      /\ r = Append(q, Entry(d, k))
  BY DEF Entry, QAppend
<1>2. /\ DOMAIN r = 1 .. Len(q) + 1 /\ DOMAIN q = 1 .. Len(q) /\ Len(q) \in Nat
      /\ \A i \in 1 .. Len(q) : r[i] = q[i]
      /\ r[Len(q) + 1] = Entry(d, k)
  <2> HIDE DEF r
  <2> QED BY <1>1, AppendProperties, LenProperties
<1> HIDE DEF r
<1>3. EntriesOf(r) = EntriesOf(q) \cup {Entry(d, k)}
  <2>1. ASSUME NEW e \in EntriesOf(r) PROVE e \in EntriesOf(q) \cup {Entry(d, k)}
    BY <1>2 DEF EntriesOf
  <2>2. ASSUME NEW e \in EntriesOf(q) PROVE e \in EntriesOf(r)
    BY <1>2 DEF EntriesOf
  <2>3. Entry(d, k) \in EntriesOf(r)
    <3>1. Len(q) + 1 \in DOMAIN r
      BY <1>2
    <3> QED BY <1>2, <3>1 DEF EntriesOf
  <2> QED BY <2>1, <2>2, <2>3
<1>4. DataOf(r) = DataOf(q) \cup {d}
  BY <1>1, <1>3 DEF DataOf
<1> QED BY <1>4 DEF r

\* Nothing: what a process owns and the lists stay.
LEMMA SameKeeps ==
  ASSUME Identity,
         \A p \in PCBs : /\ pcbs'[p].stack = pcbs[p].stack
                         /\ pcbs[p].stack # NULL => pcbs'[p].pid = pcbs[p].pid,
         UNCHANGED <<freeStacks, nextPid>>,
         DataOf(queue'[Avail]) = DataOf(queue[Avail])
  PROVE  Identity'
<1>1. Owned(pcbs', freeStacks')
  BY DEF Identity, Owned
<1>2. Named(pcbs', nextPid')
  BY DEF Identity, Named
<1>3. Spare(pcbs', queue'[Avail])
  BY DEF Identity, Spare
<1> QED BY <1>1, <1>2, <1>3 DEF Identity

\* Release: c is cleared, its stack and its PCB are given back.
LEMMA ReleaseKeeps ==
  ASSUME Identity, NEW c \in PCBs, pcbs \in [PCBs -> PCB], pcbs[c].stack # NULL,
         pcbs'[c] = ClearPcb,
         \A p \in PCBs \ {c} : /\ pcbs'[p].stack = pcbs[p].stack
                               /\ pcbs'[p].pid = pcbs[p].pid,
         freeStacks' = FreeStack(pcbs[c].stack),
         UNCHANGED nextPid,
         DataOf(queue'[Avail]) = DataOf(queue[Avail]) \cup {c}
  PROVE  Identity'
<1> DEFINE s == pcbs[c].stack
           F == freeStacks
           L == Len(F)
<1>1. s \in Stacks /\ F \in Seq(Stacks) /\ s \notin OnList(F)
  BY DEF PCB, NULL, Identity, Owned
<1>2. pcbs'[c].stack = NULL /\ NULL \notin Stacks
  BY DEF ClearPcb, NULL, Stacks
<1>3. /\ freeStacks' \in Seq(Stacks)
      /\ DOMAIN freeStacks' = 1 .. L + 1 /\ DOMAIN F = 1 .. L /\ L \in Nat
      /\ \A i \in 1 .. L : freeStacks'[i] = F[i]
      /\ freeStacks'[L + 1] = s
  BY <1>1, AppendProperties, LenProperties DEF FreeStack
<1>4. \A i \in 1 .. L : freeStacks'[i] # s
  BY <1>1, <1>3 DEF OnList
<1>5. OnList(freeStacks') = OnList(F) \cup {s}
  <2>1. ASSUME NEW x \in OnList(freeStacks') PROVE x \in OnList(F) \cup {s}
    BY <1>3 DEF OnList
  <2>2. ASSUME NEW x \in OnList(F) PROVE x \in OnList(freeStacks')
    BY <1>3 DEF OnList
  <2>3. s \in OnList(freeStacks')
    <3>1. L + 1 \in DOMAIN freeStacks'
      BY <1>3
    <3> QED BY <1>3, <3>1 DEF OnList
  <2> QED BY <2>1, <2>2, <2>3
<1>6. Owned(pcbs', freeStacks')
  <2>1. ASSUME NEW i \in DOMAIN freeStacks', NEW j \in DOMAIN freeStacks',
               freeStacks'[i] = freeStacks'[j]
        PROVE  i = j
    <3>1. CASE i \in 1 .. L /\ j \in 1 .. L
      BY <1>3, <2>1, <3>1 DEF Identity, Owned
    <3>2. CASE i = L + 1 \/ j = L + 1
      BY <1>3, <1>4, <2>1, <3>2
    <3> QED BY <1>3, <3>1, <3>2
  <2>2. ASSUME NEW p \in PCBs, NEW q \in PCBs,
               pcbs'[p].stack # NULL, pcbs'[p].stack = pcbs'[q].stack
        PROVE  p = q
    BY <1>2, <2>2 DEF Identity, Owned
  <2>3. ASSUME NEW t \in Stacks
        PROVE  t \in OnList(freeStacks') <=> ~ \E p \in PCBs : pcbs'[p].stack = t
    <3>1. CASE t = s
      BY <1>1, <1>2, <1>5, <3>1 DEF Identity, Owned
    <3>2. CASE t # s
      BY <1>1, <1>2, <1>5, <3>2 DEF Identity, Owned
    <3> QED BY <3>1, <3>2
  <2> QED BY <1>3, <2>1, <2>2, <2>3 DEF Owned
<1>7. Named(pcbs', nextPid')
  BY <1>2 DEF Identity, Named
<1>8. Spare(pcbs', queue'[Avail])
  BY <1>2 DEF Identity, Spare
<1> QED BY <1>6, <1>7, <1>8 DEF Identity

\* Fork: c gets the first free stack and the next pid, and leaves the list.
LEMMA ClaimKeeps ==
  ASSUME Identity, NEW c \in PCBs, pcbs \in [PCBs -> PCB], pcbs[c].stack = NULL,
         freeStacks # <<>>, nextPid \in Nat \ {0},
         pcbs'[c].stack = freeStacks[1], pcbs'[c].pid = nextPid,
         \A p \in PCBs \ {c} : pcbs'[p] = pcbs[p],
         freeStacks' = Tail(freeStacks), nextPid' = nextPid + 1,
         DataOf(queue'[Avail]) = DataOf(queue[Avail]) \ {c}
  PROVE  Identity'
<1> DEFINE F == freeStacks
           L == Len(F)
           s == F[1]
<1>1. /\ F \in Seq(Stacks) /\ L \in Nat \ {0} /\ DOMAIN F = 1 .. L
      /\ s \in Stacks /\ s # NULL
  <2>1. F \in Seq(Stacks) /\ F # <<>>
    BY DEF Identity, Owned
  <2>2. L \in Nat /\ L # 0 /\ DOMAIN F = 1 .. L
    BY <2>1, LenProperties, EmptySeq
  <2>3. s \in Stacks
    BY <2>1, <2>2, ElementOfSeq
  <2> QED BY <2>1, <2>2, <2>3 DEF Stacks, NULL
<1>2. /\ freeStacks' \in Seq(Stacks) /\ DOMAIN freeStacks' = 1 .. L - 1
      /\ \A i \in 1 .. L - 1 : freeStacks'[i] = F[i + 1]
  <2>1. F # <<>>
    OBVIOUS
  <2>2. Tail(F) \in Seq(Stacks) /\ Len(Tail(F)) = L - 1
        /\ \A i \in 1 .. Len(Tail(F)) : Tail(F)[i] = F[i + 1]
    BY <1>1, <2>1, HeadTailProperties
  <2> QED BY <2>2, LenProperties
<1>3. OnList(freeStacks') = OnList(F) \ {s}
  <2>1. ASSUME NEW x \in OnList(freeStacks') PROVE x \in OnList(F) /\ x # s
    <3>1. PICK i \in 1 .. L - 1 : x = F[i + 1]
      BY <1>2, <2>1 DEF OnList
    <3>2. i + 1 \in DOMAIN F /\ 1 \in DOMAIN F /\ i + 1 # 1
      BY <1>1
    <3> QED BY <3>1, <3>2 DEF OnList, Identity, Owned
  <2>2. ASSUME NEW x \in OnList(F), x # s PROVE x \in OnList(freeStacks')
    <3>1. PICK i \in 1 .. L : x = F[i]
      BY <1>1 DEF OnList
    <3>2. i - 1 \in 1 .. L - 1 /\ freeStacks'[i - 1] = x
      BY <1>1, <1>2, <2>2, <3>1
    <3> QED BY <1>2, <3>2 DEF OnList
  <2> QED BY <2>1, <2>2
<1>4. s \in OnList(F) /\ \A p \in PCBs : pcbs[p].stack # s
  <2>1. s \in OnList(F)
    BY <1>1 DEF OnList
  <2> QED BY <1>1, <2>1 DEF Identity, Owned
<1>5. Owned(pcbs', freeStacks')
  <2>1. ASSUME NEW i \in DOMAIN freeStacks', NEW j \in DOMAIN freeStacks',
               freeStacks'[i] = freeStacks'[j]
        PROVE  i = j
    <3>1. /\ i + 1 \in DOMAIN F /\ j + 1 \in DOMAIN F
          /\ F[i + 1] = F[j + 1] /\ i \in Int /\ j \in Int
      BY <1>1, <1>2, <2>1
    <3>2. i + 1 = j + 1
      BY <3>1 DEF Identity, Owned
    <3> QED BY <3>1, <3>2
  <2>2. ASSUME NEW p \in PCBs, NEW q \in PCBs,
               pcbs'[p].stack # NULL, pcbs'[p].stack = pcbs'[q].stack
        PROVE  p = q
    BY <1>4, <2>2 DEF Identity, Owned
  <2>3. ASSUME NEW t \in Stacks
        PROVE  t \in OnList(freeStacks') <=> ~ \E p \in PCBs : pcbs'[p].stack = t
    <3>1. CASE t = s
      BY <1>3, <3>1
    <3>2. CASE t # s
      <4>1. pcbs[c].stack # t /\ pcbs'[c].stack # t
        BY <3>2 DEF Stacks, NULL
      <4>2. (\E p \in PCBs : pcbs'[p].stack = t) <=> \E p \in PCBs : pcbs[p].stack = t
        BY <4>1
      <4> QED BY <1>3, <3>2, <4>2 DEF Identity, Owned
    <3> QED BY <3>1, <3>2
  <2> QED BY <1>2, <2>1, <2>2, <2>3 DEF Owned
<1>6. Named(pcbs', nextPid')
  <2>1. \A p \in PCBs \ {c} :
          pcbs[p].stack # NULL => pcbs[p].pid \in 1 .. nextPid - 1
    BY DEF Identity, Named
  <2>2. \A p \in PCBs : pcbs'[p].stack # NULL => pcbs'[p].pid \in 1 .. nextPid
    BY <2>1
  <2>3. ASSUME NEW p \in PCBs, NEW q \in PCBs,
               pcbs'[p].stack # NULL, pcbs'[q].stack # NULL, pcbs'[p].pid = pcbs'[q].pid
        PROVE  p = q
    BY <2>1, <2>3 DEF Identity, Named
  <2> QED BY <2>2, <2>3 DEF Named
<1>7. Spare(pcbs', queue'[Avail])
  BY <1>1 DEF Identity, Spare
<1> QED BY <1>5, <1>6, <1>7 DEF Identity

-----------------------------------------------------------------------------
(***************************************************************************)
(* Handlers that neither create nor release a process.                     *)
(***************************************************************************)

\* The tables and lists as IInv has them.
LEMMA Typed ==
  ASSUME IInv
  PROVE  /\ pcbs \in [PCBs -> PCB] /\ queue \in Family(Queues, PCBs)
         /\ current \in PCBs /\ freeStacks \in Seq(Stacks) /\ nextPid \in Pids
         /\ Avail \in Queues \ ReadyQs
BY QueueNumbers DEF IInv, TypeOK, Family

\* Making somebody ready leaves the other queues alone.
LEMMA ReadySpares ==
  ASSUME NEW Q \in Family(Queues, PCBs), NEW p, NEW prio \in Nat,
         NEW n \in Queues \ ReadyQs
  PROVE  Ready(Q, p, prio)[n] = Q[n]
<1>1. ReadyFor(prio) \in ReadyQs
  BY ReadyForIsReady
<1> QED BY <1>1 DEF Ready, Family

\* What every process owns stays.
SameOwners ==
  \A p \in PCBs : pcbs'[p].stack = pcbs[p].stack /\ pcbs'[p].pid = pcbs[p].pid

\* setprio, settime, readc and a wait for nobody; the clock; a full buffer.
LEMMA QuietKeeps ==
  ASSUME IInv, Identity,
         \/ SysSetprio \/ SysSettime \/ SysReadcNow \/ SysWaitNotFound
         \/ ClockTick \/ SioBuffer
  PROVE  Identity'
<1>1. pcbs \in [PCBs -> PCB] /\ current \in PCBs
  BY Typed
<1>2. SameOwners
  <2>1. CASE SysSetprio
    <3>1. PICK prio \in Prios : pcbs' = [pcbs EXCEPT ![current].prio = prio]
      BY <2>1 DEF SysSetprio
    <3> QED BY <1>1, <3>1 DEF SameOwners, PCB
  <2>2. CASE ~SysSetprio
    BY <2>2 DEF SysSettime, SysReadcNow, SysWaitNotFound, ClockTick, SioBuffer,
       SameOwners
  <2> QED BY <2>1, <2>2
<1>3. UNCHANGED <<freeStacks, nextPid, queue>>
  BY DEF SysSetprio, SysSettime, SysReadcNow, SysWaitNotFound, ClockTick, SioBuffer
<1> QED BY <1>2, <1>3, SameKeeps DEF SameOwners

\* sleep, exec, a readc and a wait that block; the end of the clock's handler.
LEMMA BlockKeeps ==
  ASSUME IInv, Identity,
         SysSleep \/ SysExec \/ SysReadcBlock \/ SysWaitBlock \/ ClockPreempt
  PROVE  Identity'
<1>1. /\ pcbs \in [PCBs -> PCB] /\ queue \in Family(Queues, PCBs)
      /\ Avail \in Queues \ ReadyQs /\ current \in PCBs
  BY Typed
<1>2. UNCHANGED <<freeStacks, nextPid>>
  BY DEF SysSleep, SysExec, SysReadcBlock, SysWaitBlock, ClockPreempt
<1>3. SameOwners
  <2>1. CASE SysSleep
    <3>1. pcbs' = [pcbs EXCEPT ![current].state = "SLEEPING"]
      BY <2>1 DEF SysSleep
    <3> QED BY <1>1, <3>1 DEF SameOwners, PCB
  <2>2. CASE SysReadcBlock
    <3>1. pcbs' = [pcbs EXCEPT ![current].status = BLOCKED]
      BY <2>2 DEF SysReadcBlock
    <3> QED BY <1>1, <3>1 DEF SameOwners, PCB
  <2>3. CASE SysWaitBlock
    <3>1. PICK pid \in 0 .. MaxPid :
            pcbs' = [pcbs EXCEPT ![current].state = "WAITING", ![current].want = pid]
      BY <2>3 DEF SysWaitBlock
    <3> QED BY <1>1, <3>1 DEF SameOwners, PCB
  <2>4. CASE SysExec
    <3>1. PICK prio \in Prios :
            pcbs' = MarkReady([pcbs EXCEPT ![current].prio = prio], current)
      BY <2>4 DEF SysExec
    <3> QED BY <1>1, <3>1 DEF SameOwners, PCB, MarkReady
  <2>5. CASE ClockPreempt
    <3>1. pcbs' = [pcbs EXCEPT ![current].state = "READY"]
      BY <2>5 DEF ClockPreempt, MarkReady
    <3> QED BY <1>1, <3>1 DEF SameOwners, PCB
  <2> QED BY <2>1, <2>2, <2>3, <2>4, <2>5
<1>4. queue'[Avail] = queue[Avail]
  <2>1. CASE SysSleep
    BY <1>1, <2>1, QueueNumbers DEF SysSleep, Family
  <2>2. CASE SysReadcBlock
    BY <1>1, <2>2, QueueNumbers DEF SysReadcBlock, Family
  <2>3. CASE SysWaitBlock
    BY <1>1, <2>3, QueueNumbers DEF SysWaitBlock, Family
  <2>4. CASE SysExec
    BY <1>1, <2>4, ReadySpares, InputsAssumption DEF SysExec
  <2>5. CASE ClockPreempt
    <3>1. Me.prio \in Nat
      BY <1>1 DEF Me, PCB
    <3> QED BY <1>1, <2>5, <3>1, ReadySpares DEF ClockPreempt
  <2> QED BY <2>1, <2>2, <2>3, <2>4, <2>5
<1> QED BY <1>2, <1>3, <1>4, SameKeeps DEF SameOwners

\* A kill: a mark, and for the caller itself a place on a ready queue.
LEMMA KillSpares ==
  ASSUME IInv, Identity, NEW pid \in 0 .. MaxPid, SysKill(pid)
  PROVE  Identity'
<1> DEFINE p == Min(PcbFind(pcbs, pid))
<1>1. /\ pcbs \in [PCBs -> PCB] /\ queue \in Family(Queues, PCBs)
      /\ current \in PCBs /\ Me.prio \in Nat /\ Avail \in Queues \ ReadyQs
  BY Typed DEF PCB, Me
<1>2. p \in PCBs /\ UNCHANGED <<freeStacks, nextPid>>
  BY FoundIsLive DEF SysKill
<1>3. \E s \in {"READY", "KILLED"} : pcbs' = [pcbs EXCEPT ![p].state = s]
  <2> DEFINE marked == [pcbs EXCEPT ![p].state = "KILLED"]
  <2>1. pcbs' = MarkReady(marked, p) \/ pcbs' = marked
    BY DEF SysKill
  <2>2. MarkReady(marked, p) = [pcbs EXCEPT ![p].state = "READY"]
    BY <1>1, <1>2 DEF MarkReady, PCB
  <2> QED BY <2>1, <2>2
<1> HIDE DEF p
<1>4. SameOwners
  BY <1>1, <1>2, <1>3 DEF SameOwners, PCB
<1>5. queue'[Avail] = queue[Avail]
  BY <1>1, ReadySpares DEF SysKill
<1> QED BY <1>2, <1>4, <1>5, SameKeeps DEF SameOwners

\* What is taken off another queue than the free list and made ready.
LEMMA MoveSpares ==
  ASSUME IInv, Identity, NEW n \in Queues \ {Avail}, NEW q, NEW prio \in Nat,
         NEW p \in PCBs,
         queue' = Ready([queue EXCEPT ![n] = q], p, prio),
         [queue EXCEPT ![n] = q] \in Family(Queues, PCBs),
         pcbs' = MarkReady(pcbs, p), UNCHANGED <<freeStacks, nextPid>>
  PROVE  Identity'
<1>1. /\ pcbs \in [PCBs -> PCB] /\ queue \in Family(Queues, PCBs)
      /\ Avail \in Queues \ ReadyQs
  BY Typed
<1>2. SameOwners
  BY <1>1 DEF SameOwners, MarkReady, PCB
<1>3. queue'[Avail] = queue[Avail]
  <2> DEFINE left == [queue EXCEPT ![n] = q]
  <2>1. left[Avail] = queue[Avail] /\ left \in Family(Queues, PCBs)
    BY <1>1 DEF Family
  <2>2. queue' = Ready(left, p, prio)
    OBVIOUS
  <2> HIDE DEF left
  <2> QED BY <1>1, <2>1, <2>2, ReadySpares
<1> QED BY <1>2, <1>3, SameKeeps DEF SameOwners

\* Waking a sleeper leaves stacks and pids alone.
LEMMA ClockWakeSpares == ASSUME IInv, Identity, ClockWake PROVE Identity'
<1> DEFINE p    == queue[Sleep][Min(Due)].data
           left == [queue EXCEPT ![Sleep] = QRemoveFirst(@, Due)]
<1>1. /\ mode = "wake" /\ Due # {}
      /\ queue' = Ready(left, p, PRIO_MAXIMUM) /\ pcbs' = MarkReady(pcbs, p)
      /\ UNCHANGED <<freeStacks, nextPid>>
  BY DEF ClockWake
<1>2. Placed(pcbs, queue, {current}) /\ {current} \in SUBSET PCBs
  BY <1>1, UserPlaced
<1>3. Sleep \in Queues \ {Avail} /\ Due \subseteq DOMAIN queue[Sleep]
  BY QueueNumbers DEF Due, LeHits
<1>4. p \in PCBs /\ Placed(pcbs, left, {current} \cup {p})
  BY <1>1, <1>2, <1>3, HitMoves, Zenon
<1>5. left \in Family(Queues, PCBs) /\ PRIO_MAXIMUM \in Nat
  BY <1>4 DEF Placed, PRIO_MAXIMUM
<1> HIDE DEF p
<1> QED BY <1>1, <1>3, <1>4, <1>5, MoveSpares

\* So does waking a reader,
LEMMA SioWakeSpares == ASSUME IInv, Identity, SioWake PROVE Identity'
<1> DEFINE p    == queue[Reading][1].data
           left == [queue EXCEPT ![Reading] = RemoveAt(@, 1)]
<1>1. /\ mode = "user" /\ queue[Reading] # <<>>
      /\ queue' = Ready(left, p, pcbs[p].prio) /\ pcbs' = MarkReady(pcbs, p)
      /\ UNCHANGED <<freeStacks, nextPid>>
  BY DEF SioWake
<1>2. Placed(pcbs, queue, {current}) /\ {current} \in SUBSET PCBs
  BY <1>1, UserPlaced
<1>3. Reading \in Queues \ {Avail}
  BY QueueNumbers
<1>4. p \in PCBs /\ Placed(pcbs, left, {current} \cup {p})
  BY <1>1, <1>2, <1>3, HeadMoves, Zenon
<1>5. left \in Family(Queues, PCBs) /\ pcbs[p].prio \in Nat
  BY <1>4, Typed DEF Placed, PCB
<1> HIDE DEF p
<1> QED BY <1>1, <1>3, <1>4, <1>5, MoveSpares

\* The dispatcher takes from a ready queue.
LEMMA PoppedSpares ==
  ASSUME IInv, NonEmpty # {}, NEW n \in Queues \ ReadyQs
  PROVE  Popped[n] = queue[n]
<1>1. NonEmpty \subseteq Nat /\ NonEmpty \subseteq ReadyQs
  BY SizesAssumption DEF NonEmpty, ReadyQs
<1>2. Min(NonEmpty) \in ReadyQs
  BY <1>1, MinIsLeast
<1> QED BY <1>2, Typed, QueueNumbers DEF Popped, Family

\* and dispatching a process that is not killed.
LEMMA DispatchSpares ==
  ASSUME IInv, Identity, DispatchNothing \/ DispatchHead
  PROVE  Identity'
<1>1. pcbs \in [PCBs -> PCB]
  BY Typed
<1>2. CASE DispatchNothing
  BY <1>2, SameKeeps DEF DispatchNothing
<1>3. CASE DispatchHead
  <2>1. SameOwners
    <3>1. UNCHANGED pcbs \/ pcbs' = [pcbs EXCEPT ![Head1].state = "RUNNING"]
      BY <1>3 DEF DispatchHead
    <3> QED BY <1>1, <3>1 DEF SameOwners, PCB
  <2>2. UNCHANGED <<freeStacks, nextPid>> /\ queue'[Avail] = queue[Avail]
    BY <1>3, Typed, PoppedSpares DEF DispatchHead
  <2> QED BY <2>1, <2>2, SameKeeps DEF SameOwners
<1> QED BY <1>2, <1>3
-----------------------------------------------------------------------------
(***************************************************************************)
(* Handlers that create or release a process.                              *)
(***************************************************************************)

\* Data of a queue that lost an entry.
LEMMA DataOfLost ==
  ASSUME NEW Q \in Family(Queues, PCBs), NEW R, NEW n \in Queues, NEW e,
         Lost(Q, R, Queues, PCBs, n, e)
  PROVE  DataOf(R[n]) = DataOf(Q[n]) \ {e.data}
<1>1. EntriesOf(R[n]) = EntriesOf(Q[n]) \ {e} /\ e.data \notin Contents(R)
  BY DEF Lost
<1>2. DataOf(R[n]) \subseteq Contents(R)
  BY DEF Lost, Family, Contents
<1> QED BY <1>1, <1>2 DEF DataOf

\* _pcb_free puts a PCB on the free list and touches nothing else.
LEMMA FreeGains ==
  ASSUME NEW Q \in Family(Queues, PCBs), NEW p \in PCBs
  PROVE  /\ DataOf(FreePcb(Q, p)[Avail]) = DataOf(Q[Avail]) \cup {p}
         /\ FreePcb(Q, p) \in Family(Queues, PCBs)
         /\ \A n \in Queues \ {Avail} : FreePcb(Q, p)[n] = Q[n]
<1>1. Avail \in Queues /\ Q[Avail] \in Seq([data : PCBs, key : Nat])
  BY QueueNumbers DEF Family
<1>2. FreePcb(Q, p) = [Q EXCEPT ![Avail] = QAppend(Q[Avail], p, 0)]
  BY <1>1 DEF FreePcb, Family
<1>3. QAppend(Q[Avail], p, 0) \in Seq([data : PCBs, key : Nat])
  <2>1. Entry(p, 0) \in [data : PCBs, key : Nat]
    BY DEF Entry
  <2> QED BY <1>1, <2>1, AppendProperties DEF QAppend
<1>4. DataOf(QAppend(Q[Avail], p, 0)) = DataOf(Q[Avail]) \cup {p}
  BY <1>1, DataOfAppend
<1> QED BY <1>1, <1>2, <1>3, <1>4 DEF Family

\* fork takes a stack from the free list and a pid nobody has.
LEMMA ForkSpares == ASSUME IInv, Identity, SysFork PROVE Identity'
<1> DEFINE child == queue[Avail][1].data
           taken == [queue EXCEPT ![Avail] = RemoveAt(@, 1)]
           prio  == Me.prio
<1>1. /\ pcbs \in [PCBs -> PCB] /\ queue \in Family(Queues, PCBs)
      /\ Avail \in Queues \ ReadyQs /\ prio \in Nat /\ queue[Avail] # <<>>
      /\ nextPid \in Nat \ {0}
  <2>1. mode = "user" /\ queue[Avail] # <<>>
    BY DEF SysFork, Call
  <2>2. Running(pcbs, current) /\ current \in PCBs
    BY <2>1, UserPlaced
  <2>3. pcbs[current].pid \in 1 .. nextPid - 1
    BY <2>2 DEF Identity, Named, Running
  <2> QED BY <2>1, <2>2, <2>3, Typed DEF Me, PCB, Pids
<1>2. Placed(pcbs, queue, {current}) /\ {current} \in SUBSET PCBs
  BY UserPlaced DEF SysFork, Call
<1>3. /\ child \in PCBs /\ child \in DataOf(queue[Avail])
      /\ taken \in Family(Queues, PCBs)
  <2>1. LET e == queue[Avail][1]
        IN  /\ e.data \in PCBs /\ e \in EntriesOf(queue[Avail])
            /\ Placed(pcbs, taken, {current} \cup {e.data})
    BY <1>1, <1>2, HeadMoves, Zenon
  <2> QED BY <2>1 DEF DataOf, Placed
<1>4. DataOf(taken[Avail]) = DataOf(queue[Avail]) \ {child}
  <2>1. NoDuplicates(queue)
    BY <1>2 DEF Placed
  <2>2. 1 \in DOMAIN queue[Avail]
    <3>1. queue[Avail] \in Seq([data : PCBs, key : Nat])
      BY <1>1 DEF Family
    <3> QED BY <1>1, <3>1, EmptySeq, LenProperties
  <2>3. Lost(queue, taken, Queues, PCBs, Avail, queue[Avail][1])
    BY <1>1, <2>1, <2>2, FamilyRemove
  <2> HIDE DEF taken
  <2> QED BY <1>1, <2>3, DataOfLost
<1>5. pcbs[child].stack = NULL
  BY <1>3 DEF Identity, Spare
<1>6. CASE freeStacks = <<>>
  <2>1. /\ queue' = FreePcb(taken, child)
        /\ pcbs' = [pcbs EXCEPT ![child] = ClearPcb]
        /\ UNCHANGED <<nextPid, freeStacks>>
    BY <1>6 DEF SysFork
  <2> HIDE DEF child, taken
  <2>2. DataOf(queue'[Avail]) = DataOf(queue[Avail])
    <3>1. DataOf(FreePcb(taken, child)[Avail]) = DataOf(taken[Avail]) \cup {child}
      BY <1>3, FreeGains
    <3> QED BY <1>3, <1>4, <2>1, <3>1
  <2>3. \A p \in PCBs : /\ pcbs'[p].stack = pcbs[p].stack
                        /\ pcbs[p].stack # NULL => pcbs'[p].pid = pcbs[p].pid
    BY <1>1, <1>5, <2>1 DEF ClearPcb
  <2> QED BY <2>1, <2>2, <2>3, SameKeeps
<1>7. CASE freeStacks # <<>>
  <2>1. /\ pcbs' = MarkReady(
             [pcbs EXCEPT ![child].pid = nextPid,
                          ![child].ppid = Me.pid,
                          ![child].prio = prio,
                          ![child].stack = freeStacks[1]], child)
        /\ queue' = Ready(taken, child, prio)
        /\ freeStacks' = Tail(freeStacks)
        /\ nextPid' = nextPid + 1
    BY <1>7 DEF SysFork
  <2> HIDE DEF child, taken, prio
  <2>2. /\ pcbs'[child].stack = freeStacks[1] /\ pcbs'[child].pid = nextPid
        /\ \A p \in PCBs \ {child} : pcbs'[p] = pcbs[p]
    <3>1. pcbs[child] \in PCB
      BY <1>1, <1>3
    <3> QED BY <1>1, <1>3, <2>1, <3>1 DEF MarkReady, PCB
  <2>3. DataOf(queue'[Avail]) = DataOf(queue[Avail]) \ {child}
    BY <1>1, <1>3, <1>4, <2>1, ReadySpares
  <2> QED BY <1>1, <1>3, <1>5, <1>7, <2>1, <2>2, <2>3, ClaimKeeps
<1> QED BY <1>6, <1>7

\* _sys_wait gives back the stack and the PCB of the zombie it reaps.
LEMMA ReapSpares == ASSUME IInv, Identity, SysWaitReap PROVE Identity'
<1>1. PICK dead \in PCBs :
        /\ pcbs[dead].stack # NULL
        /\ freeStacks' = FreeStack(pcbs[dead].stack)
        /\ \E left \in Family(Queues, PCBs) :
             left[Avail] = queue[Avail] /\ queue' = FreePcb(left, dead)
        /\ pcbs' = [pcbs EXCEPT ![dead] = ClearPcb]
        /\ UNCHANGED nextPid
  BY ReapReleases, QueueNumbers DEF Placed
<1>2. DataOf(queue'[Avail]) = DataOf(queue[Avail]) \cup {dead}
  BY <1>1, FreeGains
<1>3. /\ pcbs \in [PCBs -> PCB] /\ pcbs'[dead] = ClearPcb
      /\ \A p \in PCBs \ {dead} : pcbs'[p] = pcbs[p]
  BY <1>1, Typed
<1> QED BY <1>1, <1>2, <1>3, ReleaseKeeps

\* A PCB on a queue that is not FREE belongs to a process.
LEMMA LiveHasStack ==
  ASSUME NEW tab, NEW Q, NEW off \in SUBSET PCBs, Placed(tab, Q, off),
         NEW p \in PCBs \ off, tab[p].state # "FREE"
  PROVE  tab[p].stack # NULL
<1>1. PICK n \in Queues : \E e \in EntriesOf(Q[n]) : e.data = p
  BY DEF Placed, Contents, DataOf, Family
<1> QED BY <1>1, StatesOnIs DEF Placed, Fits

\* What _zombify does: the machine stops, c becomes a zombie its parent does
\* not wait for, or the parent, which is woken, waits and c is released.
ZombifyStops(c, tab, qs) ==
  /\ pcbs' = tab /\ queue' = qs /\ UNCHANGED freeStacks /\ mode' = "panic"

ZombifyLeaves(c, tab, qs) ==
  /\ LeaveZombie(c, tab, qs)
  /\ \E parent \in PCBs : /\ tab[parent].state # "FREE"
                          /\ tab[parent].pid = tab[c].ppid
                          /\ ~Wanted(parent, c, tab)

ZombifyGives(c, tab, qs, parent, woken, left) ==
  /\ tab[parent].state = "WAITING" /\ tab[parent].stack # NULL
  /\ tab[woken].pid = tab[parent].pid /\ tab[woken].stack # NULL
  /\ \A n \in Queues \ {Waiting} : left[n] = qs[n]
  /\ freeStacks' = FreeStack(tab[c].stack)
  /\ queue' = Ready(FreePcb(left, c), woken, PRIO_MAXIMUM)
  /\ pcbs' = [p \in PCBs |->
                IF p = woken THEN [tab[p] EXCEPT !.state = "READY", !.want = 0]
                ELSE IF p = c THEN ClearPcb ELSE tab[p]]
  /\ mode' = "dispatch"

\* _zombify does one of the three.
LEMMA ZombifyDoes ==
  ASSUME NEW c \in PCBs, NEW tab, NEW qs, Placed(tab, qs, {c}),
         tab[c].stack # NULL, tab[c].state # "WAITING", Zombify(c, tab, qs)
  PROVE  \/ ZombifyStops(c, tab, qs)
         \/ ZombifyLeaves(c, tab, qs)
         \/ \E parent \in PCBs, woken \in PCBs \ {c},
               left \in Family(Queues, PCBs) :
              ZombifyGives(c, tab, qs, parent, woken, left)
<1> DEFINE found  == PcbFind(tab, tab[c].ppid)
           parent == Min(found)
<1>1. qs \in Family(Queues, PCBs) /\ {c} \in SUBSET PCBs /\ Waiting \in Queues
  BY QueueNumbers DEF Placed
<1>2. CASE found = {}
  BY <1>2 DEF Zombify, ZombifyStops, Panic
<1>3. CASE found # {} /\ ~Wanted(parent, c, tab) /\ LeaveZombie(c, tab, qs)
  BY <1>3, FoundIsLive DEF ZombifyLeaves
<1>4. CASE found # {} /\ GiveToParent(c, parent, tab, qs)
              /\ tab[parent].state = "WAITING"
  <2> DEFINE hits  == EqHits(qs[Waiting], tab[parent].pid)
             e     == qs[Waiting][Min(hits)]
             woken == e.data
             left  == [qs EXCEPT ![Waiting] = QRemoveFirst(@, hits)]
  <2>1. parent \in PCBs \ {c}
    BY <1>4, FoundIsLive
  <2>2. tab[parent].stack # NULL
    BY <1>1, <1>4, <2>1, LiveHasStack
  <2>3. hits # {} /\ hits \subseteq DOMAIN qs[Waiting]
    BY <1>4, <2>1, WaiterIsQueued
  <2>4. /\ freeStacks' = FreeStack(tab[c].stack)
        /\ queue' = Ready(FreePcb(left, c), woken, PRIO_MAXIMUM)
        /\ pcbs' = [p \in PCBs |->
                      IF p = woken THEN [tab[p] EXCEPT !.state = "READY", !.want = 0]
                      ELSE IF p = c THEN ClearPcb ELSE tab[p]]
        /\ mode' = "dispatch"
    BY <1>4, <2>3 DEF GiveToParent
  <2>5. /\ Min(hits) \in hits
        /\ woken \in PCBs /\ woken \notin {c}
        /\ Fits(tab, Waiting, e)
        /\ Placed(tab, left, {c} \cup {woken})
    <3> HIDE DEF hits
    <3> QED BY <1>1, <2>3, HitMoves, Zenon
  <2>6. tab[woken].pid = tab[parent].pid /\ tab[woken].stack # NULL
    BY <2>5, QueueNumbers DEF Fits, KeyedByPid, EqHits
  <2>7. left \in Family(Queues, PCBs) /\ \A n \in Queues \ {Waiting} : left[n] = qs[n]
    BY <1>1, <2>5 DEF Placed, Family
  <2> HIDE DEF woken, left, parent
  <2>8. ZombifyGives(c, tab, qs, parent, woken, left)
    BY <1>4, <2>2, <2>4, <2>6, <2>7 DEF ZombifyGives
  <2> QED BY <2>1, <2>5, <2>7, <2>8
<1> QED BY <1>2, <1>3, <1>4 DEF Zombify, Wanted

\* _zombify releases c like a wait, or changes nobody's stack and pid.
LEMMA ZombifySpares ==
  ASSUME Identity, pcbs \in [PCBs -> PCB], NEW c \in PCBs,
         NEW tab, NEW qs, Placed(tab, qs, {c}),
         tab[c].stack # NULL, tab[c].state # "WAITING",
         \A p \in PCBs : tab[p].stack = pcbs[p].stack /\ tab[p].pid = pcbs[p].pid,
         qs[Avail] = queue[Avail],
         Zombify(c, tab, qs), UNCHANGED nextPid
  PROVE  Identity'
<1>1. /\ tab \in [PCBs -> PCB] /\ qs \in Family(Queues, PCBs)
      /\ Avail \in Queues \ ReadyQs
  BY QueueNumbers DEF Placed
<1>2. CASE ZombifyStops(c, tab, qs)
  BY <1>2, SameKeeps DEF ZombifyStops
<1>3. CASE ZombifyLeaves(c, tab, qs)
  <2>1. /\ pcbs' = [tab EXCEPT ![c].state = "ZOMBIE"] /\ UNCHANGED freeStacks
        /\ queue' = [qs EXCEPT ![Zombies] = QInsert(@, c, tab[c].pid)]
    BY <1>3 DEF ZombifyLeaves, LeaveZombie
  <2>2. queue'[Avail] = queue[Avail]
    BY <1>1, <2>1, QueueNumbers DEF Family
  <2>3. SameOwners
    BY <1>1, <2>1 DEF PCB, SameOwners
  <2> QED BY <2>1, <2>2, <2>3, SameKeeps DEF SameOwners
<1>4. ASSUME NEW parent \in PCBs, NEW woken \in PCBs \ {c},
             NEW left \in Family(Queues, PCBs),
             ZombifyGives(c, tab, qs, parent, woken, left)
      PROVE  Identity'
  <2>1. DataOf(queue'[Avail]) = DataOf(queue[Avail]) \cup {c}
    <3>1. left[Avail] = queue[Avail]
      BY <1>1, <1>4, QueueNumbers DEF ZombifyGives
    <3>2. FreePcb(left, c) \in Family(Queues, PCBs)
      BY FreeGains
    <3>3. queue'[Avail] = FreePcb(left, c)[Avail]
      <4> DEFINE Q == FreePcb(left, c)
      <4>1. queue' = Ready(Q, woken, PRIO_MAXIMUM) /\ PRIO_MAXIMUM \in Nat
        BY <1>4 DEF ZombifyGives, PRIO_MAXIMUM
      <4>2. Q \in Family(Queues, PCBs)
        BY <3>2
      <4> HIDE DEF Q
      <4>3. queue'[Avail] = Q[Avail]
        BY <1>1, <4>1, <4>2, ReadySpares
      <4> QED BY <4>3 DEF Q
    <3> QED BY <3>1, <3>3, FreeGains
  <2>2. /\ pcbs'[c] = ClearPcb
        /\ \A p \in PCBs \ {c} : /\ pcbs'[p].stack = pcbs[p].stack
                                 /\ pcbs'[p].pid = pcbs[p].pid
    BY <1>1, <1>4 DEF ZombifyGives, PCB
  <2>3. freeStacks' = FreeStack(pcbs[c].stack)
    BY <1>4 DEF ZombifyGives
  <2> QED BY <2>1, <2>2, <2>3, ReleaseKeeps
<1> QED BY <1>2, <1>3, <1>4, ZombifyDoes

\* exit gives back a stack only when the PCB is cleaned up,
LEMMA ExitSpares == ASSUME IInv, Identity, SysExit PROVE Identity'
<1>1. PICK code \in ExitCodes :
        /\ mode = "user" /\ Zombify(current, Exiting(code), queue)
        /\ UNCHANGED nextPid
  BY DEF SysExit, Call
<1> DEFINE tab == Exiting(code)
<1>2. /\ Placed(tab, queue, {current}) /\ current \in PCBs
      /\ tab[current].stack # NULL /\ tab[current].state # "WAITING"
      /\ \A p \in PCBs : tab[p].stack = pcbs[p].stack /\ tab[p].pid = pcbs[p].pid
  BY <1>1, ExitingPlaced
<1> HIDE DEF tab
<1> QED BY <1>1, <1>2, Typed, ZombifySpares DEF tab

\* and so does the dispatch of a killed process.
LEMMA DispatchKilledSpares == ASSUME IInv, Identity, DispatchKilled PROVE Identity'
<1>1. /\ mode = "dispatch" /\ NonEmpty # {} /\ pcbs[Head1].state = "KILLED"
      /\ Zombify(Head1, pcbs, Popped) /\ UNCHANGED nextPid
  BY DEF DispatchKilled
<1>2. /\ Head1 \in PCBs /\ pcbs[Head1].stack # NULL /\ Placed(pcbs, Popped, {Head1})
      /\ Popped[Avail] = queue[Avail]
  BY <1>1, Typed, DispatchFinds, PoppedSpares
<1> QED BY <1>1, <1>2, Typed, ZombifySpares

-----------------------------------------------------------------------------
\* The first process has the first stack and the first pid.
LEMMA InitSpares == ASSUME Init PROVE Identity
<1>1. /\ nextPid = 2
      /\ freeStacks = [i \in 1 .. NStacks - 1 |-> i + 1]
      /\ queue[Avail] = [i \in 1 .. NPcbs - 1 |-> Entry(i, 0)]
      /\ \A p \in PCBs : /\ pcbs[p].stack = IF p = 0 THEN 1 ELSE NULL
                         /\ pcbs[p].pid = IF p = 0 THEN 1 ELSE 0
  BY QueueNumbers DEF Init, ProcInit, PID_INIT, FreshStacks, ClearPcb
<1>2. /\ NStacks \in Nat /\ NStacks - 1 \in Nat /\ NPcbs - 1 \in Nat /\ NULL = 0
  BY SizesAssumption DEF NULL
<1>3. Owned(pcbs, freeStacks)
  <2>1. freeStacks \in Seq(Stacks) /\ DOMAIN freeStacks = 1 .. NStacks - 1
    <3>1. \A i \in 1 .. NStacks - 1 : i + 1 \in Stacks
      BY <1>2 DEF Stacks
    <3> QED BY <1>1, <1>2, <3>1
  <2>2. \A i, j \in DOMAIN freeStacks : freeStacks[i] = freeStacks[j] => i = j
    BY <1>1, <2>1
  <2>3. ASSUME NEW p \in PCBs, NEW q \in PCBs,
               pcbs[p].stack # NULL, pcbs[p].stack = pcbs[q].stack
        PROVE  p = q
    BY <1>1, <1>2, <2>3
  <2>4. ASSUME NEW s \in Stacks
        PROVE  s \in OnList(freeStacks) <=> ~ \E p \in PCBs : pcbs[p].stack = s
    <3>1. s \in OnList(freeStacks) <=> s # 1
      <4>1. ASSUME s # 1 PROVE s \in OnList(freeStacks)
        <5>1. s - 1 \in 1 .. NStacks - 1 /\ s = (s - 1) + 1
          BY <1>2, <4>1 DEF Stacks
        <5>2. s - 1 \in DOMAIN freeStacks /\ freeStacks[s - 1] = s
          BY <1>1, <2>1, <5>1
        <5> QED BY <5>2 DEF OnList
      <4>2. ASSUME s \in OnList(freeStacks) PROVE s # 1
        BY <1>1, <2>1, <4>2 DEF OnList
      <4> QED BY <4>1, <4>2
    <3>2. (\E p \in PCBs : pcbs[p].stack = s) <=> s = 1
      BY <1>1, <1>2, SizesAssumption, SMTT(30) DEF Stacks, PCBs
    <3> QED BY <3>1, <3>2
  <2> QED BY <2>1, <2>2, <2>3, <2>4 DEF Owned
<1>4. Named(pcbs, nextPid)
  BY <1>1, <1>2 DEF Named
<1>5. Spare(pcbs, queue[Avail])
  <2>1. DataOf(queue[Avail]) = 1 .. NPcbs - 1
    <3>1. \A i : Entry(i, 0).data = i
      BY DEF Entry
    <3>2. EntriesOf(queue[Avail]) = {Entry(i, 0) : i \in 1 .. NPcbs - 1}
      BY <1>1 DEF EntriesOf
    <3> QED BY <3>1, <3>2 DEF DataOf
  <2> QED BY <1>1, <1>2, <2>1 DEF Spare, PCBs
<1> QED BY <1>3, <1>4, <1>5 DEF Identity

\* Every step keeps stacks and pids with one owner.
LEMMA NextSpares == ASSUME IInv, Identity, [Next]_vars PROVE Identity'
<1>1. CASE Syscalls
  BY <1>1, QuietKeeps, BlockKeeps, ForkSpares, KillSpares, ReapSpares, ExitSpares
     DEF Syscalls
<1>2. CASE Interrupts
  BY <1>2, QuietKeeps, SioWakeSpares DEF Interrupts
<1>3. CASE KernelStep
  BY <1>3, ClockWakeSpares, BlockKeeps, DispatchSpares, DispatchKilledSpares
     DEF KernelStep, Dispatch
<1>4. CASE UNCHANGED vars
  BY <1>4, SameKeeps DEF vars, procVars
<1> QED BY <1>1, <1>2, <1>3, <1>4 DEF Next, Halted

\* Identity is inductive relative to IInv.
THEOREM IdentityKept == Spec => []Identity
<1>1. Init => Identity
  BY InitSpares
<1>2. IInv /\ Identity /\ [Next]_vars => Identity'
  BY NextSpares
<1> QED BY <1>1, <1>2, Invariance, PTL DEF Spec

\* Live processes are those that have a stack.
LEMMA LiveIs ==
  ASSUME Identity, NEW p \in PCBs
  PROVE  p \in Live <=> pcbs[p].stack # NULL
BY DEF Identity, Spare, Live

\* Every stack belongs to exactly one live process or is on the free list
\* exactly once, whatever processes fork, exit, kill and wait.
THEOREM StacksOwned == Spec => []StackOwnership
<1>1. ASSUME IInv, Identity PROVE StackOwnership
  <2>1. /\ \A p, q \in Live : pcbs[p].stack = pcbs[q].stack => p = q
        /\ \A i, j \in DOMAIN freeStacks : freeStacks[i] = freeStacks[j] => i = j
    BY <1>1, LiveIs DEF Identity, Owned, Live
  <2>2. ASSUME NEW s \in Stacks
        PROVE  (\E p \in Live : pcbs[p].stack = s) <=> s \notin OnList(freeStacks)
    <3>1. s # NULL
      BY DEF Stacks, NULL
    <3> QED BY <1>1, <3>1, LiveIs DEF Identity, Owned, Live
  <2>3. \A p \in Live : pcbs[p].stack \in Stacks
    BY <1>1, LiveIs, Typed DEF PCB, Live
  <2>4. {pcbs[p].stack : p \in Live} = Stacks \ OnList(freeStacks)
    BY <2>2, <2>3
  <2> QED BY <2>1, <2>4 DEF StackOwnership, OnList
<1>2. IInv /\ Identity => StackOwnership
  BY <1>1
<1> QED BY <1>2, Invariance, IdentityKept, PTL

\* Live processes have different pids, all given out, and no stale keys.
THEOREM PidsStayIdentities == Spec => []PidsIdentify
<1>1. ASSUME Identity, KeysArePids PROVE PidsIdentify
  BY <1>1, LiveIs DEF Identity, Named, PidsIdentify, Live
<1>2. Identity /\ KeysArePids => PidsIdentify
  BY <1>1
<1> QED BY <1>2, IdentityKept, KeysStayPids, PTL

-----------------------------------------------------------------------------
(***************************************************************************)
(* The pool of qnodes.                                                     *)
(***************************************************************************)

\* A family of queues on which no datum is twice has no more entries than
\* there are data.
LEMMA EntriesFit ==
  ASSUME NEW Q \in Family(Queues, PCBs), NoDuplicates(Q)
  PROVE  Cardinality(UNION {{n} \X DOMAIN Q[n] : n \in DOMAIN Q}) \in 0 .. NPcbs
<1> DEFINE P == UNION {{n} \X DOMAIN Q[n] : n \in DOMAIN Q}
           f == [p \in P |-> Q[p[1]][p[2]].data]
<1>1. DOMAIN Q = Queues /\ \A n \in Queues : Q[n] \in Seq([data : PCBs, key : Nat])
  BY DEF Family
<1>2. \A p : p \in P <=> \E n \in Queues : \E i \in DOMAIN Q[n] : p = <<n, i>>
  BY <1>1
<1>3. ASSUME NEW n \in Queues, NEW i \in DOMAIN Q[n] PROVE Q[n][i].data \in PCBs
  <2> HIDE DEF P, f
  <2>1. Q[n] \in Seq([data : PCBs, key : Nat]) /\ i \in 1 .. Len(Q[n])
    <3>1. Q[n] \in Seq([data : PCBs, key : Nat])
      BY <1>1
    <3>2. DOMAIN Q[n] = 1 .. Len(Q[n])
      BY <3>1, LenProperties
    <3> QED BY <3>1, <3>2
  <2>2. Q[n][i] \in [data : PCBs, key : Nat]
    BY <2>1, ElementOfSeq
  <2> QED BY <2>2
<1> HIDE DEF P
<1>4. f \in [P -> PCBs]
  BY <1>2, <1>3
<1>5. ASSUME NEW p \in P, NEW s \in P, f[p] = f[s] PROVE p = s
  <2>1. PICK n \in Queues : \E i \in DOMAIN Q[n] : p = <<n, i>>
    BY <1>2
  <2>2. PICK i \in DOMAIN Q[n] : p = <<n, i>>
    BY <2>1
  <2>3. PICK m \in Queues : \E k \in DOMAIN Q[m] : s = <<m, k>>
    BY <1>2
  <2>4. PICK j \in DOMAIN Q[m] : s = <<m, j>>
    BY <2>3
  <2>5. Q[n][i].data = Q[m][j].data
    BY <1>5, <2>2, <2>4
  <2>6. n = m /\ i = j
    BY <1>1, <2>5 DEF NoDuplicates
  <2> QED BY <2>2, <2>4, <2>6
<1> HIDE DEF f
<1>6. f \in Injection(P, PCBs)
  BY <1>4, <1>5 DEF Injection, IsInjective
<1>7. IsFiniteSet(PCBs) /\ Cardinality(PCBs) = NPcbs
  BY SizesAssumption, FS_Interval DEF PCBs
<1>8. IsFiniteSet(P) /\ Cardinality(P) <= NPcbs
  BY <1>6, <1>7, FS_Injection
<1>9. Cardinality(P) \in Nat
  BY <1>8, FS_CardinalityType
<1> QED BY <1>8, <1>9, SizesAssumption DEF P

\* A list of stacks without repetition is no longer than there are stacks.
LEMMA StacksFit ==
  ASSUME NEW F \in Seq(Stacks), \A i, j \in DOMAIN F : F[i] = F[j] => i = j
  PROVE  Len(F) \in 0 .. NStacks
<1>1. NStacks \in Nat /\ Len(F) \in Nat /\ DOMAIN F = 1 .. Len(F)
  BY SizesAssumption
<1>2. IsFiniteSet(Stacks) /\ Cardinality(Stacks) = NStacks
  BY <1>1, FS_Interval DEF Stacks
<1>3. Cardinality(1 .. Len(F)) = Len(F)
  BY <1>1, FS_Interval
<1>4. F \in Injection(1 .. Len(F), Stacks)
  BY <1>1 DEF Injection, IsInjective
<1>5. Cardinality(1 .. Len(F)) <= NStacks
  BY <1>2, <1>4, FS_Injection
<1> QED BY <1>1, <1>3, <1>5

\* The qnodes suffice: entries and free stacks are never more than PCBs and
\* stacks, whoever forks, dies, is killed and is reaped.
THEOREM PoolSuffices == Spec => []QnodesSuffice
<1>1. ASSUME IInv, Identity PROVE QnodesSuffice
  <2>1. \E off : Placed(pcbs, queue, off)
    BY <1>1 DEF IInv, TypeOK, WellPlaced
  <2>2. queue \in Family(Queues, PCBs) /\ NoDuplicates(queue)
    BY <2>1 DEF Placed
  <2>3. Cardinality(UNION {{n} \X DOMAIN queue[n] : n \in DOMAIN queue})
          \in 0 .. NPcbs
    BY <2>2, EntriesFit
  <2>4. Len(freeStacks) \in 0 .. NStacks
    BY <1>1, StacksFit DEF Identity, Owned
  <2> QED BY <2>3, <2>4, SizesAssumption DEF QnodesSuffice, QnodesInUse
<1>2. IInv /\ Identity => QnodesSuffice
  BY <1>1
<1> QED BY <1>2, Invariance, IdentityKept, PTL

-----------------------------------------------------------------------------
(***************************************************************************)
(* Readers.                                                                *)
(***************************************************************************)

\* _zombify leaves every queue alone but the free list, the ready queues,
\* _waiting and _zombie.
LEMMA ZombifyStays ==
  ASSUME NEW c \in PCBs, NEW tab, NEW qs, Placed(tab, qs, {c}),
         tab[c].stack # NULL, tab[c].state # "WAITING", Zombify(c, tab, qs),
         NEW n \in {Sleep, Reading}
  PROVE  queue'[n] = qs[n]
<1>1. qs \in Family(Queues, PCBs) /\ n \in Queues \ ReadyQs
      /\ n \notin {Avail, Waiting, Zombies}
  BY QueueNumbers DEF Placed
<1>2. CASE ZombifyStops(c, tab, qs)
  BY <1>2 DEF ZombifyStops
<1>3. CASE ZombifyLeaves(c, tab, qs)
  BY <1>1, <1>3 DEF ZombifyLeaves, LeaveZombie, Family
<1>4. ASSUME NEW parent \in PCBs, NEW woken \in PCBs \ {c},
             NEW left \in Family(Queues, PCBs),
             ZombifyGives(c, tab, qs, parent, woken, left)
      PROVE  queue'[n] = qs[n]
  <2> DEFINE Q == FreePcb(left, c)
  <2>1. queue' = Ready(Q, woken, PRIO_MAXIMUM) /\ PRIO_MAXIMUM \in Nat
    BY <1>4 DEF ZombifyGives, PRIO_MAXIMUM
  <2>2. Q \in Family(Queues, PCBs) /\ Q[n] = left[n]
    BY <1>1, FreeGains
  <2>3. left[n] = qs[n]
    BY <1>1, <1>4 DEF ZombifyGives
  <2> HIDE DEF Q
  <2> QED BY <1>1, <2>1, <2>2, <2>3, ReadySpares
<1> QED BY <1>2, <1>3, <1>4, ZombifyDoes

\* The first sleeper that is due leaves _sleep.
LEMMA DueLeaves ==
  ASSUME IInv, ClockWake
  PROVE  /\ [queue EXCEPT ![Sleep] = QRemoveFirst(@, Due)] \in Family(Queues, PCBs)
         /\ queue[Sleep][Min(Due)].data \in PCBs
         /\ Min(Due) \in Due
<1> DEFINE p    == queue[Sleep][Min(Due)].data
           left == [queue EXCEPT ![Sleep] = QRemoveFirst(@, Due)]
<1>1. Placed(pcbs, queue, {current}) /\ {current} \in SUBSET PCBs /\ Due # {}
  BY UserPlaced DEF ClockWake
<1>2. Sleep \in Queues /\ Due \subseteq DOMAIN queue[Sleep]
  BY QueueNumbers DEF Due, LeHits
<1>3. Min(Due) \in Due /\ p \in PCBs /\ Placed(pcbs, left, {current} \cup {p})
  BY <1>1, <1>2, HitMoves, Zenon
<1> QED BY <1>3 DEF Placed

\* Only sleep and the clock change _sleep, only readc and the receive
\* interrupt change _reading, only the death of processes changes _zombie.
LEMMA ListStays ==
  ASSUME IInv, [Next]_vars, NEW n \in {Sleep, Reading, Zombies},
         n = Sleep => ~SysSleep /\ ~ClockWake,
         n = Reading => ~SysReadcBlock /\ ~SioWake,
         n = Zombies => ~SysWaitReap /\ ~SysExit /\ ~DispatchKilled
  PROVE  queue'[n] = queue[n]
<1>1. /\ queue \in Family(Queues, PCBs) /\ current \in PCBs
      /\ pcbs \in [PCBs -> PCB] /\ Me.prio \in Nat
      /\ n \in Queues \ ReadyQs /\ n \notin {Avail, Waiting}
      /\ Sleep # Reading /\ Sleep # Zombies /\ Reading # Zombies
  BY Typed, QueueNumbers DEF Me, PCB
<1>2. ASSUME SysFork PROVE queue'[n] = queue[n]
  <2> DEFINE child == queue[Avail][1].data
             taken == [queue EXCEPT ![Avail] = RemoveAt(@, 1)]
  <2>1. child \in PCBs /\ taken \in Family(Queues, PCBs) /\ taken[n] = queue[n]
    <3>1. Placed(pcbs, queue, {current}) /\ {current} \in SUBSET PCBs
          /\ queue[Avail] # <<>> /\ Avail \in Queues
      BY <1>2, UserPlaced, QueueNumbers DEF SysFork, Call
    <3>2. child \in PCBs /\ Placed(pcbs, taken, {current} \cup {child})
      BY <3>1, HeadMoves, Zenon
    <3> QED BY <1>1, <3>2 DEF Placed, Family
  <2>2. queue' = FreePcb(taken, child) \/ queue' = Ready(taken, child, Me.prio)
    BY <1>2 DEF SysFork
  <2> HIDE DEF child, taken
  <2> QED BY <1>1, <2>1, <2>2, FreeGains, ReadySpares
<1>3. ASSUME SysWaitReap, n # Zombies PROVE queue'[n] = queue[n]
  <2>1. PICK dead \in PCBs, left \in Family(Queues, PCBs) :
          left[n] = queue[n] /\ queue' = FreePcb(left, dead)
    BY <1>1, <1>3, ReapReleases DEF Placed
  <2> QED BY <1>1, <2>1, FreeGains
<1>4. ASSUME SysExit, n # Zombies PROVE queue'[n] = queue[n]
  BY <1>4, ExitingPlaced, ZombifyStays DEF SysExit, Call
<1>5. ASSUME DispatchKilled, n # Zombies PROVE queue'[n] = queue[n]
  <2>1. /\ Head1 \in PCBs /\ pcbs[Head1].stack # NULL
        /\ pcbs[Head1].state = "KILLED"
        /\ Placed(pcbs, Popped, {Head1}) /\ Zombify(Head1, pcbs, Popped)
        /\ Popped[n] = queue[n]
    BY <1>1, <1>5, DispatchFinds, PoppedSpares DEF DispatchKilled
  <2> QED BY <1>5, <2>1, ZombifyStays
<1>6. ASSUME ClockWake, n # Sleep PROVE queue'[n] = queue[n]
  <2> DEFINE p    == queue[Sleep][Min(Due)].data
             left == [queue EXCEPT ![Sleep] = QRemoveFirst(@, Due)]
  <2>1. queue' = Ready(left, p, PRIO_MAXIMUM) /\ PRIO_MAXIMUM \in Nat
    BY <1>6 DEF ClockWake, PRIO_MAXIMUM
  <2>2. left \in Family(Queues, PCBs) /\ left[n] = queue[n]
    BY <1>1, <1>6, DueLeaves DEF Family
  <2> HIDE DEF p, left
  <2> QED BY <1>1, <2>1, <2>2, ReadySpares
<1>7. ASSUME SioWake, n # Reading PROVE queue'[n] = queue[n]
  <2> DEFINE p    == queue[Reading][1].data
             left == [queue EXCEPT ![Reading] = RemoveAt(@, 1)]
  <2>1. /\ queue' = Ready(left, p, pcbs[p].prio)
        /\ mode = "user" /\ queue[Reading] # <<>>
    BY <1>7 DEF SioWake
  <2>2. p \in PCBs /\ left \in Family(Queues, PCBs) /\ left[n] = queue[n]
    <3>1. Placed(pcbs, queue, {current}) /\ {current} \in SUBSET PCBs
          /\ Reading \in Queues
      BY <2>1, UserPlaced, QueueNumbers
    <3>2. p \in PCBs /\ Placed(pcbs, left, {current} \cup {p})
      BY <2>1, <3>1, HeadMoves, Zenon
    <3> QED BY <1>1, <1>7, <3>2 DEF Placed, Family
  <2>3. pcbs[p].prio \in Nat
    BY <1>1, <2>2 DEF PCB
  <2> HIDE DEF p, left
  <2> QED BY <1>1, <2>1, <2>2, <2>3, ReadySpares
<1>8. ASSUME NEW pid \in 0 .. MaxPid, SysKill(pid) PROVE queue'[n] = queue[n]
  BY <1>1, <1>8, ReadySpares DEF SysKill
<1>9. CASE Syscalls
  <2>1. CASE SysSetprio \/ SysSettime \/ SysReadcNow \/ SysWaitNotFound
    BY <2>1 DEF SysSetprio, SysSettime, SysReadcNow, SysWaitNotFound
  <2>2. CASE SysSleep
    BY <1>1, <2>2 DEF SysSleep, Family
  <2>3. CASE SysReadcBlock
    BY <1>1, <2>3 DEF SysReadcBlock, Family
  <2>4. CASE SysWaitBlock
    BY <1>1, <2>4 DEF SysWaitBlock, Family
  <2>5. CASE SysExec
    BY <1>1, <2>5, ReadySpares, InputsAssumption DEF SysExec
  <2> QED BY <1>2, <1>3, <1>4, <1>8, <1>9, <2>1, <2>2, <2>3, <2>4, <2>5 DEF Syscalls
<1>10. CASE Interrupts
  BY <1>7, <1>10 DEF Interrupts, ClockTick, SioBuffer
<1>11. CASE KernelStep
  <2>1. CASE ClockPreempt
    BY <1>1, <2>1, ReadySpares DEF ClockPreempt
  <2>2. CASE DispatchNothing
    BY <2>2 DEF DispatchNothing
  <2>3. CASE DispatchHead
    BY <1>1, <2>3, PoppedSpares DEF DispatchHead
  <2> QED BY <1>5, <1>6, <1>11, <2>1, <2>2, <2>3 DEF KernelStep, Dispatch
<1>12. CASE UNCHANGED vars
  BY <1>12 DEF vars, procVars
<1> QED BY <1>9, <1>10, <1>11, <1>12 DEF Next, Halted

\* Only readc and the receive interrupt change the number of characters.
LEMMA InputStays ==
  ASSUME [Next]_vars, ~SysReadcNow, ~SioBuffer
  PROVE  input' = input
BY DEF Next, Syscalls, Interrupts, KernelStep, Halted, SysSetprio, SysSettime,
   SysSleep, SysFork, SysExec, SysReadcBlock, SysKill, SysWaitNotFound,
   SysWaitReap, SysWaitBlock, SysExit, ClockTick, SioWake, ClockWake,
   ClockPreempt, vars, procVars

\* A reader that waits means that no character does.
LEMMA InputKept == ASSUME IInv, NoMissedInput, [Next]_vars PROVE NoMissedInput'
<1>1. CASE SysReadcNow \/ SioBuffer
  <2>1. UNCHANGED queue /\ input \in Nat
    BY <1>1, BufSizeAssumption DEF SysReadcNow, SioBuffer, IInv, TypeOK
  <2> QED BY <1>1, <2>1 DEF SysReadcNow, SioBuffer, NoMissedInput
<1>2. CASE SysReadcBlock
  BY <1>2 DEF SysReadcBlock, NoMissedInput
<1>3. CASE SioWake
  BY <1>3 DEF SioWake, NoMissedInput
<1>4. CASE ~SysReadcNow /\ ~SioBuffer /\ ~SysReadcBlock /\ ~SioWake
  <2>1. queue'[Reading] = queue[Reading]
    BY <1>4, ListStays, QueueNumbers
  <2> QED BY <1>4, <2>1, InputStays DEF NoMissedInput
<1> QED BY <1>1, <1>2, <1>3, <1>4

\* No character waits in the input buffer while a process waits for one:
\* sys_readc tests and blocks with interrupts off, and the receive handler
\* of kernel/syscall.c hands a character to the first reader if there is
\* one.
THEOREM ReadersServed == Spec => []NoMissedInput
<1>1. Init => NoMissedInput
  BY QueueNumbers DEF Init, ProcInit, NoEntries, NoMissedInput
<1>2. IInv /\ NoMissedInput /\ [Next]_vars => NoMissedInput'
  BY InputKept
<1> QED BY <1>1, <1>2, Invariance, PTL DEF Spec

-----------------------------------------------------------------------------
(***************************************************************************)
(* Waiting parents and their zombies.                                      *)
(***************************************************************************)

\* NoMissedZombie of a process table, with every PCB looked at.
NoneMissed(tab) ==
  \A p, z \in PCBs :
    /\ tab[p].state = "WAITING" /\ tab[p].pid # PID_INIT
    /\ tab[z].state = "ZOMBIE" /\ tab[z].ppid = tab[p].pid
    => tab[p].want \notin {0, tab[z].pid}

\* The PCBs of S that wait or are zombies in new did so in old, for the same.
Calm(old, new, S) ==
  \A q \in S : new[q].state \in {"WAITING", "ZOMBIE"} =>
    /\ new[q].state = old[q].state /\ new[q].pid = old[q].pid
    /\ new[q].want = old[q].want /\ new[q].ppid \in {old[q].ppid, PID_INIT}

\* A calm step makes nobody miss a zombie.
LEMMA CalmKeeps ==
  ASSUME NEW old, NEW new, NoneMissed(old), Calm(old, new, PCBs)
  PROVE  NoneMissed(new)
BY DEF NoneMissed, Calm

\* A live process: not FREE, so not on the free list.
LEMMA FoundOwns ==
  ASSUME IInv, mode = "user", NEW p \in PCBs, pcbs[p].state # "FREE"
  PROVE  pcbs[p].stack # NULL
<1>1. Placed(pcbs, queue, {current}) /\ Running(pcbs, current)
      /\ {current} \in SUBSET PCBs
  BY UserPlaced
<1>2. CASE p = current
  BY <1>1, <1>2 DEF Running
<1>3. CASE p # current
  BY <1>1, <1>3, LiveHasStack
<1> QED BY <1>2, <1>3

\* A wait that blocks has looked for the zombies it is about.
LEMMA WaitBlockMisses ==
  ASSUME IInv, Identity, NoneMissed(pcbs), SysWaitBlock
  PROVE  NoneMissed(pcbs')
<1>1. PICK pid \in 0 .. MaxPid :
        /\ mode = "user"
        /\ pid > 0 => PcbFind(pcbs, pid) # {}
        /\ pcbs[WaitFor(pid)].state # "ZOMBIE"
        /\ pcbs' = [pcbs EXCEPT ![current].state = "WAITING", ![current].want = pid]
  BY DEF SysWaitBlock, Call
<1>2. pcbs \in [PCBs -> PCB] /\ current \in PCBs
  BY Typed
<1>3. /\ pcbs'[current].want = pid /\ pcbs'[current].pid = pcbs[current].pid
      /\ pcbs'[current].state = "WAITING"
      /\ \A q \in PCBs \ {current} : pcbs'[q] = pcbs[q]
  BY <1>1, <1>2 DEF PCB
<1>4. ASSUME NEW z \in PCBs, pcbs[z].state = "ZOMBIE",
             pcbs[z].ppid = pcbs[current].pid
      PROVE  pid \notin {0, pcbs[z].pid}
  <2>1. CASE pid = 0
    <3>1. z \in ZombieKids /\ ZombieKids \subseteq Nat
      BY <1>4, SizesAssumption DEF ZombieKids, Me, PCBs
    <3>2. Min(ZombieKids) \in ZombieKids
      BY <3>1, MinIsLeast
    <3>3. WaitFor(pid) \in ZombieKids
      BY <2>1, <3>1, <3>2 DEF WaitFor
    <3> QED BY <1>1, <3>3 DEF ZombieKids
  <2>2. CASE pid > 0 /\ pid = pcbs[z].pid
    <3> DEFINE f == Min(PcbFind(pcbs, pid))
    <3>1. f \in PCBs /\ pcbs[f].state # "FREE" /\ pcbs[f].pid = pid
      BY <1>1, <2>2, FoundIsLive
    <3>2. pcbs[f].stack # NULL /\ pcbs[z].stack # NULL
      BY <1>1, <1>4, <3>1, FoundOwns
    <3>3. f = z
      BY <2>2, <3>1, <3>2 DEF Identity, Named
    <3>4. WaitFor(pid) = z
      BY <2>2, <3>3 DEF WaitFor
    <3> QED BY <1>1, <1>4, <3>4
  <2> QED BY <2>1, <2>2
<1> QED BY <1>2, <1>3, <1>4 DEF NoneMissed

\* A process that becomes a zombie has looked for its parent.
LEMMA ZombifyMisses ==
  ASSUME Identity, NEW off \in SUBSET PCBs, NEW c \in off,
         NEW tab, NEW qs, Placed(tab, qs, off), tab[c].stack # NULL,
         \A p \in PCBs : tab[p].stack = pcbs[p].stack /\ tab[p].pid = pcbs[p].pid,
         off = {c}, NoneMissed(tab), ZombifyLeaves(c, tab, qs)
  PROVE  NoneMissed(pcbs')
<1>1. tab \in [PCBs -> PCB] /\ c \in PCBs /\ pcbs' = [tab EXCEPT ![c].state = "ZOMBIE"]
  BY DEF Placed, ZombifyLeaves, LeaveZombie
<1>2. PICK parent \in PCBs : /\ tab[parent].state # "FREE"
                             /\ tab[parent].pid = tab[c].ppid
                             /\ ~Wanted(parent, c, tab)
  BY DEF ZombifyLeaves
<1>3. /\ pcbs'[c].state = "ZOMBIE"
      /\ pcbs'[c].pid = tab[c].pid /\ pcbs'[c].ppid = tab[c].ppid
      /\ \A q \in PCBs \ {c} : pcbs'[q] = tab[q]
  BY <1>1 DEF PCB
<1>4. \A p \in PCBs : tab[p].state # "FREE" => tab[p].stack # NULL
  BY LiveHasStack
<1>5. ASSUME NEW p \in PCBs \ {c}, tab[p].state = "WAITING", tab[p].pid = tab[c].ppid
      PROVE  tab[p].want \notin {0, tab[c].pid}
  <2>1. p = parent
    <3>1. pcbs[p].stack # NULL /\ pcbs[parent].stack # NULL
      BY <1>2, <1>4, <1>5
    <3>2. pcbs[p].pid = pcbs[parent].pid
      BY <1>2, <1>5
    <3> QED BY <3>1, <3>2 DEF Identity, Named
  <2> QED BY <1>2, <1>5, <2>1 DEF Wanted
<1> QED BY <1>3, <1>5 DEF NoneMissed

\* _zombify parks a process only if nobody waits for it.
LEMMA ZombifyIsCalm ==
  ASSUME Identity, NEW c \in PCBs, NEW tab, NEW qs, Placed(tab, qs, {c}),
         tab[c].stack # NULL, tab[c].state # "WAITING", Zombify(c, tab, qs),
         \A p \in PCBs : tab[p].stack = pcbs[p].stack /\ tab[p].pid = pcbs[p].pid,
         NoneMissed(tab)
  PROVE  NoneMissed(pcbs')
<1>1. CASE ZombifyStops(c, tab, qs)
  BY <1>1 DEF ZombifyStops
<1>2. CASE ZombifyLeaves(c, tab, qs)
  BY <1>2, ZombifyMisses
<1>3. ASSUME NEW parent \in PCBs, NEW woken \in PCBs \ {c},
             NEW left \in Family(Queues, PCBs),
             ZombifyGives(c, tab, qs, parent, woken, left)
      PROVE  NoneMissed(pcbs')
  <2>1. tab \in [PCBs -> PCB]
    BY DEF Placed
  <2>2. Calm(tab, pcbs', PCBs)
    BY <1>3, <2>1, ZenonT(30) DEF ZombifyGives, Calm, ClearPcb, PCB
  <2> QED BY <2>2, CalmKeeps
<1> QED BY <1>1, <1>2, <1>3, ZombifyDoes

\* So exit makes nobody miss a zombie.
LEMMA ExitMisses ==
  ASSUME IInv, Identity, NoneMissed(pcbs), SysExit
  PROVE  NoneMissed(pcbs')
<1>1. PICK code \in ExitCodes :
        mode = "user" /\ Zombify(current, Exiting(code), queue)
  BY DEF SysExit, Call
<1> DEFINE tab == Exiting(code)
<1>2. /\ Placed(tab, queue, {current}) /\ current \in PCBs
      /\ tab[current].stack # NULL /\ tab[current].state # "WAITING"
      /\ \A q \in PCBs : tab[q].pid = pcbs[q].pid /\ tab[q].stack = pcbs[q].stack
  BY <1>1, ExitingPlaced
<1>3. Calm(pcbs, tab, PCBs)
  BY Typed DEF Calm, Exiting, PCB
<1>4. NoneMissed(tab)
  BY <1>3, CalmKeeps
<1> HIDE DEF tab
<1> QED BY <1>1, <1>2, <1>4, ZombifyIsCalm DEF tab

\* Every other step only makes processes something else than WAITING or ZOMBIE.
LEMMA NextIsCalm ==
  ASSUME IInv, [Next]_vars, ~SysWaitBlock, ~SysExit, ~DispatchKilled
  PROVE  Calm(pcbs, pcbs', PCBs)
<1>1. pcbs \in [PCBs -> PCB] /\ current \in PCBs
  BY Typed
<1>2. CASE UNCHANGED pcbs
  BY <1>2 DEF Calm
<1>3. CASE Syscalls
  <2>1. CASE SysSetprio
    <3>1. PICK prio \in Prios : pcbs' = [pcbs EXCEPT ![current].prio = prio]
      BY <2>1 DEF SysSetprio
    <3> QED BY <1>1, <3>1 DEF Calm, PCB
  <2>2. CASE SysSleep
    <3>1. pcbs' = [pcbs EXCEPT ![current].state = "SLEEPING"]
      BY <2>2 DEF SysSleep
    <3> QED BY <1>1, <3>1 DEF Calm, PCB
  <2>3. CASE SysFork
    <3> DEFINE child == queue[Avail][1].data
    <3>1. \/ pcbs' = [pcbs EXCEPT ![child] = ClearPcb]
          \/ pcbs' = MarkReady([pcbs EXCEPT ![child].pid = nextPid,
                                            ![child].ppid = Me.pid,
                                            ![child].prio = Me.prio,
                                            ![child].stack = freeStacks[1]], child)
      BY <2>3 DEF SysFork
    <3> HIDE DEF child
    <3> QED BY <1>1, <3>1 DEF Calm, PCB, MarkReady, ClearPcb
  <2>4. CASE SysExec
    <3>1. PICK prio \in Prios :
            pcbs' = MarkReady([pcbs EXCEPT ![current].prio = prio], current)
      BY <2>4 DEF SysExec
    <3> QED BY <1>1, <3>1 DEF Calm, PCB, MarkReady
  <2>5. CASE SysReadcBlock
    <3>1. pcbs' = [pcbs EXCEPT ![current].status = BLOCKED]
      BY <2>5 DEF SysReadcBlock
    <3> QED BY <1>1, <3>1 DEF Calm, PCB
  <2>6. ASSUME NEW pid \in 0 .. MaxPid, SysKill(pid) PROVE Calm(pcbs, pcbs', PCBs)
    <3> DEFINE p == Min(PcbFind(pcbs, pid))
    <3>1. p \in PCBs
      BY <2>6, FoundIsLive DEF SysKill
    <3>2. LET marked == [pcbs EXCEPT ![p].state = "KILLED"]
          IN  pcbs' = marked \/ pcbs' = MarkReady(marked, p)
      BY <2>6 DEF SysKill
    <3> HIDE DEF p
    <3> QED BY <1>1, <3>1, <3>2 DEF Calm, PCB, MarkReady
  <2>7. CASE SysWaitReap
    <3>1. PICK dead \in PCBs : pcbs' = [pcbs EXCEPT ![dead] = ClearPcb]
      BY <2>7, ReapReleases
    <3> QED BY <1>1, <3>1 DEF Calm, PCB, ClearPcb
  <2>8. SysSettime \/ SysReadcNow \/ SysWaitNotFound => UNCHANGED pcbs
    BY DEF SysSettime, SysReadcNow, SysWaitNotFound
  <2> QED BY <1>2, <1>3, <2>1, <2>2, <2>3, <2>4, <2>5, <2>6, <2>7, <2>8 DEF Syscalls
<1>4. CASE Interrupts
  <2>1. CASE SioWake
    <3>1. PICK p : pcbs' = MarkReady(pcbs, p)
      BY <2>1 DEF SioWake
    <3> QED BY <1>1, <3>1 DEF Calm, PCB, MarkReady
  <2>2. CASE ClockTick \/ SioBuffer
    BY <1>2, <2>2 DEF ClockTick, SioBuffer
  <2> QED BY <1>4, <2>1, <2>2 DEF Interrupts
<1>5. CASE KernelStep
  <2>1. CASE ClockWake \/ ClockPreempt
    <3>1. PICK p : pcbs' = MarkReady(pcbs, p)
      BY <2>1 DEF ClockWake, ClockPreempt
    <3> QED BY <1>1, <3>1 DEF Calm, PCB, MarkReady
  <2>2. CASE DispatchHead
    <3>1. UNCHANGED pcbs \/ pcbs' = [pcbs EXCEPT ![Head1].state = "RUNNING"]
      BY <2>2 DEF DispatchHead
    <3> QED BY <1>1, <1>2, <3>1 DEF Calm, PCB
  <2>3. CASE DispatchNothing
    BY <1>2, <2>3 DEF DispatchNothing
  <2> QED BY <1>5, <2>1, <2>2, <2>3 DEF KernelStep, Dispatch
<1>6. CASE UNCHANGED vars
  BY <1>2, <1>6 DEF vars, procVars
<1> QED BY <1>3, <1>4, <1>5, <1>6 DEF Next, Halted

\* Nobody misses a zombie by any step.
LEMMA MissesKept ==
  ASSUME IInv, Identity, NoneMissed(pcbs), [Next]_vars
  PROVE  NoneMissed(pcbs')
<1>1. CASE SysWaitBlock
  BY <1>1, WaitBlockMisses
<1>2. CASE SysExit
  BY <1>2, ExitMisses
<1>3. CASE DispatchKilled
  <2>1. /\ Head1 \in PCBs /\ pcbs[Head1].stack # NULL
        /\ pcbs[Head1].state = "KILLED"
        /\ Placed(pcbs, Popped, {Head1}) /\ Zombify(Head1, pcbs, Popped)
    BY <1>3, DispatchFinds DEF DispatchKilled
  <2> QED BY <2>1, ZombifyIsCalm
<1>4. CASE ~SysWaitBlock /\ ~SysExit /\ ~DispatchKilled
  BY <1>4, NextIsCalm, CalmKeeps
<1> QED BY <1>1, <1>2, <1>3, <1>4

\* No process but init waits for a child that is a zombie already: whichever
\* of exit, kill and wait comes last looks at what the other has left.
THEOREM ZombiesSeen == Spec => []NoMissedZombie
<1>1. ASSUME Init PROVE NoneMissed(pcbs)
  BY <1>1 DEF Init, ProcInit, ClearPcb, NoneMissed
<1>2. Init => NoneMissed(pcbs)
  BY <1>1
<1>3. IInv /\ Identity /\ NoneMissed(pcbs) /\ [Next]_vars => NoneMissed(pcbs)'
  BY MissesKept
<1>4. NoneMissed(pcbs) => NoMissedZombie
  BY DEF NoneMissed, NoMissedZombie, Live
<1> QED BY <1>2, <1>3, <1>4, Invariance, IdentityKept, PTL DEF Spec

-----------------------------------------------------------------------------
(***************************************************************************)
(* Killed processes.                                                       *)
(***************************************************************************)

Dead(state) == state \in {"KILLED", "ZOMBIE", "FREE"}

\* _zombify wakes the parent that waits and nobody with a mark.
LEMMA ZombifyBuries ==
  ASSUME Identity, NEW c \in PCBs, NEW tab, NEW qs, Placed(tab, qs, {c}),
         tab[c].stack # NULL, tab[c].state # "WAITING", Zombify(c, tab, qs),
         \A q \in PCBs : tab[q].stack = pcbs[q].stack /\ tab[q].pid = pcbs[q].pid,
         NEW p \in PCBs, tab[p].state = "KILLED"
  PROVE  Dead(pcbs'[p].state)
<1>1. tab \in [PCBs -> PCB]
  BY DEF Placed
<1>2. CASE ZombifyStops(c, tab, qs)
  BY <1>2 DEF ZombifyStops, Dead
<1>3. CASE ZombifyLeaves(c, tab, qs)
  BY <1>1, <1>3 DEF ZombifyLeaves, LeaveZombie, Dead, PCB
<1>4. ASSUME NEW parent \in PCBs, NEW woken \in PCBs \ {c},
             NEW left \in Family(Queues, PCBs),
             ZombifyGives(c, tab, qs, parent, woken, left)
      PROVE  Dead(pcbs'[p].state)
  <2>1. woken = parent /\ tab[parent].state = "WAITING"
    BY <1>4 DEF ZombifyGives, Identity, Named
  <2>2. p # woken
    BY <2>1
  <2> QED BY <1>1, <1>4, <2>2 DEF ZombifyGives, Dead, ClearPcb
<1> QED BY <1>2, <1>3, <1>4, ZombifyDoes

\* A killed process stays dead, unless a queue it waits in wakes it.
LEMMA KilledStaysDead ==
  ASSUME IInv, Identity, [Next]_vars,
         NEW p \in PCBs, pcbs[p].state = "KILLED", ~WokenFromQueue(p)
  PROVE  Dead(pcbs'[p].state)
<1>1. pcbs \in [PCBs -> PCB] /\ current \in PCBs
  BY Typed
<1>2. CASE UNCHANGED pcbs
  BY <1>2 DEF Dead
<1>3. mode \in {"user", "wake"} => p # current
  BY UserPlaced DEF Running
<1>4. CASE Syscalls
  <2>1. mode = "user"
    BY <1>4 DEF Syscalls, Call, SysSetprio, SysSettime, SysSleep, SysFork, SysExec,
       SysReadcNow, SysReadcBlock, SysKill, SysWaitNotFound, SysWaitReap,
       SysWaitBlock, SysExit
  <2>2. CASE SysSetprio \/ SysSleep \/ SysExec \/ SysReadcBlock \/ SysWaitBlock
    <3>1. pcbs'[p] = pcbs[p]
      BY <1>1, <1>3, <2>1, <2>2 DEF SysSetprio, SysSleep, SysExec, SysReadcBlock,
         SysWaitBlock, MarkReady
    <3> QED BY <3>1 DEF Dead
  <2>3. CASE SysFork
    <3> DEFINE child == queue[Avail][1].data
    <3>1. pcbs[child].state = "FREE"
      <4>1. /\ Placed(pcbs, queue, {current}) /\ {current} \in SUBSET PCBs
            /\ Avail \in Queues /\ queue[Avail] # <<>>
        BY <2>1, <2>3, UserPlaced, QueueNumbers DEF SysFork
      <4>2. Fits(pcbs, Avail, queue[Avail][1])
        BY <4>1, HeadMoves, Zenon
      <4> QED BY <4>2, StatesOnIs DEF Fits
    <3>2. child # p
      BY <3>1
    <3>3. \/ pcbs' = [pcbs EXCEPT ![child] = ClearPcb]
          \/ pcbs' = MarkReady([pcbs EXCEPT ![child].pid = nextPid,
                                            ![child].ppid = Me.pid,
                                            ![child].prio = Me.prio,
                                            ![child].stack = freeStacks[1]], child)
      BY <2>3 DEF SysFork
    <3> HIDE DEF child
    <3>4. pcbs'[p] = pcbs[p]
      BY <1>1, <3>2, <3>3 DEF MarkReady
    <3> QED BY <3>4 DEF Dead
  <2>4. ASSUME NEW pid \in 0 .. MaxPid, SysKill(pid) PROVE Dead(pcbs'[p].state)
    <3> DEFINE k == Min(PcbFind(pcbs, pid))
    <3>1. LET marked == [pcbs EXCEPT ![k].state = "KILLED"]
          IN  IF k = current THEN pcbs' = MarkReady(marked, k) ELSE pcbs' = marked
      BY <2>4 DEF SysKill
    <3> HIDE DEF k
    <3> QED BY <1>1, <1>3, <2>1, <3>1 DEF Dead, MarkReady, PCB
  <2>5. CASE SysWaitReap
    <3>1. PICK dead \in PCBs : pcbs' = [pcbs EXCEPT ![dead] = ClearPcb]
      BY <2>5, ReapReleases
    <3> QED BY <1>1, <3>1 DEF Dead, ClearPcb
  <2>6. CASE SysExit
    <3>1. PICK code \in ExitCodes : Zombify(current, Exiting(code), queue)
      BY <2>6 DEF SysExit
    <3> DEFINE tab == Exiting(code)
    <3>2. /\ Placed(tab, queue, {current}) /\ current \in PCBs
          /\ tab[current].stack # NULL /\ tab[current].state # "WAITING"
          /\ \A q \in PCBs : /\ tab[q].stack = pcbs[q].stack /\ tab[q].pid = pcbs[q].pid
                             /\ tab[q].state = pcbs[q].state
      BY <2>1, ExitingPlaced
    <3>3. Zombify(current, tab, queue)
      BY <3>1
    <3> HIDE DEF tab
    <3> QED BY <3>2, <3>3, ZombifyBuries
  <2>7. SysSettime \/ SysReadcNow \/ SysWaitNotFound => UNCHANGED pcbs
    BY DEF SysSettime, SysReadcNow, SysWaitNotFound
  <2> QED BY <1>2, <1>4, <2>2, <2>3, <2>4, <2>5, <2>6, <2>7 DEF Syscalls
<1>5. CASE Interrupts
  <2>1. CASE SioWake
    <3> DEFINE r == queue[Reading][1].data
    <3>1. mode = "user" /\ pcbs' = MarkReady(pcbs, r) /\ r \in DataOf(queue[Reading])
      <4>1. mode = "user" /\ queue[Reading] # <<>> /\ pcbs' = MarkReady(pcbs, r)
        BY <2>1 DEF SioWake
      <4>2. /\ Placed(pcbs, queue, {current}) /\ {current} \in SUBSET PCBs
            /\ Reading \in Queues
        BY <4>1, UserPlaced, QueueNumbers
      <4>3. queue[Reading][1] \in EntriesOf(queue[Reading])
        BY <4>1, <4>2, HeadMoves, Zenon
      <4> QED BY <4>1, <4>3 DEF DataOf
    <3>2. r # p
      BY <3>1 DEF WokenFromQueue
    <3> HIDE DEF r
    <3>3. pcbs'[p] = pcbs[p]
      BY <1>1, <3>1, <3>2 DEF MarkReady
    <3> QED BY <3>3 DEF Dead
  <2>2. CASE ClockTick \/ SioBuffer
    BY <1>2, <2>2 DEF ClockTick, SioBuffer
  <2> QED BY <1>5, <2>1, <2>2 DEF Interrupts
<1>6. CASE KernelStep
  <2>1. CASE ClockWake
    <3> DEFINE s == queue[Sleep][Min(Due)].data
    <3>1. mode = "wake" /\ pcbs' = MarkReady(pcbs, s)
      BY <2>1 DEF ClockWake
    <3>2. s \in DataOf(queue[Sleep])
      <4>1. Min(Due) \in DOMAIN queue[Sleep]
        BY <2>1, DueLeaves DEF Due, LeHits
      <4> QED BY <4>1 DEF DataOf, EntriesOf
    <3>3. s # p
      BY <3>1, <3>2 DEF WokenFromQueue
    <3> HIDE DEF s
    <3>4. pcbs'[p] = pcbs[p]
      BY <1>1, <3>1, <3>3 DEF MarkReady
    <3> QED BY <3>4 DEF Dead
  <2>2. CASE ClockPreempt
    <3>1. pcbs'[p] = pcbs[p]
      BY <1>1, <1>3, <2>2 DEF ClockPreempt, MarkReady
    <3> QED BY <3>1 DEF Dead
  <2>3. CASE DispatchHead
    <3>1. pcbs'[p] = pcbs[p]
      BY <1>1, <2>3 DEF DispatchHead
    <3> QED BY <3>1 DEF Dead
  <2>4. CASE DispatchNothing
    BY <1>2, <2>4 DEF DispatchNothing
  <2>5. CASE DispatchKilled
    <3>1. /\ Head1 \in PCBs /\ pcbs[Head1].stack # NULL
          /\ pcbs[Head1].state = "KILLED"
          /\ Placed(pcbs, Popped, {Head1}) /\ Zombify(Head1, pcbs, Popped)
      BY <2>5, DispatchFinds DEF DispatchKilled
    <3> QED BY <3>1, ZombifyBuries
  <2> QED BY <1>6, <2>1, <2>2, <2>3, <2>4, <2>5 DEF KernelStep, Dispatch
<1>7. CASE UNCHANGED vars
  BY <1>2, <1>7 DEF vars, procVars
<1> QED BY <1>4, <1>5, <1>6, <1>7 DEF Next, Halted

\* A process that stands marked KILLED between two handlers, and that no
\* interrupt handler wakes, is dead: it is dispatched as a zombie or released,
\* and neither the wait nor the exit of another process makes it READY.  A
\* process that kills itself never stands so marked: within the same call
\* _schedule makes it READY again, and it runs on.
THEOREM KilledDies == Spec => KilledNeverRuns
<1>1. ASSUME IInv, Identity, [Next]_vars
      PROVE  [\A p \in PCBs :
                /\ pcbs[p].state = "KILLED" /\ ~WokenFromQueue(p)
                => pcbs'[p].state \in {"KILLED", "ZOMBIE", "FREE"}]_vars
  BY <1>1, KilledStaysDead DEF Dead
<1>2. IInv /\ Identity /\ [Next]_vars
      => [\A p \in PCBs :
            /\ pcbs[p].state = "KILLED" /\ ~WokenFromQueue(p)
            => pcbs'[p].state \in {"KILLED", "ZOMBIE", "FREE"}]_vars
  BY <1>1
<1> QED BY <1>2, Invariance, IdentityKept, PTL DEF Spec, KilledNeverRuns

-----------------------------------------------------------------------------
(***************************************************************************)
(* Children.  A PCB that holds the argument of an exit is on _zombie,      *)
(* unless the machine has stopped, and no live process has it as parent.   *)
(***************************************************************************)
Buried(tab, Q, S) ==
  \A z \in S : tab[z].arg # NoArg => z \in DataOf(Q[Zombies])

Childless(tab) ==
  \A z, p \in PCBs :
    /\ tab[z].arg # NoArg /\ tab[z].pid # PID_INIT
    /\ tab[p].stack # NULL
    => tab[p].ppid # tab[z].pid

Heirs == Childless(pcbs) /\ (mode # "panic" => Buried(pcbs, queue, PCBs))

\* A PCB that is on two queues is on the same one.
LEMMA OneQueue ==
  ASSUME NEW tab, NEW Q, NEW off, Placed(tab, Q, off),
         NEW m \in Queues, NEW n \in Queues, NEW p,
         p \in DataOf(Q[m]), p \in DataOf(Q[n])
  PROVE  m = n
BY DEF Placed, Family, NoDuplicates, DataOf, EntriesOf

\* What is on _zombie has a stack, and is on the queues.
LEMMA BuriedOwns ==
  ASSUME NEW tab, NEW Q, NEW off, Placed(tab, Q, off),
         NEW z, z \in DataOf(Q[Zombies])
  PROVE  z \in PCBs \ off /\ tab[z].stack # NULL
<1>1. Zombies \in Queues /\ Zombies # Avail
  BY QueueNumbers
<1>2. PICK e \in EntriesOf(Q[Zombies]) : e.data = z
  BY DEF DataOf
<1>3. Fits(tab, Zombies, e)
  BY <1>1, <1>2 DEF Placed
<1>4. z \in Contents(Q)
  BY <1>1 DEF Contents, Placed, Family
<1> QED BY <1>1, <1>2, <1>3, <1>4 DEF Fits, Placed

\* _zombify buries c, or has released it.
LEMMA ZombifyBequeaths ==
  ASSUME NEW c \in PCBs, NEW tab, NEW qs, Placed(tab, qs, {c}),
         tab[c].stack # NULL, tab[c].state # "WAITING", Zombify(c, tab, qs),
         Childless(tab), Buried(tab, qs, PCBs \ {c})
  PROVE  Heirs'
<1>1. /\ tab \in [PCBs -> PCB] /\ qs \in Family(Queues, PCBs)
      /\ Zombies \in Queues \ ReadyQs /\ Zombies \notin {Avail, Waiting}
      /\ NoDuplicates(qs) /\ c \notin Contents(qs)
  BY QueueNumbers DEF Placed
<1>2. CASE ZombifyStops(c, tab, qs)
  BY <1>2 DEF ZombifyStops, Heirs
<1>3. CASE ZombifyLeaves(c, tab, qs)
  <2>1. /\ pcbs' = [tab EXCEPT ![c].state = "ZOMBIE"]
        /\ queue' = [qs EXCEPT ![Zombies] = QInsert(@, c, tab[c].pid)]
    BY <1>3 DEF ZombifyLeaves, LeaveZombie
  <2>2. tab[c].pid \in Nat
    BY <1>1, SizesAssumption DEF PCB, Pids
  <2>3. Gained(qs, queue', Queues, PCBs, Zombies, Entry(c, tab[c].pid))
    BY <1>1, <2>1, <2>2, FamilyInsert, Zenon
  <2>4. DataOf(queue'[Zombies]) = DataOf(qs[Zombies]) \cup {c}
    <3>1. EntriesOf(queue'[Zombies]) = EntriesOf(qs[Zombies]) \cup {Entry(c, tab[c].pid)}
      BY <1>1, <2>3 DEF Gained
    <3>2. Entry(c, tab[c].pid).data = c
      BY DEF Entry
    <3> QED BY <3>1, <3>2 DEF DataOf
  <2>5. \A q \in PCBs : /\ pcbs'[q].arg = tab[q].arg /\ pcbs'[q].pid = tab[q].pid
                        /\ pcbs'[q].stack = tab[q].stack
                        /\ pcbs'[q].ppid = tab[q].ppid
    BY <1>1, <2>1 DEF PCB
  <2> QED BY <2>4, <2>5 DEF Heirs, Childless, Buried
<1>4. ASSUME NEW parent \in PCBs, NEW woken \in PCBs \ {c},
             NEW left \in Family(Queues, PCBs),
             ZombifyGives(c, tab, qs, parent, woken, left)
      PROVE  Heirs'
  <2>1. queue'[Zombies] = qs[Zombies]
    <3> DEFINE Q == FreePcb(left, c)
    <3>1. queue' = Ready(Q, woken, PRIO_MAXIMUM) /\ PRIO_MAXIMUM \in Nat
      BY <1>4 DEF ZombifyGives, PRIO_MAXIMUM
    <3>2. Q \in Family(Queues, PCBs) /\ Q[Zombies] = left[Zombies]
      BY <1>1, FreeGains
    <3>3. left[Zombies] = qs[Zombies]
      BY <1>1, <1>4 DEF ZombifyGives
    <3> HIDE DEF Q
    <3> QED BY <1>1, <3>1, <3>2, <3>3, ReadySpares
  <2>2. /\ pcbs'[c].stack = NULL /\ pcbs'[c].arg = NoArg
        /\ \A q \in PCBs \ {c} :
             /\ pcbs'[q].arg = tab[q].arg /\ pcbs'[q].pid = tab[q].pid
             /\ pcbs'[q].stack = tab[q].stack /\ pcbs'[q].ppid = tab[q].ppid
    BY <1>1, <1>4, ZenonT(30) DEF ZombifyGives, ClearPcb, PCB
  <2> QED BY <2>1, <2>2 DEF Heirs, Childless, Buried
<1> QED BY <1>2, <1>3, <1>4, ZombifyDoes

\* _sys_exit has given the children away.
LEMMA ExitingIsChildless ==
  ASSUME IInv, Heirs, mode = "user", NEW code \in ExitCodes
  PROVE  /\ Childless(Exiting(code))
         /\ Buried(Exiting(code), queue, PCBs \ {current})
         /\ \A p \in PCBs : Exiting(code)[p].ppid # Me.pid \/ Me.pid = PID_INIT
<1>1. \A q \in PCBs :
        /\ Exiting(code)[q].ppid = IF pcbs[q].ppid = Me.pid THEN PID_INIT
                                                            ELSE pcbs[q].ppid
        /\ Exiting(code)[q].arg = IF q = current THEN code ELSE pcbs[q].arg
        /\ Exiting(code)[q].pid = pcbs[q].pid
        /\ Exiting(code)[q].stack = pcbs[q].stack
  BY Typed DEF Exiting, PCB
<1> QED BY <1>1 DEF Heirs, Childless, Buried, Me

\* exit leaves the children of the dead process to init,
LEMMA ExitBequeaths == ASSUME IInv, Heirs, SysExit PROVE Heirs'
<1>1. PICK code \in ExitCodes :
        mode = "user" /\ Zombify(current, Exiting(code), queue)
  BY DEF SysExit, Call
<1>2. /\ Placed(Exiting(code), queue, {current}) /\ current \in PCBs
      /\ Exiting(code)[current].stack # NULL
      /\ Exiting(code)[current].state # "WAITING"
  BY <1>1, ExitingPlaced
<1>3. Childless(Exiting(code)) /\ Buried(Exiting(code), queue, PCBs \ {current})
  BY <1>1, ExitingIsChildless
<1> QED BY <1>1, <1>2, <1>3, ZombifyBequeaths

\* and so does the dispatch of a killed process,
LEMMA DispatchKilledBequeaths == ASSUME IInv, Heirs, DispatchKilled PROVE Heirs'
<1>1. /\ Head1 \in PCBs /\ pcbs[Head1].stack # NULL
      /\ pcbs[Head1].state = "KILLED"
      /\ Placed(pcbs, Popped, {Head1}) /\ Zombify(Head1, pcbs, Popped)
      /\ mode # "panic" /\ NonEmpty # {}
  BY DispatchFinds DEF DispatchKilled
<1>2. Popped[Zombies] = queue[Zombies]
  BY <1>1, PoppedSpares, QueueNumbers
<1>3. Childless(pcbs) /\ Buried(pcbs, Popped, PCBs \ {Head1})
  BY <1>1, <1>2 DEF Heirs, Buried
<1> QED BY <1>1, <1>3, ZombifyBequeaths

\* and a wait that takes a zombie.
LEMMA ReapBequeaths == ASSUME IInv, Heirs, SysWaitReap PROVE Heirs'
<1>1. PICK dead \in PCBs \ {current} : \E left :
        /\ Placed(pcbs, left, {current} \cup {dead})
        /\ \A n \in Queues \ {Zombies} : left[n] = queue[n]
        /\ queue' = FreePcb(left, dead)
        /\ pcbs' = [pcbs EXCEPT ![dead] = ClearPcb]
        /\ UNCHANGED mode
  BY ReapReleases
<1>2. PICK left : /\ Placed(pcbs, left, {current} \cup {dead})
                  /\ \A n \in Queues \ {Zombies} : left[n] = queue[n]
                  /\ queue' = FreePcb(left, dead)
  BY <1>1
<1>3. mode = "user" /\ Placed(pcbs, queue, {current}) /\ current \in PCBs
  BY UserPlaced DEF SysWaitReap, Call
<1>4. /\ Zombies \in Queues /\ Zombies # Avail /\ left \in Family(Queues, PCBs)
      /\ queue'[Zombies] = left[Zombies]
  BY <1>2, QueueNumbers, FreeGains DEF Placed
<1>5. ASSUME NEW z \in PCBs \ {dead}, z \in DataOf(queue[Zombies])
      PROVE  z \in DataOf(left[Zombies])
  <2>1. z \in PCBs \ {current}
    BY <1>3, <1>5, BuriedOwns
  <2>2. PICK m \in Queues : z \in DataOf(left[m])
    BY <1>2, <1>5, <2>1 DEF Placed, Contents, Family
  <2>3. CASE m # Zombies
    <3>1. z \in DataOf(queue[m])
      BY <1>2, <2>2, <2>3
    <3> QED BY <1>3, <1>4, <1>5, <2>3, <3>1, OneQueue
  <2> QED BY <2>2, <2>3
<1>6. /\ pcbs'[dead].stack = NULL /\ pcbs'[dead].arg = NoArg
      /\ \A q \in PCBs \ {dead} : pcbs'[q] = pcbs[q]
  BY <1>1, Typed DEF ClearPcb
<1> QED BY <1>1, <1>3, <1>4, <1>5, <1>6 DEF Heirs, Childless, Buried

\* Other steps leave live processes their stack, pids and exit argument, and
\* give no PCB an exit argument; a new process is the current one's child.
Settled ==
  /\ \A q \in PCBs : pcbs[q].stack # NULL =>
       /\ pcbs'[q].stack = pcbs[q].stack /\ pcbs'[q].pid = pcbs[q].pid
       /\ pcbs'[q].ppid = pcbs[q].ppid /\ pcbs'[q].arg = pcbs[q].arg
  /\ \A q \in PCBs : pcbs[q].stack = NULL =>
       /\ pcbs'[q].arg \in {pcbs[q].arg, NoArg}
       /\ pcbs'[q].stack # NULL => mode = "user" /\ pcbs'[q].ppid = Me.pid

\* All other steps change no parent, but that fork adds a child of the
\* caller.
LEMMA NextIsSettled ==
  ASSUME IInv, Identity, [Next]_vars, ~SysWaitReap, ~SysExit, ~DispatchKilled
  PROVE  Settled
<1>1. pcbs \in [PCBs -> PCB] /\ current \in PCBs
  BY Typed
<1>2. CASE UNCHANGED pcbs
  BY <1>2 DEF Settled
<1>3. ASSUME NEW p, NEW s, pcbs' = [pcbs EXCEPT ![p].state = s] PROVE Settled
  BY <1>1, <1>3 DEF Settled, PCB
<1>4. CASE Syscalls
  <2>1. CASE SysSetprio
    <3>1. PICK prio \in Prios : pcbs' = [pcbs EXCEPT ![current].prio = prio]
      BY <2>1 DEF SysSetprio
    <3> QED BY <1>1, <3>1 DEF Settled, PCB
  <2>2. CASE SysSleep
    BY <1>3, <2>2 DEF SysSleep
  <2>3. CASE SysFork
    <3> DEFINE child == queue[Avail][1].data
    <3>1. mode = "user" /\ queue[Avail] # <<>>
      BY <2>3 DEF SysFork, Call
    <3>2. child \in PCBs /\ pcbs[child].stack = NULL
      <4>1. /\ Placed(pcbs, queue, {current}) /\ {current} \in SUBSET PCBs
            /\ Avail \in Queues
        BY <3>1, UserPlaced, QueueNumbers
      <4>2. child \in PCBs /\ queue[Avail][1] \in EntriesOf(queue[Avail])
        BY <3>1, <4>1, HeadMoves, Zenon
      <4>3. child \in DataOf(queue[Avail])
        BY <4>2 DEF DataOf
      <4> QED BY <4>2, <4>3 DEF Identity, Spare
    <3>3. \/ pcbs' = [pcbs EXCEPT ![child] = ClearPcb]
          \/ pcbs' = MarkReady([pcbs EXCEPT ![child].pid = nextPid,
                                            ![child].ppid = Me.pid,
                                            ![child].prio = Me.prio,
                                            ![child].stack = freeStacks[1]], child)
      BY <2>3 DEF SysFork
    <3> HIDE DEF child
    <3>4. CASE pcbs' = [pcbs EXCEPT ![child] = ClearPcb]
      BY <1>1, <3>2, <3>4 DEF Settled, ClearPcb
    <3>5. CASE pcbs' = MarkReady([pcbs EXCEPT ![child].pid = nextPid,
                                              ![child].ppid = Me.pid,
                                              ![child].prio = Me.prio,
                                              ![child].stack = freeStacks[1]], child)
      <4>1. /\ pcbs'[child].arg = pcbs[child].arg /\ pcbs'[child].ppid = Me.pid
            /\ \A q \in PCBs \ {child} : pcbs'[q] = pcbs[q]
        BY <1>1, <3>2, <3>5 DEF MarkReady, PCB
      <4> QED BY <3>1, <3>2, <4>1 DEF Settled
    <3> QED BY <3>3, <3>4, <3>5
  <2>4. CASE SysExec
    <3>1. PICK prio \in Prios :
            pcbs' = MarkReady([pcbs EXCEPT ![current].prio = prio], current)
      BY <2>4 DEF SysExec
    <3> QED BY <1>1, <3>1 DEF Settled, PCB, MarkReady
  <2>5. CASE SysReadcBlock
    <3>1. pcbs' = [pcbs EXCEPT ![current].status = BLOCKED]
      BY <2>5 DEF SysReadcBlock
    <3> QED BY <1>1, <3>1 DEF Settled, PCB
  <2>6. CASE SysWaitBlock
    <3>1. PICK pid \in 0 .. MaxPid :
            pcbs' = [pcbs EXCEPT ![current].state = "WAITING", ![current].want = pid]
      BY <2>6 DEF SysWaitBlock
    <3> QED BY <1>1, <3>1 DEF Settled, PCB
  <2>7. ASSUME NEW pid \in 0 .. MaxPid, SysKill(pid) PROVE Settled
    <3> DEFINE k == Min(PcbFind(pcbs, pid))
    <3>1. LET marked == [pcbs EXCEPT ![k].state = "KILLED"]
          IN  pcbs' = marked \/ pcbs' = MarkReady(marked, k)
      BY <2>7 DEF SysKill
    <3>2. k \in PCBs
      BY <2>7, FoundIsLive DEF SysKill
    <3> HIDE DEF k
    <3> QED BY <1>1, <3>1, <3>2 DEF Settled, PCB, MarkReady
  <2>8. SysSettime \/ SysReadcNow \/ SysWaitNotFound => UNCHANGED pcbs
    BY DEF SysSettime, SysReadcNow, SysWaitNotFound
  <2> QED BY <1>2, <1>4, <2>1, <2>2, <2>3, <2>4, <2>5, <2>6, <2>7, <2>8 DEF Syscalls
<1>5. CASE Interrupts
  BY <1>2, <1>3, <1>5 DEF Interrupts, SioWake, ClockTick, SioBuffer, MarkReady
<1>6. CASE KernelStep
  BY <1>2, <1>3, <1>6 DEF KernelStep, Dispatch, ClockWake, ClockPreempt,
     DispatchHead, DispatchNothing, MarkReady
<1>7. CASE UNCHANGED vars
  BY <1>2, <1>7 DEF vars, procVars
<1> QED BY <1>4, <1>5, <1>6, <1>7 DEF Next, Halted

\* Every step leaves the children to init.
LEMMA HeirsKept == ASSUME IInv, Identity, Heirs, [Next]_vars PROVE Heirs'
<1>1. CASE SysWaitReap
  BY <1>1, ReapBequeaths
<1>2. CASE SysExit
  BY <1>2, ExitBequeaths
<1>3. CASE DispatchKilled
  BY <1>3, DispatchKilledBequeaths
<1>4. CASE UNCHANGED vars
  BY <1>4 DEF vars, procVars, Heirs
<1>5. CASE ~SysWaitReap /\ ~SysExit /\ ~DispatchKilled /\ ~UNCHANGED vars
  <2>1. Settled /\ queue'[Zombies] = queue[Zombies]
    BY <1>5, NextIsSettled, ListStays, QueueNumbers
  <2>2. mode # "panic"
    BY <1>5 DEF Next, Halted, Syscalls, Interrupts, KernelStep, Dispatch, Call,
       SysSetprio, SysSettime, SysSleep, SysFork, SysExec, SysReadcNow,
       SysReadcBlock, SysKill, SysWaitNotFound, SysWaitBlock, ClockTick, SioWake,
       SioBuffer, ClockWake, ClockPreempt, DispatchNothing, DispatchHead
  <2>3. PICK off : Placed(pcbs, queue, off) /\ (mode = "user" => current \in off)
    BY <2>2, UserPlaced DEF IInv, TypeOK, WellPlaced
  <2>4. ASSUME NEW z \in PCBs, pcbs'[z].arg # NoArg
        PROVE  /\ pcbs[z].arg # NoArg /\ z \in DataOf(queue[Zombies])
               /\ pcbs[z].stack # NULL /\ (mode = "user" => z # current)
    <3>1. pcbs[z].arg # NoArg
      BY <2>1, <2>4 DEF Settled
    <3>2. z \in DataOf(queue[Zombies])
      BY <2>2, <3>1 DEF Heirs, Buried
    <3> QED BY <2>3, <3>1, <3>2, BuriedOwns
  <2>5. Buried(pcbs', queue', PCBs)
    BY <2>1, <2>4 DEF Buried
  <2>6. ASSUME NEW z \in PCBs, NEW p \in PCBs,
               pcbs'[z].arg # NoArg, pcbs'[z].pid # PID_INIT, pcbs'[p].stack # NULL
        PROVE  pcbs'[p].ppid # pcbs'[z].pid
    <3>1. pcbs[z].arg # NoArg /\ pcbs'[z].pid = pcbs[z].pid /\ pcbs[z].stack # NULL
      BY <2>1, <2>4, <2>6 DEF Settled
    <3>2. CASE pcbs[p].stack # NULL
      BY <2>1, <2>6, <3>1, <3>2 DEF Settled, Heirs, Childless
    <3>3. CASE pcbs[p].stack = NULL
      <4>1. mode = "user" /\ pcbs'[p].ppid = pcbs[current].pid
        BY <2>1, <2>6, <3>3 DEF Settled, Me
      <4>2. pcbs[current].stack # NULL /\ current \in PCBs /\ z # current
        BY <2>4, <2>6, <4>1, UserPlaced DEF Running
      <4>3. pcbs[z].pid # pcbs[current].pid
        BY <3>1, <4>2 DEF Identity, Named
      <4> QED BY <3>1, <4>1, <4>3
    <3> QED BY <3>2, <3>3
  <2>7. Childless(pcbs')
    BY <2>6 DEF Childless
  <2> QED BY <2>5, <2>7 DEF Heirs
<1> QED BY <1>1, <1>2, <1>3, <1>4, <1>5

\* Init has no exit argument.
LEMMA InitBequeaths == ASSUME Init PROVE Heirs
<1>1. \A p \in PCBs : pcbs[p].arg = NoArg
  BY DEF Init, ProcInit, ClearPcb
<1> QED BY <1>1 DEF Heirs, Childless, Buried

\* A process that has called exit has no children, and is in _zombie as long
\* as the kernel runs: exit hands the children to init before the PCB is
\* parked, and nobody becomes the child of a dead process afterwards.
THEOREM HeirsInvariant == Spec => []Heirs
<1>1. Init => Heirs
  BY InitBequeaths
<1>2. IInv /\ Identity /\ Heirs /\ [Next]_vars => Heirs'
  BY HeirsKept
<1> QED BY <1>1, <1>2, Invariance, IdentityKept, PTL DEF Spec

\* A process that goes leaves children only if it may.
LEMMA GoneIsChildless ==
  ASSUME IInv, Identity, Identity', Heirs, [Next]_vars,
         NEW q \in Live \ Live', ~MayOrphan(q), NEW p \in Live'
  PROVE  pcbs'[p].ppid # pcbs[q].pid
<1>1. /\ q \in PCBs /\ pcbs[q].stack # NULL /\ pcbs'[q].stack = NULL
      /\ p \in PCBs /\ pcbs'[p].stack # NULL /\ p # q
  <2>1. q \in PCBs /\ p \in PCBs
    BY DEF Live
  <2> QED BY <2>1 DEF Live, Identity, Spare
<1>2. ~SysWaitReap /\ ~SysExit /\ ~DispatchKilled => FALSE
  BY <1>1, NextIsSettled DEF Settled
<1>3. CASE SysWaitReap
  <2>1. PICK dead \in PCBs : /\ pcbs[dead].state \in {"ZOMBIE", "KILLED"}
                             /\ pcbs' = [pcbs EXCEPT ![dead] = ClearPcb]
    BY <1>3, ReapReleases
  <2>2. q = dead /\ pcbs'[p] = pcbs[p]
    BY <1>1, <2>1, Typed
  <2>3. pcbs[q].arg # NoArg /\ pcbs[q].pid # PID_INIT
    BY <2>1, <2>2 DEF MayOrphan
  <2> QED BY <1>1, <2>2, <2>3 DEF Heirs, Childless
<1>4. CASE SysExit
  <2>1. PICK code \in ExitCodes :
          mode = "user" /\ Zombify(current, Exiting(code), queue)
    BY <1>4 DEF SysExit, Call
  <2> DEFINE tab == Exiting(code)
  <2>2. /\ Placed(tab, queue, {current}) /\ current \in PCBs
        /\ tab[current].stack # NULL /\ tab[current].state # "WAITING"
        /\ \A r \in PCBs : tab[r].stack = pcbs[r].stack
        /\ tab[p].ppid # Me.pid \/ Me.pid = PID_INIT
    BY <1>1, <2>1, ExitingPlaced, ExitingIsChildless
  <2>3. Zombify(current, tab, queue) /\ tab \in [PCBs -> PCB]
    BY <2>1, <2>2 DEF Placed
  <2> HIDE DEF tab
  <2>4. CASE ZombifyStops(current, tab, queue)
    BY <1>1, <2>2, <2>4 DEF ZombifyStops
  <2>5. CASE ZombifyLeaves(current, tab, queue)
    BY <1>1, <2>2, <2>3, <2>5 DEF ZombifyLeaves, LeaveZombie, PCB
  <2>6. ASSUME NEW parent \in PCBs, NEW woken \in PCBs \ {current},
               NEW left \in Family(Queues, PCBs),
               ZombifyGives(current, tab, queue, parent, woken, left)
        PROVE  pcbs'[p].ppid # pcbs[q].pid
    <3>1. \A r \in PCBs \ {current} : /\ pcbs'[r].stack = tab[r].stack
                                      /\ pcbs'[r].ppid = tab[r].ppid
      BY <2>3, <2>6 DEF ZombifyGives, PCB
    <3>2. q = current
      BY <1>1, <2>2, <3>1
    <3> QED BY <1>1, <2>2, <3>1, <3>2 DEF MayOrphan, Me
  <2> QED BY <2>2, <2>3, <2>4, <2>5, <2>6, ZombifyDoes
<1>5. CASE DispatchKilled
  <2>1. /\ Head1 \in PCBs /\ pcbs[Head1].stack # NULL
        /\ pcbs[Head1].state = "KILLED" /\ pcbs \in [PCBs -> PCB]
        /\ Placed(pcbs, Popped, {Head1}) /\ Zombify(Head1, pcbs, Popped)
    BY <1>5, DispatchFinds, Typed DEF DispatchKilled
  <2>2. q # Head1
    BY <2>1 DEF MayOrphan
  <2>3. CASE ZombifyStops(Head1, pcbs, Popped)
    BY <1>1, <2>3 DEF ZombifyStops
  <2>4. CASE ZombifyLeaves(Head1, pcbs, Popped)
    BY <1>1, <2>1, <2>4 DEF ZombifyLeaves, LeaveZombie, PCB
  <2>5. ASSUME NEW parent \in PCBs, NEW woken \in PCBs \ {Head1},
               NEW left \in Family(Queues, PCBs),
               ZombifyGives(Head1, pcbs, Popped, parent, woken, left)
        PROVE  FALSE
    <3>1. \A r \in PCBs \ {Head1} : pcbs'[r].stack = pcbs[r].stack
      BY <2>1, <2>5 DEF ZombifyGives, PCB
    <3> QED BY <1>1, <2>2, <3>1
  <2> QED BY <2>1, <2>3, <2>4, <2>5, ZombifyDoes
<1> QED BY <1>2, <1>3, <1>4, <1>5

\* However exits, kills and waits interleave, only init, killed processes
\* and killed zombies can go and leave a live child with their pid as parent.
THEOREM OrphansGoToInit == Spec => LeavesNoOrphans
<1>1. ASSUME IInv, Identity, Identity', Heirs, [Next]_vars
      PROVE  [\A q \in Live \ Live' :
                MayOrphan(q) \/ \A p \in Live' : pcbs'[p].ppid # pcbs[q].pid]_vars
  BY <1>1, GoneIsChildless
<1>2. IInv /\ Identity /\ Identity' /\ Heirs /\ [Next]_vars
      => [\A q \in Live \ Live' :
            MayOrphan(q) \/ \A p \in Live' : pcbs'[p].ppid # pcbs[q].pid]_vars
  BY <1>1
<1> QED BY <1>2, Invariance, IdentityKept, HeirsInvariant, PTL
        DEF Spec, LeavesNoOrphans

-----------------------------------------------------------------------------
(***************************************************************************)
(* Sleepers, while the clock does not wrap and nobody sets it.  One who    *)
(* sleeps for no time at all misses the tick he is in and wakes at the     *)
(* next.                                                                   *)
(***************************************************************************)
ClockRuns ==
  /\ \A ticks \in Ticks : MaxTime + ticks < TimeMod
  /\ "settime" \notin Calls \cup InitCalls

\* How much later than asked for somebody can wake.
Delay == IF 0 \in Ticks THEN 1 ELSE 0

\* A sleeper's time lies ahead, or is now while the wake loop runs, but for
\* that delay.
Ahead ==
  /\ time <= MaxTime
  /\ \A e \in EntriesOf(queue[Sleep]) :
       e.key + Delay >= time /\ (mode # "wake" => e.key + Delay > time)

\* Only set_time and the tick change the time.
LEMMA TimeStays ==
  ASSUME [Next]_vars, ~SysSettime, ~ClockTick
  PROVE  time' = time
BY DEF Next, Syscalls, Interrupts, KernelStep, Halted, SysSetprio,
   SysSleep, SysFork, SysExec, SysReadcNow, SysReadcBlock, SysKill,
   SysWaitNotFound, SysWaitReap, SysWaitBlock, SysExit, SioBuffer, SioWake,
   ClockWake, ClockPreempt, vars, procVars

\* The wake loop ends when nobody is due.
LEMMA WakeEnds ==
  ASSUME [Next]_vars, mode = "wake", mode' # "wake"
  PROVE  ClockPreempt
BY DEF Next, Syscalls, Interrupts, KernelStep, Halted, Dispatch, Call, SysSetprio,
   SysSettime, SysSleep, SysFork, SysExec, SysReadcNow, SysReadcBlock, SysKill,
   SysWaitNotFound, SysWaitReap, SysWaitBlock, SysExit, SioBuffer, SioWake,
   ClockTick, ClockWake, DispatchNothing, DispatchHead, DispatchKilled, vars,
   procVars

\* Every step keeps the sleepers ahead, and one leaves _sleep not before his
\* time and at most the delay after it.
LEMMA AheadKept ==
  ASSUME ClockRuns, IInv, Ahead, [Next]_vars
  PROVE  /\ Ahead'
         /\ \A e \in EntriesOf(queue[Sleep]) :
              e \notin EntriesOf(queue'[Sleep]) => time \in e.key .. e.key + Delay
<1>0. Delay \in {0, 1} /\ \A ticks \in Ticks : ticks \in Nat /\ ticks + Delay > 0
  BY TimesAssumption DEF Delay
<1>1. /\ queue \in Family(Queues, PCBs) /\ Sleep \in Queues /\ time \in 0 .. TimeMod - 1
      /\ TimeMod \in Nat \ {0} /\ MaxTime \in Nat
      /\ queue[Sleep] \in Seq([data : PCBs, key : Nat])
  BY Typed, QueueNumbers, SizesAssumption, BufSizeAssumption
     DEF IInv, TypeOK, Family
<1>2. \A e \in EntriesOf(queue[Sleep]) : e.key \in Nat
  <2> SUFFICES ASSUME NEW i \in DOMAIN queue[Sleep] PROVE queue[Sleep][i].key \in Nat
    BY DEF EntriesOf
  <2>1. queue[Sleep][i] \in [data : PCBs, key : Nat]
    BY <1>1, ElementOfSeq, LenProperties
  <2> QED BY <2>1
<1>3. ~SysSettime
  BY DEF SysSettime, Call, ClockRuns
<1>4. CASE SysSleep
  <2>1. PICK ticks \in Ticks :
          /\ mode = "user" /\ mode' = "dispatch" /\ time' = time
          /\ queue' = [queue EXCEPT
                         ![Sleep] = QInsert(@, current, (time + ticks) % TimeMod)]
    BY <1>4 DEF SysSleep, Call
  <2>2. (time + ticks) % TimeMod = time + ticks /\ time + ticks \in Nat
    <3>1. ticks \in Nat /\ time + ticks < TimeMod
      BY <1>0, <1>1 DEF ClockRuns, Ahead
    <3>2. time + ticks \in 0 .. TimeMod - 1
      BY <1>1, <3>1
    <3> DEFINE k == time + ticks
    <3>3. k \in 0 .. TimeMod - 1
      BY <3>2
    <3> HIDE DEF k
    <3>4. k % TimeMod = k
      BY <1>1, <3>3
    <3> QED BY <3>1, <3>2, <3>4 DEF k
  <2> DEFINE new == Entry(current, time + ticks)
  <2>3. Gained(queue, queue', Queues, PCBs, Sleep, new)
    <3>1. Placed(pcbs, queue, {current}) /\ current \in PCBs
      BY <2>1, UserPlaced
    <3>2. NoDuplicates(queue) /\ current \notin Contents(queue)
      BY <3>1 DEF Placed
    <3>3. queue' = [queue EXCEPT ![Sleep] = QInsert(@, current, time + ticks)]
      BY <2>1, <2>2
    <3> QED BY <1>1, <2>2, <3>1, <3>2, <3>3, FamilyInsert, Zenon
  <2>4. EntriesOf(queue'[Sleep]) = EntriesOf(queue[Sleep]) \cup {new}
    BY <1>1, <2>3 DEF Gained
  <2>5. new.key = time + ticks
    BY DEF Entry
  <2> HIDE DEF new
  <2>6. new.key \in Nat /\ new.key + Delay > time
    BY <1>0, <1>1, <2>2, <2>5, SMTT(30)
  <2>7. ASSUME NEW e \in EntriesOf(queue'[Sleep]) PROVE e.key + Delay > time
    BY <2>1, <2>4, <2>6 DEF Ahead
  <2> QED BY <1>0, <1>1, <1>2, <2>1, <2>4, <2>6, <2>7 DEF Ahead
<1>5. CASE ClockTick
  <2>1. /\ mode = "user" /\ time < MaxTime /\ time' = (time + 1) % TimeMod
        /\ mode' = "wake" /\ UNCHANGED queue
    BY <1>5 DEF ClockTick
  <2>2. time' \in {time + 1, 0} /\ time' <= MaxTime
    <3>1. CASE time + 1 = TimeMod
      BY <1>1, <2>1, <3>1
    <3>2. CASE time + 1 # TimeMod
      <4>1. time + 1 \in 0 .. TimeMod - 1
        BY <1>1, <3>2
      <4> QED BY <1>1, <2>1, <4>1
    <3> QED BY <3>1, <3>2
  <2> QED BY <1>0, <1>1, <1>2, <2>1, <2>2 DEF Ahead
<1>6. CASE ClockWake
  <2> DEFINE i == Min(Due)
             e == queue[Sleep][i]
             left == [queue EXCEPT ![Sleep] = QRemoveFirst(@, Due)]
  <2>1. /\ mode = "wake" /\ Due # {} /\ UNCHANGED <<mode, time>>
        /\ queue' = Ready(left, e.data, PRIO_MAXIMUM)
    BY <1>6 DEF ClockWake
  <2>2. Placed(pcbs, queue, {current}) /\ Due \subseteq DOMAIN queue[Sleep]
    BY <2>1, UserPlaced DEF Due, LeHits
  <2>3. Min(Due) \in Due /\ Lost(queue, left, Queues, PCBs, Sleep, e)
    <3>1. NoDuplicates(queue)
      BY <2>2 DEF Placed
    <3> QED BY <1>1, <2>1, <2>2, <3>1, FamilyRemoveFirst, Zenon
  <2>4. e \in EntriesOf(queue[Sleep]) /\ e.key <= time
    BY <2>2, <2>3 DEF Due, LeHits, EntriesOf
  <2> HIDE DEF i, e, left
  <2>5. queue'[Sleep] = left[Sleep]
    <3>1. left \in Family(Queues, PCBs) /\ Sleep \in Queues \ ReadyQs
      BY <2>3, QueueNumbers DEF Lost
    <3> QED BY <2>1, <3>1, ReadySpares DEF PRIO_MAXIMUM
  <2>6. EntriesOf(queue'[Sleep]) = EntriesOf(queue[Sleep]) \ {e}
    BY <1>1, <2>3, <2>5 DEF Lost
  <2> QED BY <1>0, <1>1, <1>2, <2>1, <2>4, <2>6 DEF Ahead
<1>7. CASE ~SysSleep /\ ~ClockTick /\ ~ClockWake
  <2>1. queue'[Sleep] = queue[Sleep] /\ time' = time
    BY <1>3, <1>7, ListStays, TimeStays, QueueNumbers
  <2>2. ASSUME mode = "wake", mode' # "wake", NEW e \in EntriesOf(queue[Sleep])
        PROVE  e.key > time
    <3>1. Due = {}
      BY <2>2, WakeEnds DEF ClockPreempt
    <3>2. PICK i \in DOMAIN queue[Sleep] : e = queue[Sleep][i]
      BY DEF EntriesOf
    <3> QED BY <1>1, <1>2, <3>1, <3>2 DEF Due, LeHits
  <2> QED BY <1>0, <1>1, <1>2, <2>1, <2>2 DEF Ahead
<1> QED BY <1>4, <1>5, <1>6, <1>7

\* Nobody sleeps at first.
LEMMA InitAhead == ASSUME Init PROVE Ahead
<1>1. queue[Sleep] = <<>> /\ time = 0
  BY QueueNumbers DEF Init, ProcInit, NoEntries
<1> QED BY <1>1, BufSizeAssumption DEF Ahead, EntriesOf

\* While the clock has not wrapped nor been set, the wake times in _sleep
\* are not in the past, and between ticks all are in the future, but for the
\* tick that one who sleeps for no time misses: the clock handler takes out
\* every sleeper that is due.
THEOREM SleepersAhead == ASSUME ClockRuns PROVE Spec => []Ahead
<1>1. Init => Ahead
  BY InitAhead
<1>2. IInv /\ Ahead /\ [Next]_vars => Ahead'
  BY AheadKept
<1> QED BY <1>1, <1>2, Invariance, PTL DEF Spec

\* Nobody sleeps past his time,
THEOREM NobodyOversleeps == ASSUME ClockRuns PROVE Spec => []NoOversleep
<1>1. ASSUME IInv, Ahead PROVE NoOversleep
  <2>1. ASSUME NEW e \in EntriesOf(queue[Sleep]) PROVE e.key \in Nat
    <3>1. PICK i \in DOMAIN queue[Sleep] : e = queue[Sleep][i]
      BY DEF EntriesOf
    <3>2. queue[Sleep] \in Seq([data : PCBs, key : Nat])
      BY <1>1, QueueNumbers DEF IInv, TypeOK
    <3>3. e \in [data : PCBs, key : Nat]
      BY <3>1, <3>2, ElementOfSeq, LenProperties
    <3> QED BY <3>3
  <2>2. time \in Nat /\ Delay \in {0, 1}
    BY <1>1, SizesAssumption DEF IInv, TypeOK, Delay
  <2> QED BY <1>1, <2>1, <2>2 DEF Ahead, NoOversleep
<1>2. IInv /\ Ahead => NoOversleep
  BY <1>1
<1> QED BY <1>2, Invariance, SleepersAhead, PTL

\* and nobody is woken at another time than the one he asked for, if that is
\* not the time at which he asks.
THEOREM SleepersWakeOnTime ==
  ASSUME ClockRuns, 0 \notin Ticks PROVE Spec => WakesOnTime
<1>1. ASSUME IInv, Ahead, [Next]_vars
      PROVE  [\A e \in EntriesOf(queue[Sleep]) :
                e \notin EntriesOf(queue'[Sleep]) => time = e.key]_vars
  <2>1. ASSUME NEW e \in EntriesOf(queue[Sleep]), e \notin EntriesOf(queue'[Sleep])
        PROVE  time = e.key
    <3>1. time \in e.key .. e.key + Delay /\ Delay = 0
      BY <1>1, <2>1, AheadKept DEF Delay
    <3>2. PICK i \in DOMAIN queue[Sleep] : e = queue[Sleep][i]
      BY <2>1 DEF EntriesOf
    <3>3. queue[Sleep] \in Seq([data : PCBs, key : Nat])
      BY <1>1, QueueNumbers DEF IInv, TypeOK
    <3>4. e \in [data : PCBs, key : Nat]
      BY <3>2, <3>3, ElementOfSeq, LenProperties
    <3> QED BY <3>1, <3>4
  <2> QED BY <2>1
<1>2. IInv /\ Ahead /\ [Next]_vars
      => [\A e \in EntriesOf(queue[Sleep]) :
            e \notin EntriesOf(queue'[Sleep]) => time = e.key]_vars
  BY <1>1
<1> QED BY <1>2, Invariance, SleepersAhead, PTL DEF Spec, WakesOnTime
=============================================================================
