---------------------------- MODULE KernelProofs ----------------------------
(***************************************************************************)
(* The inductive invariant of Kernel, for any number of PCBs, stacks and   *)
(* priorities and for every workload: first what the moves between queues  *)
(* that the handlers are made of do to it, then every handler, then what   *)
(* follows.                                                                *)
(***************************************************************************)
EXTENDS Kernel, KeyedQueueProofs

(***************************************************************************)
(* The inductive invariant.  Placed(tab, Q, off): the process table and    *)
(* the queues agree, and exactly the PCBs in off are on no queue.  Inside  *)
(* a handler it holds of the intermediate tables and queues as well.       *)
(***************************************************************************)
KeyedByPid == {Reading, Waiting, Zombies}

Fits(tab, n, e) ==
  /\ tab[e.data].state \in StatesOn(n)
  /\ n \in KeyedByPid => e.key = tab[e.data].pid
  /\ n # Avail => tab[e.data].stack # NULL

Placed(tab, Q, off) ==
  /\ tab \in [PCBs -> PCB]
  /\ Q \in Family(Queues, PCBs)
  /\ NoDuplicates(Q)
  /\ Contents(Q) = PCBs \ off
  /\ \A n \in Queues : \A e \in EntriesOf(Q[n]) : Fits(tab, n, e)

Running(tab, c) == tab[c].state \in {"RUNNING", "FREE"} /\ tab[c].stack # NULL

WellPlaced ==
  /\ mode \in {"user", "wake"} =>
       Placed(pcbs, queue, {current}) /\ Running(pcbs, current)
  /\ mode = "dispatch" => Placed(pcbs, queue, {})
  /\ mode = "panic" =>
       Placed(pcbs, queue, {current}) \/ Placed(pcbs, queue, {})

IInv == TypeOK /\ WellPlaced /\ OnlyWorkloadPanics

-----------------------------------------------------------------------------
\* The queue numbers are queue numbers, and different.
LEMMA QueueNumbers ==
  /\ NPriorities \in Nat \ {0}
  /\ ReadyQs \subseteq Queues
  /\ {Avail, Sleep, Reading, Waiting, Zombies} \subseteq Queues
  /\ {Avail, Sleep, Reading, Waiting, Zombies} \cap ReadyQs = {}
  /\ Avail # Sleep /\ Avail # Reading /\ Avail # Waiting /\ Avail # Zombies
  /\ Sleep # Reading /\ Sleep # Waiting /\ Sleep # Zombies
  /\ Reading # Waiting /\ Reading # Zombies /\ Waiting # Zombies
  /\ \A n \in Queues : n \in ReadyQs \/ n \in {Avail, Sleep, Reading, Waiting, Zombies}
BY SizesAssumption DEF ReadyQs, Queues, Avail, Sleep, Reading, Waiting, Zombies

\* The states per queue, without the case distinction.
LEMMA StatesOnIs ==
  /\ \A n \in ReadyQs : StatesOn(n) = {"READY", "KILLED"}
  /\ StatesOn(Avail) = {"FREE"}
  /\ StatesOn(Sleep) = {"SLEEPING", "KILLED"}
  /\ StatesOn(Reading) = {"RUNNING", "FREE", "KILLED"}
  /\ StatesOn(Waiting) = {"WAITING", "KILLED"}
  /\ StatesOn(Zombies) = {"ZOMBIE", "KILLED"}
<1>1. \A n \in ReadyQs : StatesOn(n) = {"READY", "KILLED"}
  BY QueueNumbers DEF StatesOn
<1>2. StatesOn(Avail) = {"FREE"}
  BY QueueNumbers DEF StatesOn
<1>3. StatesOn(Sleep) = {"SLEEPING", "KILLED"}
  BY QueueNumbers DEF StatesOn
<1>4. StatesOn(Reading) = {"RUNNING", "FREE", "KILLED"}
  BY QueueNumbers DEF StatesOn
<1>5. StatesOn(Waiting) = {"WAITING", "KILLED"}
  BY QueueNumbers DEF StatesOn
<1>6. StatesOn(Zombies) = {"ZOMBIE", "KILLED"}
  BY QueueNumbers DEF StatesOn
<1> QED BY <1>1, <1>2, <1>3, <1>4, <1>5, <1>6

\* Only the queue of waiting processes holds a WAITING one, and so on; a
\* killed process is on any queue but the free list.
LEMMA StateTells ==
  ASSUME NEW n \in Queues
  PROVE  /\ "WAITING" \in StatesOn(n) => n = Waiting
         /\ "ZOMBIE" \in StatesOn(n) => n = Zombies
         /\ n # Avail => "KILLED" \in StatesOn(n)
<1>1. n \in ReadyQs \/ n \in {Avail, Sleep, Reading, Waiting, Zombies}
  BY QueueNumbers
<1> QED BY <1>1, StatesOnIs

\* _schedule always picks a ready queue.
LEMMA ReadyForIsReady ==
  ASSUME NEW prio \in Nat
  PROVE  ReadyFor(prio) \in ReadyQs
BY SizesAssumption DEF ReadyFor, ReadyQs

-----------------------------------------------------------------------------
\* Taking an entry off a queue: its PCB is now off, the rest still agrees.
LEMMA TakeOff ==
  ASSUME NEW tab, NEW Q, NEW off \in SUBSET PCBs, Placed(tab, Q, off),
         NEW R, NEW n \in Queues, NEW e, Lost(Q, R, Queues, PCBs, n, e)
  PROVE  /\ e.data \in PCBs /\ e.data \notin off
         /\ Fits(tab, n, e)
         /\ Placed(tab, R, off \cup {e.data})
<1>1. e \in EntriesOf(Q[n]) /\ Fits(tab, n, e)
  BY DEF Lost, Placed
<1>2. e.data \in Contents(Q)
  BY <1>1 DEF Contents, DataOf, Placed, Family
<1>3. e.data \in PCBs /\ e.data \notin off
  BY <1>2 DEF Placed
<1>4. Contents(R) = PCBs \ (off \cup {e.data})
  BY DEF Lost, Placed
<1>5. \A m \in Queues : \A x \in EntriesOf(R[m]) : Fits(tab, m, x)
  BY DEF Lost, Placed
<1> QED BY <1>1, <1>3, <1>4, <1>5 DEF Placed, Lost

\* Putting p on queue n, with its record changed to fit there.
LEMMA PutOn ==
  ASSUME NEW tab, NEW Q, NEW off \in SUBSET PCBs, Placed(tab, Q, off),
         NEW p \in off, NEW n \in Queues, NEW k \in Nat,
         NEW new \in [PCBs -> PCB], \A q \in PCBs \ {p} : new[q] = tab[q],
         Fits(new, n, Entry(p, k)),
         NEW R, Gained(Q, R, Queues, PCBs, n, Entry(p, k))
  PROVE  Placed(new, R, off \ {p})
<1>1. Entry(p, k).data = p
  BY DEF Entry
<1>2. Contents(R) = PCBs \ (off \ {p})
  BY <1>1 DEF Gained, Placed
<1>3. ASSUME NEW m \in Queues, NEW x \in EntriesOf(R[m])
      PROVE  Fits(new, m, x)
  <2>1. CASE x \in EntriesOf(Q[m])
    <3>1. x.data \in Contents(Q)
      BY <2>1 DEF Contents, DataOf, Placed, Family
    <3>2. x.data \in PCBs \ {p}
      BY <3>1 DEF Placed
    <3>3. Fits(tab, m, x)
      BY <2>1 DEF Placed
    <3> QED BY <3>2, <3>3 DEF Fits
  <2>2. CASE m = n /\ x = Entry(p, k)
    BY <2>2
  <2> QED BY <2>1, <2>2 DEF Gained
<1> QED BY <1>2, <1>3 DEF Placed, Gained

\* Changing records without moving anything: fields other than state, pid
\* and stack, the state of a PCB in off, or the state of a live one to KILLED.
LEMMA Alter ==
  ASSUME NEW tab, NEW Q, NEW off \in SUBSET PCBs, Placed(tab, Q, off),
         NEW new \in [PCBs -> PCB],
         \A q \in PCBs \ off :
           /\ new[q].pid = tab[q].pid /\ new[q].stack = tab[q].stack
           /\ \/ new[q].state = tab[q].state
              \/ new[q].state = "KILLED" /\ tab[q].state # "FREE"
              \/ new[q].state = "KILLED" /\ q \notin DataOf(Q[Avail])
  PROVE  Placed(new, Q, off)
<1>1. ASSUME NEW m \in Queues, NEW x \in EntriesOf(Q[m])
      PROVE  Fits(new, m, x)
  <2>1. Fits(tab, m, x)
    BY DEF Placed
  <2>2. x.data \in DataOf(Q[m]) /\ x.data \in Contents(Q)
    BY DEF Contents, DataOf, Placed, Family
  <2>3. x.data \in PCBs \ off
    BY <2>2 DEF Placed
  <2>4. new[x.data].state \in StatesOn(m)
    <3>1. CASE m = Avail
      BY <2>1, <2>2, <2>3, <3>1, StatesOnIs DEF Fits
    <3>2. CASE m # Avail
      BY <2>1, <2>3, <3>2, StateTells DEF Fits
    <3> QED BY <3>1, <3>2
  <2> QED BY <2>1, <2>3, <2>4 DEF Fits
<1> QED BY <1>1 DEF Placed

-----------------------------------------------------------------------------
(***************************************************************************)
(* The moves the kernel makes.                                             *)
(***************************************************************************)

\* _schedule of a PCB that is off the queues.
LEMMA ScheduleMoves ==
  ASSUME NEW tab, NEW Q, NEW off \in SUBSET PCBs, Placed(tab, Q, off),
         NEW p \in off, NEW prio \in Nat,
         NEW new \in [PCBs -> PCB], \A q \in PCBs \ {p} : new[q] = tab[q],
         new[p].state = "READY", new[p].stack # NULL
  PROVE  Placed(new, Ready(Q, p, prio), off \ {p})
<1> DEFINE n == ReadyFor(prio)
           R == Ready(Q, p, prio)
<1>1. n \in ReadyQs /\ n \in Queues /\ n \notin KeyedByPid
  BY ReadyForIsReady, QueueNumbers DEF KeyedByPid
<1>2. p \in PCBs /\ p \notin Contents(Q)
  BY DEF Placed
<1>3. R = [Q EXCEPT ![n] = QAppend(@, p, 0)]
  BY DEF Ready
<1>4. Fits(new, n, Entry(p, 0))
  BY <1>1, StatesOnIs DEF Fits, Entry
<1> HIDE DEF n, R
<1>5. Q \in Family(Queues, PCBs) /\ NoDuplicates(Q) /\ 0 \in Nat
  BY DEF Placed
<1>6. Gained(Q, R, Queues, PCBs, n, Entry(p, 0))
  BY <1>1, <1>2, <1>3, <1>5, FamilyAppend, Zenon
<1>7. Placed(new, R, off \ {p})
  BY <1>1, <1>4, <1>5, <1>6, PutOn, Zenon
<1> QED BY <1>7 DEF R

\* _q_insert of a PCB that is off the queues.
LEMMA InsertMoves ==
  ASSUME NEW tab, NEW Q, NEW off \in SUBSET PCBs, Placed(tab, Q, off),
         NEW p \in off, NEW n \in Queues, NEW k \in Nat,
         NEW new \in [PCBs -> PCB], \A q \in PCBs \ {p} : new[q] = tab[q],
         Fits(new, n, Entry(p, k))
  PROVE  Placed(new, [Q EXCEPT ![n] = QInsert(@, p, k)], off \ {p})
<1> DEFINE R == [Q EXCEPT ![n] = QInsert(@, p, k)]
<1>1. p \in PCBs /\ p \notin Contents(Q)
  BY DEF Placed
<1>2. Q \in Family(Queues, PCBs) /\ NoDuplicates(Q)
  BY DEF Placed
<1>3. R = [Q EXCEPT ![n] = QInsert(@, p, k)]
  OBVIOUS
<1> HIDE DEF R
<1>4. Gained(Q, R, Queues, PCBs, n, Entry(p, k))
  BY <1>1, <1>2, <1>3, FamilyInsert, Zenon
<1>5. Placed(new, R, off \ {p})
  BY <1>4, PutOn, Zenon
<1> QED BY <1>5 DEF R

\* _pcb_free of a PCB that is off the queues.
LEMMA FreeMoves ==
  ASSUME NEW tab, NEW Q, NEW off \in SUBSET PCBs, Placed(tab, Q, off),
         NEW p \in off,
         NEW new \in [PCBs -> PCB], \A q \in PCBs \ {p} : new[q] = tab[q],
         new[p] = ClearPcb
  PROVE  Placed(new, FreePcb(Q, p), off \ {p})
<1> DEFINE R == FreePcb(Q, p)
<1>1. p \in PCBs /\ p \notin Contents(Q) /\ Avail \in Queues /\ Avail \notin KeyedByPid
  BY QueueNumbers DEF Placed, KeyedByPid
<1>2. Q \in Family(Queues, PCBs) /\ NoDuplicates(Q) /\ 0 \in Nat
  BY DEF Placed
<1>3. R = [Q EXCEPT ![Avail] = QAppend(@, p, 0)]
  BY DEF FreePcb
<1>4. Fits(new, Avail, Entry(p, 0))
  BY <1>1, StatesOnIs DEF Fits, Entry, ClearPcb
<1> HIDE DEF R
<1>5. Gained(Q, R, Queues, PCBs, Avail, Entry(p, 0))
  BY <1>1, <1>2, <1>3, FamilyAppend, Zenon
<1>6. Placed(new, R, off \ {p})
  BY <1>1, <1>2, <1>4, <1>5, PutOn, Zenon
<1> QED BY <1>6 DEF R

\* _q_remove: the head of a queue.
LEMMA HeadMoves ==
  ASSUME NEW tab, NEW Q, NEW off \in SUBSET PCBs, Placed(tab, Q, off),
         NEW n \in Queues, Q[n] # <<>>
  PROVE  LET e == Q[n][1]
         IN  /\ e.data \in PCBs /\ e.data \notin off
             /\ e \in EntriesOf(Q[n])
             /\ Fits(tab, n, e)
             /\ Placed(tab, [Q EXCEPT ![n] = RemoveAt(@, 1)], off \cup {e.data})
<1> DEFINE R == [Q EXCEPT ![n] = RemoveAt(@, 1)]
           e == Q[n][1]
<1>1. Q \in Family(Queues, PCBs) /\ NoDuplicates(Q)
  BY DEF Placed
<1>2. 1 \in DOMAIN Q[n]
  <2>1. Q[n] \in Seq([data : PCBs, key : Nat])
    BY <1>1 DEF Family
  <2> QED BY <2>1, EmptySeq, LenProperties
<1>3. R = [Q EXCEPT ![n] = RemoveAt(@, 1)]
  OBVIOUS
<1> HIDE DEF R
<1>4. Lost(Q, R, Queues, PCBs, n, Q[n][1])
  BY <1>1, <1>2, <1>3, FamilyRemove, Zenon
<1>5. /\ e.data \in PCBs /\ e.data \notin off
      /\ Fits(tab, n, e)
      /\ Placed(tab, R, off \cup {e.data})
  BY <1>4, TakeOff, Zenon
<1>6. e \in EntriesOf(Q[n])
  BY <1>4 DEF Lost
<1> QED BY <1>5, <1>6 DEF R

\* _q_remove_by_key that finds something.
LEMMA HitMoves ==
  ASSUME NEW tab, NEW Q, NEW off \in SUBSET PCBs, Placed(tab, Q, off),
         NEW n \in Queues, NEW hits, hits \subseteq DOMAIN Q[n], hits # {}
  PROVE  LET e == Q[n][Min(hits)]
         IN  /\ Min(hits) \in hits
             /\ e.data \in PCBs /\ e.data \notin off
             /\ Fits(tab, n, e)
             /\ Placed(tab, [Q EXCEPT ![n] = QRemoveFirst(@, hits)],
                       off \cup {e.data})
<1> DEFINE R == [Q EXCEPT ![n] = QRemoveFirst(@, hits)]
           e == Q[n][Min(hits)]
<1>1. Q \in Family(Queues, PCBs) /\ NoDuplicates(Q)
  BY DEF Placed
<1>2. R = [Q EXCEPT ![n] = QRemoveFirst(@, hits)]
  OBVIOUS
<1> HIDE DEF R
<1>3. Min(hits) \in hits /\ Lost(Q, R, Queues, PCBs, n, Q[n][Min(hits)])
  BY <1>1, <1>2, FamilyRemoveFirst, Zenon
<1>4. /\ e.data \in PCBs /\ e.data \notin off
      /\ Fits(tab, n, e)
      /\ Placed(tab, R, off \cup {e.data})
  BY <1>3, TakeOff, Zenon
<1> QED BY <1>3, <1>4 DEF R

\* A PCB in state WAITING (ZOMBIE) that is not off the queues is on _waiting
\* (_zombie), under its pid: _q_remove_by_key with that pid finds an entry.
LEMMA WaiterIsQueued ==
  ASSUME NEW tab, NEW Q, NEW off \in SUBSET PCBs, Placed(tab, Q, off),
         NEW p \in PCBs \ off, NEW n \in {Waiting, Zombies},
         tab[p].state = IF n = Waiting THEN "WAITING" ELSE "ZOMBIE"
  PROVE  /\ EqHits(Q[n], tab[p].pid) # {}
         /\ EqHits(Q[n], tab[p].pid) \subseteq DOMAIN Q[n]
<1>1. PICK m \in Queues : p \in DataOf(Q[m])
  BY DEF Placed, Contents, Family
<1>2. PICK e \in EntriesOf(Q[m]) : e.data = p
  BY <1>1 DEF DataOf
<1>3. Fits(tab, m, e)
  BY <1>2 DEF Placed
<1>4. m = n
  BY <1>2, <1>3, StateTells, QueueNumbers DEF Fits
<1>5. e.key = tab[p].pid
  BY <1>2, <1>3, <1>4 DEF Fits, KeyedByPid
<1>6. PICK i \in DOMAIN Q[n] : Q[n][i] = e
  BY <1>2, <1>4 DEF EntriesOf
<1> QED BY <1>5, <1>6 DEF EqHits

\* What _pcb_find returns is a PCB with that pid that is not FREE.
LEMMA FoundIsLive ==
  ASSUME NEW tab, NEW pid, PcbFind(tab, pid) # {}
  PROVE  /\ Min(PcbFind(tab, pid)) \in PCBs
         /\ tab[Min(PcbFind(tab, pid))].state # "FREE"
         /\ tab[Min(PcbFind(tab, pid))].pid = pid
<1>1. PcbFind(tab, pid) \subseteq Nat
  BY SizesAssumption DEF PcbFind, PCBs
<1>2. Min(PcbFind(tab, pid)) \in PcbFind(tab, pid)
  BY <1>1, MinIsLeast
<1> QED BY <1>2 DEF PcbFind

-----------------------------------------------------------------------------
(***************************************************************************)
(* _zombify, for a process that is off the queues: whatever the parent     *)
(* does, the invariant holds when it is done.                              *)
(***************************************************************************)

\* A cleared PCB is a PCB.
LEMMA ClearPcbIsPcb == ClearPcb \in PCB
BY SizesAssumption DEF ClearPcb, PCB, States, Pids, NoArg, NULL

\* So is one with its state set, or its state and the pid it waits for.
LEMMA StateIsPcb ==
  ASSUME NEW r \in PCB, NEW s \in States
  PROVE  [r EXCEPT !.state = s] \in PCB
BY DEF PCB

\* And one that is made ready.
LEMMA ReadiedIsPcb ==
  ASSUME NEW r \in PCB
  PROVE  [r EXCEPT !.state = "READY", !.want = 0] \in PCB
<1>1. "READY" \in States /\ 0 \in Pids
  BY SizesAssumption DEF States, Pids
<1> QED BY <1>1 DEF PCB

\* The parts of IInv: the types of the tables come with WellPlaced.
Scalars ==
  /\ current \in PCBs
  /\ nextPid \in Pids
  /\ freeStacks \in Seq(Stacks)
  /\ mode \in {"user", "wake", "dispatch", "panic"}
  /\ time \in 0 .. TimeMod - 1
  /\ input \in 0 .. BufSize
  /\ report.to \in PCBs \cup {-1}

\* The parts give the whole.
LEMMA PartsOfIInv ==
  ASSUME Scalars', WellPlaced', OnlyWorkloadPanics'
  PROVE  IInv'
<1>1. pcbs' \in [PCBs -> PCB] /\ queue' \in Family(Queues, PCBs)
  BY DEF Scalars, WellPlaced, Placed
<1>2. panic' \in Reasons
  BY DEF OnlyWorkloadPanics, Reasons
<1>3. TypeOK'
  BY <1>1, <1>2 DEF Scalars, TypeOK, Family
<1> QED BY <1>3 DEF IInv

\* A zombie given to its waiting parent: the parent moves from _waiting to a
\* ready queue, the PCB to _pcb_queue.
LEMMA GiveKeeps ==
  ASSUME NEW c \in PCBs, NEW parent \in PCBs, NEW tab, NEW qs,
         Placed(tab, qs, {c}), tab[c].stack # NULL, parent # c,
         tab[parent].state = "WAITING",
         freeStacks \in Seq(Stacks), GiveToParent(c, parent, tab, qs)
  PROVE  /\ Placed(pcbs', queue', {}) /\ mode' = "dispatch"
         /\ UNCHANGED panic
         /\ freeStacks' \in Seq(Stacks) /\ report'.to \in PCBs
<1> DEFINE hits  == EqHits(qs[Waiting], tab[parent].pid)
           e     == qs[Waiting][Min(hits)]
           woken == e.data
           left  == [qs EXCEPT ![Waiting] = QRemoveFirst(@, hits)]
           mid   == [tab EXCEPT ![c] = ClearPcb]
           new   == [p \in PCBs |->
                       IF p = woken THEN [tab[p] EXCEPT !.state = "READY",
                                                        !.want = 0]
                       ELSE IF p = c THEN ClearPcb ELSE tab[p]]
<1>1. Waiting \in Queues /\ Waiting # Avail
  BY QueueNumbers
<1>2. hits # {} /\ hits \subseteq DOMAIN qs[Waiting]
  BY WaiterIsQueued
<1>3. /\ woken \in PCBs /\ woken \notin {c}
      /\ Fits(tab, Waiting, e)
      /\ Placed(tab, left, {c} \cup {woken})
  <2>1. {c} \in SUBSET PCBs
    OBVIOUS
  <2> HIDE DEF hits
  <2> QED BY <1>1, <1>2, <2>1, HitMoves, Zenon
<1>4. tab[woken].stack # NULL
  BY <1>1, <1>3 DEF Fits
<1>5. /\ report' = Report(parent, tab[c].pid, tab[c].arg, TRUE)
      /\ freeStacks' = FreeStack(tab[c].stack)
      /\ queue' = Ready(FreePcb(left, c), woken, PRIO_MAXIMUM)
      /\ pcbs' = new
      /\ mode' = "dispatch" /\ UNCHANGED panic
  BY <1>2 DEF GiveToParent
<1>6. tab \in [PCBs -> PCB]
  BY DEF Placed
<1>7. mid \in [PCBs -> PCB] /\ new \in [PCBs -> PCB]
  <2>1. mid \in [PCBs -> PCB]
    BY <1>6, ClearPcbIsPcb
  <2>2. ASSUME NEW p \in PCBs
        PROVE  [tab[p] EXCEPT !.state = "READY", !.want = 0] \in PCB
    BY <1>6, ReadiedIsPcb
  <2> HIDE DEF woken
  <2>3. new \in [PCBs -> PCB]
    BY <1>6, <2>2, ClearPcbIsPcb
  <2> QED BY <2>1, <2>3
<1>8. /\ \A q \in PCBs \ {c} : mid[q] = tab[q]
      /\ mid[c] = ClearPcb
  BY <1>6
<1>9. /\ \A q \in PCBs \ {woken} : new[q] = mid[q]
      /\ new[woken].state = "READY" /\ new[woken].stack # NULL
  <2> HIDE DEF woken
  <2>1. ASSUME NEW q \in PCBs \ {woken} PROVE new[q] = mid[q]
    BY <1>6
  <2>2. new[woken] = [tab[woken] EXCEPT !.state = "READY", !.want = 0]
    BY <1>3
  <2>3. new[woken].state = "READY" /\ new[woken].stack # NULL
    BY <1>3, <1>4, <1>6, <2>2 DEF PCB
  <2> QED BY <2>1, <2>3
<1> HIDE DEF hits, woken, left, mid, new, e
<1>10. Placed(mid, FreePcb(left, c), ({c} \cup {woken}) \ {c})
  BY <1>3, <1>7, <1>8, FreeMoves
<1>11. ({c} \cup {woken}) \ {c} = {woken}
  BY <1>3
<1>12. Placed(new, Ready(FreePcb(left, c), woken, PRIO_MAXIMUM), {woken} \ {woken})
  <2>1. PRIO_MAXIMUM \in Nat
    BY DEF PRIO_MAXIMUM
  <2> QED BY <1>3, <1>7, <1>9, <1>10, <1>11, <2>1, ScheduleMoves
<1>13. Placed(pcbs', queue', {})
  <2>1. {woken} \ {woken} = {}
    OBVIOUS
  <2> QED BY <1>5, <1>12, <2>1
<1>14. freeStacks' \in Seq(Stacks)
  <2>1. tab[c].stack \in Stacks
    BY <1>6 DEF PCB, NULL
  <2> QED BY <1>5, <2>1, AppendProperties DEF FreeStack
<1>15. report'.to = parent
  BY <1>5 DEF Report
<1> QED BY <1>5, <1>13, <1>14, <1>15

\* _zombify keeps every PCB in one place, in each of its outcomes.
LEMMA ZombifyKeeps ==
  ASSUME TypeOK, OnlyWorkloadPanics, NEW c \in PCBs, current' = c,
         NEW tab, NEW qs, Placed(tab, qs, {c}),
         tab[c].stack # NULL, tab[c].state # "WAITING",
         Zombify(c, tab, qs), UNCHANGED <<nextPid, time, input>>
  PROVE  IInv'
<1> DEFINE found  == PcbFind(tab, tab[c].ppid)
           parent == Min(found)
<1>1. SUFFICES /\ mode' \in {"dispatch", "panic"}
               /\ mode' = "dispatch" => Placed(pcbs', queue', {})
               /\ mode' = "panic" => Placed(pcbs', queue', {current'})
               /\ OnlyWorkloadPanics'
               /\ freeStacks' \in Seq(Stacks)
               /\ report'.to \in PCBs \cup {-1}
  <2> SUFFICES ASSUME mode' \in {"dispatch", "panic"},
                      mode' = "dispatch" => Placed(pcbs', queue', {}),
                      mode' = "panic" => Placed(pcbs', queue', {current'}),
                      OnlyWorkloadPanics',
                      freeStacks' \in Seq(Stacks),
                      report'.to \in PCBs \cup {-1}
               PROVE  IInv'
    OBVIOUS
  <2>1. Scalars'
    BY DEF Scalars, TypeOK
  <2>2. WellPlaced'
    BY DEF WellPlaced
  <2> QED BY <2>1, <2>2, PartsOfIInv
<1>2. freeStacks \in Seq(Stacks) /\ NoReport.to \in PCBs \cup {-1}
  BY DEF TypeOK, NoReport
<1>3. CASE found = {}
  BY <1>2, <1>3 DEF Zombify, Panic, OnlyWorkloadPanics
<1>4. CASE found # {} /\ GiveToParent(c, parent, tab, qs)
              /\ tab[parent].state = "WAITING"
  <2>1. parent \in PCBs /\ parent # c
    BY <1>4, FoundIsLive
  <2>2. /\ Placed(pcbs', queue', {}) /\ mode' = "dispatch"
        /\ UNCHANGED panic
        /\ freeStacks' \in Seq(Stacks) /\ report'.to \in PCBs
    BY <1>2, <1>4, <2>1, GiveKeeps
  <2> QED BY <2>2 DEF OnlyWorkloadPanics
<1>5. CASE found # {} /\ LeaveZombie(c, tab, qs)
  <2> DEFINE new == [tab EXCEPT ![c].state = "ZOMBIE"]
  <2>1. /\ tab \in [PCBs -> PCB] /\ tab[c].pid \in Nat
        /\ new \in [PCBs -> PCB] /\ \A q \in PCBs \ {c} : new[q] = tab[q]
        /\ new[c].state = "ZOMBIE" /\ new[c].pid = tab[c].pid
        /\ new[c].stack = tab[c].stack
    BY SizesAssumption DEF Placed, PCB, States, Pids
  <2>2. Fits(new, Zombies, Entry(c, tab[c].pid))
    BY <2>1, StatesOnIs DEF Fits, Entry
  <2>3. Zombies \in Queues /\ {c} \ {c} = {}
    BY QueueNumbers
  <2> HIDE DEF new
  <2>4. Placed(new, [qs EXCEPT ![Zombies] = QInsert(@, c, tab[c].pid)], {c} \ {c})
    BY <2>1, <2>2, <2>3, InsertMoves
  <2>5. /\ pcbs' = new
        /\ queue' = [qs EXCEPT ![Zombies] = QInsert(@, c, tab[c].pid)]
        /\ mode' = "dispatch" /\ report' = NoReport
        /\ UNCHANGED <<freeStacks, panic>>
    BY <1>5 DEF LeaveZombie, new
  <2> QED BY <1>2, <2>3, <2>4, <2>5 DEF OnlyWorkloadPanics
<1> QED BY <1>3, <1>4, <1>5 DEF Zombify, Wanted

-----------------------------------------------------------------------------
(***************************************************************************)
(* The handlers.                                                           *)
(***************************************************************************)

\* While user code runs, the current process is off the queues, alone.
LEMMA UserPlaced ==
  ASSUME IInv, mode \in {"user", "wake"}
  PROVE  /\ Placed(pcbs, queue, {current}) /\ Running(pcbs, current)
         /\ current \in PCBs /\ {current} \in SUBSET PCBs
         /\ pcbs \in [PCBs -> PCB] /\ pcbs[current] \in PCB
         /\ pcbs[current].prio \in Nat /\ pcbs[current].pid \in Pids
         /\ {current} \ {current} = {}
<1>1. /\ Placed(pcbs, queue, {current}) /\ Running(pcbs, current)
      /\ current \in PCBs /\ pcbs \in [PCBs -> PCB]
  BY DEF IInv, WellPlaced, TypeOK
<1> QED BY <1>1 DEF PCB

\* A step that changes no more than the record of the current process and
\* goes back to user mode.
LEMMA RecordKeeps ==
  ASSUME IInv, mode = "user", mode' = "user",
         pcbs' \in [PCBs -> PCB],
         \A q \in PCBs \ {current} : pcbs'[q] = pcbs[q],
         Running(pcbs', current),
         time' \in 0 .. TimeMod - 1, input' \in 0 .. BufSize,
         report'.to \in PCBs \cup {-1},
         UNCHANGED <<current, nextPid, queue, freeStacks, panic>>
  PROVE  IInv'
<1>1. Placed(pcbs', queue, {current})
  BY UserPlaced, Alter
<1>2. WellPlaced' /\ Scalars' /\ OnlyWorkloadPanics'
  BY <1>1 DEF WellPlaced, Scalars, OnlyWorkloadPanics, IInv, TypeOK
<1> QED BY <1>2, PartsOfIInv

\* A step that leaves the current process on a queue and goes to _dispatch.
LEMMA LeaveKeeps ==
  ASSUME IInv, mode \in {"user", "wake"}, mode' = "dispatch",
         Placed(pcbs', queue', {}), report' = NoReport,
         UNCHANGED <<current, nextPid, freeStacks, panic, time, input>>
  PROVE  IInv'
<1>1. WellPlaced' /\ OnlyWorkloadPanics'
  BY DEF WellPlaced, OnlyWorkloadPanics, IInv
<1>2. Scalars'
  BY DEF Scalars, IInv, TypeOK, NoReport
<1> QED BY <1>1, <1>2, PartsOfIInv

\* A step that wakes nobody reports to nobody.
LEMMA NoReportTo == NoReport.to \in PCBs \cup {-1}
BY DEF NoReport

-----------------------------------------------------------------------------
\* System calls that change one field of the caller or a clock: no PCB moves.
LEMMA SetprioKeeps == ASSUME IInv, SysSetprio PROVE IInv'
<1>1. PICK prio \in Prios :
        /\ mode = "user"
        /\ pcbs' = [pcbs EXCEPT ![current].prio = prio]
        /\ report' = NoReport
        /\ UNCHANGED <<current, nextPid, queue, freeStacks, mode, panic, time, input>>
  BY DEF SysSetprio, Call
<1>2. prio \in Nat
  BY InputsAssumption
<1>3. pcbs \in [PCBs -> PCB] /\ current \in PCBs /\ Running(pcbs, current)
  BY <1>1, UserPlaced
<1>4. /\ pcbs' \in [PCBs -> PCB]
      /\ \A q \in PCBs \ {current} : pcbs'[q] = pcbs[q]
  BY <1>1, <1>2, <1>3 DEF PCB
<1>5. Running(pcbs', current)
  BY <1>1, <1>3 DEF Running, PCB
<1>6. time' \in 0 .. TimeMod - 1 /\ input' \in 0 .. BufSize
  BY <1>1 DEF IInv, TypeOK
<1> QED BY <1>1, <1>4, <1>5, <1>6, RecordKeeps, NoReportTo

\* The same of set_time.
LEMMA SettimeKeeps == ASSUME IInv, SysSettime PROVE IInv'
<1>1. /\ mode = "user" /\ time' \in 0 .. TimeMod - 1
      /\ report' = NoReport
      /\ UNCHANGED <<pcbs, current, nextPid, queue, freeStacks, mode, panic, input>>
  BY TimesAssumption DEF SysSettime, Call
<1>2. pcbs' \in [PCBs -> PCB] /\ Running(pcbs', current) /\ input' \in 0 .. BufSize
  BY <1>1, UserPlaced DEF IInv, TypeOK
<1> QED BY <1>1, <1>2, RecordKeeps, NoReportTo

\* The same of a read that finds a character.
LEMMA ReadcNowKeeps == ASSUME IInv, SysReadcNow PROVE IInv'
<1>1. /\ mode = "user" /\ input > 0 /\ input' = input - 1
      /\ report' = NoReport
      /\ UNCHANGED <<pcbs, current, nextPid, queue, freeStacks, mode, panic, time>>
  BY DEF SysReadcNow, Call
<1>2. input' \in 0 .. BufSize /\ time' \in 0 .. TimeMod - 1
  BY <1>1, BufSizeAssumption DEF IInv, TypeOK
<1>3. pcbs' \in [PCBs -> PCB] /\ Running(pcbs', current)
  BY <1>1, UserPlaced
<1> QED BY <1>1, <1>2, <1>3, RecordKeeps, NoReportTo

\* The same of a character that arrives and wakes nobody.
LEMMA SioBufferKeeps == ASSUME IInv, SioBuffer PROVE IInv'
<1>1. /\ mode = "user" /\ input < BufSize /\ input' = input + 1
      /\ report' = NoReport
      /\ UNCHANGED <<pcbs, current, nextPid, queue, freeStacks, mode, panic, time>>
  BY DEF SioBuffer
<1>2. input' \in 0 .. BufSize /\ time' \in 0 .. TimeMod - 1
  BY <1>1, BufSizeAssumption DEF IInv, TypeOK
<1>3. pcbs' \in [PCBs -> PCB] /\ Running(pcbs', current)
  BY <1>1, UserPlaced
<1> QED BY <1>1, <1>2, <1>3, RecordKeeps, NoReportTo

\* The same of a wait for a pid nobody has.
LEMMA WaitNotFoundKeeps == ASSUME IInv, SysWaitNotFound PROVE IInv'
<1>1. /\ mode = "user"
      /\ report'.to = current
      /\ UNCHANGED <<pcbs, current, nextPid, queue, freeStacks, mode, panic, time, input>>
  BY DEF SysWaitNotFound, Call, Report
<1>2. /\ pcbs' \in [PCBs -> PCB] /\ Running(pcbs', current)
      /\ input' \in 0 .. BufSize /\ time' \in 0 .. TimeMod - 1 /\ current \in PCBs
  BY <1>1, UserPlaced DEF IInv, TypeOK
<1> QED BY <1>1, <1>2, RecordKeeps

\* The caller moves to _sleep.
LEMMA SleepKeeps == ASSUME IInv, SysSleep PROVE IInv'
<1>1. PICK ticks \in Ticks :
        /\ mode = "user"
        /\ pcbs' = [pcbs EXCEPT ![current].state = "SLEEPING"]
        /\ queue' = [queue EXCEPT
                       ![Sleep] = QInsert(@, current, (time + ticks) % TimeMod)]
        /\ mode' = "dispatch"
        /\ report' = NoReport
        /\ UNCHANGED <<current, nextPid, freeStacks, panic, time, input>>
  BY DEF SysSleep, Call
<1> DEFINE k == (time + ticks) % TimeMod
<1>2. k \in Nat
  BY TimesAssumption, SizesAssumption DEF IInv, TypeOK
<1>3. Placed(pcbs, queue, {current}) /\ {current} \in SUBSET PCBs
  BY <1>1, UserPlaced
<1>4. /\ pcbs' \in [PCBs -> PCB]
      /\ \A q \in PCBs \ {current} : pcbs'[q] = pcbs[q]
      /\ pcbs'[current].state = "SLEEPING" /\ pcbs'[current].stack # NULL
  BY <1>1, UserPlaced DEF Running, PCB, States
<1>5. Fits(pcbs', Sleep, Entry(current, k))
  BY <1>4, QueueNumbers, StatesOnIs DEF Fits, Entry, KeyedByPid
<1>6. Sleep \in Queues /\ current \in {current}
  BY QueueNumbers
<1> HIDE DEF k
<1>7. Placed(pcbs', [queue EXCEPT ![Sleep] = QInsert(@, current, k)],
             {current} \ {current})
  BY <1>2, <1>3, <1>4, <1>5, <1>6, InsertMoves, Zenon
<1>8. Placed(pcbs', queue', {})
  BY <1>1, <1>7, UserPlaced DEF k
<1> QED BY <1>1, <1>8, LeaveKeeps

\* The caller moves to _reading.
LEMMA ReadcBlockKeeps == ASSUME IInv, SysReadcBlock PROVE IInv'
<1> DEFINE k == Me.pid
<1>1. /\ mode = "user"
      /\ pcbs' = [pcbs EXCEPT ![current].status = BLOCKED]
      /\ queue' = [queue EXCEPT ![Reading] = QInsert(@, current, k)]
      /\ mode' = "dispatch"
      /\ report' = NoReport
      /\ UNCHANGED <<current, nextPid, freeStacks, panic, time, input>>
  BY DEF SysReadcBlock, Call
<1>2. k \in Nat /\ k = pcbs[current].pid
  BY <1>1, UserPlaced, SizesAssumption DEF Pids, Me
<1>3. Placed(pcbs, queue, {current}) /\ {current} \in SUBSET PCBs
  BY <1>1, UserPlaced
<1>4. /\ pcbs' \in [PCBs -> PCB]
      /\ \A q \in PCBs \ {current} : pcbs'[q] = pcbs[q]
      /\ pcbs'[current].state \in {"RUNNING", "FREE"}
      /\ pcbs'[current].stack # NULL
      /\ pcbs'[current].pid = pcbs[current].pid
  BY <1>1, UserPlaced DEF Running, PCB, BLOCKED
<1>5. Fits(pcbs', Reading, Entry(current, k))
  BY <1>2, <1>4, QueueNumbers, StatesOnIs DEF Fits, Entry
<1>6. Reading \in Queues /\ current \in {current}
  BY QueueNumbers
<1> HIDE DEF k
<1>7. Placed(pcbs', [queue EXCEPT ![Reading] = QInsert(@, current, k)],
             {current} \ {current})
  BY <1>2, <1>3, <1>4, <1>5, <1>6, InsertMoves, Zenon
<1>8. Placed(pcbs', queue', {})
  BY <1>1, <1>7, UserPlaced
<1> QED BY <1>1, <1>8, LeaveKeeps

\* The caller moves to _waiting.
LEMMA WaitBlockKeeps == ASSUME IInv, SysWaitBlock PROVE IInv'
<1> DEFINE k == Me.pid
<1>1. PICK pid \in 0 .. MaxPid :
      /\ mode = "user"
      /\ pcbs' = [pcbs EXCEPT ![current].state = "WAITING", ![current].want = pid]
      /\ queue' = [queue EXCEPT ![Waiting] = QInsert(@, current, k)]
      /\ mode' = "dispatch"
      /\ report' = NoReport
      /\ UNCHANGED <<current, nextPid, freeStacks, panic, time, input>>
  BY DEF SysWaitBlock, Call
<1>2. k \in Nat /\ k = pcbs[current].pid
  BY <1>1, UserPlaced, SizesAssumption DEF Pids, Me
<1>3. Placed(pcbs, queue, {current}) /\ {current} \in SUBSET PCBs
  BY <1>1, UserPlaced
<1>4. /\ pcbs' \in [PCBs -> PCB]
      /\ \A q \in PCBs \ {current} : pcbs'[q] = pcbs[q]
      /\ pcbs'[current].state = "WAITING"
      /\ pcbs'[current].stack # NULL
      /\ pcbs'[current].pid = pcbs[current].pid
  <2>1. pid \in Pids
    BY SizesAssumption DEF Pids
  <2> QED BY <1>1, <2>1, UserPlaced DEF Running, PCB, States
<1>5. Fits(pcbs', Waiting, Entry(current, k))
  BY <1>2, <1>4, QueueNumbers, StatesOnIs DEF Fits, Entry
<1>6. Waiting \in Queues /\ current \in {current}
  BY QueueNumbers
<1> HIDE DEF k
<1>7. Placed(pcbs', [queue EXCEPT ![Waiting] = QInsert(@, current, k)],
             {current} \ {current})
  BY <1>2, <1>3, <1>4, <1>5, <1>6, InsertMoves, Zenon
<1>8. Placed(pcbs', queue', {})
  BY <1>1, <1>7, UserPlaced
<1> QED BY <1>1, <1>8, LeaveKeeps

\* The caller moves to its ready queue.
LEMMA ExecKeeps == ASSUME IInv, SysExec PROVE IInv'
<1>1. PICK prio \in Prios :
      /\ mode = "user"
      /\ pcbs' = MarkReady([pcbs EXCEPT ![current].prio = prio], current)
      /\ queue' = Ready(queue, current, prio)
      /\ mode' = "dispatch"
      /\ report' = NoReport
      /\ UNCHANGED <<current, nextPid, freeStacks, panic, time, input>>
  BY DEF SysExec, Call
<1>2. prio \in Nat
  BY InputsAssumption
<1>3. Placed(pcbs, queue, {current}) /\ {current} \in SUBSET PCBs /\ current \in {current}
  BY <1>1, UserPlaced
<1>4. /\ pcbs' \in [PCBs -> PCB]
      /\ \A q \in PCBs \ {current} : pcbs'[q] = pcbs[q]
      /\ pcbs'[current].state = "READY" /\ pcbs'[current].stack # NULL
  BY <1>1, <1>2, UserPlaced DEF Running, PCB, States, MarkReady
<1>5. Placed(pcbs', Ready(queue, current, prio), {current} \ {current})
  BY <1>2, <1>3, <1>4, ScheduleMoves
<1>6. Placed(pcbs', queue', {})
  BY <1>1, <1>5, UserPlaced
<1> QED BY <1>1, <1>6, LeaveKeeps

\* The running process moves to its ready queue.
LEMMA ClockPreemptKeeps == ASSUME IInv, ClockPreempt PROVE IInv'
<1> DEFINE prio == Me.prio
<1>1. /\ mode = "wake"
      /\ pcbs' = MarkReady(pcbs, current)
      /\ queue' = Ready(queue, current, prio)
      /\ mode' = "dispatch"
      /\ report' = NoReport
      /\ UNCHANGED <<current, nextPid, freeStacks, panic, time, input>>
  BY DEF ClockPreempt
<1>2. prio \in Nat
  BY <1>1, UserPlaced DEF Me
<1> HIDE DEF prio
<1>3. Placed(pcbs, queue, {current}) /\ {current} \in SUBSET PCBs /\ current \in {current}
  BY <1>1, UserPlaced
<1>4. /\ pcbs' \in [PCBs -> PCB]
      /\ \A q \in PCBs \ {current} : pcbs'[q] = pcbs[q]
      /\ pcbs'[current].state = "READY" /\ pcbs'[current].stack # NULL
  BY <1>1, UserPlaced DEF Running, PCB, States, MarkReady
<1>5. Placed(pcbs', Ready(queue, current, prio), {current} \ {current})
  BY <1>2, <1>3, <1>4, ScheduleMoves
<1>6. Placed(pcbs', queue', {})
  BY <1>1, <1>5, UserPlaced
<1> QED BY <1>1, <1>6, LeaveKeeps

\* A step that moves PCBs between queues but not the current process, and
\* goes on as before.
LEMMA MoveKeeps ==
  ASSUME IInv, mode \in {"user", "wake"},
         Placed(pcbs', queue', {current}), Running(pcbs', current),
         nextPid' \in Pids, freeStacks' \in Seq(Stacks),
         report'.to \in PCBs \cup {-1},
         UNCHANGED <<current, mode, panic, time, input>>
  PROVE  IInv'
<1>1. WellPlaced' /\ Scalars' /\ OnlyWorkloadPanics'
  BY DEF WellPlaced, Scalars, OnlyWorkloadPanics, IInv, TypeOK
<1> QED BY <1>1, PartsOfIInv

\* The child moves from _pcb_queue to a ready queue, with a stack from
\* _stack_queue.
LEMMA ForkKeeps == ASSUME IInv, SysFork PROVE IInv'
<1> DEFINE child == queue[Avail][1].data
           taken == [queue EXCEPT ![Avail] = RemoveAt(@, 1)]
           prio  == Me.prio
<1>1. /\ mode = "user" /\ nextPid <= MaxPid /\ queue[Avail] # <<>>
      /\ report' = NoReport
      /\ UNCHANGED <<current, mode, panic, time, input>>
  BY DEF SysFork, Call
<1>2. /\ Placed(pcbs, queue, {current}) /\ Running(pcbs, current)
      /\ {current} \in SUBSET PCBs /\ current \in PCBs
      /\ pcbs \in [PCBs -> PCB] /\ prio \in Nat /\ pcbs[current].pid \in Pids
  BY <1>1, UserPlaced DEF Me
<1>3. Avail \in Queues
  BY QueueNumbers
<1>4. /\ child \in PCBs /\ child \notin {current}
      /\ Placed(pcbs, taken, {current} \cup {child})
  BY <1>1, <1>2, <1>3, HeadMoves
<1>5. nextPid \in Pids /\ nextPid + 1 \in Pids /\ freeStacks \in Seq(Stacks)
  BY <1>1, SizesAssumption DEF IInv, TypeOK, Pids
<1>6. /\ ({current} \cup {child}) \ {child} = {current}
      /\ {current} \cup {child} \in SUBSET PCBs /\ child \in {current} \cup {child}
  BY <1>2, <1>4
<1>7. CASE freeStacks = <<>>
  <2>1. /\ queue' = FreePcb(taken, child)
        /\ pcbs' = [pcbs EXCEPT ![child] = ClearPcb]
        /\ UNCHANGED <<nextPid, freeStacks>>
    BY <1>7 DEF SysFork
  <2> HIDE DEF child, taken
  <2>2. /\ pcbs' \in [PCBs -> PCB] /\ pcbs'[child] = ClearPcb
        /\ \A q \in PCBs \ {child} : pcbs'[q] = pcbs[q]
    BY <1>2, <1>4, <2>1, ClearPcbIsPcb
  <2>3. Placed(pcbs', FreePcb(taken, child), ({current} \cup {child}) \ {child})
    BY <1>4, <1>6, <2>2, FreeMoves, Zenon
  <2>4. Placed(pcbs', queue', {current}) /\ Running(pcbs', current)
    BY <1>2, <1>4, <1>6, <2>1, <2>2, <2>3 DEF Running
  <2> QED BY <1>1, <1>5, <2>1, <2>4, MoveKeeps, NoReportTo
<1>8. CASE freeStacks # <<>>
  <2>1. /\ pcbs' = MarkReady(
             [pcbs EXCEPT ![child].pid = nextPid,
                          ![child].ppid = Me.pid,
                          ![child].prio = prio,
                          ![child].stack = freeStacks[1]], child)
        /\ queue' = Ready(taken, child, prio)
        /\ freeStacks' = Tail(freeStacks)
        /\ nextPid' = nextPid + 1
    BY <1>8 DEF SysFork
  <2> HIDE DEF child, taken, prio
  <2>2. freeStacks[1] \in Stacks /\ Tail(freeStacks) \in Seq(Stacks)
    BY <1>5, <1>8, HeadTailProperties
  <2>3. Me.pid \in Pids /\ pcbs[child] \in PCB
    BY <1>2, <1>4 DEF Me
  <2>4. /\ pcbs' \in [PCBs -> PCB]
        /\ \A q \in PCBs \ {child} : pcbs'[q] = pcbs[q]
        /\ pcbs'[child].state = "READY" /\ pcbs'[child].stack = freeStacks[1]
    <3> DEFINE made == [pcbs[child] EXCEPT !.pid = nextPid, !.ppid = Me.pid,
                          !.prio = prio, !.stack = freeStacks[1], !.state = "READY"]
    <3>1. "READY" \in States
      BY DEF States
    <3>2. made \in PCB /\ made.state = "READY" /\ made.stack = freeStacks[1]
      BY <1>2, <1>5, <2>2, <2>3, <3>1 DEF PCB
    <3>3. pcbs' = [pcbs EXCEPT ![child] = made]
      BY <1>2, <1>4, <2>1 DEF MarkReady
    <3> HIDE DEF made
    <3> QED BY <1>2, <1>4, <3>2, <3>3
  <2>5. pcbs'[child].stack # NULL
    BY <2>2, <2>4 DEF Stacks, NULL
  <2>6. Placed(pcbs', Ready(taken, child, prio), ({current} \cup {child}) \ {child})
    BY <1>2, <1>4, <1>6, <2>4, <2>5, ScheduleMoves
  <2>7. Placed(pcbs', queue', {current}) /\ Running(pcbs', current)
    BY <1>2, <1>4, <1>6, <2>1, <2>4, <2>6 DEF Running
  <2> QED BY <1>1, <1>5, <2>1, <2>2, <2>7, MoveKeeps, NoReportTo
<1> QED BY <1>7, <1>8

\* The victim is marked, and moves from _sleep to a ready queue if it slept.
LEMMA KillKeeps ==
  ASSUME IInv, NEW pid \in 0 .. MaxPid, SysKill(pid)
  PROVE  IInv'
<1> DEFINE p == Min(PcbFind(pcbs, pid))
           marked == [pcbs EXCEPT ![p].state = "KILLED"]
           prio == Me.prio
<1>1. /\ mode = "user" /\ report' = NoReport /\ PcbFind(pcbs, pid) # {}
      /\ UNCHANGED <<current, nextPid, freeStacks, panic, time, input>>
  BY DEF SysKill, Call
<1>2. /\ Placed(pcbs, queue, {current}) /\ Running(pcbs, current)
      /\ {current} \in SUBSET PCBs /\ current \in PCBs
      /\ pcbs \in [PCBs -> PCB] /\ prio \in Nat
  BY <1>1, UserPlaced DEF Me
<1>3. p \in PCBs /\ pcbs[p].state # "FREE"
  BY <1>1, FoundIsLive
<1>4. CASE p = current
  <2>1. /\ pcbs' = MarkReady(marked, p) /\ queue' = Ready(queue, p, prio)
        /\ mode' = "dispatch"
    BY <1>4 DEF SysKill
  <2> HIDE DEF p, prio
  <2>2. /\ pcbs' \in [PCBs -> PCB]
        /\ \A q \in PCBs \ {current} : pcbs'[q] = pcbs[q]
        /\ pcbs'[current].state = "READY" /\ pcbs'[current].stack # NULL
    BY <1>2, <1>4, <2>1 DEF Running, PCB, States, MarkReady
  <2>3. Placed(pcbs', Ready(queue, current, prio), {current} \ {current})
    BY <1>2, <2>2, ScheduleMoves
  <2>4. Placed(pcbs', queue', {})
    BY <1>1, <1>4, <2>1, <2>3, UserPlaced
  <2> QED BY <1>1, <2>1, <2>4, LeaveKeeps
<1>5. CASE p # current
  <2>1. pcbs' = marked /\ UNCHANGED <<queue, mode>>
    BY <1>5 DEF SysKill
  <2> HIDE DEF p
  <2>2. /\ pcbs' \in [PCBs -> PCB]
        /\ \A q \in PCBs \ {p} : pcbs'[q] = pcbs[q]
        /\ pcbs'[p].state = "KILLED"
        /\ pcbs'[p].pid = pcbs[p].pid /\ pcbs'[p].stack = pcbs[p].stack
    BY <1>2, <1>3, <2>1 DEF PCB, States
  <2>3. Placed(pcbs', queue, {current})
    BY <1>2, <1>3, <2>2, Alter
  <2>4. Placed(pcbs', queue', {current}) /\ Running(pcbs', current)
    BY <1>2, <1>5, <2>1, <2>2, <2>3 DEF Running
  <2>5. nextPid' \in Pids /\ freeStacks' \in Seq(Stacks)
    BY <1>1 DEF IInv, TypeOK
  <2> QED BY <1>1, <2>1, <2>4, <2>5, MoveKeeps, NoReportTo
<1> QED BY <1>4, <1>5

\* The PCB a wait() is about is in the table.
LEMMA WaitForIsPcb ==
  ASSUME NEW pid \in 0 .. MaxPid, pid > 0 => PcbFind(pcbs, pid) # {}
  PROVE  WaitFor(pid) \in PCBs
<1>1. CASE pid > 0
  BY <1>1, FoundIsLive DEF WaitFor
<1>2. CASE ~(pid > 0) /\ ZombieKids # {}
  <2>1. ZombieKids \subseteq Nat /\ ZombieKids \subseteq PCBs
    BY SizesAssumption DEF ZombieKids, PCBs
  <2>2. Min(ZombieKids) \in ZombieKids
    BY <1>2, <2>1, MinIsLeast
  <2> QED BY <1>2, <2>1, <2>2 DEF WaitFor
<1>3. CASE ~(pid > 0) /\ ZombieKids = {}
  BY <1>3, SizesAssumption DEF WaitFor, PCBs
<1> QED BY <1>1, <1>2, <1>3

\* _sys_wait that finds a zombie takes one off _zombie and releases it.
LEMMA ReapReleases ==
  ASSUME IInv, SysWaitReap
  PROVE  \E dead \in PCBs \ {current} : \E left :
           /\ pcbs[dead].state \in {"ZOMBIE", "KILLED"} /\ pcbs[dead].stack # NULL
           /\ Placed(pcbs, left, {current} \cup {dead})
           /\ \A n \in Queues \ {Zombies} : left[n] = queue[n]
           /\ freeStacks' = FreeStack(pcbs[dead].stack)
           /\ queue' = FreePcb(left, dead)
           /\ pcbs' = [pcbs EXCEPT ![dead] = ClearPcb]
           /\ report'.to = current
           /\ UNCHANGED <<current, nextPid, mode, panic, time, input>>
<1>1. PICK pid \in 0 .. MaxPid :
        /\ Call("wait")
        /\ pid > 0 => PcbFind(pcbs, pid) # {}
        /\ LET z == WaitFor(pid)
               hits == EqHits(queue[Zombies], pcbs[z].pid)
               dead == queue[Zombies][Min(hits)].data
               left == [queue EXCEPT ![Zombies] = QRemoveFirst(@, hits)]
           IN  /\ pcbs[z].state = "ZOMBIE"
               /\ report' = Report(current, pcbs[z].pid, pcbs[z].status, TRUE)
               /\ IF hits = {}
                  THEN /\ Panic("zombie not on queue")
                       /\ UNCHANGED <<pcbs, queue, freeStacks>>
                  ELSE IF pcbs[dead].stack = NULL
                  THEN /\ Panic("stack free status")
                       /\ queue' = left
                       /\ UNCHANGED <<pcbs, freeStacks>>
                  ELSE /\ freeStacks' = FreeStack(pcbs[dead].stack)
                       /\ queue' = FreePcb(left, dead)
                       /\ pcbs' = [pcbs EXCEPT ![dead] = ClearPcb]
                       /\ UNCHANGED <<mode, panic>>
        /\ UNCHANGED <<current, nextPid, time, input>>
  BY DEF SysWaitReap
<1> DEFINE z    == WaitFor(pid)
           hits == EqHits(queue[Zombies], pcbs[z].pid)
           e    == queue[Zombies][Min(hits)]
           dead == e.data
           left == [queue EXCEPT ![Zombies] = QRemoveFirst(@, hits)]
<1>2. mode = "user" /\ report'.to = current
  BY <1>1 DEF Call, Report
<1>3. /\ Placed(pcbs, queue, {current}) /\ Running(pcbs, current)
      /\ {current} \in SUBSET PCBs /\ current \in PCBs
  BY <1>2, UserPlaced
<1>4. z \in PCBs \ {current} /\ pcbs[z].state = "ZOMBIE"
  <2>1. z \in PCBs
    BY <1>1, WaitForIsPcb
  <2> QED BY <1>1, <1>3, <2>1 DEF Running
<1>5. Zombies \in Queues /\ Zombies \in {Waiting, Zombies} /\ Zombies # Waiting
      /\ Zombies # Avail
  BY QueueNumbers
<1>6. hits # {} /\ hits \subseteq DOMAIN queue[Zombies]
  <2> HIDE DEF z
  <2> QED BY <1>3, <1>4, <1>5, WaiterIsQueued
<1>7. /\ dead \in PCBs /\ dead \notin {current}
      /\ Fits(pcbs, Zombies, e)
      /\ Placed(pcbs, left, {current} \cup {dead})
  <2> HIDE DEF hits
  <2> QED BY <1>3, <1>5, <1>6, HitMoves, Zenon
<1>8. pcbs[dead].stack # NULL /\ pcbs[dead].state \in {"ZOMBIE", "KILLED"}
  BY <1>5, <1>7, StatesOnIs DEF Fits
<1>9. /\ freeStacks' = FreeStack(pcbs[dead].stack)
      /\ queue' = FreePcb(left, dead)
      /\ pcbs' = [pcbs EXCEPT ![dead] = ClearPcb]
      /\ UNCHANGED <<mode, panic>>
  BY <1>1, <1>6, <1>8
<1>10. \A n \in Queues \ {Zombies} : left[n] = queue[n]
  BY <1>3 DEF Placed, Family
<1> HIDE DEF z, hits, e, dead, left
<1> QED BY <1>1, <1>2, <1>7, <1>8, <1>9, <1>10

\* The zombie moves from _zombie to _pcb_queue.
LEMMA WaitReapKeeps == ASSUME IInv, SysWaitReap PROVE IInv'
<1>1. PICK dead \in PCBs \ {current} : \E left :
        /\ pcbs[dead].stack # NULL
        /\ Placed(pcbs, left, {current} \cup {dead})
        /\ freeStacks' = FreeStack(pcbs[dead].stack)
        /\ queue' = FreePcb(left, dead)
        /\ pcbs' = [pcbs EXCEPT ![dead] = ClearPcb]
        /\ report'.to = current
        /\ UNCHANGED <<current, nextPid, mode, panic, time, input>>
  BY ReapReleases
<1>2. PICK left :
        /\ Placed(pcbs, left, {current} \cup {dead})
        /\ queue' = FreePcb(left, dead)
  BY <1>1
<1>3. /\ mode = "user" /\ Running(pcbs, current) /\ current \in PCBs
      /\ pcbs \in [PCBs -> PCB]
  <2>1. mode = "user"
    BY DEF SysWaitReap, Call
  <2> QED BY <2>1, UserPlaced
<1>4. /\ pcbs' \in [PCBs -> PCB] /\ pcbs'[dead] = ClearPcb
      /\ \A q \in PCBs \ {dead} : pcbs'[q] = pcbs[q]
  BY <1>1, <1>3, ClearPcbIsPcb
<1>5. /\ ({current} \cup {dead}) \ {dead} = {current}
      /\ {current} \cup {dead} \in SUBSET PCBs /\ dead \in {current} \cup {dead}
  BY <1>3
<1>6. Placed(pcbs', FreePcb(left, dead), ({current} \cup {dead}) \ {dead})
  BY <1>2, <1>4, <1>5, FreeMoves
<1>7. Placed(pcbs', queue', {current}) /\ Running(pcbs', current)
  BY <1>2, <1>3, <1>4, <1>5, <1>6 DEF Running
<1>8. nextPid' \in Pids /\ freeStacks' \in Seq(Stacks)
  <2>1. pcbs[dead].stack \in Stacks
    BY <1>1, <1>3 DEF PCB, NULL
  <2>2. freeStacks \in Seq(Stacks) /\ nextPid \in Pids
    BY DEF IInv, TypeOK
  <2> QED BY <1>1, <2>1, <2>2, AppendProperties DEF FreeStack
<1> QED BY <1>1, <1>3, <1>7, <1>8, MoveKeeps

\* What _sys_exit hands to _zombify: the table with the children given to
\* init agrees with the queues as the old one did.
LEMMA ExitingPlaced ==
  ASSUME IInv, mode = "user", NEW code \in ExitCodes
  PROVE  /\ Placed(Exiting(code), queue, {current}) /\ current \in PCBs
         /\ Exiting(code)[current].stack # NULL
         /\ Exiting(code)[current].state # "WAITING"
         /\ \A q \in PCBs : /\ Exiting(code)[q].pid = pcbs[q].pid
                            /\ Exiting(code)[q].stack = pcbs[q].stack
                            /\ Exiting(code)[q].state = pcbs[q].state
<1> DEFINE tab == Exiting(code)
<1>1. /\ Placed(pcbs, queue, {current}) /\ Running(pcbs, current)
      /\ {current} \in SUBSET PCBs /\ current \in PCBs
      /\ pcbs \in [PCBs -> PCB]
  BY UserPlaced
<1>2. ASSUME NEW q \in PCBs
      PROVE  /\ tab[q] \in PCB
             /\ tab[q].pid = pcbs[q].pid /\ tab[q].stack = pcbs[q].stack
             /\ tab[q].state = pcbs[q].state
  <2>1. PID_INIT \in Pids
    BY SizesAssumption DEF PID_INIT, Pids
  <2> QED BY <1>1, <2>1 DEF Exiting, PCB
<1>3. tab \in [PCBs -> PCB]
  <2>1. tab = [q \in PCBs |-> tab[q]]
    BY DEF Exiting
  <2> HIDE DEF tab
  <2> QED BY <1>2, <2>1
<1> HIDE DEF tab
<1>4. Placed(tab, queue, {current})
  BY <1>1, <1>2, <1>3, Alter
<1> QED BY <1>1, <1>2, <1>4 DEF Running, tab

\* The caller moves to where _zombify puts it.
LEMMA ExitKeeps == ASSUME IInv, SysExit PROVE IInv'
<1>1. PICK code \in ExitCodes :
        /\ mode = "user"
        /\ Zombify(current, Exiting(code), queue)
        /\ UNCHANGED <<current, nextPid, time, input>>
  BY DEF SysExit, Call
<1>2. /\ Placed(Exiting(code), queue, {current}) /\ current \in PCBs
      /\ Exiting(code)[current].stack # NULL
      /\ Exiting(code)[current].state # "WAITING"
  BY <1>1, ExitingPlaced
<1>3. TypeOK /\ OnlyWorkloadPanics /\ current' = current
  BY <1>1 DEF IInv
<1> QED BY <1>1, <1>2, <1>3, ZombifyKeeps

-----------------------------------------------------------------------------
\* The tick itself moves nobody.
LEMMA ClockTickKeeps == ASSUME IInv, ClockTick PROVE IInv'
<1>1. /\ mode = "user" /\ mode' = "wake" /\ report' = NoReport
      /\ time' = (time + 1) % TimeMod
      /\ UNCHANGED <<pcbs, current, nextPid, queue, freeStacks, panic, input>>
  BY DEF ClockTick
<1>2. time' \in 0 .. TimeMod - 1
  BY <1>1, SizesAssumption DEF IInv, TypeOK
<1>3. WellPlaced' /\ OnlyWorkloadPanics'
  BY <1>1 DEF WellPlaced, OnlyWorkloadPanics, IInv
<1>4. Scalars'
  BY <1>1, <1>2, NoReportTo DEF Scalars, IInv, TypeOK
<1> QED BY <1>3, <1>4, PartsOfIInv

\* A sleeper whose time has come moves to a ready queue.
LEMMA ClockWakeKeeps == ASSUME IInv, ClockWake PROVE IInv'
<1> DEFINE e    == queue[Sleep][Min(Due)]
           p    == e.data
           left == [queue EXCEPT ![Sleep] = QRemoveFirst(@, Due)]
<1>1. /\ mode = "wake" /\ Due # {} /\ report' = NoReport
      /\ queue' = Ready(left, p, PRIO_MAXIMUM)
      /\ pcbs' = MarkReady(pcbs, p)
      /\ UNCHANGED <<current, nextPid, freeStacks, mode, panic, time, input>>
  BY DEF ClockWake
<1>2. /\ Placed(pcbs, queue, {current}) /\ Running(pcbs, current)
      /\ {current} \in SUBSET PCBs /\ current \in PCBs
      /\ pcbs \in [PCBs -> PCB]
  BY <1>1, UserPlaced
<1>3. Sleep \in Queues /\ Sleep # Avail /\ Due \subseteq DOMAIN queue[Sleep]
  BY QueueNumbers DEF Due, LeHits
<1>4. /\ p \in PCBs /\ p \notin {current}
      /\ Fits(pcbs, Sleep, e)
      /\ Placed(pcbs, left, {current} \cup {p})
  BY <1>1, <1>2, <1>3, HitMoves, Zenon
<1>5. pcbs[p].stack # NULL
  BY <1>3, <1>4 DEF Fits
<1> HIDE DEF e, p, left
<1>6. /\ pcbs' \in [PCBs -> PCB]
      /\ \A q \in PCBs \ {p} : pcbs'[q] = pcbs[q]
      /\ pcbs'[p].state = "READY" /\ pcbs'[p].stack # NULL
  BY <1>1, <1>2, <1>4, <1>5, SMTT(30) DEF PCB, States, MarkReady
<1>7. /\ ({current} \cup {p}) \ {p} = {current}
      /\ {current} \cup {p} \in SUBSET PCBs /\ p \in {current} \cup {p}
      /\ PRIO_MAXIMUM \in Nat
  BY <1>2, <1>4 DEF PRIO_MAXIMUM
<1>8. Placed(pcbs', Ready(left, p, PRIO_MAXIMUM), ({current} \cup {p}) \ {p})
  BY <1>4, <1>6, <1>7, ScheduleMoves
<1>9. Placed(pcbs', queue', {current}) /\ Running(pcbs', current)
  BY <1>1, <1>2, <1>4, <1>6, <1>7, <1>8 DEF Running
<1>10. nextPid' \in Pids /\ freeStacks' \in Seq(Stacks)
  BY <1>1 DEF IInv, TypeOK
<1> QED BY <1>1, <1>9, <1>10, MoveKeeps, NoReportTo

\* The first reader moves to a ready queue.
LEMMA SioWakeKeeps == ASSUME IInv, SioWake PROVE IInv'
<1> DEFINE e    == queue[Reading][1]
           p    == e.data
           prio == pcbs[p].prio
           left == [queue EXCEPT ![Reading] = RemoveAt(@, 1)]
<1>1. /\ mode = "user" /\ queue[Reading] # <<>> /\ report' = NoReport
      /\ queue' = Ready(left, p, prio)
      /\ pcbs' = MarkReady(pcbs, p)
      /\ UNCHANGED <<current, nextPid, freeStacks, mode, panic, time, input>>
  BY DEF SioWake
<1>2. /\ Placed(pcbs, queue, {current}) /\ Running(pcbs, current)
      /\ {current} \in SUBSET PCBs /\ current \in PCBs
      /\ pcbs \in [PCBs -> PCB]
  BY <1>1, UserPlaced
<1>3. Reading \in Queues /\ Reading # Avail
  BY QueueNumbers
<1>4. /\ p \in PCBs /\ p \notin {current}
      /\ Fits(pcbs, Reading, e)
      /\ Placed(pcbs, left, {current} \cup {p})
  BY <1>1, <1>2, <1>3, HeadMoves, Zenon
<1>5. pcbs[p].stack # NULL /\ prio \in Nat
  BY <1>2, <1>3, <1>4 DEF Fits, PCB
<1> HIDE DEF e, p, left, prio
<1>6. /\ pcbs' \in [PCBs -> PCB]
      /\ \A q \in PCBs \ {p} : pcbs'[q] = pcbs[q]
      /\ pcbs'[p].state = "READY" /\ pcbs'[p].stack # NULL
  BY <1>1, <1>2, <1>4, <1>5 DEF PCB, States, MarkReady
<1>7. /\ ({current} \cup {p}) \ {p} = {current}
      /\ {current} \cup {p} \in SUBSET PCBs /\ p \in {current} \cup {p}
  BY <1>2, <1>4
<1>8. Placed(pcbs', Ready(left, p, prio), ({current} \cup {p}) \ {p})
  BY <1>4, <1>5, <1>6, <1>7, ScheduleMoves
<1>9. Placed(pcbs', queue', {current}) /\ Running(pcbs', current)
  BY <1>1, <1>2, <1>4, <1>6, <1>7, <1>8 DEF Running
<1>10. nextPid' \in Pids /\ freeStacks' \in Seq(Stacks)
  BY <1>1 DEF IInv, TypeOK
<1> QED BY <1>1, <1>9, <1>10, MoveKeeps, NoReportTo

-----------------------------------------------------------------------------
\* The queue _dispatch takes from, and what it finds there.
LEMMA DispatchFinds ==
  ASSUME IInv, mode = "dispatch", NonEmpty # {}
  PROVE  /\ Head1 \in PCBs
         /\ pcbs[Head1].state \in {"READY", "KILLED"}
         /\ pcbs[Head1].stack # NULL
         /\ Placed(pcbs, Popped, {Head1})
<1> DEFINE n == Min(NonEmpty)
<1>1. NonEmpty \subseteq Nat /\ NonEmpty \subseteq ReadyQs
  BY SizesAssumption DEF NonEmpty, ReadyQs
<1>2. n \in NonEmpty
  BY <1>1, MinIsLeast
<1> HIDE DEF n
<1>3. n \in ReadyQs /\ n \in Queues /\ queue[n] # <<>> /\ n # Avail
  BY <1>1, <1>2, QueueNumbers DEF NonEmpty
<1>4. Placed(pcbs, queue, {}) /\ {} \in SUBSET PCBs
  BY DEF IInv, WellPlaced
<1>5. /\ queue[n][1].data \in PCBs
      /\ Fits(pcbs, n, queue[n][1])
      /\ Placed(pcbs, [queue EXCEPT ![n] = RemoveAt(@, 1)],
                {} \cup {queue[n][1].data})
  BY <1>3, <1>4, HeadMoves
<1>6. Head1 = queue[n][1].data /\ Popped = [queue EXCEPT ![n] = RemoveAt(@, 1)]
  BY DEF Head1, Popped, n
<1>7. {} \cup {Head1} = {Head1}
  OBVIOUS
<1>8. /\ Head1 \in PCBs /\ Fits(pcbs, n, queue[n][1])
      /\ Placed(pcbs, Popped, {Head1})
  BY <1>5, <1>6, <1>7
<1> QED BY <1>3, <1>6, <1>8, StatesOnIs DEF Fits

\* With every ready queue empty the kernel stops.
LEMMA DispatchNothingKeeps ==
  ASSUME IInv, DispatchNothing, UNCHANGED <<time, input>>
  PROVE  IInv'
<1>1. /\ mode = "dispatch" /\ mode' = "panic" /\ panic' = "all queues empty"
      /\ report' = NoReport
      /\ UNCHANGED <<pcbs, current, nextPid, queue, freeStacks, time, input>>
  BY DEF DispatchNothing, Panic
<1>2. WellPlaced' /\ OnlyWorkloadPanics'
  BY <1>1 DEF WellPlaced, OnlyWorkloadPanics, IInv
<1>3. Scalars'
  BY <1>1, NoReportTo DEF Scalars, IInv, TypeOK
<1> QED BY <1>2, <1>3, PartsOfIInv

\* The head of the best ready queue becomes the running process.
LEMMA DispatchHeadKeeps ==
  ASSUME IInv, DispatchHead, UNCHANGED <<time, input>>
  PROVE  IInv'
<1>1. /\ mode = "dispatch" /\ NonEmpty # {} /\ pcbs[Head1].state # "KILLED"
      /\ current' = Head1 /\ queue' = Popped /\ report' = NoReport
      /\ UNCHANGED <<nextPid, freeStacks, time, input>>
  BY DEF DispatchHead
<1>2. /\ Head1 \in PCBs /\ pcbs[Head1].state = "READY"
      /\ pcbs[Head1].stack # NULL /\ Placed(pcbs, Popped, {Head1})
  BY <1>1, DispatchFinds
<1>3. /\ pcbs' = [pcbs EXCEPT ![Head1].state = "RUNNING"]
      /\ mode' = "user" /\ UNCHANGED panic
  BY <1>2 DEF DispatchHead
<1>4. pcbs \in [PCBs -> PCB]
  BY DEF IInv, TypeOK
<1>5. /\ pcbs' \in [PCBs -> PCB]
      /\ \A q \in PCBs \ {Head1} : pcbs'[q] = pcbs[q]
      /\ pcbs'[Head1].state = "RUNNING" /\ pcbs'[Head1].stack # NULL
  BY <1>2, <1>3, <1>4 DEF PCB, States
<1>6. Placed(pcbs', Popped, {Head1})
  <2>1. {Head1} \in SUBSET PCBs
    BY <1>2
  <2> QED BY <1>2, <1>5, <2>1, Alter
<1>7. WellPlaced' /\ OnlyWorkloadPanics'
  BY <1>1, <1>3, <1>5, <1>6 DEF WellPlaced, Running, OnlyWorkloadPanics, IInv
<1>8. Scalars'
  BY <1>1, <1>2, <1>3, NoReportTo DEF Scalars, IInv, TypeOK
<1> QED BY <1>7, <1>8, PartsOfIInv

\* A killed process at the head of the best ready queue moves to where
\* _zombify puts it.
LEMMA DispatchKilledKeeps ==
  ASSUME IInv, DispatchKilled, UNCHANGED <<time, input>>
  PROVE  IInv'
<1>1. /\ mode = "dispatch" /\ NonEmpty # {} /\ pcbs[Head1].state = "KILLED"
      /\ current' = Head1 /\ Zombify(Head1, pcbs, Popped)
      /\ UNCHANGED <<nextPid, time, input>>
  BY DEF DispatchKilled
<1>2. /\ Head1 \in PCBs /\ pcbs[Head1].stack # NULL
      /\ pcbs[Head1].state # "WAITING"
      /\ Placed(pcbs, Popped, {Head1})
  BY <1>1, DispatchFinds
<1>3. TypeOK /\ OnlyWorkloadPanics
  BY DEF IInv
<1> QED BY <1>1, <1>2, <1>3, ZombifyKeeps

-----------------------------------------------------------------------------
\* The initial state: process 0 runs, the others are on the free list.
LEMMA InitKeeps == ASSUME Init PROVE IInv
<1> DEFINE free == [i \in 1 .. NPcbs - 1 |-> Entry(i, 0)]
           E == [data : PCBs, key : Nat]
<1>1. /\ current = 0 /\ nextPid = 2 /\ mode = "user" /\ panic = "none"
      /\ report = NoReport /\ time = 0 /\ input = 0
      /\ freeStacks = [i \in 1 .. NStacks - 1 |-> i + 1]
      /\ queue = [n \in Queues |-> IF n = Avail THEN free ELSE <<>>]
      /\ pcbs = [p \in PCBs |->
           IF p = 0 THEN [ClearPcb EXCEPT !.pid = 1, !.ppid = 1, !.stack = 1]
                    ELSE ClearPcb]
  BY DEF Init, ProcInit, PID_INIT, NoEntries, FreshStacks
<1>2. 0 \in PCBs /\ 1 .. NPcbs - 1 = PCBs \ {0} /\ NPcbs - 1 \in Nat
  BY SizesAssumption DEF PCBs
<1>3. /\ \A i \in 1 .. NPcbs - 1 : free[i] = Entry(i, 0)
      /\ DOMAIN free = 1 .. NPcbs - 1
      /\ free \in Seq(E)
  <2>1. \A i \in 1 .. NPcbs - 1 : Entry(i, 0) \in E
    BY <1>2 DEF Entry
  <2>2. /\ \A i \in 1 .. NPcbs - 1 : free[i] = Entry(i, 0)
        /\ DOMAIN free = 1 .. NPcbs - 1
    OBVIOUS
  <2> HIDE DEF E
  <2>3. free \in [1 .. NPcbs - 1 -> E]
    BY <2>1
  <2>4. free \in Seq(E)
    BY <1>2, <2>3, SeqDef
  <2> QED BY <2>2, <2>4
<1> HIDE DEF free
<1>4. pcbs \in [PCBs -> PCB]
  <2>1. 1 \in Pids /\ 1 \in Stacks
    BY SizesAssumption DEF Pids, Stacks
  <2>2. [ClearPcb EXCEPT !.pid = 1, !.ppid = 1, !.stack = 1] \in PCB
    BY <2>1, ClearPcbIsPcb DEF PCB
  <2> QED BY <1>1, <2>2, ClearPcbIsPcb
<1>5. queue[Avail] = free /\ \A n \in Queues \ {Avail} : queue[n] = <<>>
  BY <1>1, QueueNumbers
<1>6. queue \in Family(Queues, PCBs)
  <2>1. <<>> \in Seq(E)
    OBVIOUS
  <2> QED BY <1>1, <1>3, <2>1 DEF Family
<1>7. EntriesOf(queue[Avail]) = {Entry(i, 0) : i \in PCBs \ {0}}
  BY <1>2, <1>3, <1>5 DEF EntriesOf
<1>8. \A n \in Queues \ {Avail} : EntriesOf(queue[n]) = {}
  BY <1>5 DEF EntriesOf
<1>9. NoDuplicates(queue)
  <2> SUFFICES ASSUME NEW m \in Queues, NEW n \in Queues,
                      NEW i \in DOMAIN queue[m], NEW j \in DOMAIN queue[n],
                      queue[m][i].data = queue[n][j].data
               PROVE  m = n /\ i = j
    BY <1>1 DEF NoDuplicates
  <2>1. m = Avail /\ n = Avail
    BY <1>5
  <2>2. /\ i \in 1 .. NPcbs - 1 /\ queue[m][i].data = i
        /\ j \in 1 .. NPcbs - 1 /\ queue[n][j].data = j
    <3>1. queue[m] = free /\ queue[n] = free
      BY <1>5, <2>1
    <3>2. /\ i \in 1 .. NPcbs - 1 /\ queue[m][i] = Entry(i, 0)
          /\ j \in 1 .. NPcbs - 1 /\ queue[n][j] = Entry(j, 0)
      BY <1>3, <3>1
    <3> QED BY <3>2 DEF Entry
  <2> QED BY <2>1, <2>2
<1>10. Contents(queue) = PCBs \ {0}
  <2>1. DataOf(queue[Avail]) = PCBs \ {0}
    <3>1. \A i : Entry(i, 0).data = i
      BY DEF Entry
    <3>2. ASSUME NEW d PROVE d \in DataOf(queue[Avail]) <=> d \in PCBs \ {0}
      BY <1>7, <3>1 DEF DataOf
    <3> QED BY <3>2
  <2>2. \A n \in Queues \ {Avail} : DataOf(queue[n]) = {}
    BY <1>8 DEF DataOf
  <2>3. DOMAIN queue = Queues /\ Avail \in Queues
    BY <1>1, QueueNumbers
  <2> QED BY <2>1, <2>2, <2>3 DEF Contents
<1>11. ASSUME NEW n \in Queues, NEW e \in EntriesOf(queue[n])
       PROVE  Fits(pcbs, n, e)
  <2>1. n = Avail
    BY <1>8
  <2>2. PICK i \in PCBs \ {0} : e = Entry(i, 0)
    BY <1>7, <2>1
  <2>3. e.data = i /\ pcbs[i].state = "FREE"
    BY <1>1, <2>2 DEF Entry, ClearPcb
  <2> QED BY <2>1, <2>3, QueueNumbers, StatesOnIs DEF Fits, KeyedByPid
<1>12. Placed(pcbs, queue, {current})
  BY <1>1, <1>4, <1>6, <1>9, <1>10, <1>11 DEF Placed
<1>13. Running(pcbs, current)
  <2>1. pcbs[0] = [ClearPcb EXCEPT !.pid = 1, !.ppid = 1, !.stack = 1]
    BY <1>1, <1>2
  <2>2. pcbs[0].state = "FREE" /\ pcbs[0].stack = 1
    BY <2>1 DEF ClearPcb
  <2> QED BY <1>1, <2>2 DEF Running, NULL
<1>14. freeStacks \in Seq(Stacks)
  <2>1. NStacks - 1 \in Nat /\ \A i \in 1 .. NStacks - 1 : i + 1 \in Stacks
    BY SizesAssumption DEF Stacks
  <2> QED BY <1>1, <2>1
<1>15. TypeOK
  <2>1. /\ 2 \in Pids /\ 0 \in 0 .. TimeMod - 1 /\ 0 \in 0 .. BufSize
        /\ "none" \in Reasons
    BY SizesAssumption, BufSizeAssumption DEF Pids, Reasons
  <2> QED BY <1>1, <1>2, <1>4, <1>6, <1>14, <2>1, NoReportTo DEF TypeOK, Family
<1> QED BY <1>1, <1>12, <1>13, <1>15 DEF IInv, WellPlaced, OnlyWorkloadPanics

\* Every step of the kernel keeps the invariant.
LEMMA NextKeeps == ASSUME IInv, [Next]_vars PROVE IInv'
<1>1. CASE Syscalls
  BY <1>1, SetprioKeeps, SettimeKeeps, SleepKeeps, ForkKeeps, ExecKeeps,
     ReadcNowKeeps, ReadcBlockKeeps, KillKeeps, WaitNotFoundKeeps,
     WaitReapKeeps, WaitBlockKeeps, ExitKeeps DEF Syscalls
<1>2. CASE Interrupts
  BY <1>2, ClockTickKeeps, SioWakeKeeps, SioBufferKeeps DEF Interrupts
<1>3. CASE KernelStep
  BY <1>3, ClockWakeKeeps, ClockPreemptKeeps, DispatchNothingKeeps,
     DispatchHeadKeeps, DispatchKilledKeeps DEF KernelStep, Dispatch
<1>4. CASE UNCHANGED vars
  BY <1>4 DEF vars, procVars, IInv, TypeOK, WellPlaced, Placed, Fits, Running,
     OnlyWorkloadPanics
<1> QED BY <1>1, <1>2, <1>3, <1>4 DEF Next, Halted

\* IInv is inductive, so it holds of every reachable state.
THEOREM Invariance == Spec => []IInv
<1>1. Init => IInv
  BY InitKeeps
<1>2. IInv /\ [Next]_vars => IInv'
  BY NextKeeps
<1> QED BY <1>1, <1>2, PTL DEF Spec

-----------------------------------------------------------------------------
\* What IInv says of the properties the runs check.
LEMMA PlacedOff ==
  ASSUME NEW off \in SUBSET PCBs, Placed(pcbs, queue, off)
  PROVE  OffQueues = off /\ NoDuplicates(queue)
BY DEF Placed, OffQueues

\* The kernel keeps its types: no handler writes outside the process table,
\* queues something that is no PCB, or frees a null stack.
THEOREM TypesKept == Spec => []TypeOK
<1>1. IInv => TypeOK
  BY DEF IInv
<1> QED BY <1>1, Invariance, PTL

\* No handler loses a PCB or puts it in two places.
THEOREM PcbsHaveOneHome == Spec => []UniqueHome
<1>1. ASSUME IInv PROVE UniqueHome
  <2>1. {current} \in SUBSET PCBs /\ {} \in SUBSET PCBs
    <3>1. current \in PCBs
      BY <1>1 DEF IInv, TypeOK
    <3> QED BY <3>1
  <2>2. CASE mode \in {"user", "wake"}
    BY <1>1, <2>1, <2>2, PlacedOff DEF IInv, WellPlaced, UniqueHome
  <2>3. CASE mode = "dispatch"
    BY <1>1, <2>1, <2>3, PlacedOff DEF IInv, WellPlaced, UniqueHome
  <2>4. CASE mode = "panic"
    BY <1>1, <2>1, <2>4, PlacedOff DEF IInv, WellPlaced, UniqueHome
  <2> QED BY <1>1, <2>2, <2>3, <2>4 DEF IInv, TypeOK
<1>2. IInv => UniqueHome
  BY <1>1
<1> QED BY <1>2, Invariance, PTL

\* The state of every process agrees with the queue it is on: _dispatch only
\* ever finds READY and KILLED processes.
THEOREM StatesMatch == Spec => []StateMatchesHome
<1>1. ASSUME IInv PROVE StateMatchesHome
  <2>1. mode \in {"user", "wake", "dispatch", "panic"}
    BY <1>1 DEF IInv, TypeOK
  <2>2. PICK off : Placed(pcbs, queue, off)
    BY <1>1, <2>1 DEF IInv, WellPlaced
  <2>3. mode \in {"user", "wake"} => Me.state \in {"RUNNING", "FREE"}
    BY <1>1 DEF IInv, WellPlaced, Running, Me
  <2> QED BY <2>2, <2>3 DEF StateMatchesHome, Placed, Fits
<1>2. IInv => StateMatchesHome
  BY <1>1
<1> QED BY <1>2, Invariance, PTL

\* The consistency checks of the kernel never fail.
THEOREM ChecksNeverFail == Spec => []OnlyWorkloadPanics
<1>1. IInv => OnlyWorkloadPanics
  BY DEF IInv
<1> QED BY <1>1, Invariance, PTL

\* What _q_remove_by_key finds under a pid is a process with that pid.
THEOREM KeysStayPids == Spec => []KeysArePids
<1>1. ASSUME IInv PROVE KeysArePids
  <2>1. mode \in {"user", "wake", "dispatch", "panic"}
    BY <1>1 DEF IInv, TypeOK
  <2>2. PICK off : Placed(pcbs, queue, off)
    BY <1>1, <2>1 DEF IInv, WellPlaced
  <2> QED BY <2>2, QueueNumbers DEF KeysArePids, Placed, Fits, KeyedByPid
<1>2. IInv => KeysArePids
  BY <1>1
<1> QED BY <1>2, Invariance, PTL
=============================================================================
