------------------------------- MODULE Kernel -------------------------------
(***************************************************************************)
(* The whole kernel core: the system calls, the clock interrupt            *)
(* (kernel/clock.c) and the receive interrupt of the serial line           *)
(* (kernel/sio.c), the dispatcher, and the properties of all of them.      *)
(***************************************************************************)
EXTENDS Syscall

CONSTANTS
  MaxTime,       \* bound: the clock stops there; at least TimeMod: no bound
  BufSize        \* BUF_SIZE, the size of the serial input buffer

ASSUME BufSizeAssumption == BufSize \in Nat /\ MaxTime \in Nat

\* _isr_clock: the time advances, then the wake loop starts.
ClockTick ==
  /\ mode = "user" /\ time < MaxTime
  /\ time' = (time + 1) % TimeMod
  /\ mode' = "wake"
  /\ report' = NoReport
  /\ UNCHANGED <<pcbs, current, nextPid, queue, freeStacks, panic, input>>

Due == LeHits(queue[Sleep], time)

\* One iteration of the wake loop: the first entry that is due becomes
\* ready with the best priority.
ClockWake ==
  /\ mode = "wake" /\ Due # {}
  /\ LET p == queue[Sleep][Min(Due)].data
         left == [queue EXCEPT ![Sleep] = QRemoveFirst(@, Due)]
     IN  /\ queue' = Ready(left, p, PRIO_MAXIMUM)
         /\ pcbs' = MarkReady(pcbs, p)
  /\ report' = NoReport
  /\ UNCHANGED <<current, nextPid, freeStacks, mode, panic, time, input>>

\* Fault: the wake loop goes on until _sleep is empty.
WakeLoopSpins ==
  /\ mode = "wake" /\ Due = {}
  /\ IF queue[Sleep] # <<>> THEN UNCHANGED vars
     ELSE /\ queue' = Ready(queue, current, Me.prio)
          /\ pcbs' = MarkReady(pcbs, current)
          /\ mode' = "dispatch"
          /\ report' = NoReport
          /\ UNCHANGED <<current, nextPid, freeStacks, panic, time, input>>

\* Fault: the loop ends when one due sleeper is left.
LeavesOne ==
  /\ mode = "wake" /\ Cardinality(Due) <= 1
  /\ queue' = Ready(queue, current, Me.prio)
  /\ pcbs' = MarkReady(pcbs, current)
  /\ mode' = "dispatch"
  /\ report' = NoReport
  /\ UNCHANGED <<current, nextPid, freeStacks, panic, time, input>>

\* Nobody is due: the current process is preempted.
ClockPreempt ==
  /\ mode = "wake" /\ Due = {}
  /\ queue' = Ready(queue, current, Me.prio)
  /\ pcbs' = MarkReady(pcbs, current)
  /\ mode' = "dispatch"
  /\ report' = NoReport
  /\ UNCHANGED <<current, nextPid, freeStacks, panic, time, input>>

\* Fault: the character is buffered although a reader waits.
SioAlwaysBuffers ==
  /\ mode = "user" /\ input < BufSize
  /\ input' = input + 1
  /\ report' = NoReport
  /\ UNCHANGED <<pcbs, current, nextPid, queue, freeStacks, mode, panic, time>>

\* _isr_sio, a received character: the first reader gets it, or it is
\* buffered if there is room.
SioWake ==
  /\ mode = "user" /\ queue[Reading] # <<>>
  /\ LET p == queue[Reading][1].data
         left == [queue EXCEPT ![Reading] = RemoveAt(@, 1)]
     IN  /\ queue' = Ready(left, p, pcbs[p].prio)
         /\ pcbs' = MarkReady(pcbs, p)
  /\ report' = NoReport
  /\ UNCHANGED <<current, nextPid, freeStacks, mode, panic, time, input>>

SioBuffer ==
  /\ mode = "user" /\ queue[Reading] = <<>> /\ input < BufSize
  /\ input' = input + 1
  /\ report' = NoReport
  /\ UNCHANGED <<pcbs, current, nextPid, queue, freeStacks, mode, panic, time>>

\* __panic does not return.
Halted == mode = "panic" /\ UNCHANGED vars

Init == ProcInit /\ time = 0 /\ input = 0

KernelStep == ClockWake \/ ClockPreempt \/ (Dispatch /\ UNCHANGED <<time, input>>)
Interrupts == ClockTick \/ SioWake \/ SioBuffer

Next == Syscalls \/ Interrupts \/ KernelStep \/ Halted

(***************************************************************************)
(* Fairness: a handler that has been entered goes on, and the clock        *)
(* interrupt comes again and again: the PIC holds it while a handler runs, *)
(* so it is taken if user code runs again and again.                       *)
(***************************************************************************)
Spec     == Init /\ [][Next]_vars
Fairness == WF_vars(KernelStep) /\ SF_vars(ClockTick)
FairSpec == Spec /\ Fairness
-----------------------------------------------------------------------------
TypeOK ==
  /\ pcbs \in [PCBs -> PCB]
  /\ current \in PCBs
  /\ nextPid \in Pids
  /\ queue \in [Queues -> Seq([data : PCBs, key : Nat])]
  /\ freeStacks \in Seq(Stacks)
  /\ mode \in {"user", "wake", "dispatch", "panic"}
  /\ panic \in Reasons
  /\ time \in 0 .. TimeMod - 1
  /\ input \in 0 .. BufSize
  /\ report.to \in PCBs \cup {-1}

(***************************************************************************)
(* Where a process can be                                                  *)
(***************************************************************************)
OffQueues == PCBs \ Contents(queue)

\* A PCB is never lost and never in two places: at most one entry of all the
\* queues refers to it; while user code or the wake loop runs exactly the
\* current process is on no queue, and when a handler has come to _dispatch
\* none is.  (Every handler of syscall.c, clock.c and sio.c moves PCBs.)
UniqueHome ==
  /\ NoDuplicates(queue)
  /\ mode \in {"user", "wake"} => OffQueues = {current}
  /\ mode = "dispatch" => OffQueues = {}
  /\ mode = "panic" => OffQueues \subseteq {current}

\* The states a PCB can have on each queue.  KILLED can appear on every queue
\* but the free list, because kill only marks its target; a reader keeps the
\* state it had when it ran.
StatesOn(n) == CASE n \in ReadyQs -> {"READY", "KILLED"}
                 [] n = Avail     -> {"FREE"}
                 [] n = Sleep     -> {"SLEEPING", "KILLED"}
                 [] n = Reading   -> {"RUNNING", "FREE", "KILLED"}
                 [] n = Waiting   -> {"WAITING", "KILLED"}
                 [] n = Zombies   -> {"ZOMBIE", "KILLED"}

\* The state of a process agrees with the queue it is on, so that _dispatch
\* finds only READY and KILLED processes, and with its being current.
StateMatchesHome ==
  /\ \A n \in Queues : \A e \in EntriesOf(queue[n]) :
       pcbs[e.data].state \in StatesOn(n)
  /\ mode \in {"user", "wake"} => Me.state \in {"RUNNING", "FREE"}

\* The panics that remain are the two a workload can provoke; the
\* consistency checks of _dispatch, _zombify and _sys_wait never fail.
OnlyWorkloadPanics ==
  panic \in {"none", "all queues empty", "no process parent"}

\* Every entry of a queue of PCBs and every free stack takes a qnode.
QnodesInUse ==
  Cardinality(UNION {{n} \X DOMAIN queue[n] : n \in DOMAIN queue})
    + Len(freeStacks)

\* The queues share one pool of N_PCBS + N_STACKS + 5 qnodes (queue.h:30).
\* Processes and stacks never take more than their share, whoever forks, dies
\* and is reaped, so that no insertion fails with E_NO_QNODES: the five spare
\* qnodes stay free.
QnodesSuffice == QnodesInUse <= NPcbs + NStacks

\* Live: the PCB has been given to a process.
Live == PCBs \ DataOf(queue[Avail])

\* Every stack belongs to exactly one live process or is on the free list
\* exactly once, also after a fork that fails half way and after both ways
\* a dead process is released.
StackOwnership ==
  /\ \A i, j \in DOMAIN freeStacks : freeStacks[i] = freeStacks[j] => i = j
  /\ \A p, q \in Live : pcbs[p].stack = pcbs[q].stack => p = q
  /\ {pcbs[p].stack : p \in Live} = Stacks \ {freeStacks[i] : i \in DOMAIN freeStacks}

\* An entry queued by pid has the pid of its process as key.
KeysArePids ==
  \A n \in {Reading, Waiting, Zombies} : \A e \in EntriesOf(queue[n]) :
    e.key = pcbs[e.data].pid

\* Live processes have different pids, all of them given out, and no entry
\* queued by pid has a stale key: what _pcb_find and _q_remove_by_key find
\* is the process meant.
PidsIdentify ==
  /\ \A p, q \in Live : pcbs[p].pid = pcbs[q].pid => p = q
  /\ \A p \in Live : pcbs[p].pid \in 1 .. nextPid - 1
  /\ KeysArePids

\* A process other than init that is WAITING has no zombie it waits for:
\* exit and the reaping of killed processes wake it, and wait itself looks
\* for zombies before it blocks.
NoMissedZombie ==
  \A p, z \in Live :
    /\ pcbs[p].state = "WAITING" /\ pcbs[p].pid # PID_INIT
    /\ pcbs[z].state = "ZOMBIE" /\ pcbs[z].ppid = pcbs[p].pid
    => pcbs[p].want \notin {0, pcbs[z].pid}

\* No reader waits while there is a character for it.
NoMissedInput == queue[Reading] # <<>> => input = 0

\* While the clock does not wrap and nobody sets it, no process sleeps past
\* its wakeup time: the wake loop drains every sleeper that is due.
NoOversleep ==
  mode \in {"user", "dispatch"} =>
    \A e \in EntriesOf(queue[Sleep]) : e.key >= time

\* A process leaves _sleep at the tick it asked for and at no other.
WakesOnTime ==
  [][\A e \in EntriesOf(queue[Sleep]) :
       e \notin EntriesOf(queue'[Sleep]) => time = e.key]_vars

\* Where the mark of a killed process is lost between handlers: the clock and
\* the receive interrupt hand whom they wake to _schedule, which makes it
\* READY.
WokenFromQueue(p) == \/ mode = "wake" /\ p \in DataOf(queue[Sleep])
                     \/ mode = "user" /\ p \in DataOf(queue[Reading])

\* A process that is marked KILLED between two handlers, and neither sleeps
\* nor reads, never runs again: whatever system calls its parent and others
\* make, from KILLED it goes to ZOMBIE or is released, and neither _zombify
\* nor _sys_wait makes it READY.  Not meant is a process that kills itself:
\* _schedule makes it READY again within the call (MarkReady in SysKill), and
\* it runs on.
KilledNeverRuns ==
  [][\A p \in PCBs :
       /\ pcbs[p].state = "KILLED" /\ ~WokenFromQueue(p)
       => pcbs'[p].state \in {"KILLED", "ZOMBIE", "FREE"}]_vars

\* The same of every process that is marked so, asleep or not: "_dispatch()
\* will clean it up" (syscall.c:427).
KilledStaysKilled ==
  [][\A p \in PCBs : pcbs[p].state = "KILLED"
       => pcbs'[p].state \in {"KILLED", "ZOMBIE", "FREE"}]_vars

\* wait() "returns the exit status and PID" of a child (ulib.h:90): what a
\* zombie that exited gave exit() is what its parent gets.
WaitReportsStatus ==
  [][report'.reaped =>
       \A p \in PCBs : /\ pcbs[p].state = "ZOMBIE" /\ pcbs[p].pid = report'.pid
                       /\ pcbs[p].arg # NoArg
         => report'.status = pcbs[p].arg]_vars

\* A process killed before it called exit is cleaned up without that call's
\* reparenting, and init's children keep init; any other one that goes leaves
\* no child behind, however its exit and its parent's wait, exit or death
\* interleave with its children's, so that theirs finds a parent.
MayOrphan(p) == \/ pcbs[p].pid = PID_INIT
                \/ pcbs[p].state = "KILLED"
                \/ pcbs[p].state = "ZOMBIE" /\ pcbs[p].arg = NoArg
LeavesNoOrphans ==
  [][\A q \in Live \ Live' :
       MayOrphan(q) \/ \A p \in Live' : pcbs'[p].ppid # pcbs[q].pid]_vars

(***************************************************************************)
(* Liveness                                                                *)
(***************************************************************************)
On(p, n) == p \in DataOf(queue[n])

\* Every handler returns to user code or stops the machine.
HandlersReturn == mode \in {"wake", "dispatch"} ~> mode \in {"user", "panic"}

\* Every sleeper is woken.
SleepersWake ==
  \A p \in PCBs : On(p, Sleep) ~> (~On(p, Sleep) \/ mode = "panic")

\* A process ready at the best priority gets the CPU (or, killed, is
\* cleaned up): that queue is first in, first out, and the clock preempts.
BestPriorityRuns ==
  \A p \in PCBs : On(p, PRIO_MAXIMUM)
                    ~> (~On(p, PRIO_MAXIMUM) \/ mode = "panic")
=============================================================================
