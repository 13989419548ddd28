------------------------------ MODULE Process -------------------------------
(***************************************************************************)
(* The process table, the process queues and the steps every kernel        *)
(* handler is made of: kernel/process.c, kernel/stack.c,                   *)
(* kernel/scheduler.c and _zombify of kernel/system.c.                     *)
(*                                                                         *)
(* The kernel runs on one CPU and every handler is entered through an      *)
(* interrupt gate, so a handler runs to completion.  Its while loops are   *)
(* modelled one iteration per step; "mode" says which loop the kernel is   *)
(* in, and nothing but the next iteration of that loop is enabled until    *)
(* mode is "user" again.                                                   *)
(***************************************************************************)
EXTENDS KeyedQueue, FiniteSets

CONSTANTS
  NPcbs,         \* N_PCBS
  NStacks,       \* N_STACKS
  NPriorities,   \* N_PRIORITIES
  TimeMod,       \* 2^32 in the source: _system_time and keys are uint32_t
  MaxPid,        \* bound: no fork once _next_pid has passed it
  ExitCodes,     \* the arguments user processes give exit()
  Prios          \* the priority bytes user processes give exec(), setprio()

ASSUME SizesAssumption ==
  /\ NPcbs \in Nat \ {0}
  /\ NStacks \in Nat \ {0}
  /\ NPriorities \in Nat \ {0}
  /\ TimeMod \in Nat \ {0}
  /\ MaxPid \in Nat \ {0}

ASSUME InputsAssumption == ExitCodes \subseteq Int /\ Prios \subseteq Nat

PCBs       == 0 .. NPcbs - 1      \* indices into _pcbs[]
Stacks     == 1 .. NStacks
NULL       == 0                   \* the null stack pointer
PID_INIT   == 1
Pids       == 0 .. MaxPid + 1
States     == {"FREE", "READY", "RUNNING", "SLEEPING", "WAITING",
               "KILLED", "ZOMBIE"}
BLOCKED    == 5                   \* include/process.h; stored by readc
PRIO_MAXIMUM  == 0
E_NOT_FOUND   == -4

\* The queues, numbered: the ready queues first, by priority.
ReadyQs == 0 .. NPriorities - 1
Avail   == NPriorities            \* _pcb_avail
Sleep   == NPriorities + 1        \* _sleep
Reading == NPriorities + 2        \* _reading
Waiting == NPriorities + 3        \* _waiting
Zombies == NPriorities + 4        \* _zombie
Queues  == 0 .. NPriorities + 4

VARIABLES
  pcbs,       \* _pcbs: the process table
  current,    \* _current
  nextPid,    \* _next_pid
  queue,      \* every queue of PCBs, by number
  freeStacks, \* _stack_avail
  mode,       \* "user", "wake", "dispatch", or "panic" for a stopped kernel
  panic,      \* the reason given to _kpanic
  report      \* the info structure the last step filled in user memory

procVars == <<pcbs, current, nextPid, queue, freeStacks, mode, panic, report>>

(***************************************************************************)
(* A PCB.  "want" and "arg" are what the kernel reads through the context  *)
(* pointer: the pid field of the info structure a waiting process passed,  *)
(* and the argument of exit().                                             *)
(***************************************************************************)
NoArg == -100
PCB == [state : States, pid : Pids, ppid : Pids, prio : Nat,
        stack : Stacks \cup {NULL}, status : {0, BLOCKED},
        want : Pids, arg : ExitCodes \cup {NoArg}]

\* A PCB cleared by _memclr.
ClearPcb == [state |-> "FREE", pid |-> 0, ppid |-> 0, prio |-> 0,
             stack |-> NULL, status |-> 0, want |-> 0, arg |-> NoArg]

NoReport == [to |-> -1, pid |-> 0, status |-> 0, reaped |-> FALSE]
Report(p, pid, status, reaped) ==
  [to |-> p, pid |-> pid, status |-> status, reaped |-> reaped]

\* _pcb_find: the PCBs with this pid that are not FREE; it returns the first.
PcbFind(tab, pid) == {p \in PCBs : tab[p].state # "FREE" /\ tab[p].pid = pid}

\* Why the kernel stopped, or "none".
Reasons == {"none", "wait remove status", "stack free status",
            "no process parent", "all queues empty", "non-ready",
            "zombie not on queue"}

\* _kpanic: the reason is printed and the machine stops.
Panic(reason) == mode' = "panic" /\ panic' = reason

\* Which ready queue _schedule picks for a priority.
ReadyFor(prio) == IF prio >= NPriorities THEN NPriorities - 1 ELSE prio

\* Faults: the state is not set; a PCB, a stack is not given back; a stack is
\* given back twice.
ForgetsState(tab, p) == tab
LosesPcb(qs, p)      == qs
LosesStack(s)        == freeStacks
FreesTwice(s)        == freeStacks \o <<s, s>>

\* _schedule(p, prio), on the queues and on the process table.
Ready(qs, p, prio) == [qs EXCEPT ![ReadyFor(prio)] = QAppend(@, p, 0)]
MarkReady(tab, p)  == [tab EXCEPT ![p].state = "READY"]

\* _pcb_free and _stack_free; the latter refuses the null pointer.
FreePcb(qs, p)  == [qs EXCEPT ![Avail] = QAppend(@, p, 0)]
FreeStack(s)    == Append(freeStacks, s)

(***************************************************************************)
(* _zombify(c), where c is also _current.  tab and qs are the process      *)
(* table and the queues as the caller leaves them.  All of pcbs, queue,    *)
(* freeStacks, mode, panic and report are determined.                      *)
(***************************************************************************)

\* The parent waits for c or for anyone: it gets c's pid and first argument
\* and is made ready; c's stack and PCB are released.
GiveToParent(c, parent, tab, qs) ==
  LET hits == EqHits(qs[Waiting], tab[parent].pid)
      woken == qs[Waiting][Min(hits)].data
      left  == [qs EXCEPT ![Waiting] = QRemoveFirst(@, hits)]
  IN  IF hits = {}
      THEN /\ Panic("wait remove status")
           /\ pcbs' = tab /\ queue' = qs
           /\ report' = NoReport
           /\ UNCHANGED freeStacks
      ELSE /\ report' = Report(parent, tab[c].pid, tab[c].arg, TRUE)
           /\ IF tab[c].stack = NULL
              THEN /\ Panic("stack free status")
                   /\ pcbs' = tab /\ queue' = left
                   /\ UNCHANGED freeStacks
              ELSE /\ freeStacks' = FreeStack(tab[c].stack)
                   /\ queue' = Ready(FreePcb(left, c), woken, PRIO_MAXIMUM)
                   /\ pcbs' = [p \in PCBs |->
                        IF p = woken THEN [tab[p] EXCEPT !.state = "READY",
                                                         !.want = 0]
                        ELSE IF p = c THEN ClearPcb ELSE tab[p]]
                   /\ mode' = "dispatch"
                   /\ UNCHANGED panic

\* Fault: the zombie is queued under its parent's pid.
ZombieByParent(c, tab, qs) ==
  /\ pcbs' = [tab EXCEPT ![c].state = "ZOMBIE"]
  /\ queue' = [qs EXCEPT ![Zombies] = QInsert(@, c, tab[c].ppid)]
  /\ mode' = "dispatch"
  /\ report' = NoReport
  /\ UNCHANGED <<freeStacks, panic>>

\* Otherwise c becomes a zombie.
LeaveZombie(c, tab, qs) ==
  /\ pcbs' = [tab EXCEPT ![c].state = "ZOMBIE"]
  /\ queue' = [qs EXCEPT ![Zombies] = QInsert(@, c, tab[c].pid)]
  /\ mode' = "dispatch"
  /\ report' = NoReport
  /\ UNCHANGED <<freeStacks, panic>>

\* Faults: a parent that waits for anyone, the state of the parent, are
\* not looked at.
WantedByPid(parent, c, tab) ==
  tab[parent].state = "WAITING" /\ tab[parent].want = tab[c].pid
WantedInAnyState(parent, c, tab) ==
  tab[parent].want \in {0, tab[c].pid}

\* Whether the parent waits for c.
Wanted(parent, c, tab) ==
  /\ tab[parent].state = "WAITING"
  /\ tab[parent].want \in {0, tab[c].pid}

Zombify(c, tab, qs) ==
  LET found  == PcbFind(tab, tab[c].ppid)
      parent == Min(found)
      wanted == Wanted(parent, c, tab)
  IN  \/ /\ found = {}
         /\ Panic("no process parent")
         /\ pcbs' = tab /\ queue' = qs
         /\ report' = NoReport
         /\ UNCHANGED freeStacks
      \/ found # {} /\ wanted  /\ GiveToParent(c, parent, tab, qs)
      \/ found # {} /\ ~wanted /\ LeaveZombie(c, tab, qs)

(***************************************************************************)
(* _dispatch, one iteration per step.                                      *)
(***************************************************************************)
NonEmpty == {i \in ReadyQs : queue[i] # <<>>}
Head1    == queue[Min(NonEmpty)][1].data
Popped   == [queue EXCEPT ![Min(NonEmpty)] = RemoveAt(@, 1)]

\* No ready queue holds anything: the machine stops.
DispatchNothing ==
  /\ mode = "dispatch" /\ NonEmpty = {}
  /\ Panic("all queues empty")
  /\ report' = NoReport
  /\ UNCHANGED <<pcbs, current, nextPid, queue, freeStacks>>

\* The process at the head of the best queue runs, or was killed meanwhile.
DispatchHead ==
  /\ mode = "dispatch" /\ NonEmpty # {}
  /\ pcbs[Head1].state # "KILLED"
  /\ current' = Head1
  /\ queue' = Popped
  /\ IF pcbs[Head1].state = "READY"
     THEN /\ pcbs' = [pcbs EXCEPT ![Head1].state = "RUNNING"]
          /\ mode' = "user"
          /\ UNCHANGED panic
     ELSE /\ Panic("non-ready")
          /\ UNCHANGED pcbs
  /\ report' = NoReport
  /\ UNCHANGED <<nextPid, freeStacks>>

DispatchKilled ==
  /\ mode = "dispatch" /\ NonEmpty # {}
  /\ pcbs[Head1].state = "KILLED"
  /\ current' = Head1
  /\ Zombify(Head1, pcbs, Popped)
  /\ UNCHANGED nextPid

Dispatch == DispatchNothing \/ DispatchHead \/ DispatchKilled

\* _q_reset: a queue without entries.
NoEntries == <<>>

\* Every stack freed by _stack_init, but the first, which _init takes.
FreshStacks == [i \in 1 .. NStacks - 1 |-> i + 1]

(***************************************************************************)
(* _pcb_init, _stack_init, _sched_init and the end of _init: the first     *)
(* process owns the first PCB and the first stack.  Its state is never     *)
(* set, so it runs as FREE until it is first scheduled.                    *)
(***************************************************************************)
ProcInit ==
  /\ pcbs = [p \in PCBs |->
               IF p = 0 THEN [ClearPcb EXCEPT !.pid = PID_INIT,
                                !.ppid = PID_INIT, !.stack = 1]
                        ELSE ClearPcb]
  /\ current = 0
  /\ nextPid = PID_INIT + 1
  /\ queue = [n \in Queues |->
                IF n = Avail THEN [i \in 1 .. NPcbs - 1 |-> Entry(i, 0)]
                             ELSE NoEntries]
  /\ freeStacks = FreshStacks
  /\ mode = "user"
  /\ panic = "none"
  /\ report = NoReport
=============================================================================
