------------------------------ MODULE Syscall -------------------------------
(***************************************************************************)
(* The system calls of kernel/syscall.c that change kernel state.  Each is *)
(* a step of the current process, taken while the kernel is idle; a call   *)
(* that ends in _dispatch leaves the kernel in mode "dispatch".  What a    *)
(* user process does between its calls is not modelled: any process may    *)
(* make any call of its workload with any argument.                        *)
(***************************************************************************)
EXTENDS Process

CONSTANTS
  Calls,         \* the calls the workload's processes make, init excepted
  InitCalls,     \* the calls init makes
  Ticks,         \* arguments of sleep()
  Times          \* arguments of settime()

AllCalls == {"setprio", "settime", "sleep", "fork", "exec", "readc", "kill",
             "wait", "exit"}

ASSUME CallsAssumption == Calls \subseteq AllCalls /\ InitCalls \subseteq AllCalls
ASSUME TimesAssumption == Ticks \subseteq Nat /\ Times \subseteq 0 .. TimeMod - 1

VARIABLES
  time,       \* _system_time
  input       \* how many received characters _sio_readc can return

vars == <<procVars, time, input>>

Me == pcbs[current]
Call(name) == /\ mode = "user"
              /\ name \in IF Me.pid = PID_INIT THEN InitCalls ELSE Calls

\* _sys_setprio: any byte is accepted.
SysSetprio ==
  \E prio \in Prios :
    /\ Call("setprio")
    /\ pcbs' = [pcbs EXCEPT ![current].prio = prio]
    /\ report' = NoReport
    /\ UNCHANGED <<current, nextPid, queue, freeStacks, mode, panic, time, input>>

SysSettime ==
  \E t \in Times :
    /\ Call("settime")
    /\ time' = t
    /\ report' = NoReport
    /\ UNCHANGED <<pcbs, current, nextPid, queue, freeStacks, mode, panic, input>>

\* _sys_sleep: queued under the wakeup time, which wraps with the clock.
SysSleep ==
  \E ticks \in Ticks :
    /\ Call("sleep")
    /\ pcbs' = [pcbs EXCEPT ![current].state = "SLEEPING"]
    /\ queue' = [queue EXCEPT
                   ![Sleep] = QInsert(@, current, (time + ticks) % TimeMod)]
    /\ mode' = "dispatch"
    /\ report' = NoReport
    /\ UNCHANGED <<current, nextPid, freeStacks, panic, time, input>>

\* _sys_fork: needs a PCB and a stack.  When there is no stack the PCB goes
\* back to the end of the free list; otherwise the child is made ready and
\* the parent goes on.
SysFork ==
  /\ Call("fork") /\ nextPid <= MaxPid
  /\ queue[Avail] # <<>>
  /\ LET child == queue[Avail][1].data
         taken == [queue EXCEPT ![Avail] = RemoveAt(@, 1)]
     IN  IF freeStacks = <<>>
         THEN /\ queue' = FreePcb(taken, child)
              /\ pcbs' = [pcbs EXCEPT ![child] = ClearPcb]
              /\ UNCHANGED <<nextPid, freeStacks>>
         ELSE /\ pcbs' = MarkReady(
                   [pcbs EXCEPT ![child].pid = nextPid,
                                ![child].ppid = Me.pid,
                                ![child].prio = Me.prio,
                                ![child].stack = freeStacks[1]], child)
              /\ queue' = Ready(taken, child, Me.prio)
              /\ freeStacks' = Tail(freeStacks)
              /\ nextPid' = nextPid + 1
  /\ report' = NoReport
  /\ UNCHANGED <<current, mode, panic, time, input>>

\* _sys_exec: the process goes to the back of its new ready queue.
SysExec ==
  \E prio \in Prios :
    /\ Call("exec")
    /\ pcbs' = MarkReady([pcbs EXCEPT ![current].prio = prio], current)
    /\ queue' = Ready(queue, current, prio)
    /\ mode' = "dispatch"
    /\ report' = NoReport
    /\ UNCHANGED <<current, nextPid, freeStacks, panic, time, input>>

\* Fault: a character is taken that is not there.
ReadcUnchecked ==
  /\ Call("readc")
  /\ input' = input - 1
  /\ report' = NoReport
  /\ UNCHANGED <<pcbs, current, nextPid, queue, freeStacks, mode, panic, time>>

\* _sys_readc: take a character, or join _reading.  What is set to BLOCKED
\* is the termination status, not the state.
SysReadcNow ==
  /\ Call("readc") /\ input > 0
  /\ input' = input - 1
  /\ report' = NoReport
  /\ UNCHANGED <<pcbs, current, nextPid, queue, freeStacks, mode, panic, time>>

SysReadcBlock ==
  /\ Call("readc") /\ input = 0
  /\ pcbs' = [pcbs EXCEPT ![current].status = BLOCKED]
  /\ queue' = [queue EXCEPT ![Reading] = QInsert(@, current, Me.pid)]
  /\ mode' = "dispatch"
  /\ report' = NoReport
  /\ UNCHANGED <<current, nextPid, freeStacks, panic, time, input>>

\* _sys_kill: the target is only marked.  When it is the caller, _schedule
\* marks it READY again before the dispatch.
SysKill(pid) ==
  /\ Call("kill") /\ PcbFind(pcbs, pid) # {}
  /\ LET p == Min(PcbFind(pcbs, pid))
         marked == [pcbs EXCEPT ![p].state = "KILLED"]
     IN  IF p = current
         THEN /\ pcbs' = MarkReady(marked, p)
              /\ queue' = Ready(queue, p, Me.prio)
              /\ mode' = "dispatch"
         ELSE /\ pcbs' = marked
              /\ UNCHANGED <<queue, mode>>
  /\ report' = NoReport
  /\ UNCHANGED <<current, nextPid, freeStacks, panic, time, input>>

(***************************************************************************)
(* _sys_wait.  The caller's info structure names a pid, or 0 for any       *)
(* child.  The scan of the process table stops at the first zombie child;  *)
(* when there is none it ends with i = N_PCBS, the test "i > N_PCBS" is    *)
(* false, and pcb is left at the last entry of the table.                  *)
(***************************************************************************)
ZombieKids == {p \in PCBs : pcbs[p].ppid = Me.pid /\ pcbs[p].state = "ZOMBIE"}

\* The PCB the wait is about: the named one, or where the scan stopped.
WaitFor(pid) == IF pid > 0 THEN Min(PcbFind(pcbs, pid))
                ELSE IF ZombieKids # {} THEN Min(ZombieKids)
                ELSE NPcbs - 1

\* A named process that does not exist.
SysWaitNotFound ==
  \E pid \in 1 .. MaxPid :
    /\ Call("wait") /\ PcbFind(pcbs, pid) = {}
    /\ report' = Report(current, pid, E_NOT_FOUND, FALSE)
    /\ UNCHANGED <<pcbs, current, nextPid, queue, freeStacks, mode, panic, time,
                   input>>

\* A zombie: it is taken off _zombie by its pid and released.
SysWaitReap ==
  \E pid \in 0 .. MaxPid :
    /\ Call("wait")
    /\ pid > 0 => PcbFind(pcbs, pid) # {}
    /\ LET z == WaitFor(pid)
           hits == EqHits(queue[Zombies], pcbs[z].pid)
           dead == queue[Zombies][Min(hits)].data
           left == [queue EXCEPT ![Zombies] = QRemoveFirst(@, hits)]
       IN  /\ pcbs[z].state = "ZOMBIE"
           /\ report' = Report(current, pcbs[z].pid, pcbs[z].status, TRUE)
           /\ IF hits = {}
              THEN /\ Panic("zombie not on queue")
                   /\ UNCHANGED <<pcbs, queue, freeStacks>>
              ELSE IF pcbs[dead].stack = NULL
              THEN /\ Panic("stack free status")
                   /\ queue' = left
                   /\ UNCHANGED <<pcbs, freeStacks>>
              ELSE /\ freeStacks' = FreeStack(pcbs[dead].stack)
                   /\ queue' = FreePcb(left, dead)
                   /\ pcbs' = [pcbs EXCEPT ![dead] = ClearPcb]
                   /\ UNCHANGED <<mode, panic>>
    /\ UNCHANGED <<current, nextPid, time, input>>

\* Anything else: the caller joins _waiting.
SysWaitBlock ==
  \E pid \in 0 .. MaxPid :
    /\ Call("wait")
    /\ pid > 0 => PcbFind(pcbs, pid) # {}
    /\ pcbs[WaitFor(pid)].state # "ZOMBIE"
    /\ pcbs' = [pcbs EXCEPT ![current].state = "WAITING", ![current].want = pid]
    /\ queue' = [queue EXCEPT ![Waiting] = QInsert(@, current, Me.pid)]
    /\ mode' = "dispatch"
    /\ report' = NoReport
    /\ UNCHANGED <<current, nextPid, freeStacks, panic, time, input>>

\* Fault: the children keep their parent.
OrphansLeft(code) ==
  [p \in PCBs |-> [pcbs[p] EXCEPT !.arg = IF p = current THEN code ELSE @]]

\* _sys_exit: the children go to init, then _zombify.
Exiting(code) ==
  [p \in PCBs |-> [pcbs[p] EXCEPT !.ppid = IF @ = Me.pid THEN PID_INIT ELSE @,
                                  !.arg  = IF p = current THEN code ELSE @]]
SysExit ==
  \E code \in ExitCodes :
    /\ Call("exit")
    /\ Zombify(current, Exiting(code), queue)
    /\ UNCHANGED <<current, nextPid, time, input>>

Syscalls ==
  \/ SysSetprio \/ SysSettime \/ SysSleep \/ SysFork \/ SysExec
  \/ SysReadcNow \/ SysReadcBlock
  \/ \E pid \in 0 .. MaxPid : SysKill(pid)
  \/ SysWaitNotFound \/ SysWaitReap \/ SysWaitBlock \/ SysExit
=============================================================================
