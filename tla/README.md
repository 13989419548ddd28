# HostOS in TLA+

A formal model of the HostOS kernel: what its parts do, checked by TLC on small
instances, and what can be proved of every instance, proved with TLAPS. Paths
below are relative to the repository; `syscall.c` and the like are in
`src/kernel/`.

## 1. The system

HostOS is a teaching kernel for one IA-32 machine. Processes share one address
space, enter the kernel through `int` and are preempted by the clock. Every
handler (the system calls, the clock, the serial line) is installed as an
interrupt gate, so interrupts are off while it runs and **a handler runs to
completion**; what interleaves is whole handlers, on behalf of different
processes and devices. Code to start other processors exists (`src/smp/bsp.c`),
but its call is commented out. User code, in contrast, is interrupted anywhere,
and it calls the console library (`src/lib/c_io.c`) directly: that library's
variables are shared by all processes and the keyboard interrupt, with no lock.
The USB driver is a process too: it sleeps, polls, and is interrupted, while the
controller works beside it. Before all that, start-up is a sequence whose only
unknown is the machine: the disk, its errors, memory that is not zero, the
processor.

| Component | Source | State | Operations |
|---|---|---|---|
| generic queues | `queue.c`, `include/queue.h` | `_qnodes`, `_qnode_avail`, each `queue_t` | `_q_append`, `_q_insert`, `_q_remove`, `_q_remove_by_key`, `_q_reset` |
| process table | `process.c`, `include/process.h` | `_pcbs`, `_current`, `_next_pid`, `_pcb_avail`, `_sleep`, `_reading`, `_waiting`, `_zombie` | `_pcb_alloc`, `_pcb_free`, `_pcb_find` |
| stacks | `stack.c` | `_stacks`, `_stack_avail` | `_stack_alloc`, `_stack_free` |
| scheduler | `scheduler.c` | `_ready[]` | `_schedule`, `_dispatch` |
| clock | `clock.c` | `_system_time` | `_isr_clock` |
| system calls | `syscall.c` | the jump table | `_sys_*` |
| termination, start-up | `system.c` | | `_zombify`, `_init` |
| serial line | `sio.c` | two buffers with pointers and counts, `_sending`, `_ier` | `_isr_sio`, `_sio_readc`, `_sio_reads`, `_sio_writec`, `_sio_writes`, `_sio_enable`, `_sio_disable` |
| console, keyboard | `src/lib/c_io.c` | screen, cursor, keyboard ring | `c_putchar`, `c_scroll`, `c_printf`, `c_printf_at`, `c_puts_at`, `c_getchar`, the keyboard ISR |
| chunk allocator | `src/mm/mm.c` | `alloc_addr`, `base_mngr`, chunks with headers and footers in memory | `kalloc`, `kfree`, `_mngr_init`, `_cm_alloc`, `_cm_free` |
| frames, paging | `src/mm/framefunc.c`, `paging.c` | frame bitmap, directory, page tables, `cr3` | `_paging_init`, `falloc`, `get_page` |
| processors | `src/smp/bsp.c`, `src/lib/mutex.c`, `src/boot/trampoline.S` | the array of processors | `initSMP`, `checkCPUs`, `startup_cpus` (`startup_CPU` is not called) |
| image and loader | `src/utils/BuildImage.c`, `src/boot/bootstrap.S` | the disk, its table; the loader's registers | `process_file`, `main`; `readprog`, `nextblock` |
| PCI | `src/drivers/PCI/pci.c` | the recursion over the buses | `_pci_init`, `_pci_list` |
| USB | `src/drivers/USB/usb_ehci.c` | controller registers, `port_statuses`, the circle of queue heads | `usb_ehci_init`, `_isr_usb_int` |
| user programs | `src/test/`, `src/lib/ulibc.c` | the shell's list of programs | workloads, `load_process` |

**How they interact.** Every process is a PCB. The kernel keeps PCBs on nine
kinds of queue and moves them by hand: `fork` takes one off `_pcb_avail` and
schedules it; `sleep`, `readc` and `wait` put the caller on `_sleep`, `_reading`
or `_waiting` and call `_dispatch`; the clock and the serial ISR take processes
off `_sleep` and `_reading` and call `_schedule`; `exit` calls `_zombify`, which
either hands the dead process to a waiting parent (taking the parent off
`_waiting`) or queues it on `_zombie`, where `wait` finds it. `kill` only sets
the target's state; `_dispatch` calls `_zombify` when it meets it.

**What is hard here.** Not data, but protocol: several pieces of state (the
queue a PCB is on, its `state`, its key on the queue, its stack, its parent)
must be kept in agreement by a dozen handlers, over sequences of calls of
several processes no test writes down. Wakeups can be missed (an exit around a
`wait`, a character around a `readc`), the same process can be found by two
handlers, allocation fails half way, time wraps, and the linked lists reuse
their nodes. Section 6 lists the hazards that are not covered yet, and
`PROJECT.json` lists all, each at its line.

**What makes each part correct.**

* *queues*: each queue is the sequence of entries its callers think it is; a
  sorted queue stays sorted and first-in first-out among equal keys; no qnode
  is lost or on two lists.
* *process table, stacks, scheduler, calls, termination*: a PCB has exactly one
  home and a state that agrees with it; stacks and live processes are one to
  one; pids identify; parents exist; nobody waits for what has already
  happened; the consistency checks never fail.
* *clock*: sleepers wake at their tick; the loop ends.
* *serial line*: two streams, nothing lost, repeated or reordered; no
  character is stranded.
* *console*: printers stay inside the scrolling region and get out; a text
  printed alone is what the screen shows; every key is delivered once, in order.
* *formatted output*: every directive prints its own argument in full (`%o` does
  not: section 4); what is printed at a place is one line there.
* *image and loader*: every sector of every program is in memory where the
  command line asks, whatever reads are repeated.
* *paging*: switching it on moves nothing that is in use.
* *chunk allocator*: blocks given out are disjoint, and neither call breaks a
  sound heap.
* *PCI and USB*: buses are addressed by their own numbers; no change of a port
  goes unreported; the list the controller walks is closed.

## 2. The modules

| Module | Models | Role |
|---|---|---|
| `KeyedQueue` | what `queue.c` promises, as operators on sequences | used by all below |
| `Process` | `process.c`, `stack.c`, `scheduler.c`, `_zombify` | state, and the steps handlers are made of |
| `Syscall` | `syscall.c` | one action per system call (two or three where a call has different outcomes) |
| `Kernel` | `clock.c`, the input side of `sio.c`, the whole | composition and properties |
| `MCKernel` | | instances for TLC |
| `KeyedQueueProofs`, `KernelProofs` | | theorems: queues; the moves handlers are made of, and every handler |
| `LifecycleProofs` | | theorems: stacks, pids, readers, zombies, orphans, sleepers, the qnode pool |
| `QueueSpec` | what `queue.c` promises, as a state machine | abstract |
| `QnodeList`, `MCQnodeList` | `queue.c` as written: doubly linked lists over a fixed pool | shown to implement `QueueSpec` |
| `QnodeListProofs` | | theorems: the lists are well formed, `QnodeList` implements `QueueSpec` |
| `SioSpec` | what `sio.c` promises: two streams | abstract |
| `Sio`, `MCSio` | `sio.c` as written: buffers, pointers, interrupt enables | shown to implement `SioSpec` |
| `SioProofs` | | theorems: the transmitter; `Sio` implements `SioSpec` |
| `Screen` | the scrolling output of `c_io.c`, per load and store of the cursor | part of the console |
| `Keyboard`, `MCConsole` | the keyboard interrupt and `c_getchar`, which echoes through `Screen` | composition, properties |
| `KeySpec` | what the keyboard promises: a bounded first-in first-out buffer | abstract |
| `Printf` | `c_printf` through `c_putchar`, `c_printf_at` beside it: conversions, padding, columns | extends `Keyboard`; the console's whole |
| `ConsoleProofs` | | theorems: `Printf` implements `KeySpec`; scrolling stays in its region; the text a process prints; what directives print, and where |
| `Loader` | `BuildImage.c` and the loader in `bootstrap.S` | first half of start-up |
| `Heap` | `mm.c`, as operators on a heap record whose `mem` are the words of memory | used by `Startup` |
| `Startup`, `MCStartup` | `_paging_init`, `initSMP`, then callers of `kalloc` and `kfree` | composes `Loader` and `Heap` |
| `StartupProofs` | | theorems: the disk and the memory the loader fills; what paging maps; the blocks of the heap |
| `Pci` | `_pci_list`, one function of a bus per step | first half of the scan |
| `Usb`, `MCUsb` | the driver process, its ISR, the controller, devices and firmware | extends `Pci` |
| `UsbProofs` | | theorems: port changes, the circle of queue heads, bus numbers |

### State and code

`Process` numbers the queues: the ready queues are `0 .. NPriorities - 1`, then
`Avail` (`_pcb_avail`), `Sleep`, `Reading`, `Waiting`, `Zombies`. `queue[n]` is a
sequence of entries `[data, key]`, and `QnodeList` is why that is a faithful
picture of `queue.c`. A PCB is a record with `state`, `pid`, `ppid`, `prio`,
`stack` and `status` as in `pcb_t`, and two fields that stand for what the
kernel reads through the context pointer: `want`, the pid in the info structure
a waiting process passed, and `arg`, the argument of `exit`. `sleeptime` is left
out (nothing reads it), and so are the contexts and the stacks' contents.
`report` shows what the last step wrote into a caller's info structure, so that
properties can speak of it.

Numbers: `TimeMod` is the 2^32 of `_system_time` and of keys. Pids do not wrap in
the model (`MaxPid` stops `fork`). The state constants are names, except
`BLOCKED`, which `readc` stores into `status` as a number.

### One handler, one step

A handler is one atomic action, with two exceptions, both loops: the wake loop
of `_isr_clock` and the loop of `_dispatch`. They are modelled one iteration per
step so that "the loop ends" is something a run can refute. The variable `mode`
holds the place: `"user"` (user code runs, any call or interrupt may come),
`"wake"`, `"dispatch"`, `"panic"`. In a mode other than `"user"` only the next
iteration is enabled, so this adds no interleaving the machine does not have.

| Model | Code |
|---|---|
| `SysFork` ... `SysExit` | `_sys_fork` ... `_sys_exit`, up to the call of `_dispatch` |
| `ZombieKids`, `WaitFor` | the scan of `_sys_wait`, with the test `i > N_PCBS` as it is (never true) |
| `Exiting`, `Zombify`, `GiveToParent`, `LeaveZombie` | reparenting in `_sys_exit`, then `_zombify` |
| `DispatchNothing`, `DispatchHead`, `DispatchKilled` | one iteration of `_dispatch` |
| `ClockTick`, `ClockWake`, `ClockPreempt` | `_isr_clock` before, inside and after its loop |
| `SioWake`, `SioBuffer` | the receive event of `_isr_sio` |
| `Halted` | `__panic` does not return |

The console is the exception to "a handler is a step": `c_putchar` and
`c_getchar` run as user code, so each of their loads and stores of a shared
variable is a step (`pc` is the place, `tmp` the loaded value; the build does
not optimise, so `curr_x += 1` is two). The keyboard interrupt is one step. Only
the cells are coarser: `c_scroll` moves all of them at once, and writing a cell
reads both coordinates at once. `text` and `printers` are history, for
`ShowsText`, which compares the screen with the end of an endless sheet the text
is typed on.

Formatted output sits on top: `Printf` turns one directive into characters in
one step (`queue`), which `c_putchar` then prints in its own steps among other
processes' and the keyboard's, or which `PutsAt` writes at a place (`fx`, `fy` are
`x` and `y` of `__c_do_printf`). The least integer has no opposite; `Quotient` and
`LastDigit` give the two constants `cvtdec0` has for it. A character is a byte other
than 0; what `c_putchar_at` takes for a newline is one without its highest bit
(`Erases`), `c_putchar` compares all eight. The attributes of a cell, which the sign
of a `char` above 127 sets too, are left out.

**Start-up** is a sequence of deterministic steps with the machine's answers as
alternatives. A sector is its name, an address a number; the registers of the
loader are variables of their names, `written` is the log of its reads. The
heap's headers, in contrast, are kept word by word (`mem`), because what goes
wrong in `mm.c` is that two chunks disagree about the same word. Once paging is
set up, `Alloc` and `Release` stand for any caller, in any order; `ShellLoads` is
the one the running kernel has. Nothing calls `kfree` today: `SoundStep` is about
the library's promise. No caller's size is not a multiple of 4. `h ## <<a, v>>` is
the heap after the store `*a = v`; a row of them reads like the code, in its order.

**PCI and USB.** `_pci_init` runs as a process, in the build with `SPAWN_PCI_TEST`
(`test/user.h:66`, `test/user.c:676`; the call in `system.c:298` is commented out).
The driver's registers are touched by the controller between any two accesses,
so each is a step; the handler runs to completion with respect to the driver
(`isr = -1`), not to the controller. `late` is history: which ports changed in
the window in which nobody will be told. What `_pci_list`'s caller finds in the
result register is a choice of `Garbage`: with the `-O0` build of a newer compiler
the loop's bound, else the last word read. `port_statuses` has room for 8 ports and
the register counts to 15 (`usb_ehci.c:13`, `usb_ehci.c:65`); with more than 8 the handler
writes past the array, so `PortsAssumption` ends there.

One kind of panic is left out: that of a queue operation that fails for want of
a qnode, of which there are `N_PCBS + N_STACKS + 5`. `QnodesSuffice` says that
this cannot happen. The other consistency checks are in the model, and
`OnlyWorkloadPanics` says they never fail.

Definitions marked *Fault* in the modules are plausible bugs (a dropped reset,
an off-by-one). None is part of a specification; each shows, put in place of
the definition after it, that the property it is paired with in
`PROJECT.json` notices.

## 3. The runs

All runs bound the number of PCBs, stacks and pids; the queues can be no longer
than that. Two processes are enough for every hand-over (parent and child,
reader and interrupt), three for every confusion between two of them.

| Run | Instance | Properties |
|---|---|---|
| `lifecycle` | 4 PCBs, 3 stacks, pids to 4; everybody, init too: fork, exec, wait, exit, kill, setprio, settime | `UniqueHome`, `StateMatchesHome`, `OnlyWorkloadPanics`, `StackOwnership`, `QnodesSuffice`, `PidsIdentify`, `NoMissedZombie`, `LeavesNoOrphans` |
| `blocking` | 3 PCBs, clock to 2 of 8, sleeps of 1 and 2, one-character buffer; fork, exit, sleep, kill, readc, wait | `TypeOK`, `NoMissedInput`, `NoOversleep`, `WakesOnTime`, `KilledNeverRuns` |
| `liveness` | 2 PCBs, two priorities, clock wraps at 4, fairness; fork, exec, exit, sleep, kill, wait | `HandlersReturn`, `SleepersWake`, `BestPriorityRuns` |
| `qnode_list` | 3 qnodes, three queues (unordered, by pid, by time), 2 data, keys 0 and 1 | `NoQnodeLost`, `DoublyLinked`, `KeepsPromise` |
| `sio_streams` | buffers of 3, one reader, characters x, CR, LF, fairness | `NothingStranded`, `KeepsStreams`, `TransmitterFree`, `SequenceEnds` |
| `console` | 2 columns, a fixed line above 2 that scroll, two printers, keyboard buffer of 3, some 400 calls of the printf family, fairness | `ShowsText`, `AtShowsLine`, `KeepsKeys`, `OutsideUntouched`, `KeyDelivered`, `PutcharReturns`, `PrintsArguments` |
| `startup` | 11 command lines, a disk of 12 sectors of 8 bytes, segments of 4 sectors; 64 pages of 64 bytes; 3 memories at power-on; 4 calls of kalloc and kfree; fairness | `InPlace`, `KernelMapped`, `LiveDisjoint`, `DiskInOrder`, `SoundStep`, `StartupEnds` |
| `usb` | 3 machines of up to 3 buses, 2 ports, 2 events, two register contents, fairness | `NumbersMatch`, `ChangeNoticed`, `RingClosed`, `PlugNoticed` |
| `killed` | 2 PCBs; fork, kill, sleep | violates `KilledStaysKilled` |
| `wait_status` | 2 PCBs; fork, wait, exit | violates `WaitReportsStatus` |
| `printers` | 1 column, 3 lines that scroll; the shell prints 1 character, init 4 | violates `ScrollsOnlyAtBottom` |
| `cpus` | as `startup`, with 2 processors | violates `SmpKeepsHeap` |

Why the bounds are enough. In `lifecycle` a PCB is reused while another process
still knows the pid it had, there is one stack less than there are PCBs, so
`fork` fails half way, and a process can have a parent, a child and a sibling.
Every process makes every call, which is more than `test/user.c` does. In
`blocking` the clock stops before it wraps, because `NoOversleep` and
`WakesOnTime` compare times as plain numbers; `liveness` has the wrap, every tick
of it. `lifecycle` has no property about time, since it sets the clock.
`qnode_list` can exhaust the pool with any split between the queues; three
entries are the first length at which a list has a middle. Its `VIEW` leaves out
`answer`, which no operation reads, and its symmetry exchanges the two data. A
serial buffer of three has a first, a middle and a last cell, and CR LF fits
into two of them.

`sio_streams` stops where a buffer overruns (`overrun`): from there on the code
has no defined behaviour. That overruns happen is visible in `RxStore`
(`_inlast` goes back only when the buffer is empty, while the test at `sio.c:160`
is on the count) and in `StoreOut`: `_sio_writec` stores without bound and without
wrapping, while `_sio_writes` and the ISR wrap. `Strings`
holds buffers that do not begin with LF: for those `_sio_writes` (which has no
caller) would put the LF behind the rest.

`console` starts with one of six workloads, four without formatted output: one process prints five characters
out of `a`, newline and return (wrapping, and scrolling more than once); five
scan codes arrive (the buffer of three fills, discards and wraps); the shell
prints one character and init two; init prints one while one key is typed and
echoed. All interleavings of one workload are explored, not of all at once. The
codes are those of Enter, `d` (with Ctrl the end of file, which is not echoed),
F1, Shift and Ctrl. The scan code table has the entries the runs use. F1 has no
character: its mark is 255, `'\377'` (`c_io.c:612`) is -1, so it is stored, as the
model has it. The other two are calls of the printf family, one at a time, alone
or while a key is typed: every conversion, alignment, fill and width (0, less than
a text, more), with arguments at the boundaries of 32 bits, at places inside, at
the edge of and outside the region; and formats of several directives, an unknown
one among them, over several lines.

`startup`. The scale keeps the ratios that matter: a segment is several sectors,
a page several headers, a page table covers less than the memory, the table of
programs has less room than the array it is built in. The command lines are
those of the Makefile, flat and as pairs, and one for every refusal and every
trap: not on a sector boundary, a full table, one too many, a negative
segment, an empty program, one that wraps in its segment, one too large, one that
uses up the disk. The memories at power-on are clean, sparse and full (then
`find_frame` finds nothing). Four calls after start-up are enough to split,
free, merge and split again. `CHECK_DEADLOCK FALSE` because start-up ends.
`MaxChunks` (16) is more than any heap of the run has.

`usb` has a controller behind two bridges, one next to a bridge, and one that is
reached or not depending on what a return leaves in the register; two ports are
a port read before and one read after the change; two events are a change and
one that hides it. It may stop: the driver ends in a panic, and a scan without a
controller ends.

### Fairness

* `WF(KernelStep)`: a handler goes on; nothing can interrupt it.
* `SF(ClockTick)`: the clock interrupt is held by the interrupt controller while
  a handler runs and is taken when user code next runs, so it is taken if user
  code runs again and again. Weak fairness would not do: processes may enter
  the kernel all the time.
* Nothing is assumed of processes: they may loop, or block, for ever.
* In `Sio`: the UART sends the character it holds, and a pending transmit
  interrupt is taken.
* In `Keyboard`: a process inside `c_putchar` or `c_getchar` gets the CPU again.
  The shell waits for keys in a loop and never blocks; init has a better priority
  (`system.c:349`) but prints only between two waits. `Printf` adds no fairness.
* In `Startup`: `WF(Next)`. One processor runs a straight program; it goes on.
* In `Usb`: the handler goes on (`WF(Isr)`), the firmware lets the controller go
  (`WF(FirmwareReleases)`), and the driver's process gets the CPU again and again
  even if the controller interrupts it every time (`SF(Driver)`): it sleeps, and
  its sleeps end by the clock.

## 4. What the runs found

* **A killed process can run on** (`killed`). `kill` sets `state = KILLED`
  (`syscall.c:429`) and relies on `_dispatch` to clean up (`syscall.c:427`); if
  the target sleeps or reads, the ISR that wakes it calls `_schedule`, which
  sets `READY`. `KilledNeverRuns` shows that no other step between two handlers
  takes the mark off: wait, exit and dispatch honour it.
* **The exit status can be lost** (`wait_status`). `wait` on a zombie reports
  `pcb->status` (`syscall.c:551`), which `exit` never sets; only a parent already
  waiting gets the argument of `exit`. `ulib.h:90` promises it in any case.
* **Two printers can wipe the screen** (`printers`). A stale `curr_y += 1` of one
  lands between the other's test and its use of `curr_y` in `c_scroll( curr_y -
  scroll_max_y )` (`c_io.c:167-168`); the unsigned difference is larger than the
  region. Likewise the cursor can be pushed past the edge by more than one
  place per printer; `OutsideUntouched` shows that the guards of
  `__c_putchar_at` and the loops of `c_scroll` contain all of it.
* **A second processor ruins the heap** (`cpus`). `initSMP` asks for 4 bytes per
  processor (`bsp.c:254`), `startup_cpus` writes 8 (`bsp.c:221-226`): the `state` of
  processor 1 is the size of the free chunk behind the array, which is then 2
  bytes long, and every later `kalloc` of more returns 0, which `load_process`
  (`cakesh.c:70`) does not test.

What translating the code showed, and no run of its own repeats:

* **A process cannot kill itself**. `_sys_kill` marks the caller and
  hands it to `_schedule` before it dispatches (`syscall.c:429-435`), which sets
  `READY` over the mark (`scheduler.c:73`). Both happen inside one call, so no state
  shows the process as KILLED, and `KilledNeverRuns`, which looks at marked
  processes, does not speak of it. `ulib.h:142` promises the specified process's end.
* **Octal numbers are wrong**. `cvtoct` takes two bits as the first digit
  (`c_io.c:344`) and then shifts by three like everywhere else (`c_io.c:353`): bit 29
  is lost, every digit is taken one bit too low, and the last is `(value & 3) << 1`.
  `%o` of 7 prints 16, of 8 it prints 20. The first digit's shift is signed, so a
  negative number begins with 6 or 7 besides. `c_io.h:47` promises an
  octal value. `cvtoct` in `Printf` is the code's; `PrintsArguments` leaves `%o` out.
* **The ring of queue heads opens**. `usb_ehci.c:250-254` clears each link in
  one write and sets it in another while the controller follows them (the
  Makefiles ask for no optimisation that would join the two). `docs/usb/usb_ehci:16`
  calls the schedule a circularly linked queue. `RingClosed` shows that these are
  the only two moments.

What the models of start-up and the drivers show besides, though no doc or comment
says otherwise:

* `_paging_init` clears a quarter of the frame bitmap, `find_frame` falls off its
  end when nothing is free, and the heap's size is overstated by a page.
  `KernelMapped` holds all the same: what is in use by then lies in the quarter.
* `_cm_alloc` leaves footers and back links stale, splits chunks without room for
  a header, gives aligned requests a block at a page *plus 8*, and records a size
  that is not theirs; `_cm_free` takes a free neighbour that starts on a page for
  an aligned one. `SoundStep` names the four conditions under which a call keeps
  the heap sound; `LiveDisjoint` shows that without frees none of it matters.
* An empty first program ends the table; a table that fills its room has no end,
  and the loader goes on with the GDT ("wild"); a program at an offset that is no
  multiple of a sector wraps in its segment; the last sector of the last track
  is "too big" even if it was the last one needed. `Sensible` is the complement.
* A change of a port between the handler's copy and its acknowledgement is
  announced to nobody (`late`); a low speed device's change bit is never cleared,
  so what is plugged into that port later raises no interrupt; and a device that
  was there at start-up has its bit cleared by the reset and is never interrogated.

## 5. The proofs

Eight modules hold the theorems, each for every value of the constants that
meets the assumptions named in the modules (`SizesAssumption` and its like:
sizes are positive, there are at most 8 USB ports, inputs have their types, a
string to send is not empty, a program argument is what `process_file` parses, a function of a bus is a device or a
bridge). Where a theorem needs more, its hypothesis has a name and is listed
here.

| Module | Theorem | Statement | Hypothesis |
|---|---|---|---|
| `KernelProofs` | `Invariance` | `Spec => []IInv` | |
| | `TypesKept` | `Spec => []TypeOK` | |
| | `PcbsHaveOneHome` | `Spec => []UniqueHome` | |
| | `StatesMatch` | `Spec => []StateMatchesHome` | |
| | `ChecksNeverFail` | `Spec => []OnlyWorkloadPanics` | |
| | `KeysStayPids` | `Spec => []KeysArePids` | |
| `LifecycleProofs` | `IdentityKept` | `Spec => []Identity` | |
| | `StacksOwned` | `Spec => []StackOwnership` | |
| | `PidsStayIdentities` | `Spec => []PidsIdentify` | |
| | `ReadersServed` | `Spec => []NoMissedInput` | |
| | `ZombiesSeen` | `Spec => []NoMissedZombie` | |
| | `KilledDies` | `Spec => KilledNeverRuns` | |
| | `HeirsInvariant` | `Spec => []Heirs` | |
| | `OrphansGoToInit` | `Spec => LeavesNoOrphans` | |
| | `NobodyOversleeps` | `Spec => []NoOversleep` | `ClockRuns` |
| | `SleepersWakeOnTime` | `Spec => WakesOnTime` | `ClockRuns`, no sleep of 0 |
| | `PoolSuffices` | `Spec => []QnodesSuffice` | |
| `QnodeListProofs` | `ListsWellFormed` | `Spec => []IInv` | |
| | `QnodesKept` | `Spec => []NoQnodeLost` | |
| | `BothDirections` | `Spec => []DoublyLinked` | |
| | `ListsKeepPromise` | `Spec => KeepsPromise` | |
| | `OrderKept` | `Spec => StaysSorted` | |
| `SioProofs` | `OutputNotStranded` | `Spec => []NothingStranded` | |
| | `TransmitterNotOverwritten` | `Spec => TransmitterFree` | |
| | `DriverKeepsStreams` | `Spec => KeepsStreams` | `NoLeadingLF` |
| `ConsoleProofs` | `BufferKeepsKeys` | `ConsoleSpec => KeepsKeys` | |
| | `RestUntouched` | `ConsoleSpec => OutsideUntouched` | `ScreenFits` |
| | `ArgumentsPrinted` | `ConsoleSpec => PrintsArguments` | |
| | `TextShown` | `ConsoleSpec => []ShowsText` | `ScreenFits`, `Undisturbed` |
| | `LineShown` | `ConsoleSpec => []AtShowsLine` | `Undisturbed` |
| `StartupProofs` | `DiskReadInOrder` | `Spec => DiskInOrder` | |
| | `SectorsInPlace` | `Spec => []InPlace` | |
| | `KernelStaysMapped` | `Spec => []KernelMapped` | `FewTables` |
| | `BlocksApart` | `Spec => []LiveDisjoint` | `FewTables`, `FitsHeap` |
| `UsbProofs` | `ChangesAreNoticed` | `Spec => []ChangeNoticed` | |
| | `RingStaysClosed` | `Spec => []RingClosed` | |
| | `ScanMatches` | `Spec => []NumbersMatch` | `DepthFirst` |

**The hypotheses.** Each holds in the runs that check the property in question.

* `ClockRuns`: the clock stops before a wakeup time can wrap, and nobody calls
  `set_time`. `_isr_clock` compares times as plain numbers, so with a wrap or a set
  clock a sleeper is woken early or late. That a sleeper wakes in the loop of its
  own tick needs a sleep of at least one: `_isr_clock` looks only after it has
  counted, so a sleep of no ticks ends a tick after its time.
* `NoLeadingLF`: no string given to `_sio_writes` begins with LF. That function has
  no caller; for such a string it stores the LF behind the characters that
  follow it (section 3).
* `ScreenFits`: at most 100 columns and 100 lines. `_init` asks `c_setscroll`
  (`system.c:278`) for a region up to column and line 99 and lets it cut that down to the screen;
  on a larger screen the region would end at 99. The hardware has 80 by 25.
* `Undisturbed`: while `c_printf_at` prints, no other process prints and nobody types.
  It holds no lock, and what somebody else puts in the same cells is
  then on the screen instead. `ShowsText` needs it only for such a call; the processes that
  print through `c_putchar` interrupt each other as they like.
* `FewTables`: the page tables, each of which takes a page and leaves one before it,
  end below the heap's end and inside the cleared quarter of the frame bitmap. It
  speaks of sizes only. With the source's, memory is in use up to 0x12C000; the
  limits are 0x111F000 and 0x400000.
* `FitsHeap(most)`: no request is larger than `most`, and the heap has room for all
  of them, each with a header and a page to spare; at most one processor is
  found. A full heap makes `kalloc` return 0, which callers use (`cakesh.c:70`); with
  more processors `initSMP` writes behind its block (run `cpus`).
* `DepthFirst`: the first bridge on each bus leads to the bus with the next
  number, which is how firmware numbers buses, and what `_pci_list` counts on.

### The kernel

None of the statements is inductive alone. That
`_dispatch` finds only READY and KILLED processes needs that states agree with
queues; that a step keeps states in agreement needs that the PCB it changes is
on the one queue the step took it from, and on no other; that `_zombify` finds
a WAITING parent on `_waiting` needs the state to determine the queue *and* the
key to be the pid; and that releasing a dead process cannot fail needs that
every PCB off the free list has a stack. `IInv` (in `KernelProofs`) says all
of it at once:

* `Placed(tab, Q, off)`: `tab` and `Q` are of the right type, no PCB is queued
  twice, exactly those in `off` are on no queue, and every entry *fits*: its
  PCB's state is one the queue admits, its key is the pid on the three queues
  searched by pid, and it has a stack unless it is free;
* `off` is `{current}` in user mode and in the wake loop, empty in `_dispatch`;
* together with `TypeOK` and `OnlyWorkloadPanics`.

`Placed` takes the table and the queues as arguments because it also holds
*inside* a handler, of intermediate values: a handler is a chain of moves
(take off, alter, put on), and there is one lemma per move. They
rest on `KeyedQueueProofs`: what inserting at a position or removing one does
to one queue (`InsertAtIs`, `RemoveAtIs`) and to a family of queues
(`FamilyInsert`, `FamilyRemove`). Then comes one lemma per
handler, `InitKeeps`, `NextKeeps`, and the theorems.

`LifecycleProofs` adds four layers, each inductive on top of the ones before it:

* `Identity`: `Owned` (a stack is on the free list once, or belongs to one PCB),
  `Named` (PCBs with a stack have different pids below `_next_pid`), `Spare` (PCBs
  without a stack are those on `_pcb_avail`). `StackOwnership` and `PidsIdentify`
  speak of live processes, hence of a queue; `Spare` turns that into a fact
  about one field. The two ways a dead process is released, and a `fork` that got a
  PCB and no stack, all go through `ReleaseKeeps` and its like.
* `NoneMissed(tab)`: no WAITING process but init has a zombie it waits for. Most
  steps are *calm* (nobody starts to wait or to be a zombie), and `CalmKeeps`
  disposes of them; what remains is `wait`, which looks before it blocks, and
  `_zombify`, which looks for the waiting parent before it leaves a zombie.
* `Heirs`: who has called `exit` (`arg # NoArg`) has no children (`Childless`), and
  is a zombie on its queue until released (`Buried`). The second half is what
  makes the first inductive: only a process that runs can fork a new child.
* `Ahead`: sleepers' keys lie ahead of the time, or at it while the wake loop
  runs. The loop takes entries that are due until none is left, and only then
  does user code run again; until the next tick nothing else can make one due.

`PoolSuffices` needs no layer of its own: no PCB is queued twice and no stack is
twice on the free list, so the entries inject into PCBs and stacks.

### The linked lists

`Chain` says that following `next` from `head` meets the qnodes of a sequence, one
after the other, and then null; `Backed` adds `prev`, `tail` and `length`. The
inductive `IInv` is: the free list is a chain, every queue is backed by its walk,
and every qnode is on exactly one of these lists, once. `Walk` follows the links by
a recursive function; `WalkIs` shows that a chain *is* the walk, by the least place
at which the two could differ, so that from there on lists are sequences.
`SpliceIn` and `SpliceOut` say what linking one qnode in or out between two
neighbours does to a list, `QnodeJoins` and `QnodeLeaves` what that means for the
pool; each operation of `queue.c` is one of them, with a case for either end of the
list, as in the code. For the refinement, `Content` of the new lists is shown to be the one
the promise names (`InsertInStep`, `RemoveInStep`), the place the code's loop finds
to be the one `QueueSpec` inserts at (`InsertPosIs`), and the pool to be used up
exactly when the promise allows `E_NO_QNODES` (`FullIs`: qnodes on no free list
and entries of queues are one to one). That a sorted queue stays sorted is part of the
promise, and `StaysSorted` says it outright; it is proved and not run.

### The serial line

`Transmitting` relates the flag, the interrupt enable and the transmit register, and
does not mention buffers, so it survives an overrun; `NothingStranded` and
`TransmitterFree` follow. `Ordered` holds until an overrun: unread characters lie
next to each other (`InOrder`), unsent ones go around the end of the buffer
(`OutOrder`), where `outlast` may have been left one behind the last cell by
`_sio_writec`, which does not wrap, while `outnext` has gone around or not:
hence three cases for `outlast`. The refinement is then one lemma per action
about what it does to the two sequences.

### The console

`Held` says that between its test and its move of the pointer `c_getchar` owns a
character no interrupt takes away: the keyboard interrupt may come at each of
those steps, and moves only the other pointer, up to one short of it. `CircleIs` and
the lemmas after it turn the circular buffer into the sequence `KeySpec` speaks
of. For `OutsideUntouched`, `CursorInside` keeps as little as is true: the cursor, and
what processes have loaded of it, may be anywhere to the right or below, never
above or left of the region. That it may be out of the region is why the guards
and the loops of the code, and not the cursor, carry the proof.

### Formatted output

`Converted` and `Value`, which reads a text back, are recursive. A recursive function
is a `CHOOSE`, so for each there is first a proof that a function with that
recursion exists and that all of them agree (`DecimalIs`, `ValueIs`). Both go by the
least place at which the claim could fail, since the library's induction cannot be
instantiated here; so does `DecimalReads`, by the least number that is printed wrong.
`cvthex` is not recursive, but 32 bits are more than the solver can
take apart at once: `SplitIs` cuts a text at the place where `Bits` cuts the number,
`PartOfPart` takes the digits of either half, and dropping zeros in front changes no
value (`ZerosInFront`). Of `cvtoct` only that it makes a text is proved, since the text is
the wrong one (section 4). `ArgumentsInStep` ties `ap` to `item`: it is one more than the
directives passed that take an argument, whatever letters were skipped. For
`AtShowsLine`, `LinePrefix` says that what has been written of `out` is on the screen
and what has not is `queue`, at every character; past the edge nothing is
written and the position goes on.

### The text on the screen

`Page` is a recursive function of the text; `PageIs` shows, as above, that such a
function exists, and `PageGrows` that a character more is one `Typed` more. From
there on the proof is one page and one character. `Stage` says, for every place of
`c_putchar`, what is on the screen when the page `s` has been typed and `c` is being
typed: between calls the page's last lines; after a scroll the same with a blank line
below; in the middle of a line `Partly`, where the columns before the cursor are done
and the others as they were. It goes cell by cell, since the code does. The cursor is in
the column of the page's; its row is that of the page, except that below the region it
waits for the next character to scroll. `CellShows` is a turn of the erasing loop or
a character put, `ScrolledShows` is `c_scroll` (a region of one line is cleared
instead), `TypedShows` the three ways out. `Followed` adds who prints: while there is
one printer at most, everybody else is outside `c_putchar`. `TypedIs` is about the
sheet alone: where a character goes in its last lines, whether or not one is added.

### Image and loader

`Laid` describes the disk `BuildImage` makes: each file's sectors once, in
order, each followed by the next one of its file or the first of the next file.
`Loaded` describes the loader half way: the log is the disk behind the boot
sector so far, every sector at the address its name stands for, and `es:bx` is
the address of the next. The steps in between are the arithmetic: adding a
sector in 16 bits and carrying into the segment (`NextIsBehind`), cylinder, head
and sector counting to a block number (`Cursor`), two shorts and a sign giving
the address of the command line. `SectorsApart` shows from `Sensible` that no read
overwrites another, and the last step collects a whole program.

### Paging

`Paging` has a conjunct for each phase of `_paging_init`. While the tables are made,
those of the pages before the loop's own exist, and no bit of the cleared
quarter is set. In the next loop each call of `falloc` finds the first clear bit,
and the invariant says which one that is: the bits set in the cleared quarter are
those of the pages before `i`, so the frame is the page's own number. The loop's bound
is `alloc_addr`, which a new table would move; by then the tables of all these
pages exist, since memory in use ends below the heap's end. `FewTables` is what keeps
it there, and in the quarter. What memory held at power-on does not matter, and
the heap's own pages need not be mapped to themselves: `KernelMapped` does not
claim it.

### The heap until somebody frees

`OneTop` says that there is one free chunk, at the top, with room for the calls
still to come, and `Below` that the blocks end below it, each behind a header of its
own. Then the first fit is that chunk and every call cuts its block off it; the
aligned ones too, though their chunk records a size that is not theirs, because
nothing reads that size before a free. `FirstFit` and the list of free
chunks are recursive functions of the links, which may be anything elsewhere
in memory; that such a function exists at all is `WalkExists`: where following the links from a
cell ends is the one stop among all cells it leads to.

### USB and PCI

`Announced` strengthens `ChangeNoticed` to the inside of the handler, where what it
has passed and not seen is late, and what lies ahead keeps the bit set. `Ring` gives
the links of the queue heads at each place of the driver. `Descent` describes
the recursion before its first return: every call but the last stands at the
first bridge of its bus, the count equals the bus.

### Not proved, only checked

* All liveness: `HandlersReturn`, `SleepersWake`, `BestPriorityRuns`, `SequenceEnds`,
  `KeyDelivered`, `PutcharReturns`, `StartupEnds`, `PlugNoticed`. Fairness and `ENABLED` are
  out of the prover's reach.
* `SoundStep`: what `kalloc` and `kfree` do to an arbitrary sound heap, where chunks
  merge on both sides. It is stated with `MaxChunks`, so for every heap it would have to
  be stated anew, over lists of any length. `BlocksApart` covers a heap nobody has freed into, which is
  what the kernel has today.
* The properties of the `violation` runs, which are false.

## 6. Hazards without a property, and what is not modelled

Known behaviours that are in the model as the code has them, without a
property that claims otherwise: `wait` by a process without children blocks for
ever (`syscall.c:524`); `wait` with a pid accepts somebody else's child
(`syscall.c:474`); a process killed while WAITING is never cleaned up; the
children of a killed process are not reparented, and the machine stops when one
exits ("no process parent"); no idle process is started, so the machine also
stops when everybody blocks ("all queues empty"); a blocked reader stays
RUNNING. The two panics are the ones `OnlyWorkloadPanics` admits.

Nor does a property claim that the serial pointers stay in their buffers, that
undefined keys are ignored, or that a bus is scanned under its own number once
`_pci_list` has returned (it has no return statement, and no text says what it
should return): the models have these as the code has them.

Not modelled: contexts and stack contents (`_setup_stack`, `exec`'s and `fork`'s
copying), the memory map the loader asks the BIOS for, the switch to protected
mode and the interrupt stubs (assembly that saves and restores a context);
`c_setscroll`, `c_moveto` and `c_clearscreen` after start-up, `c_gets`, the hardware
cursor, `c_getchar`'s polling branch (no caller has interrupts off); the serial
events the code expects not to happen (line and modem status, FIFO time-out);
register programming of the UART, timer and APIC; the contents of USB transfers
and what `_pci_list` records of a device; header type 0x81, which the scan takes
for a device, and functions of a device that answers to all eight (they are
visited alike); `ffree` and the driver functions nobody calls; the start of other
processors (not called: `bsp.c:223`) with its mutex and trampoline;
`build_lapic_info` and `cache_info`, which print; `kernel/kalloc.c` (not built),
`usb_mass_storage.c` (not called), the file system headers (no code), the user
programs.

## 7. The plan

In this order, the most important first. Done: 1 to 10.

1. `KeyedQueue`, `Process`, `Syscall`, `Kernel`: the process life cycle, blocking
   and scheduling. Proved: placement, states, types, checks.
2. `QueueSpec`, `QnodeList`: the linked lists implement the sequences of 1.
3. `SioSpec`, `Sio`: the serial driver implements two streams.
4. Theorems on 1 from one inductive invariant.
5. `Screen`, `KeySpec`, `Keyboard`: the console.
6. `Heap`, `Loader`, `Startup`: from the image to a kernel with a heap.
7. `Printf`: formatted output on the console of 5.
8. `Pci`, `Usb`: the scan and the driver.
9. Theorems on 3, 5, 6 and 8, and the rest of those on 1.
10. The linked lists for a pool of any size, the kernel's pool of qnodes, what paging
    maps, the heap until somebody frees, formatted output and the text on the screen.
11. The heap after frees: what `InsertFree` and `Merge` do to one chunk and its
    neighbours, as lemmas about operators.
12. The transfers of `usb_ehci.c` once a driver uses them; the start of other
    processors once `startup_CPU` is called.

## 8. Running

In this directory: `tlc -config Lifecycle.cfg MCKernel.tla` (and likewise for
`Blocking`, `Liveness`, `Killed`, `WaitStatus`), `tlc -config QnodeList.cfg
MCQnodeList.tla`, `tlc -config SioStreams.cfg MCSio.tla`, `Console` and
`Printers` with `MCConsole.tla`, `Startup` and `Cpus` with `MCStartup.tla`, `Usb`
with `MCUsb.tla`; for the proofs, `tlapm` on each of the eight modules
whose names end in `Proofs`.
