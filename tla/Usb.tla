-------------------------------- MODULE Usb ---------------------------------
(***************************************************************************)
(* The EHCI driver of drivers/USB/usb_ehci.c: usb_ehci_init, which runs in *)
(* the process that scans the PCI buses, sleeps between its register       *)
(* writes and polls a copy of the ports' registers, and _isr_usb_int,      *)
(* which makes the copy.  The handler runs with interrupts off on the only *)
(* CPU, but the controller goes on next to it, so each of its reads and    *)
(* writes of a register is a step.  The firmware, the devices and the      *)
(* controller are modelled from how the driver uses them.                  *)
(***************************************************************************)
EXTENDS Pci

CONSTANTS
  NPorts,     \* _N_PORTS
  MaxEvents   \* bound: how often devices are plugged in and out

DEFAULT_NUM_PORTS == 8

\* port_statuses has that many elements.  The register counts up to 15 ports
\* (usb_ehci.c:65); with more than 8 the handler writes past the array, which
\* is outside the model.
ASSUME PortsAssumption == NPorts \in 1 .. DEFAULT_NUM_PORTS /\ MaxEvents \in Nat

Ports == 0 .. NPorts - 1
Lines == {"none", "high", "low"}   \* low: connected, K state

VARIABLES
  firmware,   \* HC_BIOS_OWNED_ENABLE
  line,       \* what is plugged into each port
  changed,    \* CONNECT_STATUS_CHANGE_ENABLE of each port's register
  usbsts,     \* _USBSTS, the bits that can interrupt
  usbintr,    \* *_USBINTR: interrupts are enabled
  drv, port,  \* where usb_ehci_init is, and at which port
  isr,        \* -1, or the next port of the handler, NPorts being the rest
  statuses,   \* port_statuses
  link,       \* the queue heads' links; 0 is no queue head
  head,       \* *_ASYNCLISTADDR, 0 while the schedule is off
  late,       \* history: ports changed in the handler, after it read them
  events      \* bound: what is left of them

usbVars == <<firmware, line, changed, usbsts, usbintr, drv, port, isr, statuses,
             link, head, late, events>>
vars    == <<pciVars, usbVars>>

\* Interrupts: ports, transactions, errors, and the schedule's.
PCD    == "PORT_CHANGE_DETECT"
Others == {"USB_INT", "USB_ERR_INT", "HOST_ERR_INT", "ASYNC_ADV_INT"}
Status(p) == [changed |-> changed[p], line |-> line[p]]

-----------------------------------------------------------------------------
(***************************************************************************)
(* The machine.                                                            *)
(***************************************************************************)

\* The firmware gives the controller away when it is asked to.
FirmwareReleases ==
  /\ scan = "driver" /\ drv = "handover" /\ firmware
  /\ firmware' = FALSE
  /\ UNCHANGED <<pciVars, line, changed, usbsts, usbintr, drv, port, isr, statuses,
                 link, head, late, events>>

\* A device is plugged in or out.  PORT_CHANGE_DETECT is set when a port's
\* change bit goes from 0 to 1.
PortChanges ==
  /\ events > 0 /\ drv # "stopped"
  /\ \E p \in Ports, l \in Lines :
       /\ (line[p] = "none") # (l = "none")
       /\ line' = [line EXCEPT ![p] = l]
       /\ changed' = [changed EXCEPT ![p] = TRUE]
       /\ usbsts' = IF changed[p] THEN usbsts ELSE usbsts \cup {PCD}
       /\ late' = IF p < isr /\ isr <= NPorts /\ ~changed[p] THEN late \cup {p} ELSE late
  /\ events' = events - 1
  /\ UNCHANGED <<pciVars, firmware, usbintr, drv, port, isr, statuses, link, head>>

\* The controller works on the schedule.
Reports ==
  /\ head # 0 /\ drv # "stopped"
  /\ \E s \in Others \ usbsts : usbsts' = usbsts \cup {s}
  /\ UNCHANGED <<pciVars, firmware, line, changed, usbintr, drv, port, isr, statuses,
                 link, head, late, events>>

-----------------------------------------------------------------------------
(***************************************************************************)
(* _isr_usb_int.                                                           *)
(***************************************************************************)
Enter ==
  /\ isr = -1 /\ usbintr /\ usbsts # {} /\ drv # "stopped"
  /\ isr' = IF PCD \in usbsts THEN 0 ELSE NPorts + 1
  /\ UNCHANGED <<pciVars, firmware, line, changed, usbsts, usbintr, drv, port,
                 statuses, link, head, late, events>>

\* Fault: the first port is not copied.
SkipsFirst(p) == IF p = 0 THEN statuses ELSE [statuses EXCEPT ![p] = Status(p)]

\* port_statuses[port] = *port_address.
Copied(p) == [statuses EXCEPT ![p] = Status(p)]

CopyPort ==
  /\ isr \in Ports
  /\ statuses' = Copied(isr)
  /\ late' = late \ {isr}
  /\ isr' = isr + 1
  /\ UNCHANGED <<pciVars, firmware, line, changed, usbsts, usbintr, drv, port, link,
                 head, events>>

\* *_USBSTS &= bit: writing a 1 clears that bit.
AckPorts ==
  /\ isr = NPorts
  /\ usbsts' = usbsts \ {PCD} /\ isr' = isr + 1
  /\ UNCHANGED <<pciVars, firmware, line, changed, usbintr, drv, port, statuses, link,
                 head, late, events>>

AckOthers ==
  /\ isr = NPorts + 1
  /\ usbsts' = usbsts \ Others /\ isr' = -1
  /\ UNCHANGED <<pciVars, firmware, line, changed, usbintr, drv, port, statuses, link,
                 head, late, events>>

Isr == Enter \/ CopyPort \/ AckPorts \/ AckOthers

-----------------------------------------------------------------------------
(***************************************************************************)
(* usb_ehci_init: a step between two of the handler's runs.                *)
(***************************************************************************)
Go(from, to) == scan = "driver" /\ isr = -1 /\ drv = from /\ drv' = to

\* On to the next port, or out of the loop.
NextPort(from, loop, end) ==
  IF port + 1 < NPorts THEN port' = port + 1 /\ Go(from, loop)
                       ELSE port' = 0 /\ Go(from, end)

\* Legacy support: ask the firmware, and wait for it.  Then CONFIGFLAG and
\* RUN are set.
TakeOver ==
  /\ Go("handover", IF firmware THEN "handover" ELSE "boot")
  /\ UNCHANGED <<pciVars, firmware, line, changed, usbsts, usbintr, port, isr,
                 statuses, link, head, late, events>>

\* The reset of a port: power, enable and reset are written into what was
\* read, which clears a change bit that was read as 1, before the wait and
\* after it.
WritePort == changed' = [changed EXCEPT ![port] = FALSE]

\* At the start, ports with a high speed device are reset.
BootReset ==
  /\ line[port] = "high" /\ Go("boot", "boot_wait")
  /\ WritePort
  /\ UNCHANGED <<pciVars, firmware, line, usbsts, usbintr, port, isr, statuses, link,
                 head, late, events>>

BootNext ==
  /\ \/ NextPort("boot_wait", "boot", "setup") /\ WritePort
     \/ line[port] # "high" /\ NextPort("boot", "boot", "setup") /\ UNCHANGED changed
  /\ UNCHANGED <<pciVars, firmware, line, usbsts, usbintr, isr, statuses, link, head,
                 late, events>>

\* The handler is installed, then its interrupts are enabled.
Setup ==
  /\ Go("setup", "poll")
  /\ usbintr' = TRUE
  /\ UNCHANGED <<pciVars, firmware, line, changed, usbsts, port, isr, statuses, link,
                 head, late, events>>

\* Fault: low speed devices are taken for high speed ones.
DueInverted == statuses[port].changed /\ statuses[port].line = "low"

\* The loop over the copy: a port that changed, and has no low speed device.
Due == statuses[port].changed /\ statuses[port].line # "low"
PollNext ==
  /\ ~Due /\ NextPort("poll", "poll", "poll")
  /\ UNCHANGED <<pciVars, firmware, line, changed, usbsts, usbintr, isr, statuses,
                 link, head, late, events>>

PollReset ==
  /\ \/ Due /\ Go("poll", "wait")
     \/ Go("wait", "start")
  /\ WritePort
  /\ UNCHANGED <<pciVars, firmware, line, usbsts, usbintr, port, isr, statuses, link,
                 head, late, events>>

\* Fault: the second queue head does not point to itself.
NoCircle(h) == IF h = 1 THEN [link EXCEPT ![h] = h] ELSE [link EXCEPT ![h] = 0]

\* _create_init_qtd and _create_descriptor_qtd make a queue head that
\* points to itself.
Circle(h) == [link EXCEPT ![h] = h]

\* The first one goes to the controller, and the schedule is enabled;
Start ==
  /\ Go("start", "second")
  /\ link' = Circle(1) /\ head' = 1
  /\ UNCHANGED <<pciVars, firmware, line, changed, usbsts, usbintr, port, isr,
                 statuses, late, events>>

\* the second one is made, and the links are cleared and set in turn, while
\* the controller follows them;
Links(from, to, h, n) ==
  /\ Go(from, to)
  /\ link' = [link EXCEPT ![h] = n]
  /\ UNCHANGED <<pciVars, firmware, line, changed, usbsts, usbintr, port, isr,
                 statuses, head, late, events>>
Second ==
  /\ Go("second", "unlink")
  /\ link' = Circle(2)
  /\ UNCHANGED <<pciVars, firmware, line, changed, usbsts, usbintr, port, isr,
                 statuses, head, late, events>>
Relink == \/ Links("unlink", "cut", 1, 0)  \/ Links("cut", "linked", 1, 2)
          \/ Links("linked", "cut2", 2, 0) \/ Links("cut2", "print", 2, 1)

\* __panic( "EXITING USB" ).
Stop ==
  /\ Go("print", "stopped")
  /\ UNCHANGED <<pciVars, firmware, line, changed, usbsts, usbintr, port, isr,
                 statuses, link, head, late, events>>

Driver == \/ TakeOver \/ BootReset \/ BootNext \/ Setup \/ PollNext \/ PollReset
          \/ Start \/ Second \/ Relink \/ Stop

-----------------------------------------------------------------------------
(***************************************************************************)
(* The controller as the firmware leaves it: a change bit it has not       *)
(* cleared is one it has not acknowledged either.                          *)
(***************************************************************************)
Init ==
  /\ PciInit
  /\ firmware \in BOOLEAN
  /\ line \in [Ports -> Lines] /\ changed \in [Ports -> BOOLEAN]
  /\ usbsts = IF \E p \in Ports : changed[p] THEN {PCD} ELSE {}
  /\ usbintr = FALSE
  /\ drv = "handover" /\ port = 0 /\ isr = -1
  /\ statuses = [p \in Ports |-> [changed |-> FALSE, line |-> "none"]]
  /\ link = [h \in 1 .. 2 |-> 0] /\ head = 0
  /\ late = {} /\ events = MaxEvents

Machine == FirmwareReleases \/ PortChanges \/ Reports
Next    == Machine \/ Isr \/ Driver \/ (PciStep /\ UNCHANGED usbVars)

(***************************************************************************)
(* The process that scans and drives is dispatched again and again, also   *)
(* when the controller interrupts it every time; the firmware answers.     *)
(***************************************************************************)
Fairness == WF_vars(FirmwareReleases) /\ WF_vars(Isr) /\ SF_vars(Driver)

Spec == Init /\ [][Next]_vars /\ Fairness
-----------------------------------------------------------------------------
\* "We've serviced all interrupts at this point" (usb_ehci.c:394), as far as
\* it is true: a change the driver has no copy of is still to be reported,
\* unless it came to a port that the handler had already read and before
\* the handler cleared the bit that announced another one.  Nobody learns
\* of such a change.
ChangeNoticed ==
  usbintr /\ isr = -1 /\ drv # "stopped" =>
    \A p \in Ports : changed[p] /\ ~statuses[p].changed => PCD \in usbsts \/ p \in late

\* A high speed device that announces itself while the handler does not run
\* is interrogated, or another one is, after which the machine stops; only
\* if it goes and a low speed one comes, it may not be.
PlugNoticed ==
  \A p \in Ports :
    /\ usbintr /\ isr = -1 /\ PCD \in usbsts
    /\ changed[p] /\ ~statuses[p].changed /\ line[p] = "high"
    ~> drv = "stopped" \/ line[p] = "low"

\* The driver extends the list while the controller follows it: but for the
\* two moments in which a link has been cleared and not yet set, it never
\* leaves the queue heads.
RingClosed ==
  head # 0 /\ drv \notin {"cut", "cut2"} => link[head] # 0 /\ link[link[head]] # 0
=============================================================================
