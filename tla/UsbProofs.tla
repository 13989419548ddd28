------------------------------ MODULE UsbProofs ------------------------------
(***************************************************************************)
(* The EHCI driver and its handler for any number of ports up to 8, and    *)
(* the scan that finds the controller for any machine that is numbered     *)
(* depth first.                                                            *)
(***************************************************************************)
EXTENDS Usb, SequenceTheorems, TLAPS

-----------------------------------------------------------------------------
(***************************************************************************)
(* Port changes.                                                           *)
(***************************************************************************)

\* A change the driver has no copy of.
Unseen(p) == changed[p] /\ ~statuses[p].changed

PortTypes ==
  /\ changed \in [Ports -> BOOLEAN] /\ line \in [Ports -> Lines]
  /\ statuses \in [Ports -> [changed : BOOLEAN, line : Lines]]
  /\ isr \in -1 .. NPorts + 1 /\ port \in Ports

\* While the handler copies, the bit that made it run is set; what it has
\* passed and not seen came too late for it.
Announced ==
  /\ isr \in 0 .. NPorts => PCD \in usbsts
  /\ \A p \in Ports : Unseen(p) => PCD \in usbsts \/ p \in late
  /\ \A p \in Ports : p < isr /\ isr <= NPorts /\ Unseen(p) => p \in late

\* What a step of the driver leaves of that: it touches change bits only.
LEMMA DriverQuiet ==
  ASSUME PortTypes, Driver
  PROVE  /\ UNCHANGED <<statuses, isr, late, usbsts, line>>
         /\ changed' \in [Ports -> BOOLEAN] /\ port' \in Ports
         /\ \A p \in Ports : changed'[p] => changed[p]
<1>1. /\ UNCHANGED <<statuses, isr, late, usbsts, line>>
      /\ UNCHANGED changed \/ WritePort
      /\ UNCHANGED port \/ port' = 0 \/ (port + 1 < NPorts /\ port' = port + 1)
  <2>1. CASE TakeOver \/ Setup \/ Start \/ Second \/ Stop
    BY <2>1 DEF TakeOver, Setup, Start, Second, Stop, Go
  <2>2. CASE BootReset \/ PollReset
    BY <2>2 DEF BootReset, PollReset, Go
  <2>3. CASE BootNext \/ PollNext
    BY <2>3 DEF BootNext, PollNext, NextPort, Go
  <2>4. CASE Relink
    BY <2>4 DEF Relink, Links, Go
  <2> QED BY <2>1, <2>2, <2>3, <2>4 DEF Driver
<1>2. changed' \in [Ports -> BOOLEAN] /\ \A p \in Ports : changed'[p] => changed[p]
  BY <1>1 DEF WritePort, PortTypes
<1>3. port' \in Ports
  BY <1>1, PortsAssumption DEF PortTypes, Ports
<1> QED BY <1>1, <1>2, <1>3

\* The scan of the buses and the firmware have nothing to do with ports.
LEMMA OthersQuiet ==
  ASSUME FirmwareReleases \/ Reports \/ (PciStep /\ UNCHANGED usbVars) \/ UNCHANGED vars
  PROVE  /\ UNCHANGED <<changed, line, statuses, isr, port, late, link, head, drv>>
         /\ usbsts \subseteq usbsts'
<1>1. CASE FirmwareReleases
  BY <1>1 DEF FirmwareReleases
<1>2. CASE Reports
  BY <1>2 DEF Reports
<1>3. CASE (PciStep /\ UNCHANGED usbVars) \/ UNCHANGED vars
  BY <1>3 DEF usbVars, vars
<1> QED BY <1>1, <1>2, <1>3

\* Every step keeps the types of the ports.
LEMMA PortTypesKept ==
  ASSUME PortTypes, [Next]_vars
  PROVE  PortTypes'
<1> USE PortsAssumption
<1>1. CASE PortChanges
  <2>1. PICK p \in Ports, l \in Lines : /\ line' = [line EXCEPT ![p] = l]
                                        /\ changed' = [changed EXCEPT ![p] = TRUE]
    BY <1>1 DEF PortChanges
  <2>2. UNCHANGED <<statuses, isr, port>>
    BY <1>1 DEF PortChanges
  <2> QED BY <2>1, <2>2 DEF PortTypes, Ports
<1>2. CASE CopyPort
  <2>1. isr \in Ports /\ isr' = isr + 1 /\ statuses' = [statuses EXCEPT ![isr] = Status(isr)]
    BY <1>2 DEF CopyPort, Copied
  <2>2. Status(isr) \in [changed : BOOLEAN, line : Lines]
    BY <2>1 DEF Status, PortTypes
  <2>3. statuses' \in [Ports -> [changed : BOOLEAN, line : Lines]]
    BY <2>1, <2>2 DEF PortTypes
  <2>4. UNCHANGED <<changed, line, port>>
    BY <1>2 DEF CopyPort
  <2>5. isr' \in -1 .. NPorts + 1
    BY <2>1 DEF Ports
  <2> QED BY <2>3, <2>4, <2>5 DEF PortTypes, Ports
<1>3. CASE Enter \/ AckPorts \/ AckOthers
  <2>1. isr' \in -1 .. NPorts + 1 /\ UNCHANGED <<changed, line, statuses, port>>
    BY <1>3 DEF Enter, AckPorts, AckOthers, PortTypes
  <2> QED BY <2>1 DEF PortTypes, Ports
<1>4. CASE Driver
  BY <1>4, DriverQuiet DEF PortTypes, Ports
<1>5. CASE FirmwareReleases \/ Reports \/ (PciStep /\ UNCHANGED usbVars) \/ UNCHANGED vars
  BY <1>5, OthersQuiet DEF PortTypes, Ports
<1> QED BY <1>1, <1>2, <1>3, <1>4, <1>5 DEF Next, Machine, Isr

\* Every step keeps changes announced.
LEMMA AnnouncedKept ==
  ASSUME PortTypes, Announced, [Next]_vars
  PROVE  Announced'
<1> USE PortsAssumption
<1>0. \A p \in Ports : p \in 0 .. NPorts - 1
  BY DEF Ports
<1>1. CASE PortChanges
  <2>1. PICK p \in Ports :
          /\ changed' = [changed EXCEPT ![p] = TRUE]
          /\ usbsts' = IF changed[p] THEN usbsts ELSE usbsts \cup {PCD}
          /\ late' = IF p < isr /\ isr <= NPorts /\ ~changed[p] THEN late \cup {p} ELSE late
    BY <1>1 DEF PortChanges
  <2>2. UNCHANGED <<statuses, isr>>
    BY <1>1 DEF PortChanges
  <2>3. \A q \in Ports : Unseen(q)' => Unseen(q) \/ (q = p /\ ~changed[p])
    BY <2>1, <2>2 DEF Unseen, PortTypes
  <2>4. usbsts \subseteq usbsts' /\ late \subseteq late'
    BY <2>1
  <2>5. ~changed[p] => PCD \in usbsts' /\ (p < isr /\ isr <= NPorts => p \in late')
    BY <2>1
  <2> QED BY <2>2, <2>3, <2>4, <2>5 DEF Announced
<1>2. CASE CopyPort
  <2>1. /\ isr \in Ports /\ isr' = isr + 1
        /\ statuses' = [statuses EXCEPT ![isr] = Status(isr)]
        /\ late' = late \ {isr} /\ changed' = changed /\ usbsts' = usbsts
    BY <1>2 DEF CopyPort, Copied
  <2>2. PCD \in usbsts
    BY <2>1, <1>0 DEF Announced
  <2>3. \A q \in Ports : Unseen(q)' => q # isr /\ Unseen(q)
    <3>1. \A q \in Ports : q = isr => ~Unseen(q)'
      BY <2>1 DEF Unseen, Status, PortTypes
    <3>2. \A q \in Ports : q # isr => (Unseen(q)' <=> Unseen(q))
      BY <2>1 DEF Unseen, PortTypes
    <3> QED BY <3>1, <3>2
  <2>4. \A q \in Ports : q < isr' /\ Unseen(q)' => q \in late'
    <3> TAKE q \in Ports
    <3> HAVE q < isr' /\ Unseen(q)'
    <3>1. q # isr /\ Unseen(q)
      BY <2>3
    <3>2. q < isr /\ isr <= NPorts
      BY <3>1, <2>1, <1>0
    <3> QED BY <3>1, <3>2, <2>1 DEF Announced
  <2> QED BY <2>1, <2>2, <2>4 DEF Announced
<1>3. CASE Enter
  BY <1>3, <1>0 DEF Enter, Announced, Unseen
<1>4. CASE AckPorts
  <2>1. isr = NPorts /\ isr' = isr + 1 /\ UNCHANGED <<changed, statuses, late>>
    BY <1>4 DEF AckPorts
  <2>2. \A p \in Ports : Unseen(p)' => p \in late'
    BY <2>1, <1>0 DEF Announced, Unseen
  <2> QED BY <2>1, <2>2 DEF Announced
<1>5. CASE AckOthers
  <2>1. isr' = -1 /\ UNCHANGED <<changed, statuses, late>> /\ usbsts' = usbsts \ Others
    BY <1>5 DEF AckOthers
  <2>2. PCD \in usbsts => PCD \in usbsts'
    BY <2>1 DEF PCD, Others
  <2> QED BY <2>1, <2>2, <1>0 DEF Announced, Unseen
<1>6. CASE Driver
  <2>1. \A p \in Ports : Unseen(p)' => Unseen(p)
    BY <1>6, DriverQuiet DEF Unseen
  <2> QED BY <1>6, <2>1, DriverQuiet DEF Announced
<1>7. CASE FirmwareReleases \/ Reports \/ (PciStep /\ UNCHANGED usbVars) \/ UNCHANGED vars
  <2>1. \A p \in Ports : Unseen(p)' <=> Unseen(p)
    BY <1>7, OthersQuiet DEF Unseen
  <2> QED BY <1>7, <2>1, OthersQuiet DEF Announced
<1> QED BY <1>1, <1>2, <1>3, <1>4, <1>5, <1>6, <1>7 DEF Next, Machine, Isr

\* A change of a port that the driver has no copy of is still to be
\* reported by an interrupt, or came to a port _isr_usb_int had passed and
\* before it acknowledged (usb_ehci.c:394), however many ports there are.
THEOREM ChangesAreNoticed == Spec => []ChangeNoticed
<1>1. Init => PortTypes /\ Announced
  <2> SUFFICES ASSUME Init PROVE PortTypes /\ Announced
    OBVIOUS
  <2>1. statuses \in [Ports -> [changed : BOOLEAN, line : Lines]]
    BY DEF Init, Lines
  <2>2. PortTypes
    <3>1. isr \in -1 .. NPorts + 1 /\ port \in Ports
      BY PortsAssumption DEF Init, Ports
    <3>2. changed \in [Ports -> BOOLEAN] /\ line \in [Ports -> Lines]
      BY DEF Init
    <3> QED BY <2>1, <3>1, <3>2 DEF PortTypes
  <2>3. Announced
    BY PortsAssumption DEF Init, Announced, Unseen, Ports
  <2> QED BY <2>2, <2>3
<1>2. PortTypes /\ Announced /\ [Next]_vars => PortTypes' /\ Announced'
  BY PortTypesKept, AnnouncedKept
<1>3. PortTypes /\ Announced => ChangeNoticed
  BY DEF Announced, ChangeNoticed, Unseen
<1> QED BY <1>1, <1>2, <1>3, PTL DEF Spec

-----------------------------------------------------------------------------
(***************************************************************************)
(* The circle of queue heads.                                              *)
(***************************************************************************)

\* What the links are, wherever the driver is.
Ring ==
  /\ link \in [1 .. 2 -> 0 .. 2]
  /\ drv \in {"handover", "boot", "boot_wait", "setup", "poll", "wait", "start"} => head = 0
  /\ drv \in {"second", "unlink", "cut", "linked", "cut2", "print", "stopped"} => head = 1
  /\ drv \in {"second", "unlink"} => link[1] = 1
  /\ drv \in {"unlink", "cut", "linked"} => link[2] = 2
  /\ drv \in {"linked", "cut2", "print", "stopped"} => link[1] = 2
  /\ drv \in {"print", "stopped"} => link[2] = 1
  /\ drv \in {"handover", "boot", "boot_wait", "setup", "poll", "wait", "start",
              "second", "unlink", "cut", "linked", "cut2", "print", "stopped"}

\* Every step of the driver and of the controller keeps the ring closed.
LEMMA RingKept ==
  ASSUME Ring, [Next]_vars
  PROVE  Ring'
<1>1. CASE PortChanges \/ Isr
  <2>1. UNCHANGED <<link, head, drv>>
    BY <1>1 DEF PortChanges, Isr, Enter, CopyPort, AckPorts, AckOthers
  <2> QED BY <2>1, Zenon DEF Ring
<1>2. CASE FirmwareReleases \/ Reports \/ (PciStep /\ UNCHANGED usbVars) \/ UNCHANGED vars
  <2>1. UNCHANGED <<link, head, drv>>
    BY <1>2, OthersQuiet
  <2> QED BY <2>1, Zenon DEF Ring
<1>3. CASE TakeOver \/ BootReset \/ BootNext \/ Setup \/ PollNext \/ PollReset
  <2>1. UNCHANGED <<link, head>>
    BY <1>3 DEF TakeOver, BootReset, BootNext, Setup, PollNext, PollReset, Go, NextPort
  <2>2. /\ drv \in {"handover", "boot", "boot_wait", "setup", "poll", "wait"}
        /\ drv' \in {"handover", "boot", "boot_wait", "setup", "poll", "wait", "start"}
    BY <1>3 DEF TakeOver, BootReset, BootNext, Setup, PollNext, PollReset, Go, NextPort
  <2>3. head = 0
    BY <2>2 DEF Ring
  <2> QED BY <2>1, <2>2, <2>3 DEF Ring
<1>4. CASE Start
  <2>1. drv = "start" /\ drv' = "second" /\ head' = 1 /\ link' = [link EXCEPT ![1] = 1]
    BY <1>4 DEF Start, Go, Circle
  <2> QED BY <2>1 DEF Ring
<1>5. CASE Second
  <2>1. /\ drv = "second" /\ drv' = "unlink" /\ head' = head
        /\ link' = [link EXCEPT ![2] = 2]
    BY <1>5 DEF Second, Go, Circle
  <2> QED BY <2>1 DEF Ring
<1>6. CASE Relink
  <2>1. CASE Links("unlink", "cut", 1, 0)
    <3>1. drv = "unlink" /\ drv' = "cut" /\ head' = head /\ link' = [link EXCEPT ![1] = 0]
      BY <2>1 DEF Links, Go
    <3> QED BY <3>1 DEF Ring
  <2>2. CASE Links("cut", "linked", 1, 2)
    <3>1. drv = "cut" /\ drv' = "linked" /\ head' = head /\ link' = [link EXCEPT ![1] = 2]
      BY <2>2 DEF Links, Go
    <3> QED BY <3>1 DEF Ring
  <2>3. CASE Links("linked", "cut2", 2, 0)
    <3>1. drv = "linked" /\ drv' = "cut2" /\ head' = head /\ link' = [link EXCEPT ![2] = 0]
      BY <2>3 DEF Links, Go
    <3> QED BY <3>1 DEF Ring
  <2>4. CASE Links("cut2", "print", 2, 1)
    <3>1. drv = "cut2" /\ drv' = "print" /\ head' = head /\ link' = [link EXCEPT ![2] = 1]
      BY <2>4 DEF Links, Go
    <3> QED BY <3>1 DEF Ring
  <2> QED BY <1>6, <2>1, <2>2, <2>3, <2>4 DEF Relink
<1>7. CASE Stop
  <2>1. drv = "print" /\ drv' = "stopped" /\ UNCHANGED <<link, head>>
    BY <1>7 DEF Stop, Go
  <2> QED BY <2>1 DEF Ring
<1> QED BY <1>1, <1>2, <1>3, <1>4, <1>5, <1>6, <1>7 DEF Next, Machine, Driver

\* But for the two moments in which usb_ehci_init has cleared a link and not yet
\* set it, the controller that follows the links never leaves the queue
\* heads, whatever the handler and the ports do in between.
THEOREM RingStaysClosed == Spec => []RingClosed
<1>1. Init => Ring
  BY DEF Init, Ring
<1>2. Ring /\ [Next]_vars => Ring'
  BY RingKept
<1>3. Ring => RingClosed
  BY DEF Ring, RingClosed
<1> QED BY <1>1, <1>2, <1>3, PTL DEF Spec

-----------------------------------------------------------------------------
(***************************************************************************)
(* The scan.                                                               *)
(***************************************************************************)

\* The firmware numbers depth first: the bus behind the first bridge of a bus
\* has the next number.
DepthFirst ==
  \A b \in Buses : \A n \in DOMAIN b : \A k \in DOMAIN b[n] :
    /\ b[n][k].kind = "bridge"
    /\ \A j \in 1 .. k - 1 : b[n][j].kind # "bridge"
    => b[n][k].to = NextNumber(n)

Call == [bus : 0 .. 255, at : Nat \ {0}, max : 0 .. 255, behind : 0 .. 255]

\* Until the first return the scan goes down: no call has passed a bridge,
\* but the calls above the last one are each at one.
Descent ==
  /\ buses \in Buses
  /\ calls \in Seq(Call) /\ calls # <<>>
  /\ \A i \in 1 .. Len(calls) : calls[i].bus = calls[i].behind
  /\ Top.max = Top.bus
  /\ \A k \in 1 .. Top.at - 1 :
       k \in DOMAIN Functions(Top.bus) => Functions(Top.bus)[k].kind # "bridge"

\* What lies at a place of a bus.
LEMMA FunctionIs ==
  ASSUME Descent, NEW kind, IsAt(kind)
  PROVE  /\ Len(calls) \in Nat \ {0} /\ Top = calls[Len(calls)] /\ Top \in Call
         /\ Top.bus \in DOMAIN buses /\ Functions(Top.bus) = buses[Top.bus]
         /\ Top.at \in DOMAIN buses[Top.bus] /\ Here = buses[Top.bus][Top.at]
         /\ Here \in {Device, Ehci} \cup {Bridge(to) : to \in 0 .. 255}
         /\ Here.kind = kind
<1> DEFINE F == {Device, Ehci} \cup {Bridge(to) : to \in 0 .. 255}
<1>1. Len(calls) \in Nat \ {0} /\ Top = calls[Len(calls)]
  BY EmptySeq DEF Descent, Top, Last
<1>2. Top \in Call
  BY <1>1, ElementOfSeq DEF Descent
<1>3. Top.at \in Nat \ {0} /\ Top.at <= Len(Functions(Top.bus)) /\ Here.kind = kind
  BY <1>2 DEF IsAt, Call
<1>4. Top.bus \in DOMAIN buses
  <2>1. CASE Top.bus \notin DOMAIN buses
    BY <2>1, <1>3, EmptySeq DEF Functions
  <2> QED BY <2>1
<1>5. Functions(Top.bus) = buses[Top.bus]
  BY <1>4 DEF Functions
<1>6. buses[Top.bus] \in Seq(F)
  BY <1>4, ScanAssumption DEF Descent
<1> HIDE DEF F
<1>7. Top.at \in DOMAIN buses[Top.bus] /\ Top.at \in 1 .. Len(buses[Top.bus])
  BY <1>3, <1>5, <1>6, LenProperties
<1>8. Here = buses[Top.bus][Top.at]
  BY <1>5 DEF Here
<1>9. Here \in F
  BY <1>6, <1>7, <1>8, ElementOfSeq
<1> QED BY <1>1, <1>2, <1>3, <1>4, <1>5, <1>7, <1>8, <1>9 DEF F

\* Going on to the next function of a bus.
LEMMA MovesOn ==
  ASSUME calls \in Seq(Call), Len(calls) \in Nat \ {0}
  PROVE  /\ Moves \in Seq(Call) /\ Len(Moves) = Len(calls)
         /\ \A i \in 1 .. Len(calls) :
              Moves[i].bus = calls[i].bus /\ Moves[i].behind = calls[i].behind
         /\ Moves[Len(calls)].max = calls[Len(calls)].max
         /\ Moves[Len(calls)].at = calls[Len(calls)].at + 1
<1> DEFINE L == Len(calls)
           c == [calls[L] EXCEPT !.at = @ + 1]
<1>1. calls[L] \in Call
  BY ElementOfSeq
<1>2. /\ c \in Call /\ c.at = calls[L].at + 1 /\ c.bus = calls[L].bus
      /\ c.max = calls[L].max /\ c.behind = calls[L].behind
  <2> DEFINE r == calls[L]
  <2>1. r \in Call
    BY <1>1
  <2> HIDE DEF r
  <2>2. /\ [r EXCEPT !.at = @ + 1] \in Call
        /\ [r EXCEPT !.at = @ + 1].at = r.at + 1 /\ [r EXCEPT !.at = @ + 1].bus = r.bus
        /\ [r EXCEPT !.at = @ + 1].max = r.max /\ [r EXCEPT !.at = @ + 1].behind = r.behind
    <3>1. /\ r = [bus |-> r.bus, at |-> r.at, max |-> r.max, behind |-> r.behind]
          /\ r.bus \in 0 .. 255 /\ r.at \in Nat \ {0} /\ r.max \in 0 .. 255
          /\ r.behind \in 0 .. 255
      BY <2>1 DEF Call
    <3>2. [r EXCEPT !.at = @ + 1] =
            [bus |-> r.bus, at |-> r.at + 1, max |-> r.max, behind |-> r.behind]
      BY <3>1
    <3>3. r.at + 1 \in Nat \ {0}
      BY <3>1
    <3> QED BY <3>1, <3>2, <3>3 DEF Call
  <2> QED BY <2>2 DEF r
<1>3. Moves = [calls EXCEPT ![L] = c]
  BY DEF Moves
<1> HIDE DEF c
<1>4. /\ Moves \in Seq(Call) /\ Len(Moves) = L
      /\ \A i \in 1 .. L : Moves[i] = IF i = L THEN c ELSE calls[i]
  BY <1>2, <1>3, ExceptSeq
<1> QED BY <1>2, <1>4

\* Every step of the scan keeps the numbers of the buses on its stack.
LEMMA DescentKept ==
  ASSUME DepthFirst, ~returned => Descent, [Next]_vars
  PROVE  ~returned' => Descent'
<1>1. CASE UNCHANGED pciVars
  BY <1>1, Zenon DEF pciVars, Descent, Top, Functions
<1>2. CASE ListDevice
  <2> SUFFICES ASSUME ~returned' PROVE Descent'
    OBVIOUS
  <2>1. Descent /\ IsAt("device") /\ calls' = Moves /\ buses' = buses
    BY <1>2 DEF ListDevice
  <2>2. /\ Len(calls) \in Nat \ {0} /\ Top = calls[Len(calls)] /\ Top \in Call
        /\ Top.bus \in DOMAIN buses /\ Functions(Top.bus) = buses[Top.bus]
        /\ Here = buses[Top.bus][Top.at]
        /\ Here.kind = "device"
    BY <2>1, FunctionIs
  <2>3. /\ calls' \in Seq(Call) /\ Len(calls') = Len(calls)
        /\ \A i \in 1 .. Len(calls) :
             calls'[i].bus = calls[i].bus /\ calls'[i].behind = calls[i].behind
        /\ calls'[Len(calls)].max = calls[Len(calls)].max
        /\ calls'[Len(calls)].at = calls[Len(calls)].at + 1
    BY <2>1, <2>2, MovesOn DEF Descent
  <2>4. Top' = calls'[Len(calls)]
    BY <2>3 DEF Top, Last
  <2>5. Top'.bus = Top.bus /\ Top'.max = Top.max /\ Top'.at = Top.at + 1
    BY <2>2, <2>3, <2>4
  <2>6. \A b : Functions(b)' = Functions(b)
    BY <2>1 DEF Functions
  <2>7. \A k \in 1 .. Top'.at - 1 :
          k \in DOMAIN Functions(Top'.bus) => Functions(Top'.bus)[k].kind # "bridge"
    <3>1. Top.at \in Nat
      BY <2>2 DEF Call
    <3>2. \A k \in 1 .. Top'.at - 1 : k = Top.at \/ k \in 1 .. Top.at - 1
      BY <3>1, <2>5
    <3> QED BY <3>2, <2>1, <2>2, <2>5 DEF Descent
  <2>8. calls' # <<>>
    BY <2>2, <2>3, EmptySeq
  <2> QED BY <2>1, <2>3, <2>5, <2>6, <2>7, <2>8 DEF Descent, Functions
<1>3. CASE ListBridge
  <2> SUFFICES ASSUME ~returned' PROVE Descent'
    OBVIOUS
  <2>1. Descent /\ IsAt("bridge") /\ buses' = buses
    BY <1>3 DEF ListBridge
  <2>2. /\ Len(calls) \in Nat \ {0} /\ Top = calls[Len(calls)] /\ Top \in Call
        /\ Top.bus \in DOMAIN buses /\ Functions(Top.bus) = buses[Top.bus]
        /\ Top.at \in DOMAIN buses[Top.bus] /\ Here = buses[Top.bus][Top.at]
        /\ Here \in {Device, Ehci} \cup {Bridge(to) : to \in 0 .. 255}
        /\ Here.kind = "bridge"
    BY <2>1, FunctionIs
  <2>3. CASE UNCHANGED calls
    BY <2>1, <2>3, Zenon DEF Descent, Top, Functions
  <2>4. CASE Len(calls) # MaxDepth
    <3> DEFINE n   == NextNumber(Top.max)
               top == [Moves EXCEPT ![Len(calls)].max = n]
               new == [bus |-> n, at |-> 1, max |-> n, behind |-> Here.to]
    <3>1. calls' = Append(top, new)
      BY <2>4, <1>3 DEF ListBridge
    <3>2. n \in 0 .. 255
      <4> DEFINE m == Top.max
      <4>1. m \in 0 .. 255
        BY <2>2 DEF Call
      <4> HIDE DEF m
      <4>2. (m + 1) % 256 \in 0 .. 255
        BY <4>1
      <4> QED BY <4>2 DEF m, NextNumber
    <3>3. Here.to = n
      <4>1. Top.max = Top.bus /\ buses \in Buses
        BY <2>1 DEF Descent
      <4>2. buses[Top.bus] \in Seq({Device, Ehci} \cup {Bridge(to) : to \in 0 .. 255})
        BY <2>2, <4>1, ScanAssumption
      <4>3. \A k \in 1 .. Top.at - 1 : k \in DOMAIN buses[Top.bus]
        BY <4>2, <2>2, LenProperties, SMTT(30)
      <4>4. \A k \in 1 .. Top.at - 1 : buses[Top.bus][k].kind # "bridge"
        BY <4>3, <2>1, <2>2 DEF Descent
      <4> QED BY <4>1, <4>4, <2>2, SMTT(30) DEF DepthFirst
    <3> HIDE DEF n
    <3>4. new \in Call
      BY <3>2, <3>3 DEF Call
    <3>5. /\ Moves \in Seq(Call) /\ Len(Moves) = Len(calls)
          /\ \A i \in 1 .. Len(calls) :
               Moves[i].bus = calls[i].bus /\ Moves[i].behind = calls[i].behind
      BY <2>1, <2>2, MovesOn DEF Descent
    <3>6. /\ top \in Seq(Call) /\ Len(top) = Len(calls)
          /\ \A i \in 1 .. Len(calls) :
               top[i].bus = calls[i].bus /\ top[i].behind = calls[i].behind
      <4> DEFINE c == [Moves[Len(calls)] EXCEPT !.max = n]
      <4>1. Moves[Len(calls)] \in Call
        BY <3>5, <2>2, ElementOfSeq, SMTT(30)
      <4>2. /\ c \in Call /\ c.bus = Moves[Len(calls)].bus
            /\ c.behind = Moves[Len(calls)].behind
        BY <4>1, <3>2 DEF Call
      <4>3. top = [Moves EXCEPT ![Len(calls)] = c]
        OBVIOUS
      <4> HIDE DEF c, top
      <4>4. /\ top \in Seq(Call) /\ Len(top) = Len(calls)
            /\ \A i \in 1 .. Len(calls) : top[i] = IF i = Len(calls) THEN c ELSE Moves[i]
        BY <4>2, <4>3, <3>5, <2>2, ExceptSeq, SMTT(30)
      <4> QED BY <4>2, <4>4, <3>5
    <3> HIDE DEF top
    <3>7. /\ calls' \in Seq(Call) /\ calls' # <<>> /\ Len(calls') = Len(calls) + 1
          /\ \A i \in 1 .. Len(calls) : calls'[i] = top[i]
          /\ calls'[Len(calls) + 1] = new
      BY <3>1, <3>4, <3>6, AppendProperties
    <3>8. Top' = new
      BY <3>7 DEF Top, Last
    <3>9. \A i \in 1 .. Len(calls') : calls'[i].bus = calls'[i].behind
      <4> TAKE i \in 1 .. Len(calls')
      <4>1. CASE i \in 1 .. Len(calls)
        BY <4>1, <3>6, <3>7, <2>1 DEF Descent
      <4>2. CASE i = Len(calls) + 1
        BY <4>2, <3>3, <3>7
      <4> QED BY <4>1, <4>2, <3>7, <2>2, SMTT(30)
    <3>10. Top'.max = Top'.bus /\ Top'.at = 1
      BY <3>8
    <3> QED BY <3>7, <3>9, <3>10, <2>1 DEF Descent
  <2> QED BY <2>3, <2>4, <1>3 DEF ListBridge
<1>4. CASE ListEhci
  <2>1. UNCHANGED <<buses, calls, returned>>
    BY <1>4 DEF ListEhci
  <2> QED BY <2>1, Zenon DEF Descent, Top, Functions
<1>5. CASE ListReturns
  BY <1>5 DEF ListReturns
<1>6. Next => UNCHANGED pciVars \/ PciStep
  <2>1. Machine \/ Isr => UNCHANGED pciVars
    BY DEF Machine, FirmwareReleases, PortChanges, Reports, Isr, Enter, CopyPort, AckPorts,
           AckOthers
  <2>2. Driver => UNCHANGED pciVars
    BY DEF Driver, TakeOver, BootReset, BootNext, Setup, PollNext, PollReset, Start, Second,
           Relink, Links, Stop, Go, NextPort, pciVars
  <2> QED BY <2>1, <2>2 DEF Next
<1> QED BY <1>1, <1>2, <1>3, <1>4, <1>5, <1>6 DEF PciStep, vars

\* On a machine whose firmware numbers the buses depth first, the scan is of
\* the buses the bridges lead to until the first call of _pci_list returns,
\* however deep and wide the machine is.
THEOREM ScanMatches ==
  ASSUME DepthFirst
  PROVE  Spec => []NumbersMatch
<1>1. Init => (~returned => Descent)
  <2> SUFFICES ASSUME Init PROVE Descent
    OBVIOUS
  <2> DEFINE c == [bus |-> 0, at |-> 1, max |-> 0, behind |-> 0]
  <2>1. buses \in Buses /\ calls = <<c>>
    BY DEF Init, PciInit
  <2>2. c \in Call
    BY DEF Call
  <2>3. calls \in Seq(Call) /\ Len(calls) = 1 /\ calls[1] = c /\ calls # <<>>
    BY <2>1, <2>2
  <2>4. Top = c
    BY <2>3 DEF Top, Last
  <2> QED BY <2>1, <2>3, <2>4 DEF Descent
<1>2. (~returned => Descent) /\ [Next]_vars => (~returned => Descent)'
  BY DescentKept
<1>3. (~returned => Descent) => NumbersMatch
  BY LenProperties DEF Descent, NumbersMatch
<1> QED BY <1>1, <1>2, <1>3, PTL DEF Spec
=============================================================================
