-------------------------------- MODULE Pci ---------------------------------
(***************************************************************************)
(* The scan of the PCI buses in drivers/PCI/pci.c, by a process that calls *)
(* _pci_init: _pci_list visits every function of a bus, calls itself for   *)
(* the bus behind each bridge, and hands an EHCI controller to its driver, *)
(* which does not return.                                                  *)
(*                                                                         *)
(* The code never writes a bridge's bus numbers: it relies on the firmware *)
(* having numbered the buses depth first, as it counts them itself.        *)
(***************************************************************************)
EXTENDS Integers, SequencesExt

CONSTANTS
  Buses,     \* the machines: each is [bus number -> Seq(functions)], in the
             \* order of the scan; a function is a bridge, an EHCI
             \* controller, or another device
  Garbage,   \* what a caller of _pci_list can find in its result register
  MaxDepth   \* bound: more nested calls overflow the process's stack

Device     == [kind |-> "device"]
Ehci       == [kind |-> "ehci"]
Bridge(to) == [kind |-> "bridge", to |-> to]   \* to: the firmware's number

ASSUME ScanAssumption ==
  /\ Garbage \subseteq 0 .. 255 /\ MaxDepth \in Nat \ {0}
  /\ \A b \in Buses : DOMAIN b \subseteq 0 .. 255 /\ 0 \in DOMAIN b
  /\ \A b \in Buses : \A n \in DOMAIN b :
       b[n] \in Seq({Device, Ehci} \cup {Bridge(to) : to \in 0 .. 255})

VARIABLES
  buses,     \* the machine
  calls,     \* the calls of _pci_list: its bus, the function it is at, max,
             \* and the number the firmware gave that bus
  returned,  \* history: a call has returned
  scan       \* "scanning", "driver", "done", or "overflow" of the stack

pciVars == <<buses, calls, returned, scan>>

\* _pci_config_read_word: a bus that is not there has no functions.
Functions(bus) == IF bus \in DOMAIN buses THEN buses[bus] ELSE <<>>

Top    == Last(calls)
Here   == Functions(Top.bus)[Top.at]
Moves  == [calls EXCEPT ![Len(calls)].at = @ + 1]
IsAt(kind) == scan = "scanning" /\ Top.at <= Len(Functions(Top.bus)) /\ Here.kind = kind

\* Fault: the number is taken before it is increased.
SameNumber(max) == max

\* child->number = ++max, a byte.
NextNumber(max) == (max + 1) % 256

ListDevice ==
  /\ IsAt("device")
  /\ calls' = Moves
  /\ UNCHANGED <<buses, returned, scan>>

ListBridge ==
  /\ IsAt("bridge")
  /\ IF Len(calls) = MaxDepth
     THEN scan' = "overflow" /\ UNCHANGED calls
     ELSE /\ LET n == NextNumber(Top.max)
             IN  calls' = Append([Moves EXCEPT ![Len(calls)].max = n],
                                 [bus |-> n, at |-> 1, max |-> n, behind |-> Here.to])
          /\ UNCHANGED scan
  /\ UNCHANGED <<buses, returned>>

\* usb_ehci_init.
ListEhci ==
  /\ IsAt("ehci")
  /\ scan' = "driver"
  /\ UNCHANGED <<buses, calls, returned>>

\* The end of _pci_list, which has no return statement: max becomes what the
\* register holds.
ListReturns ==
  /\ scan = "scanning" /\ Top.at > Len(Functions(Top.bus))
  /\ IF Len(calls) = 1
     THEN scan' = "done" /\ UNCHANGED calls
     ELSE /\ \E g \in Garbage :
               calls' = [Front(calls) EXCEPT ![Len(calls) - 1].max = g]
          /\ UNCHANGED scan
  /\ returned' = TRUE
  /\ UNCHANGED buses

PciInit ==
  /\ buses \in Buses
  /\ calls = <<[bus |-> 0, at |-> 1, max |-> 0, behind |-> 0]>>
  /\ returned = FALSE /\ scan = "scanning"

PciStep == ListDevice \/ ListBridge \/ ListEhci \/ ListReturns

\* The scan is of the buses of the machine, each by the number it answers
\* to, as long as no call has returned.  After that the count starts from
\* whatever was in the register: buses are missed, or taken for others.
NumbersMatch == ~returned => \A i \in DOMAIN calls : calls[i].bus = calls[i].behind
=============================================================================
