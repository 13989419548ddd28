------------------------------- MODULE MCUsb --------------------------------
(***************************************************************************)
(* Machines with a controller behind two bridges, next to a bridge, and    *)
(* nowhere.                                                                *)
(***************************************************************************)
EXTENDS Usb

MCBuses ==
  {(0 :> <<Device, Bridge(1)>>) @@ (1 :> <<Bridge(2), Device>>) @@ (2 :> <<Ehci>>),
   (0 :> <<Ehci, Device>>),
   (0 :> <<Bridge(1), Bridge(2), Device>>) @@ (1 :> <<Device>>) @@ (2 :> <<Ehci>>)}

\* The register holds the end of the loop, or the last word read.
MCGarbage == {32, 255}
=============================================================================
