------------------------------- MODULE MCSio --------------------------------
(***************************************************************************)
(* The serial driver with small buffers.  "x" stands for every character   *)
(* that is not mapped.                                                     *)
(***************************************************************************)
EXTENDS Sio

MCChars   == {"x", CR, LF}
\* Buffers for _sio_writes that do and do not fit.
PlainStrings == {<<"x", LF>>, <<"x", "x", "x", LF>>}
=============================================================================
