----------------------------- MODULE MCDevices -----------------------------
(* Devices with a short line and a short text, of letters the other side   *)
(* lacks.                                                                  *)
EXTENDS Devices

Typed     == { <<2, 3>> }
Displayed == { <<4>> }
=============================================================================
