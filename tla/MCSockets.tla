----------------------------- MODULE MCSockets -----------------------------
(* Small instances of SendQueue and PortHopping for TLC. *)
EXTENDS PortHopping

CONSTANTS s1, s2
=============================================================================
