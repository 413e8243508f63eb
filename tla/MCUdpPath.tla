----------------------------- MODULE MCUdpPath -----------------------------
(* Small instances of UdpPath for TLC. *)
EXTENDS UdpPath, TLC

CONSTANTS s1, s2, a1

SessionSymmetry == Permutations(Sessions)
=============================================================================
