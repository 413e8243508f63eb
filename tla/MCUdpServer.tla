---------------------------- MODULE MCUdpServer ----------------------------
(* Small instances of UdpServer for TLC. *)
EXTENDS UdpServer, TLC

CONSTANTS s1, s2
=============================================================================
