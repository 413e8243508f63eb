--------------------------- MODULE MCClientHandle ---------------------------
(* A small instance of ClientHandle for TLC. *)
EXTENDS ClientHandle

CONSTANTS w1, w2, main, c1, c2, c3, c4, c5
=============================================================================
