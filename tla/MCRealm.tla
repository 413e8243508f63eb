------------------------------ MODULE MCRealm ------------------------------
(* A small instance of Realm for TLC. *)
EXTENDS Realm

CONSTANTS r1, r2, n1, t1, t2
=============================================================================
