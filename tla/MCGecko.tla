------------------------------ MODULE MCGecko ------------------------------
(***************************************************************************)
(* A small instance of Gecko for TLC, with two kinds of traffic: packets   *)
(* of two chunks from several sources, and packets of different sizes from *)
(* one source, more of them than there are message ids.                    *)
(***************************************************************************)
EXTENDS Gecko, FiniteSetsExt, TLC

CONSTANTS a, b, c

VARIABLE scene

SourceSymmetry == Permutations({a, b, c})

MCInit == Init /\ scene \in {"sources", "turn"}

MCNext ==
  /\ Next /\ UNCHANGED scene
  /\ IF scene = "turn" THEN Cardinality({s \in Sources : sent'[s] > 0}) <= 1
     ELSE MapThenSumSet(LAMBDA s : sent'[s], Sources) <= 3 /\ (\A f \in net' : f.total = 2)

MCSpec == MCInit /\ [][MCNext]_<<vars, scene>>
=============================================================================
