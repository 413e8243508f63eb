------------------------------ MODULE Wildcard ------------------------------
(***************************************************************************)
(* wildcard_matches, the loop that matches a host against an ACL pattern   *)
(* with stars, going back to the last star on a mismatch.  The indices are *)
(* those of the code plus one.  A client may name a host with a star.      *)
(***************************************************************************)
EXTENDS Integers, Sequences

CONSTANTS Letters, MaxValue, MaxPattern   \* bounds on the two lengths

Star == "*"

ASSUME WildAssumption == Star \notin Letters

VARIABLES subject, pattern, valueIndex, patternIndex, star, retry, verdict

wildVars == <<subject, pattern, valueIndex, patternIndex, star, retry, verdict>>

WildInit ==
  /\ \E n \in 0 .. MaxValue : subject \in [1 .. n -> Letters \union {Star}]
  /\ \E n \in 0 .. MaxPattern : pattern \in [1 .. n -> Letters \union {Star}]
  /\ valueIndex = 1 /\ patternIndex = 1 /\ star = {} /\ retry = 1 /\ verdict = {}

Get(i) == IF i \in DOMAIN pattern THEN {pattern[i]} ELSE {}

Same ==
  /\ Get(patternIndex) = {subject[valueIndex]}
  /\ valueIndex' = valueIndex + 1 /\ patternIndex' = patternIndex + 1
  /\ UNCHANGED <<star, retry, verdict>>

(* A star of the pattern that meets a star of the host counts as the same. *)
MeetStar ==
  /\ Get(patternIndex) = {Star} /\ subject[valueIndex] # Star
  /\ star' = {patternIndex} /\ patternIndex' = patternIndex + 1 /\ retry' = valueIndex
  /\ UNCHANGED <<valueIndex, verdict>>

(* Mutant: the value is resumed where it failed. *)
GoBackNowhere ==
  /\ Get(patternIndex) \notin {{Star}, {subject[valueIndex]}}
  /\ IF star = {} THEN verdict' = {FALSE} /\ UNCHANGED <<valueIndex, patternIndex, retry>>
     ELSE /\ retry' = retry + 1 /\ valueIndex' = valueIndex + 1
          /\ patternIndex' = (CHOOSE s \in star : TRUE) + 1
          /\ UNCHANGED verdict
  /\ UNCHANGED star

GoBack ==
  /\ Get(patternIndex) \notin {{Star}, {subject[valueIndex]}}
  /\ IF star = {} THEN verdict' = {FALSE} /\ UNCHANGED <<valueIndex, patternIndex, retry>>
     ELSE /\ retry' = retry + 1 /\ valueIndex' = retry + 1
          /\ patternIndex' = (CHOOSE s \in star : TRUE) + 1
          /\ UNCHANGED verdict
  /\ UNCHANGED star

EndOfValue ==
  /\ valueIndex > Len(subject)
  /\ verdict' = {\A i \in patternIndex .. Len(pattern) : pattern[i] = Star}
  /\ UNCHANGED <<valueIndex, patternIndex, star, retry>>

WildNext ==
  /\ verdict = {}
  /\ \/ valueIndex <= Len(subject) /\ (Same \/ MeetStar \/ GoBack)
     \/ EndOfValue
  /\ UNCHANGED <<subject, pattern>>

(* What a pattern means: the host can be cut so that every star stands for *)
(* some piece of it, and everything else for itself.  cut[i] is where the  *)
(* first i of the pattern end.                                             *)
Piece(cut, i) ==
  IF pattern[i] = Star THEN cut[i - 1] <= cut[i]
  ELSE cut[i] = cut[i - 1] + 1 /\ subject[cut[i]] = pattern[i]

Glob ==
  \E cut \in [0 .. Len(pattern) -> 0 .. Len(subject)] :
    /\ cut[0] = 0 /\ cut[Len(pattern)] = Len(subject)
    /\ \A i \in 1 .. Len(pattern) : Piece(cut, i)

(* A host that wildcard_matches lets through is one the pattern means; and *)
(* for a host without a star the loop misses none: going back only to the  *)
(* last star is enough.  (A star of the host uses up the pattern's star,   *)
(* and the loop cannot go back to it: "*a.b" is not matched by "*.b".)     *)
WildcardIsGlob ==
  verdict # {} =>
    /\ verdict = {TRUE} => Glob
    /\ (\A i \in DOMAIN subject : subject[i] # Star) => verdict = {Glob}
=============================================================================
