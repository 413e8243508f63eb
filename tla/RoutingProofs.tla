---------------------------- MODULE RoutingProofs ---------------------------
(***************************************************************************)
(* Proofs about the two decisions by address: Wildcard, the matcher of     *)
(* host patterns, for hosts and patterns of any length over any letters,   *)
(* and TunRoutes, the routes and rules of a TUN interface, for any system  *)
(* and configuration.                                                      *)
(***************************************************************************)
EXTENDS Wildcard, TunRoutes, WellFoundedInduction, TLAPS

-----------------------------------------------------------------------------
(* A set of naturals that is not empty has a least element: induction, by *)
(* the smallest counterexample.                                            *)
LEMMA LeastNat ==
  ASSUME NEW T, T \subseteq Nat, T # {}
  PROVE  \E x \in T : \A y \in T : x <= y
<1> DEFINE R == OpToRel(<, Nat)
<1>1. IsWellFoundedOn(R, Nat)
  BY NatLessThanWellFounded, Zenon
<1>2. \A x, y \in Nat : y < x => <<y, x>> \in R
  BY DEF OpToRel
<1> HIDE DEF R
<1>3. PICK x \in T : \A y \in T : ~ (<<y, x>> \in R)
  BY <1>1, WFMin, Zenon
<1>4. \A y \in T : ~(y < x)
  BY <1>2, <1>3, Zenon
<1> QED BY <1>3, <1>4

(* Wildcard.  Upto says that the first i of the pattern can end where the  *)
(* first j of the host do.  Two things hold in every iteration.  What was  *)
(* consumed can be cut so, with the last star standing for any piece that  *)
(* reaches retry or further.  And for a host without a star no cut of the  *)
(* whole is missed: in each of them the last star ends at retry or later,  *)
(* and what follows it has the same length as what the loop compared.      *)
Cuts(h, q) == [0..Len(q) -> 0..Len(h)]

PieceOf(h, q, cut, i) ==
  IF q[i] = Star THEN cut[i - 1] <= cut[i]
  ELSE cut[i] = cut[i - 1] + 1 /\ h[cut[i]] = q[i]

Upto(h, q, cut, i, j) ==
  /\ cut \in Cuts(h, q) /\ cut[0] = 0 /\ cut[i] = j
  /\ \A x \in 1..i : PieceOf(h, q, cut, x)

CutOf(h, q, cut) == Upto(h, q, cut, Len(q), Len(h))

Consumed(h, q, i, j, stars, k) ==
  /\ \E cut : Upto(h, q, cut, i, j)
  /\ \A s \in stars : \E cut : Upto(h, q, cut, s, k)

Follows(cut, i, j, stars, k) ==
  /\ stars = {} => cut[i] = j
  /\ \A s \in stars : k <= cut[s] /\ cut[i] = cut[s] + (j - k)

Sizes(h, q, i, j, stars, k) ==
  /\ h \in Seq(Letters \cup {Star}) /\ q \in Seq(Letters \cup {Star})
  /\ i \in 0..Len(q) /\ j \in 0..Len(h) /\ k \in 0..j
  /\ \A s \in stars : s \in 1..i /\ stars = {s} /\ q[s] = Star

Plain(h) == \A x \in DOMAIN h : h[x] # Star

Good(h, q, i, j, stars, k) ==
  /\ Sizes(h, q, i, j, stars, k) /\ Consumed(h, q, i, j, stars, k)
  /\ Plain(h) => \A cut : CutOf(h, q, cut) => Follows(cut, i, j, stars, k)

WildInv ==
  /\ valueIndex \in Nat /\ patternIndex \in Nat /\ retry \in Nat
  /\ verdict = {} =>
       Good(subject, pattern, patternIndex - 1, valueIndex - 1, star, retry - 1)
  /\ WildcardIsGlob

LEMMA CutEnds ==
  ASSUME NEW h \in Seq(Letters \cup {Star}), NEW q, NEW cut \in Cuts(h, q), NEW x \in 0..Len(q)
  PROVE  cut[x] \in 0..Len(h) /\ cut[x] \in Nat
BY DEF Cuts

(* A cut that is good for the first i can be continued by one. *)
LEMMA Continued ==
  ASSUME NEW h \in Seq(Letters \cup {Star}), NEW q \in Seq(Letters \cup {Star}),
         NEW i \in 0..Len(q) - 1, NEW j \in 0..Len(h), NEW k \in 0..Len(h),
         NEW cut, Upto(h, q, cut, i, j),
         IF q[i + 1] = Star THEN j <= k ELSE k = j + 1 /\ h[k] = q[i + 1]
  PROVE  \E b : Upto(h, q, b, i + 1, k)
<1> DEFINE b == [cut EXCEPT ![i + 1] = k]
<1>0. Len(q) \in Nat /\ i \in Nat /\ i + 1 \in 0..Len(q) /\ i + 1 # 0 /\ i \in 0..Len(q)
  OBVIOUS
<1>1. /\ b \in Cuts(h, q) /\ b[i + 1] = k
      /\ \A x \in 0..Len(q) : x # i + 1 => b[x] = cut[x]
  BY <1>0 DEF Cuts, Upto
<1> HIDE DEF b
<1>2. ASSUME NEW x \in 1..i + 1 PROVE PieceOf(h, q, b, x)
  <2>1. x \in Nat /\ x - 1 \in 0..Len(q) /\ x \in 0..Len(q) /\ x - 1 # i + 1
    BY <1>0
  <2>2. b[x - 1] = cut[x - 1]
    BY <1>1, <2>1
  <2>3. CASE x = i + 1
    <3>1. b[x - 1] = j /\ b[x] = k
      BY <1>0, <1>1, <2>2, <2>3 DEF Upto
    <3> QED BY <2>3, <3>1 DEF PieceOf
  <2>4. CASE x # i + 1
    <3>1. x \in 1..i /\ b[x] = cut[x]
      BY <1>0, <1>1, <2>1, <2>4, SMTT(60)
    <3> QED BY <2>2, <3>1, ZenonT(30), SMTT(60) DEF PieceOf, Upto
  <2> QED BY <2>3, <2>4
<1>3. b[0] = 0
  BY <1>0, <1>1 DEF Upto
<1> QED BY <1>1, <1>2, <1>3 DEF Upto

(* The last star may stand for one more. *)
LEMMA Stretched ==
  ASSUME NEW h \in Seq(Letters \cup {Star}), NEW q \in Seq(Letters \cup {Star}),
         NEW s \in 1..Len(q), q[s] = Star, NEW j \in 0..Len(h) - 1,
         NEW cut, Upto(h, q, cut, s, j)
  PROVE  \E b : Upto(h, q, b, s, j + 1)
<1>0. /\ s - 1 \in 0..Len(q) - 1 /\ s - 1 \in 0..Len(q) /\ s - 1 + 1 = s
      /\ s \in Nat /\ j \in Nat /\ j + 1 \in 0..Len(h) /\ Len(q) \in Nat
  OBVIOUS
<1>1. Upto(h, q, cut, s - 1, cut[s - 1])
  BY <1>0 DEF Upto
<1>2. cut[s - 1] \in 0..Len(h) /\ cut[s - 1] <= j
  <2>1. cut[s - 1] \in 0..Len(h)
    BY <1>0, CutEnds DEF Upto
  <2>2. PieceOf(h, q, cut, s) /\ cut[s] = j
    BY <1>0 DEF Upto
  <2> QED BY <2>1, <2>2 DEF PieceOf
<1>3. cut[s - 1] <= j + 1
  BY <1>0, <1>2, SMTT(30)
<1>4. \E b : Upto(h, q, b, s - 1 + 1, j + 1)
  BY <1>0, <1>1, <1>2, <1>3, Continued, ZenonT(30), SMTT(60)
<1> QED BY <1>0, <1>4

(* In a cut of the whole nothing but stars follows where the host has      *)
(* ended.                                                                  *)
LEMMA OnlyStarsLeft ==
  ASSUME NEW h \in Seq(Letters \cup {Star}), NEW q \in Seq(Letters \cup {Star}),
         NEW cut, CutOf(h, q, cut), NEW p \in 0..Len(q), cut[p] = Len(h),
         NEW i \in p + 1..Len(q)
  PROVE  q[i] = Star
<1> SUFFICES ASSUME q[i] # Star PROVE FALSE
  OBVIOUS
<1>0. Len(q) \in Nat /\ Len(h) \in Nat /\ p \in Nat /\ i \in Nat
  OBVIOUS
<1> DEFINE Bad == {x \in p..Len(q) : cut[x] # Len(h)}
<1>1. i - 1 \in p..Len(q) /\ i \in p..Len(q) /\ i \in 1..Len(q)
  BY <1>0
<1>2. Bad # {}
  <2>1. cut[i] = cut[i - 1] + 1
    BY <1>1, ZenonT(30), SMTT(60) DEF CutOf, Upto, PieceOf
  <2>2. cut[i - 1] \in 0..Len(h) /\ cut[i] \in 0..Len(h)
    <3>1. i \in 0..Len(q) /\ i - 1 \in 0..Len(q)
      BY <1>0, <1>1
    <3> QED BY <3>1, CutEnds, ZenonT(30), SMTT(60) DEF CutOf, Upto
  <2>3. cut[i - 1] # Len(h)
    BY <1>0, <2>1, <2>2
  <2> QED BY <1>1, <2>3, ZenonT(30), SMTT(60)
<1>3. PICK x \in Bad : \A y \in Bad : x <= y
  <2>1. Bad \subseteq Nat
    BY <1>0
  <2> HIDE DEF Bad
  <2> QED BY <1>2, <2>1, LeastNat, Zenon
<1>4. x \in Nat /\ x \in p..Len(q) /\ cut[x] # Len(h) /\ x # p
  BY <1>0, <1>3
<1>5. x - 1 \in p..Len(q) /\ ~(x <= x - 1) /\ x \in 1..Len(q)
  BY <1>0, <1>4
<1>6. cut[x - 1] = Len(h)
  BY <1>3, <1>5
<1>7. PieceOf(h, q, cut, x)
  BY <1>5 DEF CutOf, Upto
<1>8. cut[x] \in 0..Len(h)
  <2>1. x \in 0..Len(q)
    BY <1>0, <1>5, SMTT(30)
  <2> QED BY <2>1, CutEnds, ZenonT(30), SMTT(60) DEF CutOf, Upto
<1> QED BY <1>0, <1>4, <1>6, <1>7, <1>8 DEF PieceOf

(* What a cut says of the pattern's next. *)
LEMMA CutNext ==
  ASSUME NEW h \in Seq(Letters \cup {Star}), NEW q \in Seq(Letters \cup {Star}),
         NEW cut, CutOf(h, q, cut), NEW i \in 0..Len(q)
  PROVE  /\ cut[i] \in Nat /\ cut[i] <= Len(h)
         /\ i = Len(q) => cut[i] = Len(h)
         /\ i # Len(q) => /\ i + 1 \in 1..Len(q) /\ cut[i + 1] \in Nat
                          /\ IF q[i + 1] = Star THEN cut[i] <= cut[i + 1]
                             ELSE cut[i + 1] = cut[i] + 1 /\ h[cut[i + 1]] = q[i + 1]
<1>1. Len(q) \in Nat /\ i \in Nat
  OBVIOUS
<1>2. cut[i] \in Nat /\ cut[i] <= Len(h)
  BY CutEnds DEF CutOf, Upto
<1>3. i = Len(q) => cut[i] = Len(h)
  BY DEF CutOf, Upto
<1>4. ASSUME i # Len(q)
      PROVE  /\ i + 1 \in 1..Len(q) /\ cut[i + 1] \in Nat
             /\ IF q[i + 1] = Star THEN cut[i] <= cut[i + 1]
                ELSE cut[i + 1] = cut[i] + 1 /\ h[cut[i + 1]] = q[i + 1]
  <2>1. i + 1 \in 1..Len(q) /\ i + 1 \in 0..Len(q) /\ i + 1 - 1 = i
    BY <1>1, <1>4
  <2>2. PieceOf(h, q, cut, i + 1) /\ cut[i + 1] \in Nat
    BY <2>1, CutEnds, ZenonT(30), SMTT(60) DEF CutOf, Upto
  <2> QED BY <2>1, <2>2, SMTT(60) DEF PieceOf
<1> QED BY <1>2, <1>3, <1>4

(* What is the same is a piece of a cut, and of every cut if it is no star. *)
LEMMA SameGood ==
  ASSUME NEW h, NEW q, NEW i, NEW j, NEW stars, NEW k, Good(h, q, i, j, stars, k),
         i < Len(q), j < Len(h), q[i + 1] = h[j + 1]
  PROVE  Good(h, q, i + 1, j + 1, stars, k)
<1>0. /\ h \in Seq(Letters \cup {Star}) /\ q \in Seq(Letters \cup {Star})
      /\ i \in 0..Len(q) - 1 /\ i \in 0..Len(q) /\ i \in Nat
      /\ j \in 0..Len(h) /\ j + 1 \in 0..Len(h) /\ j + 1 \in 1..Len(h)
      /\ j \in Nat /\ k \in Nat /\ k <= j
      /\ \A s \in stars : s \in 1..i /\ stars = {s} /\ q[s] = Star
  BY DEF Good, Sizes
<1>1. Plain(h) => q[i + 1] # Star
  BY <1>0 DEF Plain
<1>2. Sizes(h, q, i + 1, j + 1, stars, k)
  BY <1>0, SMTT(60) DEF Sizes
<1>3. Consumed(h, q, i + 1, j + 1, stars, k)
  <2>1. PICK cut : Upto(h, q, cut, i, j)
    BY DEF Good, Consumed
  <2>2. \E b : Upto(h, q, b, i + 1, j + 1)
    <3>1. IF q[i + 1] = Star THEN j <= j + 1 ELSE j + 1 = j + 1 /\ h[j + 1] = q[i + 1]
      BY <1>0
    <3> QED BY <1>0, <2>1, <3>1, Continued, Zenon
  <2>3. \A s \in stars : \E b : Upto(h, q, b, s, k)
    BY DEF Good, Consumed
  <2> QED BY <2>2, <2>3, Zenon DEF Consumed
<1>4. ASSUME Plain(h), NEW cut, CutOf(h, q, cut) PROVE Follows(cut, i + 1, j + 1, stars, k)
  <2>1. cut[i + 1] = cut[i] + 1 /\ cut[i] \in Nat
    BY <1>0, <1>1, <1>4, CutNext, SMTT(60)
  <2>2. Follows(cut, i, j, stars, k)
    BY <1>4 DEF Good
  <2>3. \A s \in stars : cut[s] \in Nat
    BY <1>0, <1>4, CutNext, SMTT(60)
  <2>4. stars = {} => cut[i + 1] = j + 1
    BY <2>1, <2>2 DEF Follows
  <2>5. ASSUME NEW s \in stars PROVE k <= cut[s] /\ cut[i + 1] = cut[s] + (j + 1 - k)
    <3>1. k <= cut[s] /\ cut[i] = cut[s] + (j - k) /\ cut[s] \in Nat
      BY <2>2, <2>3 DEF Follows
    <3> QED BY <1>0, <2>1, <3>1, SMTT(60)
  <2>6. \A s \in stars : k <= cut[s] /\ cut[i + 1] = cut[s] + (j + 1 - k)
    BY <2>5, Zenon
  <2> QED BY <1>0, <2>1, <2>3, <2>4, <2>6, SMTT(30) DEF Follows
<1> QED BY <1>2, <1>3, <1>4 DEF Good

(* A star may begin where the host is; every cut has it end there or       *)
(* later, since what follows the star before is at least as far on.        *)
LEMMA StarGood ==
  ASSUME NEW h, NEW q, NEW i, NEW j, NEW stars, NEW k, Good(h, q, i, j, stars, k),
         i < Len(q), q[i + 1] = Star
  PROVE  Good(h, q, i + 1, j, {i + 1}, j)
<1>0. /\ h \in Seq(Letters \cup {Star}) /\ q \in Seq(Letters \cup {Star})
      /\ i \in 0..Len(q) - 1 /\ i \in 0..Len(q) /\ i \in Nat /\ i + 1 \in 1..Len(q)
      /\ j \in 0..Len(h) /\ j \in Nat /\ k \in Nat /\ k <= j
      /\ \A s \in stars : s \in 1..i /\ stars = {s} /\ q[s] = Star
  BY DEF Good, Sizes
<1>2. Sizes(h, q, i + 1, j, {i + 1}, j)
  BY <1>0 DEF Sizes
<1>3. Consumed(h, q, i + 1, j, {i + 1}, j)
  <2>1. PICK cut : Upto(h, q, cut, i, j)
    BY ZenonT(30), SMTT(60) DEF Good, Consumed
  <2>2. \E b : Upto(h, q, b, i + 1, j)
    BY <1>0, <2>1, Continued
  <2> QED BY <2>2, Zenon DEF Consumed
<1>4. ASSUME Plain(h), NEW cut, CutOf(h, q, cut) PROVE Follows(cut, i + 1, j, {i + 1}, j)
  <2>1. cut[i] <= cut[i + 1] /\ cut[i] \in Nat /\ cut[i + 1] \in Nat
    BY <1>0, <1>4, CutNext, SMTT(60)
  <2>2. Follows(cut, i, j, stars, k)
    BY <1>4 DEF Good
  <2>3. cut[i] >= j
    <3>1. CASE stars = {}
      BY <1>0, <2>2, <3>1 DEF Follows
    <3>2. CASE stars # {}
      <4>1. PICK s \in stars : k <= cut[s] /\ cut[i] = cut[s] + (j - k)
        BY <2>2, <3>2, ZenonT(30), SMTT(60) DEF Follows
      <4>2. cut[s] \in Nat
        BY <1>0, <1>4, CutNext, SMTT(60)
      <4> QED BY <1>0, <2>1, <4>1, <4>2, SMTT(60)
    <3> QED BY <3>1, <3>2
  <2> QED BY <1>0, <2>1, <2>3, SMTT(60) DEF Follows
<1> QED BY <1>2, <1>3, <1>4, Zenon DEF Good

(* At a mismatch no cut ends the first i at j. *)
LEMMA NoCutHere ==
  ASSUME NEW h \in Seq(Letters \cup {Star}), NEW q \in Seq(Letters \cup {Star}),
         NEW i \in 0..Len(q), NEW j \in Nat, j < Len(h),
         i < Len(q) => q[i + 1] \notin {Star, h[j + 1]},
         NEW cut, CutOf(h, q, cut)
  PROVE  cut[i] # j
<1>1. CASE i = Len(q)
  BY <1>1, CutNext
<1>2. CASE i # Len(q)
  <2>1. i < Len(q)
    BY <1>2, SMTT(30)
  <2>2. cut[i + 1] = cut[i] + 1 /\ h[cut[i + 1]] = q[i + 1]
    BY <1>2, <2>1, CutNext, SMTT(60)
  <2> QED BY <2>1, <2>2
<1> QED BY <1>1, <1>2, ZenonT(30), SMTT(60)

(* The last star has to stand for one more then. *)
LEMMA BackGood ==
  ASSUME NEW h, NEW q, NEW i, NEW j, NEW stars, NEW k, Good(h, q, i, j, stars, k),
         j < Len(h), i < Len(q) => q[i + 1] \notin {Star, h[j + 1]}, NEW s \in stars
  PROVE  Good(h, q, s, k + 1, {s}, k + 1)
<1>0. /\ h \in Seq(Letters \cup {Star}) /\ q \in Seq(Letters \cup {Star})
      /\ i \in 0..Len(q) /\ j \in Nat /\ k \in Nat /\ k <= j
      /\ s \in 1..Len(q) /\ s \in 0..Len(q) /\ s \in Nat /\ q[s] = Star
      /\ k \in 0..Len(h) - 1
  BY DEF Good, Sizes
<1>1. Sizes(h, q, s, k + 1, {s}, k + 1)
  BY <1>0 DEF Sizes
<1>2. Consumed(h, q, s, k + 1, {s}, k + 1)
  <2>1. PICK cut : Upto(h, q, cut, s, k)
    BY ZenonT(30), SMTT(60) DEF Good, Consumed
  <2>2. \E b : Upto(h, q, b, s, k + 1)
    BY <1>0, <2>1, Stretched, ZenonT(30), SMTT(60)
  <2> QED BY <2>2, ZenonT(60) DEF Consumed
<1>3. ASSUME Plain(h), NEW cut, CutOf(h, q, cut) PROVE Follows(cut, s, k + 1, {s}, k + 1)
  <2>1. k <= cut[s] /\ cut[i] = cut[s] + (j - k)
    BY <1>3, ZenonT(30), SMTT(60) DEF Good, Follows
  <2>2. cut[i] # j
    BY <1>0, <1>3, NoCutHere, ZenonT(30), SMTT(60)
  <2>3. cut[s] \in Nat
    BY <1>0, <1>3, CutNext, Zenon
  <2>4. k + 1 <= cut[s] /\ cut[s] = cut[s] + (k + 1 - (k + 1))
    BY <1>0, <2>1, <2>2, <2>3, SMTT(60)
  <2>5. \A x \in {s} : k + 1 <= cut[x] /\ cut[s] = cut[x] + (k + 1 - (k + 1))
    BY <2>4, Zenon
  <2> QED BY <1>0, <2>3, <2>5, SMTT(60) DEF Follows
<1> QED BY <1>1, <1>2, <1>3, Zenon DEF Good

(* At the end of the host there is a cut of the whole if the rest of the   *)
(* pattern is stars, and for a host without a star only then.              *)
LEMMA EndGood ==
  ASSUME NEW h, NEW q, NEW i, NEW stars, NEW k, Good(h, q, i, Len(h), stars, k)
  PROVE  /\ (\A x \in i + 1..Len(q) : q[x] = Star) => (\E cut : CutOf(h, q, cut))
         /\ Plain(h) /\ (\E cut : CutOf(h, q, cut)) => \A x \in i + 1..Len(q) : q[x] = Star
<1>0. /\ h \in Seq(Letters \cup {Star}) /\ q \in Seq(Letters \cup {Star}) /\ Len(h) \in Nat
      /\ i \in 0..Len(q) /\ i \in Nat /\ Len(q) \in Nat /\ k \in Nat /\ k <= Len(h)
      /\ \A s \in stars : s \in 0..Len(q)
  BY DEF Good, Sizes
<1>1. ASSUME \A x \in i + 1..Len(q) : q[x] = Star PROVE \E cut : CutOf(h, q, cut)
  <2>1. PICK cut : Upto(h, q, cut, i, Len(h))
    BY DEF Good, Consumed
  <2> DEFINE b == [x \in 0..Len(q) |-> IF x <= i THEN cut[x] ELSE Len(h)]
  <2>2. /\ \A x \in 0..Len(q) : cut[x] \in 0..Len(h)
        /\ cut[0] = 0 /\ cut[i] = Len(h)
    BY <1>0, <2>1, CutEnds DEF Upto
  <2>3. b \in Cuts(h, q) /\ b[0] = 0 /\ b[Len(q)] = Len(h)
    BY <1>0, <2>2 DEF Cuts
  <2>4. ASSUME NEW x \in 1..Len(q) PROVE PieceOf(h, q, b, x)
    <3>1. x \in Nat /\ x \in 0..Len(q) /\ x - 1 \in 0..Len(q)
      BY <1>0, SMTT(30)
    <3>2. CASE x <= i
      <4>1. b[x] = cut[x] /\ b[x - 1] = cut[x - 1] /\ x \in 1..i
        BY <1>0, <3>1, <3>2
      <4>2. PieceOf(h, q, cut, x)
        BY <2>1, <4>1 DEF Upto
      <4> HIDE DEF b
      <4> QED BY <4>1, <4>2 DEF PieceOf
    <3>3. CASE ~(x <= i)
      <4>1. q[x] = Star /\ b[x] = Len(h)
        BY <1>0, <1>1, <3>1, <3>3, SMTT(30)
      <4>2. b[x - 1] \in 0..Len(h)
        BY <1>0, <2>3, <3>1, CutEnds, ZenonT(30), SMTT(60)
      <4> HIDE DEF b
      <4> QED BY <1>0, <4>1, <4>2 DEF PieceOf
    <3> QED BY <3>2, <3>3
  <2> HIDE DEF b
  <2> QED BY <2>3, <2>4 DEF CutOf, Upto
<1>2. ASSUME Plain(h), NEW cut, CutOf(h, q, cut), NEW x \in i + 1..Len(q) PROVE q[x] = Star
  <2>1. Follows(cut, i, Len(h), stars, k)
    BY <1>2, ZenonT(30), SMTT(60) DEF Good
  <2>2. cut[i] \in Nat /\ cut[i] <= Len(h) /\ \A s \in stars : cut[s] \in Nat
    BY <1>0, <1>2, CutNext, ZenonT(30), SMTT(60)
  <2>3. cut[i] = Len(h)
    <3>1. CASE stars = {}
      BY <2>1, <3>1 DEF Follows
    <3>2. CASE stars # {}
      <4>1. PICK s \in stars : k <= cut[s] /\ cut[i] = cut[s] + (Len(h) - k)
        BY <2>1, <3>2 DEF Follows
      <4> QED BY <1>0, <2>2, <4>1
    <3> QED BY <3>1, <3>2
  <2> QED BY <1>0, <1>2, <2>3, OnlyStarsLeft
<1> QED BY <1>1, <1>2

LEMMA GlobIsCut == Glob <=> \E cut : CutOf(subject, pattern, cut)
BY Zenon DEF Glob, Piece, CutOf, Upto, PieceOf, Cuts

(* The host and the pattern stay. *)
LEMMA GlobStays ==
  ASSUME UNCHANGED <<subject, pattern>>
  PROVE  Glob' = Glob
<1>1. subject' = subject /\ pattern' = pattern
  OBVIOUS
<1>2. Glob' <=> Glob
  BY <1>1 DEF Glob, Piece
<1> QED BY <1>2, ZenonT(30), SMTT(60) DEF Glob

(* What WildcardIsGlob asks of an answer. *)
LEMMA Answers ==
  ASSUME NEW answer \in BOOLEAN, verdict' = {answer}, subject' = subject, Glob' = Glob,
         answer = TRUE => Glob, Plain(subject) => answer = Glob
  PROVE  WildcardIsGlob'
<1>1. (\A i \in DOMAIN subject : subject[i] # Star)' => Plain(subject)
  BY DEF Plain
<1>2. verdict' = {TRUE} => answer = TRUE
  BY ZenonT(60)
<1> QED BY <1>1, <1>2, Zenon DEF WildcardIsGlob

LEMMA WildStep ==
  ASSUME WildInv, WildNext
  PROVE  WildInv'
<1> DEFINE i == patternIndex - 1
           j == valueIndex - 1
           k == retry - 1
<1>0. /\ Good(subject, pattern, i, j, star, k) /\ verdict = {}
      /\ subject' = subject /\ pattern' = pattern
      /\ i + 1 = patternIndex /\ j + 1 = valueIndex /\ k + 1 = retry
      /\ i \in Nat /\ j \in Nat /\ k \in Nat
      /\ i <= Len(pattern) /\ j <= Len(subject)
      /\ Len(subject) \in Nat /\ Len(pattern) \in Nat
      /\ DOMAIN pattern = 1..Len(pattern)
      /\ \A s \in star : s \in Nat /\ star = {s}
  BY DEF WildInv, WildNext, Good, Sizes
<1>1. Get(patternIndex) = IF i < Len(pattern) THEN {pattern[i + 1]} ELSE {}
  <2>1. patternIndex \in DOMAIN pattern <=> i < Len(pattern)
    BY <1>0
  <2> HIDE DEF i, j, k
  <2> QED BY <1>0, <2>1, Zenon DEF Get
<1> HIDE DEF i, j, k
<1>6. /\ patternIndex = i + 1 /\ valueIndex = j + 1 /\ retry = k + 1
      /\ i \in Nat /\ j \in Nat /\ k \in Nat /\ verdict = {}
  BY <1>0
<1>2. CASE valueIndex <= Len(subject) /\ Same
  <2>1. i < Len(pattern) /\ j < Len(subject) /\ pattern[i + 1] = subject[j + 1]
    <3>1. Get(patternIndex) = {subject[j + 1]} /\ j < Len(subject)
      BY <1>0, <1>2, <1>6, SMTT(30) DEF Same
    <3>2. CASE i < Len(pattern)
      <4>1. {pattern[i + 1]} = {subject[j + 1]}
        BY <1>1, <3>1, <3>2, Zenon
      <4>2. pattern[i + 1] = subject[j + 1]
        BY <4>1
      <4> QED BY <3>1, <3>2, <4>2
    <3>3. CASE ~(i < Len(pattern))
      <4>1. {} = {subject[j + 1]}
        BY <1>1, <3>1, <3>3, Zenon
      <4> QED BY <4>1, Zenon
    <3> QED BY <3>2, <3>3, ZenonT(30), SMTT(60)
  <2>2. Good(subject, pattern, i + 1, j + 1, star, k)
    BY <1>0, <2>1, SameGood, Zenon
  <2>3. /\ patternIndex' - 1 = i + 1 /\ valueIndex' - 1 = j + 1 /\ retry' - 1 = k
        /\ patternIndex' \in Nat /\ valueIndex' \in Nat /\ retry' \in Nat
        /\ star' = star /\ verdict' = {}
    BY <1>2, <1>6 DEF Same
  <2> QED BY <1>0, <2>2, <2>3, Zenon DEF WildInv, WildcardIsGlob
<1>3. CASE valueIndex <= Len(subject) /\ MeetStar
  <2>1. i < Len(pattern) /\ pattern[i + 1] = Star
    BY <1>0, <1>1, <1>3, ZenonT(30), SMTT(60) DEF MeetStar
  <2>2. Good(subject, pattern, i + 1, j, {i + 1}, j)
    BY <1>0, <2>1, StarGood, Zenon
  <2>3. /\ patternIndex' - 1 = i + 1 /\ valueIndex' - 1 = j /\ retry' - 1 = j
        /\ patternIndex' \in Nat /\ valueIndex' \in Nat /\ retry' \in Nat
        /\ star' = {i + 1} /\ verdict' = {}
    BY <1>3, <1>6 DEF MeetStar
  <2> QED BY <1>0, <2>2, <2>3, Zenon DEF WildInv, WildcardIsGlob
<1>4. CASE valueIndex <= Len(subject) /\ GoBack
  <2>1. j < Len(subject) /\ (i < Len(pattern) => pattern[i + 1] \notin {Star, subject[j + 1]})
    BY <1>0, <1>1, <1>4, SMTT(60) DEF GoBack
  <2>2. CASE star = {}
    <3>1. ASSUME Plain(subject), NEW cut, CutOf(subject, pattern, cut) PROVE FALSE
      <4>1. cut[i] = j
        BY <1>0, <2>2, <3>1 DEF Good, Follows
      <4>2. /\ subject \in Seq(Letters \cup {Star}) /\ pattern \in Seq(Letters \cup {Star})
            /\ i \in 0..Len(pattern) /\ j \in Nat
        BY <1>0, ZenonT(30), SMTT(60) DEF Good, Sizes
      <4>3. cut[i] # j
        BY ONLY <2>1, <3>1, <4>2, NoCutHere, ZenonT(60)
      <4> QED BY <4>1, <4>3
    <3>2. Plain(subject) => Glob = FALSE
      BY <3>1, GlobIsCut DEF Glob
    <3>3. verdict' = {FALSE} /\ UNCHANGED <<patternIndex, valueIndex, retry>>
      BY <1>4, <2>2, ZenonT(60) DEF GoBack
    <3>4. WildcardIsGlob'
      BY <1>0, <3>2, <3>3, GlobStays, Answers, ZenonT(60)
    <3> QED BY <3>3, <3>4, ZenonT(60) DEF WildInv
  <2>3. CASE star # {}
    <3>1. PICK s \in star : star = {s} /\ s \in Nat
      BY <1>0, <2>3
    <3>2. Good(subject, pattern, s, k + 1, {s}, k + 1)
      BY <1>0, <2>1, BackGood, Zenon
    <3>3. /\ patternIndex' = s + 1 /\ valueIndex' = k + 1 + 1 /\ retry' = k + 1 + 1
          /\ star' = {s} /\ verdict' = {}
      BY <1>0, <1>4, <2>3, <3>1, Zenon DEF GoBack
    <3>4. /\ patternIndex' - 1 = s /\ valueIndex' - 1 = k + 1 /\ retry' - 1 = k + 1
          /\ patternIndex' \in Nat /\ valueIndex' \in Nat /\ retry' \in Nat
      BY <1>0, <3>1, <3>3
    <3> QED BY <1>0, <3>2, <3>3, <3>4 DEF WildInv, WildcardIsGlob
  <2> QED BY <2>2, <2>3, ZenonT(30), SMTT(60)
<1>5. CASE EndOfValue
  <2> DEFINE Rest == \A x \in patternIndex..Len(pattern) : pattern[x] = Star
  <2>1. j = Len(subject)
    BY <1>0, <1>5 DEF EndOfValue
  <2>2. (Rest => Glob) /\ (Plain(subject) /\ Glob => Rest)
    BY <1>0, <2>1, EndGood, GlobIsCut, ZenonT(30), SMTT(60)
  <2>3. verdict' = {Rest} /\ UNCHANGED <<patternIndex, valueIndex, retry>>
    BY <1>5, Zenon DEF EndOfValue
  <2>4. Rest \in BOOLEAN
    OBVIOUS
  <2> HIDE DEF Rest
  <2>5. (Rest = TRUE => Glob) /\ (Plain(subject) => Rest = Glob)
    BY <2>2, <2>4, ZenonT(60) DEF Glob
  <2>6. WildcardIsGlob'
    BY <1>0, <2>3, <2>4, <2>5, GlobStays, Answers, ZenonT(60)
  <2> QED BY <2>3, <2>6 DEF WildInv
<1> QED BY <1>2, <1>3, <1>4, <1>5 DEF WildNext

(* For every host and every pattern, of any length: a host that            *)
(* wildcard_matches accepts can be cut into what the pattern says, and for *)
(* a host without a star it answers whether it can.  Going back to the     *)
(* last star only is enough, and so is giving up at a mismatch before the  *)
(* first one.                                                              *)
THEOREM WildcardMatchesGlob == WildInit /\ [][WildNext]_wildVars => []WildcardIsGlob
<1>1. WildInit => WildInv
  <2> SUFFICES ASSUME WildInit PROVE WildInv
    OBVIOUS
  <2>1. /\ subject \in Seq(Letters \cup {Star}) /\ pattern \in Seq(Letters \cup {Star})
        /\ Len(subject) \in Nat /\ Len(pattern) \in Nat
    BY DEF WildInit
  <2>2. /\ patternIndex - 1 = 0 /\ valueIndex - 1 = 0 /\ retry - 1 = 0
        /\ star = {} /\ verdict = {}
        /\ patternIndex \in Nat /\ valueIndex \in Nat /\ retry \in Nat
    BY DEF WildInit
  <2> DEFINE zero == [x \in 0..Len(pattern) |-> 0]
  <2>3. Upto(subject, pattern, zero, 0, 0)
    BY <2>1 DEF Cuts, Upto
  <2>4. Consumed(subject, pattern, 0, 0, {}, 0)
    BY <2>3, Zenon DEF Consumed
  <2>5. Sizes(subject, pattern, 0, 0, {}, 0)
    BY <2>1 DEF Sizes
  <2>6. \A cut : CutOf(subject, pattern, cut) => Follows(cut, 0, 0, {}, 0)
    BY DEF CutOf, Upto, Follows
  <2>7. Good(subject, pattern, 0, 0, {}, 0)
    BY <2>4, <2>5, <2>6 DEF Good
  <2> QED BY <2>2, <2>7 DEF WildInv, WildcardIsGlob
<1>2. WildInv /\ [WildNext]_wildVars => WildInv'
  <2>1. WildInv /\ UNCHANGED wildVars => WildInv'
    BY GlobStays, ZenonT(60) DEF wildVars, WildInv, WildcardIsGlob
  <2> QED BY <2>1, WildStep
<1>3. WildInv => WildcardIsGlob
  BY DEF WildInv
<1> QED BY <1>1, <1>2, <1>3, PTL

-----------------------------------------------------------------------------
(* TunRoutes.                                                              *)

Elems(s) == {s[i] : i \in 1..Len(s)}
Distinct(s) == \A i, j \in 1..Len(s) : s[i] = s[j] => i = j

TunTypes ==
  /\ tunCfg \in TunConfigs /\ original \in Systems /\ table \subseteq Tables
  /\ todo \in Seq(Dests) /\ installed \in Seq(Routes) /\ rules \in Seq(PolicyRules)

(* The system is what it was with what is noted as installed, each of      *)
(* which it did not have before.                                           *)
Tracked ==
  /\ system = [routes |-> original.routes \union Elems(installed),
               rules |-> original.rules \union Elems(rules)]
  /\ Distinct(installed) /\ Elems(installed) \cap original.routes = {}
  /\ \A i \in 1..Len(rules) : rules[i].index = i - 1
  /\ Elems(rules) \cap original.rules = {}

TunInv ==
  /\ TunTypes
  /\ step = "gone" => installed = <<>> /\ rules = <<>>
  /\ ~stuck => Tracked

LEMMA ElemsEmpty == Elems(<<>>) = {}
<1>1. 1..Len(<<>>) = {}
  BY SMTT(60)
<1> QED BY <1>1, Zenon DEF Elems

LEMMA AppendElems ==
  ASSUME NEW S, NEW s \in Seq(S), NEW e \in S
  PROVE  /\ Append(s, e) \in Seq(S) /\ Len(Append(s, e)) = Len(s) + 1
         /\ Elems(Append(s, e)) = Elems(s) \union {e}
         /\ \A i \in 1..Len(s) : Append(s, e)[i] = s[i]
         /\ Append(s, e)[Len(s) + 1] = e
<1>1. Append(s, e) \in Seq(S) /\ Len(Append(s, e)) = Len(s) + 1 /\ Len(s) \in Nat
  OBVIOUS
<1>2. \A i \in 1..Len(s) : Append(s, e)[i] = s[i]
  OBVIOUS
<1>3. Append(s, e)[Len(s) + 1] = e
  OBVIOUS
<1>4. \A i \in 1..(Len(s) + 1) : i \in 1..Len(s) \/ i = Len(s) + 1
  BY <1>1
<1>5. 1..Len(s) \subseteq 1..(Len(s) + 1) /\ Len(s) + 1 \in 1..(Len(s) + 1)
  BY <1>1
<1>6. Elems(Append(s, e)) = Elems(s) \union {e}
  BY <1>1, <1>2, <1>3, <1>4, <1>5, Zenon DEF Elems
<1> QED BY <1>1, <1>2, <1>3, <1>6

LEMMA SubSeqIs ==
  ASSUME NEW S, NEW s, NEW n \in Nat, \A i \in 1..n : s[i] \in S
  PROVE  /\ SubSeq(s, 1, n) \in Seq(S) /\ Len(SubSeq(s, 1, n)) = n
         /\ \A i \in 1..n : SubSeq(s, 1, n)[i] = s[i]
OBVIOUS

LEMMA EarlierElems ==
  ASSUME NEW S, NEW s \in Seq(S), s # <<>>
  PROVE  /\ Earlier(s) \in Seq(S) /\ Len(Earlier(s)) = Len(s) - 1
         /\ \A i \in 1..(Len(s) - 1) : Earlier(s)[i] = s[i]
         /\ Distinct(s) => Elems(Earlier(s)) = Elems(s) \ {Newest(s)} /\ Distinct(Earlier(s))
<1>1. Len(s) \in Nat \ {0}
  OBVIOUS
<1>2. Earlier(s) \in Seq(S) /\ Len(Earlier(s)) = Len(s) - 1
  <2>1. Len(s) - 1 \in Nat /\ \A i \in 1..(Len(s) - 1) : s[i] \in S
    BY <1>1
  <2> QED BY <2>1, SubSeqIs, ZenonT(60) DEF Earlier
<1>3. \A i \in 1..(Len(s) - 1) : Earlier(s)[i] = s[i]
  <2>1. Len(s) - 1 \in Nat /\ \A i \in 1..(Len(s) - 1) : s[i] \in S
    BY <1>1
  <2> QED BY <2>1, SubSeqIs DEF Earlier
<1>4. ASSUME Distinct(s)
      PROVE  Elems(Earlier(s)) = Elems(s) \ {Newest(s)} /\ Distinct(Earlier(s))
  <2>1. \A i \in 1..Len(s) : i \in 1..(Len(s) - 1) \/ i = Len(s)
    BY <1>1
  <2>2. \A i \in 1..(Len(s) - 1) : i \in 1..Len(s) /\ i # Len(s)
    BY <1>1
  <2>3. Len(s) \in 1..Len(s)
    BY <1>1
  <2>4. Distinct(Earlier(s))
    BY <1>2, <1>3, <1>4, <2>2 DEF Distinct
  <2>5. \A i \in 1..(Len(s) - 1) : s[i] # Newest(s)
    BY <1>4, <2>2, <2>3 DEF Distinct, Newest
  <2>6. Elems(Earlier(s)) = Elems(s) \ {Newest(s)}
    BY <1>2, <1>3, <2>1, <2>2, <2>5, Zenon DEF Elems, Newest
  <2> QED BY <2>4, <2>6
<1> QED BY <1>2, <1>3, <1>4

LEMMA TunStart == TunInit => TunInv
<1> SUFFICES ASSUME TunInit PROVE TunInv
  OBVIOUS
<1>1. \A S : <<>> \in Seq(S)
  OBVIOUS
<1>2. TunTypes
  BY <1>1 DEF TunInit, TunTypes
<1>3. original \in [routes : SUBSET Routes, rules : SUBSET PolicyRules]
  BY TunAssumption DEF TunInit
<1>4. original = [routes |-> original.routes, rules |-> original.rules]
  BY <1>3
<1>5. Tracked
  BY <1>4, ElemsEmpty DEF TunInit, Tracked, Distinct
<1> QED BY <1>2, <1>5 DEF TunInv, TunInit

(* A route that was not there is added and noted. *)
LEMMA AddTracked ==
  ASSUME TunTypes, Tracked, NEW r \in Routes, Add(r), UNCHANGED <<original, rules>>
  PROVE  Tracked'
<1>1. /\ installed' = Append(installed, r) /\ r \notin system.routes
      /\ system' = [system EXCEPT !.routes = @ \cup {r}]
  BY DEF Add
<1>2. r \notin original.routes /\ r \notin Elems(installed)
  BY <1>1 DEF Tracked
<1>3. /\ Elems(installed') = Elems(installed) \union {r}
      /\ Len(installed') = Len(installed) + 1 /\ Len(installed) \in Nat
      /\ \A i \in 1..Len(installed) : installed'[i] = installed[i]
      /\ installed'[Len(installed) + 1] = r
  BY <1>1, AppendElems DEF TunTypes
<1>4. system' = [routes |-> original'.routes \union Elems(installed'),
                 rules |-> original'.rules \union Elems(rules')]
  BY <1>1, <1>3, Zenon DEF Tracked
<1>5. Distinct(installed')
  <2> SUFFICES ASSUME NEW i \in 1..Len(installed'), NEW j \in 1..Len(installed'),
                      installed'[i] = installed'[j]
               PROVE  i = j
    BY DEF Distinct
  <2>1. \A k \in 1..Len(installed) : installed[k] # r
    BY <1>2, Zenon DEF Elems
  <2>2. (i \in 1..Len(installed) \/ i = Len(installed) + 1)
        /\ (j \in 1..Len(installed) \/ j = Len(installed) + 1)
    BY <1>3, SMTT(60)
  <2>3. Distinct(installed)
    BY DEF Tracked
  <2> QED BY <1>3, <2>1, <2>2, <2>3, Zenon DEF Distinct
<1> QED BY <1>2, <1>3, <1>4, <1>5, Zenon DEF Tracked

LEMMA InstallStep ==
  ASSUME TunInv, Begin \/ Exclude \/ Include
  PROVE  TunInv'
<1>1. UNCHANGED <<tunCfg, original, rules, stuck>> /\ step # "gone" /\ step' # "gone"
  BY DEF Begin, Exclude, Include, Fail, Add
<1>2. TunTypes /\ \A S : <<>> \in Seq(S)
  BY DEF TunInv
<1>3. CASE Begin
  <2>1. UNCHANGED <<system, installed>> /\ table' \subseteq Tables /\ todo' \in {<<>>, tunCfg.exclude}
    BY <1>3, Zenon DEF Begin, SelectTable
  <2>2. TunTypes'
    BY <1>1, <1>2, <2>1, TunAssumption, Zenon DEF TunTypes
  <2> QED BY <1>1, <2>1, <2>2, Zenon DEF TunInv, Tracked
<1>4. CASE (Exclude \/ Include) /\ UNCHANGED <<system, installed>>
  <2>1. UNCHANGED table /\ todo' \in {<<>>, tunCfg.include, todo}
    BY <1>2, <1>4 DEF Exclude, Include, Fail, Add
  <2>2. TunTypes'
    BY <1>1, <1>2, <1>4, <2>1, TunAssumption, Zenon DEF TunTypes
  <2> QED BY <1>1, <1>4, <2>2, ZenonT(60) DEF TunInv, Tracked
<1>5. CASE (Exclude \/ Include) /\ ~UNCHANGED <<system, installed>>
  <2>1. UNCHANGED table /\ todo # <<>>
    BY <1>5, Zenon DEF Exclude, Include
  <2>2. Head(todo) \in Dests /\ Tail(todo) \in Seq(Dests)
    BY <1>2, <2>1 DEF TunTypes
  <2>3. PICK r \in Routes : Add(r)
    <3>1. CASE Exclude
      <4>1. PICK b \in Base(Head(todo)) : Add(Route(Head(todo), b.dev, b.table))
        BY <1>5, <2>1, <3>1, Zenon DEF Exclude, Fail
      <4>2. b \in original.routes /\ original \in [routes : SUBSET Routes, rules : SUBSET PolicyRules]
        BY <1>2, TunAssumption, Zenon DEF Base, TunTypes
      <4>3. b \in Routes
        BY <4>2, ZenonT(30), SMTT(60)
      <4>4. Route(Head(todo), b.dev, b.table) \in Routes
        BY <2>2, <4>3, Zenon DEF Route, Routes
      <4> QED BY <4>1, <4>4
    <3>2. CASE Include
      <4>1. PICK t \in (IF tunCfg.strict THEN table ELSE {Main}) : Add(Route(Head(todo), "tun", t))
        BY <1>5, <2>1, <3>2 DEF Include, Fail
      <4>2. t \in Int
        BY <1>2, TunAssumption DEF TunTypes, Main
      <4>3. Route(Head(todo), "tun", t) \in Routes
        BY <2>2, <4>2, Zenon DEF Route, Routes, Devices
      <4> QED BY <4>1, <4>3, ZenonT(60)
    <3> QED BY <1>5, <3>1, <3>2
  <2>4. installed' = Append(installed, r) /\ todo' = Tail(todo)
    BY <2>3 DEF Add
  <2>5. TunTypes'
    BY <1>1, <1>2, <2>1, <2>2, <2>4 DEF TunTypes
  <2>6. ~stuck => Tracked'
    BY <1>1, <1>2, <2>3, AddTracked DEF TunInv
  <2> QED BY <1>1, <2>5, <2>6 DEF TunInv
<1> QED BY <1>3, <1>4, <1>5

LEMMA PolicyStep ==
  ASSUME TunInv, Policy
  PROVE  TunInv'
<1>1. /\ UNCHANGED <<tunCfg, original, todo, installed, table, stuck>>
      /\ step # "gone" /\ step' # "gone"
  BY DEF Policy
<1>2. TunTypes
  BY DEF TunInv
<1>3. CASE UNCHANGED <<system, rules>>
  BY <1>1, <1>2, <1>3, Zenon DEF TunInv, TunTypes, Tracked
<1>4. CASE \E b \in SelectPriority :
             /\ rules' = Append(rules, Rule(b, Len(rules)))
             /\ system' = [system EXCEPT !.rules = @ \cup {Rule(b, Len(rules))}]
  <2>1. PICK b \in SelectPriority :
          /\ rules' = Append(rules, Rule(b, Len(rules)))
          /\ system' = [system EXCEPT !.rules = @ \cup {Rule(b, Len(rules))}]
    BY <1>4, Zenon
  <2> DEFINE r == Rule(b, Len(rules))
  <2>2. Len(rules) \in Nat /\ b \in Int /\ \A q \in original.rules : q.block # b
    BY <1>2, TunAssumption, SMTT(60) DEF TunTypes, SelectPriority
  <2>3. r \in PolicyRules /\ r.index = Len(rules) /\ r.block = b
    BY <2>2 DEF Rule, PolicyRules
  <2>4. r \notin original.rules
    BY <2>2, <2>3
  <2> HIDE DEF r
  <2>5. rules' = Append(rules, r) /\ system' = [system EXCEPT !.rules = @ \cup {r}]
    BY <2>1 DEF r
  <2>6. /\ rules' \in Seq(PolicyRules) /\ Elems(rules') = Elems(rules) \union {r}
        /\ Len(rules') = Len(rules) + 1 /\ \A i \in 1..Len(rules) : rules'[i] = rules[i]
        /\ rules'[Len(rules) + 1] = r
    <3>1. rules \in Seq(PolicyRules)
      BY <1>2, Zenon DEF TunTypes
    <3> QED BY ONLY <2>3, <2>5, <3>1, AppendElems
  <2>7. TunTypes'
    BY <1>1, <1>2, <2>6 DEF TunTypes
  <2>8. ASSUME Tracked PROVE Tracked'
    <3>1. system' = [routes |-> original'.routes \union Elems(installed'),
                     rules |-> original'.rules \union Elems(rules')]
      BY <1>1, <2>5, <2>6, <2>8, ZenonT(60) DEF Tracked
    <3>2. \A i \in 1..Len(rules') : rules'[i].index = i - 1
      BY <2>2, <2>3, <2>6, <2>8 DEF Tracked
    <3> QED BY <1>1, <2>4, <2>6, <2>8, <3>1, <3>2, ZenonT(60) DEF Tracked
  <2> QED BY <1>1, <2>7, <2>8 DEF TunInv
<1> QED BY <1>3, <1>4 DEF Policy

LEMMA UndoStep ==
  ASSUME TunInv, Undo
  PROVE  TunInv'
<1>1. UNCHANGED <<tunCfg, original, todo, table>> /\ step = "dropping"
  BY DEF Undo
<1>2. TunTypes
  BY DEF TunInv
<1>3. ASSUME NEW ok \in BOOLEAN,
             rules # <<>>, rules' = Earlier(rules),
             system' = IF ok THEN [system EXCEPT !.rules = @ \ {Newest(rules)}] ELSE system,
             stuck' = (stuck \/ ~ok), UNCHANGED <<step, installed>>
      PROVE  TunInv'
  <2>1. rules \in Seq(PolicyRules) /\ rules' \in Seq(PolicyRules)
    BY <1>2, <1>3, EarlierElems DEF TunTypes
  <2>2. TunTypes'
    BY <1>1, <1>2, <1>3, <2>1 DEF TunTypes
  <2>3. ASSUME ~stuck' PROVE ok /\ ~stuck
    BY <1>3, <2>3, Zenon
  <2>4. ASSUME ~stuck' PROVE Tracked'
    <3>1. ok /\ Tracked
      BY <2>3, <2>4 DEF TunInv
    <3>2. Len(rules) \in Nat \ {0} /\ \A i \in 1..Len(rules) : rules[i].index = i - 1
      BY <1>3, <2>1, <3>1 DEF Tracked
    <3>3. Distinct(rules)
      BY <3>2 DEF Distinct
    <3>4. /\ Elems(rules') = Elems(rules) \ {Newest(rules)} /\ Len(rules') = Len(rules) - 1
          /\ \A i \in 1..(Len(rules) - 1) : rules'[i] = rules[i]
      BY <1>3, <2>1, <3>3, EarlierElems
    <3>5. Newest(rules) \in Elems(rules)
      <4>1. Len(rules) \in 1..Len(rules)
        BY <3>2
      <4> QED BY <4>1, Zenon DEF Newest, Elems
    <3>6. Newest(rules) \notin original.rules
      BY <3>1, <3>5, ZenonT(60) DEF Tracked
    <3>7. original.rules \union Elems(rules') = (original.rules \union Elems(rules)) \ {Newest(rules)}
      BY <3>4, <3>6
    <3>8. system' = [routes |-> original'.routes \union Elems(installed'),
                     rules |-> original'.rules \union Elems(rules')]
      BY <1>1, <1>3, <3>1, <3>7, Zenon DEF Tracked
    <3>9. \A i \in 1..Len(rules') : rules'[i].index = i - 1
      <4>1. \A i \in 1..Len(rules') : i \in 1..(Len(rules) - 1) /\ i \in 1..Len(rules)
        BY <3>2, <3>4
      <4> QED BY <3>2, <3>4, <4>1, ZenonT(60)
    <3>10. Elems(rules') \cap original'.rules = {}
      BY <1>1, <3>1, <3>4, Zenon DEF Tracked
    <3> QED BY <1>1, <1>3, <3>1, <3>8, <3>9, <3>10, ZenonT(60) DEF Tracked
  <2> QED BY <1>1, <1>3, <2>2, <2>4 DEF TunInv
<1>4. ASSUME NEW ok \in BOOLEAN,
             installed # <<>>, installed' = Earlier(installed),
             system' = IF ok THEN [system EXCEPT !.routes = @ \ {Newest(installed)}] ELSE system,
             stuck' = (stuck \/ ~ok), UNCHANGED <<step, rules>>
      PROVE  TunInv'
  <2>1. installed \in Seq(Routes) /\ installed' \in Seq(Routes)
    BY <1>2, <1>4, EarlierElems DEF TunTypes
  <2>2. TunTypes'
    BY <1>1, <1>2, <1>4, <2>1 DEF TunTypes
  <2>3. ASSUME ~stuck' PROVE ok /\ ~stuck
    BY <1>4, <2>3, Zenon
  <2>4. ASSUME ~stuck' PROVE Tracked'
    <3>1. ok /\ Tracked
      BY <2>3, <2>4 DEF TunInv
    <3>2. Len(installed) \in Nat \ {0} /\ Distinct(installed)
      BY <1>4, <2>1, <3>1 DEF Tracked
    <3>3. Elems(installed') = Elems(installed) \ {Newest(installed)} /\ Distinct(installed')
      BY <1>4, <2>1, <3>2, EarlierElems
    <3>4. Newest(installed) \in Elems(installed)
      BY <3>2 DEF Newest, Elems
    <3>5. Newest(installed) \notin original.routes
      BY <3>1, <3>4, ZenonT(60) DEF Tracked
    <3>6. original.routes \union Elems(installed')
            = (original.routes \union Elems(installed)) \ {Newest(installed)}
      BY <3>3, <3>5
    <3>7. system' = [routes |-> original'.routes \union Elems(installed'),
                     rules |-> original'.rules \union Elems(rules')]
      BY <1>1, <1>4, <3>1, <3>6, Zenon DEF Tracked
    <3>8. Elems(installed') \cap original'.routes = {}
      BY <1>1, <3>1, <3>3, Zenon DEF Tracked
    <3> QED BY <1>1, <1>4, <3>1, <3>3, <3>7, <3>8, ZenonT(60) DEF Tracked
  <2> QED BY <1>1, <1>4, <2>2, <2>4 DEF TunInv
<1>5. CASE rules = <<>> /\ installed = <<>> /\ step' = "gone" /\ UNCHANGED <<installed, system, rules, stuck>>
  BY <1>1, <1>2, <1>5, Zenon DEF TunInv, TunTypes, Tracked
<1> QED BY <1>3, <1>4, <1>5 DEF Undo

LEMMA TunStep == TunInv /\ [TunNext]_tunVars => TunInv'
<1> SUFFICES ASSUME TunInv, [TunNext]_tunVars PROVE TunInv'
  OBVIOUS
<1>1. CASE Stop
  BY <1>1, Zenon DEF Stop, TunInv, TunTypes, Tracked
<1>2. CASE UNCHANGED tunVars
  BY <1>2, Zenon DEF tunVars, TunInv, TunTypes, Tracked
<1> QED BY <1>1, <1>2, InstallStep, PolicyStep, UndoStep DEF TunNext

(* However far an installation came, for any configuration and whatever    *)
(* routes and rules were there: undoing it restores the system, unless a   *)
(* deletion was refused.                                                   *)
THEOREM RoutesAreRestored == TunInit /\ [][TunNext]_tunVars => []RoutesRestored
<1>1. TunInv => RoutesRestored
  <2> SUFFICES ASSUME TunInv, step = "gone", ~stuck PROVE system = original
    BY DEF RoutesRestored
  <2>1. Tracked /\ Elems(installed) = {} /\ Elems(rules) = {}
    BY ElemsEmpty DEF TunInv
  <2>2. original \in [routes : SUBSET Routes, rules : SUBSET PolicyRules]
    BY TunAssumption DEF TunInv, TunTypes
  <2>3. original = [routes |-> original.routes, rules |-> original.rules]
    BY <2>2
  <2> QED BY <2>1, <2>3 DEF Tracked
<1> QED BY <1>1, TunStart, TunStep, PTL
=============================================================================
