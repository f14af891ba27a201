------------------------------ MODULE UtilProofs ------------------------------
(***************************************************************************)
(* Proofs about Util.                                                      *)
(***************************************************************************)
EXTENDS Util, FiniteSetTheorems, SequenceTheorems, WellFoundedInduction, TLAPS

-----------------------------------------------------------------------------
(* Folding. *)

(* A set of numbers that holds 0 and every successor holds them all. *)
LEMMA Counting ==
  ASSUME NEW n \in Nat, NEW A, 0 \in A, \A i \in 0 .. n - 1 : i \in A => i + 1 \in A
  PROVE  \A i \in 0 .. n : i \in A
<1> DEFINE R == {ss \in Nat \X Nat : ss[1] < ss[2]}
           B == {i \in 0 .. n : i \notin A}
<1>1. IsWellFoundedOn(R, Nat)
  BY NatLessThanWellFounded, Zenon DEF OpToRel
<1>2. ASSUME B # {} PROVE FALSE
  <2>1. B \subseteq Nat
    OBVIOUS
  <2>2. PICK i \in B : \A j \in B : ~ (<<j, i>> \in R)
    BY <1>1, <1>2, <2>1, WFMin
  <2>3. i # 0 /\ i - 1 \in 0 .. n - 1 /\ (i - 1) + 1 = i
    OBVIOUS
  <2>4. i - 1 \notin A
    BY <2>3
  <2>5. i - 1 \in B /\ <<i - 1, i>> \in R
    BY <2>3, <2>4
  <2>6. QED
    BY <2>2, <2>5
<1>3. QED
  BY <1>2

(* What starts in the first of a row of sets and steps from each to the    *)
(* next ends in the last.                                                  *)
LEMMA Steps ==
  ASSUME NEW n \in Nat, NEW S, NEW h, h[0] \in S[0],
         \A i \in 1 .. n : h[i - 1] \in S[i - 1] => h[i] \in S[i]
  PROVE  h[n] \in S[n]
<1> DEFINE A == {i \in 0 .. n : h[i] \in S[i]}
<1>1. 0 \in A
  OBVIOUS
<1>2. ASSUME NEW i \in 0 .. n - 1, i \in A PROVE i + 1 \in A
  <2>1. i + 1 \in 1 .. n /\ i + 1 \in 0 .. n /\ (i + 1) - 1 = i
    OBVIOUS
  <2>2. QED
    BY <1>2, <2>1
<1>3. \A i \in 0 .. n : i \in A
  <2> HIDE DEF A
  <2>1. QED
    BY <1>1, <1>2, Counting
<1>4. QED
  BY <1>3

(* And there is a row of steps, where F says what each makes of the last.  *)
LEMMA Row ==
  ASSUME NEW n \in Nat, NEW S, NEW s \in S[0], NEW F,
         \A i \in 1 .. n : \A x \in S[i - 1] : F[<<x, i>>] \in S[i]
  PROVE  \E f : /\ f = [i \in 0 .. n |-> f[i]]
                /\ f[0] = s /\ \A i \in 1 .. n : f[i - 1] \in S[i - 1] /\ f[i] = F[<<f[i - 1], i>>]
<1> DEFINE Is(f, m) == /\ f = [i \in 0 .. m |-> f[i]]
                       /\ f[0] = s /\ f[m] \in S[m]
                       /\ \A i \in 1 .. m : f[i - 1] \in S[i - 1] /\ f[i] = F[<<f[i - 1], i>>]
           A == {m \in 0 .. n : \E f : Is(f, m)}
<1>1. 0 \in A
  <2>1. PICK f : f = [i \in 0 .. 0 |-> s]
    OBVIOUS
  <2>2. Is(f, 0)
    BY <2>1
  <2>3. QED
    BY <2>2
<1>2. ASSUME NEW m \in 0 .. n - 1, m \in A PROVE m + 1 \in A
  <2>1. PICK f : Is(f, m)
    BY <1>2
  <2>2. PICK x \in S[m + 1] : x = F[<<f[m], m + 1>>]
    <3>1. m + 1 \in 1 .. n /\ (m + 1) - 1 = m
      OBVIOUS
    <3>2. QED
      BY <2>1, <3>1
  <2> DEFINE g == [i \in 0 .. m + 1 |-> IF i = m + 1 THEN x ELSE f[i]]
  <2>3. g = [i \in 0 .. m + 1 |-> g[i]]
    OBVIOUS
  <2>4. g[m + 1] = x /\ \A i \in 0 .. m : g[i] = f[i]
    OBVIOUS
  <2> HIDE DEF g
  <2>5. Is(g, m + 1)
    <3>1. g[0] = s /\ g[m + 1] \in S[m + 1]
      BY <2>1, <2>4
    <3>2. ASSUME NEW i \in 1 .. m + 1
          PROVE  g[i - 1] \in S[i - 1] /\ g[i] = F[<<g[i - 1], i>>]
      <4>1. i - 1 \in 0 .. m /\ g[i - 1] = f[i - 1]
        BY <2>4
      <4>2. CASE i = m + 1
        <5>1. i - 1 = m
          BY <4>2
        <5>2. QED
          BY <2>1, <2>2, <2>4, <4>1, <4>2, <5>1
      <4>3. CASE i # m + 1
        <5>1. i \in 1 .. m /\ i \in 0 .. m
          BY <4>3
        <5>2. QED
          BY <2>1, <2>4, <4>1, <5>1
      <4>4. QED
        BY <4>2, <4>3
    <3>3. QED
      BY <2>3, <3>1, <3>2
  <2>6. m + 1 \in 0 .. n
    OBVIOUS
  <2>7. QED
    BY <2>5, <2>6
<1>3. n \in A
  <2> HIDE DEF A
  <2>1. \A i \in 0 .. n : i \in A
    BY <1>1, <1>2, Counting
  <2>2. QED
    BY <2>1
<1>4. QED
  BY <1>3

(* The rule for a fold: what it starts from is in the first set of a row,  *)
(* each step leads from one to the next, so what it returns is in the last *)
(* one.  No prover here takes an operator as an argument of a lemma, so it *)
(* is stated for each fold of the model, always with the same proof.       *)

LEMMA LabelsFold ==
  ASSUME NEW u, NEW q, q = u.channels, NEW s, s = 0, NEW n \in Nat, n = Len(q), NEW S, s \in S[0],
         \A i \in 1 .. n : \A x \in S[i - 1] : x + Len(q[i].labels) \in S[i]
  PROVE  Limits(u).labels \in S[n]
<1> DEFINE Step(x, i) == x + Len(q[i].labels)
           After(g) == g = [i \in 0 .. n |-> IF i = 0 THEN s ELSE Step(g[i - 1], i)]
           U == UNION {S[i] : i \in 0 .. n}
<1>1. \A i \in 1 .. n : \A x \in S[i - 1] : Step(x, i) \in S[i]
  OBVIOUS
<1>2. PICK h : h = CHOOSE g : After(g)
  OBVIOUS
<1>3. Limits(u).labels = h[n]
  BY <1>2 DEF Limits, Folded
<1> HIDE DEF Step
<1>4. PICK F : F = [x \in U \X (1 .. n) |-> Step(x[1], x[2])]
  OBVIOUS
<1>5. \A i \in 1 .. n : \A x \in S[i - 1] : F[<<x, i>>] = Step(x, i)
  <2>1. \A i \in 1 .. n : i - 1 \in 0 .. n
    OBVIOUS
  <2>2. QED
    BY ONLY <1>4, <2>1
<1>6. PICK f : /\ f = [i \in 0 .. n |-> f[i]] /\ f[0] = s
               /\ \A i \in 1 .. n : f[i - 1] \in S[i - 1] /\ f[i] = F[<<f[i - 1], i>>]
  <2>1. \A i \in 1 .. n : \A x \in S[i - 1] : F[<<x, i>>] \in S[i]
    BY ONLY <1>1, <1>5
  <2>2. QED
    BY ONLY n \in Nat, s \in S[0], <2>1, Row
<1>7. After(f)
  <2>1. f[0] = s /\ \A i \in 1 .. n : f[i] = Step(f[i - 1], i)
    BY ONLY <1>5, <1>6
  <2>2. \A i \in 0 .. n : i = 0 \/ i \in 1 .. n
    OBVIOUS
  <2>3. \A i \in 0 .. n : f[i] = IF i = 0 THEN s ELSE Step(f[i - 1], i)
    BY ONLY <2>1, <2>2
  <2>4. QED
    BY <1>6, <2>3
<1>8. After(h)
  BY ONLY <1>2, <1>7, Zenon
<1>9. h[0] = s /\ \A i \in 1 .. n : h[i] = Step(h[i - 1], i)
  BY ONLY n \in Nat, <1>8
<1>10. h[n] \in S[n]
  BY ONLY n \in Nat, s \in S[0], <1>1, <1>9, Steps
<1>11. QED
  BY <1>3, <1>10

LEMMA MembersFold ==
  ASSUME NEW u, NEW q, q = u.groups, NEW s, s = 0, NEW n \in Nat, n = Len(q), NEW S, s \in S[0],
         \A i \in 1 .. n : \A x \in S[i - 1] : x + Len(q[i].channels) \in S[i]
  PROVE  Limits(u).members \in S[n]
<1> DEFINE Step(x, i) == x + Len(q[i].channels)
           After(g) == g = [i \in 0 .. n |-> IF i = 0 THEN s ELSE Step(g[i - 1], i)]
           U == UNION {S[i] : i \in 0 .. n}
<1>1. \A i \in 1 .. n : \A x \in S[i - 1] : Step(x, i) \in S[i]
  OBVIOUS
<1>2. PICK h : h = CHOOSE g : After(g)
  OBVIOUS
<1>3. Limits(u).members = h[n]
  BY <1>2 DEF Limits, Folded
<1> HIDE DEF Step
<1>4. PICK F : F = [x \in U \X (1 .. n) |-> Step(x[1], x[2])]
  OBVIOUS
<1>5. \A i \in 1 .. n : \A x \in S[i - 1] : F[<<x, i>>] = Step(x, i)
  <2>1. \A i \in 1 .. n : i - 1 \in 0 .. n
    OBVIOUS
  <2>2. QED
    BY ONLY <1>4, <2>1
<1>6. PICK f : /\ f = [i \in 0 .. n |-> f[i]] /\ f[0] = s
               /\ \A i \in 1 .. n : f[i - 1] \in S[i - 1] /\ f[i] = F[<<f[i - 1], i>>]
  <2>1. \A i \in 1 .. n : \A x \in S[i - 1] : F[<<x, i>>] \in S[i]
    BY ONLY <1>1, <1>5
  <2>2. QED
    BY ONLY n \in Nat, s \in S[0], <2>1, Row
<1>7. After(f)
  <2>1. f[0] = s /\ \A i \in 1 .. n : f[i] = Step(f[i - 1], i)
    BY ONLY <1>5, <1>6
  <2>2. \A i \in 0 .. n : i = 0 \/ i \in 1 .. n
    OBVIOUS
  <2>3. \A i \in 0 .. n : f[i] = IF i = 0 THEN s ELSE Step(f[i - 1], i)
    BY ONLY <2>1, <2>2
  <2>4. QED
    BY <1>6, <2>3
<1>8. After(h)
  BY ONLY <1>2, <1>7, Zenon
<1>9. h[0] = s /\ \A i \in 1 .. n : h[i] = Step(h[i - 1], i)
  BY ONLY n \in Nat, <1>8
<1>10. h[n] \in S[n]
  BY ONLY n \in Nat, s \in S[0], <1>1, <1>9, Steps
<1>11. QED
  BY <1>3, <1>10

LEMMA ChannelsFold ==
  ASSUME NEW q, NEW s, NEW n \in Nat, n = Len(q), NEW S, s \in S[0],
         \A i \in 1 .. n : \A x \in S[i - 1] : ReplayChannel(x, q[i]) \in S[i]
  PROVE  Folded(ReplayChannel, s, q) \in S[n]
<1> DEFINE Step(x, i) == ReplayChannel(x, q[i])
           After(g) == g = [i \in 0 .. n |-> IF i = 0 THEN s ELSE Step(g[i - 1], i)]
           U == UNION {S[i] : i \in 0 .. n}
<1>1. \A i \in 1 .. n : \A x \in S[i - 1] : Step(x, i) \in S[i]
  OBVIOUS
<1>2. PICK h : h = CHOOSE g : After(g)
  OBVIOUS
<1>3. Folded(ReplayChannel, s, q) = h[n]
  BY <1>2 DEF Folded
<1> HIDE DEF Step
<1>4. PICK F : F = [x \in U \X (1 .. n) |-> Step(x[1], x[2])]
  OBVIOUS
<1>5. \A i \in 1 .. n : \A x \in S[i - 1] : F[<<x, i>>] = Step(x, i)
  <2>1. \A i \in 1 .. n : i - 1 \in 0 .. n
    OBVIOUS
  <2>2. QED
    BY ONLY <1>4, <2>1
<1>6. PICK f : /\ f = [i \in 0 .. n |-> f[i]] /\ f[0] = s
               /\ \A i \in 1 .. n : f[i - 1] \in S[i - 1] /\ f[i] = F[<<f[i - 1], i>>]
  <2>1. \A i \in 1 .. n : \A x \in S[i - 1] : F[<<x, i>>] \in S[i]
    BY ONLY <1>1, <1>5
  <2>2. QED
    BY ONLY n \in Nat, s \in S[0], <2>1, Row
<1>7. After(f)
  <2>1. f[0] = s /\ \A i \in 1 .. n : f[i] = Step(f[i - 1], i)
    BY ONLY <1>5, <1>6
  <2>2. \A i \in 0 .. n : i = 0 \/ i \in 1 .. n
    OBVIOUS
  <2>3. \A i \in 0 .. n : f[i] = IF i = 0 THEN s ELSE Step(f[i - 1], i)
    BY ONLY <2>1, <2>2
  <2>4. QED
    BY <1>6, <2>3
<1>8. After(h)
  BY ONLY <1>2, <1>7, Zenon
<1>9. h[0] = s /\ \A i \in 1 .. n : h[i] = Step(h[i - 1], i)
  BY ONLY n \in Nat, <1>8
<1>10. h[n] \in S[n]
  BY ONLY n \in Nat, s \in S[0], <1>1, <1>9, Steps
<1>11. QED
  BY <1>3, <1>10

LEMMA GroupsFold ==
  ASSUME NEW q, NEW s, NEW n \in Nat, n = Len(q), NEW S, s \in S[0],
         \A i \in 1 .. n : \A x \in S[i - 1] : ReplayGroup(x, q[i]) \in S[i]
  PROVE  Folded(ReplayGroup, s, q) \in S[n]
<1> DEFINE Step(x, i) == ReplayGroup(x, q[i])
           After(g) == g = [i \in 0 .. n |-> IF i = 0 THEN s ELSE Step(g[i - 1], i)]
           U == UNION {S[i] : i \in 0 .. n}
<1>1. \A i \in 1 .. n : \A x \in S[i - 1] : Step(x, i) \in S[i]
  OBVIOUS
<1>2. PICK h : h = CHOOSE g : After(g)
  OBVIOUS
<1>3. Folded(ReplayGroup, s, q) = h[n]
  BY <1>2 DEF Folded
<1> HIDE DEF Step
<1>4. PICK F : F = [x \in U \X (1 .. n) |-> Step(x[1], x[2])]
  OBVIOUS
<1>5. \A i \in 1 .. n : \A x \in S[i - 1] : F[<<x, i>>] = Step(x, i)
  <2>1. \A i \in 1 .. n : i - 1 \in 0 .. n
    OBVIOUS
  <2>2. QED
    BY ONLY <1>4, <2>1
<1>6. PICK f : /\ f = [i \in 0 .. n |-> f[i]] /\ f[0] = s
               /\ \A i \in 1 .. n : f[i - 1] \in S[i - 1] /\ f[i] = F[<<f[i - 1], i>>]
  <2>1. \A i \in 1 .. n : \A x \in S[i - 1] : F[<<x, i>>] \in S[i]
    BY ONLY <1>1, <1>5
  <2>2. QED
    BY ONLY n \in Nat, s \in S[0], <2>1, Row
<1>7. After(f)
  <2>1. f[0] = s /\ \A i \in 1 .. n : f[i] = Step(f[i - 1], i)
    BY ONLY <1>5, <1>6
  <2>2. \A i \in 0 .. n : i = 0 \/ i \in 1 .. n
    OBVIOUS
  <2>3. \A i \in 0 .. n : f[i] = IF i = 0 THEN s ELSE Step(f[i - 1], i)
    BY ONLY <2>1, <2>2
  <2>4. QED
    BY <1>6, <2>3
<1>8. After(h)
  BY ONLY <1>2, <1>7, Zenon
<1>9. h[0] = s /\ \A i \in 1 .. n : h[i] = Step(h[i - 1], i)
  BY ONLY n \in Nat, <1>8
<1>10. h[n] \in S[n]
  BY ONLY n \in Nat, s \in S[0], <1>1, <1>9, Steps
<1>11. QED
  BY <1>3, <1>10

LEMMA ControlsFold ==
  ASSUME NEW q, NEW s, NEW n \in Nat, n = Len(q), NEW S, s \in S[0],
         \A i \in 1 .. n : \A x \in S[i - 1] : ReplayControl(x, q[i]) \in S[i]
  PROVE  Folded(ReplayControl, s, q) \in S[n]
<1> DEFINE Step(x, i) == ReplayControl(x, q[i])
           After(g) == g = [i \in 0 .. n |-> IF i = 0 THEN s ELSE Step(g[i - 1], i)]
           U == UNION {S[i] : i \in 0 .. n}
<1>1. \A i \in 1 .. n : \A x \in S[i - 1] : Step(x, i) \in S[i]
  OBVIOUS
<1>2. PICK h : h = CHOOSE g : After(g)
  OBVIOUS
<1>3. Folded(ReplayControl, s, q) = h[n]
  BY <1>2 DEF Folded
<1> HIDE DEF Step
<1>4. PICK F : F = [x \in U \X (1 .. n) |-> Step(x[1], x[2])]
  OBVIOUS
<1>5. \A i \in 1 .. n : \A x \in S[i - 1] : F[<<x, i>>] = Step(x, i)
  <2>1. \A i \in 1 .. n : i - 1 \in 0 .. n
    OBVIOUS
  <2>2. QED
    BY ONLY <1>4, <2>1
<1>6. PICK f : /\ f = [i \in 0 .. n |-> f[i]] /\ f[0] = s
               /\ \A i \in 1 .. n : f[i - 1] \in S[i - 1] /\ f[i] = F[<<f[i - 1], i>>]
  <2>1. \A i \in 1 .. n : \A x \in S[i - 1] : F[<<x, i>>] \in S[i]
    BY ONLY <1>1, <1>5
  <2>2. QED
    BY ONLY n \in Nat, s \in S[0], <2>1, Row
<1>7. After(f)
  <2>1. f[0] = s /\ \A i \in 1 .. n : f[i] = Step(f[i - 1], i)
    BY ONLY <1>5, <1>6
  <2>2. \A i \in 0 .. n : i = 0 \/ i \in 1 .. n
    OBVIOUS
  <2>3. \A i \in 0 .. n : f[i] = IF i = 0 THEN s ELSE Step(f[i - 1], i)
    BY ONLY <2>1, <2>2
  <2>4. QED
    BY <1>6, <2>3
<1>8. After(h)
  BY ONLY <1>2, <1>7, Zenon
<1>9. h[0] = s /\ \A i \in 1 .. n : h[i] = Step(h[i - 1], i)
  BY ONLY n \in Nat, <1>8
<1>10. h[n] \in S[n]
  BY ONLY n \in Nat, s \in S[0], <1>1, <1>9, Steps
<1>11. QED
  BY <1>3, <1>10

LEMMA LoadFold ==
  ASSUME NEW q, NEW s, NEW n \in Nat, n = Len(q), NEW S, s \in S[0],
         \A i \in 1 .. n : \A x \in S[i - 1] : ParseControl(x, q[i]) \in S[i]
  PROVE  Folded(ParseControl, s, q) \in S[n]
<1> DEFINE Step(x, i) == ParseControl(x, q[i])
           After(g) == g = [i \in 0 .. n |-> IF i = 0 THEN s ELSE Step(g[i - 1], i)]
           U == UNION {S[i] : i \in 0 .. n}
<1>1. \A i \in 1 .. n : \A x \in S[i - 1] : Step(x, i) \in S[i]
  OBVIOUS
<1>2. PICK h : h = CHOOSE g : After(g)
  OBVIOUS
<1>3. Folded(ParseControl, s, q) = h[n]
  BY <1>2 DEF Folded
<1> HIDE DEF Step
<1>4. PICK F : F = [x \in U \X (1 .. n) |-> Step(x[1], x[2])]
  OBVIOUS
<1>5. \A i \in 1 .. n : \A x \in S[i - 1] : F[<<x, i>>] = Step(x, i)
  <2>1. \A i \in 1 .. n : i - 1 \in 0 .. n
    OBVIOUS
  <2>2. QED
    BY ONLY <1>4, <2>1
<1>6. PICK f : /\ f = [i \in 0 .. n |-> f[i]] /\ f[0] = s
               /\ \A i \in 1 .. n : f[i - 1] \in S[i - 1] /\ f[i] = F[<<f[i - 1], i>>]
  <2>1. \A i \in 1 .. n : \A x \in S[i - 1] : F[<<x, i>>] \in S[i]
    BY ONLY <1>1, <1>5
  <2>2. QED
    BY ONLY n \in Nat, s \in S[0], <2>1, Row
<1>7. After(f)
  <2>1. f[0] = s /\ \A i \in 1 .. n : f[i] = Step(f[i - 1], i)
    BY ONLY <1>5, <1>6
  <2>2. \A i \in 0 .. n : i = 0 \/ i \in 1 .. n
    OBVIOUS
  <2>3. \A i \in 0 .. n : f[i] = IF i = 0 THEN s ELSE Step(f[i - 1], i)
    BY ONLY <2>1, <2>2
  <2>4. QED
    BY <1>6, <2>3
<1>8. After(h)
  BY ONLY <1>2, <1>7, Zenon
<1>9. h[0] = s /\ \A i \in 1 .. n : h[i] = Step(h[i - 1], i)
  BY ONLY n \in Nat, <1>8
<1>10. h[n] \in S[n]
  BY ONLY n \in Nat, s \in S[0], <1>1, <1>9, Steps
<1>11. QED
  BY <1>3, <1>10

LEMMA ObeyFold ==
  ASSUME NEW q, NEW s, NEW n \in Nat, n = Len(q), NEW S, s \in S[0],
         \A i \in 1 .. n : \A x \in S[i - 1] : Obeyed(x, q[i]) \in S[i]
  PROVE  Folded(Obeyed, s, q) \in S[n]
<1> DEFINE Step(x, i) == Obeyed(x, q[i])
           After(g) == g = [i \in 0 .. n |-> IF i = 0 THEN s ELSE Step(g[i - 1], i)]
           U == UNION {S[i] : i \in 0 .. n}
<1>1. \A i \in 1 .. n : \A x \in S[i - 1] : Step(x, i) \in S[i]
  OBVIOUS
<1>2. PICK h : h = CHOOSE g : After(g)
  OBVIOUS
<1>3. Folded(Obeyed, s, q) = h[n]
  BY <1>2 DEF Folded
<1> HIDE DEF Step
<1>4. PICK F : F = [x \in U \X (1 .. n) |-> Step(x[1], x[2])]
  OBVIOUS
<1>5. \A i \in 1 .. n : \A x \in S[i - 1] : F[<<x, i>>] = Step(x, i)
  <2>1. \A i \in 1 .. n : i - 1 \in 0 .. n
    OBVIOUS
  <2>2. QED
    BY ONLY <1>4, <2>1
<1>6. PICK f : /\ f = [i \in 0 .. n |-> f[i]] /\ f[0] = s
               /\ \A i \in 1 .. n : f[i - 1] \in S[i - 1] /\ f[i] = F[<<f[i - 1], i>>]
  <2>1. \A i \in 1 .. n : \A x \in S[i - 1] : F[<<x, i>>] \in S[i]
    BY ONLY <1>1, <1>5
  <2>2. QED
    BY ONLY n \in Nat, s \in S[0], <2>1, Row
<1>7. After(f)
  <2>1. f[0] = s /\ \A i \in 1 .. n : f[i] = Step(f[i - 1], i)
    BY ONLY <1>5, <1>6
  <2>2. \A i \in 0 .. n : i = 0 \/ i \in 1 .. n
    OBVIOUS
  <2>3. \A i \in 0 .. n : f[i] = IF i = 0 THEN s ELSE Step(f[i - 1], i)
    BY ONLY <2>1, <2>2
  <2>4. QED
    BY <1>6, <2>3
<1>8. After(h)
  BY ONLY <1>2, <1>7, Zenon
<1>9. h[0] = s /\ \A i \in 1 .. n : h[i] = Step(h[i - 1], i)
  BY ONLY n \in Nat, <1>8
<1>10. h[n] \in S[n]
  BY ONLY n \in Nat, s \in S[0], <1>1, <1>9, Steps
<1>11. QED
  BY <1>3, <1>10

LEMMA PollFold ==
  ASSUME NEW q, NEW s, NEW n \in Nat, n = Len(q), NEW S, s \in S[0],
         \A i \in 1 .. n : \A x \in S[i - 1] : PollControl(x, q[i]) \in S[i]
  PROVE  Folded(PollControl, s, q) \in S[n]
<1> DEFINE Step(x, i) == PollControl(x, q[i])
           After(g) == g = [i \in 0 .. n |-> IF i = 0 THEN s ELSE Step(g[i - 1], i)]
           U == UNION {S[i] : i \in 0 .. n}
<1>1. \A i \in 1 .. n : \A x \in S[i - 1] : Step(x, i) \in S[i]
  OBVIOUS
<1>2. PICK h : h = CHOOSE g : After(g)
  OBVIOUS
<1>3. Folded(PollControl, s, q) = h[n]
  BY <1>2 DEF Folded
<1> HIDE DEF Step
<1>4. PICK F : F = [x \in U \X (1 .. n) |-> Step(x[1], x[2])]
  OBVIOUS
<1>5. \A i \in 1 .. n : \A x \in S[i - 1] : F[<<x, i>>] = Step(x, i)
  <2>1. \A i \in 1 .. n : i - 1 \in 0 .. n
    OBVIOUS
  <2>2. QED
    BY ONLY <1>4, <2>1
<1>6. PICK f : /\ f = [i \in 0 .. n |-> f[i]] /\ f[0] = s
               /\ \A i \in 1 .. n : f[i - 1] \in S[i - 1] /\ f[i] = F[<<f[i - 1], i>>]
  <2>1. \A i \in 1 .. n : \A x \in S[i - 1] : F[<<x, i>>] \in S[i]
    BY ONLY <1>1, <1>5
  <2>2. QED
    BY ONLY n \in Nat, s \in S[0], <2>1, Row
<1>7. After(f)
  <2>1. f[0] = s /\ \A i \in 1 .. n : f[i] = Step(f[i - 1], i)
    BY ONLY <1>5, <1>6
  <2>2. \A i \in 0 .. n : i = 0 \/ i \in 1 .. n
    OBVIOUS
  <2>3. \A i \in 0 .. n : f[i] = IF i = 0 THEN s ELSE Step(f[i - 1], i)
    BY ONLY <2>1, <2>2
  <2>4. QED
    BY <1>6, <2>3
<1>8. After(h)
  BY ONLY <1>2, <1>7, Zenon
<1>9. h[0] = s /\ \A i \in 1 .. n : h[i] = Step(h[i - 1], i)
  BY ONLY n \in Nat, <1>8
<1>10. h[n] \in S[n]
  BY ONLY n \in Nat, s \in S[0], <1>1, <1>9, Steps
<1>11. QED
  BY <1>3, <1>10

(* What a control adds to the file. *)
Line(file, c) == IF Slider(c) THEN Append(file, Entry(c)) ELSE file

LEMMA WrittenFold ==
  ASSUME NEW b, NEW q, q = b.controls, NEW s, s = << >>, NEW n \in Nat, n = Len(q), NEW S, s \in S[0],
         \A i \in 1 .. n : \A x \in S[i - 1] : Line(x, q[i]) \in S[i]
  PROVE  Written(b) \in S[n]
<1> DEFINE Step(x, i) == Line(x, q[i])
           After(g) == g = [i \in 0 .. n |-> IF i = 0 THEN s ELSE Step(g[i - 1], i)]
           U == UNION {S[i] : i \in 0 .. n}
<1>1. \A i \in 1 .. n : \A x \in S[i - 1] : Step(x, i) \in S[i]
  OBVIOUS
<1>2. PICK h : h = CHOOSE g : After(g)
  OBVIOUS
<1>3. Written(b) = h[n]
  BY <1>2 DEF Written, Folded, Line
<1> HIDE DEF Step
<1>4. PICK F : F = [x \in U \X (1 .. n) |-> Step(x[1], x[2])]
  OBVIOUS
<1>5. \A i \in 1 .. n : \A x \in S[i - 1] : F[<<x, i>>] = Step(x, i)
  <2>1. \A i \in 1 .. n : i - 1 \in 0 .. n
    OBVIOUS
  <2>2. QED
    BY ONLY <1>4, <2>1
<1>6. PICK f : /\ f = [i \in 0 .. n |-> f[i]] /\ f[0] = s
               /\ \A i \in 1 .. n : f[i - 1] \in S[i - 1] /\ f[i] = F[<<f[i - 1], i>>]
  <2>1. \A i \in 1 .. n : \A x \in S[i - 1] : F[<<x, i>>] \in S[i]
    BY ONLY <1>1, <1>5
  <2>2. QED
    BY ONLY n \in Nat, s \in S[0], <2>1, Row
<1>7. After(f)
  <2>1. f[0] = s /\ \A i \in 1 .. n : f[i] = Step(f[i - 1], i)
    BY ONLY <1>5, <1>6
  <2>2. \A i \in 0 .. n : i = 0 \/ i \in 1 .. n
    OBVIOUS
  <2>3. \A i \in 0 .. n : f[i] = IF i = 0 THEN s ELSE Step(f[i - 1], i)
    BY ONLY <2>1, <2>2
  <2>4. QED
    BY <1>6, <2>3
<1>8. After(h)
  BY ONLY <1>2, <1>7, Zenon
<1>9. h[0] = s /\ \A i \in 1 .. n : h[i] = Step(h[i - 1], i)
  BY ONLY n \in Nat, <1>8
<1>10. h[n] \in S[n]
  BY ONLY n \in Nat, s \in S[0], <1>1, <1>9, Steps
<1>11. QED
  BY <1>3, <1>10

(* What a channel is replayed as before its labels, a group before its     *)
(* channels.                                                               *)
Unlabelled(s, c) ==
  IF c.ranged THEN DataSetRange(DataAddChannel(s, c.name), Len(s.VB.channels)) ELSE DataAddChannel(s, c.name)

LEMMA LabellingFold ==
  ASSUME NEW r, NEW c, NEW q, q = c.labels, NEW s, s = Unlabelled(r, c), NEW n \in Nat, n = Len(q), NEW S, s \in S[0],
         \A i \in 1 .. n : \A x \in S[i - 1] : DataAddLabel(x, Len(r.VB.channels), q[i]) \in S[i]
  PROVE  ReplayChannel(r, c) \in S[n]
<1> DEFINE Step(x, i) == DataAddLabel(x, Len(r.VB.channels), q[i])
           After(g) == g = [i \in 0 .. n |-> IF i = 0 THEN s ELSE Step(g[i - 1], i)]
           U == UNION {S[i] : i \in 0 .. n}
<1>1. \A i \in 1 .. n : \A x \in S[i - 1] : Step(x, i) \in S[i]
  OBVIOUS
<1>2. PICK h : h = CHOOSE g : After(g)
  OBVIOUS
<1>3. ReplayChannel(r, c) = h[n]
  BY <1>2 DEF ReplayChannel, Folded, Unlabelled
<1> HIDE DEF Step
<1>4. PICK F : F = [x \in U \X (1 .. n) |-> Step(x[1], x[2])]
  OBVIOUS
<1>5. \A i \in 1 .. n : \A x \in S[i - 1] : F[<<x, i>>] = Step(x, i)
  <2>1. \A i \in 1 .. n : i - 1 \in 0 .. n
    OBVIOUS
  <2>2. QED
    BY ONLY <1>4, <2>1
<1>6. PICK f : /\ f = [i \in 0 .. n |-> f[i]] /\ f[0] = s
               /\ \A i \in 1 .. n : f[i - 1] \in S[i - 1] /\ f[i] = F[<<f[i - 1], i>>]
  <2>1. \A i \in 1 .. n : \A x \in S[i - 1] : F[<<x, i>>] \in S[i]
    BY ONLY <1>1, <1>5
  <2>2. QED
    BY ONLY n \in Nat, s \in S[0], <2>1, Row
<1>7. After(f)
  <2>1. f[0] = s /\ \A i \in 1 .. n : f[i] = Step(f[i - 1], i)
    BY ONLY <1>5, <1>6
  <2>2. \A i \in 0 .. n : i = 0 \/ i \in 1 .. n
    OBVIOUS
  <2>3. \A i \in 0 .. n : f[i] = IF i = 0 THEN s ELSE Step(f[i - 1], i)
    BY ONLY <2>1, <2>2
  <2>4. QED
    BY <1>6, <2>3
<1>8. After(h)
  BY ONLY <1>2, <1>7, Zenon
<1>9. h[0] = s /\ \A i \in 1 .. n : h[i] = Step(h[i - 1], i)
  BY ONLY n \in Nat, <1>8
<1>10. h[n] \in S[n]
  BY ONLY n \in Nat, s \in S[0], <1>1, <1>9, Steps
<1>11. QED
  BY <1>3, <1>10

LEMMA JoiningFold ==
  ASSUME NEW r, NEW g, NEW q, q = g.channels, NEW s, s = DataAddGroup(r, g.name), NEW n \in Nat, n = Len(q), NEW S, s \in S[0],
         \A i \in 1 .. n : \A x \in S[i - 1] : DataAddMember(x, Len(r.VB.groups), q[i]) \in S[i]
  PROVE  ReplayGroup(r, g) \in S[n]
<1> DEFINE Step(x, i) == DataAddMember(x, Len(r.VB.groups), q[i])
           After(e) == e = [i \in 0 .. n |-> IF i = 0 THEN s ELSE Step(e[i - 1], i)]
           U == UNION {S[i] : i \in 0 .. n}
<1>1. \A i \in 1 .. n : \A x \in S[i - 1] : Step(x, i) \in S[i]
  OBVIOUS
<1>2. PICK h : h = CHOOSE e : After(e)
  OBVIOUS
<1>3. ReplayGroup(r, g) = h[n]
  BY <1>2 DEF ReplayGroup, Folded
<1> HIDE DEF Step
<1>4. PICK F : F = [x \in U \X (1 .. n) |-> Step(x[1], x[2])]
  OBVIOUS
<1>5. \A i \in 1 .. n : \A x \in S[i - 1] : F[<<x, i>>] = Step(x, i)
  <2>1. \A i \in 1 .. n : i - 1 \in 0 .. n
    OBVIOUS
  <2>2. QED
    BY ONLY <1>4, <2>1
<1>6. PICK f : /\ f = [i \in 0 .. n |-> f[i]] /\ f[0] = s
               /\ \A i \in 1 .. n : f[i - 1] \in S[i - 1] /\ f[i] = F[<<f[i - 1], i>>]
  <2>1. \A i \in 1 .. n : \A x \in S[i - 1] : F[<<x, i>>] \in S[i]
    BY ONLY <1>1, <1>5
  <2>2. QED
    BY ONLY n \in Nat, s \in S[0], <2>1, Row
<1>7. After(f)
  <2>1. f[0] = s /\ \A i \in 1 .. n : f[i] = Step(f[i - 1], i)
    BY ONLY <1>5, <1>6
  <2>2. \A i \in 0 .. n : i = 0 \/ i \in 1 .. n
    OBVIOUS
  <2>3. \A i \in 0 .. n : f[i] = IF i = 0 THEN s ELSE Step(f[i - 1], i)
    BY ONLY <2>1, <2>2
  <2>4. QED
    BY <1>6, <2>3
<1>8. After(h)
  BY ONLY <1>2, <1>7, Zenon
<1>9. h[0] = s /\ \A i \in 1 .. n : h[i] = Step(h[i - 1], i)
  BY ONLY n \in Nat, <1>8
<1>10. h[n] \in S[n]
  BY ONLY n \in Nat, s \in S[0], <1>1, <1>9, Steps
<1>11. QED
  BY <1>3, <1>10
-----------------------------------------------------------------------------
(* What the state consists of.                                             *)

Rows     == [name : Names \cup {None}, type : Kinds, value : Values]
Entries  == [name : Names \cup {None}, value : Values]
Updates  == [kind : {"update"}, name : Names \cup {None}, value : Values]
Tables   == [kind : {"registrations"}, controls : Seq(Rows)]
Messages == Updates \cup Tables
Orders   == [control : Nat, value : Values]
Picks    == UNION {[M -> Values] : M \in SUBSET (Names \cup {None})}

(* What the calls work on, with the clients of C connected. *)
States(C) ==
  [VB : Blocks, variable : [Addresses -> Values], pending : [C -> Seq(Messages)],
   result : {"ok", "no", "crash"}, orders : [C -> Seq(Orders)], crossed : SUBSET (C \X (Names \cup {None})),
   file : Seq(Entries), chosen : Picks]

(* What the game registers. *)
ListedChannels == [name : ChannelNames, ranged : BOOLEAN, labels : Seq(Labels)]
ListedGroups   == [name : GroupNames, channels : Seq(Nat)]
ListedControls ==
  [name : Names, type : {"button", "float", "int"}, valid : BOOLEAN,
   drive : {"callback", "command", "address"}, address : Places, initial : Values]

Lists ==
  [initialized : BOOLEAN, channels : Seq(ListedChannels), groups : Seq(ListedGroups),
   controls : Seq(ListedControls), file : Files, command : BOOLEAN]

-----------------------------------------------------------------------------
(* What the calls return: states with the same clients.                    *)

LEMMA TryType ==
  ASSUME NEW C, NEW s \in States(C), NEW allowed, NEW then \in States(C)
  PROVE  Try(s, allowed, then) \in States(C)
<1>1. [s EXCEPT !.result = "no"] \in States(C)
  BY DEF States
<1>2. s.result # "ok" \/ (s.result = "ok" /\ allowed) \/ (s.result = "ok" /\ ~allowed)
  OBVIOUS
<1>3. QED
  BY <1>1, <1>2 DEF Try

(* A call that changes the block of memory. *)
LEMMA BlockType ==
  ASSUME NEW C, NEW s \in States(C), NEW b \in Blocks
  PROVE  [s EXCEPT !.VB = b] \in States(C)
BY DEF States

LEMMA AddChannelType ==
  ASSUME NEW C, NEW s \in States(C), NEW name \in Names
  PROVE  DataAddChannel(s, name) \in States(C)
<1>1. s.VB \in Blocks
  BY DEF States
<1>2. Append(s.VB.channels, [name |-> name, ranged |-> FALSE]) \in Seq(Channels)
  BY <1>1 DEF Blocks, Channels
<1>3. [s.VB EXCEPT !.channels = Append(@, [name |-> name, ranged |-> FALSE])] \in Blocks
  BY <1>1, <1>2 DEF Blocks
<1>4. [s EXCEPT !.VB.channels = Append(@, [name |-> name, ranged |-> FALSE])] \in States(C)
  BY <1>1, <1>3, BlockType
<1>5. QED
  BY <1>4, TryType DEF DataAddChannel

(* Replacing an element, if it is there, leaves a sequence. *)
LEMMA ReplaceType ==
  ASSUME NEW S, NEW q \in Seq(S), NEW k, NEW x, k \in DOMAIN q => x \in S
  PROVE  /\ [q EXCEPT ![k] = x] \in Seq(S)
         /\ Len([q EXCEPT ![k] = x]) = Len(q)
<1>1. PICK n \in Nat : n = Len(q) /\ DOMAIN q = 1 .. n
  OBVIOUS
<1>2. q \in [1 .. n -> S]
  BY <1>1
<1>3. [q EXCEPT ![k] = x] \in [1 .. n -> S]
  BY <1>1, <1>2
<1>4. QED
  BY <1>1, <1>3

LEMMA SetRangeType ==
  ASSUME NEW C, NEW s \in States(C), NEW handle \in Nat
  PROVE  DataSetRange(s, handle) \in States(C)
<1>1. s.VB \in Blocks /\ s.VB.channels \in Seq(Channels)
  BY DEF States, Blocks
<1>2. [s.VB.channels EXCEPT ![handle + 1].ranged = TRUE] \in Seq(Channels)
  <2>1. PICK cs \in Seq(Channels) : cs = s.VB.channels
    BY <1>1
  <2>2. handle + 1 \in DOMAIN cs => [cs[handle + 1] EXCEPT !.ranged = TRUE] \in Channels
    <3>1. \A ch \in Channels : [ch EXCEPT !.ranged = TRUE] \in Channels
      BY DEF Channels
    <3>2. \A k \in DOMAIN cs : cs[k] \in Channels
      OBVIOUS
    <3>3. QED
      BY <3>1, <3>2
  <2>3. [cs EXCEPT ![handle + 1] = [cs[handle + 1] EXCEPT !.ranged = TRUE]] \in Seq(Channels)
    BY <2>2, ReplaceType
  <2>4. QED
    BY <2>1, <2>3
<1>3. [s.VB EXCEPT !.channels = [s.VB.channels EXCEPT ![handle + 1].ranged = TRUE]] \in Blocks
  BY <1>1, <1>2 DEF Blocks
<1>4. [s EXCEPT !.VB.channels[handle + 1].ranged = TRUE] \in States(C)
  BY <1>1, <1>3, BlockType
<1>5. QED
  BY <1>4, TryType DEF DataSetRange

LEMMA AddLabelType ==
  ASSUME NEW C, NEW s \in States(C), NEW handle \in Nat, NEW label \in Labels
  PROVE  DataAddLabel(s, handle, label) \in States(C)
<1>1. s.VB \in Blocks
  BY DEF States
<1>2. Append(s.VB.labels, [handle |-> handle, name |-> label]) \in Seq(Marks)
  BY <1>1 DEF Blocks, Marks
<1>3. [s.VB EXCEPT !.labels = Append(@, [handle |-> handle, name |-> label])] \in Blocks
  BY <1>1, <1>2 DEF Blocks
<1>4. [s EXCEPT !.VB.labels = Append(@, [handle |-> handle, name |-> label])] \in States(C)
  BY <1>1, <1>3, BlockType
<1>5. QED
  BY <1>4, TryType DEF DataAddLabel

LEMMA AddGroupType ==
  ASSUME NEW C, NEW s \in States(C), NEW name \in Names
  PROVE  DataAddGroup(s, name) \in States(C)
<1>1. s.VB \in Blocks
  BY DEF States
<1>2. Append(s.VB.groups, name) \in Seq(Names)
  BY <1>1 DEF Blocks
<1>3. [s.VB EXCEPT !.groups = Append(@, name)] \in Blocks
  BY <1>1, <1>2 DEF Blocks
<1>4. [s EXCEPT !.VB.groups = Append(@, name)] \in States(C)
  BY <1>1, <1>3, BlockType
<1>5. QED
  BY <1>4, TryType DEF DataAddGroup

LEMMA AddMemberType ==
  ASSUME NEW C, NEW s \in States(C), NEW group \in Nat, NEW handle \in Nat
  PROVE  DataAddMember(s, group, handle) \in States(C)
<1>1. s.VB \in Blocks
  BY DEF States
<1>2. Append(s.VB.members, [group |-> group, channel |-> handle]) \in Seq(Members)
  BY <1>1 DEF Blocks, Members
<1>3. [s.VB EXCEPT !.members = Append(@, [group |-> group, channel |-> handle])] \in Blocks
  BY <1>1, <1>2 DEF Blocks
<1>4. [s EXCEPT !.VB.members = Append(@, [group |-> group, channel |-> handle])] \in States(C)
  BY <1>1, <1>3, BlockType
<1>5. QED
  BY <1>4, TryType DEF DataAddMember

LEMMA AddControlType ==
  ASSUME NEW C, NEW s \in States(C), NEW c \in ListedControls
  PROVE  DataAddControl(s, c) \in States(C)
<1> DEFINE added == [name |-> c.name, type |-> c.type, drive |-> c.drive, address |-> c.address,
                     value |-> IF c.address = None THEN 0 ELSE s.variable[c.address]]
           taken == IF c.type = "float" /\ c.drive = "callback" THEN <<added, Hole>> ELSE <<added>>
<1>1. s.VB \in Blocks /\ s.VB.controls \in Seq(Controls)
  BY DEF States, Blocks
<1>2. added \in Controls
  <2>1. 0 \in Values
    BY RegistryAssumption
  <2>2. c.address # None => s.variable[c.address] \in Values
    BY DEF ListedControls, Places, States
  <2>3. QED
    BY <2>1, <2>2 DEF ListedControls, Controls, Kinds, Drives
<1>3. Hole \in Controls
  BY RegistryAssumption DEF Hole, Controls, Kinds, Drives, Places
<1> HIDE DEF added
<1>4. taken \in Seq(Controls)
  BY <1>2, <1>3
<1> HIDE DEF taken
<1>5. s.VB.controls \o taken \in Seq(Controls)
  BY <1>1, <1>4
<1>6. [s.VB EXCEPT !.controls = @ \o taken] \in Blocks
  BY <1>1, <1>5 DEF Blocks
<1>7. [s EXCEPT !.VB.controls = @ \o taken] \in States(C)
  BY <1>1, <1>6, BlockType
<1>8. [s EXCEPT !.result = "crash"] \in States(C)
  BY DEF States
<1>9. QED
  BY <1>7, <1>8, TryType DEF DataAddControl, added, taken

-----------------------------------------------------------------------------
(* Values. *)

(* There is a first one of a set of places in a sequence. *)
LEMMA Least ==
  ASSUME NEW n \in Nat, NEW I \in SUBSET (1 .. n), I # {}
  PROVE  Min(I) \in I /\ \A i \in I : Min(I) <= i
<1> DEFINE R == {ss \in Nat \X Nat : ss[1] < ss[2]}
<1>1. IsWellFoundedOn(R, Nat)
  BY NatLessThanWellFounded, Zenon DEF OpToRel
<1>2. I \subseteq Nat
  OBVIOUS
<1>3. PICK i \in I : \A j \in I : ~ (<<j, i>> \in R)
  BY <1>1, <1>2, WFMin
<1>4. \A j \in I : i <= j
  <2>1. \A j \in I : j \in Nat /\ i \in Nat
    BY <1>2
  <2>2. \A j \in I : ~ (j < i)
    BY <1>3, <2>1
  <2>3. QED
    BY <2>1, <2>2
<1>5. QED
  BY <1>3, <1>4, Zenon DEF Min

(* The control found is there, and it is one of that name or a hole. *)
LEMMA Found ==
  ASSUME NEW b \in Blocks, NEW name
  PROVE  /\ FindControl(b, name) \in 0 .. Len(b.controls)
         /\ FindControl(b, name) # 0 =>
              LET c == b.controls[FindControl(b, name)] IN c.name = None \/ Alike(c.name, name)
         /\ FindControl(b, name) = 0 =>
              \A k \in DOMAIN b.controls : b.controls[k].name # None /\ ~Alike(b.controls[k].name, name)
<1>1. PICK n : n = Len(b.controls) /\ n \in Nat /\ DOMAIN b.controls = 1 .. n
  <2>1. PICK q \in Seq(Controls) : q = b.controls
    BY DEF Blocks
  <2>2. Len(q) \in Nat /\ DOMAIN q = 1 .. Len(q)
    OBVIOUS
  <2>3. QED
    BY <2>1, <2>2
<1> DEFINE I == {i \in 1 .. n : b.controls[i].name = None \/ Alike(b.controls[i].name, name)}
<1>2. FindControl(b, name) = IF I # {} THEN Min(I) ELSE 0
  BY <1>1 DEF FindControl, SelectInSeq
<1>3. I \in SUBSET (1 .. n)
  OBVIOUS
<1>4. I # {} => Min(I) \in I
  <2> HIDE DEF I
  <2>1. QED
    BY <1>1, <1>3, Least
<1>5. CASE I # {}
  <2>1. FindControl(b, name) \in I
    BY <1>2, <1>4, <1>5
  <2>2. QED
    BY <1>1, <2>1
<1>6. CASE I = {}
  <2>1. FindControl(b, name) = 0
    BY <1>2, <1>6
  <2>2. QED
    BY <1>1, <1>6, <2>1
<1>7. QED
  BY <1>5, <1>6

LEMMA Parts ==
  ASSUME NEW C, NEW s \in States(C)
  PROVE  /\ s.VB \in Blocks /\ s.VB.controls \in Seq(Controls)
         /\ Len(s.VB.controls) \in Nat /\ DOMAIN s.VB.controls = 1 .. Len(s.VB.controls)
         /\ \A k \in DOMAIN s.VB.controls :
              /\ s.VB.controls[k] \in Controls
              /\ s.VB.controls[k].name \in Names \cup {None} /\ s.VB.controls[k].address \in Places
              /\ s.VB.controls[k].value \in Values
         /\ s.pending \in [C -> Seq(Messages)] /\ DOMAIN s.pending = C
         /\ s.orders \in [C -> Seq(Orders)] /\ s.variable \in [Addresses -> Values]
<1>1. s.VB \in Blocks
  BY DEF States
<1>2. PICK q \in Seq(Controls) : q = s.VB.controls
  BY <1>1 DEF Blocks
<1>3. \A k \in DOMAIN q : q[k] \in Controls
  OBVIOUS
<1>4. \A c \in Controls : c.name \in Names \cup {None} /\ c.address \in Places /\ c.value \in Values
  BY DEF Controls
<1>5. QED
  BY <1>1, <1>2, <1>3, <1>4 DEF States

LEMMA ToldType ==
  ASSUME NEW C, NEW s \in States(C), NEW D, NEW m \in Messages
  PROVE  Told(s, D, m) \in [C -> Seq(Messages)]
<1>1. s.pending \in [C -> Seq(Messages)] /\ DOMAIN s.pending = C
  BY DEF States
<1>2. \A c \in C : Append(s.pending[c], m) \in Seq(Messages)
  BY <1>1
<1>3. QED
  BY <1>1, <1>2 DEF Told

LEMMA ValueType ==
  ASSUME NEW b \in Blocks, NEW k \in DOMAIN b.controls, NEW value \in Values
  PROVE  [b EXCEPT !.controls[k].value = value] \in Blocks
<1>1. b.controls \in Seq(Controls) /\ b.controls[k] \in Controls
  BY DEF Blocks
<1>2. [b.controls[k] EXCEPT !.value = value] \in Controls
  BY <1>1 DEF Controls
<1>3. [b.controls EXCEPT ![k] = [b.controls[k] EXCEPT !.value = value]] \in Seq(Controls)
  BY <1>1, <1>2, ReplaceType
<1>4. [b EXCEPT !.controls = [b.controls EXCEPT ![k] = [b.controls[k] EXCEPT !.value = value]]] \in Blocks
  BY <1>3 DEF Blocks
<1>5. QED
  BY <1>4

(* Blocks whose controls differ in their values only. *)
SameLayout(b, d) ==
  /\ Len(d.controls) = Len(b.controls)
  /\ \A j \in DOMAIN b.controls :
       /\ d.controls[j].name = b.controls[j].name /\ d.controls[j].type = b.controls[j].type
       /\ d.controls[j].drive = b.controls[j].drive /\ d.controls[j].address = b.controls[j].address

SameLists(b, d) ==
  /\ d.limits = b.limits /\ d.file = b.file /\ d.command = b.command /\ d.active = b.active
  /\ d.channels = b.channels /\ d.groups = b.groups /\ d.members = b.members /\ d.labels = b.labels

LEMMA ValueGiven ==
  ASSUME NEW b \in Blocks, NEW k \in DOMAIN b.controls, NEW value \in Values,
         NEW d, d = [b EXCEPT !.controls[k].value = value]
  PROVE  /\ SameLayout(b, d) /\ SameLists(b, d)
         /\ d.controls[k].value = value
         /\ \A j \in DOMAIN b.controls : j # k => d.controls[j].value = b.controls[j].value
<1>1. PICK q \in Seq(Controls) : q = b.controls
  BY DEF Blocks
<1>2. PICK r : r = [q EXCEPT ![k] = [q[k] EXCEPT !.value = value]]
  OBVIOUS
<1>3. d = [b EXCEPT !.controls = r]
  BY <1>1, <1>2
<1>4. d.controls = r /\ SameLists(b, d)
  BY <1>3 DEF Blocks, SameLists
<1>5. \A j \in DOMAIN q : q[j] \in Controls
  OBVIOUS
<1>6. Len(r) = Len(q) /\ r[k] = [q[k] EXCEPT !.value = value] /\ \A j \in DOMAIN q : j # k => r[j] = q[j]
  BY <1>1, <1>2
<1>7. LET e == [q[k] EXCEPT !.value = value]
      IN  /\ e.value = value /\ e.name = q[k].name /\ e.type = q[k].type
          /\ e.drive = q[k].drive /\ e.address = q[k].address
  BY <1>1, <1>5 DEF Controls
<1>8. QED
  BY <1>1, <1>4, <1>6, <1>7 DEF SameLayout

(* From s to t control k is given a value, and the clients of D are told. *)
Gives(s, t, k, value, D, C) ==
  /\ t \in States(C) /\ k \in DOMAIN s.VB.controls
  /\ t.VB = [s.VB EXCEPT !.controls[k].value = value]
  /\ t.pending = Told(s, D, [kind |-> "update", name |-> s.VB.controls[k].name, value |-> value])
  /\ t.result = s.result /\ t.orders = s.orders /\ t.crossed = s.crossed
  /\ t.file = s.file /\ t.chosen = s.chosen

(* Everything of s but the game's variables. *)
SameButVariables(s, t) ==
  /\ t.VB = s.VB /\ t.pending = s.pending /\ t.result = s.result /\ t.orders = s.orders
  /\ t.crossed = s.crossed /\ t.file = s.file /\ t.chosen = s.chosen

LEMMA AssignType ==
  ASSUME NEW C, NEW s \in States(C), NEW address \in Places, NEW value \in Values
  PROVE  Assign(s, address, value) \in States(C) /\ SameButVariables(s, Assign(s, address, value))
<1>1. s.variable \in [Addresses -> Values]
  BY DEF States
<1>2. [s.variable EXCEPT ![address] = value] \in [Addresses -> Values]
  BY <1>1
<1>3. [s EXCEPT !.variable = [s.variable EXCEPT ![address] = value]] \in States(C)
  BY <1>2 DEF States
<1>4. SameButVariables(s, [s EXCEPT !.variable = [s.variable EXCEPT ![address] = value]])
  BY DEF States, SameButVariables
<1>5. QED
  BY <1>3, <1>4 DEF Assign, SameButVariables

(* The three places that give a control a value put it in the block and    *)
(* tell the clients, and may set the variable in between.                  *)
LEMMA GiveType ==
  ASSUME NEW C, NEW s \in States(C), NEW k \in DOMAIN s.VB.controls, NEW value \in Values, NEW D,
         NEW address \in Places
  PROVE  LET given == [s EXCEPT !.VB.controls[k].value = value]
         IN  /\ given \in States(C)
             /\ Gives(s, UpdateControl(given, k, value, D), k, value, D, C)
             /\ Gives(s, UpdateControl(Assign(given, address, value), k, value, D), k, value, D, C)
             /\ Gives(s, Assign(given, address, value), k, value, {}, C)
<1> DEFINE given == [s EXCEPT !.VB.controls[k].value = value]
           m == [kind |-> "update", name |-> s.VB.controls[k].name, value |-> value]
<1>1. s.VB \in Blocks /\ s.VB.controls \in Seq(Controls) /\ s.VB.controls[k] \in Controls
  BY Parts
<1>2. [s.VB EXCEPT !.controls[k].value = value] \in Blocks
  BY <1>1, ValueType
<1>3. given \in States(C)
  BY <1>2, BlockType
<1>4. /\ given.VB = [s.VB EXCEPT !.controls[k].value = value] /\ given.pending = s.pending
      /\ given.result = s.result /\ given.orders = s.orders /\ given.crossed = s.crossed
      /\ given.file = s.file /\ given.chosen = s.chosen
  BY DEF States
<1>5. m \in Messages
  BY <1>1 DEF Messages, Updates, Controls
<1> HIDE DEF m, given
<1>6. ASSUME NEW t \in States(C), SameButVariables(given, t)
      PROVE  Gives(s, UpdateControl(t, k, value, D), k, value, D, C)
  <2>1. t.VB.controls[k].name = s.VB.controls[k].name
    BY <1>1, <1>4, <1>6, ValueGiven DEF SameLayout, SameButVariables
  <2>2. Told(t, D, m) = Told(s, D, m) /\ Told(s, D, m) \in [C -> Seq(Messages)]
    BY <1>4, <1>5, <1>6, ToldType DEF Told, SameButVariables
  <2>3. UpdateControl(t, k, value, D) = [t EXCEPT !.pending = Told(s, D, m)]
    BY <2>1, <2>2 DEF UpdateControl, m
  <2>4. [t EXCEPT !.pending = Told(s, D, m)] \in States(C)
    BY <2>2 DEF States
  <2>5. Gives(s, [t EXCEPT !.pending = Told(s, D, m)], k, value, D, C)
    BY <1>4, <1>6, <2>4 DEF Gives, States, SameButVariables, m
  <2>6. QED
    BY <2>3, <2>5
<1>7. Assign(given, address, value) \in States(C) /\ SameButVariables(given, Assign(given, address, value))
  BY <1>3, AssignType
<1>8. Told(s, {}, m) = s.pending
  <2>1. s.pending \in [C -> Seq(Messages)]
    BY Parts
  <2>2. QED
    BY <2>1 DEF Told
<1>9. Gives(s, Assign(given, address, value), k, value, {}, C)
  BY <1>4, <1>7, <1>8 DEF Gives, SameButVariables, m
<1>10. SameButVariables(given, given)
  BY DEF SameButVariables
<1>11. QED
  BY <1>3, <1>6, <1>7, <1>9, <1>10 DEF given

(* Setting the variable afterwards changes nothing of that. *)
LEMMA GivesAssign ==
  ASSUME NEW C, NEW s \in States(C), NEW t, NEW k, NEW value \in Values, NEW D, NEW address \in Places,
         Gives(s, t, k, value, D, C)
  PROVE  Gives(s, Assign(t, address, value), k, value, D, C)
BY AssignType DEF Gives, SameButVariables

LEMMA SetValueGives ==
  ASSUME NEW C, NEW s \in States(C), NEW k \in DOMAIN s.VB.controls, NEW value \in Values
  PROVE  LET t == SetValue(s, k, value)
         IN  /\ t \in States(C)
             /\ \/ t = s /\ s.VB.controls[k].value = value
                \/ Gives(s, t, k, value, IF s.VB.active THEN C ELSE {}, C)
<1>1. s.VB.controls[k].address \in Places /\ DOMAIN s.pending = C
  BY Parts
<1>2. CASE s.VB.controls[k].value = value
  BY <1>2 DEF SetValue
<1>3. CASE s.VB.controls[k].value # value
  <2> DEFINE set == Assign([s EXCEPT !.VB.controls[k].value = value], s.VB.controls[k].address, value)
  <2>1. SetValue(s, k, value) = IF s.VB.active THEN UpdateControl(set, k, value, C) ELSE set
    BY <1>1, <1>3, Zenon DEF SetValue
  <2>2. Gives(s, UpdateControl(set, k, value, C), k, value, C, C) /\ Gives(s, set, k, value, {}, C)
    BY <1>1, GiveType
  <2>3. QED
    BY <2>1, <2>2 DEF Gives
<1>4. QED
  BY <1>2, <1>3

LEMMA ObeySliderGives ==
  ASSUME NEW C, NEW s \in States(C), NEW k \in DOMAIN s.VB.controls, NEW value \in Values, NEW c
  PROVE  Gives(s, ObeySlider(s, k, value, c), k, value, C \ {c}, C)
<1>1. s.VB.controls[k].address \in Places /\ None \in Places /\ DOMAIN s.pending = C
  BY Parts DEF Places
<1> DEFINE given == [s EXCEPT !.VB.controls[k].value = value]
           heard == UpdateControl(given, k, value, C \ {c})
<1>2. Gives(s, heard, k, value, C \ {c}, C)
  BY <1>1, GiveType
<1>3. PICK address \in Places : ObeySlider(s, k, value, c) = Assign(heard, address, value)
  BY <1>1, Zenon DEF ObeySlider
<1>4. QED
  BY <1>2, <1>3, GivesAssign

LEMMA PollGives ==
  ASSUME NEW C, NEW s \in States(C), NEW k \in DOMAIN s.VB.controls
  PROVE  LET t == PollControl(s, k)
         IN  /\ t \in States(C)
             /\ \/ t = s
                \/ \E value \in Values : Gives(s, t, k, value, C, C)
<1>1. s.VB.controls[k].address \in Places /\ DOMAIN s.pending = C
  BY Parts
<1>2. CASE s.VB.controls[k].address = None \/ s.variable[s.VB.controls[k].address] = s.VB.controls[k].value
  BY <1>2 DEF PollControl
<1>3. CASE ~ (s.VB.controls[k].address = None \/ s.variable[s.VB.controls[k].address] = s.VB.controls[k].value)
  <2>1. PICK value \in Values : value = s.variable[s.VB.controls[k].address]
    BY <1>1, <1>3 DEF Places, States
  <2>2. PollControl(s, k) = UpdateControl([s EXCEPT !.VB.controls[k].value = value], k, value, C)
    BY <1>1, <1>3, <2>1, Zenon DEF PollControl
  <2>3. Gives(s, PollControl(s, k), k, value, C, C)
    BY <1>1, <2>2, GiveType
  <2>4. QED
    BY <2>3 DEF Gives
<1>4. QED
  BY <1>2, <1>3

(* From s to t nothing changes but variables and the result. *)
Quiet(s, t) ==
  /\ t.VB = s.VB /\ t.pending = s.pending /\ t.orders = s.orders
  /\ t.crossed = s.crossed /\ t.file = s.file /\ t.chosen = s.chosen

LEMMA ResultType ==
  ASSUME NEW C, NEW s \in States(C), NEW r \in {"ok", "no", "crash"}, NEW t, t = [s EXCEPT !.result = r]
  PROVE  t \in States(C) /\ t.result = r /\ Quiet(s, t) /\ t.variable = s.variable
BY DEF States, Quiet

LEMMA SetNamedValueGives ==
  ASSUME NEW C, NEW s \in States(C), NEW name, NEW value \in Values
  PROVE  LET t == SetNamedValue(s, name, value)
             k == FindControl(s.VB, name)
         IN  /\ t \in States(C)
             /\ \/ Quiet(s, t) /\ t.result = s.result
                \/ Quiet(s, t) /\ s.result = "ok" /\ t.result = "no" /\ k = 0
                \/ Quiet(s, t) /\ t.result = "crash" /\ k \in DOMAIN s.VB.controls /\ s.VB.controls[k].name = None
                \/ /\ k \in DOMAIN s.VB.controls
                   /\ s.result = "ok" /\ Gives(s, t, k, value, IF s.VB.active THEN C ELSE {}, C)
<1> DEFINE t == SetNamedValue(s, name, value)
           k == FindControl(s.VB, name)
<1>1. k \in 0 .. Len(s.VB.controls) /\ (k # 0 => k \in DOMAIN s.VB.controls)
  BY Parts, Found
<1>2. Quiet(s, s)
  BY DEF Quiet
<1> HIDE DEF k
<1>3. CASE s.result # "ok"
  <2>1. t = s
    BY <1>3 DEF SetNamedValue, Try
  <2>2. QED
    BY <1>2, <2>1 DEF k
<1>4. CASE s.result = "ok" /\ k = 0
  <2>1. t = [s EXCEPT !.result = "no"]
    BY <1>4 DEF SetNamedValue, Try, k
  <2>2. QED
    BY <1>4, <2>1, ResultType DEF k
<1>5. CASE s.result = "ok" /\ k # 0 /\ s.VB.controls[k].name = None
  <2>1. t = [s EXCEPT !.result = "crash"]
    BY <1>5 DEF SetNamedValue, k
  <2>2. QED
    BY <1>1, <1>5, <2>1, ResultType DEF k
<1>6. CASE s.result = "ok" /\ k # 0 /\ s.VB.controls[k].name # None
  <2>1. t = SetValue(s, k, value)
    BY <1>6 DEF SetNamedValue, Try, k
  <2>2. t \in States(C) /\ (t = s \/ Gives(s, t, k, value, IF s.VB.active THEN C ELSE {}, C))
    BY <1>1, <1>6, <2>1, SetValueGives
  <2>3. QED
    BY <1>1, <1>2, <1>6, <2>2 DEF k
<1>7. QED
  BY <1>3, <1>4, <1>5, <1>6

LEMMA ParseGives ==
  ASSUME NEW C, NEW s \in States(C), NEW entry \in Entries,
         FindControl(s.VB, entry.name) # 0
  PROVE  LET t == ParseControl(s, entry)
             k == FindControl(s.VB, entry.name)
         IN  /\ t \in States(C)
             /\ \/ t = s
                \/ Quiet(s, t) /\ t.result = "crash" /\ k \in DOMAIN s.VB.controls /\ s.VB.controls[k].name = None
                \/ /\ k \in DOMAIN s.VB.controls
                   /\ s.result = "ok" /\ Gives(s, t, k, entry.value, IF s.VB.active THEN C ELSE {}, C)
<1> DEFINE t == ParseControl(s, entry)
           k == FindControl(s.VB, entry.name)
<1>1. k \in DOMAIN s.VB.controls /\ entry.value \in Values
  BY Parts, Found DEF Entries
<1> HIDE DEF k
<1>2. CASE t = s
  BY <1>2
<1>3. CASE s.result = "ok" /\ s.VB.controls[k].name = None
  <2>1. t = [s EXCEPT !.result = "crash"]
    BY <1>3 DEF ParseControl, k
  <2>2. QED
    BY <1>1, <1>3, <2>1, ResultType DEF k
<1>4. CASE s.result = "ok" /\ s.VB.controls[k].name # None /\ Slider(s.VB.controls[k])
  <2>1. t = SetValue(s, k, entry.value)
    BY <1>4 DEF ParseControl, k
  <2>2. t \in States(C) /\ (t = s \/ Gives(s, t, k, entry.value, IF s.VB.active THEN C ELSE {}, C))
    BY <1>1, <2>1, SetValueGives
  <2>3. QED
    BY <1>1, <1>4, <2>2 DEF k
<1>5. CASE s.result # "ok"
  <2>1. t = s
    BY <1>5 DEF ParseControl
  <2>2. QED
    BY <2>1
<1>6. CASE s.result = "ok" /\ s.VB.controls[k].name # None /\ ~Slider(s.VB.controls[k])
  <2>1. t = s
    BY <1>6 DEF ParseControl, k
  <2>2. QED
    BY <2>1
<1>7. QED
  BY <1>3, <1>4, <1>5, <1>6

LEMMA ObeyControlGives ==
  ASSUME NEW C, NEW s \in States(C), NEW k, NEW value \in Values, NEW c, NEW t, t = ObeyControl(s, k, value, c)
  PROVE  /\ t \in States(C)
         /\ \/ t = s /\ (s.result # "ok" \/ k \notin DOMAIN s.VB.controls \/ ~Slider(s.VB.controls[k]))
            \/ t.result = "crash" /\ s.result = "ok" /\ k \in DOMAIN s.VB.controls
               /\ s.VB.controls[k].drive = "command" /\ ~s.VB.command /\ SameLayout(s.VB, t.VB)
               /\ SameLists(s.VB, t.VB)
            \/ Gives(s, t, k, value, C \ {c}, C) /\ s.result = "ok" /\ Slider(s.VB.controls[k])
<1> DEFINE set == IF Slider(s.VB.controls[k]) THEN ObeySlider(s, k, value, c) ELSE s
<1>1. CASE s.result # "ok" \/ k \notin DOMAIN s.VB.controls
  <2>1. t = s
    BY <1>1 DEF ObeyControl
  <2>2. QED
    BY <1>1, <2>1
<1>2. CASE s.result = "ok" /\ k \in DOMAIN s.VB.controls
  <2>1. /\ set \in States(C)
        /\ IF Slider(s.VB.controls[k]) THEN Gives(s, set, k, value, C \ {c}, C) ELSE set = s
    BY <1>2, ObeySliderGives DEF Gives
  <2> HIDE DEF set
  <2>2. SameLayout(s.VB, set.VB) /\ SameLists(s.VB, set.VB)
    <3>1. CASE set.VB = s.VB
      BY <3>1 DEF SameLayout, SameLists
    <3>2. CASE set.VB = [s.VB EXCEPT !.controls[k].value = value]
      <4>1. s.VB \in Blocks
        BY Parts
      <4>2. QED
        BY ONLY value \in Values, <1>2, <3>2, <4>1, ValueGiven
    <3>3. QED
      BY <2>1, <3>1, <3>2 DEF Gives
  <2>3. CASE s.VB.controls[k].drive = "command" /\ ~s.VB.command
    <3>1. t = [set EXCEPT !.result = "crash"]
      BY <1>2, <2>3 DEF ObeyControl, set
    <3>2. t \in States(C) /\ t.result = "crash" /\ t.VB = set.VB
      BY <2>1, <3>1, ResultType DEF Quiet
    <3>3. QED
      BY <1>2, <2>2, <2>3, <3>2
  <2>4. CASE ~ (s.VB.controls[k].drive = "command" /\ ~s.VB.command)
    <3>1. t = set
      BY <1>2, <2>4 DEF ObeyControl, set
    <3>2. QED
      BY <1>2, <2>1, <3>1
  <2>5. QED
    BY <2>3, <2>4
<1>3. QED
  BY <1>1, <1>2

(* What a client is sent of the controls. *)
TableOf(b) == [k \in DOMAIN b.controls |->
  [name |-> b.controls[k].name, type |-> b.controls[k].type, value |-> b.controls[k].value]]

Named(b) == \A k \in DOMAIN b.controls : b.controls[k].name # None

LEMMA TableType ==
  ASSUME NEW b \in Blocks
  PROVE  TableOf(b) \in Seq(Rows)
<1>1. PICK q \in Seq(Controls) : q = b.controls
  BY DEF Blocks
<1>2. \A k \in DOMAIN q : q[k] \in Controls
  OBVIOUS
<1>3. \A c \in Controls : [name |-> c.name, type |-> c.type, value |-> c.value] \in Rows
  BY DEF Controls, Rows
<1> DEFINE row(k) == [name |-> q[k].name, type |-> q[k].type, value |-> q[k].value]
<1>4. \A k \in DOMAIN q : row(k) \in Rows
  BY <1>2, <1>3
<1>5. TableOf(b) = [k \in DOMAIN q |-> row(k)]
  BY <1>1 DEF TableOf
<1> HIDE DEF row
<1>6. [k \in DOMAIN q |-> row(k)] \in [1 .. Len(q) -> Rows]
  BY <1>4
<1>7. Len(q) \in Nat
  OBVIOUS
<1>8. QED
  BY <1>5, <1>6, <1>7

LEMMA SendGives ==
  ASSUME NEW C, NEW s \in States(C), NEW D
  PROVE  LET t == SendRegistrations(s, D)
         IN  /\ t \in States(C)
             /\ \/ Quiet(s, t) /\ t.result = "crash" /\ ~Named(s.VB)
                \/ /\ Named(s.VB)
                   /\ t.VB = s.VB /\ t.orders = s.orders /\ t.crossed = s.crossed
                   /\ t.file = s.file /\ t.chosen = s.chosen /\ t.result = s.result
                   /\ t.pending = Told(s, D, [kind |-> "registrations", controls |-> TableOf(s.VB)])
<1> DEFINE t == SendRegistrations(s, D)
           m == [kind |-> "registrations", controls |-> TableOf(s.VB)]
<1>1. CASE ~Named(s.VB)
  <2>1. t = [s EXCEPT !.result = "crash"]
    BY <1>1 DEF SendRegistrations, Named
  <2>2. QED
    BY <1>1, <2>1, ResultType
<1>2. CASE Named(s.VB)
  <2>1. m \in Messages
    BY Parts, TableType DEF Messages, Tables
  <2>2. PICK p : p = Told(s, D, m) /\ p \in [C -> Seq(Messages)]
    BY <2>1, ToldType
  <2>3. t = [s EXCEPT !.pending = p]
    BY <1>2, <2>2 DEF SendRegistrations, Named, TableOf
  <2>4. /\ [s EXCEPT !.pending = p] \in States(C)
        /\ LET u == [s EXCEPT !.pending = p]
           IN  /\ u.VB = s.VB /\ u.orders = s.orders /\ u.crossed = s.crossed
               /\ u.file = s.file /\ u.chosen = s.chosen /\ u.result = s.result /\ u.pending = p
    BY <2>2 DEF States
  <2>5. QED
    BY <1>2, <2>2, <2>3, <2>4
<1>3. QED
  BY <1>1, <1>2

(* What a block keeps when a channel is added to it. *)
Extends(b, d) ==
  /\ d.groups = b.groups /\ d.members = b.members /\ d.labels = b.labels /\ d.controls = b.controls
  /\ d.file = b.file /\ d.command = b.command /\ d.active = b.active
  /\ d.limits.controls = b.limits.controls
  /\ Len(b.channels) <= Len(d.channels)
  /\ \A h \in DOMAIN b.channels : d.channels[h] = b.channels[h]
  /\ \A h \in DOMAIN d.channels : h \notin DOMAIN b.channels => d.channels[h].ranged = FALSE

LEMMA AddChannelGives ==
  ASSUME NEW C, NEW s \in States(C), NEW name \in Names,
         NEW r, r = [s EXCEPT !.VB.limits.channels = @ + 1],
         NEW t, t = DataAddChannel(r, name)
  PROVE  /\ t \in States(C) /\ Extends(s.VB, t.VB)
         /\ t.pending = s.pending /\ t.orders = s.orders /\ t.crossed = s.crossed
         /\ t.file = s.file /\ t.chosen = s.chosen
         /\ t.result \in {s.result, "no"}
<1>1. PICK b \in Blocks : b = s.VB
  BY Parts
<1>2. [b.limits EXCEPT !.channels = @ + 1] \in Room
      /\ [b.limits EXCEPT !.channels = @ + 1].controls = b.limits.controls
  <2>1. b.limits \in Room
    BY DEF Blocks
  <2>2. QED
    BY <2>1 DEF Room
<1>3. PICK l \in Room : l = [b.limits EXCEPT !.channels = @ + 1] /\ l.controls = b.limits.controls
  BY <1>2
<1>4. r = [s EXCEPT !.VB = [b EXCEPT !.limits = l]]
  BY <1>1, <1>3
<1>5. PICK d \in Blocks : d = [b EXCEPT !.limits = l]
  BY <1>3 DEF Blocks
<1>6. /\ d.limits = l /\ d.groups = b.groups /\ d.members = b.members /\ d.labels = b.labels
      /\ d.controls = b.controls /\ d.file = b.file /\ d.command = b.command /\ d.active = b.active
      /\ d.channels = b.channels
  BY <1>5 DEF Blocks
<1>7. r \in States(C) /\ r.VB = d /\ Quiet([s EXCEPT !.VB = d], r) /\ r.result = s.result
      /\ r.pending = s.pending /\ r.orders = s.orders /\ r.crossed = s.crossed
      /\ r.file = s.file /\ r.chosen = s.chosen
  <2>1. r = [s EXCEPT !.VB = d]
    BY <1>4, <1>5
  <2>2. QED
    BY ONLY s \in States(C), d \in Blocks, <2>1, BlockType DEF States, Quiet
<1>8. PICK q \in Seq(Channels) : q = d.channels
  BY DEF Blocks
<1>9. PICK x \in Channels : x = [name |-> name, ranged |-> FALSE] /\ x.ranged = FALSE
  <2>1. [name |-> name, ranged |-> FALSE] \in Channels
    BY DEF Channels
  <2>2. QED
    BY <2>1
<1>10. PICK n \in Nat : n = Len(q) /\ DOMAIN q = 1 .. n
  OBVIOUS
<1>11. Append(q, x) \in Seq(Channels) /\ Len(Append(q, x)) = n + 1 /\ DOMAIN Append(q, x) = 1 .. n + 1
       /\ Append(q, x)[n + 1] = x /\ \A h \in 1 .. n : Append(q, x)[h] = q[h]
  BY <1>10
<1>12. PICK q2 : q2 = Append(q, x)
  OBVIOUS
<1>13. PICK e \in Blocks : e = [d EXCEPT !.channels = q2]
  BY <1>11, <1>12 DEF Blocks
<1>14. /\ e.limits = l /\ e.groups = b.groups /\ e.members = b.members /\ e.labels = b.labels
       /\ e.controls = b.controls /\ e.file = b.file /\ e.command = b.command /\ e.active = b.active
       /\ e.channels = q2
  BY <1>6, <1>13 DEF Blocks
<1>15. Extends(b, e)
  BY <1>3, <1>6, <1>8, <1>9, <1>10, <1>11, <1>12, <1>14 DEF Extends
<1>16. Extends(b, d)
  BY <1>3, <1>6, <1>8, <1>10 DEF Extends
<1>17. CASE r.result = "ok" /\ Len(d.channels) < l.channels
  <2>1. t = [r EXCEPT !.VB = e]
    BY <1>6, <1>7, <1>8, <1>9, <1>12, <1>13, <1>17 DEF DataAddChannel, Try
  <2>2. t \in States(C) /\ t.VB = e /\ t.result = r.result /\ t.pending = r.pending
        /\ t.orders = r.orders /\ t.crossed = r.crossed /\ t.file = r.file /\ t.chosen = r.chosen
    <3>1. t \in States(C)
      BY ONLY e \in Blocks, <1>7, <2>1, BlockType
    <3>2. QED
      BY ONLY <1>7, <2>1 DEF States
  <2>3. QED
    BY <1>1, <1>7, <1>15, <2>2
<1>18. CASE r.result = "ok" /\ ~ (Len(d.channels) < l.channels)
  <2>1. t = [r EXCEPT !.result = "no"]
    BY <1>6, <1>7, <1>18 DEF DataAddChannel, Try
  <2>2. t \in States(C) /\ Quiet(r, t) /\ t.result = "no"
    <3>1. "no" \in {"ok", "no", "crash"}
      OBVIOUS
    <3>2. QED
      BY ONLY <1>7, <2>1, <3>1, ResultType
  <2>3. QED
    BY <1>1, <1>7, <1>16, <2>2 DEF Quiet
<1>19. CASE r.result # "ok"
  <2>1. t = r
    BY <1>19 DEF DataAddChannel, Try
  <2>2. QED
    BY <1>1, <1>7, <1>16, <2>1
<1>20. QED
  BY <1>17, <1>18, <1>19

Sends(s, t, C) ==
  /\ t \in States(C)
  /\ \/ t = s
     \/ t.result = "crash" /\ ~Named(s.VB) /\ Extends(s.VB, t.VB)
     \/ /\ Named(s.VB) /\ Extends(s.VB, t.VB)
        /\ t.orders = s.orders /\ t.crossed = s.crossed
        /\ t.file = s.file /\ t.chosen = s.chosen /\ t.result \in {s.result, "no"}
        /\ t.pending = Told(s, C, [kind |-> "registrations", controls |-> TableOf(s.VB)])

LEMMA SendNamedGives ==
  ASSUME NEW C, NEW s \in States(C), NEW name \in Names, NEW t, t = SendNamed(s, name)
  PROVE  Sends(s, t, C)
<1>1. PICK r : r = [s EXCEPT !.VB.limits.channels = @ + 1]
  OBVIOUS
<1>2. PICK u : u = DataAddChannel(r, name)
  OBVIOUS
<1>3. /\ u \in States(C) /\ Extends(s.VB, u.VB)
      /\ u.pending = s.pending /\ u.orders = s.orders /\ u.crossed = s.crossed
      /\ u.file = s.file /\ u.chosen = s.chosen /\ u.result \in {s.result, "no"}
  BY <1>1, <1>2, AddChannelGives
<1>4. DOMAIN s.pending = C
  BY Parts
<1>5. CASE \E h \in DOMAIN s.VB.channels : Alike(s.VB.channels[h].name, name)
  BY <1>5 DEF SendNamed, Sends
<1>6. CASE ~ \E h \in DOMAIN s.VB.channels : Alike(s.VB.channels[h].name, name)
  <2>1. t = SendRegistrations(u, C)
    BY <1>1, <1>2, <1>4, <1>6 DEF SendNamed
  <2>2. u.VB.controls = s.VB.controls
    BY <1>3 DEF Extends
  <2>3. Named(u.VB) <=> Named(s.VB)
    BY <2>2 DEF Named
  <2>4. TableOf(u.VB) = TableOf(s.VB)
    BY <2>2 DEF TableOf
  <2>5. \A m : Told(u, C, m) = Told(s, C, m)
    BY <1>3 DEF Told
  <2>6. /\ t \in States(C)
        /\ \/ Quiet(u, t) /\ t.result = "crash" /\ ~Named(u.VB)
           \/ /\ Named(u.VB)
              /\ t.VB = u.VB /\ t.orders = u.orders /\ t.crossed = u.crossed
              /\ t.file = u.file /\ t.chosen = u.chosen /\ t.result = u.result
              /\ t.pending = Told(u, C, [kind |-> "registrations", controls |-> TableOf(u.VB)])
    BY <1>3, <2>1, SendGives
  <2>7. CASE Quiet(u, t) /\ t.result = "crash" /\ ~Named(u.VB)
    BY <1>3, <2>3, <2>6, <2>7 DEF Quiet, Sends
  <2>8. CASE /\ Named(u.VB)
             /\ t.VB = u.VB /\ t.orders = u.orders /\ t.crossed = u.crossed
             /\ t.file = u.file /\ t.chosen = u.chosen /\ t.result = u.result
             /\ t.pending = Told(u, C, [kind |-> "registrations", controls |-> TableOf(u.VB)])
    BY <1>3, <2>3, <2>4, <2>5, <2>6, <2>8 DEF Sends
  <2>9. QED
    BY <2>6, <2>7, <2>8
<1>7. QED
  BY <1>5, <1>6

-----------------------------------------------------------------------------
(* The inductive invariant.                                                *)

Everyone == DOMAIN pending

(* While no server runs nobody is connected. *)
TypeOK ==
  /\ util \in Lists /\ VB \in Blocks \cup {None} /\ variable \in [Addresses -> Values]
  /\ outcome \in {"none", "ok", "no", "busy", "crash"}
  /\ files \in [Files -> Seq(Entries)] /\ chosen \in [Files -> Picks]
  /\ IsFiniteSet(Everyone)
  /\ pending \in [Everyone -> Seq(Messages)] /\ orders \in [Everyone -> Seq(Orders)]
  /\ shown \in [Everyone -> Seq(Rows)] /\ crossed \subseteq Everyone \X (Names \cup {None})
  /\ Idle => Everyone = {}

(* Groups have channels that are there. *)
MembersThere(u) ==
  \A g \in DOMAIN u.groups : \A m \in DOMAIN u.groups[g].channels : u.groups[g].channels[m] < Len(u.channels)

(* What the lists say the game registered, named as in told. *)
FactsOf(u) == {<<"channel", u.channels[h].name, h - 1>> : h \in DOMAIN u.channels}
  \cup {<<"group", u.groups[g].name, g - 1>> : g \in DOMAIN u.groups}
  \cup (UNION {{<<"member", u.groups[g].name, u.channels[u.groups[g].channels[m] + 1].name>> :
                 m \in DOMAIN u.groups[g].channels} : g \in DOMAIN u.groups})
  \cup (UNION {{<<"label", u.channels[h].name, u.channels[h].labels[l]>> :
                 l \in DOMAIN u.channels[h].labels} : h \in DOMAIN u.channels})
  \cup {<<"range", u.channels[h].name>> : h \in {i \in DOMAIN u.channels : u.channels[i].ranged}}
  \cup {<<"control", Plain(u.controls[k]), k>> : k \in DOMAIN u.controls}
  \cup {<<"file", u.file>>}

AsTold(facts) ==
  told \subseteq facts /\ \A fact \in facts : fact[1] \in {"member", "label", "range", "control"} => fact \in told

Listed ==
  /\ MembersThere(util)
  /\ util.initialized => AsTold(FactsOf(util))

(* Why the process may crash while the server runs. *)
Backed == Active =>
  /\ VB.command = util.command
  /\ \A k \in DOMAIN VB.controls :
       /\ VB.controls[k].name = None => \E c \in ToSet(util.controls) : FloatCallback(c)
       /\ VB.controls[k].drive = "command" => \E c \in ToSet(util.controls) : Commanded(c)

(* The messages ms say nothing of the name n; the last that does says of   *)
(* control k that it has this value.                                       *)
Silent(ms, n) == \A j \in DOMAIN ms : n \notin NamesIn(ms[j])

Says(m, k) == IF m.kind = "update" THEN m.value ELSE m.controls[k].value

LastSays(ms, n, k, value) == \E j \in DOMAIN ms :
  /\ n \in NamesIn(ms[j]) /\ Says(ms[j], k) = value
  /\ \A i \in DOMAIN ms : i > j => n \notin NamesIn(ms[i])

NoOrder(os, k) == \A j \in DOMAIN os : os[j].control # k

LastOrder(os, k, value) == \E j \in DOMAIN os :
  /\ os[j].control = k /\ os[j].value = value
  /\ \A i \in DOMAIN os : i > j => os[i].control # k

(* A table of the controls, and a client that has it or is about to.       *)
Matches(table, b) ==
  /\ Len(table) = Len(b.controls)
  /\ \A k \in DOMAIN b.controls :
       table[k].name = b.controls[k].name /\ table[k].type = b.controls[k].type

Knows(table, b, ms) ==
  /\ \A j \in DOMAIN ms : ms[j].kind = "registrations" => Matches(ms[j].controls, b)
  /\ Matches(table, b) \/ (Len(table) = 0 /\ Len(ms) > 0 /\ ms[1].kind = "registrations")

(* A value w that is shown stands for v: an order had its text.            *)
StandsFor(type, w, v) == w = v \/ AsText(type, w) = v

(* Client c, that shows this table, is going to show control k's value, or *)
(* the server is going to have the value it shows, or the two crossed.     *)
Agrees(c, table, b, ms, os, cr, k) ==
  LET n == b.controls[k].name
      v == b.controls[k].value
  IN  \/ <<c, n>> \in cr
      \/ /\ ~Slider(b.controls[k]) \/ NoOrder(os, k)
         /\ LastSays(ms, n, k, v) \/ (Silent(ms, n) /\ StandsFor(b.controls[k].type, table[k].value, v))
      \/ /\ Slider(b.controls[k]) /\ Silent(ms, n)
         /\ LastOrder(os, k, AsText(b.controls[k].type, table[k].value))

Agreed(s) == Distinct(s.VB.controls) => \A c \in DOMAIN s.pending :
  /\ Knows(shown[c], s.VB, s.pending[c])
  /\ \A k \in DOMAIN s.VB.controls :
       Agrees(c, shown[c], s.VB, s.pending[c], s.orders[c], s.crossed, k)

InStep == Active =>
  /\ Agreed(State)
  /\ Everyone # {} => Named(VB)

-----------------------------------------------------------------------------
(* What the messages say.                                                  *)

Unique(b) == \A i, j \in DOMAIN b.controls : i # j => b.controls[i].name # b.controls[j].name

LEMMA DistinctUnique ==
  ASSUME NEW b \in Blocks, Distinct(b.controls), \A k \in DOMAIN b.controls : b.controls[k].name # None
  PROVE  Unique(b)
<1>1. \A k \in DOMAIN b.controls : b.controls[k].name \in Names
  <2>1. PICK q \in Seq(Controls) : q = b.controls
    BY DEF Blocks
  <2>2. \A k \in DOMAIN q : q[k] \in Controls
    OBVIOUS
  <2>3. \A c \in Controls : c.name \in Names \cup {None}
    BY DEF Controls
  <2>4. QED
    BY <2>1, <2>2, <2>3
<1>2. QED
  BY <1>1, RegistryAssumption DEF Distinct, Unique

(* Names do not change, so neither does that. *)
LEMMA LayoutDistinct ==
  ASSUME NEW b \in Blocks, NEW d \in Blocks, SameLayout(b, d)
  PROVE  /\ DOMAIN d.controls = DOMAIN b.controls
         /\ Distinct(d.controls) <=> Distinct(b.controls)
         /\ \A k \in DOMAIN b.controls : Slider(d.controls[k]) <=> Slider(b.controls[k])
         /\ Unique(b) <=> Unique(d)
<1>1. DOMAIN d.controls = DOMAIN b.controls
  <2>1. b.controls \in Seq(Controls) /\ d.controls \in Seq(Controls)
    BY DEF Blocks
  <2>2. QED
    BY <2>1 DEF SameLayout
<1>2. QED
  BY <1>1 DEF SameLayout, Distinct, Slider, Unique

(* More messages. *)
LEMMA Joined ==
  ASSUME NEW ms \in Seq(Messages), NEW new \in Seq(Messages), NEW both, both = ms \o new
  PROVE  /\ both \in Seq(Messages) /\ Len(both) = Len(ms) + Len(new)
         /\ \A j \in DOMAIN ms : j \in DOMAIN both /\ both[j] = ms[j]
         /\ \A j \in DOMAIN new : Len(ms) + j \in DOMAIN both /\ both[Len(ms) + j] = new[j]
         /\ \A j \in DOMAIN both : \/ j \in DOMAIN ms
                                   \/ j - Len(ms) \in DOMAIN new /\ j = Len(ms) + (j - Len(ms))
         /\ SubSeq(both, Len(ms) + 1, Len(both)) = new
<1>1. PICK a \in Nat : a = Len(ms) /\ DOMAIN ms = 1 .. a
  OBVIOUS
<1>2. PICK b \in Nat : b = Len(new) /\ DOMAIN new = 1 .. b
  OBVIOUS
<1>3. both \in Seq(Messages) /\ Len(both) = a + b /\ DOMAIN both = 1 .. a + b
  BY <1>1, <1>2
<1>4. \A j \in 1 .. a : both[j] = ms[j]
  BY <1>1, <1>2
<1>5. \A j \in 1 .. b : a + j \in 1 .. a + b /\ both[a + j] = new[j]
  BY <1>1, <1>2
<1>6. \A j \in 1 .. a + b : j \in 1 .. a \/ (j - a \in 1 .. b /\ j = a + (j - a))
  OBVIOUS
<1>7. SubSeq(both, a + 1, a + b) = new
  <2>1. PICK r : r = SubSeq(both, a + 1, a + b)
    OBVIOUS
  <2>2. r = [i \in 1 .. b |-> both[a + i]]
    <3>1. (a + b) - (a + 1) + 1 = b
      OBVIOUS
    <3>2. \A i \in 1 .. b : i + (a + 1) - 1 = a + i
      OBVIOUS
    <3>3. QED
      BY <1>3, <2>1, <3>1, <3>2
  <2>3. new = [i \in 1 .. b |-> new[i]]
    BY <1>2
  <2>4. QED
    BY <1>5, <2>1, <2>2, <2>3
<1>8. \A j \in DOMAIN both : \/ j \in DOMAIN ms
                             \/ j - Len(ms) \in DOMAIN new /\ j = Len(ms) + (j - Len(ms))
  BY ONLY <1>1, <1>2, <1>3, <1>6
<1>9. (\A j \in DOMAIN ms : j \in DOMAIN both /\ both[j] = ms[j])
      /\ \A j \in DOMAIN new : Len(ms) + j \in DOMAIN both /\ both[Len(ms) + j] = new[j]
  <2>1. \A j \in 1 .. a : j \in 1 .. a + b
    OBVIOUS
  <2>2. QED
    BY ONLY <1>1, <1>2, <1>3, <1>4, <1>5, <2>1
<1>10. both \in Seq(Messages) /\ Len(both) = Len(ms) + Len(new) /\ SubSeq(both, Len(ms) + 1, Len(both)) = new
  BY ONLY <1>1, <1>2, <1>3, <1>7
<1>11. QED
  BY ONLY <1>8, <1>9, <1>10

LEMMA SilentJoined ==
  ASSUME NEW ms \in Seq(Messages), NEW new \in Seq(Messages), NEW n
  PROVE  /\ Silent(ms \o new, n) <=> Silent(ms, n) /\ Silent(new, n)
         /\ \A k, v : Silent(new, n) /\ LastSays(ms, n, k, v) => LastSays(ms \o new, n, k, v)
         /\ \A k, v : LastSays(new, n, k, v) => LastSays(ms \o new, n, k, v)
<1>1. PICK both : both = ms \o new
  OBVIOUS
<1>2. PICK a \in Nat : a = Len(ms) /\ DOMAIN ms = 1 .. a
  OBVIOUS
<1>3. PICK b \in Nat : b = Len(new) /\ DOMAIN new = 1 .. b
  OBVIOUS
<1>4. /\ DOMAIN both = 1 .. a + b
      /\ \A j \in 1 .. a : j \in 1 .. a + b /\ both[j] = ms[j]
      /\ \A j \in 1 .. b : a + j \in 1 .. a + b /\ both[a + j] = new[j]
      /\ \A j \in 1 .. a + b : j \in 1 .. a \/ (j - a \in 1 .. b /\ j = a + (j - a))
  BY <1>1, <1>2, <1>3
<1>5. Silent(both, n) <=> Silent(ms, n) /\ Silent(new, n)
  <2>1. ASSUME Silent(both, n) PROVE Silent(ms, n) /\ Silent(new, n)
    <3>1. \A j \in 1 .. a : n \notin NamesIn(ms[j])
      BY <1>4, <2>1 DEF Silent
    <3>2. \A j \in 1 .. b : n \notin NamesIn(new[j])
      BY <1>4, <2>1 DEF Silent
    <3>3. QED
      BY <1>2, <1>3, <3>1, <3>2 DEF Silent
  <2>2. ASSUME Silent(ms, n), Silent(new, n) PROVE Silent(both, n)
    <3>1. ASSUME NEW j \in 1 .. a + b PROVE n \notin NamesIn(both[j])
      <4>1. CASE j \in 1 .. a
        BY <1>2, <1>4, <2>2, <4>1 DEF Silent
      <4>2. CASE j - a \in 1 .. b /\ j = a + (j - a)
        <5>1. PICK i \in 1 .. b : j = a + i
          BY <4>2
        <5>2. QED
          BY <1>3, <1>4, <2>2, <5>1 DEF Silent
      <4>3. QED
        BY <1>4, <4>1, <4>2
    <3>2. QED
      BY <1>4, <3>1 DEF Silent
  <2>3. QED
    BY <2>1, <2>2
<1>6. ASSUME NEW k, NEW v, Silent(new, n), LastSays(ms, n, k, v)
      PROVE  LastSays(both, n, k, v)
  <2>1. PICK j \in 1 .. a : /\ n \in NamesIn(ms[j]) /\ Says(ms[j], k) = v
                            /\ \A i \in 1 .. a : i > j => n \notin NamesIn(ms[i])
    BY <1>2, <1>6 DEF LastSays
  <2>2. n \in NamesIn(both[j]) /\ Says(both[j], k) = v
    BY <1>4, <2>1
  <2>3. ASSUME NEW i \in 1 .. a + b, i > j PROVE n \notin NamesIn(both[i])
    <3>1. CASE i \in 1 .. a
      BY <1>4, <2>1, <2>3, <3>1
    <3>2. CASE i - a \in 1 .. b /\ i = a + (i - a)
      BY <1>3, <1>4, <1>6, <3>2 DEF Silent
    <3>3. QED
      BY <1>4, <3>1, <3>2
  <2>4. QED
    BY <1>4, <2>2, <2>3 DEF LastSays
<1>7. ASSUME NEW k, NEW v, LastSays(new, n, k, v)
      PROVE  LastSays(both, n, k, v)
  <2>1. PICK j \in 1 .. b : /\ n \in NamesIn(new[j]) /\ Says(new[j], k) = v
                            /\ \A i \in 1 .. b : i > j => n \notin NamesIn(new[i])
    BY <1>3, <1>7 DEF LastSays
  <2>2. a + j \in 1 .. a + b /\ n \in NamesIn(both[a + j]) /\ Says(both[a + j], k) = v
    BY <1>4, <2>1
  <2>3. ASSUME NEW i \in 1 .. a + b, i > a + j PROVE n \notin NamesIn(both[i])
    <3>1. i - a \in 1 .. b /\ i = a + (i - a) /\ i - a > j
      BY <2>3
    <3>2. QED
      BY <1>4, <2>1, <3>1
  <2>4. QED
    BY <1>4, <2>2, <2>3 DEF LastSays
<1>8. QED
  BY <1>1, <1>5, <1>6, <1>7

-----------------------------------------------------------------------------
(* What a call tells client c.                                             *)

(* From s to t client c is told the values of the controls that change,    *)
(* but for those of K.                                                     *)
Carries(c, s, t, K) == \E new \in Seq(Messages) :
  /\ t.pending[c] = s.pending[c] \o new
  /\ \A j \in DOMAIN new : new[j].kind = "registrations" => Matches(new[j].controls, t.VB)
  /\ \A k \in DOMAIN s.VB.controls :
       IF Silent(new, s.VB.controls[k].name)
       THEN k \in K \/ t.VB.controls[k].value = s.VB.controls[k].value
       ELSE LastSays(new, s.VB.controls[k].name, k, t.VB.controls[k].value)

LEMMA Crosses ==
  ASSUME NEW C, NEW s \in States(C), NEW t \in States(C), NEW left, NEW c \in C, NEW n \in Names,
         NEW new \in Seq(Messages), t.pending[c] = s.pending[c] \o new
  PROVE  <<c, n>> \in Crossing(s, t, left) <=>
           IF Silent(new, n) THEN <<c, n>> \in s.crossed
           ELSE \E o \in ToSet(left[c]) : t.VB.controls[o.control].name = n
<1>1. DOMAIN s.pending = C /\ s.pending[c] \in Seq(Messages)
  BY Parts
<1>2. SubSeq(t.pending[c], Len(s.pending[c]) + 1, Len(t.pending[c])) = new
  <2>1. PICK ms \in Seq(Messages) : ms = s.pending[c]
    BY <1>1
  <2>2. PICK both : both = t.pending[c]
    OBVIOUS
  <2>3. both = ms \o new
    BY <2>1, <2>2
  <2>4. SubSeq(both, Len(ms) + 1, Len(both)) = new
    BY ONLY ms \in Seq(Messages), new \in Seq(Messages), <2>3, Joined
  <2>5. QED
    BY <2>1, <2>2, <2>4
<1>3. n \in Tells(new) <=> ~Silent(new, n)
  BY DEF Tells, Silent, ToSet
<1>4. QED
  BY <1>1, <1>2, <1>3 DEF Crossing

LEMMA CarriesAgrees ==
  ASSUME NEW C, NEW s \in States(C), NEW t \in States(C), SameLayout(s.VB, t.VB),
         NEW c \in C, NEW table, Carries(c, s, t, {}), t.orders[c] = s.orders[c],
         NEW k \in DOMAIN s.VB.controls, s.VB.controls[k].name \in Names,
         Agrees(c, table, s.VB, s.pending[c], s.orders[c], s.crossed, k)
  PROVE  Agrees(c, table, t.VB, t.pending[c], t.orders[c], Crossing(s, t, t.orders), k)
<1>1. PICK n \in Names : n = s.VB.controls[k].name /\ n = t.VB.controls[k].name
  BY DEF SameLayout
<1>2. PICK v : v = t.VB.controls[k].value
  OBVIOUS
<1>3. PICK new \in Seq(Messages) :
        /\ t.pending[c] = s.pending[c] \o new
        /\ IF Silent(new, n) THEN v = s.VB.controls[k].value
           ELSE LastSays(new, n, k, v)
  BY <1>1, <1>2 DEF Carries
<1>4. PICK ms \in Seq(Messages) : ms = s.pending[c]
  BY Parts
<1>5. PICK os \in Seq(Orders) : os = s.orders[c] /\ os = t.orders[c]
  BY Parts
<1>6. /\ Slider(t.VB.controls[k]) <=> Slider(s.VB.controls[k])
      /\ t.VB.controls[k].type = s.VB.controls[k].type
  BY LayoutDistinct, Parts DEF SameLayout
<1>7. CASE Silent(new, n)
  <2>1. <<c, n>> \in Crossing(s, t, t.orders) <=> <<c, n>> \in s.crossed
    BY <1>3, <1>7, Crosses
  <2>2. /\ Silent(ms, n) => Silent(ms \o new, n)
        /\ \A w : LastSays(ms, n, k, w) => LastSays(ms \o new, n, k, w)
    BY <1>7, SilentJoined
  <2>3. QED
    BY <1>1, <1>2, <1>3, <1>4, <1>5, <1>6, <1>7, <2>1, <2>2 DEF Agrees
<1>8. CASE ~Silent(new, n)
  <2>1. LastSays(ms \o new, n, k, v)
    BY <1>3, <1>8, SilentJoined
  <2>2. CASE NoOrder(os, k)
    BY <1>1, <1>2, <1>3, <1>4, <1>5, <2>1, <2>2 DEF Agrees
  <2>3. CASE ~NoOrder(os, k)
    <3>1. PICK j \in DOMAIN os : os[j].control = k
      BY <2>3 DEF NoOrder
    <3>2. os[j] \in ToSet(t.orders[c]) /\ t.VB.controls[os[j].control].name = n
      BY <1>1, <1>5, <3>1 DEF ToSet
    <3>3. <<c, n>> \in Crossing(s, t, t.orders)
      BY <1>3, <1>8, <3>2, Crosses
    <3>4. QED
      BY <1>1, <3>3 DEF Agrees
  <2>4. QED
    BY <2>2, <2>3
<1>9. QED
  BY <1>7, <1>8

(* The client whose order is obeyed is told nothing: it shows the value.   *)
LEMMA SenderAgrees ==
  ASSUME NEW C, NEW s \in States(C), NEW t \in States(C), SameLayout(s.VB, t.VB),
         NEW c \in C, NEW table, t.pending[c] = s.pending[c],
         Len(s.orders[c]) > 0, t.orders[c] = Tail(s.orders[c]),
         NEW k \in DOMAIN s.VB.controls, s.VB.controls[k].name \in Names,
         t.VB.controls[k].value =
           IF s.orders[c][1].control = k /\ Slider(s.VB.controls[k])
           THEN s.orders[c][1].value ELSE s.VB.controls[k].value,
         Agrees(c, table, s.VB, s.pending[c], s.orders[c], s.crossed, k)
  PROVE  Agrees(c, table, t.VB, t.pending[c], t.orders[c], Crossing(s, t, t.orders), k)
<1>1. PICK n \in Names : n = s.VB.controls[k].name /\ n = t.VB.controls[k].name
  BY DEF SameLayout
<1>2. /\ Slider(t.VB.controls[k]) <=> Slider(s.VB.controls[k])
      /\ t.VB.controls[k].type = s.VB.controls[k].type
  BY LayoutDistinct, Parts DEF SameLayout
<1>3. <<c, n>> \in Crossing(s, t, t.orders) <=> <<c, n>> \in s.crossed
  <2>1. << >> \in Seq(Messages) /\ s.pending[c] \in Seq(Messages)
    BY Parts
  <2>2. t.pending[c] = s.pending[c] \o << >>
    BY <2>1
  <2>3. Silent(<< >>, n)
    BY DEF Silent
  <2>4. QED
    BY <2>1, <2>2, <2>3, Crosses
<1>4. PICK os \in Seq(Orders) : os = s.orders[c]
  BY Parts
<1>5. PICK l \in Nat : l = Len(os) /\ l > 0 /\ DOMAIN os = 1 .. l
  BY <1>4
<1>6. /\ DOMAIN t.orders[c] = 1 .. l - 1
      /\ \A j \in 1 .. l - 1 : t.orders[c][j] = os[j + 1] /\ j + 1 \in 1 .. l
  BY <1>4, <1>5
<1>7. PICK left : left = t.orders[c]
  OBVIOUS
<1>8. NoOrder(os, k) => NoOrder(left, k)
  BY <1>5, <1>6, <1>7 DEF NoOrder
<1>9. ASSUME NEW v, LastOrder(os, k, v)
      PROVE  LastOrder(left, k, v) \/ (NoOrder(left, k) /\ os[1].control = k /\ os[1].value = v)
  <2>1. PICK j \in 1 .. l : /\ os[j].control = k /\ os[j].value = v
                            /\ \A i \in 1 .. l : i > j => os[i].control # k
    BY <1>5, <1>9 DEF LastOrder
  <2>2. CASE j = 1
    <3>1. \A i \in 1 .. l - 1 : left[i].control # k
      <4>1. \A i \in 1 .. l - 1 : i + 1 > 1
        OBVIOUS
      <4>2. QED
        BY <1>6, <1>7, <2>1, <2>2, <4>1
    <3>2. QED
      BY <1>6, <1>7, <2>1, <2>2, <3>1 DEF NoOrder
  <2>3. CASE j # 1
    <3>1. j - 1 \in 1 .. l - 1 /\ (j - 1) + 1 = j /\ \A i \in 1 .. l - 1 : i > j - 1 => i + 1 > j
      BY <2>3
    <3>2. left[j - 1] = os[j] /\ \A i \in 1 .. l - 1 : i > j - 1 => left[i].control # k
      BY <1>6, <1>7, <2>1, <3>1
    <3>3. QED
      BY <1>6, <1>7, <2>1, <3>1, <3>2 DEF LastOrder
  <2>4. QED
    BY <2>2, <2>3
<1>10. NoOrder(os, k) => os[1].control # k
  BY <1>5 DEF NoOrder
<1>11. CASE <<c, n>> \in s.crossed
  BY <1>1, <1>3, <1>11 DEF Agrees
<1>12. CASE /\ ~Slider(s.VB.controls[k]) \/ NoOrder(os, k)
            /\ LastSays(s.pending[c], n, k, s.VB.controls[k].value)
               \/ (Silent(s.pending[c], n)
                   /\ StandsFor(s.VB.controls[k].type, table[k].value, s.VB.controls[k].value))
  BY <1>1, <1>2, <1>4, <1>7, <1>8, <1>10, <1>12 DEF Agrees
<1>13. CASE /\ Slider(s.VB.controls[k]) /\ Silent(s.pending[c], n)
            /\ LastOrder(os, k, AsText(s.VB.controls[k].type, table[k].value))
  <2>1. CASE LastOrder(left, k, AsText(s.VB.controls[k].type, table[k].value))
    BY <1>1, <1>2, <1>7, <1>13, <2>1 DEF Agrees
  <2>2. CASE /\ NoOrder(left, k) /\ os[1].control = k
             /\ os[1].value = AsText(s.VB.controls[k].type, table[k].value)
    BY <1>1, <1>2, <1>4, <1>7, <1>13, <2>2 DEF Agrees, StandsFor
  <2>3. QED
    BY <1>9, <1>13, <2>1, <2>2
<1>14. QED
  BY <1>1, <1>4, <1>11, <1>12, <1>13 DEF Agrees

LEMMA CarriesKnows ==
  ASSUME NEW C, NEW s \in States(C), NEW t \in States(C), SameLayout(s.VB, t.VB),
         NEW c \in C, NEW table \in Seq(Rows), NEW K, Carries(c, s, t, K), Knows(table, s.VB, s.pending[c])
  PROVE  Knows(table, t.VB, t.pending[c])
<1>1. PICK new \in Seq(Messages) :
        /\ t.pending[c] = s.pending[c] \o new
        /\ \A j \in DOMAIN new : new[j].kind = "registrations" => Matches(new[j].controls, t.VB)
  BY DEF Carries
<1>2. PICK ms \in Seq(Messages) : ms = s.pending[c]
  BY Parts
<1>3. \A rows : Matches(rows, s.VB) => Matches(rows, t.VB)
  BY LayoutDistinct, Parts DEF Matches, SameLayout
<1>4. PICK both \in Seq(Messages) : both = ms \o new
  <2>1. ms \o new \in Seq(Messages)
    BY ONLY ms \in Seq(Messages), new \in Seq(Messages)
  <2>2. QED
    BY <2>1
<1>5. PICK a \in Nat : a = Len(ms) /\ DOMAIN ms = 1 .. a
  BY <1>2
<1>6. PICK b \in Nat : b = Len(new) /\ DOMAIN new = 1 .. b
  BY <1>1
<1>7. Len(both) = a + b /\ DOMAIN both = 1 .. a + b
  BY <1>4, <1>5, <1>6
<1>8. /\ \A j \in 1 .. a : both[j] = ms[j]
      /\ \A j \in 1 .. a + b : j \notin 1 .. a => \E i \in 1 .. b : both[j] = new[i]
  <2>1. \A j \in DOMAIN ms : both[j] = ms[j]
    BY <1>1, <1>2, <1>4, Joined
  <2>2. \A j \in 1 .. b : both[a + j] = new[j]
    BY <1>1, <1>2, <1>4, <1>5, <1>6, Joined
  <2>3. ASSUME NEW j \in 1 .. a + b, j \notin 1 .. a
        PROVE  \E i \in 1 .. b : both[j] = new[i]
    <3>1. PICK i \in 1 .. b : a + i = j
      <4>1. j - a \in 1 .. b /\ a + (j - a) = j
        BY ONLY a \in Nat, b \in Nat, <2>3
      <4>2. QED
        BY ONLY <4>1
    <3>2. both[a + i] = new[i]
      BY ONLY <2>2, i \in 1 .. b
    <3>3. QED
      BY ONLY <3>1, <3>2, i \in 1 .. b
  <2>4. QED
    BY ONLY <1>5, <2>1, <2>3, Zenon
<1>9. \A j \in DOMAIN both : both[j].kind = "registrations" => Matches(both[j].controls, t.VB)
  <2>1. ASSUME NEW j \in 1 .. a, ms[j].kind = "registrations" PROVE Matches(ms[j].controls, t.VB)
    BY <1>2, <1>3, <1>5, <2>1 DEF Knows
  <2>2. ASSUME NEW j \in 1 .. a + b, both[j].kind = "registrations" PROVE Matches(both[j].controls, t.VB)
    <3>1. CASE j \in 1 .. a
      BY <1>8, <2>1, <2>2, <3>1
    <3>2. CASE j \notin 1 .. a
      <4>1. PICK i \in 1 .. b : both[j] = new[i]
        BY ONLY j \in 1 .. a + b, <1>8, <3>2, Zenon
      <4>2. i \in DOMAIN new
        BY ONLY <1>6, i \in 1 .. b, Zenon
      <4>3. QED
        BY ONLY <1>1, <2>2, <4>1, <4>2, Zenon
    <3>3. QED
      BY <3>1, <3>2
  <2>3. QED
    BY <1>7, <2>2
<1>10. Matches(table, t.VB) \/ (Len(table) = 0 /\ Len(both) > 0 /\ both[1].kind = "registrations")
  BY <1>2, <1>3, <1>5, <1>7, <1>8 DEF Knows
<1>11. QED
  BY <1>1, <1>2, <1>4, <1>9, <1>10 DEF Knows

(* A call that leaves the commands alone. *)
Call(s, t, C) ==
  /\ t \in States(C) /\ SameLayout(s.VB, t.VB)
  /\ t.orders = s.orders /\ t.crossed = s.crossed
  /\ \A c \in C : Carries(c, s, t, {})

LEMMA CallNothing ==
  ASSUME NEW C, NEW s \in States(C), NEW t \in States(C), Quiet(s, t)
  PROVE  Call(s, t, C)
<1>1. SameLayout(s.VB, t.VB)
  BY DEF Quiet, SameLayout
<1>2. ASSUME NEW c \in C PROVE Carries(c, s, t, {})
  <2>1. PICK ms \in Seq(Messages) : ms = s.pending[c]
    BY Parts
  <2>2. << >> \in Seq(Messages) /\ DOMAIN << >> = {} /\ ms = ms \o << >>
    OBVIOUS
  <2>3. \A n : Silent(<< >>, n)
    BY DEF Silent
  <2>4. QED
    BY <2>1, <2>2, <2>3 DEF Carries, Quiet
<1>3. QED
  BY <1>1, <1>2 DEF Call, Quiet

LEMMA CallCall ==
  ASSUME NEW C, NEW s \in States(C), NEW t, NEW u, Call(s, t, C), Call(t, u, C)
  PROVE  Call(s, u, C)
<1>1. t \in States(C) /\ u \in States(C) /\ DOMAIN t.VB.controls = DOMAIN s.VB.controls
  BY LayoutDistinct, Parts DEF Call
<1>2. SameLayout(s.VB, u.VB)
  BY <1>1 DEF Call, SameLayout
<1>3. ASSUME NEW c \in C PROVE Carries(c, s, u, {})
  <2>1. PICK m1 \in Seq(Messages) :
          /\ t.pending[c] = s.pending[c] \o m1
          /\ \A j \in DOMAIN m1 : m1[j].kind = "registrations" => Matches(m1[j].controls, t.VB)
          /\ \A k \in DOMAIN s.VB.controls :
               IF Silent(m1, s.VB.controls[k].name) THEN t.VB.controls[k].value = s.VB.controls[k].value
               ELSE LastSays(m1, s.VB.controls[k].name, k, t.VB.controls[k].value)
    BY DEF Call, Carries
  <2>2. PICK m2 \in Seq(Messages) :
          /\ u.pending[c] = t.pending[c] \o m2
          /\ \A j \in DOMAIN m2 : m2[j].kind = "registrations" => Matches(m2[j].controls, u.VB)
          /\ \A k \in DOMAIN t.VB.controls :
               IF Silent(m2, t.VB.controls[k].name) THEN u.VB.controls[k].value = t.VB.controls[k].value
               ELSE LastSays(m2, t.VB.controls[k].name, k, u.VB.controls[k].value)
    BY DEF Call, Carries
  <2>3. PICK ms \in Seq(Messages) : ms = s.pending[c]
    BY Parts
  <2>4. PICK new \in Seq(Messages) : new = m1 \o m2
    <3>1. m1 \o m2 \in Seq(Messages)
      BY ONLY m1 \in Seq(Messages), m2 \in Seq(Messages)
    <3>2. QED
      BY <3>1
  <2>5. u.pending[c] = s.pending[c] \o new
    <3>1. (ms \o m1) \o m2 = ms \o (m1 \o m2)
      BY ONLY ms \in Seq(Messages), m1 \in Seq(Messages), m2 \in Seq(Messages), ConcatAssociative
    <3>2. QED
      BY <2>1, <2>2, <2>3, <2>4, <3>1
  <2>6. \A rows : Matches(rows, t.VB) => Matches(rows, u.VB)
    BY <1>1, LayoutDistinct, Parts DEF Call, Matches, SameLayout
  <2>7. \A j \in DOMAIN new : (\E i \in DOMAIN m1 : new[j] = m1[i]) \/ (\E i \in DOMAIN m2 : new[j] = m2[i])
    <3>1. \A j \in DOMAIN new : j \in DOMAIN m1 \/ (j - Len(m1) \in DOMAIN m2 /\ j = Len(m1) + (j - Len(m1)))
      BY <2>4, Joined
    <3>2. /\ \A j \in DOMAIN m1 : new[j] = m1[j]
          /\ \A j \in DOMAIN m2 : new[Len(m1) + j] = m2[j]
      BY <2>4, Joined
    <3>3. QED
      BY <3>1, <3>2
  <2>8. \A j \in DOMAIN new : new[j].kind = "registrations" => Matches(new[j].controls, u.VB)
    BY <2>1, <2>2, <2>6, <2>7
  <2>9. ASSUME NEW k \in DOMAIN s.VB.controls
        PROVE  IF Silent(new, s.VB.controls[k].name) THEN u.VB.controls[k].value = s.VB.controls[k].value
               ELSE LastSays(new, s.VB.controls[k].name, k, u.VB.controls[k].value)
    <3>1. PICK n : n = s.VB.controls[k].name /\ n = t.VB.controls[k].name
      BY DEF Call, SameLayout
    <3>2. Silent(new, n) <=> Silent(m1, n) /\ Silent(m2, n)
      BY <2>4, SilentJoined
    <3>3. \A v : Silent(m2, n) /\ LastSays(m1, n, k, v) => LastSays(new, n, k, v)
      BY <2>4, SilentJoined
    <3>4. \A v : LastSays(m2, n, k, v) => LastSays(new, n, k, v)
      BY <2>4, SilentJoined
    <3>5. IF Silent(m1, n) THEN t.VB.controls[k].value = s.VB.controls[k].value
          ELSE LastSays(m1, n, k, t.VB.controls[k].value)
      BY <2>1, <3>1
    <3>6. IF Silent(m2, n) THEN u.VB.controls[k].value = t.VB.controls[k].value
          ELSE LastSays(m2, n, k, u.VB.controls[k].value)
      BY <1>1, <2>2, <3>1
    <3>7. QED
      BY ONLY <3>1, <3>2, <3>3, <3>4, <3>5, <3>6
  <2>10. QED
    BY <2>4, <2>5, <2>8, <2>9 DEF Carries
<1>4. QED
  BY <1>1, <1>2, <1>3 DEF Call

-----------------------------------------------------------------------------
(* The calls of a running server.                                          *)

OnlyValue(b, d, k, value) ==
  /\ d.controls[k].value = value
  /\ \A j \in DOMAIN b.controls : j # k => d.controls[j].value = b.controls[j].value

LEMMA GivesLayout ==
  ASSUME NEW C, NEW s \in States(C), NEW t, NEW k, NEW value \in Values, NEW D, Gives(s, t, k, value, D, C)
  PROVE  SameLayout(s.VB, t.VB) /\ SameLists(s.VB, t.VB) /\ OnlyValue(s.VB, t.VB, k, value)
<1>1. s.VB \in Blocks /\ k \in DOMAIN s.VB.controls /\ t.VB = [s.VB EXCEPT !.controls[k].value = value]
  BY Parts DEF Gives
<1>2. QED
  BY ONLY value \in Values, <1>1, ValueGiven DEF OnlyValue

(* A client that is told of the control that is given a value is told all  *)
(* there is to say, one that is not misses that only.                      *)
LEMMA GivesCarries ==
  ASSUME NEW C, NEW s \in States(C), NEW t, NEW k, NEW value \in Values, NEW D,
         Gives(s, t, k, value, D, C), Unique(s.VB), NEW c \in C
  PROVE  /\ c \in D => Carries(c, s, t, {})
         /\ c \notin D => t.pending[c] = s.pending[c]
<1> DEFINE m == [kind |-> "update", name |-> s.VB.controls[k].name, value |-> value]
<1>1. PICK ms \in Seq(Messages) : ms = s.pending[c]
  BY Parts
<1>2. c \in DOMAIN s.pending
  BY Parts
<1>3. t.pending[c] = IF c \in D THEN Append(ms, m) ELSE ms
  BY <1>1, <1>2 DEF Gives, Told
<1>4. /\ t.VB.controls[k].value = value
      /\ \A j \in DOMAIN s.VB.controls : j # k => t.VB.controls[j].value = s.VB.controls[j].value
  <2>1. OnlyValue(s.VB, t.VB, k, value)
    BY GivesLayout
  <2>2. QED
    BY <2>1 DEF OnlyValue
<1>5. CASE c \in D
  <2>1. m \in Messages
    BY Parts DEF Gives, Messages, Updates
  <2>2. m.kind = "update" /\ NamesIn(m) = {s.VB.controls[k].name} /\ Says(m, k) = value
    BY DEF NamesIn, Says
  <2> HIDE DEF m
  <2>3. PICK new \in Seq(Messages) : new = <<m>> /\ DOMAIN new = {1} /\ new[1] = m
    <3>1. <<m>> \in Seq(Messages) /\ DOMAIN <<m>> = {1} /\ <<m>>[1] = m
      BY ONLY <2>1
    <3>2. QED
      BY <3>1
  <2>4. t.pending[c] = s.pending[c] \o new
    <3>1. Append(ms, m) = ms \o <<m>>
      BY ONLY ms \in Seq(Messages), <2>1, AppendIsConcat
    <3>2. QED
      BY <1>1, <1>3, <1>5, <2>3, <3>1
  <2>5. \A j \in DOMAIN new : new[j].kind # "registrations"
    BY <2>2, <2>3
  <2>6. ASSUME NEW j \in DOMAIN s.VB.controls
        PROVE  IF Silent(new, s.VB.controls[j].name) THEN t.VB.controls[j].value = s.VB.controls[j].value
               ELSE LastSays(new, s.VB.controls[j].name, j, t.VB.controls[j].value)
    <3>1. CASE j = k
      <4>1. LastSays(new, s.VB.controls[j].name, j, value)
        BY <2>2, <2>3, <3>1 DEF LastSays
      <4>2. ~Silent(new, s.VB.controls[j].name)
        BY <2>2, <2>3, <3>1 DEF Silent
      <4>3. QED
        BY <3>1, <4>1, <4>2, <1>4
    <3>2. CASE j # k
      <4>1. s.VB.controls[j].name # s.VB.controls[k].name
        BY <3>2 DEF Unique, Gives
      <4>2. Silent(new, s.VB.controls[j].name)
        BY <2>2, <2>3, <4>1 DEF Silent
      <4>3. QED
        BY <3>2, <4>2, <1>4
    <3>3. QED
      BY <3>1, <3>2
  <2>7. QED
    BY <1>5, <2>4, <2>5, <2>6 DEF Carries
<1>6. QED
  BY <1>1, <1>3, <1>5

LEMMA GivesCall ==
  ASSUME NEW C, NEW s \in States(C), NEW t, NEW k, NEW value \in Values,
         Gives(s, t, k, value, C, C), Unique(s.VB)
  PROVE  Call(s, t, C)
<1>1. \A c \in C : Carries(c, s, t, {})
  BY GivesCarries
<1>2. SameLayout(s.VB, t.VB)
  BY GivesLayout
<1>3. QED
  BY <1>1, <1>2 DEF Call, Gives

(* The table of all controls says what each value is. *)
LEMMA TableSays ==
  ASSUME NEW b \in Blocks, NEW m, m = [kind |-> "registrations", controls |-> TableOf(b)],
         NEW new, new = <<m>>
  PROVE  /\ m \in Messages /\ new \in Seq(Messages)
         /\ \A j \in DOMAIN new : Matches(new[j].controls, b)
         /\ \A k \in DOMAIN b.controls :
              /\ ~Silent(new, b.controls[k].name)
              /\ LastSays(new, b.controls[k].name, k, b.controls[k].value)
<1>1. TableOf(b) \in Seq(Rows) /\ m \in Messages
  BY TableType DEF Messages, Tables
<1>2. PICK l \in Nat : l = Len(b.controls) /\ DOMAIN b.controls = 1 .. l
  BY DEF Blocks
<1>3. PICK table \in Seq(Rows) : table = TableOf(b) /\ DOMAIN table = 1 .. l /\ Len(table) = l
  <2>1. PICK table \in Seq(Rows) : table = TableOf(b)
    BY <1>1
  <2>2. DOMAIN table = 1 .. l
    BY <1>2, <2>1 DEF TableOf
  <2>3. Len(table) = l
    BY ONLY table \in Seq(Rows), l \in Nat, <2>2
  <2>4. QED
    BY <2>1, <2>2, <2>3
<1>4. \A k \in 1 .. l : /\ table[k].name = b.controls[k].name /\ table[k].type = b.controls[k].type
                        /\ table[k].value = b.controls[k].value
  BY <1>2, <1>3 DEF TableOf
<1>5. Matches(table, b)
  BY <1>2, <1>3, <1>4 DEF Matches
<1>6. m.kind = "registrations" /\ m.controls = table
  BY <1>3
<1>7. \A k \in 1 .. l : b.controls[k].name \in NamesIn(m) /\ Says(m, k) = b.controls[k].value
  BY <1>3, <1>4, <1>6 DEF NamesIn, Says, ToSet
<1>8. new \in Seq(Messages) /\ DOMAIN new = {1} /\ new[1] = m
  BY <1>1
<1>9. QED
  BY <1>1, <1>2, <1>5, <1>6, <1>7, <1>8 DEF Silent, LastSays

LEMMA SendCarries ==
  ASSUME NEW C, NEW s \in States(C), NEW t \in States(C), t.VB.controls = s.VB.controls, NEW c \in C,
         t.pending = Told(s, C, [kind |-> "registrations", controls |-> TableOf(s.VB)])
  PROVE  Carries(c, s, t, {})
<1>1. PICK ms \in Seq(Messages) : ms = s.pending[c]
  BY Parts
<1>2. c \in DOMAIN s.pending
  BY Parts
<1>3. PICK m : m = [kind |-> "registrations", controls |-> TableOf(s.VB)]
  OBVIOUS
<1>4. PICK new : new = <<m>>
  OBVIOUS
<1>5. /\ m \in Messages /\ new \in Seq(Messages)
      /\ \A j \in DOMAIN new : Matches(new[j].controls, s.VB)
      /\ \A k \in DOMAIN s.VB.controls :
           /\ ~Silent(new, s.VB.controls[k].name)
           /\ LastSays(new, s.VB.controls[k].name, k, s.VB.controls[k].value)
  BY <1>3, <1>4, Parts, TableSays
<1>6. t.pending[c] = s.pending[c] \o new
  <2>1. t.pending[c] = Append(ms, m)
    BY <1>1, <1>2, <1>3 DEF Told
  <2>2. Append(ms, m) = ms \o <<m>>
    BY ONLY ms \in Seq(Messages), <1>5, AppendIsConcat
  <2>3. QED
    BY <1>1, <1>4, <2>1, <2>2
<1>7. \A rows : Matches(rows, s.VB) => Matches(rows, t.VB)
  BY DEF Matches
<1>8. QED
  BY <1>5, <1>6, <1>7 DEF Carries

LEMMA SendNamedCall ==
  ASSUME NEW C, NEW s \in States(C), NEW name \in Names, NEW t, t = SendNamed(s, name), t.result # "crash"
  PROVE  Call(s, t, C)
<1>1. CASE t = s
  BY <1>1, CallNothing DEF Quiet
<1>2. CASE /\ Named(s.VB) /\ Extends(s.VB, t.VB)
           /\ t.orders = s.orders /\ t.crossed = s.crossed
           /\ t.file = s.file /\ t.chosen = s.chosen /\ t.result \in {s.result, "no"}
           /\ t.pending = Told(s, C, [kind |-> "registrations", controls |-> TableOf(s.VB)])
  <2>1. t \in States(C) /\ t.VB.controls = s.VB.controls
    BY <1>2, SendNamedGives DEF Extends, Sends
  <2>2. \A c \in C : Carries(c, s, t, {})
    BY <1>2, <2>1, SendCarries
  <2>3. QED
    BY <1>2, <2>1, <2>2 DEF Call, SameLayout
<1>3. QED
  BY <1>1, <1>2, SendNamedGives DEF Sends

LEMMA WrittenType ==
  ASSUME NEW b \in Blocks
  PROVE  Written(b) \in Seq(Entries)
<1>1. PICK q \in Seq(Controls) : q = b.controls
  BY DEF Blocks
<1>2. PICK n \in Nat : n = Len(q) /\ DOMAIN q = 1 .. n
  BY <1>1
<1>3. \A c \in Controls : Entry(c) \in Entries
  <2>1. ASSUME NEW c \in Controls PROVE Entry(c) \in Entries
    <3>1. c.name \in Names \cup {None} /\ c.value \in Values /\ Printed(c.value) \in Values
      BY ConfigFileAssumption DEF Controls
    <3>2. QED
      BY <3>1 DEF Entry, Entries, AsText
  <2>2. QED
    BY <2>1
<1>4. PICK S : S = [i \in 0 .. n |-> Seq(Entries)]
  OBVIOUS
<1>5. \A i \in 0 .. n : S[i] = Seq(Entries)
  BY <1>4
<1>6. PICK s \in Seq(Entries) : s = << >>
  <2>1. << >> \in Seq(Entries)
    BY ONLY EmptySeq
  <2>2. QED
    BY <2>1
<1>7. \A i \in 1 .. n : \A x \in S[i - 1] : Line(x, q[i]) \in S[i]
  <2>1. ASSUME NEW i \in 1 .. n, NEW x \in S[i - 1]
        PROVE  Line(x, q[i]) \in S[i]
    <3>1. i - 1 \in 0 .. n /\ i \in 0 .. n
      OBVIOUS
    <3>2. x \in Seq(Entries) /\ S[i] = Seq(Entries)
      BY <1>5, <3>1
    <3>3. Entry(q[i]) \in Entries
      BY <1>2, <1>3
    <3>4. Append(x, Entry(q[i])) \in Seq(Entries)
      BY <3>2, <3>3
    <3>5. QED
      BY <3>2, <3>4 DEF Line
  <2>2. QED
    BY <2>1
<1>8. Written(b) \in S[n]
  <2>1. s \in S[0]
    <3>1. 0 \in 0 .. n /\ s \in Seq(Entries)
      OBVIOUS
    <3>2. QED
      BY ONLY <1>5, <3>1
  <2>2. QED
    BY ONLY n \in Nat, <1>1, <1>2, <1>6, <1>7, <2>1, WrittenFold
<1>9. QED
  BY <1>5, <1>8

LEMMA NoPicks == << >> \in Picks
<1>1. << >> \in [{} -> Values]
  OBVIOUS
<1>2. QED
  BY <1>1 DEF Picks

LEMMA ChosenType ==
  ASSUME NEW b \in Blocks
  PROVE  Chosen(b) \in Picks
<1>1. CASE ~Distinct(b.controls)
  BY <1>1, NoPicks DEF Chosen
<1>2. CASE Distinct(b.controls)
  <2> DEFINE V(n) == (CHOOSE c \in SlidersOf(b) : c.name = n).value
  <2>1. PICK M : M = {c.name : c \in SlidersOf(b)}
    OBVIOUS
  <2>2. \A c \in SlidersOf(b) : c \in Controls
    <3>1. PICK q \in Seq(Controls) : q = b.controls
      BY DEF Blocks
    <3>2. \A k \in DOMAIN q : q[k] \in Controls
      OBVIOUS
    <3>3. QED
      BY <3>1, <3>2 DEF SlidersOf, ToSet
  <2>3. \A c \in Controls : c.name \in Names \cup {None} /\ c.value \in Values
    BY DEF Controls
  <2>4. M \in SUBSET (Names \cup {None})
    BY <2>1, <2>2, <2>3
  <2>5. \A n \in M : V(n) \in Values
    BY <2>1, <2>2, <2>3
  <2>6. Chosen(b) = [n \in M |-> V(n)]
    BY <1>2, <2>1 DEF Chosen
  <2> HIDE DEF V
  <2>7. [n \in M |-> V(n)] \in [M -> Values]
    BY <2>5
  <2>8. QED
    BY <2>4, <2>6, <2>7 DEF Picks
<1>3. QED
  BY <1>1, <1>2

LEMMA ThenType ==
  ASSUME NEW C, NEW s \in States(C), NEW t \in States(C), NEW u, u = Then(s, t)
  PROVE  /\ u \in States(C) /\ u.VB = t.VB /\ u.pending = t.pending /\ u.orders = t.orders
         /\ u.result = t.result /\ u.file = t.file /\ u.chosen = t.chosen
         /\ u.crossed = Crossing(s, t, t.orders)
<1>1. Crossing(s, t, t.orders) \subseteq C \X (Names \cup {None})
  BY Parts DEF Crossing
<1>2. QED
  BY <1>1 DEF Then, States

(* Any call leaves every client in step. *)
LEMMA CallAgreed ==
  ASSUME NEW C, NEW s \in States(C), shown \in [C -> Seq(Rows)], NEW t, Call(s, t, C),
         Named(s.VB), Agreed(s), NEW u, u = Then(s, t)
  PROVE  Agreed(u)
<1>1. t \in States(C) /\ SameLayout(s.VB, t.VB)
  BY DEF Call
<1>2. /\ u \in States(C) /\ u.VB = t.VB /\ u.pending = t.pending /\ u.orders = t.orders
      /\ u.crossed = Crossing(s, t, t.orders)
  BY <1>1, ThenType
<1>3. SUFFICES ASSUME Distinct(u.VB.controls), NEW c \in C
               PROVE  /\ Knows(shown[c], u.VB, u.pending[c])
                      /\ \A k \in DOMAIN u.VB.controls :
                           Agrees(c, shown[c], u.VB, u.pending[c], u.orders[c], u.crossed, k)
  BY <1>2, Parts DEF Agreed
<1>4. Distinct(s.VB.controls) /\ DOMAIN t.VB.controls = DOMAIN s.VB.controls
  BY <1>1, <1>2, <1>3, LayoutDistinct, Parts
<1>5. /\ Knows(shown[c], s.VB, s.pending[c])
      /\ \A k \in DOMAIN s.VB.controls :
           Agrees(c, shown[c], s.VB, s.pending[c], s.orders[c], s.crossed, k)
  BY <1>4, Parts DEF Agreed
<1>6. Carries(c, s, t, {}) /\ t.orders[c] = s.orders[c] /\ shown[c] \in Seq(Rows)
  BY DEF Call
<1>7. Knows(shown[c], t.VB, t.pending[c])
  BY <1>1, <1>5, <1>6, CarriesKnows
<1>8. ASSUME NEW k \in DOMAIN s.VB.controls
      PROVE  Agrees(c, shown[c], t.VB, t.pending[c], t.orders[c], Crossing(s, t, t.orders), k)
  <2>1. s.VB.controls[k].name \in Names
    BY Parts DEF Named
  <2>2. QED
    BY <1>1, <1>5, <1>6, <2>1, CarriesAgrees
<1>9. QED
  BY <1>2, <1>4, <1>7, <1>8

-----------------------------------------------------------------------------
(* A call of the running server, and the steps that make it up: what the   *)
(* block keeps, why the process may crash, and that the clients stay in    *)
(* step otherwise.                                                         *)

Continues(b, d) ==
  /\ d.groups = b.groups /\ d.members = b.members /\ d.labels = b.labels
  /\ d.file = b.file /\ d.command = b.command /\ d.active = b.active
  /\ Len(b.channels) <= Len(d.channels)
  /\ \A h \in DOMAIN b.channels : d.channels[h] = b.channels[h]
  /\ \A h \in DOMAIN d.channels : h \notin DOMAIN b.channels => d.channels[h].ranged = FALSE

Excused(b) == \E k \in DOMAIN b.controls :
  (b.controls[k].drive = "command" /\ b.command = FALSE) \/ b.controls[k].name = None

Goes(s, t, C) ==
  /\ t \in States(C) /\ SameLayout(s.VB, t.VB) /\ Continues(s.VB, t.VB)
  /\ t.result = "crash" => Excused(s.VB)
  /\ t.result # "crash" => Agreed(t)

LEMMA ListsContinue ==
  ASSUME NEW b \in Blocks, NEW d \in Blocks, SameLists(b, d)
  PROVE  Continues(b, d)
<1>1. b.channels \in Seq(Channels) /\ Len(b.channels) <= Len(b.channels)
  BY DEF Blocks
<1>2. QED
  BY <1>1 DEF Continues, SameLists

(* The block and the messages are all that matters. *)
LEMMA CarriesOf ==
  ASSUME NEW c, NEW s, NEW t, NEW r, NEW u, NEW K, Carries(c, s, t, K),
         r.VB = s.VB, r.pending = s.pending, u.VB = t.VB, u.pending = t.pending
  PROVE  Carries(c, r, u, K)
BY DEF Carries

LEMMA ToldNothing ==
  ASSUME NEW C, NEW s \in States(C), NEW t, NEW c \in C, t.pending[c] = s.pending[c]
  PROVE  Carries(c, s, t, DOMAIN s.VB.controls)
<1>1. PICK ms \in Seq(Messages) : ms = s.pending[c]
  BY Parts
<1>2. << >> \in Seq(Messages) /\ DOMAIN << >> = {} /\ ms = ms \o << >>
  OBVIOUS
<1>3. \A n : Silent(<< >>, n)
  BY DEF Silent
<1>4. QED
  BY <1>1, <1>2, <1>3 DEF Carries

(* The command of client c that is obeyed is no longer under way.          *)
Took(s, r, c, C) ==
  /\ r \in States(C) /\ r.VB = s.VB /\ r.pending = s.pending /\ r.result = s.result
  /\ r.crossed = s.crossed /\ r.file = s.file /\ r.chosen = s.chosen
  /\ r.orders[c] = Tail(s.orders[c]) /\ \A d \in C : d # c => r.orders[d] = s.orders[d]
  /\ Head(s.orders[c]) = s.orders[c][1] /\ s.orders[c][1].value \in Values

LEMMA OrderTaken ==
  ASSUME NEW C, NEW s \in States(C), NEW c \in C, Len(s.orders[c]) > 0,
         NEW r, r = [s EXCEPT !.orders[c] = Tail(s.orders[c])]
  PROVE  Took(s, r, c, C)
<1>1. PICK os \in Seq(Orders) : os = s.orders[c]
  BY Parts
<1>2. Len(os) > 0 /\ Tail(os) \in Seq(Orders) /\ Head(os) = os[1] /\ os[1] \in Orders
  BY <1>1
<1>3. s.orders \in [C -> Seq(Orders)]
  BY Parts
<1>4. PICK f : f = [s.orders EXCEPT ![c] = Tail(os)]
  OBVIOUS
<1>5. f \in [C -> Seq(Orders)] /\ f[c] = Tail(os) /\ \A d \in C : d # c => f[d] = s.orders[d]
  BY <1>2, <1>3, <1>4
<1>6. r = [s EXCEPT !.orders = f]
  BY <1>1, <1>4
<1>7. /\ r \in States(C) /\ r.VB = s.VB /\ r.pending = s.pending /\ r.result = s.result
      /\ r.crossed = s.crossed /\ r.file = s.file /\ r.chosen = s.chosen /\ r.orders = f
  BY <1>5, <1>6 DEF States
<1>8. os[1].value \in Values
  BY <1>2 DEF Orders
<1>9. QED
  BY <1>1, <1>2, <1>5, <1>7, <1>8 DEF Took

LEMMA FileType ==
  ASSUME NEW C, NEW s \in States(C), NEW t, t = Filed(s)
  PROVE  /\ t \in States(C) /\ t.VB = s.VB /\ t.pending = s.pending /\ t.orders = s.orders
         /\ t.result = s.result /\ t.crossed = s.crossed
<1>1. Written(s.VB) \in Seq(Entries) /\ Chosen(s.VB) \in Picks
  BY Parts, WrittenType, ChosenType
<1>2. QED
  BY <1>1 DEF States, Filed

LEMMA ObeyGoes ==
  ASSUME NEW C, NEW s \in States(C), shown \in [C -> Seq(Rows)], Named(s.VB), Agreed(s),
         s.result = "ok", NEW c \in C, Len(s.orders[c]) > 0, NEW t, t = ObeyFirst(s, c)
  PROVE  /\ Goes(s, t, C) /\ t.result \in {"ok", "crash"}
         /\ t.result = "ok" => \A d \in C : d # c => t.orders[d] = s.orders[d]
<1>1. PICK k, value : k = s.orders[c][1].control /\ value = s.orders[c][1].value
  OBVIOUS
<1>2. PICK r : r = [s EXCEPT !.orders[c] = Tail(s.orders[c])]
  OBVIOUS
<1>3. /\ r \in States(C) /\ r.VB = s.VB /\ r.pending = s.pending /\ r.result = s.result
      /\ r.orders[c] = Tail(s.orders[c]) /\ \A d \in C : d # c => r.orders[d] = s.orders[d]
      /\ Head(s.orders[c]) = s.orders[c][1] /\ value \in Values
  <2>1. Took(s, r, c, C)
    BY ONLY s \in States(C), c \in C, Len(s.orders[c]) > 0, <1>2, OrderTaken
  <2>2. QED
    BY <1>1, <2>1 DEF Took
<1>4. PICK x : x = ObeyControl(r, k, value, c)
  OBVIOUS
<1>5. PICK y : /\ t = Then(s, y) /\ y \in States(C) /\ y.VB = x.VB /\ y.pending = x.pending
               /\ y.orders = x.orders /\ y.result = x.result
  <2>1. x \in States(C)
    BY <1>3, <1>4, ObeyControlGives
  <2>2. PICK z : z = Filed(x)
    OBVIOUS
  <2>3. /\ z \in States(C) /\ z.VB = x.VB /\ z.pending = x.pending /\ z.orders = x.orders
        /\ z.result = x.result
    BY ONLY <2>1, <2>2, FileType
  <2>4. t = Then(s, x) \/ t = Then(s, z)
    <3>1. x = ObeyControl([s EXCEPT !.orders[c] = Tail(s.orders[c])],
                          Head(s.orders[c]).control, Head(s.orders[c]).value, c)
      BY ONLY <1>1, <1>2, <1>3, <1>4, Zenon
    <3>2. QED
      BY ONLY t = ObeyFirst(s, c), <2>2, <3>1, Zenon DEF ObeyFirst
  <2>5. QED
    BY <2>1, <2>3, <2>4
<1>6. /\ t \in States(C) /\ t.VB = x.VB /\ t.pending = y.pending /\ t.orders = y.orders
      /\ t.result = x.result /\ t.crossed = Crossing(s, y, y.orders)
  BY <1>5, ThenType
<1>7. /\ x \in States(C)
      /\ \/ x = r /\ (r.result # "ok" \/ k \notin DOMAIN r.VB.controls \/ ~Slider(r.VB.controls[k]))
         \/ /\ x.result = "crash" /\ r.result = "ok" /\ k \in DOMAIN r.VB.controls
            /\ r.VB.controls[k].drive = "command" /\ ~r.VB.command /\ SameLayout(r.VB, x.VB)
            /\ SameLists(r.VB, x.VB)
         \/ Gives(r, x, k, value, C \ {c}, C) /\ r.result = "ok" /\ Slider(r.VB.controls[k])
  BY ONLY <1>3, <1>4, ObeyControlGives
<1>8. SameLayout(s.VB, x.VB) /\ SameLists(s.VB, x.VB)
  <2>1. CASE x = r
    BY <1>3, <2>1 DEF SameLayout, SameLists
  <2>2. CASE Gives(r, x, k, value, C \ {c}, C)
    BY <1>3, <2>2, GivesLayout
  <2>3. QED
    BY <1>3, <1>7, <2>1, <2>2
<1>9. Continues(s.VB, x.VB)
  BY <1>7, <1>8, Parts, ListsContinue
<1>10. CASE x.result = "crash" /\ k \in DOMAIN r.VB.controls /\ r.VB.controls[k].drive = "command" /\ ~r.VB.command
  <2>1. Excused(s.VB)
    <3>1. s.VB.command \in BOOLEAN
      BY Parts DEF Blocks
    <3>2. QED
      BY <1>3, <1>10, <3>1 DEF Excused
  <2>2. QED
    BY <1>6, <1>8, <1>9, <1>10, <2>1 DEF Goes
<1>11. ASSUME ~ (x.result = "crash" /\ k \in DOMAIN r.VB.controls /\ r.VB.controls[k].drive = "command" /\ ~r.VB.command)
       PROVE  /\ Agreed(t) /\ x.result = "ok" /\ y.orders = r.orders
  <2>1. \/ x = r /\ (k \notin DOMAIN s.VB.controls \/ ~Slider(s.VB.controls[k]))
        \/ Gives(r, x, k, value, C \ {c}, C) /\ Slider(s.VB.controls[k])
    BY <1>3, <1>7, <1>11
  <2>2. x.result = "ok" /\ y.orders = r.orders
    BY <1>3, <1>5, <2>1 DEF Gives
  <2>3. SUFFICES ASSUME Distinct(t.VB.controls), NEW d \in C
                 PROVE  /\ Knows(shown[d], t.VB, t.pending[d])
                        /\ \A j \in DOMAIN t.VB.controls :
                             Agrees(d, shown[d], t.VB, t.pending[d], t.orders[d], t.crossed, j)
    BY <1>6, <2>2, Parts DEF Agreed
  <2>4. DOMAIN t.VB.controls = DOMAIN s.VB.controls /\ Distinct(s.VB.controls) /\ Unique(s.VB)
    <3>1. DOMAIN t.VB.controls = DOMAIN s.VB.controls /\ Distinct(s.VB.controls)
      BY <1>6, <1>8, <2>3, LayoutDistinct, Parts
    <3>2. QED
      BY <3>1, DistinctUnique, Parts DEF Named
  <2>5. /\ Knows(shown[d], s.VB, s.pending[d])
        /\ \A j \in DOMAIN s.VB.controls :
             Agrees(d, shown[d], s.VB, s.pending[d], s.orders[d], s.crossed, j)
    BY <2>4, Parts DEF Agreed
  <2>6. SameLayout(s.VB, y.VB) /\ shown[d] \in Seq(Rows) /\ \A j \in DOMAIN s.VB.controls : s.VB.controls[j].name \in Names
    BY <1>5, <1>8, Parts DEF Named
  <2>7. CASE d # c
    <3>1. Carries(d, s, y, {})
      <4>1. CASE x = r
        <5>1. Carries(d, s, s, {})
          BY CallNothing DEF Call, Quiet
        <5>2. QED
          BY <1>3, <1>5, <4>1, <5>1, CarriesOf
      <4>2. CASE Gives(r, x, k, value, C \ {c}, C)
        <5>1. Unique(r.VB) /\ d \in C \ {c}
          BY <1>3, <2>4, <2>7
        <5>2. Carries(d, r, x, {})
          BY ONLY d \in C, <1>3, <4>2, <5>1, GivesCarries
        <5>3. QED
          BY <1>3, <1>5, <5>2, CarriesOf
      <4>3. QED
        BY <2>1, <4>1, <4>2
    <3>2. y.orders[d] = s.orders[d]
      BY <1>3, <2>2, <2>7
    <3>3. Knows(shown[d], y.VB, y.pending[d])
      BY <1>5, <2>5, <2>6, <3>1, CarriesKnows
    <3>4. ASSUME NEW j \in DOMAIN s.VB.controls
          PROVE  Agrees(d, shown[d], y.VB, y.pending[d], y.orders[d], Crossing(s, y, y.orders), j)
      BY <1>5, <2>5, <2>6, <3>1, <3>2, CarriesAgrees
    <3>5. QED
      BY <1>5, <1>6, <2>4, <3>3, <3>4
  <2>8. CASE d = c
    <3>1. y.pending[c] = s.pending[c]
      <4>1. CASE x = r
        BY <1>3, <1>5, <4>1
      <4>2. CASE Gives(r, x, k, value, C \ {c}, C)
        <5>1. x.pending[c] = r.pending[c]
          <6>1. Unique(r.VB) /\ c \notin C \ {c}
            BY <1>3, <2>4
          <6>2. QED
            BY ONLY c \in C, <1>3, <4>2, <6>1, GivesCarries
        <5>2. QED
          BY <1>3, <1>5, <5>1
      <4>3. QED
        BY <2>1, <4>1, <4>2
    <3>2. y.orders[c] = Tail(s.orders[c])
      BY <1>3, <2>2
    <3>3. Knows(shown[c], y.VB, y.pending[c])
      <4>1. Carries(c, s, y, DOMAIN s.VB.controls)
        BY <3>1, ToldNothing
      <4>2. QED
        BY <1>5, <2>5, <2>6, <2>8, <4>1, CarriesKnows
    <3>4. ASSUME NEW j \in DOMAIN s.VB.controls
          PROVE  Agrees(c, shown[c], y.VB, y.pending[c], y.orders[c], Crossing(s, y, y.orders), j)
      <4>1. y.VB.controls[j].value = IF s.orders[c][1].control = j /\ Slider(s.VB.controls[j])
                                     THEN s.orders[c][1].value ELSE s.VB.controls[j].value
        <5>1. CASE x = r /\ (k \notin DOMAIN s.VB.controls \/ ~Slider(s.VB.controls[k]))
          BY <1>1, <1>3, <1>5, <5>1
        <5>2. CASE Gives(r, x, k, value, C \ {c}, C) /\ Slider(s.VB.controls[k])
          <6>1. OnlyValue(s.VB, x.VB, k, value)
            BY <1>3, <5>2, GivesLayout
          <6>2. QED
            BY <1>1, <1>5, <5>2, <6>1 DEF OnlyValue
        <5>3. QED
          BY <2>1, <5>1, <5>2
      <4>2. QED
        BY <1>5, <2>5, <2>6, <2>8, <3>1, <3>2, <4>1, SenderAgrees
    <3>5. QED
      BY <1>5, <1>6, <2>4, <2>8, <3>3, <3>4
  <2>9. QED
    BY <2>7, <2>8
<1>12. QED
  BY <1>3, <1>6, <1>8, <1>9, <1>10, <1>11 DEF Goes

(* Of the commands of one read all but the first are lost.                 *)
Spares(os, n, k) == \A i \in 2 .. n : os[i].control # k

SameOrders(os, r, k) ==
  /\ NoOrder(os, k) => NoOrder(r, k)
  /\ \A v : LastOrder(os, k, v) => LastOrder(r, k, v)

LEMMA OrdersLost ==
  ASSUME NEW os \in Seq(Orders), NEW n \in 1 .. Len(os),
         NEW r, r = <<Head(os)>> \o SubSeq(os, n + 1, Len(os))
  PROVE  /\ r \in Seq(Orders) /\ Len(r) > 0
         /\ \A k : Spares(os, n, k) => SameOrders(os, r, k)
<1>1. PICK l \in Nat : l = Len(os) /\ DOMAIN os = 1 .. l /\ n \in 1 .. l
  OBVIOUS
<1>2. PICK first \in Seq(Orders) : first = <<Head(os)>> /\ Len(first) = 1 /\ first[1] = os[1]
  <2>1. Head(os) \in Orders /\ Head(os) = os[1]
    BY <1>1
  <2>2. <<Head(os)>> \in Seq(Orders)
    BY <2>1
  <2>3. QED
    BY <2>1, <2>2
<1>3. PICK rest \in Seq(Orders) : /\ rest = SubSeq(os, n + 1, l) /\ Len(rest) = l - n
                                  /\ \A i \in 1 .. l - n : rest[i] = os[n + i]
  <2>1. SubSeq(os, n + 1, l) \in Seq(Orders)
    BY <1>1
  <2>2. Len(SubSeq(os, n + 1, l)) = l - n
    BY <1>1
  <2>3. \A i \in 1 .. l - n : SubSeq(os, n + 1, l)[i] = os[n + i]
    BY <1>1
  <2>4. QED
    BY <2>1, <2>2, <2>3
<1>4. PICK m \in Nat : m = 1 + (l - n) /\ m > 0
  <2>1. 1 + (l - n) \in Nat /\ 1 + (l - n) > 0
    BY <1>1
  <2>2. QED
    BY <2>1
<1>5. r \in Seq(Orders) /\ Len(r) = m /\ DOMAIN r = 1 .. m /\ r[1] = os[1]
  <2>1. r = first \o rest
    BY <1>1, <1>2, <1>3
  <2>2. r \in Seq(Orders) /\ Len(r) = Len(first) + Len(rest) /\ DOMAIN r = 1 .. Len(r)
    BY ONLY first \in Seq(Orders), rest \in Seq(Orders), <2>1
  <2>3. r[1] = first[1]
    BY ONLY first \in Seq(Orders), rest \in Seq(Orders), <1>2, <2>1
  <2>4. Len(first) + Len(rest) = m
    BY <1>2, <1>3, <1>4
  <2>5. QED
    BY ONLY <1>2, <2>2, <2>3, <2>4
<1>6. ASSUME NEW i \in 2 .. m PROVE r[i] = os[n + i - 1] /\ n + i - 1 \in 1 .. l /\ n + i - 1 > 1
  <2>1. r = first \o rest
    BY <1>1, <1>2, <1>3
  <2>2. i \in 1 .. m /\ i > 1 /\ i - 1 \in 1 .. l - n /\ n + (i - 1) = n + i - 1
    BY <1>4
  <2>3. r[i] = rest[i - 1]
    <3>1. i > Len(first) /\ i \in 1 .. Len(first) + Len(rest) /\ i - Len(first) = i - 1
      BY <1>2, <1>3, <1>4, <2>2
    <3>2. r[i] = rest[i - Len(first)]
      BY ONLY first \in Seq(Orders), rest \in Seq(Orders), <2>1, <3>1, ConcatProperties
    <3>3. QED
      BY ONLY <3>1, <3>2
  <2>4. rest[i - 1] = os[n + (i - 1)]
    BY <1>3, <2>2
  <2>5. n + i - 1 \in 1 .. l /\ n + i - 1 > 1
    BY <1>1, <1>4
  <2>6. QED
    BY ONLY <2>2, <2>3, <2>4, <2>5
<1>7. \A i \in 1 .. m : i = 1 \/ i \in 2 .. m
  BY <1>4
<1>8. ASSUME NEW k, Spares(os, n, k), NoOrder(os, k) PROVE NoOrder(r, k)
  <2>1. \A i \in 1 .. l : os[i].control # k
    BY <1>1, <1>8 DEF NoOrder
  <2>2. ASSUME NEW i \in 1 .. m PROVE r[i].control # k
    <3>1. CASE i = 1
      <4>1. 1 \in 1 .. l
        BY <1>1
      <4>2. QED
        BY <1>5, <2>1, <3>1, <4>1
    <3>2. CASE i \in 2 .. m
      BY <1>6, <2>1, <3>2
    <3>3. QED
      BY <1>7, <3>1, <3>2
  <2>3. QED
    BY <1>5, <2>2 DEF NoOrder
<1>9. ASSUME NEW k, Spares(os, n, k), NEW v, LastOrder(os, k, v)
      PROVE  LastOrder(r, k, v)
  <2>1. PICK j \in 1 .. l : /\ os[j].control = k /\ os[j].value = v
                            /\ \A i \in 1 .. l : i > j => os[i].control # k
    BY <1>1, <1>9 DEF LastOrder
  <2>2. j = 1 \/ j \in n + 1 .. l
    <3>1. j \notin 2 .. n
      BY <1>9, <2>1 DEF Spares
    <3>2. QED
      BY <1>1, <3>1
  <2>3. CASE j = 1
    <3>1. \A i \in 1 .. m : i > 1 => r[i].control # k
      BY <1>6, <1>7, <2>1, <2>3
    <3>2. 1 \in 1 .. m
      BY <1>4
    <3>3. QED
      BY <1>5, <2>1, <2>3, <3>1, <3>2 DEF LastOrder
  <2>4. CASE j \in n + 1 .. l
    <3>1. PICK h \in 2 .. m : h = j - n + 1 /\ n + h - 1 = j
      BY <1>1, <1>4, <2>4
    <3>2. r[h] = os[j] /\ h \in 1 .. m
      <4>1. r[h] = os[n + h - 1]
        BY <1>6
      <4>2. h \in 1 .. m
        BY <1>4
      <4>3. QED
        BY <3>1, <4>1, <4>2
    <3>3. ASSUME NEW i \in 1 .. m, i > h PROVE r[i].control # k
      <4>1. i \in 2 .. m /\ n + i - 1 > j
        BY <1>1, <1>4, <3>1, <3>3
      <4>2. QED
        BY <1>6, <2>1, <4>1
    <3>4. QED
      BY <1>5, <2>1, <3>2, <3>3 DEF LastOrder
  <2>5. QED
    BY <2>2, <2>3, <2>4
<1>10. \A k : Spares(os, n, k) => SameOrders(os, r, k)
  BY <1>8, <1>9 DEF SameOrders
<1>11. Len(r) > 0
  BY <1>4, <1>5
<1>12. QED
  BY <1>5, <1>10, <1>11

LEMMA LostGives ==
  ASSUME NEW C, NEW s \in States(C), NEW c \in C, NEW n \in 1 .. Len(s.orders[c]),
         NEW r, r = Lost(s, c, n)
  PROVE  /\ r \in States(C) /\ r.VB = s.VB /\ r.result = s.result /\ Len(r.orders[c]) > 0
         /\ \A d \in C : d # c => r.orders[d] = s.orders[d]
         /\ Agreed(s) => Agreed(r)
<1>1. PICK os \in Seq(Orders) : os = s.orders[c] /\ n \in 1 .. Len(os)
  BY Parts
<1>2. PICK rest : rest = <<Head(os)>> \o SubSeq(os, n + 1, Len(os))
  OBVIOUS
<1>3. /\ rest \in Seq(Orders) /\ Len(rest) > 0
      /\ \A k : Spares(os, n, k) => SameOrders(os, rest, k)
  BY ONLY os \in Seq(Orders), <1>1, <1>2, OrdersLost
<1>4. PICK L : L = {k \in DOMAIN s.VB.controls : \E i \in 2 .. n : os[i].control = k}
  OBVIOUS
<1>5. PICK more : more = {<<c, s.VB.controls[k].name>> : k \in L}
  OBVIOUS
<1>6. s.orders \in [C -> Seq(Orders)] /\ s.crossed \subseteq C \X (Names \cup {None}) /\ DOMAIN s.pending = C
  <2>1. s.orders \in [C -> Seq(Orders)] /\ DOMAIN s.pending = C
    BY Parts
  <2>2. s.crossed \subseteq C \X (Names \cup {None})
    BY DEF States
  <2>3. QED
    BY <2>1, <2>2
<1>7. PICK f : f = [s.orders EXCEPT ![c] = rest]
  OBVIOUS
<1>8. f \in [C -> Seq(Orders)] /\ f[c] = rest /\ \A d \in C : d # c => f[d] = s.orders[d]
  BY <1>3, <1>6, <1>7
<1>9. PICK cr : cr = s.crossed \cup more
  OBVIOUS
<1>10. cr \subseteq C \X (Names \cup {None})
  <2>1. PICK q \in Seq(Controls) : q = s.VB.controls
    BY Parts DEF Blocks
  <2>4. \A k \in DOMAIN q : q[k] \in Controls
    OBVIOUS
  <2>5. \A d \in Controls : d.name \in Names \cup {None}
    BY DEF Controls
  <2>2. \A k \in L : s.VB.controls[k].name \in Names \cup {None}
    BY <1>4, <2>1, <2>4, <2>5
  <2>3. QED
    BY <1>5, <1>6, <1>9, <2>2
<1>11. r = [s EXCEPT !.orders = f, !.crossed = cr]
  BY <1>1, <1>2, <1>4, <1>5, <1>7, <1>9 DEF Lost
<1>12. /\ r \in States(C) /\ r.VB = s.VB /\ r.result = s.result /\ r.pending = s.pending
       /\ r.orders = f /\ r.crossed = cr
  BY <1>8, <1>10, <1>11 DEF States
<1>13. ASSUME Agreed(s), Distinct(s.VB.controls), NEW d \in C
       PROVE  /\ Knows(shown[d], s.VB, s.pending[d])
              /\ \A k \in DOMAIN s.VB.controls :
                   Agrees(d, shown[d], s.VB, s.pending[d], f[d], cr, k)
  <2>1. /\ Knows(shown[d], s.VB, s.pending[d])
        /\ \A k \in DOMAIN s.VB.controls :
             Agrees(d, shown[d], s.VB, s.pending[d], s.orders[d], s.crossed, k)
    BY <1>6, <1>13 DEF Agreed
  <2>2. ASSUME NEW k \in DOMAIN s.VB.controls
        PROVE  Agrees(d, shown[d], s.VB, s.pending[d], f[d], cr, k)
    <3>1. CASE d # c
      <4>1. f[d] = s.orders[d] /\ \A p : p \in s.crossed => p \in cr
        BY <1>8, <1>9, <3>1
      <4>2. QED
        BY <2>1, <4>1 DEF Agrees
    <3>2. CASE d = c /\ Spares(os, n, k)
      <4>1. f[d] = rest /\ s.orders[d] = os /\ \A p : p \in s.crossed => p \in cr
        BY <1>1, <1>8, <1>9, <3>2
      <4>2. /\ NoOrder(os, k) => NoOrder(rest, k)
            /\ \A v : LastOrder(os, k, v) => LastOrder(rest, k, v)
        BY <1>3, <3>2 DEF SameOrders
      <4>3. QED
        BY <2>1, <4>1, <4>2 DEF Agrees
    <3>3. CASE d = c /\ \E i \in 2 .. n : os[i].control = k
      <4>1. <<d, s.VB.controls[k].name>> \in cr
        BY <1>4, <1>5, <1>9, <3>3
      <4>2. QED
        BY <4>1 DEF Agrees
    <3>4. QED
      BY <3>1, <3>2, <3>3 DEF Spares
  <2>3. QED
    BY <2>1, <2>2
<1>14. Agreed(s) => Agreed(r)
  BY <1>6, <1>12, <1>13 DEF Agreed
<1>15. QED
  BY <1>3, <1>8, <1>12, <1>14

(* What is read from a client has come from it. *)
Readable(s, read, C) == read.client \in C /\ read.size \in 1 .. Len(s.orders[read.client])

LEMMA ObeyedGoes ==
  ASSUME NEW C, NEW s \in States(C), shown \in [C -> Seq(Rows)], Named(s.VB), Agreed(s),
         s.result = "ok", NEW read, Readable(s, read, C), NEW t, t = Obeyed(s, read)
  PROVE  /\ Goes(s, t, C) /\ t.result \in {"ok", "crash"}
         /\ t.result = "ok" => \A d \in C : d # read.client => t.orders[d] = s.orders[d]
<1>7. PICK c \in C : c = read.client
  BY DEF Readable
<1>8. PICK n \in 1 .. Len(s.orders[c]) : n = read.size
  BY <1>7 DEF Readable
<1>1. PICK r : r = Lost(s, c, n)
  OBVIOUS
<1>2. /\ r \in States(C) /\ r.VB = s.VB /\ r.result = "ok" /\ Len(r.orders[c]) > 0
      /\ \A d \in C : d # c => r.orders[d] = s.orders[d]
      /\ Agreed(r)
  BY <1>1, LostGives
<1>3. t = ObeyFirst(r, c)
  BY <1>1, <1>7, <1>8 DEF Obeyed
<1>4. /\ Goes(r, t, C) /\ t.result \in {"ok", "crash"}
      /\ t.result = "ok" => \A d \in C : d # c => t.orders[d] = r.orders[d]
  BY <1>2, <1>3, ObeyGoes
<1>5. Goes(s, t, C)
  BY <1>2, <1>4 DEF Goes
<1>6. QED
  BY <1>2, <1>4, <1>5, <1>7

LEMMA ListTypes ==
  ASSUME NEW b \in Blocks
  PROVE  /\ Len(b.channels) \in Nat /\ DOMAIN b.channels = 1 .. Len(b.channels)
         /\ Len(b.groups) \in Nat /\ DOMAIN b.groups = 1 .. Len(b.groups)
         /\ Len(b.members) \in Nat /\ DOMAIN b.members = 1 .. Len(b.members)
         /\ Len(b.labels) \in Nat /\ DOMAIN b.labels = 1 .. Len(b.labels)
         /\ b.channels \in Seq(Channels) /\ b.groups \in Seq(Names)
         /\ b.members \in Seq(Members) /\ b.labels \in Seq(Marks)
         /\ b.controls \in Seq(Controls) /\ Len(b.controls) \in Nat /\ DOMAIN b.controls = 1 .. Len(b.controls)
<1>1. /\ b.channels \in Seq(Channels) /\ b.groups \in Seq(Names) /\ b.members \in Seq(Members)
      /\ b.labels \in Seq(Marks) /\ b.controls \in Seq(Controls)
  BY DEF Blocks
<1>2. \A T : \A q \in Seq(T) : Len(q) \in Nat /\ DOMAIN q = 1 .. Len(q)
  OBVIOUS
<1>3. QED
  BY <1>1, <1>2

LEMMA GoesOn ==
  ASSUME NEW C, NEW s \in States(C), NEW x, NEW t, Goes(s, x, C), Goes(x, t, C)
  PROVE  Goes(s, t, C)
<1>1. /\ s.VB \in Blocks /\ x \in States(C) /\ t \in States(C) /\ x.VB \in Blocks /\ t.VB \in Blocks
      /\ SameLayout(s.VB, x.VB) /\ SameLayout(x.VB, t.VB) /\ Continues(s.VB, x.VB) /\ Continues(x.VB, t.VB)
  BY Parts DEF Goes
<1>2. DOMAIN x.VB.controls = DOMAIN s.VB.controls
  BY <1>1, LayoutDistinct
<1>3. SameLayout(s.VB, t.VB)
  BY <1>1, <1>2 DEF SameLayout
<1>4. Continues(s.VB, t.VB)
  <2>1. PICK a \in Nat : a = Len(s.VB.channels) /\ DOMAIN s.VB.channels = 1 .. a
    BY <1>1, ListTypes
  <2>2. PICK b \in Nat : b = Len(x.VB.channels) /\ DOMAIN x.VB.channels = 1 .. b
    BY <1>1, ListTypes
  <2>3. PICK c \in Nat : c = Len(t.VB.channels) /\ DOMAIN t.VB.channels = 1 .. c
    BY <1>1, ListTypes
  <2>4. a <= b /\ b <= c
    BY <1>1, <2>1, <2>2, <2>3 DEF Continues
  <2>5. \A h \in 1 .. a : t.VB.channels[h] = s.VB.channels[h]
    <3>1. \A h \in 1 .. a : h \in 1 .. b
      BY <2>4
    <3>2. QED
      BY <1>1, <2>1, <2>2, <3>1 DEF Continues
  <2>6. \A h \in 1 .. c : h \notin 1 .. a => t.VB.channels[h].ranged = FALSE
    BY <1>1, <2>1, <2>2, <2>3 DEF Continues
  <2>7. a <= c
    BY <2>4
  <2>8. QED
    BY <1>1, <2>1, <2>3, <2>5, <2>6, <2>7 DEF Continues
<1>5. Excused(x.VB) => Excused(s.VB)
  BY <1>1, <1>2 DEF Excused, SameLayout, Continues
<1>6. QED
  BY <1>1, <1>3, <1>4, <1>5 DEF Goes

LEMMA LayoutNamed ==
  ASSUME NEW b \in Blocks, NEW d \in Blocks, SameLayout(b, d)
  PROVE  Named(b) <=> Named(d)
BY LayoutDistinct DEF Named, SameLayout

(* The reads of q are made one after the other. *)
LEMMA TurnsGo ==
  ASSUME NEW C, NEW s \in States(C), shown \in [C -> Seq(Rows)], C # {} => Named(s.VB), Agreed(s),
         s.result = "ok", NEW n \in Nat, NEW q, Len(q) = n,
         \A i, j \in 1 .. n : i # j => q[i].client # q[j].client,
         \A i \in 1 .. n : Readable(s, q[i], C), NEW t, t = Folded(Obeyed, s, q)
  PROVE  Goes(s, t, C) /\ t.result \in {"ok", "crash"}
<1> DEFINE To(i) == {x \in States(C) : /\ Goes(s, x, C) /\ x.result \in {"ok", "crash"}
                                       /\ x.result = "ok" => \A j \in i + 1 .. n : Readable(x, q[j], C)}
<1>1. PICK S : S = [i \in 0 .. n |-> To(i)]
  OBVIOUS
<1>2. \A i \in 0 .. n : S[i] = To(i)
  BY <1>1
<1>4. Goes(s, s, C)
  <2>1. Continues(s.VB, s.VB)
    BY Parts, ListsContinue DEF SameLists
  <2>2. QED
    BY <2>1 DEF Goes, SameLayout
<1>5. s \in S[0]
  <2>1. s \in To(0)
    BY <1>4
  <2>2. 0 \in 0 .. n
    OBVIOUS
  <2>3. QED
    BY ONLY <1>2, <2>1, <2>2
<1>6. ASSUME NEW i \in 1 .. n, NEW x \in S[i - 1] PROVE Obeyed(x, q[i]) \in S[i]
  <2>1. i - 1 \in 0 .. n /\ i \in 0 .. n /\ (i - 1) + 1 = i
    OBVIOUS
  <2>2. x \in To(i - 1)
    BY ONLY <1>2, <1>6, <2>1
  <2>3. x \in States(C) /\ Goes(s, x, C) /\ x.result \in {"ok", "crash"}
    BY <2>2
  <2>4. CASE x.result # "ok"
    <3>1. Obeyed(x, q[i]) = x
      BY <2>4 DEF Obeyed
    <3>2. x \in To(i)
      BY <2>3, <2>4
    <3>3. QED
      BY ONLY <1>2, <2>1, <3>1, <3>2
  <2>5. CASE x.result = "ok"
    <3>1. PICK y : y = Obeyed(x, q[i])
      OBVIOUS
    <3>2. \A j \in i .. n : Readable(x, q[j], C)
      BY <2>1, <2>2, <2>5
    <3>3. Readable(x, q[i], C)
      BY <3>2
    <3>4. Named(x.VB) /\ Agreed(x)
      <4>3. C # {}
        BY <3>3 DEF Readable
      <4>1. Agreed(x) /\ Named(s.VB) /\ SameLayout(s.VB, x.VB)
        BY <2>3, <2>5, <4>3 DEF Goes
      <4>2. QED
        BY <2>3, <4>1, LayoutNamed, Parts
    <3>5. /\ Goes(x, y, C) /\ y.result \in {"ok", "crash"}
          /\ y.result = "ok" => \A d \in C : d # q[i].client => y.orders[d] = x.orders[d]
      BY <2>3, <2>5, <3>1, <3>3, <3>4, ObeyedGoes
    <3>6. Goes(s, y, C) /\ y \in States(C)
      <4>1. Goes(s, y, C)
        BY ONLY s \in States(C), <2>3, <3>5, GoesOn
      <4>2. QED
        BY <4>1 DEF Goes
    <3>7. ASSUME y.result = "ok", NEW j \in i + 1 .. n PROVE Readable(y, q[j], C)
      <4>1. j \in i .. n /\ j \in 1 .. n /\ j # i
        OBVIOUS
      <4>2. q[j].client # q[i].client
        BY <4>1
      <4>3. Readable(x, q[j], C)
        BY <3>2, <4>1
      <4>4. y.orders[q[j].client] = x.orders[q[j].client]
        BY <3>5, <3>7, <4>2, <4>3 DEF Readable
      <4>5. QED
        BY <4>3, <4>4 DEF Readable
    <3>8. y \in To(i)
      BY <3>5, <3>6, <3>7
    <3>9. QED
      BY ONLY <1>2, <2>1, <3>1, <3>8
  <2>6. QED
    BY <2>4, <2>5
<1>7. t \in S[n]
  BY ONLY n \in Nat, n = Len(q), t = Folded(Obeyed, s, q), <1>5, <1>6, ObeyFold
<1>8. t \in To(n)
  <2>1. n \in 0 .. n
    OBVIOUS
  <2>2. QED
    BY ONLY <1>2, <1>7, <2>1
<1>9. QED
  BY <1>8

LEMMA CallGoes ==
  ASSUME NEW C, NEW s \in States(C), shown \in [C -> Seq(Rows)], C # {} => Named(s.VB), Agreed(s),
         NEW t \in States(C), SameLayout(s.VB, t.VB), Continues(s.VB, t.VB), t.result # "crash",
         Unique(s.VB) => Call(s, t, C), NEW u, u = Then(s, t)
  PROVE  Goes(s, u, C) /\ u.result = t.result
<1>1. u \in States(C) /\ u.VB = t.VB /\ u.result = t.result /\ u.pending = t.pending
  BY ThenType
<1>2. Agreed(u)
  <2>1. CASE C = {}
    BY <1>1, <2>1, Parts DEF Agreed
  <2>2. CASE C # {} /\ ~Distinct(u.VB.controls)
    BY <2>2 DEF Agreed
  <2>3. CASE C # {} /\ Distinct(u.VB.controls)
    <3>1. Unique(s.VB) /\ Named(s.VB)
      <4>1. Distinct(s.VB.controls)
        BY <1>1, <2>3, LayoutDistinct, Parts
      <4>2. QED
        BY <2>3, <4>1, DistinctUnique, Parts DEF Named
    <3>2. QED
      BY <3>1, CallAgreed
  <2>4. QED
    BY <2>1, <2>2, <2>3
<1>3. QED
  BY <1>1, <1>2 DEF Goes

LEMMA CrashGoes ==
  ASSUME NEW C, NEW s \in States(C), NEW t \in States(C), SameLayout(s.VB, t.VB), Continues(s.VB, t.VB),
         t.result = "crash", Excused(s.VB), NEW u, u = Then(s, t)
  PROVE  Goes(s, u, C) /\ u.result = "crash"
<1>1. u \in States(C) /\ u.VB = t.VB /\ u.result = t.result
  BY ThenType
<1>2. QED
  BY <1>1 DEF Goes

LEMMA Smaller ==
  ASSUME NEW a \in Nat, NEW b \in Nat
  PROVE  Min({a, b}) \in Nat /\ Min({a, b}) <= a
<1>1. \E x \in {a, b} : \A y \in {a, b} : x <= y
  <2>1. CASE a <= b
    BY <2>1
  <2>2. CASE b <= a
    BY <2>2
  <2>3. QED
    BY <2>1, <2>2
<1>2. Min({a, b}) \in {a, b} /\ \A y \in {a, b} : Min({a, b}) <= y
  BY <1>1, Zenon DEF Min
<1>3. QED
  BY <1>2

LEMMA PollGoes ==
  ASSUME NEW C, NEW s \in States(C), shown \in [C -> Seq(Rows)], C # {} => Named(s.VB), Agreed(s),
         s.result # "crash", NEW u, u = Then(s, PollControls(s))
  PROVE  Goes(s, u, C) /\ u.result = s.result
<1> DEFINE To == {x \in States(C) : /\ x.result = s.result /\ SameLayout(s.VB, x.VB) /\ SameLists(s.VB, x.VB)
                                    /\ Unique(s.VB) => Call(s, x, C)}
<1>1. PICK n \in Nat : n = Min({Len(s.VB.controls), s.VB.limits.controls}) /\ n <= Len(s.VB.controls)
  <2>1. s.VB.limits.controls \in Nat
    <3>1. s.VB.limits \in Room
      BY Parts DEF Blocks
    <3>2. QED
      BY <3>1 DEF Room
  <2>2. Len(s.VB.controls) \in Nat
    BY Parts
  <2>3. QED
    BY <2>1, <2>2, Smaller
<1>2. PICK q : q = [k \in 1 .. n |-> k]
  OBVIOUS
<1>3. Len(q) = n
  BY <1>2
<1>4. PICK S : S = [i \in 0 .. n |-> To]
  OBVIOUS
<1>5. \A i \in 0 .. n : S[i] = To
  BY <1>4
<1>6. s \in S[0]
  <2>1. Call(s, s, C)
    BY CallNothing DEF Quiet
  <2>2. s \in To
    BY <2>1 DEF SameLayout, SameLists
  <2>3. 0 \in 0 .. n
    OBVIOUS
  <2>4. QED
    BY ONLY <1>5, <2>2, <2>3
<1>7. ASSUME NEW i \in 1 .. n, NEW x \in S[i - 1] PROVE PollControl(x, q[i]) \in S[i]
  <2>1. i - 1 \in 0 .. n /\ i \in 0 .. n
    OBVIOUS
  <2>2. x \in To
    BY ONLY <1>5, <1>7, <2>1
  <2>3. /\ x \in States(C) /\ x.result = s.result /\ SameLayout(s.VB, x.VB) /\ SameLists(s.VB, x.VB)
        /\ Unique(s.VB) => Call(s, x, C)
    BY <2>2
  <2>4. PICK y : y = PollControl(x, q[i])
    OBVIOUS
  <2>5. i \in DOMAIN x.VB.controls /\ q[i] = i
    <3>1. i \in DOMAIN s.VB.controls
      BY <1>1, Parts
    <3>2. QED
      BY <1>2, <2>3, <3>1, LayoutDistinct, Parts
  <2>6. y \in States(C) /\ (y = x \/ \E value \in Values : Gives(x, y, i, value, C, C))
    BY <2>3, <2>4, <2>5, PollGives
  <2>7. CASE y = x
    BY ONLY <1>5, <2>1, <2>2, <2>4, <2>7
  <2>8. CASE \E value \in Values : Gives(x, y, i, value, C, C)
    <3>1. PICK value \in Values : Gives(x, y, i, value, C, C)
      BY <2>8
    <3>2. SameLayout(x.VB, y.VB) /\ SameLists(x.VB, y.VB)
      BY ONLY value \in Values, <2>3, <3>1, GivesLayout
    <3>3. SameLayout(s.VB, y.VB)
      <4>1. DOMAIN x.VB.controls = DOMAIN s.VB.controls
        BY <2>3, LayoutDistinct, Parts
      <4>2. QED
        BY <2>3, <3>2, <4>1 DEF SameLayout
    <3>4. SameLists(s.VB, y.VB)
      BY <2>3, <3>2 DEF SameLists
    <3>5. ASSUME Unique(s.VB) PROVE Call(s, y, C)
      <4>1. Unique(x.VB)
        BY <2>3, <3>5, LayoutDistinct, Parts
      <4>2. Call(x, y, C)
        BY ONLY value \in Values, <2>3, <3>1, <4>1, GivesCall
      <4>3. Call(s, x, C)
        BY <2>3, <3>5
      <4>4. QED
        BY <4>2, <4>3, CallCall
    <3>6. y.result = s.result
      BY <2>3, <3>1 DEF Gives
    <3>7. y \in To
      BY <2>6, <3>3, <3>4, <3>5, <3>6
    <3>8. QED
      BY ONLY <1>5, <2>1, <2>4, <3>7
  <2>9. QED
    BY <2>6, <2>7, <2>8
<1>8. PICK t : t = Folded(PollControl, s, q)
  OBVIOUS
<1>9. t \in S[n]
  BY ONLY n \in Nat, <1>3, <1>6, <1>7, <1>8, PollFold
<1>10. t \in To
  <2>1. n \in 0 .. n
    OBVIOUS
  <2>2. QED
    BY ONLY <1>5, <1>9, <2>1
<1>11. PollControls(s) = t
  BY <1>1, <1>2, <1>8 DEF PollControls
<1>12. Continues(s.VB, t.VB)
  BY <1>10, Parts, ListsContinue
<1>13. QED
  BY <1>10, <1>11, <1>12, CallGoes

LEMMA FrameGoes ==
  ASSUME NEW C, NEW s \in States(C), shown \in [C -> Seq(Rows)], C # {} => Named(s.VB), Goes(s, s, C),
         NEW u, u = Frame(s)
  PROVE  Goes(s, u, C)
<1>1. CASE s.result # "ok"
  BY <1>1 DEF Frame
<1>2. CASE s.result = "ok"
  BY <1>2, PollGoes DEF Frame, Goes
<1>3. QED
  BY <1>1, <1>2

(* Setting a slider by name. *)
LEMMA SetGoes ==
  ASSUME NEW C, NEW s \in States(C), shown \in [C -> Seq(Rows)], C # {} => Named(s.VB), Agreed(s),
         s.result = "ok", s.VB.active = TRUE, NEW name, NEW value \in Values,
         NEW u, u = Then(s, SetNamedValue(s, name, value))
  PROVE  Goes(s, u, C)
<1>1. PICK t : t = SetNamedValue(s, name, value)
  OBVIOUS
<1>2. PICK k : k = FindControl(s.VB, name)
  OBVIOUS
<1>3. /\ t \in States(C)
      /\ \/ Quiet(s, t) /\ t.result = s.result
         \/ Quiet(s, t) /\ s.result = "ok" /\ t.result = "no" /\ k = 0
         \/ Quiet(s, t) /\ t.result = "crash" /\ k \in DOMAIN s.VB.controls /\ s.VB.controls[k].name = None
         \/ Gives(s, t, k, value, C, C)
  BY <1>1, <1>2, SetNamedValueGives
<1>4. CASE Quiet(s, t) /\ t.result # "crash"
  <2>1. SameLayout(s.VB, t.VB) /\ Continues(s.VB, t.VB)
    BY <1>4, Parts, ListsContinue DEF Quiet, SameLayout, SameLists
  <2>2. Call(s, t, C)
    BY <1>3, <1>4, CallNothing
  <2>3. QED
    BY <1>1, <1>3, <1>4, <2>1, <2>2, CallGoes
<1>5. CASE Quiet(s, t) /\ t.result = "crash" /\ k \in DOMAIN s.VB.controls /\ s.VB.controls[k].name = None
  <2>1. SameLayout(s.VB, t.VB) /\ Continues(s.VB, t.VB)
    BY <1>5, Parts, ListsContinue DEF Quiet, SameLayout, SameLists
  <2>2. Excused(s.VB)
    BY <1>5 DEF Excused
  <2>3. QED
    BY <1>1, <1>3, <1>5, <2>1, <2>2, CrashGoes
<1>6. CASE Gives(s, t, k, value, C, C)
  <2>1. SameLayout(s.VB, t.VB) /\ SameLists(s.VB, t.VB)
    BY <1>6, GivesLayout
  <2>2. Continues(s.VB, t.VB)
    BY <1>3, <2>1, Parts, ListsContinue
  <2>3. Unique(s.VB) => Call(s, t, C)
    BY <1>6, GivesCall
  <2>4. t.result # "crash"
    BY <1>6 DEF Gives
  <2>5. QED
    BY <1>1, <1>3, <2>1, <2>2, <2>3, <2>4, CallGoes
<1>7. QED
  BY <1>3, <1>4, <1>5, <1>6

(* Sending a value for a channel by its name. *)
LEMMA SendGoes ==
  ASSUME NEW C, NEW s \in States(C), shown \in [C -> Seq(Rows)], C # {} => Named(s.VB), Agreed(s),
         s.result = "ok", NEW name \in Names, NEW u, u = Then(s, SendNamed(s, name))
  PROVE  Goes(s, u, C)
<1>1. PICK t : t = SendNamed(s, name)
  OBVIOUS
<1>2. /\ t \in States(C)
      /\ \/ t = s
         \/ t.result = "crash" /\ ~Named(s.VB) /\ Extends(s.VB, t.VB)
         \/ Named(s.VB) /\ Extends(s.VB, t.VB) /\ t.result \in {s.result, "no"}
  <2>1. Sends(s, t, C)
    BY <1>1, SendNamedGives
  <2>2. QED
    BY ONLY <2>1 DEF Sends
<1>3. SameLayout(s.VB, t.VB) /\ Continues(s.VB, t.VB)
  <2>1. CASE t = s
    BY <2>1, Parts, ListsContinue DEF SameLayout, SameLists
  <2>2. CASE Extends(s.VB, t.VB)
    BY <2>2 DEF Extends, SameLayout, Continues
  <2>3. QED
    BY <1>2, <2>1, <2>2
<1>4. CASE t.result = "crash"
  <2>1. Excused(s.VB)
    BY <1>2, <1>4 DEF Excused, Named
  <2>2. QED
    BY <1>1, <1>2, <1>3, <1>4, <2>1, CrashGoes
<1>5. CASE t.result # "crash"
  <2>1. Call(s, t, C)
    BY <1>1, <1>5, SendNamedCall
  <2>2. QED
    BY <1>1, <1>2, <1>3, <1>5, <2>1, CallGoes
<1>6. QED
  BY <1>4, <1>5

-----------------------------------------------------------------------------
(* The invariant from which everything follows.                            *)

(* The handles of members and labels are those of channels.                *)
Placed(b) ==
  /\ \A m \in DOMAIN b.members : b.members[m].channel < Len(b.channels)
  /\ \A l \in DOMAIN b.labels : b.labels[l].handle < Len(b.channels)

Facing == Active => AsTold(Facts(VB)) /\ Placed(VB)

IInv == TypeOK /\ Listed /\ Backed /\ InStep /\ Facing /\ RefusedWithReason

LEMMA RunningType ==
  ASSUME TypeOK, Active, NEW s, s = Running
  PROVE  /\ s \in States(Everyone) /\ s.VB = VB /\ s.variable = variable /\ s.pending = pending
         /\ s.result = "ok" /\ s.orders = orders /\ s.crossed = crossed
<1>1. VB \in Blocks
  BY PointerAssumption DEF TypeOK, Active
<1>2. VB.file \in Files
  BY <1>1 DEF Blocks
<1>3. files[VB.file] \in Seq(Entries) /\ chosen[VB.file] \in Picks
  BY <1>2 DEF TypeOK
<1>4. s = [VB |-> VB, variable |-> variable, pending |-> pending, result |-> "ok",
           orders |-> orders, crossed |-> crossed, file |-> files[VB.file], chosen |-> chosen[VB.file]]
  BY DEF Running, State
<1>5. QED
  BY <1>1, <1>3, <1>4 DEF States, TypeOK

(* What the block continues to say of what was registered. *)
LEMMA FactsContinue ==
  ASSUME TypeOK, TypeOK', Active, Active', Facing, Continues(VB, VB'), SameLayout(VB, VB'), told' = told
  PROVE  AsTold(Facts(VB))' /\ Placed(VB')
<1>1. VB \in Blocks /\ VB' \in Blocks
  BY PointerAssumption DEF TypeOK, Active
<1>2. PICK a \in Nat : a = Len(VB.channels) /\ DOMAIN VB.channels = 1 .. a
  BY <1>1, ListTypes
<1>3. PICK b \in Nat : b = Len(VB'.channels) /\ DOMAIN VB'.channels = 1 .. b
  BY <1>1, ListTypes
<1>4. /\ a <= b /\ \A h \in 1 .. a : VB'.channels[h] = VB.channels[h]
      /\ \A h \in 1 .. b : h \notin 1 .. a => VB'.channels[h].ranged = FALSE
      /\ VB'.groups = VB.groups /\ VB'.members = VB.members /\ VB'.labels = VB.labels /\ VB'.file = VB.file
  BY <1>2, <1>3 DEF Continues
<1>5. /\ \A m \in DOMAIN VB.members : VB.members[m].channel + 1 \in 1 .. a
      /\ \A l \in DOMAIN VB.labels : VB.labels[l].handle + 1 \in 1 .. a
  <2>1. \A m \in DOMAIN VB.members : VB.members[m] \in Members
    BY <1>1, ListTypes
  <2>2. \A l \in DOMAIN VB.labels : VB.labels[l] \in Marks
    BY <1>1, ListTypes
  <2>3. \A m \in DOMAIN VB.members : VB.members[m].channel \in Nat
    BY <2>1 DEF Members
  <2>4. \A l \in DOMAIN VB.labels : VB.labels[l].handle \in Nat
    BY <2>2 DEF Marks
  <2>5. Placed(VB)
    BY DEF Facing
  <2>6. QED
    BY <1>2, <2>3, <2>4, <2>5 DEF Placed
<1>6. Placed(VB')
  <2>1. Placed(VB)
    BY DEF Facing
  <2>2. \A m \in DOMAIN VB.members : VB.members[m].channel < b
    <3>1. \A m \in DOMAIN VB.members : VB.members[m].channel \in Nat /\ VB.members[m].channel < a
      <4>1. \A m \in DOMAIN VB.members : VB.members[m] \in Members
        BY <1>1, ListTypes
      <4>2. QED
        BY <1>2, <2>1, <4>1 DEF Placed, Members
    <3>2. QED
      BY <1>4, <3>1
  <2>3. \A l \in DOMAIN VB.labels : VB.labels[l].handle < b
    <3>1. \A l \in DOMAIN VB.labels : VB.labels[l].handle \in Nat /\ VB.labels[l].handle < a
      <4>1. \A l \in DOMAIN VB.labels : VB.labels[l] \in Marks
        BY <1>1, ListTypes
      <4>2. QED
        BY <1>2, <2>1, <4>1 DEF Placed, Marks
    <3>2. QED
      BY <1>4, <3>1
  <2>4. QED
    BY <1>3, <1>4, <2>2, <2>3 DEF Placed
<1>7. 1 .. a \subseteq 1 .. b
  BY <1>4
<1>11. /\ DOMAIN VB'.controls = DOMAIN VB.controls
       /\ \A k \in DOMAIN VB.controls :
            VB'.controls[k].name = VB.controls[k].name /\ Plain(VB'.controls[k]) = Plain(VB.controls[k])
  BY <1>1, LayoutDistinct DEF SameLayout, Plain
<1>8. ASSUME NEW f \in Facts(VB) PROVE f \in Facts(VB')
  <2>1. ASSUME NEW h \in 1 .. a, f = <<"channel", VB.channels[h].name, h - 1>> PROVE f \in Facts(VB')
    BY <1>3, <1>4, <1>7, <2>1 DEF Facts
  <2>2. ASSUME NEW g \in DOMAIN VB.groups, f = <<"group", VB.groups[g], g - 1>> PROVE f \in Facts(VB')
    BY <1>4, <2>2 DEF Facts
  <2>3. ASSUME NEW m \in ToSet(VB.members), f = <<"member", VB.groups[m.group + 1], VB.channels[m.channel + 1].name>>
        PROVE  f \in Facts(VB')
    <3>1. VB'.channels[m.channel + 1].name = VB.channels[m.channel + 1].name
      BY <1>4, <1>5 DEF ToSet
    <3>2. QED
      BY <1>4, <2>3, <3>1 DEF Facts
  <2>4. ASSUME NEW l \in ToSet(VB.labels), f = <<"label", VB.channels[l.handle + 1].name, l.name>> PROVE f \in Facts(VB')
    <3>1. VB'.channels[l.handle + 1].name = VB.channels[l.handle + 1].name
      BY <1>4, <1>5 DEF ToSet
    <3>2. QED
      BY <1>4, <2>4, <3>1 DEF Facts
  <2>5. ASSUME NEW c \in {d \in ToSet(VB.channels) : d.ranged}, f = <<"range", c.name>> PROVE f \in Facts(VB')
    <3>1. c \in {d \in ToSet(VB'.channels) : d.ranged}
      BY <1>2, <1>3, <1>4, <1>7 DEF ToSet
    <3>2. QED
      BY <2>5, <3>1 DEF Facts
  <2>6. CASE f = <<"file", VB.file>>
    BY <1>4, <2>6 DEF Facts
  <2>7. ASSUME NEW k \in DOMAIN VB.controls, VB.controls[k].name # None, f = <<"control", Plain(VB.controls[k]), k>>
        PROVE  f \in Facts(VB')
    BY <1>11, <2>7 DEF Facts
  <2>8. QED
    BY <1>2, <2>1, <2>2, <2>3, <2>4, <2>5, <2>6, <2>7 DEF Facts
<1>9. ASSUME NEW f \in Facts(VB'), f[1] \in {"member", "label", "range", "control"} PROVE f \in Facts(VB)
  <2>1. ASSUME NEW m \in ToSet(VB.members), f = <<"member", VB.groups[m.group + 1], VB'.channels[m.channel + 1].name>>
        PROVE  f \in Facts(VB)
    <3>1. VB'.channels[m.channel + 1].name = VB.channels[m.channel + 1].name
      BY <1>4, <1>5 DEF ToSet
    <3>2. QED
      BY <1>4, <2>1, <3>1 DEF Facts
  <2>2. ASSUME NEW l \in ToSet(VB.labels), f = <<"label", VB'.channels[l.handle + 1].name, l.name>> PROVE f \in Facts(VB)
    <3>1. VB'.channels[l.handle + 1].name = VB.channels[l.handle + 1].name
      BY <1>4, <1>5 DEF ToSet
    <3>2. QED
      BY <1>4, <2>2, <3>1 DEF Facts
  <2>3. ASSUME NEW c \in {d \in ToSet(VB'.channels) : d.ranged}, f = <<"range", c.name>> PROVE f \in Facts(VB)
    <3>1. PICK h \in 1 .. b : c = VB'.channels[h] /\ c.ranged
      BY <1>3, <2>3 DEF ToSet
    <3>2. h \in 1 .. a
      BY <1>4, <3>1
    <3>3. c \in {d \in ToSet(VB.channels) : d.ranged}
      BY <1>2, <1>4, <3>1, <3>2 DEF ToSet
    <3>4. QED
      BY <2>3, <3>3 DEF Facts
  <2>4. ASSUME NEW k \in DOMAIN VB'.controls, VB'.controls[k].name # None, f = <<"control", Plain(VB'.controls[k]), k>>
        PROVE  f \in Facts(VB)
    BY <1>11, <2>4 DEF Facts
  <2>5. QED
    BY <1>4, <1>9, <2>1, <2>2, <2>3, <2>4 DEF Facts
<1>10. QED
  BY <1>6, <1>8, <1>9 DEF Facing, AsTold

(* A call of the running server keeps the invariant. *)
LEMMA BecomesKeeps ==
  ASSUME IInv, Active, NEW s, Goes(Running, s, Everyone), Becomes(s), shown' = shown
  PROVE  IInv'
<1>1. PICK r : r = Running
  OBVIOUS
<1>2. /\ r \in States(Everyone) /\ r.VB = VB /\ r.variable = variable /\ r.pending = pending
      /\ r.result = "ok" /\ r.orders = orders /\ r.crossed = crossed
  BY <1>1, RunningType DEF IInv
<1>3. /\ s \in States(Everyone) /\ SameLayout(VB, s.VB) /\ Continues(VB, s.VB)
      /\ s.result = "crash" => Excused(VB)
      /\ s.result # "crash" => Agreed(s)
  BY <1>1, <1>2 DEF Goes
<1>4. /\ VB' = s.VB /\ variable' = s.variable /\ pending' = s.pending /\ crossed' = s.crossed /\ orders' = s.orders
      /\ outcome' = (IF s.result = "crash" THEN "crash" ELSE outcome)
      /\ files' = [files EXCEPT ![s.VB.file] = s.file] /\ chosen' = [chosen EXCEPT ![s.VB.file] = s.chosen]
      /\ util' = util /\ told' = told
  BY DEF Becomes
<1>5. s.VB \in Blocks /\ s.pending \in [Everyone -> Seq(Messages)] /\ s.orders \in [Everyone -> Seq(Orders)]
      /\ DOMAIN s.pending = Everyone /\ VB \in Blocks /\ VB # None
  BY <1>2, <1>3, Parts DEF Active
<1>6. Everyone' = Everyone
  BY <1>4, <1>5 DEF Everyone
<1>7. VB' \in Blocks /\ VB' # None /\ VB'.active = TRUE /\ VB.active = TRUE
  <2>1. VB.active = TRUE
    <3>1. VB.active \in BOOLEAN
      BY <1>5 DEF Blocks
    <3>2. QED
      BY <3>1 DEF Active
  <2>2. QED
    BY <1>3, <1>4, <1>5, <2>1, PointerAssumption DEF Continues
<1>8. outcome \in {"none", "ok", "no", "busy", "crash"} /\ outcome # "crash"
  BY DEF IInv, TypeOK, Active
<1>9. Active' <=> s.result # "crash"
  BY <1>4, <1>7, <1>8 DEF Active
<1>10. TypeOK'
  <2>1. outcome' # "crash" => Active'
    BY <1>4, <1>9
  <2>2. Idle' => Everyone' = {}
    BY <2>1 DEF Idle
  <2>3. s.variable \in [Addresses -> Values] /\ s.crossed \in SUBSET (Everyone \X (Names \cup {None}))
        /\ s.file \in Seq(Entries) /\ s.chosen \in Picks
    BY <1>3 DEF States
  <2>4. files' \in [Files -> Seq(Entries)] /\ chosen' \in [Files -> Picks]
    BY <1>4, <2>3 DEF IInv, TypeOK
  <2>5. outcome' \in {"none", "ok", "no", "busy", "crash"}
    BY <1>4, <1>8
  <2>6. shown' \in [Everyone -> Seq(Rows)] /\ util' \in Lists /\ IsFiniteSet(Everyone)
    BY <1>4 DEF IInv, TypeOK
  <2>7. QED
    BY <1>4, <1>5, <1>6, <1>7, <2>2, <2>3, <2>4, <2>5, <2>6 DEF TypeOK
<1>11. Listed'
  <2>1. Listed /\ util' = util /\ told' = told
    BY <1>4 DEF IInv
  <2>2. QED
    BY ONLY <2>1 DEF Listed, AsTold
<1>12. DOMAIN VB'.controls = DOMAIN VB.controls
  BY <1>3, <1>4, <1>5, LayoutDistinct
<1>13. Backed'
  <2>1. VB.command = util.command /\ \A k \in DOMAIN VB.controls :
           /\ VB.controls[k].name = None => \E c \in ToSet(util.controls) : FloatCallback(c)
           /\ VB.controls[k].drive = "command" => \E c \in ToSet(util.controls) : Commanded(c)
    BY DEF IInv, Backed
  <2>2. VB'.command = VB.command /\ \A k \in DOMAIN VB.controls :
          VB'.controls[k].name = VB.controls[k].name /\ VB'.controls[k].drive = VB.controls[k].drive
    BY <1>3, <1>4 DEF Continues, SameLayout
  <2>3. QED
    BY <1>4, <1>12, <2>1, <2>2 DEF Backed
<1>14. ASSUME Active' PROVE Agreed(State)' /\ (Everyone' # {} => Named(VB'))
  <2>1. Agreed(s)
    BY <1>3, <1>9, <1>14
  <2>2. Agreed(State)'
    BY <1>4, <2>1 DEF Agreed, State, Knows, Agrees
  <2>3. Everyone # {} => Named(VB)
    BY DEF IInv, InStep
  <2>4. Named(VB) => Named(VB')
    BY <1>3, <1>4, <1>12 DEF SameLayout, Named
  <2>5. QED
    BY <1>6, <2>2, <2>3, <2>4
<1>15. InStep'
  BY <1>14 DEF InStep
<1>16. Facing'
  <2>1. ASSUME Active' PROVE AsTold(Facts(VB))' /\ Placed(VB')
    BY <1>3, <1>4, <1>10, <2>1, FactsContinue DEF IInv
  <2>2. QED
    BY <2>1 DEF Facing
<1>17. RefusedWithReason'
  <2>1. ASSUME Excused(VB)
        PROVE  \E c \in ToSet(util.controls) :
                 FloatCallback(c) \/ (Commanded(c) /\ (c.name \in Unlexable \/ ~util.command))
    <3>1. PICK k \in DOMAIN VB.controls : (VB.controls[k].drive = "command" /\ VB.command = FALSE)
                                           \/ VB.controls[k].name = None
      BY <2>1 DEF Excused
    <3>2. QED
      BY <3>1 DEF IInv, Backed
  <2>2. CASE s.result = "crash"
    <3>1. outcome' = "crash"
      BY <1>4, <2>2
    <3>2. QED
      BY <1>3, <1>4, <2>1, <2>2, <3>1 DEF RefusedWithReason
  <2>3. CASE s.result # "crash"
    <3>1. outcome' = outcome
      BY <1>4, <2>3
    <3>2. QED
      BY <1>4, <3>1 DEF IInv, RefusedWithReason
  <2>4. QED
    BY <2>2, <2>3
<1>18. QED
  BY <1>10, <1>11, <1>13, <1>15, <1>16, <1>17 DEF IInv

LEMMA RunningAgreed ==
  ASSUME IInv, Active, NEW s, s = Running
  PROVE  /\ s \in States(Everyone) /\ s.VB = VB /\ s.result = "ok" /\ s.orders = orders /\ Agreed(s)
         /\ shown \in [Everyone -> Seq(Rows)] /\ (Everyone # {} => Named(s.VB))
<1>1. /\ s \in States(Everyone) /\ s.VB = VB /\ s.pending = pending /\ s.result = "ok"
      /\ s.orders = orders /\ s.crossed = crossed
  BY RunningType DEF IInv
<1>2. shown \in [Everyone -> Seq(Rows)] /\ (Everyone # {} => Named(s.VB))
  BY <1>1 DEF IInv, TypeOK, InStep, Named
<1>3. Agreed(State)
  BY DEF IInv, InStep
<1>4. Agreed(s)
  BY <1>1, <1>3 DEF Agreed, State
<1>5. QED
  BY <1>1, <1>2, <1>4

LEMMA UpdateKeeps == ASSUME IInv, Update PROVE IInv'
<1>1. Active /\ shown' = shown
  BY DEF Update
<1>2. PICK cs \in SUBSET {c \in DOMAIN orders : orders[c] # << >>} :
        \E turns \in SetToSeqs(cs), size \in [cs -> 1 .. MaxChanges] :
          /\ \A c \in cs : size[c] <= Len(orders[c])
          /\ Becomes(Frame(Folded(Obeyed, Running,
               [i \in DOMAIN turns |-> [client |-> turns[i], size |-> size[turns[i]]]])))
  BY DEF Update
<1>18. PICK turns \in SetToSeqs(cs), size \in [cs -> 1 .. MaxChanges] :
         /\ \A c \in cs : size[c] <= Len(orders[c])
         /\ Becomes(Frame(Folded(Obeyed, Running,
              [i \in DOMAIN turns |-> [client |-> turns[i], size |-> size[turns[i]]]])))
  BY <1>2
<1>19. PICK reads : reads = [i \in DOMAIN turns |-> [client |-> turns[i], size |-> size[turns[i]]]]
  OBVIOUS
<1>3. PICK C : C = Everyone
  OBVIOUS
<1>4. PICK s : s = Running
  OBVIOUS
<1>5. /\ s \in States(C) /\ s.VB = VB /\ s.result = "ok" /\ s.orders = orders
  BY <1>1, <1>3, <1>4, RunningAgreed
<1>6. shown \in [C -> Seq(Rows)] /\ (C # {} => Named(s.VB))
  BY <1>1, <1>3, <1>4, RunningAgreed
<1>7. Agreed(s)
  BY <1>1, <1>4, RunningAgreed
<1>8. cs \subseteq C /\ IsFiniteSet(cs) /\ \A c \in cs : Len(s.orders[c]) > 0
  <2>1. orders \in [C -> Seq(Orders)] /\ IsFiniteSet(C)
    BY <1>3 DEF IInv, TypeOK
  <2>2. cs \subseteq C
    BY <1>2, <2>1
  <2>3. IsFiniteSet(cs)
    BY <2>1, <2>2, FS_Subset
  <2>4. \A q \in Seq(Orders) : q # << >> => Len(q) > 0
    OBVIOUS
  <2>5. \A c \in cs : orders[c] \in Seq(Orders) /\ orders[c] # << >>
    BY <1>2, <2>1
  <2>6. QED
    BY <1>5, <2>2, <2>3, <2>4, <2>5
<1>9. PICK n \in Nat : n = Cardinality(cs)
  BY <1>8, FS_CardinalityType
<1>10. turns \in [1 .. n -> cs] /\ \A i, j \in 1 .. n : i # j => turns[i] # turns[j]
  BY <1>18, <1>9 DEF SetToSeqs
<1>20. \A c \in cs : c \in C /\ size[c] \in Nat /\ size[c] \in 1 .. Len(s.orders[c])
  <2>1. MaxChanges \in Nat /\ orders \in [C -> Seq(Orders)]
    BY <1>3, UtilAssumption DEF IInv, TypeOK
  <2>2. ASSUME NEW c \in cs PROVE c \in C /\ size[c] \in Nat /\ size[c] \in 1 .. Len(s.orders[c])
    <3>1. PICK os \in Seq(Orders) : os = orders[c]
      BY <1>8, <2>1
    <3>2. Len(os) \in Nat /\ size[c] \in 1 .. MaxChanges /\ size[c] <= Len(os)
      BY <1>18, <3>1
    <3>3. QED
      BY <1>5, <1>8, <2>1, <3>1, <3>2
  <2>3. QED
    BY <2>2
<1>21. \A i \in 1 .. n : turns[i] \in cs /\ reads[i].client = turns[i] /\ reads[i].size = size[turns[i]]
  BY <1>10, <1>19
<1>22. Len(reads) = n
  BY <1>10, <1>19
<1>23. \A i, j \in 1 .. n : i # j => reads[i].client # reads[j].client
  BY <1>10, <1>21
<1>11. \A i \in 1 .. n : Readable(s, reads[i], C)
  BY <1>20, <1>21 DEF Readable
<1>12. PICK t : t = Folded(Obeyed, s, reads)
  OBVIOUS
<1>13. Goes(s, t, C) /\ t.result \in {"ok", "crash"}
  BY <1>5, <1>6, <1>7, <1>11, <1>12, <1>22, <1>23, TurnsGo
<1>14. PICK u : u = Frame(t)
  OBVIOUS
<1>15. Goes(s, u, C)
  <2>1. t \in States(C) /\ SameLayout(s.VB, t.VB)
    BY <1>13 DEF Goes
  <2>2. C # {} => Named(t.VB)
    BY <1>5, <1>6, <2>1, LayoutNamed, Parts
  <2>3. CASE t.result = "ok"
    <3>1. Goes(t, t, C)
      <4>1. Continues(t.VB, t.VB)
        BY <2>1, Parts, ListsContinue DEF SameLists
      <4>2. QED
        BY <1>13, <2>1, <2>3, <4>1 DEF Goes, SameLayout
    <3>2. Goes(t, u, C)
      BY <1>6, <1>14, <2>1, <2>2, <3>1, FrameGoes
    <3>3. QED
      BY <1>5, <1>13, <3>2, GoesOn
  <2>4. CASE t.result # "ok"
    <3>1. u = t
      BY <1>14, <2>4 DEF Frame
    <3>2. QED
      BY <1>13, <3>1
  <2>5. QED
    BY <2>3, <2>4
<1>16. Becomes(u)
  BY <1>4, <1>12, <1>14, <1>18, <1>19
<1>17. QED
  BY <1>1, <1>3, <1>4, <1>15, <1>16, BecomesKeeps

LEMMA SetKeeps ==
  ASSUME IInv, NEW name, NEW value \in Values, Set(name, value)
  PROVE  IInv'
<1>1. Active /\ shown' = shown
  BY DEF Set
<1>2. PICK s, u : s = Running /\ u = Then(s, SetNamedValue(s, name, value))
  OBVIOUS
<1>3. Becomes(u)
  BY <1>2 DEF Set
<1>4. /\ s \in States(Everyone) /\ s.VB = VB /\ s.result = "ok" /\ Agreed(s)
      /\ shown \in [Everyone -> Seq(Rows)] /\ (Everyone # {} => Named(s.VB))
  BY <1>1, <1>2, RunningAgreed
<1>7. s.VB.active = TRUE
  <2>1. VB \in Blocks
    BY <1>1, PointerAssumption DEF IInv, TypeOK, Active
  <2>2. VB.active \in BOOLEAN
    BY <2>1 DEF Blocks
  <2>3. QED
    BY <1>1, <1>4, <2>2 DEF Active
<1>8. Goes(s, u, Everyone)
  BY <1>2, <1>4, <1>7, SetGoes
<1>9. QED
  BY <1>1, <1>2, <1>3, <1>8, BecomesKeeps

LEMMA SendByNameKeeps ==
  ASSUME IInv, NEW name \in ChannelNames, SendByName(name)
  PROVE  IInv'
<1>1. Active /\ shown' = shown
  BY DEF SendByName
<1>2. PICK s, u : s = Running /\ u = Then(s, SendNamed(s, name))
  OBVIOUS
<1>3. Becomes(u)
  BY <1>2 DEF SendByName
<1>4. /\ s \in States(Everyone) /\ s.VB = VB /\ s.result = "ok" /\ Agreed(s)
      /\ shown \in [Everyone -> Seq(Rows)] /\ (Everyone # {} => Named(s.VB))
  BY <1>1, <1>2, RunningAgreed
<1>7. name \in Names
  BY UtilAssumption
<1>8. Goes(s, u, Everyone)
  BY <1>2, <1>4, <1>7, SendGoes
<1>9. QED
  BY <1>1, <1>2, <1>3, <1>8, BecomesKeeps

-----------------------------------------------------------------------------
(* The clients.                                                            *)

(* The first message is read: what the others say.                         *)
LEMMA FirstRead ==
  ASSUME NEW ms \in Seq(Messages), Len(ms) > 0, NEW rest, rest = Tail(ms), NEW n
  PROVE  /\ Silent(ms, n) <=> n \notin NamesIn(ms[1]) /\ Silent(rest, n)
         /\ \A k, v : LastSays(ms, n, k, v) =>
              LastSays(rest, n, k, v) \/ (n \in NamesIn(ms[1]) /\ Says(ms[1], k) = v /\ Silent(rest, n))
<1>1. PICK l \in Nat : l = Len(ms) /\ l > 0 /\ DOMAIN ms = 1 .. l
  OBVIOUS
<1>2. DOMAIN rest = 1 .. l - 1 /\ \A j \in 1 .. l - 1 : rest[j] = ms[j + 1] /\ j + 1 \in 1 .. l
  BY <1>1
<1>3. \A j \in 1 .. l : j # 1 => j - 1 \in 1 .. l - 1 /\ (j - 1) + 1 = j
  OBVIOUS
<1>4. ASSUME Silent(ms, n) PROVE n \notin NamesIn(ms[1]) /\ Silent(rest, n)
  BY <1>1, <1>2, <1>4 DEF Silent
<1>5. ASSUME n \notin NamesIn(ms[1]), Silent(rest, n) PROVE Silent(ms, n)
  <2>1. ASSUME NEW j \in 1 .. l PROVE n \notin NamesIn(ms[j])
    <3>1. CASE j = 1
      BY <1>5, <3>1
    <3>2. CASE j # 1
      <4>1. ms[j] = rest[j - 1] /\ j - 1 \in DOMAIN rest
        BY <1>2, <1>3, <3>2
      <4>2. QED
        BY <1>5, <4>1 DEF Silent
    <3>3. QED
      BY <3>1, <3>2
  <2>2. QED
    BY <1>1, <2>1 DEF Silent
<1>6. ASSUME NEW k, NEW v, LastSays(ms, n, k, v)
      PROVE  LastSays(rest, n, k, v) \/ (n \in NamesIn(ms[1]) /\ Says(ms[1], k) = v /\ Silent(rest, n))
  <2>1. PICK j \in 1 .. l : /\ n \in NamesIn(ms[j]) /\ Says(ms[j], k) = v
                            /\ \A i \in 1 .. l : i > j => n \notin NamesIn(ms[i])
    BY <1>1, <1>6 DEF LastSays
  <2>2. CASE j = 1
    <3>1. ASSUME NEW i \in 1 .. l - 1 PROVE n \notin NamesIn(rest[i])
      <4>1. i + 1 \in 1 .. l /\ i + 1 > 1
        OBVIOUS
      <4>2. QED
        BY <1>2, <2>1, <2>2, <4>1
    <3>2. QED
      BY <1>2, <2>1, <2>2, <3>1 DEF Silent
  <2>3. CASE j # 1
    <3>1. j - 1 \in 1 .. l - 1 /\ rest[j - 1] = ms[j]
      BY <1>2, <1>3, <2>3
    <3>2. ASSUME NEW i \in 1 .. l - 1, i > j - 1 PROVE n \notin NamesIn(rest[i])
      <4>1. i + 1 \in 1 .. l /\ i + 1 > j
        BY <3>2
      <4>2. QED
        BY <1>2, <2>1, <4>1
    <3>3. QED
      BY <1>2, <2>1, <3>1, <3>2 DEF LastSays
  <2>4. QED
    BY <2>2, <2>3
<1>7. QED
  BY <1>4, <1>5, <1>6

(* Where a name is in a table. *)
RowOf(table, name) == SelectInSeq(table, LAMBDA c : c.name = name)

LEMMA RowFound ==
  ASSUME NEW table \in Seq(Rows), NEW name, NEW j, j = RowOf(table, name)
  PROVE  /\ j \in 0 .. Len(table)
         /\ j # 0 => table[j].name = name
         /\ j = 0 => \A k \in DOMAIN table : table[k].name # name
<1>1. PICK n \in Nat : n = Len(table) /\ DOMAIN table = 1 .. n
  OBVIOUS
<1> DEFINE I == {i \in 1 .. n : table[i].name = name}
<1>2. j = IF I # {} THEN Min(I) ELSE 0
  BY <1>1 DEF RowOf, SelectInSeq
<1>3. I \in SUBSET (1 .. n)
  OBVIOUS
<1>4. I # {} => Min(I) \in I
  <2> HIDE DEF I
  <2>1. QED
    BY <1>1, <1>3, Least
<1>5. CASE I # {}
  <2>1. j \in I
    BY <1>2, <1>4, <1>5
  <2>2. QED
    BY <1>1, <2>1
<1>6. CASE I = {}
  <2>1. j = 0
    BY <1>2, <1>6
  <2>2. QED
    BY <1>1, <1>6, <2>1
<1>7. QED
  BY <1>5, <1>6

(* What a client shows once it has read a message. *)
LEMMA AppliedType ==
  ASSUME NEW table \in Seq(Rows), NEW m \in Messages, NEW next, next = Applied(table, m)
  PROVE  next \in Seq(Rows)
<1>1. CASE m.kind = "registrations"
  BY <1>1 DEF Applied, Messages, Updates, Tables
<1>2. CASE m.kind # "registrations"
  <2>1. PICK j : j = RowOf(table, m.name)
    OBVIOUS
  <2>2. next = IF j = 0 THEN table ELSE [table EXCEPT ![j].value = m.value]
    BY <1>2, <2>1 DEF Applied, RowOf
  <2>3. CASE j = 0
    BY <2>2, <2>3
  <2>4. CASE j # 0
    <3>1. j \in DOMAIN table
      BY <2>1, <2>4, RowFound
    <3>2. m.value \in Values
      BY <1>2 DEF Messages, Updates, Tables
    <3>3. [table[j] EXCEPT !.value = m.value] \in Rows
      <4>1. \A row \in Rows : [row EXCEPT !.value = m.value] \in Rows
        BY <3>2 DEF Rows
      <4>2. QED
        BY <3>1, <4>1
    <3>4. [table EXCEPT ![j] = [table[j] EXCEPT !.value = m.value]] \in Seq(Rows)
      BY <3>3, ReplaceType
    <3>5. QED
      BY <2>2, <2>4, <3>4
  <2>5. QED
    BY <2>3, <2>4
<1>3. QED
  BY <1>1, <1>2

LEMMA AppliedShows ==
  ASSUME NEW b \in Blocks, Unique(b), NEW table \in Seq(Rows), NEW m \in Messages,
         m.kind = "registrations" => Matches(m.controls, b), m.kind # "registrations" => Matches(table, b),
         NEW next, next = Applied(table, m)
  PROVE  /\ Matches(next, b)
         /\ \A k \in DOMAIN b.controls :
              IF b.controls[k].name \in NamesIn(m) THEN next[k].value = Says(m, k)
              ELSE next[k].value = table[k].value
<1>1. PICK n \in Nat : n = Len(b.controls) /\ DOMAIN b.controls = 1 .. n
  BY ListTypes
<1>2. CASE m.kind = "registrations"
  <2>1. next = m.controls /\ m.controls \in Seq(Rows) /\ m.kind # "update"
    BY <1>2 DEF Applied, Messages, Updates, Tables
  <2>2. \A k \in 1 .. n : m.controls[k].name = b.controls[k].name
    BY <1>1, <1>2 DEF Matches
  <2>3. Len(m.controls) = n
    BY <1>1, <1>2 DEF Matches
  <2>4. \A k \in 1 .. n : b.controls[k].name \in NamesIn(m)
    BY <2>1, <2>2, <2>3 DEF NamesIn, ToSet
  <2>5. \A k \in 1 .. n : Says(m, k) = next[k].value
    BY <2>1 DEF Says
  <2>6. QED
    BY <1>1, <1>2, <2>1, <2>4, <2>5
<1>3. CASE m.kind # "registrations"
  <2>1. m \in Updates /\ m.kind = "update" /\ NamesIn(m) = {m.name}
    BY <1>3 DEF Messages, Updates, Tables, NamesIn
  <2>2. PICK j : j = RowOf(table, m.name)
    OBVIOUS
  <2>3. next = IF j = 0 THEN table ELSE [table EXCEPT ![j].value = m.value]
    BY <1>3, <2>2 DEF Applied, RowOf
  <2>4. /\ j \in 0 .. Len(table) /\ (j # 0 => table[j].name = m.name)
        /\ j = 0 => \A k \in DOMAIN table : table[k].name # m.name
    BY <2>2, RowFound
  <2>5. Len(table) = n /\ DOMAIN table = 1 .. n
    BY <1>1, <1>3 DEF Matches
  <2>6. \A k \in 1 .. n : table[k].name = b.controls[k].name /\ table[k].type = b.controls[k].type /\ table[k] \in Rows
    BY <1>1, <1>3, <2>5 DEF Matches
  <2>7. CASE j = 0
    <3>1. next = table
      BY <2>3, <2>7
    <3>2. \A k \in 1 .. n : b.controls[k].name \notin NamesIn(m)
      BY <2>1, <2>4, <2>5, <2>6, <2>7
    <3>3. QED
      BY <1>1, <1>3, <3>1, <3>2
  <2>8. CASE j # 0
    <3>1. j \in 1 .. n
      BY <2>4, <2>5, <2>8
    <3>2. next = [table EXCEPT ![j] = [table[j] EXCEPT !.value = m.value]]
      BY <2>3, <2>8
    <3>3. /\ Len(next) = n
          /\ next[j] = [table[j] EXCEPT !.value = m.value]
          /\ \A k \in 1 .. n : k # j => next[k] = table[k]
      BY <2>5, <3>1, <3>2
    <3>4. next[j].value = m.value /\ next[j].name = table[j].name /\ next[j].type = table[j].type
      BY <2>6, <3>1, <3>3 DEF Rows
    <3>5. Matches(next, b)
      BY <1>1, <2>6, <3>3, <3>4 DEF Matches
    <3>6. ASSUME NEW k \in 1 .. n
          PROVE  IF b.controls[k].name \in NamesIn(m) THEN next[k].value = Says(m, k)
                 ELSE next[k].value = table[k].value
      <4>1. CASE k = j
        <5>1. Says(m, k) = m.value
          BY <2>1 DEF Says
        <5>2. b.controls[k].name \in NamesIn(m)
          BY <2>1, <2>4, <2>6, <2>8, <4>1
        <5>3. QED
          BY <3>4, <4>1, <5>1, <5>2
      <4>2. CASE k # j
        <5>1. b.controls[k].name # b.controls[j].name
          BY <1>1, <3>1, <4>2 DEF Unique
        <5>2. b.controls[k].name \notin NamesIn(m)
          BY <2>1, <2>4, <2>6, <2>8, <3>1, <5>1
        <5>3. QED
          BY <3>3, <4>2, <5>2
      <4>3. QED
        BY <4>1, <4>2
    <3>7. QED
      BY <1>1, <3>5, <3>6
  <2>9. QED
    BY <2>7, <2>8
<1>4. QED
  BY <1>2, <1>3

(* A client that reads a message stays in step. *)
Shows(next, table, m, b) == \A k \in DOMAIN b.controls :
  IF b.controls[k].name \in NamesIn(m) THEN next[k].value = Says(m, k) ELSE next[k].value = table[k].value

Reads(next, rest, table, ms) == Len(ms) > 0 /\ next = Applied(table, ms[1]) /\ rest = Tail(ms)

LEMMA ReadKnows ==
  ASSUME NEW b \in Blocks, Unique(b), NEW table \in Seq(Rows), NEW ms \in Seq(Messages),
         NEW next, NEW rest, Reads(next, rest, table, ms), Knows(table, b, ms)
  PROVE  Knows(next, b, rest) /\ Shows(next, table, ms[1], b)
<1>0. Len(ms) > 0 /\ next = Applied(table, ms[1]) /\ rest = Tail(ms)
  BY DEF Reads
<1>1. PICK m \in Messages : m = ms[1]
  BY <1>0
<1>2. PICK l \in Nat : l = Len(ms) /\ l > 0 /\ DOMAIN ms = 1 .. l
  BY <1>0
<1>3. DOMAIN rest = 1 .. l - 1 /\ \A j \in 1 .. l - 1 : rest[j] = ms[j + 1] /\ j + 1 \in 1 .. l
  BY <1>0, <1>2
<1>4. /\ m.kind = "registrations" => Matches(m.controls, b)
      /\ m.kind # "registrations" => Matches(table, b)
  BY <1>1, <1>2 DEF Knows
<1>5. /\ Matches(next, b)
      /\ \A k \in DOMAIN b.controls :
           IF b.controls[k].name \in NamesIn(m) THEN next[k].value = Says(m, k)
           ELSE next[k].value = table[k].value
  BY <1>0, <1>1, <1>4, AppliedShows
<1>6. Knows(next, b, rest)
  BY <1>2, <1>3, <1>5 DEF Knows
<1>7. QED
  BY <1>1, <1>5, <1>6 DEF Shows

LEMMA ReadAgrees ==
  ASSUME NEW b \in Blocks, Unique(b), NEW table \in Seq(Rows), NEW ms \in Seq(Messages),
         NEW next, NEW rest, Reads(next, rest, table, ms), NEW os, NEW cr, NEW c, Knows(table, b, ms),
         NEW k \in DOMAIN b.controls, Agrees(c, table, b, ms, os, cr, k)
  PROVE  Agrees(c, next, b, rest, os, cr, k)
<1>1. PICK n, v : n = b.controls[k].name /\ v = b.controls[k].value
  OBVIOUS
<1>2. Silent(ms, n) <=> n \notin NamesIn(ms[1]) /\ Silent(rest, n)
  BY FirstRead DEF Reads
<1>3. LastSays(ms, n, k, v) =>
        LastSays(rest, n, k, v) \/ (n \in NamesIn(ms[1]) /\ Says(ms[1], k) = v /\ Silent(rest, n))
  BY FirstRead DEF Reads
<1>4. IF n \in NamesIn(ms[1]) THEN next[k].value = Says(ms[1], k) ELSE next[k].value = table[k].value
  BY <1>1, ReadKnows DEF Shows
<1>5. CASE <<c, n>> \in cr
  BY <1>1, <1>5 DEF Agrees
<1>6. CASE /\ ~Slider(b.controls[k]) \/ NoOrder(os, k)
           /\ LastSays(ms, n, k, v) \/ (Silent(ms, n) /\ StandsFor(b.controls[k].type, table[k].value, v))
  BY <1>1, <1>2, <1>3, <1>4, <1>6 DEF Agrees, StandsFor
<1>7. CASE /\ Slider(b.controls[k]) /\ Silent(ms, n)
           /\ LastOrder(os, k, AsText(b.controls[k].type, table[k].value))
  BY <1>1, <1>2, <1>4, <1>7 DEF Agrees
<1>8. QED
  BY <1>1, <1>5, <1>6, <1>7 DEF Agrees

(* A client that moves a control stays in step. *)
Moved(next, table, b, k, value) ==
  /\ k \in DOMAIN b.controls
  /\ \A h \in DOMAIN b.controls :
       /\ table[h].name = b.controls[h].name /\ table[h].type = b.controls[h].type
       /\ next[h].value = IF h = k /\ Slider(table[k]) THEN value ELSE table[h].value

LEMMA MoveKnows ==
  ASSUME NEW b \in Blocks, Unique(b), NEW table \in Seq(Rows), NEW ms \in Seq(Messages),
         Knows(table, b, ms),
         NEW k \in DOMAIN table, NEW value \in Values,
         NEW next, next = (IF Slider(table[k]) THEN [table EXCEPT ![k].value = value] ELSE table)
  PROVE  Knows(next, b, ms) /\ Moved(next, table, b, k, value)
<1>1. PICK n \in Nat : n = Len(b.controls) /\ DOMAIN b.controls = 1 .. n
  BY ListTypes
<1>2. Matches(table, b)
  BY DEF Knows
<1>3. Len(table) = n /\ DOMAIN table = 1 .. n
  BY <1>1, <1>2 DEF Matches
<1>4. \A h \in 1 .. n : table[h].name = b.controls[h].name /\ table[h].type = b.controls[h].type /\ table[h] \in Rows
  BY <1>1, <1>2, <1>3 DEF Matches
<1>5. /\ next \in Seq(Rows) /\ Len(next) = n
      /\ \A h \in 1 .. n : next[h].name = table[h].name /\ next[h].type = table[h].type
      /\ \A h \in 1 .. n : next[h].value = IF h = k /\ Slider(table[k]) THEN value ELSE table[h].value
  <2>1. CASE ~Slider(table[k])
    BY <1>3, <2>1
  <2>2. CASE Slider(table[k])
    <3>1. PICK row \in Rows : row = [table[k] EXCEPT !.value = value] /\ row.value = value
                              /\ row.name = table[k].name /\ row.type = table[k].type
      <4>1. \A r \in Rows : LET e == [r EXCEPT !.value = value]
                             IN  e \in Rows /\ e.value = value /\ e.name = r.name /\ e.type = r.type
        BY DEF Rows
      <4>2. table[k] \in Rows
        OBVIOUS
      <4>3. QED
        BY <4>1, <4>2
    <3>2. next = [table EXCEPT ![k] = row]
      BY <2>2, <3>1
    <3>3. next \in Seq(Rows) /\ Len(next) = n
      BY <1>3, <3>1, <3>2, ReplaceType
    <3>4. next[k] = row /\ \A h \in 1 .. n : h # k => next[h] = table[h]
      BY <1>3, <3>2
    <3>5. QED
      BY <2>2, <3>1, <3>3, <3>4
  <2>3. QED
    BY <2>1, <2>2
<1>6. Knows(next, b, ms)
  <2>1. Matches(next, b)
    BY <1>1, <1>4, <1>5 DEF Matches
  <2>2. QED
    BY <2>1 DEF Knows
<1>7. QED
  BY <1>1, <1>4, <1>5, <1>6 DEF Moved

Moves(next, after, crossing, c, table, ms, os, cr, k, value) ==
  /\ next = IF Slider(table[k]) THEN [table EXCEPT ![k].value = value] ELSE table
  /\ after = Append(os, [control |-> k, value |-> AsText(table[k].type, value)])
  /\ crossing = cr \cup (IF table[k].name \in Tells(ms) THEN {<<c, table[k].name>>} ELSE {})

LEMMA MoveAgrees ==
  ASSUME NEW b \in Blocks, Unique(b), NEW table \in Seq(Rows), NEW ms \in Seq(Messages),
         NEW os \in Seq(Orders), NEW cr, NEW c, Knows(table, b, ms),
         NEW k \in DOMAIN table, NEW value \in Values,
         NEW next, NEW after, NEW crossing, Moves(next, after, crossing, c, table, ms, os, cr, k, value),
         NEW j \in DOMAIN b.controls, Agrees(c, table, b, ms, os, cr, j)
  PROVE  Agrees(c, next, b, ms, after, crossing, j)
<1>1. Moved(next, table, b, k, value)
  BY MoveKnows DEF Moves
<1>2. PICK l \in Nat : l = Len(os) /\ DOMAIN os = 1 .. l
  OBVIOUS
<1>14. PICK text \in Values : text = AsText(table[k].type, value)
  BY ConfigFileAssumption DEF AsText
<1>3. PICK o : o = [control |-> k, value |-> text]
  OBVIOUS
<1>4. after \in Seq(Orders) /\ DOMAIN after = 1 .. l + 1 /\ Len(after) = l + 1 /\ after[l + 1] = o /\ \A h \in 1 .. l : after[h] = os[h]
  <2>1. o \in Orders
    <3>1. k \in Nat
      OBVIOUS
    <3>2. QED
      BY <1>3, <3>1 DEF Orders
  <2>2. QED
    BY <1>2, <1>3, <1>14, <2>1 DEF Moves
<1>5. \A i \in 1 .. l + 1 : i \in 1 .. l \/ i = l + 1
  OBVIOUS
<1>6. LastOrder(after, k, text)
  <2>1. l + 1 \in 1 .. l + 1 /\ \A i \in 1 .. l + 1 : ~ (i > l + 1)
    OBVIOUS
  <2>2. QED
    BY <1>3, <1>4, <2>1 DEF LastOrder
<1>7. ASSUME j # k
       PROVE  /\ NoOrder(os, j) => NoOrder(after, j)
              /\ \A v : LastOrder(os, j, v) => LastOrder(after, j, v)
  <2>1. o.control # j
    BY <1>3, <1>7
  <2>2. NoOrder(os, j) => NoOrder(after, j)
    BY <1>2, <1>4, <1>5, <2>1 DEF NoOrder
  <2>3. ASSUME NEW v, LastOrder(os, j, v) PROVE LastOrder(after, j, v)
    <3>1. PICK i \in 1 .. l : /\ os[i].control = j /\ os[i].value = v
                              /\ \A h \in 1 .. l : h > i => os[h].control # j
      BY <1>2, <2>3 DEF LastOrder
    <3>2. i \in 1 .. l + 1
      OBVIOUS
    <3>3. ASSUME NEW h \in 1 .. l + 1, h > i PROVE after[h].control # j
      <4>1. CASE h = l + 1
        BY <1>4, <2>1, <4>1
      <4>2. CASE h \in 1 .. l
        BY <1>4, <3>1, <3>3, <4>2
      <4>3. QED
        BY <4>1, <4>2
    <3>4. QED
      BY <1>4, <3>1, <3>2, <3>3 DEF LastOrder
  <2>4. QED
    BY <2>2, <2>3
<1>8. PICK name, v : name = b.controls[j].name /\ v = b.controls[j].value /\ table[j].name = name
  BY <1>1 DEF Moved
<1>9. /\ Slider(b.controls[j]) <=> Slider(table[j])
      /\ next[j].value = IF j = k /\ Slider(table[k]) THEN value ELSE table[j].value
  BY <1>1 DEF Moved, Slider
<1>10. CASE <<c, name>> \in cr
  BY <1>8, <1>10 DEF Agrees, Moves
<1>11. CASE <<c, name>> \notin cr /\ j = k
  <2>1. CASE name \in Tells(ms)
    BY <1>8, <1>11, <2>1 DEF Agrees, Moves
  <2>2. CASE name \notin Tells(ms)
    <3>1. Silent(ms, name)
      BY <2>2 DEF Tells, Silent, ToSet
    <3>2. CASE Slider(b.controls[j])
      <4>1. next[j].value = value
        BY <1>9, <1>11, <3>2
      <4>2. AsText(b.controls[j].type, next[j].value) = text
        BY <1>1, <1>11, <1>14, <4>1 DEF Moved
      <4>3. QED
        BY <1>6, <1>8, <1>11, <3>1, <3>2, <4>2 DEF Agrees
    <3>3. CASE ~Slider(b.controls[j])
      <4>1. next[j].value = table[j].value
        BY <1>9, <1>11, <3>3
      <4>2. ~LastSays(ms, name, j, v)
        BY <3>1 DEF Silent, LastSays
      <4>3. QED
        BY <1>8, <1>11, <3>1, <3>3, <4>1, <4>2 DEF Agrees
    <3>4. QED
      BY <3>2, <3>3
  <2>3. QED
    BY <2>1, <2>2
<1>12. CASE <<c, name>> \notin cr /\ j # k
  <2>1. next[j].value = table[j].value
    BY <1>9, <1>12
  <2>2. QED
    BY <1>7, <1>8, <1>12, <2>1 DEF Agrees
<1>13. QED
  BY <1>10, <1>11, <1>12

LEMMA GameKeeps ==
  ASSUME IInv, UNCHANGED gameVars
  PROVE  Listed' /\ Backed' /\ Facing' /\ RefusedWithReason' /\ (Active' <=> Active)
<1>1. util' = util /\ VB' = VB /\ outcome' = outcome /\ told' = told
  BY DEF gameVars
<1>2. Active' <=> Active
  BY <1>1 DEF Active
<1>3. Listed'
  BY <1>1 DEF IInv, Listed, AsTold
<1>4. Backed'
  BY <1>1, <1>2 DEF IInv, Backed
<1>5. Facing'
  BY <1>1, <1>2 DEF IInv, Facing, AsTold
<1>6. RefusedWithReason'
  BY <1>1 DEF IInv, RefusedWithReason
<1>7. QED
  BY <1>2, <1>3, <1>4, <1>5, <1>6

(* What it means for the clients to be in step after a step. *)
LEMMA StaysInStep ==
  ASSUME Active' => Named(VB'), NEW C, DOMAIN pending' = C,
         Active' /\ Distinct(VB'.controls) => \A d \in C :
           /\ Knows(shown'[d], VB', pending'[d])
           /\ \A k \in DOMAIN VB'.controls :
                Agrees(d, shown'[d], VB', pending'[d], orders'[d], crossed', k)
  PROVE  InStep'
BY DEF InStep, Agreed, State

LEMMA SeeKeeps ==
  ASSUME IInv, NEW c \in Everyone, See(c)
  PROVE  IInv'
<1>1. /\ pending[c] # << >>
      /\ pending' = [pending EXCEPT ![c] = Tail(@)]
      /\ shown' = [shown EXCEPT ![c] = Applied(@, Head(pending[c]))]
      /\ UNCHANGED <<gameVars, files, chosen, orders, crossed>>
  BY DEF See
<1>2. PICK ms \in Seq(Messages) : ms = pending[c] /\ Len(ms) > 0
  <2>1. pending[c] \in Seq(Messages) /\ pending[c] # << >>
    BY <1>1 DEF IInv, TypeOK
  <2>2. \A q \in Seq(Messages) : q # << >> => Len(q) > 0
    OBVIOUS
  <2>3. QED
    BY <2>1, <2>2
<1>3. PICK rest \in Seq(Messages) : rest = Tail(ms)
  <2>1. Tail(ms) \in Seq(Messages)
    BY ONLY ms \in Seq(Messages), <1>2
  <2>2. QED
    BY <2>1
<1>4. PICK table \in Seq(Rows) : table = shown[c]
  BY DEF IInv, TypeOK
<1>5. ms[1] \in Messages /\ Head(ms) = ms[1]
  BY <1>2
<1>6. PICK next \in Seq(Rows) : next = Applied(table, ms[1])
  BY <1>5, AppliedType
<1>7. pending' = [pending EXCEPT ![c] = rest] /\ shown' = [shown EXCEPT ![c] = next]
  BY <1>1, <1>2, <1>3, <1>4, <1>5, <1>6
<1>8. /\ pending \in [Everyone -> Seq(Messages)] /\ shown \in [Everyone -> Seq(Rows)]
      /\ orders \in [Everyone -> Seq(Orders)]
  BY DEF IInv, TypeOK
<1>9. /\ pending' \in [Everyone -> Seq(Messages)] /\ shown' \in [Everyone -> Seq(Rows)]
      /\ pending'[c] = rest /\ shown'[c] = next
      /\ \A d \in Everyone : d # c => pending'[d] = pending[d] /\ shown'[d] = shown[d]
  BY <1>7, <1>8
<1>10. Everyone' = Everyone
  BY <1>9 DEF Everyone
<1>11. /\ Listed' /\ Backed' /\ Facing' /\ RefusedWithReason' /\ (Active' <=> Active)
       /\ util' = util /\ VB' = VB /\ variable' = variable /\ outcome' = outcome
  BY <1>1, GameKeeps DEF gameVars
<1>12. TypeOK'
  <2>1. Idle' => Idle
    BY <1>11 DEF Idle
  <2>2. TypeOK
    BY DEF IInv
  <2>3. QED
    BY <1>1, <1>9, <1>10, <1>11, <2>1, <2>2 DEF TypeOK
<1>13. InStep'
  <2>1. Active' => Named(VB')
    BY <1>11 DEF IInv, InStep
  <2>2. ASSUME Active', Distinct(VB'.controls), NEW d \in Everyone
        PROVE  /\ Knows(shown'[d], VB', pending'[d])
               /\ \A k \in DOMAIN VB'.controls :
                    Agrees(d, shown'[d], VB', pending'[d], orders'[d], crossed', k)
    <3>1. /\ Knows(shown[d], VB, pending[d])
          /\ \A k \in DOMAIN VB.controls :
               Agrees(d, shown[d], VB, pending[d], orders[d], crossed, k)
      BY <1>11, <2>2 DEF IInv, InStep, Agreed, State, Everyone
    <3>2. CASE d # c
      BY <1>1, <1>9, <1>11, <3>1, <3>2
    <3>3. CASE d = c
      <4>1. VB \in Blocks /\ Unique(VB)
        <5>1. VB \in Blocks
          BY <1>11, <2>2, PointerAssumption DEF IInv, TypeOK, Active
        <5>2. QED
          BY <1>11, <2>1, <2>2, <5>1, DistinctUnique DEF Named
      <4>2. PICK os \in Seq(Orders) : os = orders[c] /\ os = orders'[c]
        BY <1>1, <1>8
      <4>3. /\ Knows(next, VB, rest)
            /\ \A k \in DOMAIN VB.controls :
                 Agrees(c, table, VB, ms, os, crossed, k) => Agrees(c, next, VB, rest, os, crossed, k)
        <5>1. Reads(next, rest, table, ms) /\ Knows(table, VB, ms)
          BY <1>2, <1>3, <1>4, <1>6, <3>1, <3>3 DEF Reads
        <5>2. Knows(next, VB, rest)
          BY ONLY <4>1, <5>1, ms \in Seq(Messages), table \in Seq(Rows), ReadKnows
        <5>3. ASSUME NEW k \in DOMAIN VB.controls, Agrees(c, table, VB, ms, os, crossed, k)
              PROVE  Agrees(c, next, VB, rest, os, crossed, k)
          BY ONLY <4>1, <5>1, <5>3, ms \in Seq(Messages), table \in Seq(Rows), os \in Seq(Orders), ReadAgrees
        <5>4. QED
          BY <5>2, <5>3
      <4>4. QED
        BY <1>1, <1>2, <1>4, <1>9, <1>11, <3>1, <3>3, <4>2, <4>3
    <3>4. QED
      BY <3>2, <3>3
  <2>3. QED
    BY <1>9, <2>1, <2>2, StaysInStep
<1>14. QED
  BY <1>11, <1>12, <1>13 DEF IInv

LEMMA MoveKeeps ==
  ASSUME IInv, NEW c \in Everyone, NEW k \in DOMAIN shown[c], NEW value \in Values, Move(c, k, value)
  PROVE  IInv'
<1>1. /\ outcome # "crash"
      /\ orders' = [orders EXCEPT ![c] =
           Append(@, [control |-> k, value |-> AsText(shown[c][k].type, value)])]
      /\ shown' = IF Slider(shown[c][k]) THEN [shown EXCEPT ![c][k].value = value] ELSE shown
      /\ crossed' = crossed \cup (IF shown[c][k].name \in Tells(pending[c]) THEN {<<c, shown[c][k].name>>} ELSE {})
      /\ UNCHANGED <<gameVars, files, chosen, pending>>
  BY DEF Move
<1>2. PICK ms \in Seq(Messages) : ms = pending[c]
  BY DEF IInv, TypeOK
<1>3. PICK table \in Seq(Rows) : table = shown[c]
  BY DEF IInv, TypeOK
<1>4. PICK os \in Seq(Orders) : os = orders[c]
  BY DEF IInv, TypeOK
<1>20. PICK text \in Values : text = AsText(table[k].type, value)
  BY ConfigFileAssumption DEF AsText
<1>5. PICK after : after = Append(os, [control |-> k, value |-> text])
  OBVIOUS
<1>6. PICK next : next = (IF Slider(table[k]) THEN [table EXCEPT ![k].value = value] ELSE table)
  OBVIOUS
<1>7. PICK crossing : crossing = crossed \cup (IF table[k].name \in Tells(ms) THEN {<<c, table[k].name>>} ELSE {})
  OBVIOUS
<1>8. k \in DOMAIN table /\ k \in Nat /\ table[k] \in Rows
  BY <1>3
<1>9. next \in Seq(Rows)
  <2>1. \A row \in Rows : [row EXCEPT !.value = value] \in Rows
    BY DEF Rows
  <2>2. [table EXCEPT ![k] = [table[k] EXCEPT !.value = value]] \in Seq(Rows)
    BY <1>8, <2>1, ReplaceType
  <2>3. QED
    BY <1>6, <2>2
<1>10. after \in Seq(Orders)
  <2>1. [control |-> k, value |-> text] \in Orders
    BY <1>8 DEF Orders
  <2>2. QED
    BY <1>5, <2>1
<1>11. /\ pending \in [Everyone -> Seq(Messages)] /\ shown \in [Everyone -> Seq(Rows)]
       /\ orders \in [Everyone -> Seq(Orders)] /\ crossed \subseteq Everyone \X (Names \cup {None})
  BY DEF IInv, TypeOK
<1>12. orders' = [orders EXCEPT ![c] = after] /\ shown' = [shown EXCEPT ![c] = next] /\ crossed' = crossing
  <2>1. orders' = [orders EXCEPT ![c] = after]
    BY <1>1, <1>3, <1>4, <1>5, <1>11, <1>20
  <2>2. crossed' = crossing
    BY <1>1, <1>2, <1>3, <1>7
  <2>3. shown' = [shown EXCEPT ![c] = next]
    <3>1. CASE Slider(table[k])
      BY <1>1, <1>3, <1>6, <1>11, <3>1
    <3>2. CASE ~Slider(table[k])
      BY <1>1, <1>3, <1>6, <1>11, <3>2
    <3>3. QED
      BY <3>1, <3>2
  <2>4. QED
    BY <2>1, <2>2, <2>3
<1>13. /\ orders' \in [Everyone -> Seq(Orders)] /\ shown' \in [Everyone -> Seq(Rows)]
       /\ orders'[c] = after /\ shown'[c] = next
       /\ \A d \in Everyone : d # c => orders'[d] = orders[d] /\ shown'[d] = shown[d]
  BY <1>9, <1>10, <1>11, <1>12
<1>14. crossed' \subseteq Everyone \X (Names \cup {None})
  <2>1. table[k].name \in Names \cup {None}
    BY <1>8 DEF Rows
  <2>2. QED
    BY <1>7, <1>11, <1>12, <2>1
<1>15. Everyone' = Everyone /\ DOMAIN pending' = Everyone /\ pending' = pending
  BY <1>1, <1>11 DEF Everyone
<1>16. /\ Listed' /\ Backed' /\ Facing' /\ RefusedWithReason' /\ (Active' <=> Active)
       /\ util' = util /\ VB' = VB /\ variable' = variable /\ outcome' = outcome
  BY <1>1, GameKeeps DEF gameVars
<1>17. TypeOK'
  <2>1. Idle' => Idle
    BY <1>16 DEF Idle
  <2>2. TypeOK
    BY DEF IInv
  <2>3. QED
    BY <1>1, <1>13, <1>14, <1>15, <1>16, <2>1, <2>2 DEF TypeOK
<1>18. InStep'
  <2>1. Active' => Named(VB')
    BY <1>16 DEF IInv, InStep
  <2>2. ASSUME Active', Distinct(VB'.controls), NEW d \in Everyone
        PROVE  /\ Knows(shown'[d], VB', pending'[d])
               /\ \A j \in DOMAIN VB'.controls :
                    Agrees(d, shown'[d], VB', pending'[d], orders'[d], crossed', j)
    <3>1. /\ Knows(shown[d], VB, pending[d])
          /\ \A j \in DOMAIN VB.controls :
               Agrees(d, shown[d], VB, pending[d], orders[d], crossed, j)
      BY <1>16, <2>2 DEF IInv, InStep, Agreed, State, Everyone
    <3>2. CASE d # c
      <4>1. \A n : <<d, n>> \in crossed' <=> <<d, n>> \in crossed
        BY <1>7, <1>12, <3>2
      <4>2. QED
        BY <1>13, <1>15, <1>16, <3>1, <3>2, <4>1 DEF Agrees
    <3>3. CASE d = c
      <4>1. VB \in Blocks /\ Unique(VB)
        <5>1. VB \in Blocks
          BY <1>16, <2>2, PointerAssumption DEF IInv, TypeOK, Active
        <5>2. QED
          BY <1>16, <2>1, <2>2, <5>1, DistinctUnique DEF Named
      <4>2. Knows(table, VB, ms) /\ Moves(next, after, crossing, c, table, ms, os, crossed, k, value)
        BY <1>2, <1>3, <1>5, <1>6, <1>7, <1>20, <3>1, <3>3 DEF Moves
      <4>3. /\ Knows(next, VB, ms)
            /\ \A j \in DOMAIN VB.controls :
                 Agrees(c, table, VB, ms, os, crossed, j) => Agrees(c, next, VB, ms, after, crossing, j)
        <5>1. Knows(next, VB, ms)
          BY ONLY <1>5, <1>6, <1>7, <1>8, <4>1, <4>2, ms \in Seq(Messages), table \in Seq(Rows),
                  value \in Values, <1>8, MoveKnows
        <5>2. ASSUME NEW j \in DOMAIN VB.controls, Agrees(c, table, VB, ms, os, crossed, j)
              PROVE  Agrees(c, next, VB, ms, after, crossing, j)
          BY ONLY <4>1, <4>2, <5>2, ms \in Seq(Messages), table \in Seq(Rows),
                  os \in Seq(Orders), value \in Values, <1>8, MoveAgrees
        <5>3. QED
          BY <5>1, <5>2
      <4>4. QED
        BY <1>2, <1>3, <1>4, <1>12, <1>13, <1>15, <1>16, <3>1, <3>3, <4>3
    <3>4. QED
      BY <3>2, <3>3
  <2>3. QED
    BY <1>15, <2>1, <2>2, StaysInStep
<1>19. QED
  BY <1>16, <1>17, <1>18 DEF IInv

(* A client that connects is sent the table of the controls. *)
LEMMA ConnectKeeps ==
  ASSUME IInv, NEW c \in Clients, Connect(c)
  PROVE  IInv'
<1>1. PICK C, D : C = Everyone /\ D = C \cup {c} /\ c \notin C
  BY DEF Connect, Everyone
<1>2. PICK s, t : s = [State EXCEPT !.pending = With(pending, c)] /\ t = SendRegistrations(s, {c})
  OBVIOUS
<1>3. /\ Active /\ pending' = t.pending /\ outcome' = (IF t.result = "crash" THEN "crash" ELSE outcome)
      /\ shown' = With(shown, c) /\ orders' = With(orders, c)
      /\ util' = util /\ VB' = VB /\ variable' = variable /\ told' = told /\ files' = files
      /\ chosen' = chosen /\ crossed' = crossed
  BY <1>2 DEF Connect, State
<1>4. /\ pending \in [C -> Seq(Messages)] /\ orders \in [C -> Seq(Orders)] /\ shown \in [C -> Seq(Rows)]
      /\ crossed \subseteq C \X (Names \cup {None}) /\ IsFiniteSet(C) /\ variable \in [Addresses -> Values]
  BY <1>1 DEF IInv, TypeOK
<1>5. ASSUME NEW X, NEW f \in [C -> Seq(X)], NEW g, g = With(f, c)
      PROVE  g \in [D -> Seq(X)] /\ g[c] = << >> /\ \A d \in C : g[d] = f[d]
  BY <1>1, <1>5 DEF With
<1>6. PICK p \in [D -> Seq(Messages)] : p = With(pending, c) /\ p[c] = << >> /\ \A d \in C : p[d] = pending[d]
  BY <1>4, <1>5
<1>7. VB \in Blocks /\ VB # None
  BY <1>3 DEF IInv, TypeOK, Active
<1>8. PICK os \in [D -> Seq(Orders)] : os = With(orders, c) /\ os[c] = << >> /\ \A d \in C : os[d] = orders[d]
  BY <1>4, <1>5
<1>9. PICK sh \in [D -> Seq(Rows)] : sh = With(shown, c) /\ sh[c] = << >> /\ \A d \in C : sh[d] = shown[d]
  BY <1>4, <1>5
<1>10. PICK m : m = [kind |-> "registrations", controls |-> TableOf(VB)]
  OBVIOUS
<1>11. m \in Messages /\ m.kind = "registrations" /\ m.controls = TableOf(VB)
  BY <1>7, <1>10, TableType DEF Messages, Tables
<1>12. IF Named(VB) THEN t.result = "ok" /\ t.pending = [p EXCEPT ![c] = <<m>>]
       ELSE t.result = "crash" /\ t.pending = p
  <2>1. s = [VB |-> VB, variable |-> variable, pending |-> p, result |-> "ok",
             orders |-> orders, crossed |-> crossed, file |-> << >>, chosen |-> << >>]
    BY <1>2, <1>6 DEF State
  <2>2. s.VB = VB /\ s.result = "ok" /\ s.pending = p
    BY <2>1
  <2>3. CASE Named(VB)
    <3>1. t = [s EXCEPT !.pending = Told(s, {c}, m)]
      BY <1>2, <1>10, <2>2, <2>3 DEF SendRegistrations, Named, TableOf
    <3>2. t.pending = Told(s, {c}, m) /\ t.result = "ok"
      BY <2>1, <3>1
    <3>3. Told(s, {c}, m) = [d \in D |-> IF d \in {c} THEN Append(p[d], m) ELSE p[d]]
      BY <2>2 DEF Told
    <3>4. Append(<< >>, m) = <<m>>
      OBVIOUS
    <3>5. [d \in D |-> IF d \in {c} THEN Append(p[d], m) ELSE p[d]] = [p EXCEPT ![c] = <<m>>]
      BY <1>6, <3>4
    <3>6. QED
      BY <2>3, <3>2, <3>3, <3>5
  <2>4. CASE ~Named(VB)
    <3>1. t = [s EXCEPT !.result = "crash"]
      BY <1>2, <2>2, <2>4 DEF SendRegistrations, Named
    <3>2. QED
      BY <2>1, <2>4, <3>1
  <2>5. QED
    BY <2>3, <2>4
<1>13. t.pending \in [D -> Seq(Messages)] /\ \A d \in C : t.pending[d] = pending[d]
  <2>1. <<m>> \in Seq(Messages)
    BY <1>11
  <2>2. [p EXCEPT ![c] = <<m>>] \in [D -> Seq(Messages)] /\ \A d \in C : [p EXCEPT ![c] = <<m>>][d] = p[d]
    BY <1>1, <2>1
  <2>3. QED
    BY <1>6, <1>12, <2>2
<1>14. Everyone' = D
  BY <1>3, <1>13 DEF Everyone
<1>15. outcome \in {"none", "ok", "no", "busy", "crash"} /\ outcome # "crash"
  BY <1>3 DEF IInv, TypeOK, Active
<1>16. Active' <=> Named(VB)
  BY <1>3, <1>12, <1>15 DEF Active
<1>17. TypeOK'
  <2>1. IsFiniteSet(D)
    BY <1>1, <1>4, FS_AddElement
  <2>2. crossed' \subseteq D \X (Names \cup {None})
    BY <1>1, <1>3, <1>4
  <2>3. Idle' => FALSE
    BY <1>3, <1>12, <1>16 DEF Idle
  <2>4. outcome' \in {"none", "ok", "no", "busy", "crash"}
    BY <1>3, <1>15
  <2>5. util' \in Lists /\ files' \in [Files -> Seq(Entries)] /\ chosen' \in [Files -> Picks]
    BY <1>3 DEF IInv, TypeOK
  <2>6. QED
    BY <1>3, <1>4, <1>7, <1>8, <1>9, <1>13, <1>14, <2>1, <2>2, <2>3, <2>4, <2>5 DEF TypeOK
<1>18. Listed'
  BY <1>3 DEF IInv, Listed, AsTold
<1>19. Backed' /\ Facing'
  BY <1>3 DEF IInv, Backed, Facing, AsTold
<1>20. RefusedWithReason'
  <2>1. CASE Named(VB)
    <3>1. outcome' = outcome
      BY <1>3, <1>12, <2>1
    <3>2. QED
      BY <1>3, <3>1 DEF IInv, RefusedWithReason
  <2>2. CASE ~Named(VB)
    <3>1. \E x \in ToSet(util.controls) : FloatCallback(x)
      BY <1>3, <2>2 DEF IInv, Backed, Named
    <3>2. QED
      BY <1>3, <1>12, <2>2, <3>1 DEF RefusedWithReason
  <2>3. QED
    BY <2>1, <2>2
<1>21. InStep'
  <2>1. Active' => Named(VB')
    BY <1>3, <1>16
  <2>2. ASSUME Active', Distinct(VB'.controls), NEW d \in D
        PROVE  /\ Knows(shown'[d], VB', pending'[d])
               /\ \A k \in DOMAIN VB'.controls :
                    Agrees(d, shown'[d], VB', pending'[d], orders'[d], crossed', k)
    <3>1. CASE d \in C
      <4>1. /\ Knows(shown[d], VB, pending[d])
            /\ \A k \in DOMAIN VB.controls :
                 Agrees(d, shown[d], VB, pending[d], orders[d], crossed, k)
        BY <1>1, <1>3, <2>2, <3>1 DEF IInv, InStep, Agreed, State, Everyone
      <4>2. QED
        BY <1>3, <1>8, <1>9, <1>13, <3>1, <4>1
    <3>2. CASE d = c
      <4>1. pending'[d] = <<m>> /\ shown'[d] = << >> /\ orders'[d] = << >>
        BY <1>1, <1>3, <1>6, <1>8, <1>9, <1>12, <1>16, <2>2, <3>2
      <4>2. DOMAIN <<m>> = {1} /\ <<m>>[1] = m /\ Len(<<m>>) = 1 /\ Len(<< >>) = 0 /\ DOMAIN << >> = {}
        OBVIOUS
      <4>3. PICK n \in Nat : n = Len(VB.controls) /\ DOMAIN VB.controls = 1 .. n
        BY <1>7, ListTypes
      <4>4. PICK table \in Seq(Rows) : table = m.controls
        BY <1>7, <1>11, TableType
      <4>5. DOMAIN table = 1 .. n /\ Len(table) = n
        BY <1>11, <4>3, <4>4 DEF TableOf
      <4>6. \A k \in 1 .. n : /\ table[k].name = VB.controls[k].name /\ table[k].type = VB.controls[k].type
                              /\ table[k].value = VB.controls[k].value
        BY <1>11, <4>3, <4>4 DEF TableOf
      <4>7. Matches(table, VB)
        BY <4>3, <4>5, <4>6 DEF Matches
      <4>8. Knows(<< >>, VB, <<m>>)
        BY <1>11, <4>2, <4>4, <4>7 DEF Knows
      <4>9. ASSUME NEW k \in 1 .. n PROVE Agrees(d, << >>, VB, <<m>>, << >>, crossed, k)
        <5>1. VB.controls[k].name \in NamesIn(m)
          BY <1>11, <4>4, <4>5, <4>6 DEF NamesIn, ToSet
        <5>2. Says(m, k) = VB.controls[k].value
          BY <1>11, <4>4, <4>6 DEF Says
        <5>3. LastSays(<<m>>, VB.controls[k].name, k, VB.controls[k].value)
          BY <4>2, <5>1, <5>2 DEF LastSays
        <5>4. NoOrder(<< >>, k)
          BY <4>2 DEF NoOrder
        <5>5. QED
          BY <5>3, <5>4 DEF Agrees
      <4>10. QED
        BY <1>3, <4>1, <4>3, <4>8, <4>9
    <3>3. QED
      BY <1>1, <3>1, <3>2
  <2>3. QED
    BY <1>3, <1>13, <2>1, <2>2, StaysInStep
<1>22. QED
  BY <1>17, <1>18, <1>19, <1>20, <1>21 DEF IInv

-----------------------------------------------------------------------------
(* Creating a server: the file is read.                                    *)

(* While the file is read controls only change their values, and nothing   *)
(* but a hole ends the process.                                            *)
Restores(s, t) ==
  /\ SameLayout(s.VB, t.VB) /\ SameLists(s.VB, t.VB)
  /\ t.result = "ok" \/ (t.result = "crash" /\ ~Named(s.VB))

LEMMA ParsedReads ==
  ASSUME NEW C, NEW s \in States(C), NEW x \in States(C), NEW entry \in Entries, Restores(s, x),
         FindControl(s.VB, entry.name) # 0, NEW t, t = ParseControl(x, entry)
  PROVE  t \in States(C) /\ Restores(s, t)
<1>1. s.VB \in Blocks /\ x.VB \in Blocks /\ SameLayout(s.VB, x.VB) /\ SameLists(s.VB, x.VB)
  BY Parts DEF Restores
<1>2. DOMAIN x.VB.controls = DOMAIN s.VB.controls
  BY <1>1, LayoutDistinct
<1>3. FindControl(x.VB, entry.name) # 0
  <2>1. FindControl(x.VB, entry.name) = FindControl(s.VB, entry.name)
    <3>1. PICK n \in Nat : n = Len(s.VB.controls) /\ DOMAIN s.VB.controls = 1 .. n
      BY <1>1, ListTypes
    <3>2. Len(x.VB.controls) = n /\ \A k \in 1 .. n : x.VB.controls[k].name = s.VB.controls[k].name
      BY <1>1, <3>1 DEF SameLayout
    <3>3. {i \in 1 .. n : x.VB.controls[i].name = None \/ Alike(x.VB.controls[i].name, entry.name)}
          = {i \in 1 .. n : s.VB.controls[i].name = None \/ Alike(s.VB.controls[i].name, entry.name)}
      BY <3>2
    <3>4. QED
      BY <3>1, <3>2, <3>3 DEF FindControl, SelectInSeq
  <2>2. QED
    BY <2>1
<1>4. PICK k : k = FindControl(x.VB, entry.name)
  OBVIOUS
<1>5. /\ t \in States(C)
      /\ \/ t = x
         \/ Quiet(x, t) /\ t.result = "crash" /\ k \in DOMAIN x.VB.controls /\ x.VB.controls[k].name = None
         \/ /\ k \in DOMAIN x.VB.controls
            /\ x.result = "ok" /\ Gives(x, t, k, entry.value, IF x.VB.active THEN C ELSE {}, C)
  BY <1>3, <1>4, ParseGives
<1>6. CASE t = x
  BY <1>6
<1>7. CASE Quiet(x, t) /\ t.result = "crash" /\ k \in DOMAIN x.VB.controls /\ x.VB.controls[k].name = None
  <2>1. ~Named(s.VB)
    BY <1>1, <1>2, <1>7 DEF Named, SameLayout
  <2>2. t.VB = x.VB
    BY <1>7 DEF Quiet
  <2>3. QED
    BY <1>1, <1>5, <1>7, <2>1, <2>2 DEF Restores
<1>8. CASE k \in DOMAIN x.VB.controls /\ x.result = "ok"
           /\ Gives(x, t, k, entry.value, IF x.VB.active THEN C ELSE {}, C)
  <2>1. t.VB = [x.VB EXCEPT !.controls[k].value = entry.value] /\ t.result = "ok"
    BY <1>8 DEF Gives
  <2>2. entry.value \in Values
    BY DEF Entries
  <2>3. SameLayout(x.VB, t.VB) /\ SameLists(x.VB, t.VB)
    BY ONLY <1>1, <1>8, <2>1, <2>2, ValueGiven
  <2>4. SameLayout(s.VB, t.VB)
    BY <1>1, <1>2, <2>3 DEF SameLayout
  <2>5. SameLists(s.VB, t.VB)
    BY <1>1, <2>3 DEF SameLists
  <2>6. QED
    BY <1>5, <2>1, <2>4, <2>5 DEF Restores
<1>9. QED
  BY <1>5, <1>6, <1>7, <1>8

LEMMA LoadedReads ==
  ASSUME NEW C, NEW s \in States(C), s.result = "ok", NEW file \in Seq(Entries), NEW t, t = Loaded(s, file)
  PROVE  t \in States(C) /\ Restores(s, t)
<1>1. PICK n \in Nat : n = Len(file) /\ DOMAIN file = 1 .. n
  OBVIOUS
<1> DEFINE I == {i \in 1 .. n : Stops(s.VB, file[i])}
<1>2. PICK stop : stop = IF I # {} THEN Min(I) ELSE 0
  OBVIOUS
<1>3. t = Folded(ParseControl, s, IF stop = 0 THEN file ELSE SubSeq(file, 1, stop - 1))
  BY <1>1, <1>2 DEF Loaded, SelectInSeq
<1>4. I \in SUBSET (1 .. n)
  OBVIOUS
<1>5. I # {} => Min(I) \in I /\ \A i \in I : Min(I) <= i
  <2> HIDE DEF I
  <2>1. QED
    BY <1>4, Least
<1>6. PICK q : q = IF stop = 0 THEN file ELSE SubSeq(file, 1, stop - 1)
  OBVIOUS
<1>7. PICK l \in Nat : /\ l = Len(q) /\ l <= n
                       /\ \A i \in 1 .. l : i \in 1 .. n /\ q[i] = file[i] /\ i \notin I
  <2>1. CASE I = {}
    BY <1>1, <1>2, <1>6, <2>1
  <2>2. CASE I # {}
    <3>1. stop \in 1 .. n /\ \A i \in 1 .. stop - 1 : i \notin I
      <4> HIDE DEF I
      <4>1. stop \in 1 .. n /\ stop \in I /\ \A i \in I : stop <= i
        BY <1>2, <1>4, <1>5, <2>2
      <4>2. QED
        BY <1>4, <4>1
    <3>2. q = SubSeq(file, 1, stop - 1) /\ stop - 1 \in Nat /\ stop - 1 <= n
      BY <1>6, <3>1
    <3>3. Len(q) = stop - 1 /\ \A i \in 1 .. stop - 1 : i \in 1 .. n /\ q[i] = file[i]
      BY <1>1, <3>1, <3>2
    <3>4. QED
      BY <3>1, <3>2, <3>3
  <2>3. QED
    BY <2>1, <2>2
<1>8. \A i \in 1 .. l : q[i] \in Entries /\ FindControl(s.VB, q[i].name) # 0
  BY <1>1, <1>7 DEF Stops
<1>9. PICK S : S = [i \in 0 .. l |-> {x \in States(C) : Restores(s, x)}]
  OBVIOUS
<1>10. s \in S[0]
  BY <1>9 DEF Restores, SameLayout, SameLists
<1>11. ASSUME NEW i \in 1 .. l, NEW x \in S[i - 1] PROVE ParseControl(x, q[i]) \in S[i]
  <2>1. x \in States(C) /\ Restores(s, x)
    BY <1>9
  <2>2. ParseControl(x, q[i]) \in States(C) /\ Restores(s, ParseControl(x, q[i]))
    BY <1>8, <2>1, ParsedReads
  <2>3. QED
    BY <1>9, <2>2
<1>12. Folded(ParseControl, s, q) \in S[l]
  BY <1>7, <1>10, <1>11, LoadFold
<1>13. QED
  BY <1>3, <1>6, <1>9, <1>12

(* Partial sums. *)
LEMMA Sums ==
  ASSUME NEW n \in Nat, NEW w, \A i \in 1 .. n : w[i] \in Nat
  PROVE  \E L \in [0 .. n -> Nat] : /\ L[0] = 0
                                    /\ \A i \in 1 .. n : L[i] = L[i - 1] + w[i] /\ L[i] <= L[n]
<1>1. PICK S : S = [i \in 0 .. n |-> Nat]
  OBVIOUS
<1>2. PICK F : F = [x \in Nat \X (1 .. n) |-> x[1] + w[x[2]]]
  OBVIOUS
<1>3. \A i \in 1 .. n : i - 1 \in 0 .. n /\ i \in 0 .. n /\ w[i] \in Nat
  OBVIOUS
<1>4. 0 \in S[0] /\ \A i \in 1 .. n : S[i - 1] = Nat /\ S[i] = Nat
  BY <1>1, <1>3
<1>5. \A i \in 1 .. n : \A x \in Nat : F[<<x, i>>] = x + w[i]
  BY <1>2
<1>6. PICK f : /\ f = [i \in 0 .. n |-> f[i]] /\ f[0] = 0
               /\ \A i \in 1 .. n : f[i - 1] \in S[i - 1] /\ f[i] = F[<<f[i - 1], i>>]
  <2>1. ASSUME NEW i \in 1 .. n, NEW x \in S[i - 1] PROVE F[<<x, i>>] \in S[i]
    <3>1. x \in Nat /\ S[i] = Nat
      BY <1>4
    <3>2. F[<<x, i>>] = x + w[i] /\ w[i] \in Nat
      BY <1>3, <1>5, <3>1
    <3>3. x + w[i] \in Nat
      BY <3>1, <3>2
    <3>4. QED
      BY <3>1, <3>2, <3>3
  <2>2. \A i \in 1 .. n : \A x \in S[i - 1] : F[<<x, i>>] \in S[i]
    BY <2>1
  <2>3. PICK zero : zero = 0
    OBVIOUS
  <2>4. zero \in S[0]
    BY <1>4, <2>3
  <2>5. \E f : /\ f = [i \in 0 .. n |-> f[i]] /\ f[0] = zero
               /\ \A i \in 1 .. n : f[i - 1] \in S[i - 1] /\ f[i] = F[<<f[i - 1], i>>]
    BY ONLY n \in Nat, <2>2, <2>4, Row
  <2>6. QED
    BY <2>3, <2>5
<1>7. /\ \A i \in 1 .. n : f[i - 1] \in Nat /\ f[i] = f[i - 1] + w[i] /\ f[i] \in Nat
      /\ \A i \in 0 .. n : f[i] \in Nat
  <2>1. ASSUME NEW i \in 1 .. n PROVE f[i - 1] \in Nat /\ f[i] = f[i - 1] + w[i] /\ f[i] \in Nat
    <3>1. f[i - 1] \in Nat /\ f[i] = F[<<f[i - 1], i>>]
      BY <1>4, <1>6
    <3>2. f[i] = f[i - 1] + w[i]
      BY <1>5, <3>1
    <3>3. f[i - 1] + w[i] \in Nat
      BY <1>3, <3>1
    <3>4. QED
      BY <3>1, <3>2, <3>3
  <2>2. ASSUME NEW i \in 0 .. n PROVE f[i] \in Nat
    <3>1. CASE i = 0
      BY <1>6, <3>1
    <3>2. CASE i \in 1 .. n
      BY <2>1, <3>2
    <3>3. QED
      BY <3>1, <3>2
  <2>3. QED
    BY <2>1, <2>2
<1>8. \A i \in 0 .. n : \A j \in 0 .. i : f[j] <= f[i]
  <2> DEFINE A == {i \in 0 .. n : \A j \in 0 .. i : f[j] <= f[i]}
  <2>1. 0 \in A
    BY <1>7
  <2>2. ASSUME NEW i \in 0 .. n - 1, i \in A PROVE i + 1 \in A
    <3>1. f[i] <= f[i + 1] /\ i + 1 \in 0 .. n /\ f[i] \in Nat /\ f[i + 1] \in Nat
      BY <1>7, <1>3
    <3>2. ASSUME NEW j \in 0 .. i + 1 PROVE f[j] <= f[i + 1]
      <4>1. CASE j = i + 1
        BY <3>1, <4>1
      <4>2. CASE j \in 0 .. i
        BY <1>7, <2>2, <3>1, <4>2
      <4>3. QED
        BY <4>1, <4>2
    <3>3. QED
      BY <3>1, <3>2
  <2>3. \A i \in 0 .. n : i \in A
    <3> HIDE DEF A
    <3>1. QED
      BY <2>1, <2>2, Counting
  <2>4. QED
    BY <2>3
<1>9. f \in [0 .. n -> Nat] /\ \A i \in 1 .. n : f[i] <= f[n]
  <2>1. n \in 0 .. n /\ \A i \in 1 .. n : i \in 0 .. n
    OBVIOUS
  <2>2. QED
    BY <1>6, <1>7, <1>8, <2>1
<1>10. QED
  BY <1>6, <1>7, <1>9

(* The limits are the sums of what the game registered. *)
LEMMA LabelsLimit ==
  ASSUME NEW u \in Lists, NEW n \in Nat, n = Len(u.channels)
  PROVE  \E L \in [0 .. n -> Nat] : /\ L[0] = 0 /\ L[n] = Limits(u).labels
                                    /\ \A i \in 1 .. n : L[i] = L[i - 1] + Len(u.channels[i].labels) /\ L[i] <= L[n]
<1>1. PICK q \in Seq(ListedChannels) : q = u.channels
  BY DEF Lists
<1>2. \A i \in 1 .. n : Len(q[i].labels) \in Nat
  <2>1. \A i \in 1 .. n : q[i] \in ListedChannels
    BY <1>1
  <2>2. \A c \in ListedChannels : Len(c.labels) \in Nat
    BY DEF ListedChannels
  <2>3. QED
    BY <2>1, <2>2
<1>3. PICK w : \A i \in 1 .. n : w[i] = Len(q[i].labels)
  <2>1. PICK w : w = [i \in 1 .. n |-> Len(q[i].labels)]
    OBVIOUS
  <2>2. QED
    BY <2>1
<1>4. PICK L \in [0 .. n -> Nat] : L[0] = 0 /\ \A i \in 1 .. n : L[i] = L[i - 1] + w[i] /\ L[i] <= L[n]
  <2>1. \A i \in 1 .. n : w[i] \in Nat
    BY <1>2, <1>3
  <2>2. QED
    BY ONLY n \in Nat, <2>1, Sums
<1>5. PICK S : S = [i \in 0 .. n |-> {L[i]}]
  OBVIOUS
<1>6. 0 \in S[0] /\ \A i \in 1 .. n : \A x \in S[i - 1] : x + Len(q[i].labels) \in S[i]
  <2>1. \A i \in 1 .. n : S[i - 1] = {L[i - 1]} /\ S[i] = {L[i]}
    BY <1>5
  <2>2. QED
    BY <1>3, <1>4, <1>5, <2>1
<1>7. Limits(u).labels \in S[n] /\ S[n] = {L[n]}
  <2>1. n = Len(q) /\ q = u.channels
    BY <1>1
  <2>2. PICK zero : zero = 0 /\ zero \in S[0]
    BY <1>6
  <2>3. \A i \in 1 .. n : \A x \in S[i - 1] : x + Len(q[i].labels) \in S[i]
    BY <1>6
  <2>4. Limits(u).labels \in S[n]
    BY ONLY n \in Nat, <2>1, <2>2, <2>3, LabelsFold
  <2>5. n \in 0 .. n
    OBVIOUS
  <2>6. QED
    BY <1>5, <2>4, <2>5
<1>8. QED
  BY <1>1, <1>3, <1>4, <1>5, <1>7

LEMMA MembersLimit ==
  ASSUME NEW u \in Lists, NEW n \in Nat, n = Len(u.groups)
  PROVE  \E L \in [0 .. n -> Nat] : /\ L[0] = 0 /\ L[n] = Limits(u).members
                                    /\ \A i \in 1 .. n : L[i] = L[i - 1] + Len(u.groups[i].channels) /\ L[i] <= L[n]
<1>1. PICK q \in Seq(ListedGroups) : q = u.groups
  BY DEF Lists
<1>2. \A i \in 1 .. n : Len(q[i].channels) \in Nat
  <2>1. \A i \in 1 .. n : q[i] \in ListedGroups
    BY <1>1
  <2>2. \A c \in ListedGroups : Len(c.channels) \in Nat
    BY DEF ListedGroups
  <2>3. QED
    BY <2>1, <2>2
<1>3. PICK w : \A i \in 1 .. n : w[i] = Len(q[i].channels)
  <2>1. PICK w : w = [i \in 1 .. n |-> Len(q[i].channels)]
    OBVIOUS
  <2>2. QED
    BY <2>1
<1>4. PICK L \in [0 .. n -> Nat] : L[0] = 0 /\ \A i \in 1 .. n : L[i] = L[i - 1] + w[i] /\ L[i] <= L[n]
  <2>1. \A i \in 1 .. n : w[i] \in Nat
    BY <1>2, <1>3
  <2>2. QED
    BY ONLY n \in Nat, <2>1, Sums
<1>5. PICK S : S = [i \in 0 .. n |-> {L[i]}]
  OBVIOUS
<1>6. 0 \in S[0] /\ \A i \in 1 .. n : \A x \in S[i - 1] : x + Len(q[i].channels) \in S[i]
  <2>1. \A i \in 1 .. n : S[i - 1] = {L[i - 1]} /\ S[i] = {L[i]}
    BY <1>5
  <2>2. QED
    BY <1>3, <1>4, <1>5, <2>1
<1>7. Limits(u).members \in S[n] /\ S[n] = {L[n]}
  <2>1. n = Len(q) /\ q = u.groups
    BY <1>1
  <2>2. PICK zero : zero = 0 /\ zero \in S[0]
    BY <1>6
  <2>3. \A i \in 1 .. n : \A x \in S[i - 1] : x + Len(q[i].channels) \in S[i]
    BY <1>6
  <2>4. Limits(u).members \in S[n]
    BY ONLY n \in Nat, <2>1, <2>2, <2>3, MembersFold
  <2>5. n \in 0 .. n
    OBVIOUS
  <2>6. QED
    BY <1>5, <2>4, <2>5
<1>8. QED
  BY <1>1, <1>3, <1>4, <1>5, <1>7

-----------------------------------------------------------------------------
(* Creating a server: the lists are replayed.                              *)

(* What a block has all along. *)
Base(b, u) ==
  /\ b \in Blocks /\ b.active = FALSE
  /\ b.limits = Limits(u) /\ b.file = u.file /\ b.command = u.command

Mark(u, h, l) == [handle |-> h - 1, name |-> u.channels[h].labels[l]]

(* The first i channels, their labels and no others. *)
HasChannels(b, u, i) ==
  /\ Len(b.channels) = i
  /\ \A h \in 1 .. i : /\ b.channels[h].name = u.channels[h].name
                       /\ b.channels[h].ranged = u.channels[h].ranged

OnlyMarks(b, u, i) == \A k \in DOMAIN b.labels :
  \E h \in 1 .. i : \E l \in DOMAIN u.channels[h].labels : b.labels[k] = Mark(u, h, l)

AllMarks(b, u, i) == \A h \in 1 .. i : \A l \in DOMAIN u.channels[h].labels :
  \E k \in DOMAIN b.labels : b.labels[k] = Mark(u, h, l)

Nothing(b) == b.groups = << >> /\ b.members = << >> /\ b.controls = << >>

(* After i channels; and after channel i and the first j of its labels.    *)
Channelled(x, u, L, i) ==
  /\ x \in States({}) /\ x.result = "ok" /\ Base(x.VB, u) /\ Nothing(x.VB)
  /\ HasChannels(x.VB, u, i)
  /\ Len(x.VB.labels) = L[i] /\ OnlyMarks(x.VB, u, i) /\ AllMarks(x.VB, u, i)

Labelling(x, u, L, i, j) ==
  /\ x \in States({}) /\ x.result = "ok" /\ Base(x.VB, u) /\ Nothing(x.VB)
  /\ HasChannels(x.VB, u, i)
  /\ Len(x.VB.labels) = L[i - 1] + j /\ OnlyMarks(x.VB, u, i) /\ AllMarks(x.VB, u, i - 1)
  /\ \A l \in 1 .. j : \E k \in DOMAIN x.VB.labels : x.VB.labels[k] = Mark(u, i, l)

WithLabel(b, handle, label) == [b EXCEPT !.labels = Append(b.labels, [handle |-> handle, name |-> label])]
WithRange(b, handle)        == [b EXCEPT !.channels = [b.channels EXCEPT ![handle + 1].ranged = TRUE]]
WithChannel(b, name)        == [b EXCEPT !.channels = Append(b.channels, [name |-> name, ranged |-> FALSE])]

CanLabel(s, handle, C) ==
  /\ s \in States(C) /\ s.result = "ok" /\ s.VB.active = FALSE
  /\ handle < Len(s.VB.channels) /\ Len(s.VB.labels) < s.VB.limits.labels

LEMMA AddLabelGives ==
  ASSUME NEW C, NEW s, NEW handle \in Nat, NEW label \in Labels, CanLabel(s, handle, C), NEW t, t = DataAddLabel(s, handle, label)
  PROVE  t \in States(C) /\ t.result = "ok" /\ t.VB = WithLabel(s.VB, handle, label)
<1>1. t = [s EXCEPT !.VB.labels = Append(s.VB.labels, [handle |-> handle, name |-> label])]
  BY DEF DataAddLabel, Try, CanLabel
<1>2. s \in States(C) /\ t \in States(C) /\ s.result = "ok"
  BY AddLabelType DEF CanLabel
<1>3. QED
  BY <1>1, <1>2 DEF States, WithLabel

LEMMA SetRangeGives ==
  ASSUME NEW C, NEW s \in States(C), NEW handle \in Nat,
         s.result = "ok", handle < Len(s.VB.channels), s.VB.active = FALSE,
         NEW t, t = DataSetRange(s, handle)
  PROVE  t \in States(C) /\ t.result = "ok" /\ t.VB = WithRange(s.VB, handle)
<1>1. t = [s EXCEPT !.VB.channels[handle + 1].ranged = TRUE]
  BY DEF DataSetRange, Try
<1>2. t \in States(C)
  BY SetRangeType
<1>3. QED
  BY <1>1, <1>2 DEF States, WithRange

LEMMA ChannelGives ==
  ASSUME NEW C, NEW s \in States(C), NEW name \in Names,
         s.result = "ok", Len(s.VB.channels) < s.VB.limits.channels,
         NEW t, t = DataAddChannel(s, name)
  PROVE  t \in States(C) /\ t.result = "ok" /\ t.VB = WithChannel(s.VB, name)
<1>1. t = [s EXCEPT !.VB.channels = Append(s.VB.channels, [name |-> name, ranged |-> FALSE])]
  BY DEF DataAddChannel, Try
<1>2. t \in States(C)
  BY AddChannelType
<1>3. QED
  BY <1>1, <1>2 DEF States, WithChannel

SameButChannels(b, d) ==
  /\ d.limits = b.limits /\ d.file = b.file /\ d.command = b.command /\ d.active = b.active
  /\ d.groups = b.groups /\ d.members = b.members /\ d.labels = b.labels /\ d.controls = b.controls

GainsChannel(b, d, c, n) ==
  /\ SameButChannels(b, d)
  /\ Len(d.channels) = n + 1 /\ \A h \in 1 .. n : d.channels[h] = b.channels[h]
  /\ d.channels[n + 1].name = c.name /\ d.channels[n + 1].ranged = c.ranged

LEMMA UnlabelledGives ==
  ASSUME NEW C, NEW s \in States(C), NEW c \in ListedChannels, s.result = "ok", s.VB.active = FALSE,
         NEW n \in Nat, n = Len(s.VB.channels), n < s.VB.limits.channels, NEW t, t = Unlabelled(s, c)
  PROVE  t \in States(C) /\ t.result = "ok" /\ GainsChannel(s.VB, t.VB, c, n)
<1>1. c.name \in Names /\ c.ranged \in BOOLEAN
  BY UtilAssumption DEF ListedChannels
<1>2. PICK b \in Blocks : b = s.VB
  BY Parts
<1>3. PICK q \in Seq(Channels) : q = b.channels /\ DOMAIN q = 1 .. n /\ n = Len(q)
  BY <1>2, ListTypes
<1>4. PICK x \in Channels : x = [name |-> c.name, ranged |-> FALSE]
  BY <1>1 DEF Channels
<1>5. PICK y \in Channels : y = [x EXCEPT !.ranged = TRUE]
  BY DEF Channels
<1>6. x.name = c.name /\ x.ranged = FALSE /\ y.name = c.name /\ y.ranged = TRUE
  BY <1>4, <1>5
<1>7. PICK q2 \in Seq(Channels) : /\ q2 = Append(q, x) /\ Len(q2) = n + 1 /\ DOMAIN q2 = 1 .. n + 1
                                  /\ q2[n + 1] = x /\ \A h \in 1 .. n : q2[h] = q[h]
  <2>1. Append(q, x) \in Seq(Channels) /\ Len(Append(q, x)) = n + 1
    BY <1>3
  <2>2. DOMAIN Append(q, x) = 1 .. n + 1
    BY <1>3
  <2>3. Append(q, x)[n + 1] = x /\ \A h \in 1 .. n : Append(q, x)[h] = q[h]
    BY <1>3
  <2>4. QED
    BY <2>1, <2>2, <2>3
<1>8. PICK a : a = DataAddChannel(s, c.name)
  OBVIOUS
<1>9. a \in States(C) /\ a.result = "ok" /\ a.VB = [b EXCEPT !.channels = q2]
  <2>1. Len(s.VB.channels) < s.VB.limits.channels
    OBVIOUS
  <2>2. a \in States(C) /\ a.result = "ok" /\ a.VB = WithChannel(s.VB, c.name)
    BY <1>1, <1>8, <2>1, ChannelGives
  <2>3. QED
    BY <1>2, <1>3, <1>4, <1>7, <2>2 DEF WithChannel
<1>10. a.VB \in Blocks /\ a.VB.channels = q2 /\ SameButChannels(b, a.VB)
  <2>1. a.VB \in Blocks
    BY <1>9, Parts
  <2>2. QED
    BY <1>9, <2>1 DEF Blocks, SameButChannels
<1>11. CASE ~c.ranged
  <2>1. t = a
    BY <1>8, <1>11 DEF Unlabelled
  <2>2. c.ranged = FALSE
    BY <1>1, <1>11
  <2>3. t.VB.channels = q2
    BY <1>10, <2>1
  <2>4. Len(t.VB.channels) = n + 1 /\ (\A h \in 1 .. n : t.VB.channels[h] = s.VB.channels[h])
        /\ t.VB.channels[n + 1] = x
    BY ONLY <1>2, <1>3, <1>7, <2>3
  <2>5. QED
    BY ONLY <1>2, <1>6, <1>9, <1>10, <2>1, <2>2, <2>4 DEF GainsChannel
<1>12. CASE c.ranged
  <2>1. t = DataSetRange(a, n)
    BY <1>8, <1>12 DEF Unlabelled
  <2>2. a.VB.active = FALSE /\ n < Len(a.VB.channels)
    BY <1>2, <1>7, <1>10 DEF SameButChannels
  <2>3. t \in States(C) /\ t.result = "ok"
        /\ t.VB = WithRange(a.VB, n)
    <3>1. a \in States(C) /\ a.result = "ok"
      BY <1>9
    <3>2. QED
      BY ONLY n \in Nat, <2>1, <2>2, <3>1, SetRangeGives
  <2>4. [a.VB.channels EXCEPT ![n + 1].ranged = TRUE] = [q2 EXCEPT ![n + 1] = y]
    BY <1>5, <1>7, <1>10
  <2>5. PICK q3 : /\ q3 = [q2 EXCEPT ![n + 1] = y] /\ Len(q3) = n + 1
                  /\ q3[n + 1] = y /\ \A h \in 1 .. n : q3[h] = q2[h]
    <3>1. n + 1 \in 1 .. n + 1 /\ \A h \in 1 .. n : h # n + 1 /\ h \in 1 .. n + 1
      OBVIOUS
    <3>2. PICK q3 : q3 = [q2 EXCEPT ![n + 1] = y]
      OBVIOUS
    <3>3. Len(q3) = n + 1
      BY <1>7, <3>2, ReplaceType
    <3>4. q3[n + 1] = y /\ \A h \in 1 .. n : q3[h] = q2[h]
      BY <1>7, <3>1, <3>2
    <3>5. QED
      BY <3>2, <3>3, <3>4
  <2>6. t.VB = [a.VB EXCEPT !.channels = q3]
    BY <2>3, <2>4, <2>5 DEF WithRange
  <2>7. t.VB.channels = q3 /\ SameButChannels(b, t.VB)
    BY <1>10, <2>6 DEF Blocks, SameButChannels
  <2>8. c.ranged = TRUE
    BY <1>1, <1>12
  <2>9. Len(t.VB.channels) = n + 1 /\ (\A h \in 1 .. n : t.VB.channels[h] = s.VB.channels[h])
        /\ t.VB.channels[n + 1] = y
    BY ONLY <1>2, <1>3, <1>7, <2>5, <2>7
  <2>10. QED
    BY ONLY <1>2, <1>6, <2>3, <2>7, <2>8, <2>9 DEF GainsChannel
<1>13. QED
  BY <1>11, <1>12

LEMMA LabellingStep ==
  ASSUME NEW u \in Lists, NEW n \in Nat, n = Len(u.channels), NEW i \in 1 .. n,
         NEW L, \A k \in 0 .. n : L[k] \in Nat, L[n] = Limits(u).labels, L[i] <= L[n],
         L[i] = L[i - 1] + Len(u.channels[i].labels),
         NEW j \in 1 .. Len(u.channels[i].labels), NEW x, Labelling(x, u, L, i, j - 1),
         NEW label, label = u.channels[i].labels[j], NEW t, t = DataAddLabel(x, i - 1, label)
  PROVE  Labelling(t, u, L, i, j)
<1>1. /\ x \in States({}) /\ x.result = "ok" /\ Base(x.VB, u) /\ Nothing(x.VB)
      /\ HasChannels(x.VB, u, i)
      /\ Len(x.VB.labels) = L[i - 1] + (j - 1) /\ OnlyMarks(x.VB, u, i) /\ AllMarks(x.VB, u, i - 1)
      /\ \A l \in 1 .. j - 1 : \E k \in DOMAIN x.VB.labels : x.VB.labels[k] = Mark(u, i, l)
  BY DEF Labelling
<1>2. PICK b \in Blocks : b = x.VB
  BY <1>1 DEF Base
<1>3. b.active = FALSE /\ b.limits = Limits(u) /\ b.file = u.file /\ b.command = u.command
  BY <1>1, <1>2 DEF Base
<1>4. u.channels[i].labels \in Seq(Labels) /\ i - 1 \in Nat
  <2>1. u.channels \in Seq(ListedChannels)
    BY DEF Lists
  <2>2. u.channels[i] \in ListedChannels
    BY <2>1
  <2>3. QED
    BY <2>2 DEF ListedChannels
<1>5. PICK w \in Nat : w = Len(u.channels[i].labels) /\ DOMAIN u.channels[i].labels = 1 .. w
  BY <1>4
<1>6. label \in Labels
  BY <1>4, <1>5
<1>7. PICK q \in Seq(Marks) : q = b.labels
  BY ListTypes
<1>8. PICK a \in Nat : a = Len(q) /\ DOMAIN q = 1 .. a /\ a = L[i - 1] + (j - 1)
  BY <1>1, <1>2, <1>7
<1>9. a < L[n]
  <2>1. i - 1 \in 0 .. n /\ i \in 0 .. n /\ n \in 0 .. n
    OBVIOUS
  <2>2. PICK p \in Nat, r \in Nat, z \in Nat : p = L[i - 1] /\ r = L[i] /\ z = L[n]
    BY <2>1
  <2>3. r = p + w /\ r <= z /\ a = p + (j - 1) /\ j <= w /\ j \in Nat
    BY <1>5, <1>8, <2>2
  <2>4. a < z
    BY <2>3
  <2>5. QED
    BY <2>2, <2>4
<1>10. Len(b.channels) = i
  BY <1>1, <1>2 DEF HasChannels
<1>11. PICK m \in Marks : m = [handle |-> i - 1, name |-> label]
  BY <1>4, <1>6 DEF Marks
<1>12. m = Mark(u, i, j)
  BY <1>11 DEF Mark
<1>13. PICK q2 : q2 = Append(q, m)
  OBVIOUS
<1>14. Len(q2) = a + 1 /\ DOMAIN q2 = 1 .. a + 1 /\ q2[a + 1] = m /\ \A k \in 1 .. a : q2[k] = q[k]
  BY <1>8, <1>13
<1>15. t \in States({}) /\ t.result = "ok" /\ t.VB = [b EXCEPT !.labels = q2]
  <2>1. x \in States({}) /\ x.result = "ok"
    BY <1>1
  <2>2. i - 1 < Len(x.VB.channels) /\ Len(x.VB.labels) < x.VB.limits.labels /\ x.VB.active = FALSE
    BY <1>2, <1>3, <1>7, <1>8, <1>9, <1>10
  <2>3. t.VB = WithLabel(x.VB, i - 1, label) /\ t \in States({}) /\ t.result = "ok"
    <3>1. PICK handle \in Nat : handle = i - 1
      BY <1>4
    <3>2. t = DataAddLabel(x, handle, label) /\ handle < Len(x.VB.channels)
      BY <2>2, <3>1
    <3>3. CanLabel(x, handle, {})
      BY <2>1, <2>2, <3>2 DEF CanLabel
    <3>4. t.VB = WithLabel(x.VB, handle, label) /\ t \in States({}) /\ t.result = "ok"
      BY ONLY handle \in Nat, <1>6, <3>2, <3>3, AddLabelGives
    <3>5. QED
      BY <3>1, <3>4
  <2>4. QED
    BY <1>2, <1>7, <1>11, <1>13, <2>3 DEF WithLabel
<1>16. /\ t.VB \in Blocks /\ t.VB.labels = q2 /\ t.VB.channels = b.channels /\ t.VB.groups = b.groups
       /\ t.VB.members = b.members /\ t.VB.controls = b.controls /\ t.VB.limits = b.limits
       /\ t.VB.file = b.file /\ t.VB.command = b.command /\ t.VB.active = b.active
  <2>1. t.VB \in Blocks
    BY <1>15, Parts
  <2>2. QED
    BY <1>15, <2>1 DEF Blocks
<1>17. Base(t.VB, u) /\ Nothing(t.VB) /\ HasChannels(t.VB, u, i)
  BY ONLY <1>1, <1>2, <1>3, <1>16 DEF Base, Nothing, HasChannels
<1>18. Len(t.VB.labels) = L[i - 1] + j
  <2>1. i - 1 \in 0 .. n
    OBVIOUS
  <2>2. PICK p \in Nat : p = L[i - 1]
    BY <2>1
  <2>3. QED
    BY <1>8, <1>14, <1>16, <2>2
<1>19. \A m1 : (\E k \in 1 .. a : q[k] = m1) \/ m1 = m => \E k \in 1 .. a + 1 : q2[k] = m1
  BY <1>14
<1>20. \A k \in 1 .. a + 1 : k \in 1 .. a \/ k = a + 1
  OBVIOUS
<1>21. OnlyMarks(t.VB, u, i)
  <2>1. ASSUME NEW k \in 1 .. a + 1
        PROVE  \E h \in 1 .. i : \E l \in DOMAIN u.channels[h].labels : q2[k] = Mark(u, h, l)
    <3>1. CASE k \in 1 .. a
      BY <1>1, <1>2, <1>7, <1>8, <1>14, <3>1 DEF OnlyMarks
    <3>2. CASE k = a + 1
      <4>1. i \in 1 .. i
        OBVIOUS
      <4>2. QED
        BY <1>5, <1>12, <1>14, <3>2, <4>1
    <3>3. QED
      BY <1>20, <3>1, <3>2
  <2>2. QED
    BY <1>14, <1>16, <2>1 DEF OnlyMarks
<1>22. AllMarks(t.VB, u, i - 1)
  <2>1. ASSUME NEW h \in 1 .. i - 1, NEW l \in DOMAIN u.channels[h].labels
        PROVE  \E k \in 1 .. a + 1 : q2[k] = Mark(u, h, l)
    <3>1. \E k \in 1 .. a : q[k] = Mark(u, h, l)
      BY <1>1, <1>2, <1>7, <1>8 DEF AllMarks
    <3>2. QED
      BY <1>19, <3>1
  <2>2. QED
    BY <1>14, <1>16, <2>1 DEF AllMarks
<1>23. ASSUME NEW l \in 1 .. j PROVE \E k \in DOMAIN t.VB.labels : t.VB.labels[k] = Mark(u, i, l)
  <2>1. CASE l = j
    BY <1>12, <1>14, <1>16, <1>19, <2>1
  <2>2. CASE l \in 1 .. j - 1
    <3>1. \E k \in 1 .. a : q[k] = Mark(u, i, l)
      BY <1>1, <1>2, <1>7, <1>8, <2>2
    <3>2. QED
      BY <1>14, <1>16, <1>19, <3>1
  <2>3. QED
    BY <2>1, <2>2
<1>24. QED
  BY <1>15, <1>17, <1>18, <1>21, <1>22, <1>23 DEF Labelling

LEMMA ChannelReplayed ==
  ASSUME NEW u \in Lists, NEW n \in Nat, n = Len(u.channels), NEW i \in 1 .. n,
         NEW L, \A k \in 0 .. n : L[k] \in Nat, L[n] = Limits(u).labels, L[i] <= L[n],
         L[i] = L[i - 1] + Len(u.channels[i].labels),
         NEW x, Channelled(x, u, L, i - 1), NEW t, t = ReplayChannel(x, u.channels[i])
  PROVE  Channelled(t, u, L, i)
<1>1. PICK c \in ListedChannels : c = u.channels[i]
  <2>1. u.channels \in Seq(ListedChannels)
    BY DEF Lists
  <2>2. QED
    BY <2>1
<1>2. PICK w \in Nat : w = Len(c.labels) /\ DOMAIN c.labels = 1 .. w
  <2>1. c.labels \in Seq(Labels)
    BY DEF ListedChannels
  <2>2. QED
    BY <2>1
<1>3. /\ x \in States({}) /\ x.result = "ok" /\ Base(x.VB, u) /\ Nothing(x.VB)
      /\ HasChannels(x.VB, u, i - 1)
      /\ Len(x.VB.labels) = L[i - 1] /\ OnlyMarks(x.VB, u, i - 1) /\ AllMarks(x.VB, u, i - 1)
  BY DEF Channelled
<1>4. PICK h \in Nat : h = i - 1 /\ h < n /\ i = h + 1
  OBVIOUS
<1>5. h = Len(x.VB.channels) /\ Limits(u).channels = n /\ x.VB.limits = Limits(u) /\ x.VB.active = FALSE
  BY <1>3, <1>4 DEF HasChannels, Base, Limits
<1>6. PICK r : r = Unlabelled(x, c)
  OBVIOUS
<1>7. r \in States({}) /\ r.result = "ok" /\ GainsChannel(x.VB, r.VB, c, h)
  <2>1. h < x.VB.limits.channels /\ x.VB.active = FALSE /\ h = Len(x.VB.channels)
    BY <1>4, <1>5
  <2>2. x \in States({}) /\ x.result = "ok"
    BY <1>3
  <2>3. QED
    BY ONLY c \in ListedChannels, h \in Nat, <1>6, <2>1, <2>2, UnlabelledGives
<1>8. Labelling(r, u, L, i, 0)
  <2>1. r.VB \in Blocks
    BY <1>7, Parts
  <2>2. Base(r.VB, u) /\ Nothing(r.VB)
    BY <1>3, <1>7, <2>1 DEF Base, Nothing, SameButChannels, GainsChannel
  <2>3. HasChannels(r.VB, u, i)
    <3>1. \A g \in 1 .. i : g \in 1 .. h \/ g = h + 1
      BY <1>4
    <3>2. \A g \in 1 .. h : r.VB.channels[g].name = u.channels[g].name /\ r.VB.channels[g].ranged = u.channels[g].ranged
      BY <1>3, <1>4, <1>7 DEF HasChannels, GainsChannel
    <3>3. r.VB.channels[i].name = u.channels[i].name /\ r.VB.channels[i].ranged = u.channels[i].ranged
      BY <1>1, <1>4, <1>7 DEF GainsChannel
    <3>4. QED
      BY <1>4, <1>7, <3>1, <3>2, <3>3 DEF HasChannels, GainsChannel
  <2>4. OnlyMarks(r.VB, u, i)
    <3>1. r.VB.labels = x.VB.labels /\ \A g \in 1 .. i - 1 : g \in 1 .. i
      BY <1>7 DEF SameButChannels, GainsChannel
    <3>2. QED
      BY <1>3, <3>1 DEF OnlyMarks
  <2>5. AllMarks(r.VB, u, i - 1)
    BY <1>3, <1>7 DEF AllMarks, SameButChannels, GainsChannel
  <2>6. Len(r.VB.labels) = L[i - 1] + 0
    <3>1. i - 1 \in 0 .. n /\ r.VB.labels = x.VB.labels
      BY <1>7 DEF SameButChannels, GainsChannel
    <3>2. PICK p \in Nat : p = L[i - 1]
      BY <3>1
    <3>3. QED
      BY <1>3, <3>1, <3>2
  <2>7. \A l \in 1 .. 0 : FALSE
    OBVIOUS
  <2>8. QED
    BY <1>7, <2>2, <2>3, <2>4, <2>5, <2>6, <2>7 DEF Labelling
<1>9. PICK S : S = [j \in 0 .. w |-> {y \in States({}) : Labelling(y, u, L, i, j)}]
  OBVIOUS
<1>10. r \in S[0]
  BY <1>7, <1>8, <1>9
<1>11. ASSUME NEW j \in 1 .. w, NEW y \in S[j - 1] PROVE DataAddLabel(y, Len(x.VB.channels), c.labels[j]) \in S[j]
  <2>1. j - 1 \in 0 .. w /\ j \in 0 .. w
    OBVIOUS
  <2>2. Labelling(y, u, L, i, j - 1)
    BY <1>9, <2>1
  <2>3. PICK z : z = DataAddLabel(y, i - 1, c.labels[j])
    OBVIOUS
  <2>4. Labelling(z, u, L, i, j)
    BY <1>1, <1>2, <2>2, <2>3, LabellingStep
  <2>5. z \in States({})
    BY <2>4 DEF Labelling
  <2>6. QED
    BY <1>4, <1>5, <1>9, <2>1, <2>3, <2>4, <2>5
<1>12. ReplayChannel(x, c) \in S[w]
  <2>1. w = Len(c.labels) /\ \A j \in 1 .. w : \A y \in S[j - 1] : DataAddLabel(y, Len(x.VB.channels), c.labels[j]) \in S[j]
    BY <1>2, <1>11
  <2>2. QED
    BY ONLY w \in Nat, <1>6, <1>10, <2>1, LabellingFold
<1>13. Labelling(t, u, L, i, w)
  <2>1. w \in 0 .. w
    OBVIOUS
  <2>2. QED
    BY <1>1, <1>9, <1>12, <2>1
<1>14. AllMarks(t.VB, u, i)
  <2>1. \A g \in 1 .. i : g \in 1 .. i - 1 \/ g = i
    OBVIOUS
  <2>2. QED
    BY <1>1, <1>2, <1>13, <2>1 DEF Labelling, AllMarks
<1>15. QED
  BY <1>1, <1>2, <1>13, <1>14 DEF Labelling, Channelled

LEMMA ChannelsReplayed ==
  ASSUME NEW u \in Lists, NEW n \in Nat, n = Len(u.channels),
         NEW L, \A k \in 0 .. n : L[k] \in Nat, L[n] = Limits(u).labels,
         \A i \in 1 .. n : L[i] = L[i - 1] + Len(u.channels[i].labels) /\ L[i] <= L[n],
         NEW s, Channelled(s, u, L, 0), NEW t, t = Folded(ReplayChannel, s, u.channels)
  PROVE  Channelled(t, u, L, n)
<1>1. PICK S : S = [i \in 0 .. n |-> {y \in States({}) : Channelled(y, u, L, i)}]
  OBVIOUS
<1>2. PICK q : q = u.channels
  OBVIOUS
<1>3. s \in S[0]
  BY <1>1 DEF Channelled
<1>4. ASSUME NEW i \in 1 .. n, NEW x \in S[i - 1] PROVE ReplayChannel(x, q[i]) \in S[i]
  <2>1. i - 1 \in 0 .. n /\ i \in 0 .. n
    OBVIOUS
  <2>2. Channelled(x, u, L, i - 1)
    BY <1>1, <2>1
  <2>3. PICK z : z = ReplayChannel(x, u.channels[i])
    OBVIOUS
  <2>4. Channelled(z, u, L, i)
    BY <2>2, <2>3, ChannelReplayed
  <2>5. z \in States({})
    BY <2>4 DEF Channelled
  <2>6. QED
    BY <1>1, <1>2, <2>1, <2>3, <2>4, <2>5
<1>5. Folded(ReplayChannel, s, q) \in S[n]
  <2>1. n = Len(q)
    BY <1>2
  <2>2. \A i \in 1 .. n : \A x \in S[i - 1] : ReplayChannel(x, q[i]) \in S[i]
    BY <1>4
  <2>3. QED
    BY ONLY n \in Nat, <1>3, <2>1, <2>2, ChannelsFold
<1>6. n \in 0 .. n
  OBVIOUS
<1>7. QED
  BY <1>1, <1>2, <1>5, <1>6

(* The same for groups and their channels. *)
Join(u, g, m) == [group |-> g - 1, channel |-> u.groups[g].channels[m]]

HasGroups(b, u, i) == Len(b.groups) = i /\ \A g \in 1 .. i : b.groups[g] = u.groups[g].name

OnlyJoins(b, u, i) == \A k \in DOMAIN b.members :
  \E g \in 1 .. i : \E m \in DOMAIN u.groups[g].channels : b.members[k] = Join(u, g, m)

AllJoins(b, u, i) == \A g \in 1 .. i : \A m \in DOMAIN u.groups[g].channels :
  \E k \in DOMAIN b.members : b.members[k] = Join(u, g, m)

(* What the channels were replayed to, a, stays. *)
Keeps(b, a) == b.channels = a.channels /\ b.labels = a.labels /\ b.controls = << >>

Grouped(x, u, L, a, i) ==
  /\ x \in States({}) /\ x.result = "ok" /\ Base(x.VB, u) /\ Keeps(x.VB, a)
  /\ HasGroups(x.VB, u, i)
  /\ Len(x.VB.members) = L[i] /\ OnlyJoins(x.VB, u, i) /\ AllJoins(x.VB, u, i)

Joining(x, u, L, a, i, j) ==
  /\ x \in States({}) /\ x.result = "ok" /\ Base(x.VB, u) /\ Keeps(x.VB, a)
  /\ HasGroups(x.VB, u, i)
  /\ Len(x.VB.members) = L[i - 1] + j /\ OnlyJoins(x.VB, u, i) /\ AllJoins(x.VB, u, i - 1)
  /\ \A m \in 1 .. j : \E k \in DOMAIN x.VB.members : x.VB.members[k] = Join(u, i, m)

WithMember(b, group, handle) == [b EXCEPT !.members = Append(b.members, [group |-> group, channel |-> handle])]
WithGroup(b, name)           == [b EXCEPT !.groups = Append(b.groups, name)]

CanJoin(s, group, handle, C) ==
  /\ s \in States(C) /\ s.result = "ok" /\ s.VB.active = FALSE /\ group \in Nat /\ handle \in Nat
  /\ handle < Len(s.VB.channels) /\ group < Len(s.VB.groups) /\ Len(s.VB.members) < s.VB.limits.members

CanGroup(s, C) ==
  s \in States(C) /\ s.result = "ok" /\ s.VB.active = FALSE /\ Len(s.VB.groups) < s.VB.limits.groups

LEMMA AddMemberGives ==
  ASSUME NEW C, NEW s, NEW group, NEW handle, CanJoin(s, group, handle, C),
         NEW t, t = DataAddMember(s, group, handle)
  PROVE  t \in States(C) /\ t.result = "ok" /\ t.VB = WithMember(s.VB, group, handle)
<1>1. t = [s EXCEPT !.VB.members = Append(s.VB.members, [group |-> group, channel |-> handle])]
  BY DEF DataAddMember, Try, CanJoin
<1>2. s \in States(C) /\ t \in States(C) /\ s.result = "ok"
  BY AddMemberType DEF CanJoin
<1>3. QED
  BY <1>1, <1>2 DEF States, WithMember

LEMMA AddGroupGives ==
  ASSUME NEW C, NEW s, NEW name \in Names, CanGroup(s, C), NEW t, t = DataAddGroup(s, name)
  PROVE  t \in States(C) /\ t.result = "ok" /\ t.VB = WithGroup(s.VB, name)
<1>1. t = [s EXCEPT !.VB.groups = Append(s.VB.groups, name)]
  BY DEF DataAddGroup, Try, CanGroup
<1>2. s \in States(C) /\ t \in States(C) /\ s.result = "ok"
  BY AddGroupType DEF CanGroup
<1>3. QED
  BY <1>1, <1>2 DEF States, WithGroup

LEMMA JoiningStep ==
  ASSUME NEW u \in Lists, MembersThere(u), NEW n \in Nat, n = Len(u.groups), NEW i \in 1 .. n,
         NEW a, Len(a.channels) = Len(u.channels),
         NEW L, \A k \in 0 .. n : L[k] \in Nat, L[n] = Limits(u).members, L[i] <= L[n],
         L[i] = L[i - 1] + Len(u.groups[i].channels),
         NEW j \in 1 .. Len(u.groups[i].channels), NEW x, Joining(x, u, L, a, i, j - 1),
         NEW handle, handle = u.groups[i].channels[j], NEW t, t = DataAddMember(x, i - 1, handle)
  PROVE  Joining(t, u, L, a, i, j)
<1>1. /\ x \in States({}) /\ x.result = "ok" /\ Base(x.VB, u) /\ Keeps(x.VB, a)
      /\ HasGroups(x.VB, u, i)
      /\ Len(x.VB.members) = L[i - 1] + (j - 1) /\ OnlyJoins(x.VB, u, i) /\ AllJoins(x.VB, u, i - 1)
      /\ \A m \in 1 .. j - 1 : \E k \in DOMAIN x.VB.members : x.VB.members[k] = Join(u, i, m)
  BY DEF Joining
<1>2. PICK b \in Blocks : b = x.VB
  BY <1>1 DEF Base
<1>3. b.active = FALSE /\ b.limits = Limits(u) /\ b.file = u.file /\ b.command = u.command
  BY <1>1, <1>2 DEF Base
<1>4. u.groups[i].channels \in Seq(Nat) /\ i - 1 \in Nat /\ i \in DOMAIN u.groups
  <2>1. u.groups \in Seq(ListedGroups)
    BY DEF Lists
  <2>2. u.groups[i] \in ListedGroups /\ i \in DOMAIN u.groups
    BY <2>1
  <2>3. QED
    BY <2>2 DEF ListedGroups
<1>5. PICK w \in Nat : w = Len(u.groups[i].channels) /\ DOMAIN u.groups[i].channels = 1 .. w
  BY <1>4
<1>6. handle \in Nat /\ handle < Len(u.channels)
  <2>1. j \in 1 .. w
    BY <1>5
  <2>2. PICK q0 \in Seq(Nat) : q0 = u.groups[i].channels /\ DOMAIN q0 = 1 .. w
    BY <1>4, <1>5
  <2>3. q0[j] \in Nat
    BY ONLY <2>1, <2>2, j \in 1 .. w
  <2>4. \A m \in DOMAIN u.groups[i].channels : u.groups[i].channels[m] < Len(u.channels)
    BY <1>4 DEF MembersThere
  <2>5. QED
    BY <2>1, <2>2, <2>3, <2>4
<1>7. PICK q \in Seq(Members) : q = b.members
  BY ListTypes
<1>8. PICK c \in Nat : c = Len(q) /\ DOMAIN q = 1 .. c /\ c = L[i - 1] + (j - 1)
  BY <1>1, <1>2, <1>7
<1>9. c < L[n]
  <2>1. i - 1 \in 0 .. n /\ i \in 0 .. n /\ n \in 0 .. n
    OBVIOUS
  <2>2. PICK p \in Nat, r \in Nat, z \in Nat : p = L[i - 1] /\ r = L[i] /\ z = L[n]
    BY <2>1
  <2>3. r = p + w /\ r <= z /\ c = p + (j - 1) /\ j <= w /\ j \in Nat
    BY <1>5, <1>8, <2>2
  <2>4. c < z
    BY <2>3
  <2>5. QED
    BY <2>2, <2>4
<1>10. Len(b.groups) = i /\ Len(b.channels) = Len(u.channels)
  BY <1>1, <1>2 DEF HasGroups, Keeps
<1>11. PICK e \in Members : e = [group |-> i - 1, channel |-> handle]
  BY <1>4, <1>6 DEF Members
<1>12. e = Join(u, i, j)
  BY <1>11 DEF Join
<1>13. PICK q2 : q2 = Append(q, e)
  OBVIOUS
<1>14. Len(q2) = c + 1 /\ DOMAIN q2 = 1 .. c + 1 /\ q2[c + 1] = e /\ \A k \in 1 .. c : q2[k] = q[k]
  BY <1>8, <1>13
<1>15. t \in States({}) /\ t.result = "ok" /\ t.VB = [b EXCEPT !.members = q2]
  <2>1. PICK group \in Nat : group = i - 1
    BY <1>4
  <2>2. PICK h \in Nat : h = handle
    BY <1>6
  <2>3. t = DataAddMember(x, group, h)
    BY <2>1, <2>2
  <2>4. CanJoin(x, group, h, {})
    BY <1>1, <1>2, <1>3, <1>6, <1>7, <1>8, <1>9, <1>10, <2>1, <2>2 DEF CanJoin
  <2>5. t.VB = WithMember(x.VB, group, handle) /\ t \in States({}) /\ t.result = "ok"
    <3>1. t.VB = WithMember(x.VB, group, h) /\ t \in States({}) /\ t.result = "ok"
      BY ONLY <2>3, <2>4, AddMemberGives
    <3>2. QED
      BY <2>2, <3>1
  <2>6. QED
    BY <1>2, <1>7, <1>11, <1>13, <2>1, <2>5 DEF WithMember
<1>16. /\ t.VB \in Blocks /\ t.VB.members = q2 /\ t.VB.channels = b.channels /\ t.VB.groups = b.groups
       /\ t.VB.labels = b.labels /\ t.VB.controls = b.controls /\ t.VB.limits = b.limits
       /\ t.VB.file = b.file /\ t.VB.command = b.command /\ t.VB.active = b.active
  <2>1. t.VB \in Blocks
    BY <1>15, Parts
  <2>2. QED
    BY <1>15, <2>1 DEF Blocks
<1>17. Base(t.VB, u) /\ Keeps(t.VB, a) /\ HasGroups(t.VB, u, i)
  BY <1>1, <1>2, <1>3, <1>16 DEF Base, Keeps, HasGroups
<1>18. Len(t.VB.members) = L[i - 1] + j
  <2>1. i - 1 \in 0 .. n
    OBVIOUS
  <2>2. PICK p \in Nat : p = L[i - 1]
    BY <2>1
  <2>3. QED
    BY <1>8, <1>14, <1>16, <2>2
<1>19. \A m1 : (\E k \in 1 .. c : q[k] = m1) \/ m1 = e => \E k \in 1 .. c + 1 : q2[k] = m1
  BY <1>14
<1>20. \A k \in 1 .. c + 1 : k \in 1 .. c \/ k = c + 1
  OBVIOUS
<1>21. OnlyJoins(t.VB, u, i)
  <2>1. ASSUME NEW k \in 1 .. c + 1
        PROVE  \E g \in 1 .. i : \E m \in DOMAIN u.groups[g].channels : q2[k] = Join(u, g, m)
    <3>1. CASE k \in 1 .. c
      BY <1>1, <1>2, <1>7, <1>8, <1>14, <3>1 DEF OnlyJoins
    <3>2. CASE k = c + 1
      <4>1. i \in 1 .. i
        OBVIOUS
      <4>2. QED
        BY <1>5, <1>12, <1>14, <3>2, <4>1
    <3>3. QED
      BY <1>20, <3>1, <3>2
  <2>2. QED
    BY <1>14, <1>16, <2>1 DEF OnlyJoins
<1>22. AllJoins(t.VB, u, i - 1)
  <2>1. ASSUME NEW g \in 1 .. i - 1, NEW m \in DOMAIN u.groups[g].channels
        PROVE  \E k \in 1 .. c + 1 : q2[k] = Join(u, g, m)
    <3>1. \E k \in 1 .. c : q[k] = Join(u, g, m)
      BY <1>1, <1>2, <1>7, <1>8 DEF AllJoins
    <3>2. QED
      BY <1>19, <3>1
  <2>2. QED
    BY <1>14, <1>16, <2>1 DEF AllJoins
<1>23. ASSUME NEW m \in 1 .. j PROVE \E k \in DOMAIN t.VB.members : t.VB.members[k] = Join(u, i, m)
  <2>1. CASE m = j
    <3>1. PICK k \in 1 .. c + 1 : q2[k] = e
      BY ONLY <1>19, Zenon
    <3>2. t.VB.members[k] = e /\ k \in DOMAIN t.VB.members
      BY ONLY <1>14, <1>16, <3>1, k \in 1 .. c + 1
    <3>3. QED
      BY ONLY <1>12, <2>1, <3>2, Zenon
  <2>2. CASE m \in 1 .. j - 1
    <3>1. \E k \in 1 .. c : q[k] = Join(u, i, m)
      BY <1>1, <1>2, <1>7, <1>8, <2>2
    <3>2. QED
      BY <1>14, <1>16, <1>19, <3>1
  <2>3. QED
    BY <2>1, <2>2
<1>24. QED
  BY <1>15, <1>17, <1>18, <1>21, <1>22, <1>23 DEF Joining

LEMMA GroupReplayed ==
  ASSUME NEW u \in Lists, MembersThere(u), NEW n \in Nat, n = Len(u.groups), NEW i \in 1 .. n,
         NEW a, Len(a.channels) = Len(u.channels),
         NEW L, \A k \in 0 .. n : L[k] \in Nat, L[n] = Limits(u).members, L[i] <= L[n],
         L[i] = L[i - 1] + Len(u.groups[i].channels),
         NEW x, Grouped(x, u, L, a, i - 1), NEW t, t = ReplayGroup(x, u.groups[i])
  PROVE  Grouped(t, u, L, a, i)
<1>1. PICK g \in ListedGroups : g = u.groups[i]
  <2>1. u.groups \in Seq(ListedGroups)
    BY DEF Lists
  <2>2. QED
    BY <2>1
<1>2. PICK w \in Nat : w = Len(g.channels) /\ DOMAIN g.channels = 1 .. w
  <2>1. g.channels \in Seq(Nat)
    BY DEF ListedGroups
  <2>2. QED
    BY <2>1
<1>3. /\ x \in States({}) /\ x.result = "ok" /\ Base(x.VB, u) /\ Keeps(x.VB, a)
      /\ HasGroups(x.VB, u, i - 1)
      /\ Len(x.VB.members) = L[i - 1] /\ OnlyJoins(x.VB, u, i - 1) /\ AllJoins(x.VB, u, i - 1)
  BY DEF Grouped
<1>4. PICK h \in Nat : h = i - 1 /\ h < n /\ i = h + 1
  OBVIOUS
<1>5. h = Len(x.VB.groups) /\ Limits(u).groups = n /\ x.VB.limits = Limits(u) /\ x.VB.active = FALSE
  BY <1>3, <1>4 DEF HasGroups, Base, Limits
<1>6. PICK r : r = DataAddGroup(x, g.name)
  OBVIOUS
<1>7. r \in States({}) /\ r.result = "ok" /\ r.VB = WithGroup(x.VB, g.name)
  <2>1. PICK name \in Names : name = g.name
    BY UtilAssumption DEF ListedGroups
  <2>2. CanGroup(x, {})
    BY <1>3, <1>4, <1>5 DEF CanGroup
  <2>3. r = DataAddGroup(x, name)
    BY <1>6, <2>1
  <2>4. r \in States({}) /\ r.result = "ok" /\ r.VB = WithGroup(x.VB, name)
    BY ONLY name \in Names, <2>2, <2>3, AddGroupGives
  <2>5. QED
    BY <2>1, <2>4
<1>8. /\ r.VB \in Blocks /\ r.VB.groups = Append(x.VB.groups, g.name) /\ r.VB.channels = x.VB.channels
      /\ r.VB.members = x.VB.members /\ r.VB.labels = x.VB.labels /\ r.VB.controls = x.VB.controls
      /\ r.VB.limits = x.VB.limits /\ r.VB.file = x.VB.file /\ r.VB.command = x.VB.command
      /\ r.VB.active = x.VB.active
  <2>1. r.VB \in Blocks /\ x.VB \in Blocks
    BY <1>3, <1>7, Parts
  <2>2. QED
    BY <1>7, <2>1 DEF Blocks, WithGroup
<1>9. Joining(r, u, L, a, i, 0)
  <2>1. Base(r.VB, u) /\ Keeps(r.VB, a)
    BY <1>3, <1>8 DEF Base, Keeps
  <2>2. HasGroups(r.VB, u, i)
    <3>1. PICK q \in Seq(Names) : q = x.VB.groups
      BY <1>3, Parts, ListTypes
    <3>2. Len(Append(q, g.name)) = h + 1 /\ Append(q, g.name)[h + 1] = g.name
          /\ \A k \in 1 .. h : Append(q, g.name)[k] = q[k]
      BY <1>5, <3>1
    <3>3. \A k \in 1 .. i : k \in 1 .. h \/ k = h + 1
      BY <1>4
    <3>4. QED
      BY <1>1, <1>3, <1>4, <1>8, <3>1, <3>2, <3>3 DEF HasGroups
  <2>3. OnlyJoins(r.VB, u, i)
    <3>1. r.VB.members = x.VB.members /\ \A k \in 1 .. i - 1 : k \in 1 .. i
      BY <1>8
    <3>2. QED
      BY <1>3, <3>1 DEF OnlyJoins
  <2>4. AllJoins(r.VB, u, i - 1)
    BY <1>3, <1>8 DEF AllJoins
  <2>5. Len(r.VB.members) = L[i - 1] + 0
    <3>1. i - 1 \in 0 .. n /\ r.VB.members = x.VB.members
      BY <1>8
    <3>2. PICK p \in Nat : p = L[i - 1]
      BY <3>1
    <3>3. QED
      BY <1>3, <3>1, <3>2
  <2>6. \A l \in 1 .. 0 : FALSE
    OBVIOUS
  <2>7. QED
    BY <1>7, <2>1, <2>2, <2>3, <2>4, <2>5, <2>6 DEF Joining
<1>10. PICK S : S = [j \in 0 .. w |-> {y \in States({}) : Joining(y, u, L, a, i, j)}]
  OBVIOUS
<1>11. r \in S[0]
  BY <1>7, <1>9, <1>10
<1>12. ASSUME NEW j \in 1 .. w, NEW y \in S[j - 1] PROVE DataAddMember(y, Len(x.VB.groups), g.channels[j]) \in S[j]
  <2>1. j - 1 \in 0 .. w /\ j \in 0 .. w
    OBVIOUS
  <2>2. Joining(y, u, L, a, i, j - 1)
    BY <1>10, <2>1
  <2>3. PICK z : z = DataAddMember(y, i - 1, g.channels[j])
    OBVIOUS
  <2>4. Joining(z, u, L, a, i, j)
    BY <1>1, <1>2, <2>2, <2>3, JoiningStep
  <2>5. z \in States({})
    BY <2>4 DEF Joining
  <2>6. QED
    BY <1>4, <1>5, <1>10, <2>1, <2>3, <2>4, <2>5
<1>13. ReplayGroup(x, g) \in S[w]
  <2>1. w = Len(g.channels) /\ \A j \in 1 .. w : \A y \in S[j - 1] : DataAddMember(y, Len(x.VB.groups), g.channels[j]) \in S[j]
    BY <1>2, <1>12
  <2>2. QED
    BY ONLY w \in Nat, <1>6, <1>11, <2>1, JoiningFold
<1>14. Joining(t, u, L, a, i, w)
  <2>1. w \in 0 .. w
    OBVIOUS
  <2>2. QED
    BY <1>1, <1>10, <1>13, <2>1
<1>15. AllJoins(t.VB, u, i)
  <2>1. \A k \in 1 .. i : k \in 1 .. i - 1 \/ k = i
    OBVIOUS
  <2>2. QED
    BY <1>1, <1>2, <1>14, <2>1 DEF Joining, AllJoins
<1>16. QED
  BY <1>1, <1>2, <1>14, <1>15 DEF Joining, Grouped

LEMMA GroupsReplayed ==
  ASSUME NEW u \in Lists, MembersThere(u), NEW n \in Nat, n = Len(u.groups),
         NEW a, Len(a.channels) = Len(u.channels),
         NEW L, \A k \in 0 .. n : L[k] \in Nat, L[n] = Limits(u).members,
         \A i \in 1 .. n : L[i] = L[i - 1] + Len(u.groups[i].channels) /\ L[i] <= L[n],
         NEW s, Grouped(s, u, L, a, 0), NEW t, t = Folded(ReplayGroup, s, u.groups)
  PROVE  Grouped(t, u, L, a, n)
<1>1. PICK S : S = [i \in 0 .. n |-> {y \in States({}) : Grouped(y, u, L, a, i)}]
  OBVIOUS
<1>2. PICK q : q = u.groups
  OBVIOUS
<1>3. s \in S[0]
  BY <1>1 DEF Grouped
<1>4. ASSUME NEW i \in 1 .. n, NEW x \in S[i - 1] PROVE ReplayGroup(x, q[i]) \in S[i]
  <2>1. i - 1 \in 0 .. n /\ i \in 0 .. n
    OBVIOUS
  <2>2. Grouped(x, u, L, a, i - 1)
    BY <1>1, <2>1
  <2>3. PICK z : z = ReplayGroup(x, u.groups[i])
    OBVIOUS
  <2>4. Grouped(z, u, L, a, i)
    BY <2>2, <2>3, GroupReplayed
  <2>5. z \in States({})
    BY <2>4 DEF Grouped
  <2>6. QED
    BY <1>1, <1>2, <2>1, <2>3, <2>4, <2>5
<1>5. Folded(ReplayGroup, s, q) \in S[n]
  <2>1. n = Len(q)
    BY <1>2
  <2>2. \A i \in 1 .. n : \A x \in S[i - 1] : ReplayGroup(x, q[i]) \in S[i]
    BY <1>4
  <2>3. QED
    BY ONLY n \in Nat, <1>3, <2>1, <2>2, GroupsFold
<1>6. n \in 0 .. n
  OBVIOUS
<1>7. QED
  BY <1>1, <1>2, <1>5, <1>6

(* The controls. *)
HasFloat(u)   == \E c \in ToSet(u.controls) : FloatCallback(c)
HasCommand(u) == \E c \in ToSet(u.controls) : Commanded(c)

Refuses(u) == \E c \in ToSet(u.controls) : ~c.valid \/ c.name \in Unlexable \/ FloatCallback(c)
Crashes(u) == \E c \in ToSet(u.controls) :
  FloatCallback(c) \/ (Commanded(c) /\ (c.name \in Unlexable \/ ~u.command))

(* After i controls, added to what was replayed to the block a before.     *)
FromControls(b, u) == \A k \in DOMAIN b.controls :
  /\ b.controls[k].name = None => HasFloat(u)
  /\ b.controls[k].drive = "command" => HasCommand(u)

(* The first i controls have their places, and there are no others.        *)
Lined(b, u, i) ==
  /\ Len(b.controls) >= i
  /\ \A k \in 1 .. i : Plain(b.controls[k]) = Plain(u.controls[k])
  /\ \A k \in DOMAIN b.controls : k \notin 1 .. i => b.controls[k].name = None

Controlled(x, u, a, i) ==
  /\ x \in States({}) /\ SameLists(a, x.VB) /\ FromControls(x.VB, u)
  /\ x.result = "ok" => Lined(x.VB, u, i) \/ (i < Len(u.controls) /\ Len(x.VB.controls) > i)
  /\ x.result = "ok" /\ ~HasFloat(u) => Len(x.VB.controls) = i
  /\ x.result = "no" => Refuses(u)
  /\ x.result = "crash" => Crashes(u)

Room1(s, c) == Len(s.VB.controls) < s.VB.limits.controls /\ ~s.VB.active /\ c.name \notin Unlexable

WithControls(b, taken) == [b EXCEPT !.controls = b.controls \o taken]

(* A control is added, with a hole behind a float slider's callback.       *)
Adds(s, t, c) == \E d \in Controls : \E taken \in Seq(Controls) :
  /\ d.name = c.name /\ d.drive = c.drive /\ Plain(d) = Plain(c)
  /\ taken = <<d>> \/ (taken = <<d, Hole>> /\ FloatCallback(c))
  /\ t.VB = WithControls(s.VB, taken)

LEMMA AddControlGives ==
  ASSUME NEW C, NEW s \in States(C), s.result = "ok", NEW c \in ListedControls, NEW t, t = DataAddControl(s, c)
  PROVE  /\ t \in States(C)
         /\ \/ t.VB = s.VB /\ t.result = "crash" /\ c.drive = "command" /\ ~Room1(s, c)
            \/ t.VB = s.VB /\ t.result = "no" /\ ~(c.valid /\ Room1(s, c))
            \/ t.result = "ok" /\ Adds(s, t, c) /\ Room1(s, c)
<1>1. t \in States(C)
  BY AddControlType
<1>2. PICK d : d = [name |-> c.name, type |-> c.type, drive |-> c.drive, address |-> c.address,
                    value |-> IF c.address = None THEN 0 ELSE s.variable[c.address]]
  OBVIOUS
<1>3. d \in Controls /\ d.name = c.name /\ d.drive = c.drive /\ Plain(d) = Plain(c)
  <2>1. 0 \in Values
    BY RegistryAssumption
  <2>2. c.address # None => s.variable[c.address] \in Values
    BY DEF ListedControls, Places, States
  <2>3. QED
    BY <1>2, <2>1, <2>2 DEF ListedControls, Controls, Kinds, Drives, Plain
<1>4. Hole \in Controls
  BY RegistryAssumption DEF Hole, Controls, Kinds, Drives, Places
<1>5. PICK taken : taken = IF c.type = "float" /\ c.drive = "callback" THEN <<d, Hole>> ELSE <<d>>
  OBVIOUS
<1>6. taken \in Seq(Controls) /\ (taken = <<d>> \/ (taken = <<d, Hole>> /\ FloatCallback(c)))
  BY <1>3, <1>4, <1>5 DEF FloatCallback
<1>7. CASE c.valid /\ ~Room1(s, c) /\ c.type = "button" /\ c.drive = "command"
  <2>1. t = [s EXCEPT !.result = "crash"]
    BY <1>7 DEF DataAddControl, Room1
  <2>2. QED
    BY <1>1, <1>7, <2>1 DEF States
<1>8. CASE ~(c.valid /\ ~Room1(s, c) /\ c.type = "button" /\ c.drive = "command") /\ c.valid /\ Room1(s, c)
  <2>1. t = [s EXCEPT !.VB.controls = s.VB.controls \o taken]
    BY <1>2, <1>5, <1>8 DEF DataAddControl, Try, Room1
  <2>2. t.VB = WithControls(s.VB, taken) /\ t.result = "ok"
    BY <2>1 DEF States, WithControls
  <2>3. Adds(s, t, c)
    BY <1>3, <1>6, <2>2 DEF Adds
  <2>4. QED
    BY <1>1, <1>8, <2>2, <2>3
<1>9. CASE ~(c.valid /\ ~Room1(s, c) /\ c.type = "button" /\ c.drive = "command") /\ ~(c.valid /\ Room1(s, c))
  <2>1. t = [s EXCEPT !.result = "no"]
    BY <1>9 DEF DataAddControl, Try, Room1
  <2>2. QED
    BY <1>1, <1>9, <2>1 DEF States
<1>10. QED
  BY <1>7, <1>8, <1>9

(* A name that was just added is found. *)
LEMMA NameFound ==
  ASSUME NEW C, NEW s \in States(C), NEW k \in DOMAIN s.VB.controls, NEW name \in Names,
         s.VB.controls[k].name = name
  PROVE  FindControl(s.VB, name) # 0
<1>1. s.VB \in Blocks /\ Alike(name, name)
  BY Parts, RegistryAssumption
<1>2. QED
  BY <1>1, Found

HasName(b, name) == \E k \in DOMAIN b.controls : b.controls[k].name = name

LEMMA ControlAdded ==
  ASSUME NEW u \in Lists, NEW a, a.active = FALSE, NEW n \in Nat, n = Len(u.controls), a.limits.controls = n,
         NEW i \in 1 .. n, NEW x, Controlled(x, u, a, i - 1), x.result = "ok",
         NEW c \in ListedControls, c = u.controls[i], NEW t, t = DataAddControl(x, c)
  PROVE  /\ Controlled(t, u, a, i)
         /\ t.result = "ok" => HasName(t.VB, c.name)
<1>1. /\ x \in States({}) /\ SameLists(a, x.VB) /\ FromControls(x.VB, u)
      /\ ~HasFloat(u) => Len(x.VB.controls) = i - 1
  BY DEF Controlled
<1>2. c \in ToSet(u.controls)
  <2>1. PICK q \in Seq(ListedControls) : q = u.controls /\ DOMAIN q = 1 .. n
    BY DEF Lists
  <2>2. QED
    BY <2>1 DEF ToSet
<1>3. x.VB \in Blocks /\ x.VB.active = FALSE /\ x.VB.limits.controls = n
  BY <1>1, Parts DEF SameLists
<1>4. ~Room1(x, c) => c.name \in Unlexable \/ HasFloat(u)
  <2>1. CASE HasFloat(u)
    BY <2>1
  <2>2. CASE ~HasFloat(u)
    <3>1. Len(x.VB.controls) < x.VB.limits.controls
      BY <1>1, <1>3, <2>2
    <3>2. QED
      BY <1>3, <3>1 DEF Room1
  <2>3. QED
    BY <2>1, <2>2
<1>5. /\ t \in States({})
      /\ \/ t.VB = x.VB /\ t.result = "crash" /\ c.drive = "command" /\ ~Room1(x, c)
         \/ t.VB = x.VB /\ t.result = "no" /\ ~(c.valid /\ Room1(x, c))
         \/ t.result = "ok" /\ Adds(x, t, c) /\ Room1(x, c)
  BY <1>1, AddControlGives
<1>6. CASE t.VB = x.VB /\ t.result = "crash" /\ c.drive = "command" /\ ~Room1(x, c)
  <2>1. Crashes(u)
    <3>1. CASE HasFloat(u)
      BY <3>1 DEF HasFloat, Crashes
    <3>2. CASE c.name \in Unlexable
      BY <1>2, <1>6, <3>2 DEF Crashes, Commanded
    <3>3. QED
      BY <1>4, <1>6, <3>1, <3>2
  <2>2. QED
    BY <1>1, <1>5, <1>6, <2>1 DEF Controlled
<1>7. CASE t.VB = x.VB /\ t.result = "no" /\ ~(c.valid /\ Room1(x, c))
  <2>1. Refuses(u)
    <3>1. CASE HasFloat(u)
      BY <3>1 DEF HasFloat, Refuses
    <3>2. CASE c.name \in Unlexable \/ ~c.valid
      BY <1>2, <3>2 DEF Refuses
    <3>3. QED
      BY <1>4, <1>7, <3>1, <3>2
  <2>2. QED
    BY <1>1, <1>5, <1>7, <2>1 DEF Controlled
<1>8. CASE t.result = "ok" /\ Adds(x, t, c) /\ Room1(x, c)
  <2>1. PICK d \in Controls, taken \in Seq(Controls) :
          /\ d.name = c.name /\ d.drive = c.drive /\ Plain(d) = Plain(c)
          /\ taken = <<d>> \/ (taken = <<d, Hole>> /\ FloatCallback(c))
          /\ t.VB = WithControls(x.VB, taken)
    BY <1>8 DEF Adds
  <2>2. PICK q \in Seq(Controls), m \in Nat : q = x.VB.controls /\ m = Len(q) /\ DOMAIN q = 1 .. m
    BY <1>3, ListTypes
  <2>3. PICK e \in Seq(Controls) : e = q \o taken
    <3>1. PICK e : e = q \o taken
      OBVIOUS
    <3>2. e \in Seq(Controls)
      BY ONLY q \in Seq(Controls), taken \in Seq(Controls), <3>1
    <3>3. QED
      BY <3>1, <3>2
  <2>4. t.VB.controls = e /\ SameLists(x.VB, t.VB)
    BY <1>3, <2>1, <2>2, <2>3 DEF WithControls, Blocks, SameLists
  <2>5. /\ m + 1 \in DOMAIN e /\ e[m + 1] = d /\ \A k \in 1 .. m : e[k] = q[k]
        /\ \/ Len(e) = m + 1 /\ DOMAIN e = 1 .. m + 1
           \/ Len(e) = m + 2 /\ DOMAIN e = 1 .. m + 2 /\ e[m + 2] = Hole /\ FloatCallback(c)
    <3>1. CASE taken = <<d>>
      BY <2>2, <2>3, <3>1
    <3>2. CASE taken = <<d, Hole>> /\ FloatCallback(c)
      BY <2>2, <2>3, <3>2
    <3>3. QED
      BY <2>1, <3>1, <3>2
  <2>6. FloatCallback(c) => HasFloat(u)
    BY <1>2 DEF HasFloat
  <2>7. d.name # None
    BY <2>1, RegistryAssumption DEF ListedControls
  <2>8. d.drive = "command" => HasCommand(u)
    BY <1>2, <2>1 DEF HasCommand, Commanded
  <2>9. FromControls(t.VB, u)
    <3>1. ASSUME NEW k \in DOMAIN e
          PROVE  /\ e[k].name = None => HasFloat(u)
                 /\ e[k].drive = "command" => HasCommand(u)
      <4>1. k \in 1 .. m \/ k = m + 1 \/ (k = m + 2 /\ e[k] = Hole /\ FloatCallback(c))
        BY <2>5
      <4>2. CASE k \in 1 .. m
        BY <1>1, <2>2, <2>5, <4>2 DEF FromControls
      <4>3. CASE k = m + 1
        BY <2>5, <2>7, <2>8, <4>3
      <4>4. CASE k = m + 2 /\ e[k] = Hole /\ FloatCallback(c)
        BY <2>6, <4>4 DEF Hole
      <4>5. QED
        BY <4>1, <4>2, <4>3, <4>4
    <3>2. QED
      BY <2>4, <3>1 DEF FromControls
  <2>10. ~HasFloat(u) => Len(t.VB.controls) = i
    BY <1>1, <2>2, <2>4, <2>5, <2>6
  <2>11. SameLists(a, t.VB)
    BY <1>1, <2>4 DEF SameLists
  <2>12. m < n /\ (Lined(x.VB, u, i - 1) \/ (i - 1 < n /\ m > i - 1))
    <3>1. m < n
      BY <1>3, <1>8, <2>2 DEF Room1
    <3>2. Lined(x.VB, u, i - 1) \/ (i - 1 < Len(u.controls) /\ Len(x.VB.controls) > i - 1)
      BY DEF Controlled
    <3>3. QED
      BY <2>2, <3>1, <3>2
  <2>13. Lined(t.VB, u, i) \/ (i < n /\ Len(t.VB.controls) > i)
    <3>1. CASE m > i - 1
      <4>1. i < n /\ Len(e) > i
        BY <2>2, <2>5, <2>12, <3>1
      <4>2. QED
        BY <2>4, <4>1
    <3>2. CASE ~(m > i - 1)
      <4>1. Lined(x.VB, u, i - 1)
        BY <2>12, <3>2
      <4>2. m = i - 1
        <5>1. Len(x.VB.controls) >= i - 1
          BY <4>1 DEF Lined
        <5>2. m >= i - 1
          BY <2>2, <5>1
        <5>3. QED
          BY ONLY m \in Nat, n \in Nat, i \in 1 .. n, <3>2, <5>2
      <4>3. \A k \in 1 .. m : Plain(e[k]) = Plain(u.controls[k])
        BY <2>2, <2>5, <4>1, <4>2 DEF Lined
      <4>4. Plain(e[i]) = Plain(u.controls[i])
        BY <2>1, <2>5, <4>2
      <4>5. \A k \in 1 .. i : k \in 1 .. m \/ k = i
        BY <4>2
      <4>6. \A k \in 1 .. i : Plain(e[k]) = Plain(u.controls[k])
        BY ONLY <4>3, <4>4, <4>5
      <4>7. Len(e) >= i
        BY <2>5, <4>2
      <4>8. \A k \in DOMAIN e : k \notin 1 .. i => e[k] = Hole
        BY <2>5, <4>2
      <4>9. Hole.name = None
        BY DEF Hole
      <4>10. \A k \in DOMAIN e : k \notin 1 .. i => e[k].name = None
        BY ONLY <4>8, <4>9
      <4>11. Lined(t.VB, u, i)
        BY ONLY <2>4, <4>6, <4>7, <4>10 DEF Lined
      <4>12. QED
        BY <4>11
    <3>3. QED
      BY <3>1, <3>2
  <2>14. QED
    BY <1>5, <1>8, <2>1, <2>4, <2>5, <2>9, <2>10, <2>11, <2>13 DEF Controlled, HasName
<1>9. QED
  BY <1>5, <1>6, <1>7, <1>8

LEMMA ControlReplayed ==
  ASSUME NEW u \in Lists, NEW a, a.active = FALSE, NEW n \in Nat, n = Len(u.controls), a.limits.controls = n,
         NEW i \in 1 .. n, NEW x, Controlled(x, u, a, i - 1), NEW t, t = ReplayControl(x, u.controls[i])
  PROVE  Controlled(t, u, a, i)
<1>1. PICK c \in ListedControls : c = u.controls[i]
  <2>1. u.controls \in Seq(ListedControls)
    BY DEF Lists
  <2>2. QED
    BY <2>1
<1>2. PICK y : y = DataAddControl(x, c)
  OBVIOUS
<1>3. CASE x.result # "ok"
  <2>1. y = x
    BY <1>2, <1>3 DEF DataAddControl, Try
  <2>2. t = x
    BY <1>1, <1>2, <1>3, <2>1 DEF ReplayControl, SetNamedValue, Try
  <2>3. QED
    BY <1>3, <2>2 DEF Controlled
<1>4. CASE x.result = "ok"
  <2>1. /\ Controlled(y, u, a, i)
        /\ y.result = "ok" => HasName(y.VB, c.name)
    BY <1>1, <1>2, <1>4, ControlAdded
  <2>2. CASE t = y
    BY <2>1, <2>2
  <2>3. CASE t = SetNamedValue(y, c.name, c.initial)
    <3>1. /\ y \in States({}) /\ SameLists(a, y.VB) /\ FromControls(y.VB, u)
          /\ y.result = "ok" /\ ~HasFloat(u) => Len(y.VB.controls) = i
          /\ y.result = "ok" => Lined(y.VB, u, i) \/ (i < Len(u.controls) /\ Len(y.VB.controls) > i)
      BY <2>1 DEF Controlled
    <3>2. c.name \in Names /\ c.initial \in Values
      BY DEF ListedControls
    <3>3. y.result = "ok" => FindControl(y.VB, c.name) # 0
      BY <2>1, <3>1, <3>2, NameFound DEF HasName
    <3>4. PICK k : k = FindControl(y.VB, c.name)
      OBVIOUS
    <3>5. /\ t \in States({})
          /\ \/ Quiet(y, t) /\ t.result = y.result
             \/ Quiet(y, t) /\ y.result = "ok" /\ t.result = "no" /\ k = 0
             \/ Quiet(y, t) /\ t.result = "crash" /\ k \in DOMAIN y.VB.controls /\ y.VB.controls[k].name = None
             \/ /\ k \in DOMAIN y.VB.controls
                /\ y.result = "ok" /\ Gives(y, t, k, c.initial, IF y.VB.active THEN {} ELSE {}, {})
      BY <2>3, <3>1, <3>2, <3>4, SetNamedValueGives
    <3>6. CASE Quiet(y, t) /\ t.result = y.result
      BY <2>1, <3>5, <3>6 DEF Quiet, Controlled
    <3>7. CASE Quiet(y, t) /\ t.result = "crash" /\ k \in DOMAIN y.VB.controls /\ y.VB.controls[k].name = None
      <4>1. HasFloat(u)
        BY <3>1, <3>7 DEF FromControls
      <4>2. Crashes(u)
        BY <4>1 DEF HasFloat, Crashes
      <4>3. t.VB = y.VB
        BY <3>7 DEF Quiet
      <4>4. QED
        BY <3>1, <3>5, <3>7, <4>2, <4>3 DEF Controlled
    <3>8. CASE /\ k \in DOMAIN y.VB.controls
               /\ y.result = "ok" /\ Gives(y, t, k, c.initial, IF y.VB.active THEN {} ELSE {}, {})
      <4>1. t.VB = [y.VB EXCEPT !.controls[k].value = c.initial] /\ t.result = "ok"
        BY <3>8 DEF Gives
      <4>2. y.VB \in Blocks /\ t.VB \in Blocks
        BY <3>1, <3>5, Parts
      <4>3. SameLayout(y.VB, t.VB) /\ SameLists(y.VB, t.VB)
        BY ONLY <3>2, <3>8, <4>1, <4>2, ValueGiven
      <4>4. DOMAIN t.VB.controls = DOMAIN y.VB.controls
        BY <4>2, <4>3, LayoutDistinct
      <4>5. FromControls(t.VB, u) /\ Len(t.VB.controls) = Len(y.VB.controls)
        BY <3>1, <4>3, <4>4 DEF FromControls, SameLayout
      <4>6. SameLists(a, t.VB)
        BY <3>1, <4>3 DEF SameLists
      <4>7. Lined(y.VB, u, i) => Lined(t.VB, u, i)
        <5>1. ASSUME Lined(y.VB, u, i) PROVE Lined(t.VB, u, i)
          <6>1. \A k1 \in 1 .. i : k1 \in DOMAIN y.VB.controls
            <7>1. PICK z \in Seq(Controls) : z = y.VB.controls
              BY <4>2 DEF Blocks
            <7>2. Len(z) >= i
              BY <5>1, <7>1 DEF Lined
            <7>3. QED
              BY <7>1, <7>2
          <6>2. \A k1 \in DOMAIN y.VB.controls :
                  t.VB.controls[k1].name = y.VB.controls[k1].name /\ Plain(t.VB.controls[k1]) = Plain(y.VB.controls[k1])
            BY <4>3 DEF SameLayout, Plain
          <6>3. \A k1 \in 1 .. i : Plain(t.VB.controls[k1]) = Plain(u.controls[k1])
            BY <5>1, <6>1, <6>2 DEF Lined
          <6>4. \A k1 \in DOMAIN t.VB.controls : k1 \notin 1 .. i => t.VB.controls[k1].name = None
            BY <4>4, <5>1, <6>2 DEF Lined
          <6>5. Len(t.VB.controls) >= i
            BY <4>5, <5>1 DEF Lined
          <6>6. QED
            BY <6>3, <6>4, <6>5 DEF Lined
        <5>2. QED
          BY <5>1
      <4>8. QED
        BY <3>1, <3>5, <3>8, <4>1, <4>5, <4>6, <4>7 DEF Controlled
    <3>9. QED
      BY <3>3, <3>4, <3>5, <3>6, <3>7, <3>8
  <2>4. QED
    BY <1>1, <1>2, <2>2, <2>3 DEF ReplayControl
<1>5. QED
  BY <1>3, <1>4

LEMMA ControlsReplayed ==
  ASSUME NEW u \in Lists, NEW a, a.active = FALSE, NEW n \in Nat, n = Len(u.controls), a.limits.controls = n,
         NEW s, Controlled(s, u, a, 0), NEW t, t = Folded(ReplayControl, s, u.controls)
  PROVE  Controlled(t, u, a, n)
<1>1. PICK S : S = [i \in 0 .. n |-> {y \in States({}) : Controlled(y, u, a, i)}]
  OBVIOUS
<1>2. PICK q : q = u.controls
  OBVIOUS
<1>3. s \in S[0]
  BY <1>1 DEF Controlled
<1>4. ASSUME NEW i \in 1 .. n, NEW x \in S[i - 1] PROVE ReplayControl(x, q[i]) \in S[i]
  <2>1. i - 1 \in 0 .. n /\ i \in 0 .. n
    OBVIOUS
  <2>2. Controlled(x, u, a, i - 1)
    BY <1>1, <2>1
  <2>3. PICK z : z = ReplayControl(x, u.controls[i])
    OBVIOUS
  <2>4. Controlled(z, u, a, i)
    BY <2>2, <2>3, ControlReplayed
  <2>5. z \in States({})
    BY <2>4 DEF Controlled
  <2>6. QED
    BY <1>1, <1>2, <2>1, <2>3, <2>4, <2>5
<1>5. Folded(ReplayControl, s, q) \in S[n]
  <2>1. n = Len(q)
    BY <1>2
  <2>2. \A i \in 1 .. n : \A x \in S[i - 1] : ReplayControl(x, q[i]) \in S[i]
    BY <1>4
  <2>3. QED
    BY ONLY n \in Nat, <1>3, <2>1, <2>2, ControlsFold
<1>6. n \in 0 .. n
  OBVIOUS
<1>7. QED
  BY <1>1, <1>2, <1>5, <1>6

(* What the lists u are replayed to. *)
Replays(b, u) ==
  /\ Base(b, u) /\ FromControls(b, u)
  /\ HasChannels(b, u, Len(u.channels)) /\ HasGroups(b, u, Len(u.groups))
  /\ OnlyMarks(b, u, Len(u.channels)) /\ AllMarks(b, u, Len(u.channels))
  /\ OnlyJoins(b, u, Len(u.groups)) /\ AllJoins(b, u, Len(u.groups))

LEMMA StartType ==
  ASSUME TypeOK, Idle, NEW u \in Lists, NEW s, s = [State EXCEPT !.VB = Installed(Limits(u), u.file, u.command)]
  PROVE  /\ s \in States({}) /\ s.result = "ok" /\ Base(s.VB, u) /\ Nothing(s.VB)
         /\ s.VB.channels = << >> /\ s.VB.labels = << >>
<1>1. Everyone = {}
  BY DEF TypeOK
<1>2. u.file \in Files /\ u.command \in BOOLEAN
  BY DEF Lists
<1>3. Limits(u) \in Room
  <2>1. Len(u.channels) \in Nat /\ Len(u.groups) \in Nat /\ Len(u.controls) \in Nat
    BY DEF Lists
  <2>2. Limits(u).labels \in Nat
    <3>1. PICK n \in Nat : n = Len(u.channels)
      BY <2>1
    <3>2. PICK L \in [0 .. n -> Nat] : L[n] = Limits(u).labels
      BY <3>1, LabelsLimit
    <3>3. n \in 0 .. n
      OBVIOUS
    <3>4. QED
      BY <3>2, <3>3
  <2>3. Limits(u).members \in Nat
    <3>1. PICK n \in Nat : n = Len(u.groups)
      BY <2>1
    <3>2. PICK L \in [0 .. n -> Nat] : L[n] = Limits(u).members
      BY <3>1, MembersLimit
    <3>3. n \in 0 .. n
      OBVIOUS
    <3>4. QED
      BY <3>2, <3>3
  <2>4. PICK m, l : Limits(u) = [channels |-> Len(u.channels), groups |-> Len(u.groups), controls |-> Len(u.controls),
                                 labels |-> l, members |-> m]
    BY DEF Limits
  <2>5. QED
    BY <2>1, <2>2, <2>3, <2>4 DEF Room
<1>4. PICK b : b = Installed(Limits(u), u.file, u.command)
  OBVIOUS
<1>5. /\ b \in Blocks /\ b.limits = Limits(u) /\ b.file = u.file /\ b.command = u.command /\ b.active = FALSE
      /\ b.channels = << >> /\ b.groups = << >> /\ b.members = << >> /\ b.labels = << >> /\ b.controls = << >>
  <2>1. \A T : << >> \in Seq(T)
    OBVIOUS
  <2>2. QED
    BY <1>2, <1>3, <1>4, <2>1 DEF Installed, Blocks
<1>6. s = [VB |-> b, variable |-> variable, pending |-> pending, result |-> "ok",
           orders |-> orders, crossed |-> crossed, file |-> << >>, chosen |-> << >>]
  BY <1>4 DEF State
<1>7. s \in States({})
  <2>1. pending \in [{} -> Seq(Messages)] /\ orders \in [{} -> Seq(Orders)] /\ variable \in [Addresses -> Values]
    BY <1>1 DEF TypeOK
  <2>2. crossed \in SUBSET ({} \X (Names \cup {None}))
    BY <1>1 DEF TypeOK
  <2>3. PICK nothing \in Seq(Entries), none \in Picks : nothing = << >> /\ none = << >>
    <3>1. << >> \in Seq(Entries)
      OBVIOUS
    <3>2. << >> \in Picks
      BY NoPicks
    <3>3. QED
      BY ONLY <3>1, <3>2, Zenon
  <2>4. PICK C : C = {}
    OBVIOUS
  <2>5. PICK ps \in [C -> Seq(Messages)], os \in [C -> Seq(Orders)], vs \in [Addresses -> Values],
             cr \in SUBSET (C \X (Names \cup {None})) :
          ps = pending /\ os = orders /\ vs = variable /\ cr = crossed
    BY <2>1, <2>2, <2>4
  <2>6. s = [VB |-> b, variable |-> vs, pending |-> ps, result |-> "ok",
             orders |-> os, crossed |-> cr, file |-> nothing, chosen |-> none]
    BY <1>6, <2>3, <2>5
  <2>7. s \in States(C)
    <3>1. b \in Blocks
      BY <1>5
    <3>2. QED
      BY ONLY <2>6, <3>1 DEF States
  <2>8. QED
    BY <2>4, <2>7
<1>8. QED
  BY <1>5, <1>6, <1>7 DEF Base, Nothing

LEMMA ReplayedGives ==
  ASSUME TypeOK, Idle, NEW u \in Lists, MembersThere(u), NEW s, s = Replayed(u)
  PROVE  /\ s \in States({}) /\ Replays(s.VB, u)
         /\ s.result = "ok" => Lined(s.VB, u, Len(u.controls))
         /\ s.result = "no" => Refuses(u)
         /\ s.result = "crash" => Crashes(u)
<1>1. PICK s0 : s0 = [State EXCEPT !.VB = Installed(Limits(u), u.file, u.command)]
  OBVIOUS
<1>2. PICK s1 : s1 = Folded(ReplayChannel, s0, u.channels)
  OBVIOUS
<1>3. PICK s2 : s2 = Folded(ReplayGroup, s1, u.groups)
  OBVIOUS
<1>4. s = Folded(ReplayControl, s2, u.controls)
  BY <1>1, <1>2, <1>3 DEF Replayed
<1>5. PICK n \in Nat, m \in Nat, k \in Nat : n = Len(u.channels) /\ m = Len(u.groups) /\ k = Len(u.controls)
  BY DEF Lists
<1>6. /\ s0 \in States({}) /\ s0.result = "ok" /\ Base(s0.VB, u) /\ Nothing(s0.VB)
      /\ s0.VB.channels = << >> /\ s0.VB.labels = << >>
  BY <1>1, StartType
<1>7. PICK L \in [0 .. n -> Nat] : /\ L[0] = 0 /\ L[n] = Limits(u).labels
                                   /\ \A i \in 1 .. n : L[i] = L[i - 1] + Len(u.channels[i].labels) /\ L[i] <= L[n]
  BY <1>5, LabelsLimit
<1>8. PICK M \in [0 .. m -> Nat] : /\ M[0] = 0 /\ M[m] = Limits(u).members
                                   /\ \A i \in 1 .. m : M[i] = M[i - 1] + Len(u.groups[i].channels) /\ M[i] <= M[m]
  BY <1>5, MembersLimit
<1>9. Channelled(s0, u, L, 0)
  BY <1>6, <1>7 DEF Channelled, HasChannels, OnlyMarks, AllMarks
<1>10. Channelled(s1, u, L, n)
  <2>1. \A i \in 0 .. n : L[i] \in Nat
    BY <1>7
  <2>2. QED
    BY <1>2, <1>5, <1>7, <1>9, <2>1, ChannelsReplayed
<1>11. PICK a : a = s1.VB
  OBVIOUS
<1>12. Len(a.channels) = Len(u.channels) /\ a.controls = << >>
  BY <1>5, <1>10, <1>11 DEF Channelled, HasChannels, Nothing
<1>13. Grouped(s1, u, M, a, 0)
  <2>1. s1.VB.groups = << >> /\ s1.VB.members = << >> /\ s1.VB.controls = << >>
    BY <1>10 DEF Channelled, Nothing
  <2>2. HasGroups(s1.VB, u, 0) /\ OnlyJoins(s1.VB, u, 0) /\ AllJoins(s1.VB, u, 0) /\ Len(s1.VB.members) = M[0]
    BY <1>8, <2>1 DEF HasGroups, OnlyJoins, AllJoins
  <2>3. QED
    BY <1>10, <1>11, <2>1, <2>2 DEF Channelled, Grouped, Keeps
<1>14. Grouped(s2, u, M, a, m)
  <2>1. \A i \in 0 .. m : M[i] \in Nat
    BY <1>8
  <2>2. QED
    BY <1>3, <1>5, <1>8, <1>12, <1>13, <2>1, GroupsReplayed
<1>15. PICK b \in Blocks : b = s2.VB
  BY <1>14 DEF Grouped, Base
<1>16. b.active = FALSE /\ b.limits.controls = k /\ b.controls = << >> /\ SameLists(b, b)
  <2>1. Limits(u).controls = k
    BY <1>5 DEF Limits
  <2>2. b.active = FALSE /\ b.limits = Limits(u) /\ b.controls = << >>
    BY <1>14, <1>15 DEF Grouped, Base, Keeps
  <2>3. SameLists(b, b)
    BY DEF SameLists
  <2>4. QED
    BY <2>1, <2>2, <2>3
<1>17. Controlled(s2, u, b, 0)
  <2>1. Lined(b, u, 0)
    BY <1>16 DEF Lined
  <2>2. QED
    BY <1>14, <1>15, <1>16, <2>1 DEF Controlled, Grouped, FromControls
<1>18. Controlled(s, u, b, k)
  BY <1>4, <1>5, <1>16, <1>17, ControlsReplayed
<1>19. SameLists(b, s.VB) /\ FromControls(s.VB, u) /\ s \in States({}) /\ s.VB \in Blocks
  BY <1>18, Parts DEF Controlled
<1>20. Base(s.VB, u) /\ HasGroups(s.VB, u, m) /\ OnlyJoins(s.VB, u, m) /\ AllJoins(s.VB, u, m)
  <2>1. Base(b, u) /\ HasGroups(b, u, m) /\ OnlyJoins(b, u, m) /\ AllJoins(b, u, m)
    BY <1>14, <1>15 DEF Grouped
  <2>2. Base(s.VB, u)
    BY <1>19, <2>1 DEF Base, SameLists
  <2>3. HasGroups(s.VB, u, m)
    BY <1>19, <2>1 DEF SameLists, HasGroups
  <2>4. OnlyJoins(s.VB, u, m)
    BY <1>19, <2>1 DEF SameLists, OnlyJoins
  <2>5. AllJoins(s.VB, u, m)
    BY <1>19, <2>1 DEF SameLists, AllJoins
  <2>6. QED
    BY <2>2, <2>3, <2>4, <2>5
<1>21. s.VB.channels = a.channels /\ s.VB.labels = a.labels
  BY <1>14, <1>15, <1>19 DEF Grouped, SameLists, Keeps
<1>22. HasChannels(s.VB, u, n) /\ OnlyMarks(s.VB, u, n) /\ AllMarks(s.VB, u, n)
  BY <1>10, <1>11, <1>21 DEF Channelled, HasChannels, OnlyMarks, AllMarks
<1>23. QED
  BY <1>5, <1>18, <1>19, <1>20, <1>22 DEF Replays, Controlled

LEMMA ReplayedPlaces ==
  ASSUME NEW u \in Lists, MembersThere(u), NEW b, Replays(b, u),
         NEW n \in Nat, n = Len(u.channels), NEW w \in Nat, w = Len(u.groups)
  PROVE  /\ b \in Blocks /\ b.file = u.file
         /\ DOMAIN b.channels = 1 .. n /\ DOMAIN u.channels = 1 .. n /\ Len(b.channels) = n
         /\ DOMAIN b.groups = 1 .. w /\ DOMAIN u.groups = 1 .. w
         /\ \A h \in 1 .. n : b.channels[h].name = u.channels[h].name /\ b.channels[h].ranged = u.channels[h].ranged
         /\ \A g \in 1 .. w : b.groups[g] = u.groups[g].name
         /\ \A g \in 1 .. w : \A m \in DOMAIN u.groups[g].channels :
              u.groups[g].channels[m] \in Nat /\ u.groups[g].channels[m] + 1 \in 1 .. n
<1>1. b \in Blocks /\ b.file = u.file
  BY DEF Replays, Base
<1>2. DOMAIN u.channels = 1 .. n /\ DOMAIN u.groups = 1 .. w
  BY DEF Lists
<1>3. Len(b.channels) = n /\ Len(b.groups) = w
  BY DEF Replays, HasChannels, HasGroups
<1>4. DOMAIN b.channels = 1 .. n /\ DOMAIN b.groups = 1 .. w
  BY <1>1, <1>3, ListTypes
<1>5. \A h \in 1 .. n : b.channels[h].name = u.channels[h].name /\ b.channels[h].ranged = u.channels[h].ranged
  BY DEF Replays, HasChannels
<1>6. \A g \in 1 .. w : b.groups[g] = u.groups[g].name
  BY DEF Replays, HasGroups
<1>7. ASSUME NEW g \in 1 .. w, NEW m \in DOMAIN u.groups[g].channels
      PROVE  u.groups[g].channels[m] \in Nat /\ u.groups[g].channels[m] + 1 \in 1 .. n
  <2>1. PICK q \in Seq(ListedGroups) : q = u.groups
    BY DEF Lists
  <2>2. q[g] \in ListedGroups
    BY <1>2, <2>1
  <2>3. PICK e \in Seq(Nat) : e = u.groups[g].channels
    BY <2>1, <2>2 DEF ListedGroups
  <2>4. e[m] \in Nat
    BY <2>3
  <2>5. u.groups[g].channels[m] < n
    BY <1>2 DEF MembersThere
  <2>6. QED
    <3>1. PICK x \in Nat : x = u.groups[g].channels[m]
      BY ONLY <2>3, <2>4, Zenon
    <3>2. x < n
      BY ONLY <2>5, <3>1, Zenon
    <3>3. x + 1 \in 1 .. n
      BY ONLY n \in Nat, x \in Nat, <3>2
    <3>4. QED
      BY ONLY <3>1, <3>3, x \in Nat, Zenon
<1>8. QED
  BY <1>1, <1>2, <1>3, <1>4, <1>5, <1>6, <1>7

(* The facts one by one. *)
ChannelFact(u, f) == \E h \in DOMAIN u.channels : f = <<"channel", u.channels[h].name, h - 1>>
GroupFact(u, f)   == \E g \in DOMAIN u.groups : f = <<"group", u.groups[g].name, g - 1>>
MemberFact(u, f)  == \E g \in DOMAIN u.groups : \E m \in DOMAIN u.groups[g].channels :
                       f = <<"member", u.groups[g].name, u.channels[u.groups[g].channels[m] + 1].name>>
LabelFact(u, f)   == \E h \in DOMAIN u.channels : \E l \in DOMAIN u.channels[h].labels :
                       f = <<"label", u.channels[h].name, u.channels[h].labels[l]>>
RangeFact(u, f)   == \E h \in DOMAIN u.channels : u.channels[h].ranged /\ f = <<"range", u.channels[h].name>>
ControlFact(u, f) == \E k \in DOMAIN u.controls : f = <<"control", Plain(u.controls[k]), k>>

FactOf(u, f) ==
  \/ ChannelFact(u, f) \/ GroupFact(u, f) \/ MemberFact(u, f) \/ LabelFact(u, f) \/ RangeFact(u, f)
  \/ ControlFact(u, f)
  \/ f = <<"file", u.file>>

LEMMA FactsAre ==
  ASSUME NEW u, NEW f
  PROVE  f \in FactsOf(u) <=> FactOf(u, f)
<1> DEFINE A == {<<"channel", u.channels[h].name, h - 1>> : h \in DOMAIN u.channels}
           B == {<<"group", u.groups[g].name, g - 1>> : g \in DOMAIN u.groups}
           C == (UNION {{<<"member", u.groups[g].name, u.channels[u.groups[g].channels[m] + 1].name>> :
                          m \in DOMAIN u.groups[g].channels} : g \in DOMAIN u.groups})
           D == (UNION {{<<"label", u.channels[h].name, u.channels[h].labels[l]>> :
                          l \in DOMAIN u.channels[h].labels} : h \in DOMAIN u.channels})
           E == {<<"range", u.channels[h].name>> : h \in {i \in DOMAIN u.channels : u.channels[i].ranged}}
           F == {<<"control", Plain(u.controls[k]), k>> : k \in DOMAIN u.controls}
<1>1. FactsOf(u) = A \cup B \cup C \cup D \cup E \cup F \cup {<<"file", u.file>>}
  BY DEF FactsOf
<1>2. f \in A <=> \E h \in DOMAIN u.channels : f = <<"channel", u.channels[h].name, h - 1>>
  OBVIOUS
<1>3. f \in B <=> \E g \in DOMAIN u.groups : f = <<"group", u.groups[g].name, g - 1>>
  OBVIOUS
<1>4. f \in C <=> \E g \in DOMAIN u.groups : \E m \in DOMAIN u.groups[g].channels :
        f = <<"member", u.groups[g].name, u.channels[u.groups[g].channels[m] + 1].name>>
  OBVIOUS
<1>5. f \in D <=> \E h \in DOMAIN u.channels : \E l \in DOMAIN u.channels[h].labels :
        f = <<"label", u.channels[h].name, u.channels[h].labels[l]>>
  OBVIOUS
<1>6. f \in E <=> \E h \in DOMAIN u.channels : u.channels[h].ranged /\ f = <<"range", u.channels[h].name>>
  OBVIOUS
<1>7. f \in F <=> \E k \in DOMAIN u.controls : f = <<"control", Plain(u.controls[k]), k>>
  OBVIOUS
<1> HIDE DEF A, B, C, D, E, F
<1>8. f \in FactsOf(u) <=>
        f \in A \/ f \in B \/ f \in C \/ f \in D \/ f \in E \/ f \in F \/ f = <<"file", u.file>>
  BY ONLY <1>1
<1>9. QED
  BY ONLY <1>2, <1>3, <1>4, <1>5, <1>6, <1>7, <1>8, Zenon
  DEF FactOf, ChannelFact, GroupFact, MemberFact, LabelFact, RangeFact, ControlFact

LEMMA FactsReplayed ==
  ASSUME NEW u \in Lists, MembersThere(u), NEW b, Replays(b, u)
  PROVE  Placed(b) /\ (Lined(b, u, Len(u.controls)) => Facts(b) = FactsOf(u))
<1>1. PICK n \in Nat, w \in Nat : n = Len(u.channels) /\ w = Len(u.groups)
  BY DEF Lists
<1>2. /\ b \in Blocks /\ b.file = u.file
      /\ DOMAIN b.channels = 1 .. n /\ DOMAIN u.channels = 1 .. n /\ Len(b.channels) = n
      /\ DOMAIN b.groups = 1 .. w /\ DOMAIN u.groups = 1 .. w
      /\ \A h \in 1 .. n : b.channels[h].name = u.channels[h].name /\ b.channels[h].ranged = u.channels[h].ranged
      /\ \A g \in 1 .. w : b.groups[g] = u.groups[g].name
      /\ \A g \in 1 .. w : \A m \in DOMAIN u.groups[g].channels :
           u.groups[g].channels[m] \in Nat /\ u.groups[g].channels[m] + 1 \in 1 .. n
  BY <1>1, ReplayedPlaces
<1>3. \A k \in DOMAIN b.members : \E g \in 1 .. w : \E m \in DOMAIN u.groups[g].channels : b.members[k] = Join(u, g, m)
  BY <1>1 DEF Replays, OnlyJoins
<1>4. \A g \in 1 .. w : \A m \in DOMAIN u.groups[g].channels : \E k \in DOMAIN b.members : b.members[k] = Join(u, g, m)
  BY <1>1 DEF Replays, AllJoins
<1>5. \A k \in DOMAIN b.labels : \E h \in 1 .. n : \E l \in DOMAIN u.channels[h].labels : b.labels[k] = Mark(u, h, l)
  BY <1>1 DEF Replays, OnlyMarks
<1>6. \A h \in 1 .. n : \A l \in DOMAIN u.channels[h].labels : \E k \in DOMAIN b.labels : b.labels[k] = Mark(u, h, l)
  BY <1>1 DEF Replays, AllMarks
<1>7. ASSUME NEW g \in 1 .. w, NEW m \in DOMAIN u.groups[g].channels, NEW e, e = Join(u, g, m)
      PROVE  /\ b.groups[e.group + 1] = u.groups[g].name
             /\ b.channels[e.channel + 1].name = u.channels[u.groups[g].channels[m] + 1].name
             /\ e.channel < n
  <2>1. e.group + 1 = g /\ e.channel = u.groups[g].channels[m]
    BY <1>7 DEF Join
  <2>2. e.channel \in Nat /\ e.channel + 1 \in 1 .. n
    BY <1>2, <2>1
  <2>3. QED
    BY <1>2, <2>1, <2>2
<1>8. ASSUME NEW h \in 1 .. n, NEW l \in DOMAIN u.channels[h].labels, NEW e, e = Mark(u, h, l)
      PROVE  /\ b.channels[e.handle + 1].name = u.channels[h].name
             /\ e.name = u.channels[h].labels[l] /\ e.handle < n
  <2>1. e.handle + 1 = h /\ e.handle < n /\ e.name = u.channels[h].labels[l]
    BY <1>8 DEF Mark
  <2>2. QED
    BY <1>2, <2>1
<1>9. Placed(b)
  <2>1. \A k \in DOMAIN b.members : b.members[k].channel < n
    BY <1>3, <1>7
  <2>2. \A k \in DOMAIN b.labels : b.labels[k].handle < n
    BY <1>5, <1>8
  <2>3. QED
    BY <1>2, <2>1, <2>2 DEF Placed
<1>13. ASSUME Lined(b, u, Len(u.controls))
       PROVE  /\ \A k \in DOMAIN u.controls :
                   /\ k \in DOMAIN b.controls /\ b.controls[k].name # None
                   /\ Plain(b.controls[k]) = Plain(u.controls[k])
              /\ \A k \in DOMAIN b.controls : b.controls[k].name # None => k \in DOMAIN u.controls
  <2>1. PICK q \in Seq(ListedControls) : q = u.controls
    BY DEF Lists
  <2>2. PICK z \in Seq(Controls) : z = b.controls
    BY <1>2 DEF Blocks
  <2>3. DOMAIN q = 1 .. Len(q) /\ DOMAIN z = 1 .. Len(z) /\ Len(q) \in Nat /\ Len(z) \in Nat
    OBVIOUS
  <2>4. \A k \in DOMAIN q : q[k] \in ListedControls
    OBVIOUS
  <2>5. \A k \in DOMAIN q : q[k].name # None
    BY <2>4, RegistryAssumption DEF ListedControls
  <2>6. Len(z) >= Len(q)
    BY <1>13, <2>1, <2>2 DEF Lined
  <2>7. \A k \in DOMAIN q : k \in DOMAIN z
    BY <2>3, <2>6
  <2>8. \A k \in DOMAIN q : Plain(z[k]) = Plain(q[k])
    BY <1>13, <2>1, <2>2, <2>3 DEF Lined
  <2>9. \A k \in DOMAIN z : z[k].name # None => k \in DOMAIN q
    BY <1>13, <2>1, <2>2, <2>3 DEF Lined
  <2>10. \A k \in DOMAIN q : z[k].name = q[k].name
    BY <2>8 DEF Plain
  <2>11. QED
    BY <2>1, <2>2, <2>5, <2>7, <2>8, <2>9, <2>10
<1>10. ASSUME Lined(b, u, Len(u.controls)), NEW f \in Facts(b) PROVE f \in FactsOf(u)
  <2>1. ASSUME NEW h \in 1 .. n, f = <<"channel", b.channels[h].name, h - 1>> PROVE FactOf(u, f)
    BY <1>2, <2>1 DEF FactOf, ChannelFact, GroupFact, MemberFact, LabelFact, RangeFact
  <2>2. ASSUME NEW g \in 1 .. w, f = <<"group", b.groups[g], g - 1>> PROVE FactOf(u, f)
    BY <1>2, <2>2 DEF FactOf, ChannelFact, GroupFact, MemberFact, LabelFact, RangeFact
  <2>3. ASSUME NEW k \in DOMAIN b.members,
               f = <<"member", b.groups[b.members[k].group + 1], b.channels[b.members[k].channel + 1].name>>
        PROVE  FactOf(u, f)
    <3>1. PICK g \in 1 .. w : \E m \in DOMAIN u.groups[g].channels : b.members[k] = Join(u, g, m)
      BY <1>3
    <3>2. PICK m \in DOMAIN u.groups[g].channels : b.members[k] = Join(u, g, m)
      BY <3>1
    <3>3. f = <<"member", u.groups[g].name, u.channels[u.groups[g].channels[m] + 1].name>>
      BY <1>7, <2>3, <3>2
    <3>4. QED
      BY <1>2, <3>3 DEF FactOf, ChannelFact, GroupFact, MemberFact, LabelFact, RangeFact
  <2>4. ASSUME NEW k \in DOMAIN b.labels,
               f = <<"label", b.channels[b.labels[k].handle + 1].name, b.labels[k].name>>
        PROVE  FactOf(u, f)
    <3>1. PICK h \in 1 .. n : \E l \in DOMAIN u.channels[h].labels : b.labels[k] = Mark(u, h, l)
      BY <1>5
    <3>2. PICK l \in DOMAIN u.channels[h].labels : b.labels[k] = Mark(u, h, l)
      BY <3>1
    <3>3. f = <<"label", u.channels[h].name, u.channels[h].labels[l]>>
      BY <1>8, <2>4, <3>2
    <3>4. QED
      BY <1>2, <3>3 DEF FactOf, ChannelFact, GroupFact, MemberFact, LabelFact, RangeFact
  <2>5. ASSUME NEW h \in 1 .. n, b.channels[h].ranged, f = <<"range", b.channels[h].name>> PROVE FactOf(u, f)
    <3>1. u.channels[h].ranged /\ f = <<"range", u.channels[h].name>>
      BY <1>2, <2>5
    <3>2. QED
      BY <1>2, <3>1 DEF FactOf, ChannelFact, GroupFact, MemberFact, LabelFact, RangeFact
  <2>6. ASSUME f = <<"file", b.file>> PROVE FactOf(u, f)
    BY <1>2, <2>6 DEF FactOf, ChannelFact, GroupFact, MemberFact, LabelFact, RangeFact
  <2>7. \/ \E h \in 1 .. n : f = <<"channel", b.channels[h].name, h - 1>>
        \/ \E g \in 1 .. w : f = <<"group", b.groups[g], g - 1>>
        \/ \E k \in DOMAIN b.members :
             f = <<"member", b.groups[b.members[k].group + 1], b.channels[b.members[k].channel + 1].name>>
        \/ \E k \in DOMAIN b.labels : f = <<"label", b.channels[b.labels[k].handle + 1].name, b.labels[k].name>>
        \/ \E h \in 1 .. n : b.channels[h].ranged /\ f = <<"range", b.channels[h].name>>
        \/ \E k \in DOMAIN b.controls : b.controls[k].name # None /\ f = <<"control", Plain(b.controls[k]), k>>
        \/ f = <<"file", b.file>>
    BY <1>2 DEF Facts, ToSet
  <2>8. ASSUME NEW k \in DOMAIN b.controls, b.controls[k].name # None, f = <<"control", Plain(b.controls[k]), k>>
        PROVE  FactOf(u, f)
    BY <1>10, <1>13, <2>8 DEF FactOf, ControlFact
  <2>9. FactOf(u, f)
    BY ONLY <2>1, <2>2, <2>3, <2>4, <2>5, <2>6, <2>7, <2>8
  <2>10. QED
    BY <2>9, FactsAre
<1>11. ASSUME Lined(b, u, Len(u.controls)), NEW f \in FactsOf(u) PROVE f \in Facts(b)
  <2>1. ASSUME NEW h \in 1 .. n, f = <<"channel", u.channels[h].name, h - 1>> PROVE f \in Facts(b)
    BY <1>2, <2>1 DEF Facts
  <2>2. ASSUME NEW g \in 1 .. w, f = <<"group", u.groups[g].name, g - 1>> PROVE f \in Facts(b)
    BY <1>2, <2>2 DEF Facts
  <2>3. ASSUME NEW g \in 1 .. w, NEW m \in DOMAIN u.groups[g].channels,
               f = <<"member", u.groups[g].name, u.channels[u.groups[g].channels[m] + 1].name>>
        PROVE  f \in Facts(b)
    <3>1. PICK k \in DOMAIN b.members : b.members[k] = Join(u, g, m)
      BY <1>4
    <3>2. PICK e : e = b.members[k]
      OBVIOUS
    <3>3. e \in ToSet(b.members) /\ f = <<"member", b.groups[e.group + 1], b.channels[e.channel + 1].name>>
      BY <1>7, <2>3, <3>1, <3>2 DEF ToSet
    <3>4. QED
      BY <3>3 DEF Facts
  <2>4. ASSUME NEW h \in 1 .. n, NEW l \in DOMAIN u.channels[h].labels,
               f = <<"label", u.channels[h].name, u.channels[h].labels[l]>>
        PROVE  f \in Facts(b)
    <3>1. PICK k \in DOMAIN b.labels : b.labels[k] = Mark(u, h, l)
      BY <1>6
    <3>2. PICK e : e = b.labels[k]
      OBVIOUS
    <3>3. e \in ToSet(b.labels) /\ f = <<"label", b.channels[e.handle + 1].name, e.name>>
      BY <1>8, <2>4, <3>1, <3>2 DEF ToSet
    <3>4. QED
      BY <3>3 DEF Facts
  <2>5. ASSUME NEW h \in 1 .. n, u.channels[h].ranged, f = <<"range", u.channels[h].name>> PROVE f \in Facts(b)
    <3>1. b.channels[h] \in {d \in ToSet(b.channels) : d.ranged} /\ f = <<"range", b.channels[h].name>>
      BY <1>2, <2>5 DEF ToSet
    <3>2. QED
      BY <3>1 DEF Facts
  <2>6. CASE f = <<"file", u.file>>
    BY <1>2, <2>6 DEF Facts
  <2>7. \/ \E h \in 1 .. n : f = <<"channel", u.channels[h].name, h - 1>>
        \/ \E g \in 1 .. w : f = <<"group", u.groups[g].name, g - 1>>
        \/ \E g \in 1 .. w : \E m \in DOMAIN u.groups[g].channels :
             f = <<"member", u.groups[g].name, u.channels[u.groups[g].channels[m] + 1].name>>
        \/ \E h \in 1 .. n : \E l \in DOMAIN u.channels[h].labels :
             f = <<"label", u.channels[h].name, u.channels[h].labels[l]>>
        \/ \E h \in 1 .. n : u.channels[h].ranged /\ f = <<"range", u.channels[h].name>>
        \/ \E k \in DOMAIN u.controls : f = <<"control", Plain(u.controls[k]), k>>
        \/ f = <<"file", u.file>>
    <3>1. FactOf(u, f)
      BY FactsAre
    <3>2. QED
      BY ONLY <1>2, <3>1 DEF FactOf, ChannelFact, GroupFact, MemberFact, LabelFact, RangeFact, ControlFact
  <2>8. ASSUME NEW k \in DOMAIN u.controls, f = <<"control", Plain(u.controls[k]), k>> PROVE f \in Facts(b)
    <3>1. k \in {i \in DOMAIN b.controls : b.controls[i].name # None} /\ f = <<"control", Plain(b.controls[k]), k>>
      BY <1>11, <1>13, <2>8
    <3>2. QED
      BY <3>1 DEF Facts
  <2>9. QED
    BY ONLY <2>1, <2>2, <2>3, <2>4, <2>5, <2>6, <2>7, <2>8
<1>12. QED
  BY <1>9, <1>10, <1>11

(* The server was created, or not: r is the result. *)
LEMMA CreatedKeeps ==
  ASSUME IInv, Idle, NEW u \in Lists, u = Ready, NEW x \in States({}), Base(x.VB, u), FromControls(x.VB, u),
         Placed(x.VB), NEW r \in {"ok", "no", "busy", "crash"}, r = "ok" => Facts(x.VB) = FactsOf(u),
         r = "no" => Refuses(u), r = "crash" => Crashes(u), Created(u, x, r)
  PROVE  IInv'
<1>1. /\ util' = [u EXCEPT !.channels = << >>, !.groups = << >>, !.initialized = (r # "ok")]
      /\ VB' = [x.VB EXCEPT !.active = (r = "ok")]
      /\ variable' = x.variable /\ outcome' = r
      /\ told' = IF ~util.initialized THEN {} ELSE {t \in told : r = "ok" \/ t[1] \in {"control", "file"}}
      /\ files' = files /\ chosen' = chosen
      /\ pending' = pending /\ shown' = shown /\ orders' = orders /\ crossed' = crossed
  BY DEF Created, clientVars
<1>2. TypeOK /\ Listed /\ Everyone = {}
  BY DEF IInv, TypeOK
<1>3. PICK b \in Blocks : b = x.VB
  BY Parts
<1>4. /\ VB' \in Blocks /\ VB'.active = (r = "ok") /\ VB'.limits = b.limits /\ VB'.file = b.file
      /\ VB'.command = b.command /\ VB'.channels = b.channels /\ VB'.groups = b.groups
      /\ VB'.members = b.members /\ VB'.labels = b.labels /\ VB'.controls = b.controls
  BY <1>1, <1>3 DEF Blocks
<1>5. /\ util' \in Lists /\ util'.channels = << >> /\ util'.groups = << >> /\ util'.initialized = (r # "ok")
      /\ util'.controls = u.controls /\ util'.file = u.file /\ util'.command = u.command
  <2>1. << >> \in Seq(ListedChannels) /\ << >> \in Seq(ListedGroups)
    OBVIOUS
  <2>2. QED
    BY <1>1, <2>1 DEF Lists
<1>6. Active' <=> r = "ok"
  <2>1. VB' # None
    BY <1>4, PointerAssumption
  <2>2. QED
    BY <1>1, <1>4, <2>1 DEF Active
<1>7. Everyone' = {}
  BY <1>1, <1>2 DEF Everyone
<1>8. TypeOK'
  <2>1. variable' \in [Addresses -> Values]
    BY <1>1 DEF States
  <2>2. outcome' \in {"none", "ok", "no", "busy", "crash"}
    BY <1>1
  <2>3. Everyone' = Everyone
    BY <1>2, <1>7
  <2>4. QED
    BY <1>1, <1>2, <1>4, <1>5, <1>7, <2>1, <2>2, <2>3 DEF TypeOK
<1>9. ASSUME NEW v, v.channels = << >>, v.groups = << >>
      PROVE  /\ MembersThere(v)
             /\ \A f : FactOf(v, f) <=> ControlFact(v, f) \/ f = <<"file", v.file>>
  <2>1. DOMAIN v.channels = {} /\ DOMAIN v.groups = {}
    BY <1>9
  <2>2. MembersThere(v)
    BY <2>1 DEF MembersThere
  <2>3. ASSUME NEW f PROVE FactOf(v, f) <=> ControlFact(v, f) \/ f = <<"file", v.file>>
    BY <2>1 DEF FactOf, ChannelFact, GroupFact, MemberFact, LabelFact, RangeFact
  <2>4. QED
    BY <2>2, <2>3
<1>16. ASSUME ~util.initialized PROVE u.channels = << >> /\ u.groups = << >> /\ \A f : ~ControlFact(u, f)
  BY <1>16 DEF Ready, Initialized, Zeroed, ControlFact
<1>17. ASSUME util.initialized PROVE u = util /\ AsTold(FactsOf(u))
  BY <1>2, <1>17 DEF Ready, Listed
<1>10. Listed'
  <2>1. MembersThere(util')
    BY <1>5, <1>9
  <2>2. ASSUME util'.initialized PROVE AsTold(FactsOf(util))'
    <3>1. \A f : f \in FactsOf(util') <=> ControlFact(u, f) \/ f = <<"file", u.file>>
      <4>1. \A f : f \in FactsOf(util') <=> ControlFact(util', f) \/ f = <<"file", util'.file>>
        BY <1>5, <1>9, FactsAre
      <4>2. QED
        BY <1>5, <4>1 DEF ControlFact
    <3>2. CASE ~util.initialized
      BY <1>1, <1>16, <3>1, <3>2 DEF AsTold
    <3>3. CASE util.initialized
      <4>1. told' = {t \in told : t[1] \in {"control", "file"}}
        BY <1>1, <1>5, <2>2, <3>3
      <4>2. ASSUME NEW f \in told' PROVE f \in FactsOf(util')
        <5>1. f \in FactsOf(u) /\ f[1] \in {"control", "file"}
          BY <1>17, <3>3, <4>1, <4>2 DEF AsTold
        <5>2. FactOf(u, f)
          BY <5>1, FactsAre
        <5>3. ControlFact(u, f) \/ f = <<"file", u.file>>
          BY <5>1, <5>2 DEF FactOf, ChannelFact, GroupFact, MemberFact, LabelFact, RangeFact
        <5>4. QED
          BY <3>1, <5>3
      <4>3. ASSUME NEW f \in FactsOf(util'), f[1] \in {"member", "label", "range", "control"} PROVE f \in told'
        <5>1. ControlFact(u, f)
          BY <3>1, <4>3
        <5>2. f \in FactsOf(u) /\ f[1] = "control"
          BY <5>1, FactsAre DEF FactOf, ControlFact
        <5>3. QED
          BY <1>17, <3>3, <4>1, <5>2 DEF AsTold
      <4>4. QED
        BY <4>2, <4>3 DEF AsTold
    <3>4. QED
      BY <3>2, <3>3
  <2>3. QED
    BY <2>1, <2>2 DEF Listed
<1>11. Backed'
  <2>1. b.command = u.command
    BY <1>3 DEF Base
  <2>2. QED
    BY <1>3, <1>4, <1>5, <2>1 DEF Backed, FromControls, HasFloat, HasCommand
<1>12. InStep'
  BY <1>7 DEF InStep, Agreed, State, Everyone
<1>13. Facing'
  <2>1. Placed(VB')
    BY <1>3, <1>4 DEF Placed
  <2>2. r = "ok" => Facts(VB') = FactsOf(u)
    <3>1. Facts(VB') = Facts(b)
      BY <1>4 DEF Facts
    <3>2. QED
      BY <1>3, <3>1
  <2>3. CASE r = "ok" /\ util.initialized
    <3>1. u = util /\ told' = told
      BY <1>1, <2>3 DEF Ready
    <3>2. AsTold(FactsOf(util))
      BY <1>2, <2>3 DEF Listed
    <3>3. AsTold(Facts(VB))'
      BY <2>2, <2>3, <3>1, <3>2 DEF AsTold
    <3>4. QED
      BY <2>1, <3>3 DEF Facing
  <2>4. CASE r = "ok" /\ ~util.initialized
    <3>1. u.channels = << >> /\ u.groups = << >> /\ told' = {}
      BY <1>1, <1>16, <2>4
    <3>2. ASSUME NEW f \in FactsOf(u) PROVE f = <<"file", u.file>>
      BY <1>9, <1>16, <2>4, <3>1, FactsAre
    <3>3. AsTold(Facts(VB))'
      BY <2>2, <2>4, <3>1, <3>2 DEF AsTold
    <3>4. QED
      BY <2>1, <3>3 DEF Facing
  <2>5. QED
    BY <1>6, <2>3, <2>4 DEF Facing
<1>14. RefusedWithReason'
  BY <1>1, <1>5 DEF RefusedWithReason, Refuses, Crashes
<1>15. QED
  BY <1>8, <1>10, <1>11, <1>12, <1>13, <1>14 DEF IInv

LEMMA ReadyType ==
  ASSUME TypeOK, Listed
  PROVE  Ready \in Lists /\ MembersThere(Ready)
<1>1. << >> \in Seq(ListedChannels) /\ << >> \in Seq(ListedGroups) /\ << >> \in Seq(ListedControls)
  OBVIOUS
<1>2. PICK u : u = Initialized
  OBVIOUS
<1>3. u = [initialized |-> TRUE, channels |-> << >>, groups |-> << >>, controls |-> << >>,
           file |-> Default, command |-> FALSE]
  BY <1>2 DEF Initialized, Zeroed
<1>4. u \in Lists
  BY <1>1, <1>3, UtilAssumption DEF Lists
<1>5. MembersThere(u)
  BY <1>3 DEF MembersThere
<1>6. QED
  BY <1>2, <1>4, <1>5 DEF Ready, TypeOK, Listed

LEMMA CreateKeeps == ASSUME IInv, Create \/ CreateBusy PROVE IInv'
<1>1. Idle /\ TypeOK /\ Listed
  BY DEF Create, CreateBusy, IInv
<1>2. PICK u \in Lists : u = Ready /\ MembersThere(u)
  BY <1>1, ReadyType
<1>3. PICK s : s = Replayed(u)
  OBVIOUS
<1>4. s \in States({}) /\ Replays(s.VB, u) /\ (s.result = "no" => Refuses(u)) /\ (s.result = "crash" => Crashes(u))
      /\ (s.result = "ok" => Lined(s.VB, u, Len(u.controls)))
  BY <1>1, <1>2, <1>3, ReplayedGives
<1>5. (s.result = "ok" => Facts(s.VB) = FactsOf(u)) /\ Placed(s.VB) /\ Base(s.VB, u) /\ FromControls(s.VB, u)
  BY <1>2, <1>4, FactsReplayed DEF Replays
<1>6. CASE Created(u, s, s.result)
  <2>1. PICK r \in {"ok", "no", "busy", "crash"} : r = s.result
    BY <1>4 DEF States
  <2>2. QED
    BY <1>1, <1>2, <1>4, <1>5, <1>6, <2>1, CreatedKeeps
<1>7. CASE Created(u, s, "busy")
  BY <1>1, <1>2, <1>4, <1>5, <1>7, CreatedKeeps
<1>8. ASSUME s.result = "ok", NEW t, t = Loaded(s, files[u.file]), Created(u, t, t.result) PROVE IInv'
  <2>1. files[u.file] \in Seq(Entries)
    BY <1>1 DEF TypeOK, Lists
  <2>2. t \in States({}) /\ Restores(s, t)
    BY <1>4, <1>8, <2>1, LoadedReads
  <2>3. t.VB \in Blocks /\ s.VB \in Blocks /\ SameLists(s.VB, t.VB) /\ SameLayout(s.VB, t.VB)
    BY <1>4, <2>2, Parts DEF Restores
  <2>4. Base(t.VB, u)
    BY <1>5, <2>3 DEF Base, SameLists
  <2>5. DOMAIN t.VB.controls = DOMAIN s.VB.controls
    BY <2>3, LayoutDistinct
  <2>6. FromControls(t.VB, u)
    BY <1>5, <2>3, <2>5 DEF FromControls, SameLayout
  <2>7. Facts(t.VB) = Facts(s.VB)
    <3>1. \A k \in DOMAIN s.VB.controls :
            t.VB.controls[k].name = s.VB.controls[k].name /\ Plain(t.VB.controls[k]) = Plain(s.VB.controls[k])
      BY <2>3 DEF SameLayout, Plain
    <3>2. {<<"control", Plain(t.VB.controls[k]), k>> : k \in {i \in DOMAIN t.VB.controls : t.VB.controls[i].name # None}}
            = {<<"control", Plain(s.VB.controls[k]), k>> : k \in {i \in DOMAIN s.VB.controls : s.VB.controls[i].name # None}}
      BY <2>5, <3>1
    <3>3. QED
      BY <2>3, <3>2 DEF Facts, SameLists
  <2>8. Placed(t.VB)
    BY <1>5, <2>3 DEF Placed, SameLists
  <2>9. t.result = "ok" \/ (t.result = "crash" /\ Crashes(u))
    <3>1. CASE ~Named(s.VB)
      <4>1. HasFloat(u)
        BY <1>5, <3>1 DEF Named, FromControls
      <4>2. QED
        BY <2>2, <4>1 DEF HasFloat, Crashes, Restores
    <3>2. QED
      BY <2>2, <3>1 DEF Restores
  <2>10. PICK r \in {"ok", "no", "busy", "crash"} : r = t.result /\ r # "no"
    BY <2>9
  <2>11. QED
    BY <1>1, <1>2, <1>5, <1>8, <2>2, <2>4, <2>6, <2>7, <2>8, <2>9, <2>10, CreatedKeeps
<1>9. QED
  BY <1>2, <1>3, <1>6, <1>7, <1>8 DEF Create, CreateBusy

-----------------------------------------------------------------------------
(* Registering.                                                            *)

(* While no server runs only the lists matter. *)
LEMMA AsideKeeps ==
  ASSUME IInv, Idle, util' \in Lists, VB' \in {VB, None}, outcome' \in {outcome, "none"},
         variable' \in [Addresses -> Values], UNCHANGED <<files, chosen, clientVars>>,
         Listed', outcome' = "no" => Refuses(util')
  PROVE  IInv'
<1>1. TypeOK /\ Everyone = {} /\ outcome # "crash" /\ ~Active
  BY DEF IInv, TypeOK, Idle
<1>2. ~Active' /\ outcome' # "crash"
  BY <1>1 DEF Active
<1>3. Everyone' = {} /\ Everyone' = Everyone
  BY <1>1 DEF Everyone, clientVars
<1>4. TypeOK'
  <2>1. VB' \in Blocks \cup {None} /\ outcome' \in {"none", "ok", "no", "busy", "crash"}
    BY <1>1 DEF TypeOK
  <2>2. pending' = pending /\ shown' = shown /\ orders' = orders /\ crossed' = crossed
        /\ files' = files /\ chosen' = chosen
    BY DEF clientVars
  <2>3. QED
    BY <1>1, <1>3, <2>1, <2>2 DEF TypeOK
<1>5. Backed' /\ InStep' /\ Facing'
  BY <1>2 DEF Backed, InStep, Facing
<1>6. RefusedWithReason'
  BY <1>2 DEF RefusedWithReason, Refuses
<1>7. QED
  BY <1>4, <1>5, <1>6 DEF IInv

(* From the lists u to the lists v these facts are registered. *)
Gains(u, v, facts) == \A f : FactOf(v, f) <=> FactOf(u, f) \/ f \in facts

LEMMA RegisterKeeps ==
  ASSUME IInv, NEW cost, NEW u, u = Ready, NEW v \in Lists, NEW facts, Register(cost, v, facts),
         MembersThere(v), Gains(u, v, facts)
  PROVE  IInv'
<1>1. /\ Idle /\ util' = v /\ outcome' = "none"
      /\ VB' = (IF util.initialized THEN VB ELSE None)
      /\ told' = (IF util.initialized THEN told ELSE {}) \cup facts
      /\ UNCHANGED <<variable, files, chosen, clientVars>>
  BY DEF Register
<1>2. TypeOK /\ Listed
  BY DEF IInv
<1>3. PICK before : before = IF util.initialized THEN told ELSE {}
  OBVIOUS
<1>4. before \subseteq FactsOf(u) /\ \A f \in FactsOf(u) : f[1] \in {"member", "label", "range", "control"} => f \in before
  <2>1. CASE util.initialized
    BY <1>2, <1>3, <2>1 DEF Ready, Listed, AsTold
  <2>2. CASE ~util.initialized
    <3>1. DOMAIN u.channels = {} /\ DOMAIN u.groups = {} /\ DOMAIN u.controls = {}
      BY <2>2 DEF Ready, Initialized, Zeroed
    <3>2. ASSUME NEW f \in FactsOf(u) PROVE f = <<"file", u.file>>
      BY <3>1, FactsAre DEF FactOf, ChannelFact, GroupFact, MemberFact, LabelFact, RangeFact, ControlFact
    <3>3. QED
      BY <1>3, <2>2, <3>2
  <2>3. QED
    BY <2>1, <2>2
<1>5. FactsOf(v) = FactsOf(u) \cup facts
  BY FactsAre DEF Gains
<1>6. AsTold(FactsOf(util))'
  <2>1. told' = before \cup facts /\ FactsOf(util') = FactsOf(u) \cup facts
    BY <1>1, <1>3, <1>5
  <2>2. told' \subseteq FactsOf(util')
    BY <1>4, <2>1
  <2>3. \A f \in FactsOf(util') : f[1] \in {"member", "label", "range", "control"} => f \in told'
    BY <1>4, <2>1
  <2>4. QED
    BY <2>2, <2>3 DEF AsTold
<1>7. Listed'
  <2>1. MembersThere(util')
    BY <1>1
  <2>2. QED
    BY <1>6, <2>1 DEF Listed
<1>8. /\ util' \in Lists /\ VB' \in {VB, None} /\ outcome' \in {outcome, "none"}
      /\ variable' \in [Addresses -> Values] /\ (outcome' = "no" => Refuses(util'))
  BY <1>1, <1>2 DEF TypeOK
<1>9. UNCHANGED <<files, chosen, clientVars>>
  BY <1>1
<1>10. QED
  BY <1>1, <1>7, <1>8, <1>9, AsideKeeps

(* Nothing else that is registered, and no value, is a fact. *)
LEMMA NoFacts ==
  ASSUME NEW u, NEW v, v.channels = u.channels, v.groups = u.groups, v.file = u.file, MembersThere(u),
         DOMAIN v.controls = DOMAIN u.controls,
         \A k \in DOMAIN u.controls : Plain(v.controls[k]) = Plain(u.controls[k])
  PROVE  MembersThere(v) /\ Gains(u, v, {})
<1>1. MembersThere(v)
  BY DEF MembersThere
<1>2. \A f : ControlFact(v, f) <=> ControlFact(u, f)
  BY DEF ControlFact
<1>3. \A f : FactOf(v, f) <=> FactOf(u, f)
  BY <1>2 DEF FactOf, ChannelFact, GroupFact, MemberFact, LabelFact, RangeFact
<1>4. QED
  BY <1>1, <1>3 DEF Gains

LEMMA ControlRegistered ==
  ASSUME NEW u \in Lists, MembersThere(u), NEW c \in ListedControls,
         NEW v, v = [u EXCEPT !.controls = Append(@, c)]
  PROVE  v \in Lists /\ MembersThere(v) /\ Gains(u, v, {<<"control", Plain(c), Len(u.controls) + 1>>})
<1>1. PICK q \in Seq(ListedControls), n \in Nat : q = u.controls /\ n = Len(q) /\ DOMAIN q = 1 .. n
  <2>1. PICK q \in Seq(ListedControls) : q = u.controls
    BY DEF Lists
  <2>2. Len(q) \in Nat /\ DOMAIN q = 1 .. Len(q)
    BY ONLY q \in Seq(ListedControls)
  <2>3. QED
    BY ONLY q \in Seq(ListedControls), <2>1, <2>2
<1>2. PICK r : r = Append(q, c)
  OBVIOUS
<1>3. /\ r \in Seq(ListedControls) /\ DOMAIN r = 1 .. n + 1 /\ r[n + 1] = c
      /\ \A k \in 1 .. n : r[k] = q[k]
  BY <1>1, <1>2
<1>4. v = [u EXCEPT !.controls = r]
  BY <1>1, <1>2
<1>5. /\ v \in Lists /\ v.controls = r
      /\ v.channels = u.channels /\ v.groups = u.groups /\ v.file = u.file
  BY <1>3, <1>4 DEF Lists
<1>6. \A k \in 1 .. n + 1 : k \in 1 .. n \/ k = n + 1
  OBVIOUS
<1>7. n + 1 \in 1 .. n + 1 /\ \A k \in 1 .. n : k \in 1 .. n + 1
  OBVIOUS
<1>8. ASSUME NEW f PROVE ControlFact(v, f) <=> ControlFact(u, f) \/ f = <<"control", Plain(c), n + 1>>
  BY ONLY <1>1, <1>3, <1>5, <1>6, <1>7, Zenon DEF ControlFact
<1>9. ASSUME NEW f PROVE FactOf(v, f) <=> FactOf(u, f) \/ f = <<"control", Plain(c), n + 1>>
  BY <1>5, <1>8 DEF FactOf, ChannelFact, GroupFact, MemberFact, LabelFact, RangeFact
<1>10. MembersThere(v)
  BY <1>5 DEF MembersThere
<1>11. QED
  BY <1>1, <1>5, <1>9, <1>10 DEF Gains

LEMMA ChannelRegistered ==
  ASSUME NEW u \in Lists, MembersThere(u), NEW name \in ChannelNames,
         NEW v, v = [u EXCEPT !.channels = Append(@, [name |-> name, ranged |-> FALSE, labels |-> << >>])]
  PROVE  v \in Lists /\ MembersThere(v) /\ Gains(u, v, {<<"channel", name, Len(u.channels)>>})
<1>1. PICK q \in Seq(ListedChannels), n \in Nat : q = u.channels /\ n = Len(q) /\ DOMAIN q = 1 .. n
  <2>1. PICK q \in Seq(ListedChannels) : q = u.channels
    BY DEF Lists
  <2>2. Len(q) \in Nat /\ DOMAIN q = 1 .. Len(q)
    BY ONLY q \in Seq(ListedChannels)
  <2>3. QED
    BY ONLY q \in Seq(ListedChannels), <2>1, <2>2
<1>2. PICK x \in ListedChannels : x = [name |-> name, ranged |-> FALSE, labels |-> << >>]
  <2>1. << >> \in Seq(Labels)
    OBVIOUS
  <2>2. QED
    BY <2>1 DEF ListedChannels
<1>3. PICK r : r = Append(q, x)
  OBVIOUS
<1>4. /\ r \in Seq(ListedChannels) /\ Len(r) = n + 1 /\ DOMAIN r = 1 .. n + 1 /\ r[n + 1] = x
      /\ \A h \in 1 .. n : r[h] = q[h]
  BY <1>1, <1>3
<1>5. v = [u EXCEPT !.channels = r]
  BY <1>1, <1>2, <1>3
<1>6. v \in Lists /\ v.channels = r /\ v.groups = u.groups /\ v.file = u.file /\ v.controls = u.controls
  BY <1>4, <1>5 DEF Lists
<1>7. x.name = name /\ x.ranged = FALSE /\ DOMAIN x.labels = {}
  BY <1>2
<1>8. \A h \in 1 .. n + 1 : h \in 1 .. n \/ h = n + 1
  OBVIOUS
<1>9. \A h \in 1 .. n : h \in 1 .. n + 1
  OBVIOUS
<1>10. \A g \in DOMAIN u.groups : \A m \in DOMAIN u.groups[g].channels :
         /\ u.groups[g].channels[m] \in Nat /\ u.groups[g].channels[m] < n
         /\ u.groups[g].channels[m] + 1 \in 1 .. n
  <2>1. ASSUME NEW g \in DOMAIN u.groups, NEW m \in DOMAIN u.groups[g].channels
        PROVE  u.groups[g].channels[m] \in Nat
    <3>1. PICK e \in Seq(ListedGroups) : e = u.groups
      BY DEF Lists
    <3>2. e[g] \in ListedGroups
      BY <3>1
    <3>3. PICK d \in Seq(Nat) : d = u.groups[g].channels
      BY <3>1, <3>2 DEF ListedGroups
    <3>4. QED
      BY <3>3
  <2>2. QED
    BY <1>1, <2>1 DEF MembersThere
<1>11. MembersThere(v)
  BY <1>4, <1>6, <1>10 DEF MembersThere
<1>12. ASSUME NEW f, FactOf(v, f) PROVE FactOf(u, f) \/ f = <<"channel", name, n>>
  <2>1. ASSUME NEW h \in 1 .. n + 1, f = <<"channel", r[h].name, h - 1>>
        PROVE  FactOf(u, f) \/ f = <<"channel", name, n>>
    <3>1. CASE h \in 1 .. n
      <4>1. h \in DOMAIN u.channels /\ f = <<"channel", u.channels[h].name, h - 1>>
        BY <1>1, <1>4, <2>1, <3>1
      <4>2. QED
        BY <4>1 DEF FactOf, ChannelFact
    <3>2. CASE h = n + 1
      <4>1. r[h].name = name /\ h - 1 = n
        BY <1>4, <1>7, <3>2
      <4>2. QED
        BY <2>1, <4>1
    <3>3. QED
      BY <1>8, <3>1, <3>2
  <2>2. ASSUME NEW g \in DOMAIN u.groups, f = <<"group", u.groups[g].name, g - 1>> PROVE FactOf(u, f)
    BY <2>2 DEF FactOf, ChannelFact, GroupFact, MemberFact, LabelFact, RangeFact
  <2>3. ASSUME NEW g \in DOMAIN u.groups, NEW m \in DOMAIN u.groups[g].channels,
               f = <<"member", u.groups[g].name, r[u.groups[g].channels[m] + 1].name>>
        PROVE  FactOf(u, f)
    BY <1>1, <1>4, <1>10, <2>3 DEF FactOf, ChannelFact, GroupFact, MemberFact, LabelFact, RangeFact
  <2>4. ASSUME NEW h \in 1 .. n + 1, NEW l \in DOMAIN r[h].labels, f = <<"label", r[h].name, r[h].labels[l]>>
        PROVE  FactOf(u, f)
    BY <1>1, <1>4, <1>7, <1>8, <2>4 DEF FactOf, ChannelFact, GroupFact, MemberFact, LabelFact, RangeFact
  <2>5. ASSUME NEW h \in 1 .. n + 1, r[h].ranged, f = <<"range", r[h].name>> PROVE FactOf(u, f)
    BY <1>1, <1>4, <1>7, <1>8, <2>5 DEF FactOf, ChannelFact, GroupFact, MemberFact, LabelFact, RangeFact
  <2>6. ASSUME f = <<"file", u.file>> PROVE FactOf(u, f)
    BY <2>6 DEF FactOf, ChannelFact, GroupFact, MemberFact, LabelFact, RangeFact
  <2>7. ControlFact(v, f) => FactOf(u, f)
    BY <1>6 DEF ControlFact, FactOf
  <2>8. QED
    BY <1>4, <1>6, <1>12, <2>1, <2>2, <2>3, <2>4, <2>5, <2>6, <2>7
    DEF FactOf, ChannelFact, GroupFact, MemberFact, LabelFact, RangeFact
<1>13. ASSUME NEW f, FactOf(u, f) PROVE FactOf(v, f)
  <2>1. ASSUME NEW h \in 1 .. n, f = <<"channel", q[h].name, h - 1>> PROVE FactOf(v, f)
    BY <1>4, <1>6, <1>9, <2>1 DEF FactOf, ChannelFact, GroupFact, MemberFact, LabelFact, RangeFact
  <2>2. ASSUME NEW g \in DOMAIN u.groups, f = <<"group", u.groups[g].name, g - 1>> PROVE FactOf(v, f)
    BY <1>6, <2>2 DEF FactOf, ChannelFact, GroupFact, MemberFact, LabelFact, RangeFact
  <2>3. ASSUME NEW g \in DOMAIN u.groups, NEW m \in DOMAIN u.groups[g].channels,
               f = <<"member", u.groups[g].name, q[u.groups[g].channels[m] + 1].name>>
        PROVE  FactOf(v, f)
    BY <1>4, <1>6, <1>10, <2>3 DEF FactOf, ChannelFact, GroupFact, MemberFact, LabelFact, RangeFact
  <2>4. ASSUME NEW h \in 1 .. n, NEW l \in DOMAIN q[h].labels, f = <<"label", q[h].name, q[h].labels[l]>>
        PROVE  FactOf(v, f)
    BY <1>4, <1>6, <1>9, <2>4 DEF FactOf, ChannelFact, GroupFact, MemberFact, LabelFact, RangeFact
  <2>5. ASSUME NEW h \in 1 .. n, q[h].ranged, f = <<"range", q[h].name>> PROVE FactOf(v, f)
    BY <1>4, <1>6, <1>9, <2>5 DEF FactOf, ChannelFact, GroupFact, MemberFact, LabelFact, RangeFact
  <2>6. ASSUME f = <<"file", u.file>> PROVE FactOf(v, f)
    BY <1>6, <2>6 DEF FactOf, ChannelFact, GroupFact, MemberFact, LabelFact, RangeFact
  <2>7. ControlFact(u, f) => FactOf(v, f)
    BY <1>6 DEF ControlFact, FactOf
  <2>8. QED
    BY <1>1, <1>13, <2>1, <2>2, <2>3, <2>4, <2>5, <2>6, <2>7
    DEF FactOf, ChannelFact, GroupFact, MemberFact, LabelFact, RangeFact
<1>14. FactOf(v, <<"channel", name, n>>)
  <2>1. n + 1 \in 1 .. n + 1 /\ (n + 1) - 1 = n
    OBVIOUS
  <2>2. QED
    BY <1>4, <1>6, <1>7, <2>1 DEF FactOf, ChannelFact, GroupFact, MemberFact, LabelFact, RangeFact
<1>15. QED
  BY <1>1, <1>6, <1>11, <1>12, <1>13, <1>14 DEF Gains

(* What is in the lists. *)
LEMMA ListParts ==
  ASSUME NEW u \in Lists, MembersThere(u)
  PROVE  /\ u.channels \in Seq(ListedChannels) /\ u.groups \in Seq(ListedGroups)
         /\ \A g \in DOMAIN u.groups : u.groups[g].channels \in Seq(Nat)
         /\ \A h \in DOMAIN u.channels : u.channels[h].labels \in Seq(Labels)
         /\ \A g \in DOMAIN u.groups : \A m \in DOMAIN u.groups[g].channels :
              u.groups[g].channels[m] \in Nat /\ u.groups[g].channels[m] + 1 \in DOMAIN u.channels
<1>1. PICK e \in Seq(ListedGroups), q \in Seq(ListedChannels) : e = u.groups /\ q = u.channels
  BY DEF Lists
<1>2. \A g \in DOMAIN e : e[g] \in ListedGroups
  OBVIOUS
<1>3. \A h \in DOMAIN q : q[h] \in ListedChannels
  OBVIOUS
<1>4. \A x \in ListedGroups : x.channels \in Seq(Nat)
  BY DEF ListedGroups
<1>5. \A x \in ListedChannels : x.labels \in Seq(Labels)
  BY DEF ListedChannels
<1>6. ASSUME NEW g \in DOMAIN u.groups, NEW m \in DOMAIN u.groups[g].channels
      PROVE  u.groups[g].channels[m] \in Nat /\ u.groups[g].channels[m] + 1 \in DOMAIN u.channels
  <2>1. PICK d \in Seq(Nat) : d = u.groups[g].channels
    BY <1>1, <1>2, <1>4
  <2>2. d[m] \in Nat
    BY <2>1
  <2>3. u.groups[g].channels[m] < Len(u.channels)
    BY DEF MembersThere
  <2>4. DOMAIN u.channels = 1 .. Len(u.channels) /\ Len(u.channels) \in Nat
    BY <1>1
  <2>5. QED
    BY <2>1, <2>2, <2>3, <2>4
<1>7. QED
  BY <1>1, <1>2, <1>3, <1>4, <1>5, <1>6

LEMMA GroupRegistered ==
  ASSUME NEW u \in Lists, MembersThere(u), NEW name \in GroupNames,
         NEW v, v = [u EXCEPT !.groups = Append(@, [name |-> name, channels |-> << >>])]
  PROVE  v \in Lists /\ MembersThere(v) /\ Gains(u, v, {<<"group", name, Len(u.groups)>>})
<1>1. PICK q \in Seq(ListedGroups), n \in Nat : q = u.groups /\ n = Len(q) /\ DOMAIN q = 1 .. n
  <2>1. PICK q \in Seq(ListedGroups) : q = u.groups
    BY ListParts
  <2>2. Len(q) \in Nat /\ DOMAIN q = 1 .. Len(q)
    OBVIOUS
  <2>3. QED
    BY <2>1, <2>2
<1>2. PICK x \in ListedGroups : x = [name |-> name, channels |-> << >>]
  <2>1. << >> \in Seq(Nat)
    OBVIOUS
  <2>2. QED
    BY <2>1 DEF ListedGroups
<1>3. PICK r : r = Append(q, x)
  OBVIOUS
<1>4. /\ r \in Seq(ListedGroups) /\ Len(r) = n + 1 /\ DOMAIN r = 1 .. n + 1 /\ r[n + 1] = x
      /\ \A h \in 1 .. n : r[h] = q[h]
  BY <1>1, <1>3
<1>5. v = [u EXCEPT !.groups = r]
  BY <1>1, <1>2, <1>3
<1>6. v \in Lists /\ v.groups = r /\ v.channels = u.channels /\ v.file = u.file /\ v.controls = u.controls
  BY <1>4, <1>5 DEF Lists
<1>7. x.name = name /\ DOMAIN x.channels = {}
  BY <1>2
<1>8. (\A h \in 1 .. n + 1 : h \in 1 .. n \/ h = n + 1) /\ (\A h \in 1 .. n : h \in 1 .. n + 1)
  OBVIOUS
<1>9. MembersThere(v)
  BY <1>1, <1>4, <1>6, <1>7, <1>8 DEF MembersThere
<1>10. ASSUME NEW f, FactOf(v, f) PROVE FactOf(u, f) \/ f = <<"group", name, n>>
  <2>1. ASSUME NEW h \in DOMAIN u.channels, f = <<"channel", u.channels[h].name, h - 1>> PROVE FactOf(u, f)
    BY <2>1 DEF FactOf, ChannelFact, GroupFact, MemberFact, LabelFact, RangeFact
  <2>2. ASSUME NEW g \in 1 .. n + 1, f = <<"group", r[g].name, g - 1>>
        PROVE  FactOf(u, f) \/ f = <<"group", name, n>>
    BY <1>1, <1>4, <1>7, <1>8, <2>2 DEF FactOf, ChannelFact, GroupFact, MemberFact, LabelFact, RangeFact
  <2>3. ASSUME NEW g \in 1 .. n + 1, NEW m \in DOMAIN r[g].channels,
               f = <<"member", r[g].name, u.channels[r[g].channels[m] + 1].name>>
        PROVE  FactOf(u, f)
    BY <1>1, <1>4, <1>7, <1>8, <2>3 DEF FactOf, ChannelFact, GroupFact, MemberFact, LabelFact, RangeFact
  <2>4. ASSUME NEW h \in DOMAIN u.channels, NEW l \in DOMAIN u.channels[h].labels,
               f = <<"label", u.channels[h].name, u.channels[h].labels[l]>>
        PROVE  FactOf(u, f)
    BY <2>4 DEF FactOf, ChannelFact, GroupFact, MemberFact, LabelFact, RangeFact
  <2>5. ASSUME NEW h \in DOMAIN u.channels, u.channels[h].ranged, f = <<"range", u.channels[h].name>> PROVE FactOf(u, f)
    BY <2>5 DEF FactOf, ChannelFact, GroupFact, MemberFact, LabelFact, RangeFact
  <2>6. ASSUME f = <<"file", u.file>> PROVE FactOf(u, f)
    BY <2>6 DEF FactOf, ChannelFact, GroupFact, MemberFact, LabelFact, RangeFact
  <2>7. ControlFact(v, f) => FactOf(u, f)
    BY <1>6 DEF ControlFact, FactOf
  <2>8. QED
    BY <1>4, <1>6, <1>10, <2>1, <2>2, <2>3, <2>4, <2>5, <2>6, <2>7
    DEF FactOf, ChannelFact, GroupFact, MemberFact, LabelFact, RangeFact
<1>11. ASSUME NEW f, FactOf(u, f) PROVE FactOf(v, f)
  <2>1. ASSUME NEW h \in DOMAIN u.channels, f = <<"channel", u.channels[h].name, h - 1>> PROVE FactOf(v, f)
    BY <1>6, <2>1 DEF FactOf, ChannelFact, GroupFact, MemberFact, LabelFact, RangeFact
  <2>2. ASSUME NEW g \in 1 .. n, f = <<"group", q[g].name, g - 1>> PROVE FactOf(v, f)
    BY <1>4, <1>6, <1>8, <2>2 DEF FactOf, ChannelFact, GroupFact, MemberFact, LabelFact, RangeFact
  <2>3. ASSUME NEW g \in 1 .. n, NEW m \in DOMAIN q[g].channels,
               f = <<"member", q[g].name, u.channels[q[g].channels[m] + 1].name>>
        PROVE  FactOf(v, f)
    BY <1>4, <1>6, <1>8, <2>3 DEF FactOf, ChannelFact, GroupFact, MemberFact, LabelFact, RangeFact
  <2>4. ASSUME NEW h \in DOMAIN u.channels, NEW l \in DOMAIN u.channels[h].labels,
               f = <<"label", u.channels[h].name, u.channels[h].labels[l]>>
        PROVE  FactOf(v, f)
    BY <1>6, <2>4 DEF FactOf, ChannelFact, GroupFact, MemberFact, LabelFact, RangeFact
  <2>5. ASSUME NEW h \in DOMAIN u.channels, u.channels[h].ranged, f = <<"range", u.channels[h].name>> PROVE FactOf(v, f)
    BY <1>6, <2>5 DEF FactOf, ChannelFact, GroupFact, MemberFact, LabelFact, RangeFact
  <2>6. ASSUME f = <<"file", u.file>> PROVE FactOf(v, f)
    BY <1>6, <2>6 DEF FactOf, ChannelFact, GroupFact, MemberFact, LabelFact, RangeFact
  <2>7. ControlFact(u, f) => FactOf(v, f)
    BY <1>6 DEF ControlFact, FactOf
  <2>8. QED
    BY <1>1, <1>11, <2>1, <2>2, <2>3, <2>4, <2>5, <2>6, <2>7
    DEF FactOf, ChannelFact, GroupFact, MemberFact, LabelFact, RangeFact
<1>12. FactOf(v, <<"group", name, n>>)
  <2>1. n + 1 \in 1 .. n + 1 /\ (n + 1) - 1 = n
    OBVIOUS
  <2>2. QED
    BY <1>4, <1>6, <1>7, <2>1 DEF FactOf, ChannelFact, GroupFact, MemberFact, LabelFact, RangeFact
<1>13. QED
  BY <1>1, <1>6, <1>9, <1>10, <1>11, <1>12 DEF Gains

LEMMA MemberRegistered ==
  ASSUME NEW u \in Lists, MembersThere(u), NEW group \in Nat, NEW handle \in Nat,
         group < Len(u.groups), handle < Len(u.channels),
         NEW v, v = [u EXCEPT !.groups[group + 1].channels = Append(@, handle)]
  PROVE  v \in Lists /\ MembersThere(v)
         /\ Gains(u, v, {<<"member", u.groups[group + 1].name, u.channels[handle + 1].name>>})
<1>1. PICK q \in Seq(ListedGroups), n \in Nat : q = u.groups /\ n = Len(q) /\ DOMAIN q = 1 .. n
  <2>1. PICK q \in Seq(ListedGroups) : q = u.groups
    BY ListParts
  <2>2. Len(q) \in Nat /\ DOMAIN q = 1 .. Len(q)
    OBVIOUS
  <2>3. QED
    BY <2>1, <2>2
<1>2. PICK i \in 1 .. n : i = group + 1
  BY <1>1
<1>3. PICK d \in Seq(Nat), w \in Nat : d = q[i].channels /\ w = Len(d) /\ DOMAIN d = 1 .. w
  <2>1. PICK d \in Seq(Nat) : d = q[i].channels
    BY <1>1, ListParts
  <2>2. Len(d) \in Nat /\ DOMAIN d = 1 .. Len(d)
    OBVIOUS
  <2>3. QED
    BY <2>1, <2>2
<1>4. PICK e : e = Append(d, handle)
  OBVIOUS
<1>5. /\ e \in Seq(Nat) /\ Len(e) = w + 1 /\ DOMAIN e = 1 .. w + 1 /\ e[w + 1] = handle
      /\ \A m \in 1 .. w : e[m] = d[m]
  BY <1>3, <1>4
<1>6. PICK x : x = [q[i] EXCEPT !.channels = e]
  OBVIOUS
<1>7. x \in ListedGroups /\ x.name = q[i].name /\ x.channels = e
  <2>1. q[i] \in ListedGroups
    BY <1>1
  <2>2. QED
    BY <1>5, <1>6, <2>1 DEF ListedGroups
<1>8. PICK r : r = [q EXCEPT ![i] = x]
  OBVIOUS
<1>9. r \in Seq(ListedGroups) /\ DOMAIN r = 1 .. n /\ r[i] = x /\ \A g \in 1 .. n : g # i => r[g] = q[g]
  BY <1>1, <1>7, <1>8
<1>10. v = [u EXCEPT !.groups = r]
  BY <1>1, <1>2, <1>3, <1>4, <1>6, <1>8
<1>11. v \in Lists /\ v.groups = r /\ v.channels = u.channels /\ v.file = u.file /\ v.controls = u.controls
  BY <1>9, <1>10 DEF Lists
<1>12. \A g \in 1 .. n : r[g].name = q[g].name
  BY <1>7, <1>9
<1>13. (\A m \in 1 .. w + 1 : m \in 1 .. w \/ m = w + 1) /\ (\A m \in 1 .. w : m \in 1 .. w + 1) /\ w + 1 \in 1 .. w + 1
  BY ONLY w \in Nat
<1>14. ASSUME NEW g \in 1 .. n, NEW m \in DOMAIN r[g].channels
       PROVE  (m \in DOMAIN q[g].channels /\ r[g].channels[m] = q[g].channels[m])
              \/ (g = i /\ r[g].channels[m] = handle)
  BY <1>3, <1>5, <1>7, <1>9, <1>13
<1>15. ASSUME NEW g \in 1 .. n, NEW m \in DOMAIN q[g].channels
       PROVE  m \in DOMAIN r[g].channels /\ r[g].channels[m] = q[g].channels[m]
  BY <1>3, <1>5, <1>7, <1>9, <1>13
<1>16. MembersThere(v)
  <2>1. ASSUME NEW g \in 1 .. n, NEW m \in DOMAIN r[g].channels PROVE r[g].channels[m] < Len(u.channels)
    BY <1>1, <1>14 DEF MembersThere
  <2>2. QED
    BY <1>9, <1>11, <2>1 DEF MembersThere
<1>17. ASSUME NEW f, FactOf(v, f)
       PROVE  FactOf(u, f) \/ f = <<"member", q[i].name, u.channels[handle + 1].name>>
  <2>1. ASSUME NEW h \in DOMAIN u.channels, f = <<"channel", u.channels[h].name, h - 1>> PROVE FactOf(u, f)
    BY <2>1 DEF FactOf, ChannelFact, GroupFact, MemberFact, LabelFact, RangeFact
  <2>2. ASSUME NEW g \in 1 .. n, f = <<"group", r[g].name, g - 1>> PROVE FactOf(u, f)
    BY <1>1, <1>12, <2>2 DEF FactOf, ChannelFact, GroupFact, MemberFact, LabelFact, RangeFact
  <2>3. ASSUME NEW g \in 1 .. n, NEW m \in DOMAIN r[g].channels,
               f = <<"member", r[g].name, u.channels[r[g].channels[m] + 1].name>>
        PROVE  FactOf(u, f) \/ f = <<"member", q[i].name, u.channels[handle + 1].name>>
    <3>1. CASE g = i /\ r[g].channels[m] = handle
      BY <1>12, <2>3, <3>1
    <3>2. CASE m \in DOMAIN q[g].channels /\ r[g].channels[m] = q[g].channels[m]
      BY <1>1, <1>12, <2>3, <3>2 DEF FactOf, ChannelFact, GroupFact, MemberFact, LabelFact, RangeFact
    <3>3. QED
      BY <1>14, <3>1, <3>2
  <2>4. ASSUME NEW h \in DOMAIN u.channels, NEW l \in DOMAIN u.channels[h].labels,
               f = <<"label", u.channels[h].name, u.channels[h].labels[l]>>
        PROVE  FactOf(u, f)
    BY <2>4 DEF FactOf, ChannelFact, GroupFact, MemberFact, LabelFact, RangeFact
  <2>5. ASSUME NEW h \in DOMAIN u.channels, u.channels[h].ranged, f = <<"range", u.channels[h].name>> PROVE FactOf(u, f)
    BY <2>5 DEF FactOf, ChannelFact, GroupFact, MemberFact, LabelFact, RangeFact
  <2>6. ASSUME f = <<"file", u.file>> PROVE FactOf(u, f)
    BY <2>6 DEF FactOf, ChannelFact, GroupFact, MemberFact, LabelFact, RangeFact
  <2>7. ControlFact(v, f) => FactOf(u, f)
    BY <1>11 DEF ControlFact, FactOf
  <2>8. ChannelFact(v, f) => FactOf(u, f)
    BY <1>11, <2>1 DEF ChannelFact
  <2>9. GroupFact(v, f) => FactOf(u, f)
    BY <1>9, <1>11, <2>2 DEF GroupFact
  <2>10. MemberFact(v, f) => FactOf(u, f) \/ f = <<"member", q[i].name, u.channels[handle + 1].name>>
    BY <1>9, <1>11, <2>3 DEF MemberFact
  <2>11. LabelFact(v, f) => FactOf(u, f)
    BY <1>11, <2>4 DEF LabelFact
  <2>12. RangeFact(v, f) => FactOf(u, f)
    BY <1>11, <2>5 DEF RangeFact
  <2>13. f = <<"file", v.file>> => FactOf(u, f)
    BY <1>11, <2>6
  <2>14. QED
    BY <1>17, <2>7, <2>8, <2>9, <2>10, <2>11, <2>12, <2>13 DEF FactOf
<1>18. ASSUME NEW f, FactOf(u, f) PROVE FactOf(v, f)
  <2>1. ASSUME NEW h \in DOMAIN u.channels, f = <<"channel", u.channels[h].name, h - 1>> PROVE FactOf(v, f)
    BY <1>11, <2>1 DEF FactOf, ChannelFact, GroupFact, MemberFact, LabelFact, RangeFact
  <2>2. ASSUME NEW g \in 1 .. n, f = <<"group", q[g].name, g - 1>> PROVE FactOf(v, f)
    BY <1>9, <1>11, <1>12, <2>2 DEF FactOf, ChannelFact, GroupFact, MemberFact, LabelFact, RangeFact
  <2>3. ASSUME NEW g \in 1 .. n, NEW m \in DOMAIN q[g].channels,
               f = <<"member", q[g].name, u.channels[q[g].channels[m] + 1].name>>
        PROVE  FactOf(v, f)
    BY <1>9, <1>11, <1>12, <1>15, <2>3 DEF FactOf, ChannelFact, GroupFact, MemberFact, LabelFact, RangeFact
  <2>4. ASSUME NEW h \in DOMAIN u.channels, NEW l \in DOMAIN u.channels[h].labels,
               f = <<"label", u.channels[h].name, u.channels[h].labels[l]>>
        PROVE  FactOf(v, f)
    BY <1>11, <2>4 DEF FactOf, ChannelFact, GroupFact, MemberFact, LabelFact, RangeFact
  <2>5. ASSUME NEW h \in DOMAIN u.channels, u.channels[h].ranged, f = <<"range", u.channels[h].name>> PROVE FactOf(v, f)
    BY <1>11, <2>5 DEF FactOf, ChannelFact, GroupFact, MemberFact, LabelFact, RangeFact
  <2>6. ASSUME f = <<"file", u.file>> PROVE FactOf(v, f)
    BY <1>11, <2>6 DEF FactOf, ChannelFact, GroupFact, MemberFact, LabelFact, RangeFact
  <2>7. ControlFact(u, f) => FactOf(v, f)
    BY <1>11 DEF ControlFact, FactOf
  <2>8. QED
    BY <1>1, <1>18, <2>1, <2>2, <2>3, <2>4, <2>5, <2>6, <2>7
    DEF FactOf, ChannelFact, GroupFact, MemberFact, LabelFact, RangeFact
<1>19. FactOf(v, <<"member", q[i].name, u.channels[handle + 1].name>>)
  <2>1. w + 1 \in DOMAIN r[i].channels /\ r[i].channels[w + 1] = handle /\ r[i].name = q[i].name
    BY <1>5, <1>7, <1>9, <1>13
  <2>2. QED
    BY <1>9, <1>11, <2>1 DEF FactOf, ChannelFact, GroupFact, MemberFact, LabelFact, RangeFact
<1>20. QED
  BY <1>1, <1>2, <1>11, <1>16, <1>17, <1>18, <1>19 DEF Gains

(* One channel is changed, but not its name: a label more, or a range. *)
Changed(u, v, i, x) ==
  /\ v.channels = [u.channels EXCEPT ![i] = x] /\ x.name = u.channels[i].name
  /\ v.groups = u.groups /\ v.file = u.file

KeepsNames(u, v, i, x) ==
  /\ v.channels \in Seq(ListedChannels) /\ MembersThere(v)
  /\ DOMAIN v.channels = DOMAIN u.channels /\ v.channels[i] = x
  /\ \A h \in DOMAIN u.channels : /\ v.channels[h].name = u.channels[h].name
                                  /\ h # i => v.channels[h] = u.channels[h]
  /\ \A f : /\ ChannelFact(v, f) <=> ChannelFact(u, f)
            /\ GroupFact(v, f) <=> GroupFact(u, f)
            /\ MemberFact(v, f) <=> MemberFact(u, f)

LEMMA ChangedNames ==
  ASSUME NEW u \in Lists, MembersThere(u), NEW v, NEW i \in DOMAIN u.channels, NEW x \in ListedChannels, Changed(u, v, i, x)
  PROVE  KeepsNames(u, v, i, x)
<1>1. PICK q \in Seq(ListedChannels) : q = u.channels
  BY ListParts
<1>2. PICK r : r = [q EXCEPT ![i] = x]
  OBVIOUS
<1>3. v.channels = r /\ v.groups = u.groups
  BY <1>1, <1>2 DEF Changed
<1>4. r \in Seq(ListedChannels) /\ DOMAIN r = DOMAIN q /\ Len(r) = Len(q) /\ r[i] = x /\ \A h \in DOMAIN q : h # i => r[h] = q[h]
  BY <1>1, <1>2
<1>5. \A h \in DOMAIN q : r[h].name = q[h].name
  BY <1>1, <1>4 DEF Changed
<1>6. \A g \in DOMAIN u.groups : \A m \in DOMAIN u.groups[g].channels : u.groups[g].channels[m] + 1 \in DOMAIN q
  BY <1>1, ListParts
<1>7. MembersThere(v)
  BY <1>1, <1>3, <1>4 DEF MembersThere
<1>8. ASSUME NEW f PROVE ChannelFact(v, f) <=> ChannelFact(u, f)
  BY <1>1, <1>3, <1>4, <1>5 DEF ChannelFact
<1>9. ASSUME NEW f PROVE MemberFact(v, f) <=> MemberFact(u, f)
  <2>1. \A g \in DOMAIN u.groups : \A m \in DOMAIN u.groups[g].channels :
          v.channels[u.groups[g].channels[m] + 1].name = u.channels[u.groups[g].channels[m] + 1].name
    BY <1>1, <1>3, <1>5, <1>6
  <2>2. QED
    BY <1>3, <2>1 DEF MemberFact
<1>10. ASSUME NEW f PROVE GroupFact(v, f) <=> GroupFact(u, f)
  BY <1>3 DEF GroupFact
<1>11. QED
  BY <1>1, <1>3, <1>4, <1>5, <1>7, <1>8, <1>9, <1>10 DEF KeepsNames

LEMMA LabelRegistered ==
  ASSUME NEW u \in Lists, MembersThere(u), NEW handle \in Nat, handle < Len(u.channels), NEW label \in Labels,
         NEW v, v = [u EXCEPT !.channels[handle + 1].labels = Append(@, label)]
  PROVE  v \in Lists /\ MembersThere(v) /\ Gains(u, v, {<<"label", u.channels[handle + 1].name, label>>})
<1>1. PICK q \in Seq(ListedChannels), n \in Nat : q = u.channels /\ n = Len(q) /\ DOMAIN q = 1 .. n
  <2>1. PICK q \in Seq(ListedChannels) : q = u.channels
    BY ListParts
  <2>2. Len(q) \in Nat /\ DOMAIN q = 1 .. Len(q)
    OBVIOUS
  <2>3. QED
    BY <2>1, <2>2
<1>2. PICK i \in 1 .. n : i = handle + 1
  BY <1>1
<1>3. PICK d \in Seq(Labels), w \in Nat : d = q[i].labels /\ w = Len(d) /\ DOMAIN d = 1 .. w
  <2>1. PICK d \in Seq(Labels) : d = q[i].labels
    BY <1>1, ListParts
  <2>2. Len(d) \in Nat /\ DOMAIN d = 1 .. Len(d)
    OBVIOUS
  <2>3. QED
    BY <2>1, <2>2
<1>4. PICK e : e = Append(d, label)
  OBVIOUS
<1>5. /\ e \in Seq(Labels) /\ DOMAIN e = 1 .. w + 1 /\ e[w + 1] = label
      /\ \A m \in 1 .. w : e[m] = d[m]
  BY <1>3, <1>4
<1>6. PICK x : x = [q[i] EXCEPT !.labels = e]
  OBVIOUS
<1>7. x \in ListedChannels /\ x.name = q[i].name /\ x.labels = e /\ x.ranged = q[i].ranged
  <2>1. q[i] \in ListedChannels
    BY <1>1
  <2>2. QED
    BY <1>5, <1>6, <2>1 DEF ListedChannels
<1>8. PICK r : r = [q EXCEPT ![i] = x]
  OBVIOUS
<1>9. v = [u EXCEPT !.channels = r]
  BY <1>1, <1>2, <1>3, <1>4, <1>6, <1>8
<1>10. v.channels = r /\ v.groups = u.groups /\ v.file = u.file /\ v.controls = u.controls
  BY <1>9 DEF Lists
<1>11. KeepsNames(u, v, i, x)
  <2>1. Changed(u, v, i, x) /\ i \in DOMAIN u.channels
    BY <1>1, <1>7, <1>8, <1>10 DEF Changed
  <2>2. QED
    BY <1>7, <2>1, ChangedNames
<1>12. /\ v.channels = r /\ DOMAIN r = 1 .. n /\ r[i] = x
       /\ \A h \in 1 .. n : r[h].name = q[h].name /\ (h # i => r[h] = q[h])
  BY <1>1, <1>10, <1>11 DEF KeepsNames
<1>13. v \in Lists /\ MembersThere(v)
  BY <1>9, <1>10, <1>11 DEF Lists, KeepsNames
<1>14. ASSUME NEW f PROVE RangeFact(v, f) <=> RangeFact(u, f)
  <2>1. \A h \in 1 .. n : r[h].ranged = q[h].ranged /\ r[h].name = q[h].name
    BY <1>7, <1>12
  <2>2. RangeFact(v, f) <=> \E h \in 1 .. n : r[h].ranged /\ f = <<"range", r[h].name>>
    BY <1>12 DEF RangeFact
  <2>3. RangeFact(u, f) <=> \E h \in 1 .. n : q[h].ranged /\ f = <<"range", q[h].name>>
    BY <1>1 DEF RangeFact
  <2>4. QED
    BY ONLY <2>1, <2>2, <2>3
<1>15. (\A l \in 1 .. w + 1 : l \in 1 .. w \/ l = w + 1) /\ (\A l \in 1 .. w : l \in 1 .. w + 1) /\ w + 1 \in 1 .. w + 1
  OBVIOUS
<1>16. ASSUME NEW f, LabelFact(v, f) PROVE LabelFact(u, f) \/ f = <<"label", q[i].name, label>>
  <2>1. PICK h \in 1 .. n : \E l \in DOMAIN r[h].labels : f = <<"label", r[h].name, r[h].labels[l]>>
    BY ONLY <1>12, <1>16 DEF LabelFact
  <2>2. PICK l \in DOMAIN r[h].labels : f = <<"label", r[h].name, r[h].labels[l]>>
    BY <2>1
  <2>3. CASE h = i /\ l = w + 1
    BY <1>5, <1>7, <1>12, <2>2, <2>3
  <2>4. CASE h = i /\ l \in 1 .. w
    <3>1. l \in DOMAIN q[i].labels /\ f = <<"label", q[i].name, q[i].labels[l]>>
      BY <1>3, <1>5, <1>7, <1>12, <2>2, <2>4
    <3>2. QED
      BY <1>1, <3>1 DEF LabelFact
  <2>5. CASE h # i
    <3>1. l \in DOMAIN q[h].labels /\ f = <<"label", q[h].name, q[h].labels[l]>>
      BY <1>12, <2>2, <2>5
    <3>2. QED
      BY <1>1, <3>1 DEF LabelFact
  <2>6. h = i => l \in 1 .. w + 1
    BY <1>5, <1>7, <1>12
  <2>7. QED
    BY <1>15, <2>3, <2>4, <2>5, <2>6
<1>17. ASSUME NEW f, LabelFact(u, f) PROVE LabelFact(v, f)
  <2>1. PICK h \in 1 .. n : \E l \in DOMAIN q[h].labels : f = <<"label", q[h].name, q[h].labels[l]>>
    BY <1>1, <1>17 DEF LabelFact
  <2>2. PICK l \in DOMAIN q[h].labels : f = <<"label", q[h].name, q[h].labels[l]>>
    BY <2>1
  <2>3. l \in DOMAIN r[h].labels /\ r[h].labels[l] = q[h].labels[l] /\ r[h].name = q[h].name
    <3>1. CASE h = i
      <4>1. l \in 1 .. w /\ q[h].labels = d /\ r[h].labels = e
        BY <1>3, <1>7, <1>12, <3>1
      <4>2. QED
        BY <1>5, <1>12, <1>15, <4>1
    <3>2. CASE h # i
      BY <1>12, <3>2
    <3>3. QED
      BY <3>1, <3>2
  <2>4. QED
    BY <1>12, <2>2, <2>3 DEF LabelFact
<1>18. LabelFact(v, <<"label", q[i].name, label>>)
  <2>1. w + 1 \in DOMAIN r[i].labels /\ r[i].labels[w + 1] = label /\ r[i].name = q[i].name
    BY <1>5, <1>7, <1>12, <1>15
  <2>2. QED
    BY <1>12, <2>1 DEF LabelFact
<1>19. ASSUME NEW f PROVE FactOf(v, f) <=> FactOf(u, f) \/ f = <<"label", q[i].name, label>>
  <2>1. ChannelFact(v, f) <=> ChannelFact(u, f)
    BY <1>11 DEF KeepsNames
  <2>2. GroupFact(v, f) <=> GroupFact(u, f)
    BY <1>11 DEF KeepsNames
  <2>3. MemberFact(v, f) <=> MemberFact(u, f)
    BY <1>11 DEF KeepsNames
  <2>4. LabelFact(v, f) <=> LabelFact(u, f) \/ f = <<"label", q[i].name, label>>
    BY <1>16, <1>17, <1>18
  <2>5. RangeFact(v, f) <=> RangeFact(u, f)
    BY <1>14
  <2>6. v.file = u.file
    BY <1>10
  <2>7. ControlFact(v, f) <=> ControlFact(u, f)
    BY <1>10 DEF ControlFact
  <2>8. QED
    BY ONLY <2>1, <2>2, <2>3, <2>4, <2>5, <2>6, <2>7 DEF FactOf
<1>20. QED
  BY <1>1, <1>2, <1>13, <1>19 DEF Gains

LEMMA RangeRegistered ==
  ASSUME NEW u \in Lists, MembersThere(u), NEW handle \in Nat, handle < Len(u.channels),
         NEW v, v = [u EXCEPT !.channels[handle + 1].ranged = TRUE]
  PROVE  v \in Lists /\ MembersThere(v) /\ Gains(u, v, {<<"range", u.channels[handle + 1].name>>})
<1>1. PICK q \in Seq(ListedChannels), n \in Nat : q = u.channels /\ n = Len(q) /\ DOMAIN q = 1 .. n
  <2>1. PICK q \in Seq(ListedChannels) : q = u.channels
    BY ListParts
  <2>2. Len(q) \in Nat /\ DOMAIN q = 1 .. Len(q)
    OBVIOUS
  <2>3. QED
    BY <2>1, <2>2
<1>2. PICK i \in 1 .. n : i = handle + 1
  BY <1>1
<1>3. PICK x : x = [q[i] EXCEPT !.ranged = TRUE]
  OBVIOUS
<1>4. x \in ListedChannels /\ x.name = q[i].name /\ x.labels = q[i].labels /\ x.ranged = TRUE
  <2>1. q[i] \in ListedChannels
    BY <1>1
  <2>2. QED
    BY <1>3, <2>1 DEF ListedChannels
<1>5. PICK r : r = [q EXCEPT ![i] = x]
  OBVIOUS
<1>6. v = [u EXCEPT !.channels = r]
  BY <1>1, <1>2, <1>3, <1>5
<1>7. v.channels = r /\ v.groups = u.groups /\ v.file = u.file /\ v.controls = u.controls
  BY <1>6 DEF Lists
<1>8. KeepsNames(u, v, i, x)
  <2>1. Changed(u, v, i, x) /\ i \in DOMAIN u.channels
    BY <1>1, <1>4, <1>5, <1>7 DEF Changed
  <2>2. QED
    BY <1>4, <2>1, ChangedNames
<1>9. /\ v.channels = r /\ DOMAIN r = 1 .. n /\ r[i] = x
      /\ \A h \in 1 .. n : r[h].name = q[h].name /\ (h # i => r[h] = q[h])
  BY <1>1, <1>7, <1>8 DEF KeepsNames
<1>10. v \in Lists /\ MembersThere(v)
  BY <1>6, <1>7, <1>8 DEF Lists, KeepsNames
<1>11. \A h \in 1 .. n : r[h].labels = q[h].labels
  BY <1>4, <1>9
<1>12. \A h \in 1 .. n : r[h].ranged <=> q[h].ranged \/ h = i
  BY <1>4, <1>9
<1>13. ASSUME NEW f, NEW h \in 1 .. n, NEW l
       PROVE  f = <<"label", r[h].name, r[h].labels[l]>> /\ l \in DOMAIN r[h].labels
              <=> f = <<"label", q[h].name, q[h].labels[l]>> /\ l \in DOMAIN q[h].labels
  BY <1>9, <1>11
<1>14. ASSUME NEW f PROVE LabelFact(v, f) <=> LabelFact(u, f)
  <2>1. LabelFact(v, f) <=> \E h \in 1 .. n : \E l \in DOMAIN r[h].labels : f = <<"label", r[h].name, r[h].labels[l]>>
    BY ONLY <1>9 DEF LabelFact
  <2>2. LabelFact(u, f) <=> \E h \in 1 .. n : \E l \in DOMAIN q[h].labels : f = <<"label", q[h].name, q[h].labels[l]>>
    BY ONLY <1>1 DEF LabelFact
  <2>3. QED
    BY ONLY <1>13, <2>1, <2>2
<1>15. ASSUME NEW f PROVE FactOf(v, f) <=> FactOf(u, f) \/ f = <<"range", q[i].name>>
  <2>1. ChannelFact(v, f) <=> ChannelFact(u, f)
    BY <1>8 DEF KeepsNames
  <2>2. GroupFact(v, f) <=> GroupFact(u, f)
    BY <1>8 DEF KeepsNames
  <2>3. MemberFact(v, f) <=> MemberFact(u, f)
    BY <1>8 DEF KeepsNames
  <2>4. LabelFact(v, f) <=> LabelFact(u, f)
    BY <1>14
  <2>5. RangeFact(v, f) <=> RangeFact(u, f) \/ f = <<"range", q[i].name>>
    <3>1. RangeFact(v, f) <=> \E h \in 1 .. n : r[h].ranged /\ f = <<"range", r[h].name>>
      BY <1>9 DEF RangeFact
    <3>2. RangeFact(u, f) <=> \E h \in 1 .. n : q[h].ranged /\ f = <<"range", q[h].name>>
      BY <1>1 DEF RangeFact
    <3>3. \A h \in 1 .. n : r[h].name = q[h].name
      BY <1>9
    <3>4. QED
      BY ONLY i \in 1 .. n, <1>12, <3>1, <3>2, <3>3
  <2>6. v.file = u.file
    BY <1>7
  <2>7. ControlFact(v, f) <=> ControlFact(u, f)
    BY <1>7 DEF ControlFact
  <2>8. QED
    BY ONLY <2>1, <2>2, <2>3, <2>4, <2>5, <2>6, <2>7 DEF FactOf
<1>16. QED
  BY <1>1, <1>2, <1>10, <1>15 DEF Gains

(* The entry found is there. *)
LEMMA FindIn ==
  ASSUME NEW T, NEW list \in Seq(T), NEW name
  PROVE  LET h == FindUtil(list, name) IN h + 1 \in 0 .. Len(list) /\ (h >= 0 => h \in Nat /\ h < Len(list))
<1>1. PICK n \in Nat : n = Len(list)
  OBVIOUS
<1> DEFINE I == {i \in 1 .. n : list[i].name = name}
<1>2. PICK k : k = IF I # {} THEN Min(I) ELSE 0
  OBVIOUS
<1>3. FindUtil(list, name) = k - 1
  BY <1>1, <1>2 DEF FindUtil, SelectInSeq
<1>4. k \in 0 .. n
  <2>1. CASE I = {}
    BY <1>2, <2>1
  <2>2. CASE I # {}
    <3>1. Min(I) \in I
      BY <2>2, Least
    <3>2. QED
      BY <1>2, <2>2, <3>1
  <2>3. QED
    BY <2>1, <2>2
<1>5. QED
  BY <1>1, <1>3, <1>4

LEMMA AddChannelKeeps == ASSUME IInv, NEW name \in ChannelNames, AddChannel(name) PROVE IInv'
<1>1. PICK u \in Lists : u = Ready /\ MembersThere(u)
  BY ReadyType DEF IInv
<1>2. PICK v : v = [u EXCEPT !.channels = Append(@, [name |-> name, ranged |-> FALSE, labels |-> << >>])]
  OBVIOUS
<1>3. v \in Lists /\ MembersThere(v) /\ Gains(u, v, {<<"channel", name, Len(u.channels)>>})
  BY <1>1, <1>2, ChannelRegistered
<1>4. Register(2, v, {<<"channel", name, Len(u.channels)>>})
  BY <1>1, <1>2 DEF AddChannel
<1>5. QED
  BY <1>1, <1>3, <1>4, RegisterKeeps

LEMMA AddGroupKeeps == ASSUME IInv, NEW name \in GroupNames, AddGroup(name) PROVE IInv'
<1>1. PICK u \in Lists : u = Ready /\ MembersThere(u)
  BY ReadyType DEF IInv
<1>2. PICK v : v = [u EXCEPT !.groups = Append(@, [name |-> name, channels |-> << >>])]
  OBVIOUS
<1>3. v \in Lists /\ MembersThere(v) /\ Gains(u, v, {<<"group", name, Len(u.groups)>>})
  BY <1>1, <1>2, GroupRegistered
<1>4. Register(2, v, {<<"group", name, Len(u.groups)>>})
  BY <1>1, <1>2 DEF AddGroup
<1>5. QED
  BY <1>1, <1>3, <1>4, RegisterKeeps

LEMMA AddMemberKeeps == ASSUME IInv, NEW group \in Nat, NEW handle \in Nat, AddMember(group, handle) PROVE IInv'
<1>1. PICK u \in Lists : u = Ready /\ MembersThere(u)
  BY ReadyType DEF IInv
<1>2. PICK v : v = [u EXCEPT !.groups[group + 1].channels = Append(@, handle)]
  OBVIOUS
<1>3. group < Len(u.groups) /\ handle < Len(u.channels)
  BY <1>1 DEF AddMember
<1>4. PICK facts : facts = {<<"member", u.groups[group + 1].name, u.channels[handle + 1].name>>}
  OBVIOUS
<1>5. v \in Lists /\ MembersThere(v) /\ Gains(u, v, facts)
  BY <1>1, <1>2, <1>3, <1>4, MemberRegistered
<1>6. Register(2, v, facts)
  BY <1>1, <1>2, <1>4 DEF AddMember
<1>7. QED
  BY <1>1, <1>5, <1>6, RegisterKeeps

LEMMA AddLabelKeeps == ASSUME IInv, NEW handle \in Nat, NEW label \in Labels, AddLabel(handle, label) PROVE IInv'
<1>1. PICK u \in Lists : u = Ready /\ MembersThere(u)
  BY ReadyType DEF IInv
<1>2. PICK v : v = [u EXCEPT !.channels[handle + 1].labels = Append(@, label)]
  OBVIOUS
<1>3. handle < Len(u.channels)
  BY <1>1 DEF AddLabel
<1>4. PICK facts : facts = {<<"label", u.channels[handle + 1].name, label>>}
  OBVIOUS
<1>5. v \in Lists /\ MembersThere(v) /\ Gains(u, v, facts)
  BY <1>1, <1>2, <1>3, <1>4, LabelRegistered
<1>6. Register(2, v, facts)
  BY <1>1, <1>2, <1>4 DEF AddLabel
<1>7. QED
  BY <1>1, <1>5, <1>6, RegisterKeeps

LEMMA SetRangeKeeps == ASSUME IInv, NEW handle \in Nat, SetRange(handle) PROVE IInv'
<1>1. PICK u \in Lists : u = Ready /\ MembersThere(u)
  BY ReadyType DEF IInv
<1>2. PICK v : v = [u EXCEPT !.channels[handle + 1].ranged = TRUE]
  OBVIOUS
<1>3. handle < Len(u.channels)
  BY <1>1 DEF SetRange
<1>4. PICK facts : facts = {<<"range", u.channels[handle + 1].name>>}
  OBVIOUS
<1>5. v \in Lists /\ MembersThere(v) /\ Gains(u, v, facts)
  BY <1>1, <1>2, <1>3, <1>4, RangeRegistered
<1>6. Register(2, v, facts)
  BY <1>1, <1>2, <1>4 DEF SetRange
<1>7. QED
  BY <1>1, <1>5, <1>6, RegisterKeeps

LEMMA AddLabelNamedKeeps ==
  ASSUME IInv, NEW channel, NEW label \in Labels, AddLabelNamed(channel, label) PROVE IInv'
<1>1. PICK u \in Lists : u = Ready
  BY ReadyType DEF IInv
<1>2. PICK h : h = FindUtil(u.channels, channel)
  OBVIOUS
<1>3. h >= 0 /\ AddLabel(h, label)
  BY <1>1, <1>2 DEF AddLabelNamed
<1>4. u.channels \in Seq(ListedChannels)
  BY DEF Lists
<1>5. h \in Nat
  BY <1>2, <1>3, <1>4, FindIn
<1>6. QED
  BY <1>3, <1>5, AddLabelKeeps

LEMMA AddMemberNamedKeeps == ASSUME IInv, NEW group, NEW channel, AddMemberNamed(group, channel) PROVE IInv'
<1>1. PICK u \in Lists : u = Ready
  BY ReadyType DEF IInv
<1>2. PICK g, h : g = FindUtil(u.groups, group) /\ h = FindUtil(u.channels, channel)
  OBVIOUS
<1>3. g >= 0 /\ h >= 0 /\ AddMember(g, h)
  BY <1>1, <1>2 DEF AddMemberNamed
<1>4. u.channels \in Seq(ListedChannels) /\ u.groups \in Seq(ListedGroups)
  BY DEF Lists
<1>5. g \in Nat /\ h \in Nat
  BY <1>2, <1>3, <1>4, FindIn
<1>6. QED
  BY <1>3, <1>5, AddMemberKeeps

LEMMA AddControlKeeps == ASSUME IInv, NEW c \in Catalog, AddControl(c) PROVE IInv'
<1>1. PICK u \in Lists : u = Ready /\ MembersThere(u)
  BY ReadyType DEF IInv
<1>2. PICK v : v = [u EXCEPT !.controls = Append(@, Kept(c))]
  OBVIOUS
<1>3. Kept(c) \in ListedControls
  <2>1. c \in [name : Names, type : {"button", "float", "int"}, valid : BOOLEAN,
               drive : {"callback", "command", "address"}, address : STRING \cup {None}]
    BY UtilAssumption
  <2>2. c.address \in Places
    BY DEF Places, Addresses
  <2>3. 0 \in Values
    BY RegistryAssumption
  <2>4. QED
    BY <2>1, <2>2, <2>3 DEF Kept, ListedControls
<1>4. PICK facts : facts = {<<"control", Plain(c), Len(u.controls) + 1>>}
  OBVIOUS
<1>5. Plain(Kept(c)) = Plain(c)
  BY DEF Kept, Plain
<1>6. v \in Lists /\ MembersThere(v) /\ Gains(u, v, facts)
  BY <1>1, <1>2, <1>3, <1>4, <1>5, ControlRegistered
<1>7. Register(3, v, facts)
  BY <1>1, <1>2, <1>4 DEF AddControl
<1>8. QED
  BY <1>1, <1>6, <1>7, RegisterKeeps

LEMMA SetFieldsKeeps == ASSUME IInv, SetField \/ SetCommandCallback PROVE IInv'
<1>1. PICK u \in Lists : u = Ready /\ MembersThere(u)
  BY ReadyType DEF IInv
<1>2. PICK w : w = [u EXCEPT !.command = TRUE]
  OBVIOUS
<1>3. w \in Lists /\ w.channels = u.channels /\ w.groups = u.groups /\ w.file = u.file /\ w.controls = u.controls
  BY <1>2 DEF Lists
<1>4. CASE SetField
  <2>1. Gains(u, u, {})
    BY <1>1, NoFacts
  <2>2. Register(3, u, {})
    BY <1>1, <1>4 DEF SetField
  <2>3. QED
    BY <1>1, <2>1, <2>2, RegisterKeeps
<1>5. CASE SetCommandCallback
  <2>1. MembersThere(w) /\ Gains(u, w, {})
    BY <1>1, <1>3, NoFacts
  <2>2. Register(2, w, {})
    BY <1>1, <1>2, <1>5 DEF SetCommandCallback
  <2>3. QED
    BY <1>1, <1>3, <2>1, <2>2, RegisterKeeps
<1>6. QED
  BY <1>4, <1>5

LEMMA InitializeKeeps == ASSUME IInv, Initialize PROVE IInv'
<1>1. PICK u : u = Initialized
  OBVIOUS
<1>2. u = [initialized |-> TRUE, channels |-> << >>, groups |-> << >>, controls |-> << >>,
           file |-> Default, command |-> FALSE]
  BY <1>1 DEF Initialized, Zeroed
<1>3. u \in Lists
  <2>1. << >> \in Seq(ListedChannels) /\ << >> \in Seq(ListedGroups) /\ << >> \in Seq(ListedControls)
    OBVIOUS
  <2>2. QED
    BY <1>2, <2>1, UtilAssumption DEF Lists
<1>4. util' = u /\ VB' = None /\ told' = {} /\ outcome' = "none" /\ UNCHANGED <<variable, files, chosen, clientVars>>
  BY <1>1 DEF Initialize
<1>5. \A f \in FactsOf(u) : f[1] \notin {"member", "label", "range", "control"}
  <2>1. DOMAIN u.channels = {} /\ DOMAIN u.groups = {} /\ DOMAIN u.controls = {}
    BY <1>2
  <2>2. ASSUME NEW f \in FactsOf(u) PROVE f = <<"file", u.file>>
    BY <2>1, FactsAre DEF FactOf, ChannelFact, GroupFact, MemberFact, LabelFact, RangeFact, ControlFact
  <2>3. QED
    BY <2>2
<1>6. Listed'
  <2>1. MembersThere(util')
    BY <1>2, <1>4 DEF MembersThere
  <2>2. AsTold(FactsOf(util))'
    BY <1>4, <1>5 DEF AsTold
  <2>3. QED
    BY <2>1, <2>2 DEF Listed
<1>7. Idle /\ variable' \in [Addresses -> Values]
  BY <1>4 DEF Initialize, IInv, TypeOK
<1>8. QED
  BY <1>3, <1>4, <1>6, <1>7, AsideKeeps

LEMMA SameFacts ==
  ASSUME NEW u, NEW v, v.channels = u.channels, v.groups = u.groups, v.file = u.file, MembersThere(u),
         DOMAIN v.controls = DOMAIN u.controls,
         \A k \in DOMAIN u.controls : Plain(v.controls[k]) = Plain(u.controls[k])
  PROVE  MembersThere(v) /\ FactsOf(v) = FactsOf(u)
<1>1. MembersThere(v) /\ Gains(u, v, {})
  BY NoFacts
<1>2. QED
  BY <1>1, FactsAre DEF Gains

LEMMA SetInitialKeeps == ASSUME IInv, NEW name, NEW value \in Values, SetInitial(name, value) PROVE IInv'
<1>1. PICK u \in Lists : u = util /\ MembersThere(u)
  BY DEF IInv, TypeOK, Listed
<1>2. PICK q \in Seq(ListedControls), n \in Nat : q = u.controls /\ n = Len(q) /\ DOMAIN q = 1 .. n
  <2>1. PICK q \in Seq(ListedControls) : q = u.controls
    BY DEF Lists
  <2>2. Len(q) \in Nat /\ DOMAIN q = 1 .. Len(q)
    OBVIOUS
  <2>3. QED
    BY <2>1, <2>2
<1>3. PICK h : h = FindUtil(q, name)
  OBVIOUS
<1>4. PICK k : k = h + 1
  OBVIOUS
<1>5. /\ Idle /\ k > 0 /\ util' = [u EXCEPT !.controls[k].initial = value]
      /\ UNCHANGED <<VB, variable, outcome, told, files, chosen, clientVars>>
  BY <1>1, <1>2, <1>3, <1>4 DEF SetInitial
<1>6. k \in 1 .. n
  <2>1. k \in 0 .. n
    BY <1>2, <1>3, <1>4, FindIn
  <2>2. QED
    BY <1>5, <2>1
<1>7. PICK x : x = [q[k] EXCEPT !.initial = value]
  OBVIOUS
<1>8. x \in ListedControls /\ x.name = q[k].name /\ x.type = q[k].type /\ x.drive = q[k].drive /\ x.valid = q[k].valid
      /\ Plain(x) = Plain(q[k])
  <2>1. q[k] \in ListedControls
    BY <1>2, <1>6
  <2>2. QED
    BY <1>7, <2>1 DEF ListedControls, Plain
<1>9. PICK r : r = [q EXCEPT ![k] = x]
  OBVIOUS
<1>10. r \in Seq(ListedControls) /\ Len(r) = n /\ DOMAIN r = 1 .. n /\ r[k] = x /\ \A i \in 1 .. n : i # k => r[i] = q[i]
  <2>1. r \in Seq(ListedControls) /\ Len(r) = Len(q)
    BY <1>8, <1>9, ReplaceType
  <2>2. QED
    BY <1>2, <1>6, <1>9, <2>1
<1>11. util' = [u EXCEPT !.controls = r]
  BY <1>2, <1>5, <1>7, <1>9
<1>12. /\ util' \in Lists /\ util'.controls = r /\ util'.channels = u.channels /\ util'.groups = u.groups
       /\ util'.file = u.file /\ util'.initialized = u.initialized
  BY <1>10, <1>11 DEF Lists
<1>13. Listed'
  <2>1. MembersThere(util') /\ FactsOf(util') = FactsOf(u)
    <3>1. \A i \in 1 .. n : Plain(r[i]) = Plain(q[i])
      BY <1>8, <1>10
    <3>2. QED
      BY <1>1, <1>2, <1>10, <1>12, <3>1, SameFacts
  <2>2. u.initialized => AsTold(FactsOf(u))
    BY <1>1 DEF IInv, Listed
  <2>3. told' = told
    BY <1>5
  <2>4. util'.initialized => AsTold(FactsOf(util))'
    BY <1>12, <2>1, <2>2, <2>3 DEF AsTold
  <2>5. QED
    BY <2>1, <2>4 DEF Listed
<1>14. outcome' = "no" => Refuses(util')
  <2>1. outcome = "no" => Refuses(u)
    BY <1>1 DEF IInv, RefusedWithReason, Refuses
  <2>2. ASSUME Refuses(u) PROVE Refuses(util')
    <3>1. PICK i \in 1 .. n : ~q[i].valid \/ q[i].name \in Unlexable \/ FloatCallback(q[i])
      BY <1>2, <2>2 DEF Refuses, ToSet
    <3>2. r[i].valid = q[i].valid /\ r[i].name = q[i].name /\ r[i].type = q[i].type /\ r[i].drive = q[i].drive
      BY <1>8, <1>10
    <3>3. ~r[i].valid \/ r[i].name \in Unlexable \/ FloatCallback(r[i])
      BY <3>1, <3>2 DEF FloatCallback
    <3>4. r[i] \in ToSet(r)
      BY <1>10 DEF ToSet
    <3>5. QED
      BY <1>12, <3>3, <3>4 DEF Refuses
  <2>3. QED
    BY <1>5, <2>1, <2>2
<1>15. VB' \in {VB, None} /\ outcome' \in {outcome, "none"} /\ variable' \in [Addresses -> Values]
  BY <1>5 DEF IInv, TypeOK
<1>16. QED
  BY <1>5, <1>12, <1>13, <1>14, <1>15, AsideKeeps

LEMMA SetConfigfileKeeps == ASSUME IInv, NEW file \in Files, SetConfigfile(file) PROVE IInv'
<1>1. PICK u \in Lists : u = util /\ MembersThere(u)
  BY DEF IInv, TypeOK, Listed
<1>2. /\ Idle /\ util' = [u EXCEPT !.file = file]
      /\ told' = {t \in told : t[1] # "file"} \cup (IF u.initialized THEN {<<"file", file>>} ELSE {})
      /\ UNCHANGED <<VB, variable, outcome, files, chosen, clientVars>>
  BY <1>1 DEF SetConfigfile
<1>3. PICK v \in Lists : /\ v = util' /\ v.channels = u.channels /\ v.groups = u.groups /\ v.file = file
                         /\ v.controls = u.controls /\ v.initialized = u.initialized
  BY <1>2 DEF Lists
<1>4. MembersThere(v)
  BY <1>1, <1>3 DEF MembersThere
<1>5. ASSUME NEW f PROVE FactOf(v, f) <=> (FactOf(u, f) /\ f[1] # "file") \/ f = <<"file", file>>
  <2>1. /\ ChannelFact(v, f) <=> ChannelFact(u, f)
        /\ GroupFact(v, f) <=> GroupFact(u, f)
        /\ MemberFact(v, f) <=> MemberFact(u, f)
        /\ LabelFact(v, f) <=> LabelFact(u, f)
        /\ RangeFact(v, f) <=> RangeFact(u, f)
        /\ ControlFact(v, f) <=> ControlFact(u, f)
    BY <1>3 DEF ChannelFact, GroupFact, MemberFact, LabelFact, RangeFact, ControlFact
  <2>2. ChannelFact(u, f) => f[1] # "file"
    BY DEF ChannelFact
  <2>3. GroupFact(u, f) => f[1] # "file"
    BY DEF GroupFact
  <2>4. MemberFact(u, f) => f[1] # "file"
    BY DEF MemberFact
  <2>5. LabelFact(u, f) => f[1] # "file"
    BY DEF LabelFact
  <2>6. RangeFact(u, f) => f[1] # "file"
    BY DEF RangeFact
  <2>14. ControlFact(u, f) => f[1] # "file"
    BY DEF ControlFact
  <2>7. f = <<"file", u.file>> => f[1] = "file"
    OBVIOUS
  <2>8. PICK own : own = (ChannelFact(u, f) \/ GroupFact(u, f) \/ MemberFact(u, f) \/ LabelFact(u, f)
                          \/ RangeFact(u, f) \/ ControlFact(u, f))
    OBVIOUS
  <2>9. own => f[1] # "file"
    BY <2>2, <2>3, <2>4, <2>5, <2>6, <2>8, <2>14
  <2>10. FactOf(u, f) <=> own \/ f = <<"file", u.file>>
    BY ONLY <2>8 DEF FactOf
  <2>11. v.file = file
    BY <1>3
  <2>12. FactOf(v, f) <=> own \/ f = <<"file", file>>
    BY ONLY <2>1, <2>8, <2>11 DEF FactOf
  <2>13. QED
    BY ONLY <2>7, <2>9, <2>10, <2>12
<1>6. \A f : f \in FactsOf(v) <=> (f \in FactsOf(u) /\ f[1] # "file") \/ f = <<"file", file>>
  <2>1. ASSUME NEW f PROVE f \in FactsOf(v) <=> (f \in FactsOf(u) /\ f[1] # "file") \/ f = <<"file", file>>
    BY <1>5, FactsAre
  <2>2. QED
    BY <2>1
<1>7. Listed'
  <2>1. ASSUME v.initialized PROVE AsTold(FactsOf(util))'
    <3>1. told \subseteq FactsOf(u) /\ \A f \in FactsOf(u) : f[1] \in {"member", "label", "range", "control"} => f \in told
      BY <1>1, <1>3, <2>1 DEF IInv, Listed, AsTold
    <3>2. \A f : f \in told' <=> (f \in told /\ f[1] # "file") \/ f = <<"file", file>>
      BY <1>2, <1>3, <2>1
    <3>3. told' \subseteq FactsOf(v)
      BY <1>6, <3>1, <3>2
    <3>4. ASSUME NEW f \in FactsOf(v), f[1] \in {"member", "label", "range", "control"} PROVE f \in told'
      <4>1. f # <<"file", file>>
        BY <3>4
      <4>2. f \in FactsOf(u) /\ f[1] # "file"
        BY <1>6, <3>4, <4>1
      <4>3. QED
        BY <3>1, <3>2, <3>4, <4>2
    <3>5. QED
      BY <1>3, <3>3, <3>4 DEF AsTold
  <2>2. QED
    BY <1>3, <1>4, <2>1 DEF Listed
<1>8. outcome' = "no" => Refuses(util')
  BY <1>1, <1>2, <1>3 DEF IInv, RefusedWithReason, Refuses
<1>9. util' \in Lists /\ VB' \in {VB, None} /\ outcome' \in {outcome, "none"} /\ variable' \in [Addresses -> Values]
  BY <1>2, <1>3 DEF IInv, TypeOK
<1>10. QED
  BY <1>2, <1>7, <1>8, <1>9, AsideKeeps

-----------------------------------------------------------------------------
(* The server and the process end, and the game's variables change.        *)

(* With no server running nothing is promised of it. *)
LEMMA StoppedKeeps ==
  ASSUME ~Active', TypeOK', Listed', RefusedWithReason'
  PROVE  IInv'
BY DEF IInv, Backed, InStep, Facing

LEMMA NobodyType == /\ DOMAIN Nobody = {} /\ \A S : Nobody \in [{} -> S]
BY DEF Nobody

LEMMA ShutdownKeeps == ASSUME IInv, Shutdown PROVE IInv'
<1>1. PICK b \in Blocks : b = VB
  BY DEF IInv, TypeOK, Shutdown, Active
<1>2. /\ VB' = [b EXCEPT !.active = FALSE]
      /\ pending' = Nobody /\ shown' = Nobody /\ orders' = Nobody /\ crossed' = {}
      /\ UNCHANGED <<util, variable, outcome, told, files, chosen>>
  BY <1>1 DEF Shutdown
<1>3. VB' \in Blocks /\ VB'.active = FALSE
  BY <1>2 DEF Blocks
<1>4. ~Active'
  BY <1>3 DEF Active
<1>5. Everyone' = {} /\ IsFiniteSet(Everyone')
  BY <1>2, NobodyType, FS_EmptySet DEF Everyone
<1>6. TypeOK'
  <2>1. TypeOK
    BY DEF IInv
  <2>2. QED
    BY <1>2, <1>3, <1>5, <2>1, NobodyType DEF TypeOK
<1>7. Listed'
  <2>1. Listed /\ util' = util /\ told' = told
    BY <1>2 DEF IInv
  <2>2. QED
    BY ONLY <2>1 DEF Listed, AsTold
<1>8. RefusedWithReason'
  <2>1. RefusedWithReason /\ util' = util /\ outcome' = outcome
    BY <1>2 DEF IInv
  <2>2. QED
    BY ONLY <2>1 DEF RefusedWithReason
<1>9. QED
  BY <1>4, <1>6, <1>7, <1>8, StoppedKeeps

LEMMA ZeroedLists ==
  /\ Zeroed \in Lists /\ Zeroed.initialized = FALSE /\ MembersThere(Zeroed)
<1>1. PICK u : u = Zeroed
  OBVIOUS
<1>2. u = [initialized |-> FALSE, channels |-> << >>, groups |-> << >>, controls |-> << >>,
           file |-> Default, command |-> FALSE]
  BY <1>1 DEF Zeroed
<1>3. << >> \in Seq(ListedChannels) /\ << >> \in Seq(ListedGroups) /\ << >> \in Seq(ListedControls)
  OBVIOUS
<1>4. u \in Lists
  BY <1>2, <1>3, UtilAssumption DEF Lists
<1>5. MembersThere(u)
  BY <1>2 DEF MembersThere
<1>6. QED
  BY <1>1, <1>2, <1>4, <1>5

(* A new process finds files, and nothing else. *)
LEMMA BeginsRight ==
  ASSUME Begun, files' \in [Files -> Seq(Entries)], chosen' \in [Files -> Picks]
  PROVE  IInv'
<1>1. /\ util' = Zeroed /\ VB' = None /\ outcome' = "none" /\ told' = {}
      /\ variable' = [a \in Addresses |-> 0]
      /\ pending' = Nobody /\ shown' = Nobody /\ orders' = Nobody /\ crossed' = {}
  BY DEF Begun
<1>2. ~Active'
  BY <1>1 DEF Active
<1>3. variable' \in [Addresses -> Values]
  BY <1>1, RegistryAssumption
<1>4. Everyone' = {} /\ IsFiniteSet(Everyone')
  BY <1>1, NobodyType, FS_EmptySet DEF Everyone
<1>5. util' \in Lists /\ Listed'
  BY <1>1, ZeroedLists DEF Listed
<1>6. TypeOK'
  BY <1>1, <1>3, <1>4, <1>5, NobodyType DEF TypeOK
<1>7. RefusedWithReason'
  BY <1>1 DEF RefusedWithReason
<1>8. QED
  BY <1>2, <1>5, <1>6, <1>7, StoppedKeeps

LEMMA RestartKeeps == ASSUME IInv, Restart PROVE IInv'
<1>1. Begun /\ files' = files /\ chosen' = chosen
  BY DEF Restart
<1>2. files \in [Files -> Seq(Entries)] /\ chosen \in [Files -> Picks]
  BY DEF IInv, TypeOK
<1>3. QED
  BY <1>1, <1>2, BeginsRight

LEMMA RestartWritingKeeps == ASSUME IInv, RestartWriting PROVE IInv'
<1>1. PICK C : C = Everyone
  OBVIOUS
<1>2. PICK s : s = Running
  OBVIOUS
<1>3. Active
  BY DEF RestartWriting
<1>4. s \in States(C) /\ s.VB = VB /\ s.result = "ok" /\ s.orders = orders
  BY <1>1, <1>2, <1>3, RunningAgreed
<1>5. shown \in [C -> Seq(Rows)] /\ (C # {} => Named(s.VB))
  BY <1>1, <1>2, <1>3, RunningAgreed
<1>6. Agreed(s)
  BY <1>2, <1>3, RunningAgreed
<1>7. orders \in [C -> Seq(Orders)] /\ files \in [Files -> Seq(Entries)] /\ chosen \in [Files -> Picks]
  BY <1>1 DEF IInv, TypeOK
<1>8. PICK c \in C : /\ orders[c] # << >>
                     /\ \E n \in 0 .. Len(ObeyFirst(s, c).file) - 1 :
                          files' = [files EXCEPT ![VB.file] = SubSeq(ObeyFirst(s, c).file, 1, n)]
                     /\ chosen' = [chosen EXCEPT ![VB.file] = << >>]
  BY <1>2, <1>7 DEF RestartWriting
<1>9. PICK t : t = ObeyFirst(s, c)
  OBVIOUS
<1>10. t.file \in Seq(Entries)
  <2>1. Len(s.orders[c]) > 0
    <3>1. \A q \in Seq(Orders) : q # << >> => Len(q) > 0
      OBVIOUS
    <3>2. QED
      BY <1>4, <1>7, <1>8, <3>1
  <2>2. Goes(s, t, C)
    BY <1>4, <1>5, <1>6, <1>9, <2>1, ObeyGoes
  <2>3. t \in States(C)
    BY <2>2 DEF Goes
  <2>4. QED
    BY <2>3 DEF States
<1>11. PICK n \in 0 .. Len(t.file) - 1 : files' = [files EXCEPT ![VB.file] = SubSeq(t.file, 1, n)]
  BY <1>8, <1>9
<1>12. SubSeq(t.file, 1, n) \in Seq(Entries)
  BY <1>10
<1>13. files' \in [Files -> Seq(Entries)] /\ chosen' \in [Files -> Picks]
  BY <1>7, <1>8, <1>11, <1>12, NoPicks
<1>14. Begun
  BY DEF RestartWriting
<1>15. QED
  BY <1>13, <1>14, BeginsRight

LEMMA SetVariableKeeps ==
  ASSUME IInv, NEW address \in Addresses, NEW value \in Values, SetVariable(address, value)
  PROVE  IInv'
<1>1. /\ variable' = [variable EXCEPT ![address] = value]
      /\ util' = util /\ VB' = VB /\ outcome' = outcome /\ told' = told /\ files' = files /\ chosen' = chosen
      /\ pending' = pending /\ shown' = shown /\ orders' = orders /\ crossed' = crossed
  BY DEF SetVariable, clientVars
<1>2. (Active' <=> Active) /\ (Idle' <=> Idle) /\ Everyone' = Everyone
  BY <1>1 DEF Active, Idle, Everyone
<1>3. TypeOK'
  <2>1. variable' \in [Addresses -> Values]
    BY <1>1 DEF IInv, TypeOK
  <2>2. TypeOK
    BY DEF IInv
  <2>3. QED
    BY <1>1, <1>2, <2>1, <2>2 DEF TypeOK
<1>4. Listed'
  BY <1>1 DEF IInv, Listed, AsTold
<1>5. Backed' /\ RefusedWithReason'
  BY <1>1, <1>2 DEF IInv, Backed, RefusedWithReason
<1>6. Facing'
  BY <1>1, <1>2 DEF IInv, Facing, AsTold
<1>7. InStep'
  <2>1. Agreed(State) => Agreed(State)'
    BY <1>1 DEF Agreed, State, Knows, Agrees
  <2>2. QED
    BY <1>1, <1>2, <2>1 DEF IInv, InStep
<1>8. QED
  BY <1>3, <1>4, <1>5, <1>6, <1>7 DEF IInv

LEMMA StutterKeeps == ASSUME IInv, UNCHANGED vars PROVE IInv'
<1>1. /\ variable' = variable
      /\ util' = util /\ VB' = VB /\ outcome' = outcome /\ told' = told /\ files' = files /\ chosen' = chosen
      /\ pending' = pending /\ shown' = shown /\ orders' = orders /\ crossed' = crossed
  BY DEF vars, gameVars, clientVars
<1>2. (Active' <=> Active) /\ (Idle' <=> Idle) /\ Everyone' = Everyone
  BY <1>1 DEF Active, Idle, Everyone
<1>3. TypeOK'
  BY <1>1, <1>2 DEF IInv, TypeOK
<1>4. Listed'
  BY <1>1 DEF IInv, Listed, AsTold
<1>5. Backed' /\ RefusedWithReason'
  BY <1>1, <1>2 DEF IInv, Backed, RefusedWithReason
<1>6. Facing'
  BY <1>1, <1>2 DEF IInv, Facing, AsTold
<1>7. InStep'
  <2>1. Agreed(State) => Agreed(State)'
    BY <1>1 DEF Agreed, State, Knows, Agrees
  <2>2. QED
    BY <1>1, <1>2, <2>1 DEF IInv, InStep
<1>8. QED
  BY <1>3, <1>4, <1>5, <1>6, <1>7 DEF IInv

LEMMA InitHolds == Init => IInv
<1> SUFFICES ASSUME Init PROVE IInv
  OBVIOUS
<1>1. /\ util = Zeroed /\ VB = None /\ outcome = "none" /\ told = {}
      /\ variable = [a \in Addresses |-> 0]
      /\ pending = Nobody /\ shown = Nobody /\ orders = Nobody /\ crossed = {}
      /\ files = [f \in Files |-> << >>] /\ chosen = [f \in Files |-> << >>]
  BY DEF Init
<1>2. ~Active
  BY <1>1 DEF Active
<1>3. variable \in [Addresses -> Values]
  BY <1>1, RegistryAssumption
<1>4. Everyone = {} /\ IsFiniteSet(Everyone)
  BY <1>1, NobodyType, FS_EmptySet DEF Everyone
<1>5. util \in Lists /\ Listed
  BY <1>1, ZeroedLists DEF Listed
<1>6. files \in [Files -> Seq(Entries)] /\ chosen \in [Files -> Picks]
  <2>1. << >> \in Seq(Entries)
    OBVIOUS
  <2>2. QED
    BY <1>1, <2>1, NoPicks
<1>7. TypeOK
  BY <1>1, <1>3, <1>4, <1>5, <1>6, NobodyType DEF TypeOK
<1>8. RefusedWithReason
  BY <1>1 DEF RefusedWithReason
<1>9. QED
  BY <1>2, <1>5, <1>7, <1>8 DEF IInv, Backed, InStep, Facing

-----------------------------------------------------------------------------
(* The invariant holds, and what follows from it.                          *)

LEMMA RegisteringKeeps == ASSUME IInv, Registering PROVE IInv'
<1>1. MaxItems \in Nat
  BY UtilAssumption
<1>2. CASE Initialize
  BY <1>2, InitializeKeeps
<1>3. CASE SetCommandCallback \/ SetField
  BY <1>3, SetFieldsKeeps
<1>4. CASE \E f \in Files : SetConfigfile(f)
  BY <1>4, SetConfigfileKeeps
<1>5. CASE \E n \in ChannelNames : AddChannel(n)
  BY <1>5, AddChannelKeeps
<1>6. CASE \E n \in GroupNames : AddGroup(n)
  BY <1>6, AddGroupKeeps
<1>7. CASE \E h \in 0 .. MaxItems : SetRange(h) \/ \E g \in 0 .. MaxItems : AddMember(g, h)
  <2>1. PICK h \in 0 .. MaxItems : SetRange(h) \/ \E g \in 0 .. MaxItems : AddMember(g, h)
    BY <1>7
  <2>2. h \in Nat
    BY <1>1
  <2>3. CASE SetRange(h)
    BY <2>2, <2>3, SetRangeKeeps
  <2>4. ASSUME NEW g \in 0 .. MaxItems, AddMember(g, h) PROVE IInv'
    <3>1. g \in Nat
      BY <1>1
    <3>2. QED
      BY <2>2, <2>4, <3>1, AddMemberKeeps
  <2>5. QED
    BY <2>1, <2>3, <2>4
<1>8. CASE \E n \in ChannelNames : (\E l \in Labels : AddLabelNamed(n, l)) \/ (\E g \in GroupNames : AddMemberNamed(g, n))
  BY <1>8, AddLabelNamedKeeps, AddMemberNamedKeeps
<1>9. CASE \E c \in Catalog : AddControl(c) \/ \E v \in Values : SetInitial(c.name, v)
  BY <1>9, AddControlKeeps, SetInitialKeeps
<1>10. QED
  BY <1>2, <1>3, <1>4, <1>5, <1>6, <1>7, <1>8, <1>9 DEF Registering

LEMMA ClientKeeps == ASSUME IInv, NEW c \in Clients, Client(c) PROVE IInv'
<1>1. CASE Connect(c)
  BY <1>1, ConnectKeeps
<1>2. CASE c \in DOMAIN pending /\ (See(c) \/ \E k \in DOMAIN shown[c], v \in Values : Move(c, k, v))
  <2>1. c \in Everyone
    BY <1>2 DEF Everyone
  <2>2. CASE See(c)
    BY <2>1, <2>2, SeeKeeps
  <2>3. ASSUME NEW k \in DOMAIN shown[c], NEW v \in Values, Move(c, k, v) PROVE IInv'
    BY <2>1, <2>3, MoveKeeps
  <2>4. QED
    BY <1>2, <2>2, <2>3
<1>3. QED
  BY <1>1, <1>2 DEF Client

LEMMA NextKeeps == IInv /\ [Next]_vars => IInv'
<1> SUFFICES ASSUME IInv, [Next]_vars PROVE IInv'
  OBVIOUS
<1>1. CASE Registering
  BY <1>1, RegisteringKeeps
<1>2. CASE Create \/ CreateBusy
  BY <1>2, CreateKeeps
<1>3. CASE Shutdown
  BY <1>3, ShutdownKeeps
<1>4. CASE Update
  BY <1>4, UpdateKeeps
<1>5. CASE Restart
  BY <1>5, RestartKeeps
<1>6. CASE RestartWriting
  BY <1>6, RestartWritingKeeps
<1>7. CASE \E c \in Catalog, v \in Values : Set(c.name, v)
  BY <1>7, SetKeeps
<1>8. CASE \E a \in Addresses, v \in Values : SetVariable(a, v)
  BY <1>8, SetVariableKeeps
<1>9. CASE \E n \in ChannelNames : SendByName(n)
  BY <1>9, SendByNameKeeps
<1>10. CASE \E c \in Clients : Client(c)
  BY <1>10, ClientKeeps
<1>11. CASE UNCHANGED vars
  BY <1>11, StutterKeeps
<1>12. QED
  BY <1>1, <1>2, <1>3, <1>4, <1>5, <1>6, <1>7, <1>8, <1>9, <1>10, <1>11 DEF Next

LEMMA Invariant == Spec => []IInv
BY InitHolds, NextKeeps, PTL DEF Spec

(* The lists, the memory, the files, the messages and orders under way and *)
(* the clients' tables are always what the code takes them for, and nobody *)
(* is connected while no server runs.                                      *)
THEOREM TypeCorrect == Spec => []TypeOK
<1>1. IInv => TypeOK
  BY DEF IInv
<1>2. QED
  BY <1>1, Invariant, PTL

(* What the game asked for since it last began to register is in the       *)
(* memory of a running server: channels and groups under the handles it    *)
(* was given, controls at the places they were added at; and there are no  *)
(* other controls, labels, ranges and members.  Of what was registered     *)
(* before a vb_util_server_create failed only controls and file are left.  *)
THEOREM RegisteredAsAskedHolds == Spec => []RegisteredAsAsked
<1>1. IInv => RegisteredAsAsked
  BY DEF IInv, Facing, AsTold, RegisteredAsAsked
<1>2. QED
  BY <1>1, Invariant, PTL

(* vb_util_server_create never refuses because of the limits it computed   *)
(* from the lists: there is a control that it may not add, and the process *)
(* only crashes over a control of the kinds named there.                   *)
THEOREM RefusedWithReasonHolds == Spec => []RefusedWithReason
<1>1. IInv => RefusedWithReason
  BY DEF IInv
<1>2. QED
  BY <1>1, Invariant, PTL

(* With every update read, a client shows the values of the server, but    *)
(* for what "%f" does not print of a value it was moved to, unless an      *)
(* order of its own is under way, crossed an update, or was lost.          *)
THEOREM ShownIsValueHolds == Spec => []ShownIsValue
<1>1. ASSUME IInv PROVE ShownIsValue
  <2> SUFFICES ASSUME Active, Distinct(VB.controls), NEW c \in DOMAIN shown, pending[c] = << >>,
                      NEW k \in DOMAIN shown[c]
               PROVE  \/ \E o \in ToSet(orders[c]) : o.control = k
                      \/ <<c, shown[c][k].name>> \in crossed
                      \/ shown[c][k].value = VB.controls[k].value
                      \/ AsText(shown[c][k].type, shown[c][k].value) = VB.controls[k].value
    BY DEF ShownIsValue
  <2>1. /\ VB \in Blocks /\ pending \in [Everyone -> Seq(Messages)]
        /\ shown \in [Everyone -> Seq(Rows)] /\ orders \in [Everyone -> Seq(Orders)]
    BY <1>1 DEF IInv, TypeOK, Active
  <2>2. c \in Everyone
    BY <2>1
  <2>3. PICK table \in Seq(Rows), os \in Seq(Orders) : table = shown[c] /\ os = orders[c]
    BY <2>1, <2>2
  <2>4. PICK q \in Seq(Controls) : q = VB.controls
    BY <2>1 DEF Blocks
  <2>5. Agreed(State)
    BY <1>1 DEF IInv, InStep
  <2>6. Knows(table, VB, << >>) /\ \A i \in DOMAIN q : Agrees(c, table, VB, << >>, os, crossed, i)
    BY <2>2, <2>3, <2>4, <2>5 DEF Agreed, State, Everyone
  <2>7. Matches(table, VB)
    BY <2>6 DEF Knows
  <2>8. k \in DOMAIN q
    BY <2>3, <2>4, <2>7 DEF Matches
  <2>9. table[k].name = q[k].name /\ table[k].type = q[k].type
    BY <2>4, <2>7, <2>8 DEF Matches
  <2>10. PICK v : v = q[k].value
    OBVIOUS
  <2>11. \/ <<c, q[k].name>> \in crossed
         \/ LastSays(<< >>, q[k].name, k, v) \/ table[k].value = v \/ AsText(q[k].type, table[k].value) = v
         \/ LastOrder(os, k, AsText(q[k].type, table[k].value))
    BY <2>4, <2>6, <2>8, <2>10 DEF Agrees, StandsFor
  <2>12. ~LastSays(<< >>, q[k].name, k, v)
    BY DEF LastSays
  <2>13. LastOrder(os, k, AsText(q[k].type, table[k].value)) => \E o \in ToSet(os) : o.control = k
    BY DEF LastOrder, ToSet
  <2>14. QED
    BY <2>3, <2>4, <2>9, <2>10, <2>11, <2>12, <2>13
<1>2. QED
  BY <1>1, Invariant, PTL
=============================================================================
