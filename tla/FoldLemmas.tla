---------------------------- MODULE FoldLemmas ----------------------------
(***************************************************************************)
(* Induction for proofs about folds.  The theorems of the library on       *)
(* induction take an operator as a parameter; those here take a set of     *)
(* numbers, which a proof defines by what it wants to show.  FoldLeft is a *)
(* function that is chosen by the equation it satisfies, so a proof about  *)
(* one needs that there is such a function (FoldExists).                   *)
(***************************************************************************)
EXTENDS SequencesExt, WellFoundedInduction, TLAPS

\* Numbers are well-founded, so that a proof by induction can take the least number of
\* which something does not hold.
LEMMA LeastExists ==
    ASSUME NEW S \in SUBSET Nat, S # {}
    PROVE  \E x \in S : \A y \in S : x <= y
<1> DEFINE R == OpToRel(<, Nat)
<1>1. \A x, y \in Nat : <<y, x>> \in R <=> y < x
  BY DEF OpToRel
<1>2. IsWellFoundedOn(R, Nat)
  BY NatLessThanWellFounded
<1>3. \E x \in S : \A y \in S : ~(<<y, x>> \in R)
  <2> HIDE DEF R
  <2>1. S \subseteq Nat
    OBVIOUS
  <2> QED
    BY <1>2, <2>1, WFMin, Zenon
<1> HIDE DEF R
<1>4. PICK x \in S : \A y \in S : ~(<<y, x>> \in R)
  BY <1>3
<1>5. ASSUME NEW y \in S PROVE x <= y
  <2>1. x \in Nat /\ y \in Nat /\ ~(<<y, x>> \in R)
    BY <1>4
  <2>2. ~(y < x)
    BY <2>1, <1>1, Zenon
  <2> QED
    BY <2>1, <2>2
<1> QED
  BY <1>5

\* What Min is for numbers.
LEMMA MinOf ==
    ASSUME NEW S \in SUBSET Nat, S # {}
    PROVE  Min(S) \in S /\ \A x \in S : Min(S) <= x
  BY LeastExists DEF Min

\* What Max is for numbers that have a bound.
LEMMA MaxOf ==
    ASSUME NEW S \in SUBSET Nat, S # {}, NEW bound \in Nat, \A x \in S : x <= bound
    PROVE  Max(S) \in S /\ \A x \in S : x <= Max(S)
<1> DEFINE bounds == {n \in Nat : \A x \in S : x <= n}
<1>1. PICK least \in bounds : \A n \in bounds : least <= n
  <2>1. bounds # {}
    OBVIOUS
  <2> HIDE DEF bounds
  <2>2. bounds \in SUBSET Nat
    BY DEF bounds
  <2> QED
    BY <2>1, <2>2, LeastExists
<1>2. least \in Nat /\ \A x \in S : x <= least /\ x \in Nat
  BY <1>1
<1>3. \A n \in Nat : (\A x \in S : x <= n) => least <= n
  BY <1>1
<1> HIDE DEF bounds
<1>4. least \in S
  <2> SUFFICES ASSUME least \notin S PROVE FALSE
    OBVIOUS
  <2>1. PICK x \in S : TRUE
    OBVIOUS
  <2>2. least # 0 /\ least - 1 \in Nat
    BY <1>2, <2>1
  <2>3. \A y \in S : y <= least - 1
    BY <1>2, <2>2
  <2> QED
    BY <1>2, <1>3, <2>2, <2>3
<1>5. \E x \in S : \A y \in S : x >= y
  BY <1>2, <1>4
<1> QED
  BY <1>5 DEF Max

\* Induction up to n.
LEMMA Counting ==
    ASSUME NEW n \in Nat, NEW S, 0 \in S, \A k \in 0 .. n - 1 : k \in S => k + 1 \in S
    PROVE  0 .. n \subseteq S
<1> SUFFICES ASSUME ~(0 .. n \subseteq S) PROVE FALSE
  OBVIOUS
<1> DEFINE bad == {k \in 0 .. n : k \notin S}
<1>1. bad \in SUBSET Nat /\ bad # {}
  OBVIOUS
<1>2. PICK least \in bad : \A k \in bad : least <= k
  <2> HIDE DEF bad
  <2> QED
    BY <1>1, LeastExists
<1>3. least \in 0 .. n /\ least \notin S /\ least # 0
  BY <1>2
<1>4. least - 1 \in 0 .. n - 1 /\ least - 1 + 1 = least
  BY <1>3
<1>5. least - 1 \in S
  BY <1>2, <1>4
<1> QED
  BY <1>3, <1>4, <1>5

\* The highest of some of the first places.
LEMMA MaxOfPlaces ==
    ASSUME NEW n \in Nat, NEW s \in SUBSET (1 .. n), s # {}
    PROVE  Max(s) \in s /\ \A x \in s : x <= Max(s)
<1>1. s \in SUBSET Nat /\ \A x \in s : x <= n
  OBVIOUS
<1> QED
  BY <1>1, MaxOf

\* f folds the first n elements of a sequence, by the set of their places: step is what
\* the operator of FoldLeft does.
IsFold(f, step, base, seq, n) ==
    \A s \in SUBSET (1 .. n) :
        f[s] = IF s = {} THEN base ELSE step[<<f[s \ {Max(s)}], seq[Max(s)]>>]

\* Without the last place the rest is among the places before it.
LEMMA WithoutLast ==
    ASSUME NEW m \in Nat, NEW s \in SUBSET (1 .. m + 1)
    PROVE  s \ {m + 1} \in SUBSET (1 .. m)
<1>1. ASSUME NEW x \in s, x # m + 1 PROVE x \in 1 .. m
  <2>1. x \in 1 .. m + 1
    OBVIOUS
  <2> QED
    BY <1>1, <2>1
<1> QED
  BY <1>1, Zenon

\* A step takes a result in A and an element in B to a result in A.
IsStep(step, A, B) == \A a \in A, b \in B : step[<<a, b>>] \in A

ElementsIn(seq, n, B) == \A k \in 1 .. n : seq[k] \in B

\* There is a function that folds the sequence.
LEMMA FoldExists ==
    ASSUME NEW A, NEW B, NEW base \in A, NEW step, IsStep(step, A, B),
           NEW n \in Nat, NEW seq, ElementsIn(seq, n, B)
    PROVE  \E f \in [SUBSET (1 .. n) -> A] : IsFold(f, step, base, seq, n)
<1> DEFINE good == {m \in 0 .. n : \E f \in [SUBSET (1 .. m) -> A] : IsFold(f, step, base, seq, m)}
<1>1. 0 \in good
  <2> DEFINE f == [s \in SUBSET (1 .. 0) |-> base]
  <2>1. \A s \in SUBSET (1 .. 0) : s = {}
    OBVIOUS
  <2>2. f \in [SUBSET (1 .. 0) -> A] /\ \A s \in SUBSET (1 .. 0) : f[s] = base
    OBVIOUS
  <2> HIDE DEF f
  <2>3. IsFold(f, step, base, seq, 0)
    BY <2>1, <2>2 DEF IsFold
  <2> QED
    BY <2>2, <2>3
<1>2. ASSUME NEW m \in 0 .. n - 1, m \in good PROVE m + 1 \in good
  <2>1. PICK f \in [SUBSET (1 .. m) -> A] : IsFold(f, step, base, seq, m)
    BY <1>2
  <2>2. m \in Nat /\ m + 1 \in 0 .. n /\ seq[m + 1] \in B
    BY DEF ElementsIn
  <2>3. \E g \in [SUBSET (1 .. m + 1) -> A] : IsFold(g, step, base, seq, m + 1)
    <3> HIDE DEF good
    <3> DEFINE g == [s \in SUBSET (1 .. m + 1) |->
                       IF m + 1 \in s THEN step[<<f[s \ {m + 1}], seq[m + 1]>>] ELSE f[s]]
    <3>1. ASSUME NEW s \in SUBSET (1 .. m + 1)
          PROVE  g[s] = IF s = {} THEN base ELSE step[<<g[s \ {Max(s)}], seq[Max(s)]>>]
      <4>1. CASE m + 1 \in s
        <5>1. Max(s) = m + 1
          <6> HIDE DEF g
          <6>1. m + 1 \in Nat /\ s # {}
            BY <4>1
          <6>2. Max(s) \in s /\ m + 1 <= Max(s)
            BY <4>1, <6>1, MaxOfPlaces
          <6>3. Max(s) \in 1 .. m + 1
            BY <6>2
          <6> QED
            BY <6>2, <6>3
        <5>2. s \ {m + 1} \in SUBSET (1 .. m + 1) /\ m + 1 \notin s \ {m + 1}
          OBVIOUS
        <5>3. /\ g[s \ {m + 1}] = f[s \ {m + 1}]
              /\ g[s] = step[<<f[s \ {m + 1}], seq[m + 1]>>]
          BY <4>1, <5>2
        <5> QED
          BY <4>1, <5>1, <5>3
      <4>2. CASE m + 1 \notin s
        <5>1. s \in SUBSET (1 .. m) /\ g[s] = f[s]
          BY <4>2
        <5>2. CASE s = {}
          BY <2>1, <5>1, <5>2 DEF IsFold
        <5>3. CASE s # {}
          <6>1. m + 1 \notin s \ {Max(s)} /\ s \ {Max(s)} \in SUBSET (1 .. m + 1)
            BY <4>2
          <6>2. g[s \ {Max(s)}] = f[s \ {Max(s)}]
            BY <6>1
          <6>3. f[s] = step[<<f[s \ {Max(s)}], seq[Max(s)]>>]
            BY <2>1, <5>1, <5>3 DEF IsFold
          <6> QED
            BY <5>1, <5>3, <6>2, <6>3
        <5> QED
          BY <5>2, <5>3
      <4> QED
        BY <4>1, <4>2
    <3>2. g \in [SUBSET (1 .. m + 1) -> A]
      <4>1. ASSUME NEW s \in SUBSET (1 .. m + 1)
            PROVE  (IF m + 1 \in s THEN step[<<f[s \ {m + 1}], seq[m + 1]>>] ELSE f[s]) \in A
        <5>1. CASE m + 1 \in s
          <6>1. s \ {m + 1} \in SUBSET (1 .. m)
            BY <2>2, WithoutLast, Zenon
          <6>2. f[s \ {m + 1}] \in A /\ seq[m + 1] \in B
            BY <2>2, <6>1
          <6> QED
            BY <5>1, <6>2 DEF IsStep
        <5>2. CASE m + 1 \notin s
          <6>1. s \in SUBSET (1 .. m)
            BY <5>2
          <6> QED
            BY <5>2, <6>1
        <5> QED
          BY <5>1, <5>2
      <4> QED
        BY <4>1
    <3> HIDE DEF g
    <3>3. IsFold(g, step, base, seq, m + 1)
      BY <3>1 DEF IsFold
    <3> QED
      BY <3>2, <3>3
  <2> QED
    BY <2>2, <2>3
<1> HIDE DEF good
<1>3. 0 .. n \subseteq good
  BY <1>1, <1>2, Counting
<1>4. n \in good
  BY <1>3
<1> QED
  BY <1>4 DEF good

\* Functions of sets of places that start alike, and that stay alike step by step.
StepTogether(f, g, n) ==
    /\ f[1 .. 0] = g[1 .. 0]
    /\ \A k \in 1 .. n : f[1 .. k - 1] = g[1 .. k - 1] => f[1 .. k] = g[1 .. k]

\* They agree on the first n places.
LEMMA FoldsAgree ==
    ASSUME NEW n \in Nat, NEW f, NEW g, StepTogether(f, g, n)
    PROVE  f[1 .. n] = g[1 .. n]
<1> DEFINE good == {k \in 0 .. n : f[1 .. k] = g[1 .. k]}
<1>1. 0 \in good
  BY DEF StepTogether
<1>2. ASSUME NEW k \in 0 .. n - 1, k \in good PROVE k + 1 \in good
  <2>1. k + 1 \in 1 .. n /\ k + 1 - 1 = k
    OBVIOUS
  <2> QED
    BY <1>2, <2>1 DEF StepTogether
<1> HIDE DEF good
<1>3. 0 .. n \subseteq good
  BY <1>1, <1>2, Counting
<1>4. n \in good
  BY <1>3
<1> QED
  BY <1>4 DEF good

\* Folding goes by the first places.
LEMMA Prefix ==
    ASSUME NEW n \in Nat, NEW k \in 1 .. n
    PROVE  /\ 1 .. k \in SUBSET (1 .. n) /\ 1 .. k # {}
           /\ Max(1 .. k) = k /\ (1 .. k) \ {k} = 1 .. k - 1
<1>1. 1 .. k \in SUBSET (1 .. n) /\ 1 .. k # {} /\ k \in 1 .. k
  OBVIOUS
<1>2. Max(1 .. k) \in 1 .. k /\ k <= Max(1 .. k)
  BY <1>1, MaxOfPlaces
<1>3. Max(1 .. k) = k
  BY <1>2
<1>4. (1 .. k) \ {k} = 1 .. k - 1
  OBVIOUS
<1> QED
  BY <1>1, <1>3, <1>4

=============================================================================
