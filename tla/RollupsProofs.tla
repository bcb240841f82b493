--------------------------- MODULE RollupsProofs ---------------------------
(***************************************************************************)
(* Theorems about Rollups, for all retentions, widths of the buckets and   *)
(* outcomes, both stores, and every bound on probes, time and delays.      *)
(*                                                                         *)
(* The tables have forgotten what the properties speak of: single probes.  *)
(* So the inductive invariant IInv says that there is a place of every     *)
(* probe - among the raw results, in a row of a minute, an hour or a day,  *)
(* or gone - such that each table is what the probes of its place sum up   *)
(* to, and older probes are further along.  Statements move probes on.     *)
(* Between statements 2 and 3 of a prune some probes are in two tables; a  *)
(* prune that is under way is judged by what the deletion of raw results   *)
(* will leave, which spares what is stored meanwhile because storing takes *)
(* less time than raw results are retained.                                *)
(*                                                                         *)
(* Runs of outcomes are no function of the places: they are pruned by when *)
(* they end.  RunsInv says that they are the runs of the reportable probes *)
(* that are no longer raw results, but for the oldest.  That runs can be   *)
(* continued (RunsInTwo), and that the last ones among them are the runs   *)
(* of the last probes (Cover), are facts about OutcomeRuns, a fold, which  *)
(* are shown by induction over probes in their order (ByLatest).           *)
(***************************************************************************)
EXTENDS Rollups, FoldLemmas, FiniteSetTheorems

-----------------------------------------------------------------------------
(* Rounding *)

\* Rounding down.
LEMMA Rounding ==
    ASSUME NEW t \in Nat, NEW w \in Nat \ {0}
    PROVE  /\ Truncated(t, w) \in Nat /\ Truncated(t, w) <= t /\ t < Truncated(t, w) + w
           /\ \E q \in Int : Truncated(t, w) = w * q
<1>1. t % w \in 0 .. w - 1
  OBVIOUS
<1>2. PICK d : d = t \div w
  OBVIOUS
<1>3. d \in Int
  BY <1>2
<1>4. t = w * d + (t % w)
  BY <1>2
<1>5. t % w <= t
  OBVIOUS
<1>6. PICK r \in Int : r = t % w /\ 0 <= r /\ r <= w - 1 /\ r <= t
  BY <1>1, <1>5
<1>7. Truncated(t, w) = t - r /\ t - r = w * d
  <2>1. Truncated(t, w) = t - r
    BY <1>6 DEF Truncated
  <2>2. PICK x \in Int : x = w * d
    BY <1>3
  <2>3. t = x + r
    BY <1>4, <1>6, <2>2
  <2> QED
    BY <2>1, <2>2, <2>3
<1>8. /\ Truncated(t, w) \in Nat /\ Truncated(t, w) <= t /\ t < Truncated(t, w) + w
  BY <1>6, <1>7
<1> QED
  BY <1>3, <1>7, <1>8

\* Multiples of a width are apart by it.
LEMMA Multiples ==
    ASSUME NEW w \in Nat \ {0}, NEW i \in Int, NEW j \in Int, w * i < w * j
    PROVE  w * i + w <= w * j
<1>1. i < j
  <2> SUFFICES ASSUME j <= i PROVE FALSE
    OBVIOUS
  <2>1. PICK k \in Nat : i = j + k
    OBVIOUS
  <2>2. w * i = w * j + w * k /\ w * k >= 0
    BY <2>1
  <2> QED
    BY <2>2
<1>2. PICK k \in Nat : j = i + 1 + k
  BY <1>1
<1>3. w * j = w * i + w + w * k /\ w * k >= 0
  BY <1>2
<1> QED
  BY <1>3

\* A width that is divided by another without a rest is a multiple of it.
LEMMA Divided ==
    ASSUME NEW v \in Nat \ {0}, NEW w \in Nat \ {0}, v % w = 0
    PROVE  \E q \in Int : v = w * q
<1>1. PICK d : d = v \div w
  OBVIOUS
<1>2. d \in Int
  BY <1>1
<1>3. v = w * d + (v % w)
  BY <1>1
<1> QED
  BY <1>2, <1>3

\* A moment t lies in the bucket of a width that begins at s.
IsBucketOf(t, s, width) ==
    s <= t /\ t < s + width /\ \E i \in Int : s = width * i

\* A moment that was rounded down is rounded down again, to a multiple of the width.
LEMMA RoundingTwice ==
    ASSUME NEW t \in Nat, NEW w \in Nat \ {0}, NEW v \in Nat \ {0}, v % w = 0,
           NEW s \in Nat, IsBucketOf(t, s, w)
    PROVE  Truncated(s, v) \in Nat /\ IsBucketOf(t, Truncated(s, v), v)
<1> PICK i \in Int : s = w * i /\ s <= t /\ t < s + w
  BY DEF IsBucketOf
<1>1. PICK q \in Int : Truncated(s, v) = v * q
  BY Rounding
<1>2. Truncated(s, v) \in Nat /\ Truncated(s, v) <= s /\ s < Truncated(s, v) + v
  BY Rounding
<1>3. PICK n \in Int : v = w * n
  BY Divided
<1>4. PICK j \in Int : j = n * q + n
  OBVIOUS
<1>5. Truncated(s, v) + v = w * j
  BY <1>1, <1>3, <1>4
<1>6. w * i + w <= w * j
  BY <1>2, <1>5, Multiples
<1> QED
  BY <1>1, <1>2, <1>5, <1>6 DEF IsBucketOf

\* Rounding down keeps the order.
LEMMA RoundingInOrder ==
    ASSUME NEW t \in Nat, NEW u \in Nat, NEW w \in Nat \ {0}, t <= u
    PROVE  Truncated(t, w) <= Truncated(u, w)
<1>1. PICK i \in Int : Truncated(t, w) = w * i
  BY Rounding
<1>2. PICK j \in Int : Truncated(u, w) = w * j
  BY Rounding
<1>3. /\ Truncated(t, w) \in Nat /\ Truncated(t, w) <= t
      /\ Truncated(u, w) \in Nat /\ u < Truncated(u, w) + w
  BY Rounding
<1>4. w * j < w * i => w * j + w <= w * i
  BY Multiples
<1> QED
  BY <1>1, <1>2, <1>3, <1>4

\* A multiple leaves no rest.
LEMMA NoRest ==
    ASSUME NEW t \in Nat, NEW w \in Nat \ {0}
    PROVE  Truncated(t, w) % w = 0
<1>1. PICK i \in Int : Truncated(t, w) = w * i
  BY Rounding
<1>2. (w * i) % w = 0
  OBVIOUS
<1> QED
  BY <1>1, <1>2

-----------------------------------------------------------------------------
(* Summaries *)

AnyProbe == [at : Nat, outcome : Outcome]

\* Finitely many probes up to some moment.
Finite(some, bound) ==
    some \in SUBSET AnyProbe /\ IsFiniteSet(some) /\ \A p \in some : p.at <= bound

\* The least of the moments in two sets is the lesser of the least in each.
LEMMA LeastOfBoth ==
    ASSUME NEW X \in SUBSET Nat, NEW Y \in SUBSET Nat
    PROVE  LeastOf(X \cup Y) = MergedFirst(LeastOf(X), LeastOf(Y))
<1>1. CASE X = {} /\ Y = {}
  <2>1. LeastOf(X) = None /\ LeastOf(Y) = None /\ LeastOf(X \cup Y) = None
    BY <1>1 DEF LeastOf
  <2> QED
    BY <2>1 DEF MergedFirst, LeastOf
<1>2. ASSUME NEW Z \in SUBSET Nat, Z # {}
      PROVE  LeastOf(Z) \in Z /\ LeastOf(Z) \in Nat /\ \A z \in Z : LeastOf(Z) <= z
  BY <1>2, MinOf DEF LeastOf
<1>3. ASSUME NEW Z \in SUBSET Nat, Z # {}, NEW m \in Z, \A z \in Z : m <= z
      PROVE  LeastOf(Z) = m
  <2>1. LeastOf(Z) \in Z /\ LeastOf(Z) \in Nat /\ LeastOf(Z) <= m
    BY <1>2, <1>3
  <2>2. m <= LeastOf(Z) /\ m \in Nat
    BY <1>3, <2>1
  <2> QED
    BY <2>1, <2>2
<1>4. CASE X # {} /\ Y = {}
  <2>1. PICK x \in Nat : x = LeastOf(X)
    BY <1>2, <1>4
  <2>2. {x, None} \ {None} = {x}
    BY <2>1 DEF None
  <2>3. LeastOf({x}) = x
    BY <1>3
  <2>4. X \cup Y = X /\ LeastOf(Y) = None
    BY <1>4 DEF LeastOf
  <2> QED
    BY <2>1, <2>2, <2>3, <2>4 DEF MergedFirst
<1>5. CASE X = {} /\ Y # {}
  <2>1. PICK x \in Nat : x = LeastOf(Y)
    BY <1>2, <1>5
  <2>2. {None, x} \ {None} = {x}
    BY <2>1 DEF None
  <2>3. LeastOf({x}) = x
    BY <1>3
  <2>4. X \cup Y = Y /\ LeastOf(X) = None
    BY <1>5 DEF LeastOf
  <2> QED
    BY <2>1, <2>2, <2>3, <2>4 DEF MergedFirst
<1>6. CASE X # {} /\ Y # {}
  <2>1. PICK x \in Nat : x = LeastOf(X) /\ x \in X /\ \A z \in X : x <= z
    BY <1>2, <1>6
  <2>2. PICK y \in Nat : y = LeastOf(Y) /\ y \in Y /\ \A z \in Y : y <= z
    BY <1>2, <1>6
  <2>3. {x, y} \ {None} = {x, y}
    BY <2>1, <2>2 DEF None
  <2>4. PICK m \in Nat : m \in {x, y} /\ m <= x /\ m <= y
    BY <2>1, <2>2
  <2>5. LeastOf({x, y}) = m
    BY <1>3, <2>4
  <2>6. \A z \in X \cup Y : m <= z
    BY <2>1, <2>2, <2>4
  <2>7. LeastOf(X \cup Y) = m
    <3>1. X \cup Y \in SUBSET Nat /\ m \in X \cup Y
      BY <2>1, <2>2, <2>4
    <3> QED
      BY <1>3, <2>6, <3>1
  <2> QED
    BY <2>1, <2>2, <2>3, <2>5, <2>7 DEF MergedFirst
<1> QED
  BY <1>1, <1>4, <1>5, <1>6

\* The same for the greatest.
LEMMA GreatestOfBoth ==
    ASSUME NEW bound \in Nat, NEW X \in SUBSET (0 .. bound), NEW Y \in SUBSET (0 .. bound)
    PROVE  GreatestOf(X \cup Y) = MergedLast(GreatestOf(X), GreatestOf(Y))
<1>1. CASE X = {} /\ Y = {}
  <2>1. GreatestOf(X) = None /\ GreatestOf(Y) = None /\ GreatestOf(X \cup Y) = None
    BY <1>1 DEF GreatestOf
  <2> QED
    BY <2>1 DEF MergedLast, GreatestOf
<1>2. ASSUME NEW Z \in SUBSET (0 .. bound), Z # {}
      PROVE  GreatestOf(Z) \in Z /\ GreatestOf(Z) \in Nat /\ \A z \in Z : z <= GreatestOf(Z)
  <2>1. Z \in SUBSET Nat /\ \A z \in Z : z <= bound
    OBVIOUS
  <2> QED
    BY <1>2, <2>1, MaxOf DEF GreatestOf
<1>3. ASSUME NEW Z \in SUBSET (0 .. bound), Z # {}, NEW m \in Z, \A z \in Z : z <= m
      PROVE  GreatestOf(Z) = m
  <2>1. GreatestOf(Z) \in Z /\ GreatestOf(Z) \in Nat /\ m <= GreatestOf(Z)
    BY <1>2, <1>3
  <2>2. GreatestOf(Z) <= m /\ m \in Nat
    BY <1>3, <2>1
  <2> QED
    BY <2>1, <2>2
<1>4. CASE X # {} /\ Y = {}
  <2>1. PICK x \in 0 .. bound : x = GreatestOf(X)
    BY <1>2, <1>4
  <2>2. {x, None} \ {None} = {x}
    BY <2>1 DEF None
  <2>3. GreatestOf({x}) = x
    BY <1>3
  <2>4. X \cup Y = X /\ GreatestOf(Y) = None
    BY <1>4 DEF GreatestOf
  <2> QED
    BY <2>1, <2>2, <2>3, <2>4 DEF MergedLast
<1>5. CASE X = {} /\ Y # {}
  <2>1. PICK x \in 0 .. bound : x = GreatestOf(Y)
    BY <1>2, <1>5
  <2>2. {None, x} \ {None} = {x}
    BY <2>1 DEF None
  <2>3. GreatestOf({x}) = x
    BY <1>3
  <2>4. X \cup Y = Y /\ GreatestOf(X) = None
    BY <1>5 DEF GreatestOf
  <2> QED
    BY <2>1, <2>2, <2>3, <2>4 DEF MergedLast
<1>6. CASE X # {} /\ Y # {}
  <2>1. PICK x \in 0 .. bound : x = GreatestOf(X) /\ x \in X /\ \A z \in X : z <= x
    BY <1>2, <1>6
  <2>2. PICK y \in 0 .. bound : y = GreatestOf(Y) /\ y \in Y /\ \A z \in Y : z <= y
    BY <1>2, <1>6
  <2>3. {x, y} \ {None} = {x, y}
    BY <2>1, <2>2 DEF None
  <2>4. PICK m \in 0 .. bound : m \in {x, y} /\ x <= m /\ y <= m
    BY <2>1, <2>2
  <2>5. GreatestOf({x, y}) = m
    BY <1>3, <2>4
  <2>6. \A z \in X \cup Y : z <= m
    <3>1. \A z \in X \cup Y : z \in 0 .. bound
      OBVIOUS
    <3> QED
      BY <2>1, <2>2, <2>4, <3>1
  <2>7. GreatestOf(X \cup Y) = m
    <3>1. X \cup Y \in SUBSET (0 .. bound) /\ m \in X \cup Y
      BY <2>1, <2>2, <2>4
    <3> QED
      BY <1>3, <2>6, <3>1
  <2> QED
    BY <2>1, <2>2, <2>3, <2>5, <2>7 DEF MergedLast
<1> QED
  BY <1>1, <1>4, <1>5, <1>6

\* The number of elements of two sets that have none in common.
LEMMA CardinalityOfBoth ==
    ASSUME NEW A, NEW B, IsFiniteSet(A), IsFiniteSet(B), A \cap B = {}
    PROVE  /\ Cardinality(A) \in Nat /\ Cardinality(B) \in Nat
           /\ Cardinality(A \cup B) = Cardinality(A) + Cardinality(B)
<1>1. Cardinality(A) \in Nat /\ Cardinality(B) \in Nat
  BY FS_CardinalityType
<1>2. Cardinality(A \cup B) = Cardinality(A) + Cardinality(B) - Cardinality(A \cap B)
  BY FS_Union
<1>3. Cardinality(A \cap B) = 0
  BY FS_EmptySet
<1> QED
  BY <1>1, <1>2, <1>3

\* Summing up is additive.
LEMMA SummaryOfBoth ==
    ASSUME NEW bound \in Nat, NEW A, NEW B, Finite(A, bound), Finite(B, bound), A \cap B = {}
    PROVE  Summary(A \cup B) = Plus(Summary(A), Summary(B))
<1> DEFINE reportable(S) == {p \in S : Reportable(p)}
           covered(S) == {p \in S : p.outcome \in {"maintenance_ok", "maintenance_failed"}}
           good(S) == {p \in reportable(S) : OK(p)}
           bad(S) == {p \in covered(S) : ~OK(p)}
           moments(S) == {p.at : p \in reportable(S)}
<1>1. /\ reportable(A \cup B) = reportable(A) \cup reportable(B)
      /\ covered(A \cup B) = covered(A) \cup covered(B)
      /\ good(A \cup B) = good(A) \cup good(B)
      /\ bad(A \cup B) = bad(A) \cup bad(B)
      /\ moments(A \cup B) = moments(A) \cup moments(B)
  OBVIOUS
<1>2. /\ reportable(A) \cap reportable(B) = {} /\ covered(A) \cap covered(B) = {}
      /\ good(A) \cap good(B) = {} /\ bad(A) \cap bad(B) = {}
  OBVIOUS
<1>3. ASSUME NEW S, Finite(S, bound)
      PROVE  /\ IsFiniteSet(reportable(S)) /\ IsFiniteSet(covered(S))
             /\ IsFiniteSet(good(S)) /\ IsFiniteSet(bad(S))
             /\ moments(S) \in SUBSET (0 .. bound) /\ moments(S) \in SUBSET Nat
  <2>1. /\ reportable(S) \in SUBSET S /\ covered(S) \in SUBSET S
        /\ good(S) \in SUBSET S /\ bad(S) \in SUBSET S
    OBVIOUS
  <2>2. \A p \in S : p.at \in Nat /\ p.at \in 0 .. bound
    BY <1>3 DEF Finite, AnyProbe
  <2>3. IsFiniteSet(S)
    BY <1>3 DEF Finite
  <2>4. moments(S) \in SUBSET (0 .. bound) /\ moments(S) \in SUBSET Nat
    BY <2>2
  <2> HIDE DEF reportable, covered, good, bad, moments
  <2> QED
    BY <2>1, <2>3, <2>4, FS_Subset
<1>4. Summary(A) = [total |-> Cardinality(reportable(A)), successful |-> Cardinality(good(A)),
                    maintenance |-> Cardinality(covered(A)),
                    maintenanceFailed |-> Cardinality(bad(A)),
                    first |-> LeastOf(moments(A)), last |-> GreatestOf(moments(A))]
  BY Zenon DEF Summary
<1>5. Summary(B) = [total |-> Cardinality(reportable(B)), successful |-> Cardinality(good(B)),
                    maintenance |-> Cardinality(covered(B)),
                    maintenanceFailed |-> Cardinality(bad(B)),
                    first |-> LeastOf(moments(B)), last |-> GreatestOf(moments(B))]
  BY Zenon DEF Summary
<1>6. Summary(A \cup B) =
          [total |-> Cardinality(reportable(A \cup B)), successful |-> Cardinality(good(A \cup B)),
           maintenance |-> Cardinality(covered(A \cup B)),
           maintenanceFailed |-> Cardinality(bad(A \cup B)),
           first |-> LeastOf(moments(A \cup B)), last |-> GreatestOf(moments(A \cup B))]
  BY Zenon DEF Summary
<1> HIDE DEF reportable, covered, good, bad, moments
<1>7. /\ Cardinality(reportable(A \cup B)) = Cardinality(reportable(A)) + Cardinality(reportable(B))
      /\ Cardinality(covered(A \cup B)) = Cardinality(covered(A)) + Cardinality(covered(B))
      /\ Cardinality(good(A \cup B)) = Cardinality(good(A)) + Cardinality(good(B))
      /\ Cardinality(bad(A \cup B)) = Cardinality(bad(A)) + Cardinality(bad(B))
  BY <1>1, <1>2, <1>3, CardinalityOfBoth
<1>8. /\ LeastOf(moments(A \cup B)) = MergedFirst(LeastOf(moments(A)), LeastOf(moments(B)))
      /\ GreatestOf(moments(A \cup B)) = MergedLast(GreatestOf(moments(A)), GreatestOf(moments(B)))
  <2>1. PICK X \in SUBSET Nat, Y \in SUBSET Nat :
                /\ X = moments(A) /\ Y = moments(B) /\ X \cup Y = moments(A \cup B)
                /\ X \in SUBSET (0 .. bound) /\ Y \in SUBSET (0 .. bound)
    BY <1>1, <1>3
  <2>2. LeastOf(X \cup Y) = MergedFirst(LeastOf(X), LeastOf(Y))
    BY LeastOfBoth
  <2>3. GreatestOf(X \cup Y) = MergedLast(GreatestOf(X), GreatestOf(Y))
    BY <2>1, GreatestOfBoth
  <2> QED
    BY <2>1, <2>2, <2>3
<1> QED
  BY <1>4, <1>5, <1>6, <1>7, <1>8 DEF Plus

-----------------------------------------------------------------------------
(* Tables of rollups *)

\* The rows that sum up some probes, by the bucket of each.
Rows(some, key) ==
    [s \in {key[p] : p \in some} |-> Summary({p \in some : key[p] = s})]

\* Some of finitely many probes.
LEMMA FinitePart ==
    ASSUME NEW bound, NEW A, Finite(A, bound), NEW B \in SUBSET A
    PROVE  Finite(B, bound)
BY FS_Subset DEF Finite

\* Adding rows of other probes.
LEMMA UpsertRows ==
    ASSUME NEW bound \in Nat, NEW A, NEW B, Finite(A, bound), Finite(B, bound), A \cap B = {},
           NEW key
    PROVE  Upsert(Rows(A, key), Rows(B, key)) = Rows(A \cup B, key)
<1> DEFINE Of(S, s) == {p \in S : key[p] = s}
           D(S) == {key[p] : p \in S}
<1>1. /\ DOMAIN Rows(A, key) = D(A) /\ DOMAIN Rows(B, key) = D(B)
      /\ D(A \cup B) = D(A) \cup D(B)
  BY DEF Rows
<1>2. ASSUME NEW s \in D(A) \cup D(B)
      PROVE  (IF s \notin D(A) THEN Rows(B, key)[s]
              ELSE IF s \notin D(B) THEN Rows(A, key)[s]
              ELSE Plus(Rows(A, key)[s], Rows(B, key)[s])) = Summary(Of(A \cup B, s))
  <2>1. Of(A \cup B, s) = Of(A, s) \cup Of(B, s)
    OBVIOUS
  <2>2. s \in D(A) => Rows(A, key)[s] = Summary(Of(A, s))
    BY DEF Rows
  <2>3. s \in D(B) => Rows(B, key)[s] = Summary(Of(B, s))
    BY DEF Rows
  <2>4. CASE s \notin D(A)
    <3>1. Of(A \cup B, s) = Of(B, s) /\ s \in D(B)
      BY <2>4
    <3> QED
      BY <2>3, <2>4, <3>1
  <2>5. CASE s \in D(A) /\ s \notin D(B)
    <3>1. Of(A \cup B, s) = Of(A, s)
      BY <2>5
    <3> QED
      BY <2>2, <2>5, <3>1
  <2>6. CASE s \in D(A) /\ s \in D(B)
    <3>1. Of(A, s) \in SUBSET A /\ Of(B, s) \in SUBSET B /\ Of(A, s) \cap Of(B, s) = {}
      OBVIOUS
    <3> HIDE DEF Of, D
    <3>2. Finite(Of(A, s), bound) /\ Finite(Of(B, s), bound)
      BY <3>1, FinitePart
    <3>3. Summary(Of(A, s) \cup Of(B, s)) = Plus(Summary(Of(A, s)), Summary(Of(B, s)))
      BY <3>1, <3>2, SummaryOfBoth
    <3> QED
      BY <2>1, <2>2, <2>3, <2>6, <3>3
  <2> QED
    BY <2>4, <2>5, <2>6
<1>3. Upsert(Rows(A, key), Rows(B, key)) =
          [s \in D(A) \cup D(B) |->
              IF s \notin D(A) THEN Rows(B, key)[s]
              ELSE IF s \notin D(B) THEN Rows(A, key)[s]
              ELSE Plus(Rows(A, key)[s], Rows(B, key)[s])]
  BY <1>1 DEF Upsert
<1>4. Rows(A \cup B, key) = [s \in D(A) \cup D(B) |-> Summary(Of(A \cup B, s))]
  BY <1>1 DEF Rows
<1> QED
  BY <1>2, <1>3, <1>4

\* Deleting the oldest rows.
LEMMA DeleteRows ==
    ASSUME NEW A, NEW key, NEW cutoff, NEW keep, keep = {p \in A : ~(key[p] < cutoff)}
    PROVE  DeleteOlder(Rows(A, key), cutoff) = Rows(keep, key)
<1> DEFINE D(S) == {key[p] : p \in S}
<1>1. DOMAIN Rows(A, key) = D(A)
  BY DEF Rows
<1>2. D(A) \ {s \in D(A) : s < cutoff} = D(keep)
  OBVIOUS
<1>3. \A s \in D(keep) : Rows(A, key)[s] = Summary({p \in A : key[p] = s}) /\ s \in D(A)
  BY DEF Rows
<1>4. \A s \in D(keep) : {p \in A : key[p] = s} = {p \in keep : key[p] = s}
  OBVIOUS
<1>5. DeleteOlder(Rows(A, key), cutoff) = [s \in D(keep) |-> Rows(A, key)[s]]
  BY <1>1, <1>2 DEF DeleteOlder, Starts
<1>6. Rows(keep, key) = [s \in D(keep) |-> Summary({p \in keep : key[p] = s})]
  BY DEF Rows
<1>7. \A s \in D(keep) : Rows(A, key)[s] = Summary({p \in keep : key[p] = s})
  BY <1>3, <1>4, Zenon
<1> HIDE DEF D
<1> QED
  BY <1>5, <1>6, <1>7, Zenon

-----------------------------------------------------------------------------

Chosen(T) == CHOOSE s \in T : TRUE

\* Functions of sets that start alike, and that stay alike with each chosen element.
GrowTogether(f, g, starts) ==
    /\ f[{}] = g[{}]
    /\ \A T \in SUBSET starts :
          T # {} /\ f[T \ {Chosen(T)}] = g[T \ {Chosen(T)}] => f[T] = g[T]

\* They agree on a finite set.
LEMMA SumsAgree ==
    ASSUME NEW starts, IsFiniteSet(starts), NEW f, NEW g, GrowTogether(f, g, starts)
    PROVE  f[starts] = g[starts]
<1> DEFINE good == {n \in 0 .. Cardinality(starts) :
                      \A T \in SUBSET starts : Cardinality(T) = n => f[T] = g[T]}
<1>1. Cardinality(starts) \in Nat
  BY FS_CardinalityType
<1>2. \A T \in SUBSET starts : IsFiniteSet(T)
  BY FS_Subset
<1>3. 0 \in good
  <2>1. \A T \in SUBSET starts : Cardinality(T) = 0 => T = {}
    BY <1>2, FS_EmptySet
  <2>2. f[{}] = g[{}]
    BY DEF GrowTogether
  <2> QED
    BY <1>1, <2>1, <2>2
<1>4. ASSUME NEW n \in 0 .. Cardinality(starts) - 1, n \in good PROVE n + 1 \in good
  <2>1. n + 1 \in 0 .. Cardinality(starts)
    BY <1>1
  <2>2. ASSUME NEW T \in SUBSET starts, Cardinality(T) = n + 1 PROVE f[T] = g[T]
    <3>1. T # {}
      <4>1. n + 1 # 0
        OBVIOUS
      <4> QED
        BY <2>2, <4>1, FS_EmptySet
    <3>2. PICK c : c = Chosen(T)
      OBVIOUS
    <3>3. c \in T
      BY <3>1, <3>2 DEF Chosen
    <3>4. Cardinality(T \ {c}) = Cardinality(T) - 1
      BY <1>2, <3>3, FS_RemoveElement
    <3>5. Cardinality(T \ {c}) = n /\ T \ {c} \in SUBSET starts
      BY <2>2, <3>4
    <3>6. f[T \ {c}] = g[T \ {c}]
      BY <1>4, <3>5
    <3> HIDE DEF good
    <3> QED
      BY <3>1, <3>2, <3>6, Zenon DEF GrowTogether
  <2> QED
    BY <2>1, <2>2
<1> HIDE DEF good
<1>5. 0 .. Cardinality(starts) \subseteq good
  BY <1>1, <1>3, <1>4, Counting
<1>6. Cardinality(starts) \in good
  BY <1>1, <1>5
<1> QED
  BY <1>6 DEF good

\* The sum of some rows is the summary of their probes.
LEMMA SumOfRows ==
    ASSUME NEW bound \in Nat, NEW A, Finite(A, bound), NEW key,
           NEW starts \in SUBSET {key[p] : p \in A}, IsFiniteSet(starts)
    PROVE  SumOf(Rows(A, key), starts) = Summary({p \in A : key[p] \in starts})
<1> DEFINE rows == Rows(A, key)
           In(T) == {p \in A : key[p] \in T}
           f == CHOOSE h : h = [T \in SUBSET starts |->
                   IF T = {} THEN Nothing ELSE Plus(rows[Chosen(T)], h[T \ {Chosen(T)}])]
           g == [T \in SUBSET starts |-> Summary(In(T))]
<1>1. SumOf(rows, starts) = f[starts]
  BY DEF SumOf, MapThenFoldSet, Chosen
<1>2. ASSUME NEW T \in SUBSET starts, T # {}
      PROVE  g[T] = Plus(rows[Chosen(T)], g[T \ {Chosen(T)}])
  <2>1. PICK c : c = Chosen(T)
    OBVIOUS
  <2>2. c \in T /\ c \in {key[p] : p \in A}
    BY <1>2, <2>1 DEF Chosen
  <2>3. rows[c] = Summary({p \in A : key[p] = c})
    BY <2>2 DEF Rows
  <2>4. g[T] = Summary(In(T)) /\ g[T \ {c}] = Summary(In(T \ {c}))
    OBVIOUS
  <2> DEFINE one == {p \in A : key[p] = c}
  <2>5. In(T) = one \cup In(T \ {c}) /\ one \cap In(T \ {c}) = {}
    BY <2>2
  <2>6. one \in SUBSET A /\ In(T \ {c}) \in SUBSET A
    OBVIOUS
  <2> HIDE DEF one, In, g
  <2>7. Finite(one, bound) /\ Finite(In(T \ {c}), bound)
    BY <2>6, FinitePart
  <2>8. Summary(one \cup In(T \ {c})) = Plus(Summary(one), Summary(In(T \ {c})))
    BY <2>5, <2>7, SummaryOfBoth
  <2>9. rows[c] = Summary(one)
    BY <2>3 DEF one
  <2> QED
    BY <2>1, <2>4, <2>5, <2>8, <2>9
<1>3. g[{}] = Nothing
  <2>1. In({}) = {} /\ g[{}] = Summary(In({}))
    OBVIOUS
  <2> QED
    BY <2>1 DEF Nothing
<1>4. g = [T \in SUBSET starts |->
             IF T = {} THEN Nothing ELSE Plus(rows[Chosen(T)], g[T \ {Chosen(T)}])]
  <2> DEFINE e(T) == IF T = {} THEN Nothing ELSE Plus(rows[Chosen(T)], g[T \ {Chosen(T)}])
  <2>1. ASSUME NEW T \in SUBSET starts PROVE g[T] = e(T)
    <3>1. CASE T = {}
      BY <1>3, <3>1
    <3>2. CASE T # {}
      BY <1>2, <3>2
    <3> QED
      BY <3>1, <3>2
  <2>2. g = [T \in SUBSET starts |-> g[T]]
    OBVIOUS
  <2> HIDE DEF g
  <2> QED
    BY <2>1, <2>2
<1> HIDE DEF g
<1>5. f = [T \in SUBSET starts |->
             IF T = {} THEN Nothing ELSE Plus(rows[Chosen(T)], f[T \ {Chosen(T)}])]
  BY <1>4
<1> HIDE DEF f
<1>6. GrowTogether(f, g, starts)
  <2>1. f[{}] = Nothing
    <3>1. {} \in SUBSET starts
      OBVIOUS
    <3> QED
      BY <1>5, <3>1
  <2>2. ASSUME NEW T \in SUBSET starts, T # {}
        PROVE f[T] = Plus(rows[Chosen(T)], f[T \ {Chosen(T)}])
    BY <1>5, <2>2
  <2> QED
    BY <1>2, <1>3, <2>1, <2>2, Zenon DEF GrowTogether
<1>7. f[starts] = g[starts]
  BY <1>6, SumsAgree
<1>8. g[starts] = Summary(In(starts))
  BY DEF g
<1> QED
  BY <1>1, <1>7, <1>8

-----------------------------------------------------------------------------
(* Buckets *)

\* The bucket of each probe, at every level.
AtOf == [p \in AnyProbe |-> p.at]
MinuteOf == [p \in AnyProbe |-> Truncated(p.at, Minute)]
HourOf == [p \in AnyProbe |-> Truncated(MinuteOf[p], Hour)]
DayOf == [p \in AnyProbe |-> Truncated(HourOf[p], Day)]

\* Buckets begin with their probes or before, in the same order.
IsKey(key) ==
    /\ \A p \in AnyProbe : key[p] \in Nat /\ key[p] <= p.at
    /\ \A p, q \in AnyProbe : p.at <= q.at => key[p] <= key[q]

\* They are as long as the width.
IsBucket(key, width) ==
    \A p \in AnyProbe : p.at < key[p] + width /\ key[p] % width = 0

\* The widths of buckets divide each other.
LEMMA Widths ==
    /\ Minute \in Nat \ {0} /\ Hour \in Nat \ {0} /\ Day \in Nat \ {0}
    /\ Hour % Minute = 0 /\ Day % Hour = 0
BY RollupsAssumption

\* A moment is a bucket of its own.
LEMMA AtIsKey == IsKey(AtOf)
BY DEF IsKey, AtOf, AnyProbe

\* So is the minute that it is rounded down to.
LEMMA MinuteIsKey ==
    IsKey(MinuteOf) /\ IsBucket(MinuteOf, Minute)
<1>1. ASSUME NEW p \in AnyProbe
      PROVE  /\ MinuteOf[p] = Truncated(p.at, Minute) /\ p.at \in Nat
             /\ MinuteOf[p] \in Nat /\ MinuteOf[p] <= p.at /\ p.at < MinuteOf[p] + Minute
             /\ MinuteOf[p] % Minute = 0
  <2>1. MinuteOf[p] = Truncated(p.at, Minute) /\ p.at \in Nat
    BY DEF MinuteOf, AnyProbe
  <2> QED
    BY <2>1, Widths, Rounding, NoRest
<1>2. ASSUME NEW p \in AnyProbe, NEW q \in AnyProbe, p.at <= q.at
      PROVE  MinuteOf[p] <= MinuteOf[q]
  BY <1>1, <1>2, Widths, RoundingInOrder
<1> QED
  BY <1>1, <1>2 DEF IsKey, IsBucket

\* Buckets whose beginnings are the multiples of their width.
Aligned(key, width) ==
    \A p \in AnyProbe : IsBucketOf(p.at, key[p], width)

RoundedFrom(k1, k2, width) == \A p \in AnyProbe : k2[p] = Truncated(k1[p], width)

\* Buckets of buckets are buckets.
LEMMA KeyOfKey ==
    ASSUME NEW k1, NEW k2, NEW w \in Nat \ {0}, NEW v \in Nat \ {0}, v % w = 0,
           IsKey(k1), RoundedFrom(k1, k2, v), Aligned(k1, w)
    PROVE  IsKey(k2) /\ Aligned(k2, v)
<1>1. ASSUME NEW p \in AnyProbe
      PROVE  k2[p] \in Nat /\ k2[p] <= p.at /\ IsBucketOf(p.at, k2[p], v)
  <2>1. p.at \in Nat
    BY DEF AnyProbe
  <2>2. k1[p] \in Nat /\ IsBucketOf(p.at, k1[p], w) /\ k2[p] = Truncated(k1[p], v)
    BY DEF IsKey, Aligned, RoundedFrom
  <2>3. k2[p] \in Nat /\ IsBucketOf(p.at, k2[p], v)
    BY <2>1, <2>2, RoundingTwice
  <2> QED
    BY <2>3 DEF IsBucketOf
<1>2. ASSUME NEW p \in AnyProbe, NEW q \in AnyProbe, p.at <= q.at
      PROVE  k2[p] <= k2[q]
  <2>1. k1[p] \in Nat /\ k1[q] \in Nat /\ k1[p] <= k1[q]
    BY <1>2 DEF IsKey
  <2>2. k2[p] = Truncated(k1[p], v) /\ k2[q] = Truncated(k1[q], v)
    BY DEF RoundedFrom
  <2> QED
    BY <2>1, <2>2, RoundingInOrder
<1> QED
  BY <1>1, <1>2, Zenon DEF IsKey, Aligned

\* At every level, buckets begin in the order of their probes and have the width of the
\* level.
LEMMA AllAreKeys ==
    /\ IsKey(AtOf) /\ IsKey(MinuteOf) /\ IsKey(HourOf) /\ IsKey(DayOf)
    /\ IsBucket(MinuteOf, Minute) /\ IsBucket(HourOf, Hour) /\ IsBucket(DayOf, Day)
<1>1. Aligned(MinuteOf, Minute)
  <2>1. ASSUME NEW p \in AnyProbe PROVE IsBucketOf(p.at, MinuteOf[p], Minute)
    <3>1. MinuteOf[p] = Truncated(p.at, Minute) /\ p.at \in Nat
      BY DEF MinuteOf, AnyProbe
    <3> QED
      BY <3>1, Widths, Rounding DEF IsBucketOf
  <2> QED
    BY <2>1, Zenon DEF Aligned
<1>2. RoundedFrom(MinuteOf, HourOf, Hour) /\ RoundedFrom(HourOf, DayOf, Day)
  BY DEF HourOf, DayOf, RoundedFrom
<1>3. IsKey(HourOf) /\ Aligned(HourOf, Hour)
  BY <1>1, <1>2, MinuteIsKey, Widths, KeyOfKey
<1>5. IsKey(DayOf) /\ Aligned(DayOf, Day)
  BY <1>2, <1>3, Widths, KeyOfKey
<1>6. \A p \in AnyProbe : HourOf[p] % Hour = 0
  <2> TAKE p \in AnyProbe
  <2>1. MinuteOf[p] \in Nat
    BY MinuteIsKey DEF IsKey
  <2> QED
    BY <2>1, Widths, NoRest DEF HourOf
<1>7. \A p \in AnyProbe : DayOf[p] % Day = 0
  <2> TAKE p \in AnyProbe
  <2>1. HourOf[p] \in Nat
    BY <1>3 DEF IsKey
  <2> QED
    BY <2>1, Widths, NoRest DEF DayOf
<1> QED
  <2>1. IsBucket(HourOf, Hour) /\ IsBucket(DayOf, Day)
    BY <1>3, <1>5, <1>6, <1>7, Zenon DEF IsBucket, Aligned, IsBucketOf
  <2> QED
    BY <1>3, <1>5, <2>1, AtIsKey, MinuteIsKey

-----------------------------------------------------------------------------

Oldest(some, key, cutoff) == {p \in some : key[p] < cutoff}

\* Rows that are rolled up are those of the wider buckets.
LEMMA RollupOfRows ==
    ASSUME NEW bound \in Nat, NEW A, NEW B, Finite(A, bound), Finite(B, bound), A \cap B = {},
           NEW k1, NEW k2, NEW width, NEW cutoff, IsKey(k1), RoundedFrom(k1, k2, width),
           NEW old, old = Oldest(A, k1, cutoff)
    PROVE  RollupStored(Rows(A, k1), Rows(B, k2), width, cutoff) = Rows(B \cup old, k2)
<1> DEFINE starts == Starts(Rows(A, k1), cutoff)
           In(s) == {r \in starts : Truncated(r, width) = s}
           new == [s \in {Truncated(r, width) : r \in starts} |-> SumOf(Rows(A, k1), In(s))]
<1> old = {p \in A : k1[p] < cutoff}
  BY DEF Oldest
<1>1. starts = {k1[p] : p \in old}
  BY DEF Starts, Rows
<1>2. A \in SUBSET AnyProbe /\ old \in SUBSET AnyProbe /\ old \in SUBSET A
  BY DEF Finite
<1> \A p \in AnyProbe : k2[p] = Truncated(k1[p], width)
  BY DEF RoundedFrom
<1>3. {Truncated(r, width) : r \in starts} = {k2[p] : p \in old}
  BY <1>1, <1>2
<1>4. IsFiniteSet(0 .. bound)
  BY FS_Interval
<1>5. ASSUME NEW s PROVE SumOf(Rows(A, k1), In(s)) = Summary({p \in old : k2[p] = s})
  <2>1. In(s) \in SUBSET {k1[p] : p \in A}
    BY <1>1, <1>2
  <2>2. In(s) \in SUBSET (0 .. bound)
    <3>1. \A p \in A : k1[p] \in 0 .. bound
      <4> TAKE p \in A
      <4>1. p \in AnyProbe /\ p.at \in Nat /\ p.at <= bound
        BY DEF Finite, AnyProbe
      <4>2. k1[p] \in Nat /\ k1[p] <= p.at
        BY <4>1 DEF IsKey
      <4> QED
        BY <4>1, <4>2
    <3> QED
      BY <2>1, <3>1
  <2>3. IsFiniteSet(In(s))
    BY <1>4, <2>2, FS_Subset
  <2>4. {p \in A : k1[p] \in In(s)} = {p \in old : k2[p] = s}
    BY <1>1, <1>2
  <2> HIDE DEF In
  <2> QED
    BY <2>1, <2>3, <2>4, SumOfRows
<1>6. new = Rows(old, k2)
  <2>1. Rows(old, k2) = [s \in {k2[p] : p \in old} |-> Summary({p \in old : k2[p] = s})]
    BY DEF Rows
  <2> HIDE DEF starts, In
  <2>2. new = [s \in {k2[p] : p \in old} |-> SumOf(Rows(A, k1), In(s))]
    BY <1>3
  <2>3. PICK D : D = {k2[p] : p \in old}
    OBVIOUS
  <2>4. \A s \in D : SumOf(Rows(A, k1), In(s)) = Summary({p \in old : k2[p] = s})
    BY <1>5
  <2>5. [s \in D |-> SumOf(Rows(A, k1), In(s))] = [s \in D |-> Summary({p \in old : k2[p] = s})]
    BY <2>4, Zenon
  <2> QED
    BY <2>1, <2>2, <2>3, <2>5, Zenon
<1>7. RollupStored(Rows(A, k1), Rows(B, k2), width, cutoff) = Upsert(Rows(B, k2), new)
  BY DEF RollupStored
<1>8. Finite(old, bound) /\ B \cap old = {}
  BY <1>2, FinitePart
<1> HIDE DEF new
<1> QED
  BY <1>6, <1>7, <1>8, UpsertRows

-----------------------------------------------------------------------------
(* Places *)

\* Where a probe is by now: at 4 among the raw results, at 3, 2 and 1 in the rows of a
\* minute, an hour and a day, and at 0 it is forgotten.
At(place, n) == {p \in DOMAIN place : place[p] = n}

\* The older a probe, the further it has come.
ByAge(place) == \A p, q \in DOMAIN place : p.at < q.at => place[p] <= place[q]

\* The tables have each probe in its place.
Holds(t, place) ==
    /\ DOMAIN t = Tables
    /\ t.raw = At(place, 4)
    /\ t.minute = Rows(At(place, 3), MinuteOf)
    /\ t.hour = Rows(At(place, 2), HourOf)
    /\ t.day = Rows(At(place, 1), DayOf)

\* The oldest probes leave a place for the next.
MovedOn(place, n, key, cutoff) ==
    [p \in DOMAIN place |-> IF place[p] = n /\ key[p] < cutoff THEN n - 1 ELSE place[p]]

IsPlace(place, all) == place \in [all -> 0 .. 4] /\ all \in SUBSET AnyProbe /\ ByAge(place)

\* What such a move leaves.
Moves(new, place, all, n, key, cutoff) ==
    /\ IsPlace(new, all)
    /\ \A p \in all : new[p] = place[p] \/ (place[p] = n /\ new[p] = n - 1 /\ key[p] < cutoff)
    /\ At(new, n) = {p \in At(place, n) : ~(key[p] < cutoff)}
    /\ At(new, n - 1) = At(place, n - 1) \cup {p \in At(place, n) : key[p] < cutoff}
    /\ \A m \in 0 .. 4 \ {n, n - 1} : At(new, m) = At(place, m)

\* Moving the oldest probes of a place on keeps older probes further along.
LEMMA MovedOnMoves ==
    ASSUME NEW all, NEW place, IsPlace(place, all), NEW n \in 1 .. 4, NEW key, IsKey(key),
           NEW cutoff \in Int, NEW new, new = MovedOn(place, n, key, cutoff)
    PROVE  Moves(new, place, all, n, key, cutoff)
<1>1. /\ DOMAIN place = all /\ place \in [all -> 0 .. 4] /\ all \in SUBSET AnyProbe
      /\ \A p, q \in all : p.at < q.at => place[p] <= place[q]
  BY DEF IsPlace, ByAge
<1>2. /\ DOMAIN new = all
      /\ \A p \in all : new[p] = IF place[p] = n /\ key[p] < cutoff THEN n - 1 ELSE place[p]
  BY <1>1 DEF MovedOn
<1>3. \A p \in all : new[p] \in 0 .. 4 /\ place[p] \in 0 .. 4
  BY <1>1, <1>2
<1>4. new \in [all -> 0 .. 4]
  <2>1. new = [p \in all |-> new[p]]
    BY <1>1 DEF MovedOn
  <2> QED
    BY <1>3, <2>1
<1>5. ASSUME NEW p \in all, NEW q \in all, p.at < q.at PROVE new[p] <= new[q]
  <2>1. place[p] <= place[q] /\ place[p] \in 0 .. 4 /\ place[q] \in 0 .. 4
    BY <1>1, <1>3, <1>5
  <2>2. CASE ~(place[q] = n /\ key[q] < cutoff)
    <3>1. new[q] = place[q] /\ (new[p] = place[p] \/ (place[p] = n /\ new[p] = n - 1))
      BY <1>2, <2>2
    <3> QED
      BY <2>1, <3>1
  <2>3. CASE place[q] = n /\ key[q] < cutoff
    <3>1. new[q] = n - 1
      BY <1>2, <2>3
    <3>2. CASE place[p] = n
      <4>1. p \in AnyProbe /\ q \in AnyProbe /\ p.at <= q.at /\ key[p] \in Nat /\ key[q] \in Nat
        BY <1>1, <1>5 DEF AnyProbe, IsKey
      <4>2. key[p] <= key[q]
        BY <4>1 DEF IsKey
      <4>3. key[p] < cutoff
        BY <2>3, <4>1, <4>2
      <4>4. new[p] = n - 1
        BY <1>2, <3>2, <4>3
      <4> QED
        BY <3>1, <4>4
    <3>3. CASE place[p] # n
      <4>1. new[p] = place[p]
        BY <1>2, <3>3
      <4> QED
        BY <2>1, <2>3, <3>1, <3>3, <4>1
    <3> QED
      BY <3>2, <3>3
  <2> QED
    BY <2>2, <2>3
<1>6. IsPlace(new, all)
  BY <1>1, <1>2, <1>4, <1>5 DEF IsPlace, ByAge
<1>7. n - 1 # n
  OBVIOUS
<1>8. At(new, n) = {p \in At(place, n) : ~(key[p] < cutoff)}
  BY <1>1, <1>2, <1>7 DEF At
<1>9. At(new, n - 1) = At(place, n - 1) \cup {p \in At(place, n) : key[p] < cutoff}
  BY <1>1, <1>2, <1>7 DEF At
<1>10. \A m \in 0 .. 4 \ {n, n - 1} : At(new, m) = At(place, m)
  BY <1>1, <1>2 DEF At
<1>11. \A p \in all : new[p] = place[p] \/ (place[p] = n /\ new[p] = n - 1 /\ key[p] < cutoff)
  BY <1>2
<1> QED
  BY <1>6, <1>8, <1>9, <1>10, <1>11 DEF Moves

\* Probes in different places are different ones, and finitely many in each.
LEMMA Apart ==
    ASSUME NEW all, NEW place, IsPlace(place, all), NEW bound, Finite(all, bound)
    PROVE  /\ \A m, n \in 0 .. 4 : m # n => At(place, m) \cap At(place, n) = {}
           /\ \A n \in 0 .. 4 : Finite(At(place, n), bound) /\ At(place, n) \in SUBSET all
<1>1. \A n \in 0 .. 4 : At(place, n) \in SUBSET all
  BY DEF At, IsPlace
<1>2. \A n \in 0 .. 4 : Finite(At(place, n), bound)
  BY <1>1, FinitePart
<1> QED
  BY <1>1, <1>2 DEF At

-----------------------------------------------------------------------------

\* Compaction does not change the tables that probes are counted from.
LEMMA CompactHolds ==
    ASSUME NEW t, NEW place, Holds(t, place), NEW from
    PROVE  Holds(Statement(1, t, from), place)
<1>1. ASSUME NEW runs PROVE Holds([t EXCEPT !.runs = runs], place)
  BY DEF Holds, Tables
<1>2. CASE policy[LevelOf(1)] = Forever
  BY <1>2 DEF Statement
<1>3. CASE policy[LevelOf(1)] # Forever
  <2>1. PICK c : c = from - policy[LevelOf(1)]
    OBVIOUS
  <2>2. Statement(1, t, from) = Execute(1, t, c)
    BY <1>3, <2>1 DEF Statement
  <2>3. Execute(1, t, c) = CompactRawOutcomeRuns(t, c)
    BY DEF Execute
  <2>4. CompactRawOutcomeRuns(t, c) = [t EXCEPT !.runs = OutcomeRuns(t.runs, Older(t.raw, c))]
    BY DEF CompactRawOutcomeRuns
  <2> QED
    BY <1>1, <2>2, <2>3, <2>4
<1> QED
  BY <1>2, <1>3

\* What the levels of the statements are.
LEMMA Levels4 ==
    /\ \A k \in 1 .. 3 : LevelOf(k) = "raw"
    /\ LevelOf(4) = "minute" /\ LevelOf(5) = "minute"
    /\ LevelOf(6) = "hour" /\ LevelOf(7) = "hour"
    /\ LevelOf(8) = "day" /\ LevelOf(9) = "day"
BY DEF LevelOf

\* The age that the configuration in use gives a level.
LEMMA RetentionIs ==
    ASSUME policy \in Policies, NEW l \in Levels, policy[l] # Forever
    PROVE  policy[l] \in Nat \ {0}
BY RollupsAssumption DEF Retention

\* Raw results are summed up by the minute; they are still there.
LEMMA RollupRawIs ==
    ASSUME NEW bound \in Nat, NEW all, Finite(all, bound), NEW place, IsPlace(place, all),
           NEW t, Holds(t, place), NEW cutoff \in Int,
           NEW new, new = MovedOn(place, 4, AtOf, cutoff),
           NEW u, u = RollupRaw(t, cutoff)
    PROVE  /\ DOMAIN u = Tables
           /\ u.raw = At(place, 4) /\ {p \in u.raw : ~(p.at < cutoff)} = At(new, 4)
           /\ u.minute = Rows(At(new, 3), MinuteOf)
           /\ u.hour = Rows(At(new, 2), HourOf)
           /\ u.day = Rows(At(new, 1), DayOf)
<1>1. /\ IsPlace(new, all)
      /\ At(new, 4) = {p \in At(place, 4) : ~(AtOf[p] < cutoff)}
      /\ At(new, 3) = At(place, 3) \cup {p \in At(place, 4) : AtOf[p] < cutoff}
      /\ At(new, 2) = At(place, 2) /\ At(new, 1) = At(place, 1)
  <2>1. PICK n \in 1 .. 4 : n = 4
    OBVIOUS
  <2>2. new = MovedOn(place, n, AtOf, cutoff)
    BY <2>1
  <2>3. /\ IsPlace(new, all)
        /\ At(new, n) = {p \in At(place, n) : ~(AtOf[p] < cutoff)}
        /\ At(new, n - 1) = At(place, n - 1) \cup {p \in At(place, n) : AtOf[p] < cutoff}
        /\ \A m \in 0 .. 4 \ {n, n - 1} : At(new, m) = At(place, m)
    <3>1. Moves(new, place, all, n, AtOf, cutoff)
      BY <2>2, AtIsKey, MovedOnMoves
    <3> QED
      BY <3>1 DEF Moves
  <2>4. n - 1 = 3 /\ 2 \in 0 .. 4 \ {n, n - 1} /\ 1 \in 0 .. 4 \ {n, n - 1}
    BY <2>1
  <2> QED
    BY <2>1, <2>3, <2>4
<1>2. /\ At(place, 4) \in SUBSET AnyProbe
      /\ At(place, 3) \cap At(place, 4) = {}
      /\ Finite(At(place, 3), bound) /\ Finite(At(place, 4), bound)
  <2>1. PICK m \in 0 .. 4, n \in 0 .. 4 : m = 3 /\ n = 4 /\ m # n
    OBVIOUS
  <2>2. At(place, m) \cap At(place, n) = {} /\ Finite(At(place, m), bound) /\ Finite(At(place, n), bound)
    BY <2>1, Apart
  <2> QED
    BY <2>1, <2>2 DEF Finite
<1>3. PICK old : old = Older(t.raw, cutoff)
  OBVIOUS
<1>4. old = {p \in At(place, 4) : AtOf[p] < cutoff} /\ old \in SUBSET AnyProbe
  BY <1>2, <1>3 DEF Holds, Older, AtOf
<1>5. /\ At(new, 3) = At(place, 3) \cup old /\ Finite(old, bound) /\ At(place, 3) \cap old = {}
  BY <1>1, <1>2, <1>4, FinitePart
<1>6. PICK rows : rows = [s \in {Truncated(p.at, Minute) : p \in old} |->
                            Summary({p \in old : Truncated(p.at, Minute) = s})]
  OBVIOUS
<1>7. rows = Rows(old, MinuteOf)
  <2>1. \A p \in old : MinuteOf[p] = Truncated(p.at, Minute)
    BY <1>4 DEF MinuteOf
  <2>2. {Truncated(p.at, Minute) : p \in old} = {MinuteOf[p] : p \in old}
    BY <2>1
  <2>3. \A s : {p \in old : Truncated(p.at, Minute) = s} = {p \in old : MinuteOf[p] = s}
    BY <2>1
  <2> QED
    BY <1>6, <2>2, <2>3, Zenon DEF Rows
<1>8. u = [t EXCEPT !.minute = Upsert(t.minute, rows)]
  BY <1>3, <1>6 DEF RollupRaw
<1>9. Upsert(t.minute, rows) = Rows(At(new, 3), MinuteOf)
  <2>1. t.minute = Rows(At(place, 3), MinuteOf)
    BY DEF Holds
  <2> QED
    BY <1>2, <1>5, <1>7, <2>1, UpsertRows
<1>10. /\ DOMAIN u = Tables /\ u.raw = t.raw /\ u.minute = Rows(At(new, 3), MinuteOf)
       /\ u.hour = t.hour /\ u.day = t.day
  BY <1>8, <1>9 DEF Holds, Tables
<1>11. {p \in At(place, 4) : ~(p.at < cutoff)} = At(new, 4)
  BY <1>1, <1>2 DEF AtOf
<1> QED
  BY <1>1, <1>10, <1>11 DEF Holds

-----------------------------------------------------------------------------
(* Statements *)

\* Rows of one level are rolled up to the next and deleted.
LEMMA RollupMoves ==
    ASSUME NEW bound \in Nat, NEW all, Finite(all, bound), NEW place, IsPlace(place, all),
           NEW n \in 1 .. 4, NEW k1, NEW k2, NEW width, IsKey(k1), RoundedFrom(k1, k2, width),
           NEW cutoff \in Int, NEW new, Moves(new, place, all, n, k1, cutoff)
    PROVE  /\ RollupStored(Rows(At(place, n), k1), Rows(At(place, n - 1), k2), width, cutoff)
                = Rows(At(new, n - 1), k2)
           /\ DeleteOlder(Rows(At(place, n), k1), cutoff) = Rows(At(new, n), k1)
<1>1. PICK A, B, old : /\ A = At(place, n) /\ B = At(place, n - 1)
                       /\ old = Oldest(A, k1, cutoff)
  OBVIOUS
<1>2. PICK m \in 0 .. 4 : m = n - 1 /\ m # n /\ n \in 0 .. 4
  OBVIOUS
<1>3. A \cap B = {} /\ Finite(A, bound) /\ Finite(B, bound)
  BY <1>1, <1>2, Apart
<1>4. /\ At(new, n - 1) = B \cup old
      /\ At(new, n) = {p \in At(place, n) : ~(k1[p] < cutoff)}
  BY <1>1 DEF Moves, Oldest
<1>5. RollupStored(Rows(A, k1), Rows(B, k2), width, cutoff) = Rows(B \cup old, k2)
  BY <1>1, <1>3, RollupOfRows
<1>6. DeleteOlder(Rows(At(place, n), k1), cutoff) = Rows(At(new, n), k1)
  BY <1>4, DeleteRows
<1> QED
  BY <1>1, <1>4, <1>5, <1>6

\* The places of all probes: forgotten are only those that every configuration has old enough.
Places(place) ==
    /\ IsPlace(place, probes)
    /\ \A p \in probes : place[p] = 0 => p \notin Kept(Day - 1)

\* What a statement of a prune that was begun at moment from finds.
Ready(from) ==
    /\ policy \in Policies /\ time \in Nat /\ from \in Nat /\ from <= time
    /\ Finite(probes, time)

\* Unless its level is kept for ever, a statement has a cutoff.
LEMMA Cutoff ==
    ASSUME NEW from, Ready(from), NEW k, NEW l \in Levels, LevelOf(k) = l, policy[l] # Forever
    PROVE  /\ from - policy[l] \in Int
           /\ \A t : Statement(k, t, from) = Execute(k, t, from - policy[l])
<1>1. policy[l] \in Nat \ {0} /\ from \in Nat
  BY RetentionIs DEF Ready
<1>2. from - policy[l] \in Int
  BY <1>1
<1>3. ASSUME NEW t PROVE Statement(k, t, from) = Execute(k, t, from - policy[l])
  BY DEF Statement
<1> QED
  BY <1>2, <1>3

\* A statement about a level that is kept for ever changes nothing.
LEMMA NoCutoff ==
    ASSUME NEW from, NEW k, NEW l, LevelOf(k) = l, policy[l] = Forever
    PROVE  \A t : Statement(k, t, from) = t
BY DEF Statement

\* A move to a place other than 0 forgets nothing.
LEMMA MoveForgetsNone ==
    ASSUME NEW place, Places(place), NEW n \in 2 .. 4, NEW key, NEW cutoff,
           NEW new, Moves(new, place, probes, n, key, cutoff)
    PROVE  Places(new)
<1>1. IsPlace(new, probes)
  BY DEF Moves
<1>2. \A p \in probes : new[p] = place[p] \/ new[p] = n - 1
  BY DEF Moves
<1>3. n - 1 # 0
  OBVIOUS
<1>4. \A p \in probes : new[p] = 0 => place[p] = 0
  BY <1>2, <1>3
<1>5. \A p \in probes : new[p] = 0 => p \notin Kept(Day - 1)
  BY <1>4, Zenon DEF Places
<1> QED
  BY <1>1, <1>5 DEF Places

\* Statements 2 and 3 move raw results to the rows of minutes.
LEMMA RawMoves ==
    ASSUME NEW from, Ready(from), NEW place, Places(place), NEW t, Holds(t, place),
           NEW u, u = Statement(2, t, from)
    PROVE  \E new : Places(new) /\ Holds(Statement(3, u, from), new)
<1>1. CASE policy["raw"] = Forever
  <2>1. u = t /\ Statement(3, u, from) = u
    BY <1>1, Levels4, NoCutoff
  <2> QED
    BY <2>1
<1>2. CASE policy["raw"] # Forever
  <2>1. PICK c \in Int : /\ u = Execute(2, t, c)
                         /\ Statement(3, u, from) = Execute(3, u, c)
    <3>1. /\ from - policy["raw"] \in Int
          /\ Statement(2, t, from) = Execute(2, t, from - policy["raw"])
          /\ Statement(3, u, from) = Execute(3, u, from - policy["raw"])
      BY <1>2, Levels4, Cutoff DEF Levels
    <3> QED
      BY <3>1
  <2>2. u = RollupRaw(t, c)
    BY <2>1 DEF Execute
  <2>3. PICK w : w = Statement(3, u, from) /\ w = [u EXCEPT !.raw = u.raw \ Older(u.raw, c)]
    BY <2>1 DEF Execute
  <2>4. PICK new : new = MovedOn(place, 4, AtOf, c)
    OBVIOUS
  <2>5. Finite(probes, time) /\ time \in Nat /\ IsPlace(place, probes)
    BY DEF Ready, Places
  <2>6. /\ DOMAIN u = Tables
        /\ u.raw = At(place, 4) /\ {p \in u.raw : ~(p.at < c)} = At(new, 4)
        /\ u.minute = Rows(At(new, 3), MinuteOf)
        /\ u.hour = Rows(At(new, 2), HourOf)
        /\ u.day = Rows(At(new, 1), DayOf)
    BY <2>2, <2>4, <2>5, RollupRawIs
  <2>7. u.raw \ Older(u.raw, c) = At(new, 4)
    BY <2>6 DEF Older
  <2>8. Holds(w, new)
    BY <2>3, <2>6, <2>7 DEF Holds, Tables
  <2>9. Places(new)
    <3>1. PICK n \in 1 .. 4 : n = 4 /\ n \in 2 .. 4
      OBVIOUS
    <3>2. Moves(new, place, probes, n, AtOf, c)
      BY <2>4, <2>5, <3>1, AtIsKey, MovedOnMoves
    <3> QED
      BY <3>1, <3>2, MoveForgetsNone
  <2> QED
    BY <2>3, <2>8, <2>9
<1> QED
  BY <1>1, <1>2

\* Statements 4 and 5 move rows of minutes to those of hours.
LEMMA MinutesMove ==
    ASSUME NEW from, Ready(from), NEW place, Places(place), NEW t, Holds(t, place),
           NEW u, u = Statement(4, t, from)
    PROVE  \E new : Places(new) /\ Holds(Statement(5, u, from), new)
<1>1. CASE policy["minute"] = Forever
  <2>1. u = t /\ Statement(5, u, from) = u
    BY <1>1, Levels4, NoCutoff
  <2> QED
    BY <2>1
<1>2. CASE policy["minute"] # Forever
  <2>1. PICK c \in Int : /\ u = Execute(4, t, c)
                         /\ Statement(5, u, from) = Execute(5, u, c)
    <3>1. /\ from - policy["minute"] \in Int
          /\ Statement(4, t, from) = Execute(4, t, from - policy["minute"])
          /\ Statement(5, u, from) = Execute(5, u, from - policy["minute"])
      BY <1>2, Levels4, Cutoff DEF Levels
    <3> QED
      BY <3>1
  <2>2. u = [t EXCEPT !.hour = RollupStored(t.minute, t.hour, Hour, c)]
    BY <2>1 DEF Execute
  <2>3. PICK w : w = Statement(5, u, from) /\ w = [u EXCEPT !.minute = DeleteOlder(u.minute, c)]
    BY <2>1 DEF Execute
  <2>4. PICK n \in 1 .. 4 : n = 3
    OBVIOUS
  <2>5. PICK new : new = MovedOn(place, n, MinuteOf, c)
    OBVIOUS
  <2>6. Finite(probes, time) /\ time \in Nat /\ IsPlace(place, probes)
    BY DEF Ready, Places
  <2>7. Moves(new, place, probes, n, MinuteOf, c)
    BY <2>5, <2>6, AllAreKeys, MovedOnMoves
  <2>8. /\ RollupStored(Rows(At(place, n), MinuteOf), Rows(At(place, n - 1), HourOf), Hour, c)
              = Rows(At(new, n - 1), HourOf)
        /\ DeleteOlder(Rows(At(place, n), MinuteOf), c) = Rows(At(new, n), MinuteOf)
    <3>1. RoundedFrom(MinuteOf, HourOf, Hour)
      BY DEF RoundedFrom, HourOf
    <3> QED
      BY <2>6, <2>7, <3>1, AllAreKeys, RollupMoves
  <2>9. At(new, 4) = At(place, 4) /\ At(new, 1) = At(place, 1)
    <3>1. 4 \in 0 .. 4 \ {n, n - 1} /\ 1 \in 0 .. 4 \ {n, n - 1}
      BY <2>4
    <3> QED
      BY <2>7, <3>1 DEF Moves
  <2>10. /\ RollupStored(t.minute, t.hour, Hour, c) = Rows(At(new, 2), HourOf)
         /\ DeleteOlder(t.minute, c) = Rows(At(new, 3), MinuteOf)
    <3>1. n - 1 = 2 /\ n = 3
      BY <2>4
    <3> QED
      BY <2>8, <3>1 DEF Holds
  <2>11. Holds(w, new)
    BY <2>2, <2>3, <2>9, <2>10 DEF Holds, Tables
  <2>12. Places(new)
    BY <2>4, <2>7, MoveForgetsNone
  <2> QED
    BY <2>3, <2>11, <2>12
<1> QED
  BY <1>1, <1>2

\* Statements 6 and 7 move rows of hours to those of days.
LEMMA HoursMove ==
    ASSUME NEW from, Ready(from), NEW place, Places(place), NEW t, Holds(t, place),
           NEW u, u = Statement(6, t, from)
    PROVE  \E new : Places(new) /\ Holds(Statement(7, u, from), new)
<1>1. CASE policy["hour"] = Forever
  <2>1. u = t /\ Statement(7, u, from) = u
    BY <1>1, Levels4, NoCutoff
  <2> QED
    BY <2>1
<1>2. CASE policy["hour"] # Forever
  <2>1. PICK c \in Int : /\ u = Execute(6, t, c)
                         /\ Statement(7, u, from) = Execute(7, u, c)
    <3>1. /\ from - policy["hour"] \in Int
          /\ Statement(6, t, from) = Execute(6, t, from - policy["hour"])
          /\ Statement(7, u, from) = Execute(7, u, from - policy["hour"])
      BY <1>2, Levels4, Cutoff DEF Levels
    <3> QED
      BY <3>1
  <2>2. u = [t EXCEPT !.day = RollupStored(t.hour, t.day, Day, c)]
    BY <2>1 DEF Execute
  <2>3. PICK w : w = Statement(7, u, from) /\ w = [u EXCEPT !.hour = DeleteOlder(u.hour, c)]
    BY <2>1 DEF Execute
  <2>4. PICK n \in 1 .. 4 : n = 2
    OBVIOUS
  <2>5. PICK new : new = MovedOn(place, n, HourOf, c)
    OBVIOUS
  <2>6. Finite(probes, time) /\ time \in Nat /\ IsPlace(place, probes)
    BY DEF Ready, Places
  <2>7. Moves(new, place, probes, n, HourOf, c)
    BY <2>5, <2>6, AllAreKeys, MovedOnMoves
  <2>8. /\ RollupStored(Rows(At(place, n), HourOf), Rows(At(place, n - 1), DayOf), Day, c)
              = Rows(At(new, n - 1), DayOf)
        /\ DeleteOlder(Rows(At(place, n), HourOf), c) = Rows(At(new, n), HourOf)
    <3>1. RoundedFrom(HourOf, DayOf, Day)
      BY DEF RoundedFrom, DayOf
    <3> QED
      BY <2>6, <2>7, <3>1, AllAreKeys, RollupMoves
  <2>9. At(new, 4) = At(place, 4) /\ At(new, 3) = At(place, 3)
    <3>1. 4 \in 0 .. 4 \ {n, n - 1} /\ 3 \in 0 .. 4 \ {n, n - 1}
      BY <2>4
    <3> QED
      BY <2>7, <3>1 DEF Moves
  <2>10. /\ RollupStored(t.hour, t.day, Day, c) = Rows(At(new, 1), DayOf)
         /\ DeleteOlder(t.hour, c) = Rows(At(new, 2), HourOf)
    <3>1. n - 1 = 1 /\ n = 2
      BY <2>4
    <3> QED
      BY <2>8, <3>1 DEF Holds
  <2>11. Holds(w, new)
    BY <2>2, <2>3, <2>9, <2>10 DEF Holds, Tables
  <2>12. Places(new)
    BY <2>4, <2>7, MoveForgetsNone
  <2> QED
    BY <2>3, <2>11, <2>12
<1> QED
  BY <1>1, <1>2

\* Statement 8 forgets probes that are old enough under the configuration in use.
LEMMA DaysMove ==
    ASSUME NEW from, Ready(from), NEW place, Places(place), NEW t, Holds(t, place)
    PROVE  \E new : Places(new) /\ Holds(Statement(8, t, from), new)
<1>1. CASE policy["day"] = Forever
  <2>1. Statement(8, t, from) = t
    BY <1>1, Levels4, NoCutoff
  <2> QED
    BY <2>1
<1>2. CASE policy["day"] # Forever
  <2>1. PICK c \in Int : c = from - policy["day"] /\ Statement(8, t, from) = Execute(8, t, c)
    <3>1. /\ from - policy["day"] \in Int
          /\ Statement(8, t, from) = Execute(8, t, from - policy["day"])
      BY <1>2, Levels4, Cutoff DEF Levels
    <3> QED
      BY <3>1
  <2>2. PICK w : w = Statement(8, t, from) /\ w = [t EXCEPT !.day = DeleteOlder(t.day, c)]
    BY <2>1 DEF Execute
  <2>3. PICK n \in 1 .. 4 : n = 1
    OBVIOUS
  <2>4. PICK new : new = MovedOn(place, n, DayOf, c)
    OBVIOUS
  <2>5. Finite(probes, time) /\ time \in Nat /\ IsPlace(place, probes)
    BY DEF Ready, Places
  <2>6. Moves(new, place, probes, n, DayOf, c)
    BY <2>4, <2>5, AllAreKeys, MovedOnMoves
  <2>7. DeleteOlder(Rows(At(place, n), DayOf), c) = Rows(At(new, n), DayOf)
    <3>1. At(new, n) = {p \in At(place, n) : ~(DayOf[p] < c)}
      BY <2>6 DEF Moves
    <3> QED
      BY <3>1, DeleteRows
  <2>8. At(new, 4) = At(place, 4) /\ At(new, 3) = At(place, 3) /\ At(new, 2) = At(place, 2)
    <3>1. 4 \in 0 .. 4 \ {n, n - 1} /\ 3 \in 0 .. 4 \ {n, n - 1} /\ 2 \in 0 .. 4 \ {n, n - 1}
      BY <2>3
    <3> QED
      BY <2>6, <3>1 DEF Moves
  <2>9. DeleteOlder(t.day, c) = Rows(At(new, 1), DayOf)
    BY <2>3, <2>7 DEF Holds
  <2>10. Holds(w, new)
    BY <2>2, <2>8, <2>9 DEF Holds, Tables
  <2>11. ASSUME NEW p \in probes, new[p] = 0 PROVE p \notin Kept(Day - 1)
    <3>1. CASE new[p] = place[p]
      BY <2>11, <3>1, Zenon DEF Places
    <3>2. CASE DayOf[p] < c
      <4>1. p \in AnyProbe
        BY <2>5 DEF IsPlace
      <4>2. p.at < DayOf[p] + Day /\ p.at \in Nat /\ DayOf[p] \in Nat /\ Day \in Nat
        BY <4>1, AllAreKeys, Widths DEF IsBucket, IsKey, AnyProbe
      <4>3. policy["day"] \in Nat /\ from \in Nat /\ time \in Nat /\ from <= time /\ policy \in Policies
        BY <1>2, RetentionIs DEF Ready, Levels
      <4>4. ~(p.at >= time - policy["day"] + (Day - 1))
        BY <2>1, <3>2, <4>2, <4>3
      <4> QED
        BY <1>2, <4>3, <4>4 DEF Kept
    <3> QED
      BY <2>6, <3>1, <3>2 DEF Moves
  <2>12. Places(new)
    BY <2>6, <2>11 DEF Places, Moves
  <2> QED
    BY <2>2, <2>10, <2>12
<1> QED
  BY <1>1, <1>2

\* Statement 9 deletes runs, which nothing is counted from.
LEMMA RunsGo ==
    ASSUME NEW t, NEW place, Holds(t, place), NEW from
    PROVE  Holds(Statement(9, t, from), place)
<1>1. ASSUME NEW runs PROVE Holds([t EXCEPT !.runs = runs], place)
  BY DEF Holds, Tables
<1>2. CASE policy["day"] = Forever
  <2>1. Statement(9, t, from) = t
    BY <1>2, Levels4, NoCutoff
  <2> QED
    BY <2>1
<1>3. CASE policy["day"] # Forever
  <2>1. PICK c : c = from - policy["day"]
    OBVIOUS
  <2>2. Statement(9, t, from) = Execute(9, t, c)
    BY <1>3, <2>1, Levels4 DEF Statement
  <2>3. Execute(9, t, c) = [t EXCEPT !.runs = RunsFrom(t.runs, c)]
    BY DEF Execute
  <2>4. PICK runs : runs = RunsFrom(t.runs, c)
    OBVIOUS
  <2> QED
    BY <1>1, <2>2, <2>3, <2>4
<1> QED
  BY <1>2, <1>3

-----------------------------------------------------------------------------
(* Prunes *)

\* h runs the first n of the statements that begin with first.
Folds(h, first, n, t, from) ==
    \A s \in SUBSET (1 .. n) :
        h[s] = IF s = {} THEN t ELSE Statement(first + Max(s) - 1, h[s \ {Max(s)}], from)

\* There is such a function.
LEMMA RunFoldExists ==
    ASSUME NEW n \in Nat, NEW first, NEW t, NEW from
    PROVE  \E h : DOMAIN h = SUBSET (1 .. n) /\ Folds(h, first, n, t, from)
<1> DEFINE good == {m \in 0 .. n : \E h : DOMAIN h = SUBSET (1 .. m) /\ Folds(h, first, m, t, from)}
<1>1. 0 \in good
  <2> DEFINE h == [s \in SUBSET (1 .. 0) |-> t]
  <2>1. \A s \in SUBSET (1 .. 0) : s = {}
    OBVIOUS
  <2>2. DOMAIN h = SUBSET (1 .. 0) /\ \A s \in SUBSET (1 .. 0) : h[s] = t
    OBVIOUS
  <2> HIDE DEF h
  <2>3. Folds(h, first, 0, t, from)
    BY <2>1, <2>2 DEF Folds
  <2> QED
    BY <2>2, <2>3
<1>2. ASSUME NEW m \in 0 .. n - 1, m \in good PROVE m + 1 \in good
  <2>1. PICK f : DOMAIN f = SUBSET (1 .. m) /\ Folds(f, first, m, t, from)
    BY <1>2
  <2>2. m \in Nat /\ m + 1 \in 0 .. n
    OBVIOUS
  <2> HIDE DEF good
  <2> DEFINE g == [s \in SUBSET (1 .. m + 1) |->
                     IF m + 1 \in s THEN Statement(first + (m + 1) - 1, f[s \ {m + 1}], from) ELSE f[s]]
  <2>3. ASSUME NEW s \in SUBSET (1 .. m + 1)
        PROVE  g[s] = IF s = {} THEN t
                      ELSE Statement(first + Max(s) - 1, g[s \ {Max(s)}], from)
    <3>1. CASE m + 1 \in s
      <4>1. Max(s) = m + 1
        <5> HIDE DEF g
        <5>1. m + 1 \in Nat /\ s # {}
          BY <2>2, <3>1
        <5>2. Max(s) \in s /\ m + 1 <= Max(s)
          BY <3>1, <5>1, MaxOfPlaces
        <5>3. Max(s) \in 1 .. m + 1
          BY <5>2
        <5> QED
          BY <2>2, <5>2, <5>3
      <4>2. s \ {m + 1} \in SUBSET (1 .. m + 1) /\ m + 1 \notin s \ {m + 1} /\ s # {}
        BY <3>1
      <4>3. /\ g[s \ {m + 1}] = f[s \ {m + 1}]
            /\ g[s] = Statement(first + (m + 1) - 1, f[s \ {m + 1}], from)
        BY <3>1, <4>2
      <4> HIDE DEF g
      <4> QED
        BY <4>1, <4>2, <4>3
    <3>2. CASE m + 1 \notin s
      <4>1. s \in SUBSET (1 .. m) /\ g[s] = f[s]
        BY <3>2
      <4>2. CASE s = {}
        BY <2>1, <4>1, <4>2 DEF Folds
      <4>3. CASE s # {}
        <5>1. m + 1 \notin s \ {Max(s)} /\ s \ {Max(s)} \in SUBSET (1 .. m + 1)
          BY <3>2
        <5>2. g[s \ {Max(s)}] = f[s \ {Max(s)}]
          BY <5>1
        <5>3. f[s] = Statement(first + Max(s) - 1, f[s \ {Max(s)}], from)
          BY <2>1, <4>1, <4>3 DEF Folds
        <5> HIDE DEF g
        <5> QED
          BY <4>1, <4>3, <5>2, <5>3
      <4> QED
        BY <4>2, <4>3
    <3> QED
      BY <3>1, <3>2
  <2>4. DOMAIN g = SUBSET (1 .. m + 1)
    OBVIOUS
  <2> HIDE DEF g
  <2>5. Folds(g, first, m + 1, t, from)
    BY <2>3 DEF Folds
  <2> QED
    BY <2>2, <2>4, <2>5 DEF good
<1> HIDE DEF good
<1>3. 0 .. n \subseteq good
  BY <1>1, <1>2, Counting
<1>4. n \in good
  BY <1>3
<1> QED
  BY <1>4 DEF good

\* What a run of statements computes, one by one.
LEMMA RunFold ==
    ASSUME NEW n \in Nat, NEW first \in Nat, NEW last, last = first + n - 1, NEW t, NEW from
    PROVE  \E f : /\ f[0] = t
                  /\ Run(first, last, t, from) = f[n]
                  /\ \A k \in 1 .. n : f[k] = Statement(first + k - 1, f[k - 1], from)
<1> DEFINE seq == [k \in 1 .. last - first + 1 |-> first + k - 1]
           f == CHOOSE h : h = [s \in SUBSET DOMAIN seq |->
                   IF s = {} THEN t ELSE Statement(seq[Max(s)], h[s \ {Max(s)}], from)]
<1>1. last - first + 1 = n /\ DOMAIN seq = 1 .. n
  OBVIOUS
<1>2. \A k \in 1 .. n : seq[k] = first + k - 1
  BY <1>1
<1>3. Run(first, last, t, from) = f[1 .. n]
  <2>1. Run(first, last, t, from) = f[DOMAIN seq]
    BY DEF Run, FoldLeft, MapThenFoldSet
  <2> HIDE DEF f, seq
  <2> QED
    BY <1>1, <2>1
<1> HIDE DEF seq
<1>4. Folds(f, first, n, t, from)
  <2>1. PICK h : DOMAIN h = SUBSET (1 .. n) /\ Folds(h, first, n, t, from)
    BY RunFoldExists
  <2> DEFINE p == [s \in SUBSET (1 .. n) |-> h[s]]
             e(g, s) == IF s = {} THEN t ELSE Statement(seq[Max(s)], g[s \ {Max(s)}], from)
  <2>2. ASSUME NEW s \in SUBSET (1 .. n) PROVE p[s] = e(p, s)
    <3>1. CASE s = {}
      BY <2>1, <3>1 DEF Folds
    <3>2. CASE s # {}
      <4>1. Max(s) \in 1 .. n /\ s \ {Max(s)} \in SUBSET (1 .. n)
        BY <3>2, MaxOfPlaces
      <4>2. p[s \ {Max(s)}] = h[s \ {Max(s)}] /\ p[s] = h[s]
        BY <4>1
      <4>3. h[s] = Statement(first + Max(s) - 1, h[s \ {Max(s)}], from)
        BY <2>1, <3>2 DEF Folds
      <4> HIDE DEF p
      <4> QED
        BY <1>2, <3>2, <4>1, <4>2, <4>3
    <3> QED
      BY <3>1, <3>2
  <2>3. p = [s \in SUBSET (1 .. n) |-> p[s]]
    OBVIOUS
  <2> HIDE DEF p
  <2>4. p = [s \in SUBSET (1 .. n) |-> e(p, s)]
    BY <2>2, <2>3
  <2>5. p = [s \in SUBSET DOMAIN seq |-> e(p, s)]
    BY <1>1, <2>4
  <2>6. f = [s \in SUBSET DOMAIN seq |-> e(f, s)]
    BY <2>5, Zenon
  <2> HIDE DEF f
  <2>7. ASSUME NEW s \in SUBSET (1 .. n) PROVE f[s] = e(f, s)
    BY <1>1, <2>6
  <2>8. ASSUME NEW s \in SUBSET (1 .. n), s # {}
        PROVE  f[s] = Statement(first + Max(s) - 1, f[s \ {Max(s)}], from)
    <3>1. Max(s) \in 1 .. n
      BY <2>8, MaxOfPlaces
    <3> QED
      BY <1>2, <2>7, <2>8, <3>1
  <2> QED
    BY <2>7, <2>8 DEF Folds
<1> HIDE DEF f
<1> DEFINE g == [k \in 0 .. n |-> f[1 .. k]]
<1>5. f[1 .. 0] = t
  <2>1. 1 .. 0 = {} /\ {} \in SUBSET (1 .. n)
    OBVIOUS
  <2> QED
    BY <1>4, <2>1 DEF Folds
<1>6. ASSUME NEW k \in 1 .. n PROVE f[1 .. k] = Statement(first + k - 1, f[1 .. k - 1], from)
  <2>1. /\ 1 .. k \in SUBSET (1 .. n) /\ 1 .. k # {}
        /\ Max(1 .. k) = k /\ (1 .. k) \ {k} = 1 .. k - 1
    BY Prefix
  <2> QED
    BY <1>4, <2>1 DEF Folds
<1>7. g[0] = f[1 .. 0] /\ g[n] = f[1 .. n]
  OBVIOUS
<1>8. ASSUME NEW k \in 1 .. n PROVE g[k] = Statement(first + k - 1, g[k - 1], from)
  <2>1. g[k] = f[1 .. k] /\ g[k - 1] = f[1 .. k - 1]
    OBVIOUS
  <2> HIDE DEF g
  <2> QED
    BY <1>6, <2>1
<1> HIDE DEF g
<1> QED
  BY <1>3, <1>5, <1>7, <1>8

\* The statements that use tables that no one else writes keep all that the invariant says.
LEMMA LastStatements ==
    ASSUME NEW from, Ready(from), NEW place, Places(place), NEW t, Holds(t, place)
    PROVE  \E new : Places(new) /\ Holds(Run(4, 9, t, from), new)
<1>1. PICK f : /\ f[0] = t /\ Run(4, 9, t, from) = f[6]
               /\ \A k \in 1 .. 6 : f[k] = Statement(4 + k - 1, f[k - 1], from)
  <2>1. 9 = 4 + 6 - 1
    OBVIOUS
  <2>2. PICK n \in Nat : n = 6
    OBVIOUS
  <2>3. PICK first \in Nat : first = 4
    OBVIOUS
  <2>4. PICK last : last = 9
    OBVIOUS
  <2>5. \E f : /\ f[0] = t
               /\ Run(first, last, t, from) = f[n]
               /\ \A k \in 1 .. n : f[k] = Statement(first + k - 1, f[k - 1], from)
    <3>1. last = first + n - 1
      BY <2>2, <2>3, <2>4
    <3> QED
      BY <3>1, RunFold
  <2> QED
    BY <2>2, <2>3, <2>4, <2>5
<1>2. /\ f[1] = Statement(4, t, from) /\ f[2] = Statement(5, f[1], from)
      /\ f[3] = Statement(6, f[2], from) /\ f[4] = Statement(7, f[3], from)
      /\ f[5] = Statement(8, f[4], from) /\ f[6] = Statement(9, f[5], from)
  BY <1>1
<1>3. PICK p1 : Places(p1) /\ Holds(f[2], p1)
  BY <1>2, MinutesMove
<1>4. PICK p2 : Places(p2) /\ Holds(f[4], p2)
  BY <1>2, <1>3, HoursMove
<1>5. PICK p3 : Places(p3) /\ Holds(f[5], p3)
  BY <1>2, <1>4, DaysMove
<1>6. Holds(f[6], p3)
  BY <1>2, <1>5, RunsGo
<1> QED
  BY <1>1, <1>5, <1>6

\* So does a whole prune.
LEMMA AllStatements ==
    ASSUME NEW from, Ready(from), NEW place, Places(place), NEW t, Holds(t, place)
    PROVE  \E new : Places(new) /\ Holds(RollupAndPrune(t, from), new)
<1>1. PICK f : /\ f[0] = t /\ RollupAndPrune(t, from) = f[9]
               /\ \A k \in 1 .. 9 : f[k] = Statement(1 + k - 1, f[k - 1], from)
  <2>1. PICK n \in Nat : n = 9
    OBVIOUS
  <2>2. PICK first \in Nat : first = 1
    OBVIOUS
  <2>3. \E f : /\ f[0] = t
               /\ Run(first, n, t, from) = f[n]
               /\ \A k \in 1 .. n : f[k] = Statement(first + k - 1, f[k - 1], from)
    <3>1. n = first + n - 1
      BY <2>1, <2>2
    <3> QED
      BY <3>1, RunFold
  <2> QED
    BY <2>1, <2>2, <2>3 DEF RollupAndPrune
<1>2. /\ f[1] = Statement(1, t, from) /\ f[2] = Statement(2, f[1], from)
      /\ f[3] = Statement(3, f[2], from) /\ f[4] = Statement(4, f[3], from)
      /\ f[5] = Statement(5, f[4], from) /\ f[6] = Statement(6, f[5], from)
      /\ f[7] = Statement(7, f[6], from) /\ f[8] = Statement(8, f[7], from)
      /\ f[9] = Statement(9, f[8], from)
  BY <1>1
<1>3. Holds(f[1], place)
  BY <1>2, CompactHolds
<1>4. PICK p0 : Places(p0) /\ Holds(f[3], p0)
  BY <1>2, <1>3, RawMoves
<1>5. PICK p1 : Places(p1) /\ Holds(f[5], p1)
  BY <1>2, <1>4, MinutesMove
<1>6. PICK p2 : Places(p2) /\ Holds(f[7], p2)
  BY <1>2, <1>5, HoursMove
<1>7. PICK p3 : Places(p3) /\ Holds(f[8], p3)
  BY <1>2, <1>6, DaysMove
<1>8. Holds(f[9], p3)
  BY <1>2, <1>7, RunsGo
<1> QED
  BY <1>1, <1>7, <1>8

-----------------------------------------------------------------------------
(* The invariant *)

\* The tables have every probe in a place.
Told(t) == \E place : Places(place) /\ Holds(t, place)

\* What a prune works on, once the raw results it has summed up are gone.
Remaining == IF pruning.step = 3 THEN Statement(3, pruning.tables, pruning.from) ELSE pruning.tables

Pruning ==
    /\ DOMAIN pruning = {"step", "from", "tables"}
    /\ pruning.step \in 1 .. 4
    /\ pruning.from \in Nat /\ pruning.from <= time
    /\ Told(Remaining)

IInv ==
    /\ time \in 0 .. LastTime /\ backend \in Backends /\ policy \in Policies
    /\ probes \in SUBSET Probe /\ Finite(probes, time)
    /\ \A p, q \in probes : p.at = q.at => p = q
    /\ Told(tables)
    /\ pruning = Idle \/ Pruning

\* A state in which a prune may begin or go on.
LEMMA IsReady ==
    ASSUME IInv, NEW from \in Nat, from <= time
    PROVE  Ready(from)
BY DEF IInv, Ready

\* While no probe is stored and no time passes, what is told stays so.
LEMMA ToldStays ==
    ASSUME UNCHANGED <<time, probes>>, NEW t, Told(t)
    PROVE  Told(t)'
<1>1. PICK place : Places(place) /\ Holds(t, place)
  BY DEF Told
<1>2. Places(place)'
  BY <1>1 DEF Places, Kept
<1>3. Holds(t, place)'
  BY <1>1 DEF Holds
<1> QED
  BY <1>2, <1>3 DEF Told

\* Where the probes are when another has been stored.
WithNew(place, p) == [q \in DOMAIN place \cup {p} |-> IF q = p THEN 4 ELSE place[q]]

\* A stored probe is among the raw results.
LEMMA StoredHolds ==
    ASSUME NEW t, NEW place, Holds(t, place), NEW p, p \notin DOMAIN place,
           NEW u, u = [t EXCEPT !.raw = @ \cup {p}]
    PROVE  Holds(u, WithNew(place, p))
<1>1. At(WithNew(place, p), 4) = At(place, 4) \cup {p}
  BY DEF At, WithNew
<1>2. ASSUME NEW n \in 0 .. 3 PROVE At(WithNew(place, p), n) = At(place, n)
  BY DEF At, WithNew
<1>3. /\ At(WithNew(place, p), 3) = At(place, 3) /\ At(WithNew(place, p), 2) = At(place, 2)
      /\ At(WithNew(place, p), 1) = At(place, 1)
  BY <1>2
<1>4. /\ DOMAIN u = Tables /\ u.raw = t.raw \cup {p}
      /\ u.minute = t.minute /\ u.hour = t.hour /\ u.day = t.day
  BY DEF Holds, Tables
<1> QED
  BY <1>1, <1>3, <1>4 DEF Holds

\* The places of all probes after another one has been stored, which is younger.
LEMMA StoredPlaces ==
    ASSUME NEW place, Places(place), NEW p \in AnyProbe, \A q \in probes : q.at < p.at,
           probes \in SUBSET AnyProbe, time' = time, probes' = probes \cup {p}
    PROVE  Places(WithNew(place, p))'
<1>1. place \in [probes -> 0 .. 4] /\ ByAge(place) /\ DOMAIN place = probes
  BY DEF Places, IsPlace
<1>2. PICK new : new = WithNew(place, p)
  OBVIOUS
<1>3. p \notin probes
  BY DEF AnyProbe
<1>4. /\ DOMAIN new = probes' /\ new[p] = 4 /\ \A q \in probes : new[q] = place[q]
  BY <1>1, <1>2, <1>3 DEF WithNew
<1>5. new \in [probes' -> 0 .. 4]
  BY <1>1, <1>2, <1>4 DEF WithNew
<1>6. ByAge(new)
  <2>1. ASSUME NEW a \in DOMAIN new, NEW b \in DOMAIN new, a.at < b.at PROVE new[a] <= new[b]
    <3>1. CASE b = p
      <4>1. new[a] \in 0 .. 4
        BY <1>4, <1>5
      <4> QED
        BY <1>4, <3>1, <4>1
    <3>2. CASE a = p /\ b # p
      <4>1. b.at < p.at /\ b.at \in Nat /\ p.at \in Nat
        BY <1>4, <3>2 DEF AnyProbe
      <4> QED
        BY <2>1, <3>2, <4>1
    <3>3. CASE a # p /\ b # p
      <4>1. a \in probes /\ b \in probes
        BY <1>4, <3>3
      <4> QED
        BY <1>1, <1>4, <2>1, <4>1 DEF ByAge
    <3> QED
      BY <3>1, <3>2, <3>3
  <2> QED
    BY <2>1 DEF ByAge
<1>7. IsPlace(new, probes)'
  <2>1. probes' \in SUBSET AnyProbe
    OBVIOUS
  <2> QED
    BY <1>5, <1>6, <2>1 DEF IsPlace
<1>8. ASSUME NEW q \in probes', new[q] = 0 PROVE q \notin Kept(Day - 1)'
  <2>1. q \in probes /\ place[q] = 0
    BY <1>4, <1>8
  <2>2. q \notin Kept(Day - 1)
    BY <2>1 DEF Places
  <2> QED
    BY <2>1, <2>2 DEF Kept
<1>9. Places(new)'
  BY <1>7, <1>8 DEF Places
<1> QED
  BY <1>2, <1>9

\* A probe is stored in what tells of all others.
LEMMA StoredTold ==
    ASSUME NEW t, Told(t), NEW p \in AnyProbe, \A q \in probes : q.at < p.at,
           probes \in SUBSET AnyProbe, time' = time, probes' = probes \cup {p},
           NEW u, u = [t EXCEPT !.raw = @ \cup {p}]
    PROVE  Told(u)'
<1>1. PICK place : Places(place) /\ Holds(t, place)
  BY DEF Told
<1>2. PICK new : new = WithNew(place, p)
  OBVIOUS
<1>3. Places(new)'
  BY <1>1, <1>2, StoredPlaces
<1>4. p \notin DOMAIN place
  BY <1>1 DEF Places, IsPlace, AnyProbe
<1>5. Holds(u, new)
  BY <1>1, <1>2, <1>4, StoredHolds
<1> QED
  BY <1>3, <1>5 DEF Told

\* A probe in a table of raw results.
Stored(t, p) == [t EXCEPT !.raw = @ \cup {p}]

\* A statement that deletes raw results spares one that is stored meanwhile.
LEMMA YoungIsSpared ==
    ASSUME policy \in Policies, time \in Nat, NEW from \in Nat, from <= time,
           NEW p \in AnyProbe, p.at >= time - MaxLate, NEW t, DOMAIN t = Tables
    PROVE  Statement(3, Stored(t, p), from) = Stored(Statement(3, t, from), p)
<1> PICK w : w = Stored(t, p)
  OBVIOUS
<1> PICK u : u = Statement(3, t, from)
  OBVIOUS
<1>0. w = [t EXCEPT !.raw = @ \cup {p}] /\ Stored(u, p) = [u EXCEPT !.raw = @ \cup {p}]
  BY DEF Stored
<1>1. LevelOf(3) = "raw"
  BY Levels4
<1>2. CASE policy["raw"] = Forever
  <2>1. Statement(3, w, from) = w /\ u = t
    BY <1>1, <1>2 DEF Statement
  <2> QED
    BY <1>0, <2>1
<1>3. CASE policy["raw"] # Forever
  <2>1. policy["raw"] \in Nat /\ MaxLate < policy["raw"] /\ MaxLate \in Nat
    BY <1>3, RetentionIs, RollupsAssumption DEF Levels
  <2>2. PICK c \in Int : c = from - policy["raw"]
    BY <2>1
  <2>3. p.at \in Nat /\ ~(p.at < c)
    BY <2>1, <2>2 DEF AnyProbe
  <2>4. Statement(3, w, from) = Execute(3, w, c) /\ u = Execute(3, t, c)
    BY <1>1, <1>3, <2>2 DEF Statement
  <2>5. /\ Execute(3, w, c) = [w EXCEPT !.raw = w.raw \ Older(w.raw, c)]
        /\ Execute(3, t, c) = [t EXCEPT !.raw = t.raw \ Older(t.raw, c)]
    BY DEF Execute
  <2>6. w.raw = t.raw \cup {p}
    BY <1>0 DEF Tables
  <2>7. w.raw \ Older(w.raw, c) = (t.raw \ Older(t.raw, c)) \cup {p}
    BY <2>3, <2>6 DEF Older
  <2>8. Stored(u, p) = [t EXCEPT !.raw = (t.raw \ Older(t.raw, c)) \cup {p}]
    BY <1>0, <2>4, <2>5 DEF Tables
  <2>9. [w EXCEPT !.raw = w.raw \ Older(w.raw, c)] = [t EXCEPT !.raw = w.raw \ Older(w.raw, c)]
    BY <1>0
  <2> QED
    BY <1>0, <2>4, <2>5, <2>7, <2>8, <2>9
<1>4. Statement(3, w, from) = Stored(u, p)
  BY <1>2, <1>3
<1> QED
  BY <1>4

\* At first there is no probe to place.
LEMMA InitInv == RollupInit => IInv
<1> SUFFICES ASSUME RollupInit PROVE IInv
  OBVIOUS
<1>1. PICK place : place = [p \in {} |-> 0]
  OBVIOUS
<1>2. DOMAIN place = {} /\ place \in [{} -> 0 .. 4]
  BY <1>1
<1>3. Places(place)
  BY <1>2 DEF RollupInit, Places, IsPlace, ByAge
<1>4. \A n : At(place, n) = {}
  BY <1>2 DEF At
<1>5. \A key : Rows({}, key) = <<>>
  BY DEF Rows
<1>6. Holds(tables, place)
  <2>1. tables = Empty
    BY DEF RollupInit
  <2> QED
    BY <1>4, <1>5, <2>1 DEF Holds, Empty, Tables
<1>7. Finite(probes, time)
  BY FS_EmptySet DEF RollupInit, Finite
<1>8. time \in 0 .. LastTime
  BY RollupsAssumption DEF RollupInit
<1>9. Told(tables)
  BY <1>3, <1>6 DEF Told
<1>10. probes \in SUBSET Probe /\ \A p, q \in probes : p.at = q.at => p = q
  BY DEF RollupInit
<1> QED
  BY <1>7, <1>8, <1>9, <1>10 DEF RollupInit, IInv

\* As time passes, fewer probes have to be kept.
LEMMA ToldTicks ==
    ASSUME time \in Nat, policy \in Policies, time' = time + 1, probes' = probes,
           probes \in SUBSET AnyProbe, NEW t, Told(t)
    PROVE  Told(t)'
<1>1. PICK place : Places(place) /\ Holds(t, place)
  BY DEF Told
<1>2. ASSUME NEW p \in probes, p \in Kept(Day - 1)' PROVE p \in Kept(Day - 1)
  <2>1. ASSUME NEW c \in Policies, c["day"] # Forever PROVE p.at >= time - c["day"] + (Day - 1)
    <3>1. p.at >= time' - c["day"] + (Day - 1)
      BY <1>2, <2>1 DEF Kept
    <3>2. c["day"] \in Nat /\ Day \in Nat /\ p.at \in Nat
      BY <2>1, RollupsAssumption DEF Retention, Levels, AnyProbe
    <3> QED
      BY <3>1, <3>2
  <2> QED
    BY <2>1 DEF Kept
<1>3. Places(place)'
  BY <1>1, <1>2 DEF Places
<1>4. Holds(t, place)'
  BY <1>1 DEF Holds
<1> QED
  BY <1>3, <1>4 DEF Told

\* One probe more is finitely many.
LEMMA FiniteOne ==
    ASSUME NEW bound \in Nat, NEW S, Finite(S, bound), NEW p \in AnyProbe, p.at <= bound
    PROVE  Finite(S \cup {p}, bound)
<1>1. IsFiniteSet(S \cup {p})
  BY FS_AddElement DEF Finite
<1> QED
  BY <1>1 DEF Finite

\* Probes stay in the past.
LEMMA FiniteLater ==
    ASSUME NEW bound \in Nat, NEW S, Finite(S, bound)
    PROVE  Finite(S, bound + 1)
<1>1. ASSUME NEW p \in S PROVE p.at <= bound + 1
  <2>1. p.at \in Nat /\ p.at <= bound
    BY DEF Finite, AnyProbe
  <2> QED
    BY <2>1
<1> QED
  BY <1>1 DEF Finite

\* A prune that is under way is not the absence of one.
LEMMA NotIdle == Pruning => pruning # Idle
<1>1. ASSUME Pruning, pruning = Idle PROVE FALSE
  <2>1. pruning.step \in 1 .. 4 /\ Idle.step = -1
    BY <1>1 DEF Pruning, Idle, None
  <2> QED
    BY <1>1, <2>1
<1> QED
  BY <1>1

\* The parts of the invariant that a step leaves alone while no probe is stored and no
\* time passes.
LEMMA FrameInv ==
    ASSUME IInv, UNCHANGED <<time, probes>>, backend' \in Backends, policy' \in Policies,
           Told(tables)', (pruning = Idle \/ Pruning)'
    PROVE  IInv'
BY DEF IInv

\* Time passes, and nothing else.
LEMMA TickInv == IInv /\ TimePasses => IInv'
<1> SUFFICES ASSUME IInv, TimePasses PROVE IInv'
  OBVIOUS
<1>1. /\ time \in Nat /\ policy \in Policies /\ probes \in SUBSET AnyProbe /\ Finite(probes, time)
      /\ time' = time + 1
  BY DEF IInv, TimePasses, Finite
<1>2. PICK u : u = tables /\ Told(u)
  BY DEF IInv
<1>3. Told(u)'
  BY <1>1, <1>2, ToldTicks DEF TimePasses
<1>4. Told(tables)'
  BY <1>2, <1>3 DEF TimePasses, Told
<1>5. Finite(probes, time)'
  <2>1. Finite(probes, time + 1)
    BY <1>1, FiniteLater
  <2> QED
    BY <1>1, <2>1 DEF TimePasses
<1>6. (pruning = Idle \/ Pruning)'
  <2>1. CASE pruning = Idle
    BY <2>1 DEF TimePasses
  <2>2. CASE Pruning
    <3>1. PICK w : w = Remaining /\ Told(w)
      BY <2>2 DEF Pruning
    <3>2. Told(w)'
      BY <1>1, <3>1, ToldTicks DEF TimePasses
    <3>3. Remaining' = w
      BY <3>1 DEF TimePasses, Remaining, Statement
    <3>4. Told(Remaining)'
      BY <3>2, <3>3 DEF Told
    <3>5. pruning' = pruning /\ pruning.from <= time'
      BY <1>1, <2>2 DEF TimePasses, Pruning
    <3> QED
      BY <2>2, <3>4, <3>5 DEF Pruning
  <2> QED
    BY <2>1, <2>2 DEF IInv
<1>7. time' \in 0 .. LastTime
  BY RollupsAssumption DEF IInv, TimePasses
<1> QED
  BY <1>4, <1>5, <1>6, <1>7 DEF IInv, TimePasses

\* A stored probe is the youngest, and a prune that goes on meanwhile spares it.
LEMMA SaveProbeInv == IInv /\ SaveProbe => IInv'
<1> SUFFICES ASSUME IInv, SaveProbe PROVE IInv'
  OBVIOUS
<1>1. time \in Nat /\ policy \in Policies /\ probes \in SUBSET AnyProbe /\ Finite(probes, time)
  BY DEF IInv, Finite
<1>2. PICK at \in {t \in 0 .. time : t >= time - MaxLate}, o \in Outcomes :
        LET p == [at |-> at, outcome |-> o]
        IN  /\ \A q \in probes : q.at < at
            /\ probes' = probes \cup {p}
            /\ tables' = [tables EXCEPT !.raw = @ \cup {p}]
            /\ pruning' = IF pruning = Idle THEN Idle
                          ELSE [pruning EXCEPT !.tables.raw = @ \cup {p}]
  BY DEF SaveProbe
<1>3. PICK p : p = [at |-> at, outcome |-> o]
  OBVIOUS
<1>4. /\ p \in Probe /\ p \in AnyProbe /\ p.at \in Nat /\ p.at <= time /\ p.at >= time - MaxLate
      /\ \A q \in probes : q.at < p.at
  BY <1>1, <1>2, <1>3, RollupsAssumption DEF Probe, AnyProbe
<1>5. /\ probes' = probes \cup {p} /\ time' = time
      /\ tables' = [tables EXCEPT !.raw = @ \cup {p}]
      /\ pruning' = IF pruning = Idle THEN Idle ELSE [pruning EXCEPT !.tables.raw = @ \cup {p}]
  BY <1>2, <1>3 DEF SaveProbe
<1>6. Told(tables)'
  <2>1. PICK t : t = tables /\ Told(t)
    BY DEF IInv
  <2>2. PICK u : u = [t EXCEPT !.raw = @ \cup {p}]
    OBVIOUS
  <2>3. Told(u)'
    BY <1>1, <1>4, <1>5, <2>1, <2>2, StoredTold
  <2> QED
    BY <1>5, <2>1, <2>2, <2>3 DEF Told
<1>7. (pruning = Idle \/ Pruning)'
  <2>1. CASE pruning = Idle
    BY <1>5, <2>1
  <2>2. CASE Pruning
    <3>1. PICK w : w = Remaining /\ Told(w)
      BY <2>2 DEF Pruning
    <3>2. PICK u : u = [w EXCEPT !.raw = @ \cup {p}]
      OBVIOUS
    <3>3. Told(u)'
      BY <1>1, <1>4, <1>5, <3>1, <3>2, StoredTold
    <3>4. PICK t : t = pruning.tables
      OBVIOUS
    <3>5. PICK v : v = [t EXCEPT !.raw = @ \cup {p}]
      OBVIOUS
    <3>6. /\ DOMAIN pruning' = {"step", "from", "tables"}
          /\ pruning'.step = pruning.step /\ pruning'.from = pruning.from /\ pruning'.tables = v
      <4>1. pruning' = [pruning EXCEPT !.tables = v]
        BY <1>5, <2>2, <3>4, <3>5, NotIdle DEF Pruning
      <4> QED
        BY <2>2, <4>1 DEF Pruning
    <3>7. Remaining' = u
      <4>1. CASE pruning.step = 3
        <5>1. PICK from \in Nat : from = pruning.from /\ from <= time
          BY <2>2 DEF Pruning
        <5>2. w = Statement(3, t, from)
          BY <3>1, <3>4, <4>1, <5>1 DEF Remaining
        <5>3. DOMAIN t = Tables
          <6>1. DOMAIN w = Tables
            BY <3>1 DEF Told, Holds
          <6>2. LevelOf(3) = "raw"
            BY Levels4
          <6>3. PICK c : c = from - policy["raw"]
            OBVIOUS
          <6>4. w = t \/ w = Execute(3, t, c)
            BY <5>2, <6>2, <6>3, Zenon DEF Statement
          <6>5. DOMAIN Execute(3, t, c) = DOMAIN t
            BY DEF Execute
          <6> QED
            BY <6>1, <6>4, <6>5
        <5>4. Statement(3, v, from) = u
          <6>1. policy \in Policies /\ time \in Nat /\ p.at >= time - MaxLate
            BY <1>1, <1>4
          <6>2. Statement(3, Stored(t, p), from) = Stored(Statement(3, t, from), p)
            BY <1>4, <5>1, <5>3, <6>1, YoungIsSpared
          <6>3. v = Stored(t, p) /\ u = Stored(w, p)
            BY <3>2, <3>5 DEF Stored
          <6> QED
            BY <5>2, <6>2, <6>3, Zenon
        <5>5. Remaining' = Statement(3, v, from)'
          BY <3>6, <4>1, <5>1 DEF Remaining
        <5>6. Statement(3, v, from)' = Statement(3, v, from)
          BY DEF SaveProbe, Statement
        <5> QED
          BY <5>4, <5>5, <5>6
      <4>2. CASE pruning.step # 3
        BY <3>1, <3>2, <3>4, <3>5, <3>6, <4>2 DEF Remaining
      <4> QED
        BY <4>1, <4>2
    <3>8. Told(Remaining)'
      BY <3>3, <3>7 DEF Told
    <3> QED
      BY <1>5, <2>2, <3>6, <3>8 DEF Pruning
  <2> QED
    BY <2>1, <2>2 DEF IInv
<1>8. Finite(probes, time)'
  <2>1. Finite(probes \cup {p}, time)
    BY <1>1, <1>4, FiniteOne
  <2> QED
    BY <1>5, <2>1
<1>9. \A q, r \in probes' : q.at = r.at => q = r
  <2>1. ASSUME NEW q \in probes' , NEW r \in probes', q.at = r.at PROVE q = r
    <3>1. CASE q \in probes /\ r \in probes
      BY <2>1, <3>1 DEF IInv
    <3>2. CASE q = p /\ r = p
      BY <3>2
    <3>3. ASSUME NEW x \in probes PROVE x.at # p.at
      <4>1. x.at \in Nat /\ x.at < p.at
        BY <1>1, <1>4 DEF AnyProbe
      <4> QED
        BY <1>4, <4>1
    <3> QED
      BY <1>5, <2>1, <3>1, <3>2, <3>3
  <2> QED
    BY <2>1
<1>10. probes' \in SUBSET Probe
  BY <1>4, <1>5 DEF IInv
<1> QED
  BY <1>5, <1>6, <1>7, <1>8, <1>9, <1>10 DEF IInv, SaveProbe

\* Each step of a prune moves probes on in the tables it works on; only the last one
\* commits them.
LEMMA PruneInv == IInv /\ (PruneSQLite \/ BeginPrune \/ PruneStatement \/ CommitPrune \/ AbortPrune)
                    => IInv'
<1> SUFFICES ASSUME IInv, PruneSQLite \/ BeginPrune \/ PruneStatement \/ CommitPrune \/ AbortPrune
             PROVE  IInv'
  OBVIOUS
<1>1. /\ UNCHANGED <<time, probes, backend, policy>> /\ time \in Nat
      /\ backend' \in Backends /\ policy' \in Policies
  BY DEF PruneSQLite, BeginPrune, PruneStatement, CommitPrune, AbortPrune, IInv
<1>2. ASSUME NEW t, Told(t) PROVE Told(t)'
  BY <1>1, <1>2, ToldStays
<1>3. ASSUME UNCHANGED tables PROVE Told(tables)'
  <2>1. PICK t : t = tables /\ Told(t)
    BY DEF IInv
  <2> QED
    BY <1>2, <1>3, <2>1 DEF Told
<1>4. CASE PruneSQLite
  <2>1. PICK place : Places(place) /\ Holds(tables, place)
    BY DEF IInv, Told
  <2>2. PICK from \in Nat : from = time
    BY <1>1
  <2>3. Ready(from)
    BY <2>2, IsReady
  <2>4. PICK t : t = RollupAndPrune(tables, time)
    OBVIOUS
  <2>5. Told(t)
    <3>1. PICK u : u = tables
      OBVIOUS
    <3>2. \E new : Places(new) /\ Holds(RollupAndPrune(u, from), new)
      BY <2>1, <2>3, <3>1, AllStatements
    <3> QED
      BY <2>2, <2>4, <3>1, <3>2 DEF Told
  <2>6. Told(t)'
    BY <1>2, <2>5
  <2>7. tables' = t /\ pruning = Idle /\ pruning' = Idle
    BY <1>4, <2>4 DEF PruneSQLite, PruneIsDue
  <2>8. Told(tables)'
    BY <2>6, <2>7 DEF Told
  <2> QED
    BY <1>1, <2>7, <2>8, FrameInv
<1>5. CASE BeginPrune
  <2>1. UNCHANGED tables /\ pruning' = [step |-> 1, from |-> time, tables |-> tables]
    BY <1>5 DEF BeginPrune
  <2>2. Told(tables)'
    BY <1>3, <2>1
  <2>3. Remaining' = tables'
    BY <2>1 DEF Remaining
  <2>4. Told(Remaining)'
    BY <2>2, <2>3 DEF Told
  <2>5. Pruning'
    BY <1>1, <2>1, <2>4 DEF Pruning
  <2> QED
    BY <1>1, <2>2, <2>5, FrameInv
<1>6. CASE PruneStatement
  <2>1. pruning.step \in 1 .. 3 /\ UNCHANGED tables
    BY <1>6 DEF PruneStatement, OnRaw
  <2>2. Pruning
    BY <2>1 DEF IInv, Idle, None
  <2>3. PICK k \in 1 .. 3 : k = pruning.step
    BY <2>1
  <2>4. PICK t : t = pruning.tables
    OBVIOUS
  <2>5. PICK from \in Nat : from = pruning.from /\ from <= time
    BY <2>2 DEF Pruning
  <2>6. PICK u : u = Statement(k, t, from)
    OBVIOUS
  <2>7. /\ DOMAIN pruning' = {"step", "from", "tables"}
        /\ pruning'.step = k + 1 /\ pruning'.from = from /\ pruning'.tables = u
    BY <1>6, <2>2, <2>3, <2>4, <2>5, <2>6 DEF PruneStatement, Pruning
  <2>8. Ready(from)
    BY <2>5, IsReady
  <2>9. PICK place : Places(place) /\ Holds(Remaining, place)
    BY <2>2 DEF Pruning, Told
  <2>10. PICK w : w = IF k = 2 THEN Statement(3, u, from) ELSE u
    OBVIOUS
  <2>11. Told(w)
    <3>1. CASE k = 1
      <4>1. Holds(t, place) /\ w = Statement(1, t, from)
        BY <2>3, <2>4, <2>6, <2>9, <2>10, <3>1 DEF Remaining
      <4>2. Holds(Statement(1, t, from), place)
        BY <4>1, CompactHolds
      <4> QED
        BY <2>9, <4>1, <4>2 DEF Told
    <3>2. CASE k = 2
      <4>1. Holds(t, place) /\ w = Statement(3, u, from) /\ u = Statement(2, t, from)
        BY <2>3, <2>4, <2>6, <2>9, <2>10, <3>2 DEF Remaining
      <4>2. \E new : Places(new) /\ Holds(Statement(3, u, from), new)
        BY <2>8, <2>9, <4>1, RawMoves
      <4> QED
        BY <4>1, <4>2 DEF Told
    <3>3. CASE k = 3
      <4>1. Holds(w, place)
        BY <2>3, <2>4, <2>5, <2>6, <2>9, <2>10, <3>3 DEF Remaining
      <4> QED
        BY <2>9, <4>1 DEF Told
    <3> QED
      BY <3>1, <3>2, <3>3
  <2>12. Told(w)'
    BY <1>2, <2>11
  <2>13. Remaining' = w
    <3>1. CASE k = 2
      <4>1. Remaining' = Statement(3, u, from)'
        BY <2>7, <3>1 DEF Remaining
      <4>2. Statement(3, u, from)' = Statement(3, u, from)
        BY <1>1 DEF Statement
      <4> QED
        BY <2>10, <3>1, <4>1, <4>2
    <3>2. CASE k # 2
      <4>1. pruning'.step # 3
        BY <2>7, <3>2
      <4> QED
        BY <2>7, <2>10, <3>2, <4>1 DEF Remaining
    <3> QED
      BY <3>1, <3>2
  <2>14. Told(Remaining)'
    BY <2>12, <2>13 DEF Told
  <2>15. Pruning'
    <3>1. pruning'.step \in 1 .. 4
      BY <2>7
    <3> QED
      BY <1>1, <2>5, <2>7, <2>14, <3>1 DEF Pruning
  <2> QED
    BY <1>1, <1>3, <2>1, <2>15, FrameInv
<1>7. CASE CommitPrune
  <2>1. pruning.step = 4 /\ pruning' = Idle
        /\ tables' = Run(4, 9, pruning.tables, pruning.from)
    BY <1>7 DEF CommitPrune
  <2>2. Pruning
    BY <2>1 DEF IInv, Idle, None
  <2>3. PICK t : t = pruning.tables
    OBVIOUS
  <2>4. PICK from \in Nat : from = pruning.from /\ from <= time
    BY <2>2 DEF Pruning
  <2>5. PICK place : Places(place) /\ Holds(t, place)
    BY <2>1, <2>2, <2>3 DEF Pruning, Told, Remaining
  <2>6. Ready(from)
    BY <2>4, IsReady
  <2>7. PICK u : u = Run(4, 9, t, from)
    OBVIOUS
  <2>8. \E new : Places(new) /\ Holds(Run(4, 9, t, from), new)
    BY <2>5, <2>6, LastStatements
  <2>9. Told(u)
    BY <2>7, <2>8 DEF Told
  <2>10. Told(u)'
    BY <1>2, <2>9
  <2>11. tables' = u
    BY <2>1, <2>3, <2>4, <2>7
  <2>12. Told(tables)'
    BY <2>10, <2>11 DEF Told
  <2> QED
    BY <1>1, <2>1, <2>12, FrameInv
<1>8. CASE AbortPrune
  <2>1. UNCHANGED tables /\ pruning' = Idle
    BY <1>8 DEF AbortPrune
  <2> QED
    BY <1>1, <1>3, <2>1, FrameInv
<1> QED
  BY <1>4, <1>5, <1>6, <1>7, <1>8

\* What is kept under every configuration does not depend on the one in use.
LEMMA ReloadInv == IInv /\ ReloadPolicy => IInv'
<1> SUFFICES ASSUME IInv, ReloadPolicy PROVE IInv'
  OBVIOUS
<1>1. UNCHANGED <<time, probes, tables, pruning>> /\ backend' \in Backends /\ policy' \in Policies
      /\ pruning = Idle
  BY DEF ReloadPolicy, IInv
<1>2. PICK t : t = tables /\ Told(t)
  BY DEF IInv
<1>3. Told(t)'
  BY <1>1, <1>2, ToldStays
<1>4. Told(tables)'
  BY <1>1, <1>2, <1>3 DEF Told
<1> QED
  BY <1>1, <1>4, FrameInv

\* The invariant depends on nothing but the variables.
LEMMA StutterInv == IInv /\ UNCHANGED rollupVars => IInv'
<1> SUFFICES ASSUME IInv, UNCHANGED rollupVars PROVE IInv'
  OBVIOUS
<1>1. UNCHANGED <<time, backend, policy, tables, pruning, probes>>
  BY DEF rollupVars
<1>2. ASSUME NEW t, Told(t) PROVE Told(t)'
  BY <1>1, <1>2, ToldStays
<1>3. Told(tables)'
  <2>1. PICK t : t = tables /\ Told(t)
    BY DEF IInv
  <2> QED
    BY <1>1, <1>2, <2>1 DEF Told
<1>4. (pruning = Idle \/ Pruning)'
  <2>1. CASE pruning = Idle
    BY <1>1, <2>1
  <2>2. CASE Pruning
    <3>1. PICK w : w = Remaining /\ Told(w)
      BY <2>2 DEF Pruning
    <3>2. Remaining' = w
      BY <1>1, <3>1 DEF Remaining, Statement
    <3>3. Told(Remaining)'
      BY <1>2, <3>1, <3>2 DEF Told
    <3> QED
      BY <1>1, <2>2, <3>3 DEF Pruning
  <2> QED
    BY <2>1, <2>2 DEF IInv
<1>5. backend' \in Backends /\ policy' \in Policies
  BY <1>1 DEF IInv
<1> QED
  BY <1>1, <1>3, <1>4, <1>5, FrameInv

\* Every reachable state has each probe in its place.
LEMMA InvariantHolds == RollupSpec => []IInv
<1>1. IInv /\ [RollupNext]_rollupVars => IInv'
  BY TickInv, SaveProbeInv, PruneInv, ReloadInv, StutterInv DEF RollupNext
<1> QED
  BY InitInv, <1>1, PTL DEF RollupSpec

-----------------------------------------------------------------------------
(* Numbers of a summary *)

Fields == {"total", "successful", "maintenance", "maintenanceFailed"}

\* The probes that a number of a summary counts.
CountedIn(some, f) ==
    {p \in some :
        CASE f = "total" -> Reportable(p)
          [] f = "successful" -> Reportable(p) /\ OK(p)
          [] f = "maintenance" -> p.outcome \in {"maintenance_ok", "maintenance_failed"}
          [] f = "maintenanceFailed" ->
                p.outcome \in {"maintenance_ok", "maintenance_failed"} /\ ~OK(p)}

\* A field of a summary is the number of the probes that it counts.
LEMMA SummaryCounts ==
    ASSUME NEW some, NEW f \in Fields
    PROVE  Summary(some)[f] = Cardinality(CountedIn(some, f))
<1> DEFINE reportable == {p \in some : Reportable(p)}
           covered == {p \in some : p.outcome \in {"maintenance_ok", "maintenance_failed"}}
           good == {p \in reportable : OK(p)}
           bad == {p \in covered : ~OK(p)}
           moments == {p.at : p \in reportable}
<1>1. Summary(some) = [total |-> Cardinality(reportable), successful |-> Cardinality(good),
                       maintenance |-> Cardinality(covered),
                       maintenanceFailed |-> Cardinality(bad),
                       first |-> LeastOf(moments), last |-> GreatestOf(moments)]
  BY Zenon DEF Summary
<1>2. /\ CountedIn(some, "total") = reportable /\ CountedIn(some, "successful") = good
      /\ CountedIn(some, "maintenance") = covered /\ CountedIn(some, "maintenanceFailed") = bad
  BY DEF CountedIn
<1> HIDE DEF reportable, covered, good, bad, moments
<1>3. /\ Summary(some)["total"] = Cardinality(reportable)
      /\ Summary(some)["successful"] = Cardinality(good)
      /\ Summary(some)["maintenance"] = Cardinality(covered)
      /\ Summary(some)["maintenanceFailed"] = Cardinality(bad)
  BY <1>1
<1>4. \/ f = "total" \/ f = "successful" \/ f = "maintenance" \/ f = "maintenanceFailed"
  BY DEF Fields
<1> QED
  BY <1>2, <1>3, <1>4

\* Fewer probes count less, and those of two sets at most as much as both.
LEMMA SummaryGrows ==
    ASSUME NEW bound \in Nat, NEW B, Finite(B, bound), NEW A \in SUBSET B, NEW f \in Fields
    PROVE  /\ Summary(A)[f] \in Nat /\ Summary(B)[f] \in Nat /\ Summary(A)[f] <= Summary(B)[f]
<1>1. CountedIn(A, f) \in SUBSET CountedIn(B, f) /\ CountedIn(B, f) \in SUBSET B
  <2>1. PICK Counts \in SUBSET B : Counts = CountedIn(B, f)
    BY DEF CountedIn
  <2>2. CountedIn(A, f) \in SUBSET CountedIn(B, f)
    BY DEF CountedIn
  <2> QED
    BY <2>1, <2>2
<1>2. IsFiniteSet(CountedIn(B, f))
  BY <1>1, FS_Subset DEF Finite
<1>3. /\ IsFiniteSet(CountedIn(A, f))
      /\ Cardinality(CountedIn(A, f)) <= Cardinality(CountedIn(B, f))
  BY <1>1, <1>2, FS_Subset
<1>4. Cardinality(CountedIn(A, f)) \in Nat /\ Cardinality(CountedIn(B, f)) \in Nat
  BY <1>2, <1>3, FS_CardinalityType
<1> QED
  BY <1>3, <1>4, SummaryCounts

\* Probes that are counted twice make a sum larger, never smaller.
LEMMA SummaryOfUnion ==
    ASSUME NEW bound \in Nat, NEW A, NEW B, Finite(A, bound), Finite(B, bound), NEW f \in Fields
    PROVE  /\ Summary(A)[f] \in Nat /\ Summary(B)[f] \in Nat /\ Summary(A \cup B)[f] \in Nat
           /\ Summary(A \cup B)[f] <= Summary(A)[f] + Summary(B)[f]
<1>1. CountedIn(A \cup B, f) = CountedIn(A, f) \cup CountedIn(B, f)
  BY DEF CountedIn
<1>2. CountedIn(A, f) \in SUBSET A /\ CountedIn(B, f) \in SUBSET B
  BY DEF CountedIn
<1>3. PICK X : X = CountedIn(A, f) /\ IsFiniteSet(X)
  BY <1>2, FS_Subset DEF Finite
<1>4. PICK Y : Y = CountedIn(B, f) /\ IsFiniteSet(Y)
  BY <1>2, FS_Subset DEF Finite
<1>5. Cardinality(X \cup Y) = Cardinality(X) + Cardinality(Y) - Cardinality(X \cap Y)
  BY <1>3, <1>4, FS_Union
<1>6. IsFiniteSet(X \cap Y) /\ IsFiniteSet(X \cup Y)
  BY <1>3, <1>4, FS_Subset, FS_Union
<1>7. /\ Cardinality(X \cap Y) \in Nat /\ Cardinality(X) \in Nat /\ Cardinality(Y) \in Nat
      /\ Cardinality(X \cup Y) \in Nat
  BY <1>3, <1>4, <1>6, FS_CardinalityType
<1>8. /\ Summary(A)[f] = Cardinality(X) /\ Summary(B)[f] = Cardinality(Y)
      /\ Summary(A \cup B)[f] = Cardinality(X \cup Y)
  BY <1>1, <1>3, <1>4, SummaryCounts
<1> QED
  BY <1>5, <1>7, <1>8

\* Fields are added one by one.
LEMMA PlusOfField ==
    ASSUME NEW a, NEW b, NEW f \in Fields
    PROVE  Plus(a, b)[f] = a[f] + b[f]
BY DEF Plus, Fields

\* The sum of one number of some rows is that of the summary of their probes.
LEMMA SumOverRows ==
    ASSUME NEW bound \in Nat, NEW A, Finite(A, bound), NEW key, NEW field \in Fields,
           NEW starts \in SUBSET {key[p] : p \in A}, IsFiniteSet(starts)
    PROVE  SumOver(Rows(A, key), starts, field) = Summary({p \in A : key[p] \in starts})[field]
<1> DEFINE rows == Rows(A, key)
           In(T) == {p \in A : key[p] \in T}
           f == CHOOSE h : h = [T \in SUBSET starts |->
                   IF T = {} THEN 0 ELSE rows[Chosen(T)][field] + h[T \ {Chosen(T)}]]
           g == [T \in SUBSET starts |-> Summary(In(T))[field]]
<1>1. SumOver(rows, starts, field) = f[starts]
  BY DEF SumOver, MapThenSumSet, MapThenFoldSet, Chosen
<1>2. ASSUME NEW T \in SUBSET starts, T # {}
      PROVE  g[T] = rows[Chosen(T)][field] + g[T \ {Chosen(T)}]
  <2>1. PICK c : c = Chosen(T)
    OBVIOUS
  <2>2. c \in T /\ c \in {key[p] : p \in A}
    BY <1>2, <2>1 DEF Chosen
  <2>3. rows[c] = Summary({p \in A : key[p] = c})
    BY <2>2 DEF Rows
  <2>4. g[T] = Summary(In(T))[field] /\ g[T \ {c}] = Summary(In(T \ {c}))[field]
    OBVIOUS
  <2>5. PICK one \in SUBSET A : one = {p \in A : key[p] = c}
    OBVIOUS
  <2>6. PICK rest \in SUBSET A : rest = In(T \ {c})
    OBVIOUS
  <2>7. In(T) = one \cup rest /\ one \cap rest = {}
    BY <2>2, <2>5, <2>6
  <2> HIDE DEF In, f, g, rows
  <2>8. Finite(one, bound) /\ Finite(rest, bound)
    BY FinitePart
  <2>9. Summary(one \cup rest) = Plus(Summary(one), Summary(rest))
    BY <2>7, <2>8, SummaryOfBoth
  <2>10. Plus(Summary(one), Summary(rest))[field] = Summary(one)[field] + Summary(rest)[field]
    BY PlusOfField
  <2>11. rows[c] = Summary(one)
    BY <2>3, <2>5
  <2> QED
    <3>1. g[T] = Summary(one \cup rest)[field] /\ g[T \ {c}] = Summary(rest)[field]
      BY <2>4, <2>6, <2>7, Zenon
    <3>2. g[T] = rows[c][field] + g[T \ {c}]
      BY <2>9, <2>10, <2>11, <3>1, Zenon
    <3> QED
      BY <2>1, <3>2, Zenon
<1>3. g[{}] = 0
  <2>1. In({}) = {} /\ g[{}] = Summary(In({}))[field]
    OBVIOUS
  <2>2. CountedIn({}, field) = {}
    BY DEF CountedIn
  <2>3. Summary({})[field] = Cardinality(CountedIn({}, field))
    BY SummaryCounts
  <2>4. Cardinality({}) = 0
    BY FS_EmptySet
  <2> QED
    BY <2>1, <2>2, <2>3, <2>4
<1>4. g = [T \in SUBSET starts |->
             IF T = {} THEN 0 ELSE rows[Chosen(T)][field] + g[T \ {Chosen(T)}]]
  <2> DEFINE e(T) == IF T = {} THEN 0 ELSE rows[Chosen(T)][field] + g[T \ {Chosen(T)}]
  <2>1. ASSUME NEW T \in SUBSET starts PROVE g[T] = e(T)
    <3>1. CASE T = {}
      BY <1>3, <3>1
    <3>2. CASE T # {}
      BY <1>2, <3>2
    <3> QED
      BY <3>1, <3>2
  <2>2. g = [T \in SUBSET starts |-> g[T]]
    OBVIOUS
  <2> HIDE DEF g
  <2> QED
    BY <2>1, <2>2
<1> HIDE DEF g
<1>5. f = [T \in SUBSET starts |->
             IF T = {} THEN 0 ELSE rows[Chosen(T)][field] + f[T \ {Chosen(T)}]]
  BY <1>4
<1> HIDE DEF f
<1>6. GrowTogether(f, g, starts)
  <2>1. f[{}] = 0
    <3>1. {} \in SUBSET starts
      OBVIOUS
    <3> QED
      BY <1>5, <3>1
  <2>2. ASSUME NEW T \in SUBSET starts, T # {}
        PROVE f[T] = rows[Chosen(T)][field] + f[T \ {Chosen(T)}]
    BY <1>5, <2>2
  <2> QED
    BY <1>2, <1>3, <2>1, <2>2, Zenon DEF GrowTogether
<1>7. f[starts] = g[starts]
  BY <1>6, SumsAgree
<1>8. g[starts] = Summary(In(starts))[field]
  BY DEF g
<1> QED
  BY <1>1, <1>7, <1>8

\* What is reported since a cutoff counts these probes.
Reported(place, cutoff) ==
    {p \in At(place, 4) : p.at >= cutoff}
    \cup ({p \in At(place, 3) : MinuteOf[p] >= cutoff}
          \cup ({p \in At(place, 2) : HourOf[p] >= cutoff}
                \cup {p \in At(place, 1) : DayOf[p] >= cutoff}))

\* Finitely many probes are in finitely many buckets.
LEMMA ImageIsFinite ==
    ASSUME NEW bound, NEW A, Finite(A, bound), NEW key, NEW S \in SUBSET {key[p] : p \in A}
    PROVE  IsFiniteSet(S)
<1>1. IsFiniteSet({key[p] : p \in A})
  <2>1. IsFiniteSet(A)
    BY DEF Finite
  <2> DEFINE T == {key[p] : p \in A}
             f == [p \in A |-> key[p]]
  <2>2. f \in Surjection(A, T)
    BY DEF Surjection
  <2> HIDE DEF f, T
  <2>3. IsFiniteSet(T)
    BY <2>1, <2>2, FS_Surjection
  <2> QED
    BY <2>3 DEF T
<1> QED
  BY <1>1, FS_Subset

SumSince(rollups, cutoff) == SumOf(rollups, {s \in DOMAIN rollups : s >= cutoff})
Late(some, key, cutoff) == {p \in some : key[p] >= cutoff}

\* The rows since a cutoff.
LEMMA RowsSince ==
    ASSUME NEW bound \in Nat, NEW A, Finite(A, bound), NEW key, NEW cutoff
    PROVE  SumSince(Rows(A, key), cutoff) = Summary(Late(A, key, cutoff))
<1>1. DOMAIN Rows(A, key) = {key[p] : p \in A}
  BY DEF Rows
<1>2. PICK starts \in SUBSET {key[p] : p \in A} :
          starts = {s \in DOMAIN Rows(A, key) : s >= cutoff}
  BY <1>1
<1>3. IsFiniteSet(starts)
  BY ImageIsFinite
<1>4. SumOf(Rows(A, key), starts) = Summary({p \in A : key[p] \in starts})
  BY <1>3, SumOfRows
<1>5. {p \in A : key[p] \in starts} = {p \in A : key[p] >= cutoff}
  BY <1>1, <1>2
<1> QED
  BY <1>2, <1>4, <1>5 DEF SumSince, Late

\* What is reported since a cutoff is the summary of the probes whose bucket began since.
LEMMA WindowStatsIs ==
    ASSUME NEW bound \in Nat, NEW all, Finite(all, bound), NEW place, IsPlace(place, all),
           NEW t, Holds(t, place), NEW cutoff
    PROVE  WindowStats(t, cutoff) = Summary(Reported(place, cutoff))
<1>1. PICK A4 : A4 = {p \in At(place, 4) : p.at >= cutoff}
  OBVIOUS
<1>2. PICK A3 : A3 = {p \in At(place, 3) : MinuteOf[p] >= cutoff}
  OBVIOUS
<1>3. PICK A2 : A2 = {p \in At(place, 2) : HourOf[p] >= cutoff}
  OBVIOUS
<1>4. PICK A1 : A1 = {p \in At(place, 1) : DayOf[p] >= cutoff}
  OBVIOUS
<1>5. /\ Finite(At(place, 4), bound) /\ Finite(At(place, 3), bound)
      /\ Finite(At(place, 2), bound) /\ Finite(At(place, 1), bound)
  BY Apart
<1>6. Finite(A4, bound) /\ Finite(A3, bound) /\ Finite(A2, bound) /\ Finite(A1, bound)
  BY <1>1, <1>2, <1>3, <1>4, <1>5, FinitePart
<1>7. /\ SumSince(t.minute, cutoff) = Summary(A3)
      /\ SumSince(t.hour, cutoff) = Summary(A2)
      /\ SumSince(t.day, cutoff) = Summary(A1)
      /\ {p \in t.raw : p.at >= cutoff} = A4
  <2>1. SumSince(Rows(At(place, 3), MinuteOf), cutoff) = Summary(Late(At(place, 3), MinuteOf, cutoff))
    BY <1>5, RowsSince
  <2>2. SumSince(Rows(At(place, 2), HourOf), cutoff) = Summary(Late(At(place, 2), HourOf, cutoff))
    BY <1>5, RowsSince
  <2>3. SumSince(Rows(At(place, 1), DayOf), cutoff) = Summary(Late(At(place, 1), DayOf, cutoff))
    BY <1>5, RowsSince
  <2>4. /\ A3 = Late(At(place, 3), MinuteOf, cutoff) /\ A2 = Late(At(place, 2), HourOf, cutoff)
        /\ A1 = Late(At(place, 1), DayOf, cutoff)
    BY <1>2, <1>3, <1>4 DEF Late
  <2> QED
    BY <1>1, <2>1, <2>2, <2>3, <2>4 DEF Holds
<1>8. WindowStats(t, cutoff)
        = Plus(Summary(A4), Plus(Summary(A3), Plus(Summary(A2), Summary(A1))))
  BY <1>7 DEF WindowStats, SumSince
<1>9. A2 \cap A1 = {} /\ A3 \cap (A2 \cup A1) = {} /\ A4 \cap (A3 \cup (A2 \cup A1)) = {}
  BY <1>1, <1>2, <1>3, <1>4 DEF At
<1>10. Finite(A2 \cup A1, bound) /\ Finite(A3 \cup (A2 \cup A1), bound)
  <2>1. ASSUME NEW X, NEW Y, Finite(X, bound), Finite(Y, bound) PROVE Finite(X \cup Y, bound)
    BY <2>1, FS_Union DEF Finite
  <2> QED
    BY <1>6, <2>1
<1>11. Plus(Summary(A2), Summary(A1)) = Summary(A2 \cup A1)
  BY <1>6, <1>9, SummaryOfBoth
<1>12. Plus(Summary(A3), Summary(A2 \cup A1)) = Summary(A3 \cup (A2 \cup A1))
  BY <1>6, <1>9, <1>10, SummaryOfBoth
<1>13. Plus(Summary(A4), Summary(A3 \cup (A2 \cup A1))) = Summary(A4 \cup (A3 \cup (A2 \cup A1)))
  BY <1>6, <1>9, <1>10, SummaryOfBoth
<1>14. Reported(place, cutoff) = A4 \cup (A3 \cup (A2 \cup A1))
  BY <1>1, <1>2, <1>3, <1>4, Zenon DEF Reported
<1> QED
  BY <1>8, <1>11, <1>12, <1>13, <1>14

-----------------------------------------------------------------------------

\* The type invariant holds: rows stand for whole buckets that have begun.
THEOREM TypeCorrect == RollupSpec => []RollupTypeOK
<1>1. IInv => RollupTypeOK
  <2> SUFFICES ASSUME IInv PROVE RollupTypeOK
    OBVIOUS
  <2>1. PICK place : Places(place) /\ Holds(tables, place)
    BY DEF IInv, Told
  <2>2. DOMAIN place = probes /\ time \in Nat /\ Finite(probes, time)
    BY <2>1 DEF Places, IsPlace, IInv
  <2>3. tables.raw \subseteq probes /\ DOMAIN tables = Tables
    BY <2>1, <2>2 DEF Holds, At
  <2>4. ASSUME NEW key, IsKey(key), NEW width, IsBucket(key, width), NEW n,
               NEW s \in DOMAIN Rows(At(place, n), key)
        PROVE  s % width = 0 /\ s <= time
    <3>1. PICK p \in probes : s = key[p]
      BY <2>2 DEF Rows, At
    <3>2. p \in AnyProbe /\ p.at \in Nat /\ p.at <= time
      BY <2>2 DEF Finite, AnyProbe
    <3>3. key[p] % width = 0
      BY <2>4, <3>2 DEF IsBucket
    <3>4. key[p] \in Nat /\ key[p] <= p.at
      BY <2>4, <3>2 DEF IsKey
    <3> QED
      BY <2>2, <3>1, <3>2, <3>3, <3>4
  <2>5. /\ \A s \in DOMAIN tables.minute : s % Minute = 0 /\ s <= time
        /\ \A s \in DOMAIN tables.hour : s % Hour = 0 /\ s <= time
        /\ \A s \in DOMAIN tables.day : s % Day = 0 /\ s <= time
    BY <2>1, <2>4, AllAreKeys DEF Holds
  <2>6. pruning = Idle \/ (pruning.step \in OnRaw \cup {4} /\ pruning.from <= time)
    <3>1. \A k \in 1 .. 4 : k \in OnRaw \cup {4}
      BY DEF OnRaw
    <3> QED
      BY <3>1 DEF IInv, Pruning
  <2>7. time \in 0 .. LastTime /\ backend \in Backends /\ policy \in Policies /\ probes \subseteq Probe
    BY DEF IInv
  <2> QED
    BY <2>3, <2>5, <2>6, <2>7 DEF RollupTypeOK
<1> QED
  BY <1>1, InvariantHolds, PTL

\* What is reported of all retained time counts each probe once.
THEOREM EachCountedOnce == RollupSpec => []CountedOnce
<1>1. IInv => CountedOnce
  <2> SUFFICES ASSUME IInv PROVE CountedOnce
    OBVIOUS
  <2>1. PICK place : Places(place) /\ Holds(tables, place)
    BY DEF IInv, Told
  <2>2. /\ place \in [probes -> 0 .. 4] /\ ByAge(place) /\ IsPlace(place, probes)
        /\ DOMAIN place = probes /\ time \in Nat /\ Finite(probes, time)
    BY <2>1 DEF Places, IsPlace, IInv
  <2>3. PICK t : t = tables
    OBVIOUS
  <2>4. PICK start \in Nat : start = 0
    OBVIOUS
  <2>5. WindowStats(tables, 0) = Summary(Reported(place, start))
    <3>1. WindowStats(t, start) = Summary(Reported(place, start))
      BY <2>1, <2>2, <2>3, WindowStatsIs
    <3> QED
      BY <2>3, <2>4, <3>1
  <2>6. Reported(place, start) = probes \ At(place, 0)
    <3>1. ASSUME NEW p \in probes
          PROVE  p.at >= start /\ MinuteOf[p] >= start /\ HourOf[p] >= start /\ DayOf[p] >= start
      <4>1. p \in AnyProbe /\ p.at \in Nat
        BY <2>2 DEF Finite, AnyProbe
      <4>2. MinuteOf[p] \in Nat /\ HourOf[p] \in Nat /\ DayOf[p] \in Nat
        BY <4>1, AllAreKeys DEF IsKey
      <4> QED
        BY <2>4, <4>1, <4>2
    <3>2. \A p \in probes : place[p] = 0 \/ place[p] = 1 \/ place[p] = 2 \/ place[p] = 3 \/ place[p] = 4
      BY <2>2
    <3> QED
      BY <2>2, <3>1, <3>2 DEF Reported, At
  <2>7. \A p \in probes : p.at \in Nat /\ p.at <= time /\ p \in AnyProbe
    BY <2>2 DEF Finite, AnyProbe
  <2>8. \E u \in {0} \cup {p.at + 1 : p \in probes} :
            Kept(Day - 1) \subseteq Since(u) /\ Since(u) = probes \ At(place, 0)
    <3>1. CASE At(place, 0) = {}
      <4>1. Since(0) = probes
        BY <2>7 DEF Since
      <4> QED
        BY <3>1, <4>1 DEF Kept
    <3>2. CASE At(place, 0) # {}
      <4>1. PICK moments \in SUBSET Nat : moments = {p.at : p \in At(place, 0)}
        BY <2>2, <2>7 DEF At
      <4>2. Max(moments) \in moments /\ \A m \in moments : m <= Max(moments)
        <5>1. moments # {} /\ \A m \in moments : m <= time
          BY <2>2, <2>7, <3>2, <4>1 DEF At
        <5> QED
          BY <2>2, <5>1, MaxOf
      <4>3. PICK last \in At(place, 0) : last.at = Max(moments)
        BY <4>1, <4>2
      <4>4. last \in probes /\ place[last] = 0 /\ \A p \in At(place, 0) : p.at <= last.at
        BY <2>2, <4>1, <4>2, <4>3 DEF At
      <4>5. ASSUME NEW p \in probes PROVE p.at >= last.at + 1 <=> p \notin At(place, 0)
        <5>1. CASE p \in At(place, 0)
          BY <2>7, <4>4, <5>1
        <5>2. CASE p \notin At(place, 0)
          <6>1. p.at # last.at
            BY <4>3, <4>4, <5>2 DEF IInv
          <6>2. p.at < last.at => place[p] <= place[last]
            BY <2>2, <4>4 DEF ByAge
          <6>3. place[p] \in 0 .. 4 /\ place[p] # 0
            BY <2>2, <5>2 DEF At
          <6>4. ~(p.at < last.at)
            BY <4>4, <6>2, <6>3
          <6> QED
            BY <2>7, <4>4, <5>2, <6>1, <6>4
        <5> QED
          BY <5>1, <5>2
      <4>6. PICK u : u = last.at + 1
        OBVIOUS
      <4>7. Since(u) = probes \ At(place, 0)
        BY <4>5, <4>6 DEF Since
      <4>8. Kept(Day - 1) \subseteq probes \ At(place, 0)
        BY <2>1, <2>2 DEF Places, At, Kept
      <4> QED
        BY <4>4, <4>6, <4>7, <4>8
    <3> QED
      BY <3>1, <3>2
  <2> QED
    BY <2>5, <2>6, <2>8 DEF CountedOnce
<1> QED
  BY <1>1, InvariantHolds, PTL

\* The probes that a table has in rows whose bucket began before a cutoff and ends after it.
Missed(some, key, width, cutoff) ==
    {p \in some : key[p] < cutoff /\ cutoff < key[p] + width}

\* The rows that a cutoff divides are those of the probes it may miss.
LEMMA StraddlingRows ==
    ASSUME NEW bound \in Nat, NEW A, Finite(A, bound), NEW key, NEW width, NEW cutoff,
           NEW f \in Fields
    PROVE  SumOver(Rows(A, key), Straddling(Rows(A, key), width, cutoff), f)
              = Summary(Missed(A, key, width, cutoff))[f]
<1>1. DOMAIN Rows(A, key) = {key[p] : p \in A}
  BY DEF Rows
<1>2. PICK starts \in SUBSET {key[p] : p \in A} :
          starts = Straddling(Rows(A, key), width, cutoff)
  BY <1>1 DEF Straddling
<1>3. IsFiniteSet(starts)
  BY ImageIsFinite
<1>4. SumOver(Rows(A, key), starts, f) = Summary({p \in A : key[p] \in starts})[f]
  BY <1>3, SumOverRows
<1>5. {p \in A : key[p] \in starts} = Missed(A, key, width, cutoff)
  BY <1>1, <1>2 DEF Straddling, Missed
<1> QED
  BY <1>2, <1>4, <1>5

\* A probe since a cutoff whose row is not reported is one of those missed.
LEMMA LateOrMissed ==
    ASSUME NEW key, IsKey(key), NEW width \in Nat, IsBucket(key, width), NEW some \in SUBSET AnyProbe,
           NEW cutoff \in Nat, NEW p \in some, p.at >= cutoff
    PROVE  p \in Late(some, key, cutoff) \/ p \in Missed(some, key, width, cutoff)
<1>1. key[p] \in Nat /\ p.at \in Nat /\ p.at < key[p] + width
  BY DEF IsKey, IsBucket, AnyProbe
<1>2. PICK k \in Nat : k = key[p]
  BY <1>1
<1>3. k >= cutoff \/ (k < cutoff /\ cutoff < k + width)
  BY <1>1, <1>2
<1> QED
  BY <1>2, <1>3 DEF Late, Missed

\* What is reported since a cutoff has only such probes.
LEMMA LateIsSince ==
    ASSUME NEW key, IsKey(key), NEW some \in SUBSET AnyProbe, NEW cutoff \in Nat,
           NEW p \in Late(some, key, cutoff)
    PROVE  p \in some /\ p.at >= cutoff
<1>1. p \in some /\ key[p] >= cutoff
  BY DEF Late
<1>2. key[p] \in Nat /\ p.at \in Nat /\ key[p] <= p.at
  BY <1>1 DEF IsKey, AnyProbe
<1> QED
  BY <1>1, <1>2

\* What is reported since a cutoff counts no probe before it, and misses at most those in
\* rows whose bucket began before it and ends after it, and those that are forgotten.
THEOREM WindowsAreClose == RollupSpec => []WindowCountsAreClose
<1>1. IInv => WindowCountsAreClose
  <2> SUFFICES ASSUME IInv PROVE WindowCountsAreClose
    OBVIOUS
  <2>1. PICK place : Places(place) /\ Holds(tables, place)
    BY DEF IInv, Told
  <2>2. /\ place \in [probes -> 0 .. 4] /\ IsPlace(place, probes)
        /\ DOMAIN place = probes /\ time \in Nat /\ Finite(probes, time) /\ probes \in SUBSET AnyProbe
    BY <2>1 DEF Places, IsPlace, IInv, Finite
  <2>3. PICK bound \in Nat : bound = time
    BY <2>2
  <2>4. PICK forgotten : forgotten = probes \ Kept(Day - 1)
    OBVIOUS
  <2>5. PICK A4 : A4 = At(place, 4)
    OBVIOUS
  <2>6. PICK A3 : A3 = At(place, 3) /\ tables.minute = Rows(A3, MinuteOf)
    BY <2>1 DEF Holds
  <2>7. PICK A2 : A2 = At(place, 2) /\ tables.hour = Rows(A2, HourOf)
    BY <2>1 DEF Holds
  <2>8. PICK A1 : A1 = At(place, 1) /\ tables.day = Rows(A1, DayOf)
    BY <2>1 DEF Holds
  <2>9. /\ A4 \in SUBSET probes /\ A3 \in SUBSET probes /\ A2 \in SUBSET probes
        /\ A1 \in SUBSET probes /\ forgotten \in SUBSET probes
    BY <2>2, <2>4, <2>5, <2>6, <2>7, <2>8 DEF At
  <2>10. \A p \in probes : p \in A4 \/ p \in A3 \/ p \in A2 \/ p \in A1 \/ p \in forgotten
    <3>1. \A p \in probes : place[p] = 0 \/ place[p] = 1 \/ place[p] = 2 \/ place[p] = 3 \/ place[p] = 4
      BY <2>2
    <3>2. \A p \in probes : place[p] = 0 => p \in forgotten
      BY <2>1, <2>4 DEF Places
    <3> QED
      BY <2>2, <2>5, <2>6, <2>7, <2>8, <3>1, <3>2 DEF At
  <2>11. Finite(probes, bound)
    BY <2>2, <2>3
  <2>12. ASSUME NEW cutoff \in 1 .. time, NEW f \in Fields
         PROVE  WindowStats(tables, cutoff)[f] \in
                    Summary(Since(cutoff))[f]
                    - (SumOver(tables.minute, Straddling(tables.minute, Minute, cutoff), f)
                       + SumOver(tables.hour, Straddling(tables.hour, Hour, cutoff), f)
                       + SumOver(tables.day, Straddling(tables.day, Day, cutoff), f))
                    - Summary(probes \ Kept(Day - 1))[f] .. Summary(Since(cutoff))[f]
    <3>1. cutoff \in Nat
      OBVIOUS
    <3>2. PICK X : X = Reported(place, cutoff)
      OBVIOUS
    <3>3. WindowStats(tables, cutoff) = Summary(X)
      <4>1. PICK t : t = tables
        OBVIOUS
      <4>2. WindowStats(t, cutoff) = Summary(Reported(place, cutoff))
        BY <2>1, <2>2, <2>11, <4>1, WindowStatsIs
      <4> QED
        BY <3>2, <4>1, <4>2
    <3>4. PICK S : S = Since(cutoff)
      OBVIOUS
    <3>5. PICK m3 : m3 = Missed(A3, MinuteOf, Minute, cutoff)
      OBVIOUS
    <3>6. PICK m2 : m2 = Missed(A2, HourOf, Hour, cutoff)
      OBVIOUS
    <3>7. PICK m1 : m1 = Missed(A1, DayOf, Day, cutoff)
      OBVIOUS
    <3>8. Finite(A3, bound) /\ Finite(A2, bound) /\ Finite(A1, bound) /\ Finite(forgotten, bound)
      BY <2>9, <2>11, FinitePart
    <3>9. /\ SumOver(tables.minute, Straddling(tables.minute, Minute, cutoff), f) = Summary(m3)[f]
          /\ SumOver(tables.hour, Straddling(tables.hour, Hour, cutoff), f) = Summary(m2)[f]
          /\ SumOver(tables.day, Straddling(tables.day, Day, cutoff), f) = Summary(m1)[f]
      <4>1. SumOver(Rows(A3, MinuteOf), Straddling(Rows(A3, MinuteOf), Minute, cutoff), f) = Summary(m3)[f]
        BY <3>5, <3>8, StraddlingRows
      <4>2. SumOver(Rows(A2, HourOf), Straddling(Rows(A2, HourOf), Hour, cutoff), f) = Summary(m2)[f]
        BY <3>6, <3>8, StraddlingRows
      <4>3. SumOver(Rows(A1, DayOf), Straddling(Rows(A1, DayOf), Day, cutoff), f) = Summary(m1)[f]
        BY <3>7, <3>8, StraddlingRows
      <4> QED
        BY <2>6, <2>7, <2>8, <4>1, <4>2, <4>3
    <3>10. /\ m3 \in SUBSET probes /\ m2 \in SUBSET probes /\ m1 \in SUBSET probes
           /\ S \in SUBSET probes
      BY <2>9, <3>4, <3>5, <3>6, <3>7 DEF Missed, Since
    <3>11. \A p : p \in X <=> \/ p \in A4 /\ p.at >= cutoff
                              \/ p \in Late(A3, MinuteOf, cutoff)
                              \/ p \in Late(A2, HourOf, cutoff)
                              \/ p \in Late(A1, DayOf, cutoff)
      BY <2>5, <2>6, <2>7, <2>8, <3>2 DEF Reported, Late
    <3>12. A3 \in SUBSET AnyProbe /\ A2 \in SUBSET AnyProbe /\ A1 \in SUBSET AnyProbe
      BY <2>2, <2>9
    <3>13. X \in SUBSET S
      <4>1. ASSUME NEW p \in X PROVE p \in probes /\ p.at >= cutoff
        <5>1. CASE p \in A4 /\ p.at >= cutoff
          BY <2>9, <5>1
        <5>2. CASE p \in Late(A3, MinuteOf, cutoff)
          BY <2>9, <3>1, <3>12, <5>2, AllAreKeys, LateIsSince
        <5>3. CASE p \in Late(A2, HourOf, cutoff)
          BY <2>9, <3>1, <3>12, <5>3, AllAreKeys, LateIsSince
        <5>4. CASE p \in Late(A1, DayOf, cutoff)
          BY <2>9, <3>1, <3>12, <5>4, AllAreKeys, LateIsSince
        <5> QED
          BY <3>11, <5>1, <5>2, <5>3, <5>4
      <4> QED
        BY <3>4, <4>1 DEF Since
    <3>14. PICK U1 : U1 = m1 \cup forgotten
      OBVIOUS
    <3>15. PICK U2 : U2 = m2 \cup U1
      OBVIOUS
    <3>16. PICK U3 : U3 = m3 \cup U2
      OBVIOUS
    <3>17. PICK U : U = X \cup U3
      OBVIOUS
    <3>18. S \in SUBSET U
      <4>1. ASSUME NEW p \in S PROVE p \in X \/ p \in m3 \/ p \in m2 \/ p \in m1 \/ p \in forgotten
        <5>1. p \in probes /\ p.at >= cutoff
          BY <3>4 DEF Since
        <5>2. Minute \in Nat /\ Hour \in Nat /\ Day \in Nat
          BY Widths
        <5>3. CASE p \in A4
          BY <3>11, <5>1, <5>3
        <5>4. CASE p \in A3
          <6>1. p \in Late(A3, MinuteOf, cutoff) \/ p \in Missed(A3, MinuteOf, Minute, cutoff)
            BY <3>1, <3>12, <5>1, <5>2, <5>4, AllAreKeys, LateOrMissed
          <6> QED
            BY <3>5, <3>11, <6>1
        <5>5. CASE p \in A2
          <6>1. p \in Late(A2, HourOf, cutoff) \/ p \in Missed(A2, HourOf, Hour, cutoff)
            BY <3>1, <3>12, <5>1, <5>2, <5>5, AllAreKeys, LateOrMissed
          <6> QED
            BY <3>6, <3>11, <6>1
        <5>6. CASE p \in A1
          <6>1. p \in Late(A1, DayOf, cutoff) \/ p \in Missed(A1, DayOf, Day, cutoff)
            BY <3>1, <3>12, <5>1, <5>2, <5>6, AllAreKeys, LateOrMissed
          <6> QED
            BY <3>7, <3>11, <6>1
        <5> QED
          BY <2>10, <5>1, <5>3, <5>4, <5>5, <5>6
      <4> QED
        BY <3>14, <3>15, <3>16, <3>17, <4>1
    <3>19. U \in SUBSET probes /\ U3 \in SUBSET probes /\ U2 \in SUBSET probes /\ U1 \in SUBSET probes
           /\ X \in SUBSET probes
      BY <2>9, <3>10, <3>13, <3>14, <3>15, <3>16, <3>17
    <3>20. /\ Finite(U, bound) /\ Finite(U3, bound) /\ Finite(U2, bound) /\ Finite(U1, bound)
           /\ Finite(X, bound) /\ Finite(S, bound) /\ Finite(m3, bound) /\ Finite(m2, bound)
           /\ Finite(m1, bound)
      BY <2>11, <3>10, <3>19, FinitePart
    <3>21. Summary(X)[f] \in Nat /\ Summary(S)[f] \in Nat /\ Summary(X)[f] <= Summary(S)[f]
      BY <3>13, <3>20, SummaryGrows
    <3>22. Summary(U)[f] \in Nat /\ Summary(S)[f] <= Summary(U)[f]
      BY <3>18, <3>20, SummaryGrows
    <3>23. Summary(U3)[f] \in Nat /\ Summary(U)[f] <= Summary(X)[f] + Summary(U3)[f]
      BY <3>17, <3>20, SummaryOfUnion
    <3>24. /\ Summary(m3)[f] \in Nat /\ Summary(U2)[f] \in Nat
           /\ Summary(U3)[f] <= Summary(m3)[f] + Summary(U2)[f]
      BY <3>16, <3>20, SummaryOfUnion
    <3>25. /\ Summary(m2)[f] \in Nat /\ Summary(U1)[f] \in Nat
           /\ Summary(U2)[f] <= Summary(m2)[f] + Summary(U1)[f]
      BY <3>15, <3>20, SummaryOfUnion
    <3>26. /\ Summary(m1)[f] \in Nat /\ Summary(forgotten)[f] \in Nat
           /\ Summary(U1)[f] <= Summary(m1)[f] + Summary(forgotten)[f]
      BY <3>8, <3>14, <3>20, SummaryOfUnion
    <3>27. Summary(X)[f] \in Summary(S)[f]
               - (Summary(m3)[f] + Summary(m2)[f] + Summary(m1)[f])
               - Summary(forgotten)[f] .. Summary(S)[f]
      BY <3>21, <3>22, <3>23, <3>24, <3>25, <3>26
    <3> QED
      BY <2>4, <3>3, <3>4, <3>9, <3>27
  <2> QED
    BY <2>12 DEF WindowCountsAreClose, Fields
<1> QED
  BY <1>1, InvariantHolds, PTL

-----------------------------------------------------------------------------
(* Runs of outcomes *)

\* Reportable probes with moments of their own.
Timed(some, bound) ==
    /\ Finite(some, bound)
    /\ \A p, q \in some : p.at = q.at => p = q
    /\ \A p \in some : Reportable(p)

\* So have some of them.
LEMMA TimedPart ==
    ASSUME NEW bound, NEW S, Timed(S, bound), NEW T \in SUBSET S
    PROVE  Timed(T, bound)
BY FinitePart DEF Timed

\* The latest of some probes is one of them.
LEMMA LatestIs ==
    ASSUME NEW bound \in Nat, NEW S, Timed(S, bound), S # {}
    PROVE  Latest(S) \in S /\ \A q \in S : q.at <= Latest(S).at
<1>1. PICK moments \in SUBSET Nat : moments = {p.at : p \in S}
  BY DEF Timed, Finite, AnyProbe
<1>2. moments # {} /\ \A m \in moments : m <= bound
  BY <1>1 DEF Timed, Finite
<1>3. Max(moments) \in moments /\ \A m \in moments : m <= Max(moments)
  BY <1>2, MaxOf
<1>4. PICK p \in S : p.at = Max(moments)
  BY <1>1, <1>3
<1>5. \E l \in S : \A q \in S : q.at <= l.at
  BY <1>1, <1>3, <1>4
<1> QED
  BY <1>5 DEF Latest

\* A probe that is later than all others is the latest.
LEMMA LatestOf ==
    ASSUME NEW bound \in Nat, NEW S, Timed(S, bound), NEW p \in S, \A q \in S : q.at <= p.at
    PROVE  Latest(S) = p
<1>1. Latest(S) \in S /\ \A q \in S : q.at <= Latest(S).at
  BY LatestIs
<1>2. p.at <= Latest(S).at /\ Latest(S).at <= p.at /\ p.at \in Nat /\ Latest(S).at \in Nat
  BY <1>1 DEF Timed, Finite, AnyProbe
<1>3. p.at = Latest(S).at
  BY <1>2
<1> QED
  BY <1>1, <1>3 DEF Timed

\* Induction over probes in the order of their moments.
LEMMA ByLatest ==
    ASSUME NEW bound \in Nat, NEW S, Timed(S, bound), NEW good, {} \in good,
           \A T \in SUBSET S : T # {} /\ T \ {Latest(T)} \in good => T \in good
    PROVE  S \in good
<1> DEFINE sizes == {n \in 0 .. Cardinality(S) : \A T \in SUBSET S : Cardinality(T) = n => T \in good}
<1>1. Cardinality(S) \in Nat /\ IsFiniteSet(S)
  BY FS_CardinalityType DEF Timed, Finite
<1>2. \A T \in SUBSET S : IsFiniteSet(T)
  BY <1>1, FS_Subset
<1>3. 0 \in sizes
  <2>1. \A T \in SUBSET S : Cardinality(T) = 0 => T = {}
    BY <1>2, FS_EmptySet
  <2>2. \A T \in SUBSET S : Cardinality(T) = 0 => T \in good
    BY <2>1, Zenon
  <2>3. 0 \in 0 .. Cardinality(S)
    BY <1>1
  <2> QED
    BY <2>2, <2>3, Zenon
<1>4. ASSUME NEW n \in 0 .. Cardinality(S) - 1, n \in sizes PROVE n + 1 \in sizes
  <2>1. n + 1 \in 0 .. Cardinality(S)
    BY <1>1
  <2>2. ASSUME NEW T \in SUBSET S, Cardinality(T) = n + 1 PROVE T \in good
    <3>1. T # {}
      <4>1. n + 1 # 0
        OBVIOUS
      <4> QED
        BY <2>2, <4>1, FS_EmptySet
    <3>2. PICK l : l = Latest(T)
      OBVIOUS
    <3>3. l \in T
      <4>1. Timed(T, bound)
        BY TimedPart
      <4> QED
        BY <3>1, <3>2, <4>1, LatestIs
    <3>4. Cardinality(T \ {l}) = Cardinality(T) - 1
      BY <1>2, <3>3, FS_RemoveElement
    <3>5. Cardinality(T \ {l}) = n /\ T \ {l} \in SUBSET S
      BY <2>2, <3>4
    <3>6. T \ {l} \in good
      BY <1>4, <3>5
    <3> HIDE DEF sizes
    <3> QED
      BY <3>1, <3>2, <3>6
  <2> QED
    BY <2>1, <2>2
<1> HIDE DEF sizes
<1>5. 0 .. Cardinality(S) \subseteq sizes
  BY <1>1, <1>3, <1>4, Counting
<1>6. Cardinality(S) \in sizes
  BY <1>1, <1>5
<1> QED
  BY <1>6 DEF sizes

\* h appends the probes of every part of S to runs.
Appends(h, runs, S) ==
    \A T \in SUBSET S :
        h[T] = IF T = {} THEN runs ELSE AppendOutcomeRun(h[T \ {Latest(T)}], Latest(T))

\* There is such a function.
LEMMA AppendsExists ==
    ASSUME NEW bound \in Nat, NEW S, Timed(S, bound), NEW runs
    PROVE  \E h : DOMAIN h = SUBSET S /\ Appends(h, runs, S)
<1> DEFINE good == {T \in SUBSET S : \E h : DOMAIN h = SUBSET T /\ Appends(h, runs, T)}
<1>1. {} \in good
  <2> DEFINE h == [T \in SUBSET {} |-> runs]
  <2>1. \A T \in SUBSET {} : T = {}
    OBVIOUS
  <2>2. DOMAIN h = SUBSET {} /\ \A T \in SUBSET {} : h[T] = runs
    OBVIOUS
  <2> HIDE DEF h
  <2>3. Appends(h, runs, {})
    BY <2>1, <2>2 DEF Appends
  <2> QED
    BY <2>2, <2>3
<1>2. ASSUME NEW U \in SUBSET S, U # {}, U \ {Latest(U)} \in good PROVE U \in good
  <2>1. PICK l : l = Latest(U)
    OBVIOUS
  <2>2. PICK f : DOMAIN f = SUBSET (U \ {l}) /\ Appends(f, runs, U \ {l})
    BY <1>2, <2>1
  <2>3. Timed(U, bound)
    BY TimedPart
  <2>4. l \in U /\ \A q \in U : q.at <= l.at
    BY <1>2, <2>1, <2>3, LatestIs
  <2> HIDE DEF good
  <2> DEFINE g == [T \in SUBSET U |-> IF l \in T THEN AppendOutcomeRun(f[T \ {l}], l) ELSE f[T]]
  <2>5. ASSUME NEW T \in SUBSET U
        PROVE  g[T] = IF T = {} THEN runs ELSE AppendOutcomeRun(g[T \ {Latest(T)}], Latest(T))
    <3>1. CASE l \in T
      <4>1. Latest(T) = l
        <5>1. Timed(T, bound) /\ \A q \in T : q.at <= l.at
          BY <2>3, <2>4, TimedPart
        <5> QED
          BY <3>1, <5>1, LatestOf
      <4>2. T \ {l} \in SUBSET U /\ l \notin T \ {l} /\ T # {}
        BY <3>1
      <4>3. g[T \ {l}] = f[T \ {l}] /\ g[T] = AppendOutcomeRun(f[T \ {l}], l)
        BY <3>1, <4>2
      <4> HIDE DEF g
      <4> QED
        BY <4>1, <4>2, <4>3
    <3>2. CASE l \notin T
      <4>1. T \in SUBSET (U \ {l}) /\ g[T] = f[T]
        BY <3>2
      <4>2. CASE T = {}
        BY <2>2, <4>1, <4>2 DEF Appends
      <4>3. CASE T # {}
        <5>1. l \notin T \ {Latest(T)} /\ T \ {Latest(T)} \in SUBSET U
          BY <3>2
        <5>2. g[T \ {Latest(T)}] = f[T \ {Latest(T)}]
          BY <5>1
        <5>3. f[T] = AppendOutcomeRun(f[T \ {Latest(T)}], Latest(T))
          BY <2>2, <4>1, <4>3 DEF Appends
        <5> HIDE DEF g
        <5> QED
          BY <4>1, <4>3, <5>2, <5>3
      <4> QED
        BY <4>2, <4>3
    <3> QED
      BY <3>1, <3>2
  <2>6. DOMAIN g = SUBSET U
    OBVIOUS
  <2> HIDE DEF g
  <2>7. Appends(g, runs, U)
    BY <2>5 DEF Appends
  <2> QED
    BY <2>6, <2>7 DEF good
<1> HIDE DEF good
<1>3. S \in good
  BY <1>1, <1>2, ByLatest
<1> QED
  BY <1>3 DEF good

\* It is the only such function.
LEMMA AppendsAgree ==
    ASSUME NEW bound \in Nat, NEW S, Timed(S, bound), NEW runs, NEW f, NEW g,
           Appends(f, runs, S), Appends(g, runs, S)
    PROVE  f[S] = g[S]
<1> DEFINE good == {T \in SUBSET S : f[T] = g[T]}
<1>1. {} \in good
  BY DEF Appends
<1>2. ASSUME NEW T \in SUBSET S, T # {}, T \ {Latest(T)} \in good PROVE T \in good
  BY <1>2 DEF Appends
<1> HIDE DEF good
<1>3. S \in good
  BY <1>1, <1>2, ByLatest
<1> QED
  BY <1>3 DEF good

\* OutcomeRuns is the value of one.
LEMMA RunsAppended ==
    ASSUME NEW bound \in Nat, NEW S, Timed(S, bound), NEW runs
    PROVE  \E h : Appends(h, runs, S) /\ OutcomeRuns(runs, S) = h[S]
<1> DEFINE f == CHOOSE h : h = [T \in SUBSET S |->
                   IF T = {} THEN runs ELSE AppendOutcomeRun(h[T \ {Latest(T)}], Latest(T))]
<1>1. OutcomeRuns(runs, S) = f[S]
  <2>1. {p \in S : Reportable(p)} = S
    BY DEF Timed
  <2> QED
    BY <2>1 DEF OutcomeRuns, MapThenFoldSet
<1>2. PICK h : DOMAIN h = SUBSET S /\ Appends(h, runs, S)
  BY AppendsExists
<1> DEFINE p == [T \in SUBSET S |-> h[T]]
           e(g, T) == IF T = {} THEN runs ELSE AppendOutcomeRun(g[T \ {Latest(T)}], Latest(T))
<1>3. ASSUME NEW T \in SUBSET S PROVE p[T] = e(p, T)
  <2>1. T \ {Latest(T)} \in SUBSET S
    OBVIOUS
  <2>2. p[T \ {Latest(T)}] = h[T \ {Latest(T)}] /\ p[T] = h[T]
    BY <2>1
  <2> HIDE DEF p
  <2> QED
    BY <1>2, <2>2 DEF Appends
<1>4. p = [T \in SUBSET S |-> p[T]]
  OBVIOUS
<1> HIDE DEF p
<1>5. p = [T \in SUBSET S |-> e(p, T)]
  BY <1>3, <1>4
<1>6. f = [T \in SUBSET S |-> e(f, T)]
  BY <1>5, Zenon
<1> HIDE DEF f
<1>7. ASSUME NEW T \in SUBSET S PROVE f[T] = e(f, T)
  BY <1>6
<1>8. Appends(f, runs, S)
  BY <1>7 DEF Appends
<1> QED
  BY <1>1, <1>8

\* No probe adds nothing, and a later one is appended.
LEMMA RunsOfNone ==
    ASSUME NEW runs PROVE OutcomeRuns(runs, {}) = runs
<1>1. PICK bound \in Nat : bound = 0
  OBVIOUS
<1>2. Timed({}, bound)
  BY FS_EmptySet DEF Timed, Finite
<1>3. PICK S : S = {}
  OBVIOUS
<1>4. PICK h : Appends(h, runs, S) /\ OutcomeRuns(runs, S) = h[S]
  BY <1>2, <1>3, RunsAppended
<1> QED
  BY <1>3, <1>4 DEF Appends

\* The latest probe is appended to the runs of those before it.
LEMMA RunsOfOneMore ==
    ASSUME NEW bound \in Nat, NEW S, Timed(S, bound), NEW p \in S, \A q \in S : q.at <= p.at,
           NEW rest, rest = S \ {p}, NEW runs
    PROVE  OutcomeRuns(runs, S) = AppendOutcomeRun(OutcomeRuns(runs, rest), p)
<1>1. PICK f : Appends(f, runs, S) /\ OutcomeRuns(runs, S) = f[S]
  BY RunsAppended
<1>2. rest \in SUBSET S /\ Timed(rest, bound)
  BY TimedPart
<1>3. PICK g : Appends(g, runs, rest) /\ OutcomeRuns(runs, rest) = g[rest]
  BY <1>2, RunsAppended
<1>4. Appends(f, runs, rest)
  BY <1>1, <1>2 DEF Appends
<1>5. f[rest] = g[rest]
  BY <1>2, <1>3, <1>4, AppendsAgree
<1>6. Latest(S) = p
  BY LatestOf
<1>7. f[S] = AppendOutcomeRun(f[rest], p)
  BY <1>1, <1>6 DEF Appends
<1> QED
  BY <1>1, <1>3, <1>5, <1>7

\* Runs go on where they ended.
LEMMA RunsInTwo ==
    ASSUME NEW bound \in Nat, NEW A, NEW B, Timed(A \cup B, bound),
           \A p \in A, q \in B : p.at < q.at, NEW runs
    PROVE  OutcomeRuns(OutcomeRuns(runs, A), B) = OutcomeRuns(runs, A \cup B)
<1>1. PICK first : first = OutcomeRuns(runs, A)
  OBVIOUS
<1>2. PICK both : both = A \cup B
  OBVIOUS
<1>3. Timed(both, bound) /\ Timed(B, bound)
  BY <1>2, TimedPart
<1> DEFINE good == {T \in SUBSET B : OutcomeRuns(first, T) = OutcomeRuns(runs, A \cup T)}
<1>4. {} \in good
  <2>1. A \cup {} = A
    OBVIOUS
  <2> QED
    BY <1>1, <2>1, RunsOfNone
<1>5. ASSUME NEW T \in SUBSET B, T # {}, T \ {Latest(T)} \in good PROVE T \in good
  <2>1. PICK l : l = Latest(T)
    OBVIOUS
  <2>2. PICK rest : rest = T \ {l}
    OBVIOUS
  <2>3. OutcomeRuns(first, rest) = OutcomeRuns(runs, A \cup rest)
    BY <1>5, <2>1, <2>2
  <2> HIDE DEF good
  <2>4. Timed(T, bound)
    BY <1>3, TimedPart
  <2>5. l \in T /\ \A q \in T : q.at <= l.at
    BY <1>5, <2>1, <2>4, LatestIs
  <2>6. OutcomeRuns(first, T) = AppendOutcomeRun(OutcomeRuns(first, rest), l)
    BY <2>2, <2>4, <2>5, RunsOfOneMore
  <2>7. PICK U : U = A \cup T
    OBVIOUS
  <2>8. U \in SUBSET both /\ Timed(U, bound)
    BY <1>2, <1>3, <2>7, TimedPart
  <2>9. l \in U /\ \A q \in U : q.at <= l.at
    <3>1. ASSUME NEW q \in U PROVE q.at <= l.at
      <4>1. CASE q \in A
        <5>1. q.at < l.at /\ q.at \in Nat /\ l.at \in Nat
          BY <2>5, <2>7, <2>8, <4>1 DEF Timed, Finite, AnyProbe
        <5> QED
          BY <5>1
      <4>2. CASE q \in T
        BY <2>5, <4>2
      <4> QED
        BY <2>7, <4>1, <4>2
    <3> QED
      BY <2>5, <2>7, <3>1
  <2>10. A \cup rest = U \ {l}
    <3>1. l \notin A
      <4>1. \A q \in A : q.at < l.at /\ q.at \in Nat
        BY <1>2, <1>3, <2>5 DEF Timed, Finite, AnyProbe
      <4> QED
        BY <4>1
    <3> QED
      BY <2>2, <2>7, <3>1
  <2>11. OutcomeRuns(runs, U) = AppendOutcomeRun(OutcomeRuns(runs, A \cup rest), l)
    BY <2>8, <2>9, <2>10, RunsOfOneMore
  <2> QED
    BY <2>3, <2>6, <2>7, <2>11 DEF good
<1> HIDE DEF good
<1>6. B \in good
  BY <1>3, <1>4, <1>5, ByLatest
<1> QED
  BY <1>1, <1>6 DEF good

-----------------------------------------------------------------------------
(* Runs cover their probes *)

OutcomeRun == [ok : BOOLEAN, from : Nat, to : Nat, count : Nat]

\* Runs follow each other.
InTurn(runs) ==
    /\ \A r \in runs : r.from <= r.to
    /\ \A r, q \in runs : r.from < q.from => r.to < q.from
    /\ \A r, q \in runs : r.from = q.from => r = q

RunsSince(runs, moment) == {r \in runs : r.from >= moment}
ProbesSince(some, moment) == {p \in some : p.at >= moment}

\* They cover the probes, and those since a run begins give it and the ones after it.
Cover(runs, some) ==
    /\ runs \in SUBSET OutcomeRun /\ InTurn(runs)
    /\ \A p \in some : \E r \in runs : r.from <= p.at /\ p.at <= r.to
    /\ \A r \in runs : (\E p \in some : r.from = p.at) /\ (\E p \in some : r.to = p.at)
    /\ \A r \in runs : OutcomeRuns({}, ProbesSince(some, r.from)) = RunsSince(runs, r.from)

Longer(r, p) == [r EXCEPT !.to = p.at, !.count = @ + 1]
NewRun(p) == [ok |-> OK(p), from |-> p.at, to |-> p.at, count |-> 1]

\* Both are runs.
LEMMA LongerRun ==
    ASSUME NEW r \in OutcomeRun, NEW p \in AnyProbe
    PROVE  /\ Longer(r, p) \in OutcomeRun /\ Longer(r, p).from = r.from /\ Longer(r, p).to = p.at
           /\ NewRun(p) \in OutcomeRun /\ NewRun(p).from = p.at /\ NewRun(p).to = p.at
<1>1. OK(p) \in BOOLEAN
  BY DEF OK
<1>2. p.at \in Nat
  BY DEF AnyProbe
<1>3. PICK ok \in BOOLEAN : ok = OK(p)
  BY <1>1, Zenon
<1>4. NewRun(p) = [ok |-> ok, from |-> p.at, to |-> p.at, count |-> 1]
  BY <1>3 DEF NewRun
<1>5. /\ NewRun(p) \in OutcomeRun /\ NewRun(p).from = p.at /\ NewRun(p).to = p.at
  BY <1>2, <1>4 DEF OutcomeRun
<1>6. /\ Longer(r, p) \in OutcomeRun /\ Longer(r, p).from = r.from /\ Longer(r, p).to = p.at
  <2>1. PICK n \in Nat : n = r.count + 1
    BY DEF OutcomeRun
  <2>2. PICK t \in Nat : t = p.at
    BY <1>2
  <2>3. Longer(r, p) = [r EXCEPT !.to = t, !.count = n]
    BY <2>1, <2>2 DEF Longer
  <2>4. PICK l : l = [r EXCEPT !.to = t, !.count = n]
    OBVIOUS
  <2>5. l \in OutcomeRun
    BY <2>4 DEF OutcomeRun
  <2>6. l.from = r.from /\ l.to = t
    BY <2>4 DEF OutcomeRun
  <2> QED
    BY <2>2, <2>3, <2>4, <2>5, <2>6
<1> QED
  BY <1>5, <1>6

\* What AppendOutcomeRun does, with names for its two results.
LEMMA AppendIs ==
    ASSUME NEW runs, NEW p, NEW last, last = LastStarted(runs)
    PROVE  AppendOutcomeRun(runs, p) =
               IF runs # {} /\ last.ok = OK(p) THEN (runs \ {last}) \cup {Longer(last, p)}
               ELSE runs \cup {NewRun(p)}
BY Zenon DEF AppendOutcomeRun, Longer, NewRun

\* The run that was started last.
LEMMA LastStartedIs ==
    ASSUME NEW bound \in Nat, NEW runs \in SUBSET OutcomeRun, runs # {},
           \A r \in runs : r.from <= bound
    PROVE  LastStarted(runs) \in runs /\ \A r \in runs : r.from <= LastStarted(runs).from
<1>1. PICK moments \in SUBSET Nat : moments = {r.from : r \in runs}
  BY DEF OutcomeRun
<1>2. moments # {} /\ \A m \in moments : m <= bound
  BY <1>1
<1>3. Max(moments) \in moments /\ \A m \in moments : m <= Max(moments)
  BY <1>2, MaxOf
<1>4. PICK latest \in runs : latest.from = Max(moments)
  BY <1>1, <1>3
<1>5. \E l \in runs : \A r \in runs : r.from <= l.from
  BY <1>1, <1>3, <1>4
<1> QED
  BY <1>5 DEF LastStarted

\* A run that no other began after is the last one.
LEMMA LastStartedOf ==
    ASSUME NEW bound \in Nat, NEW runs \in SUBSET OutcomeRun, \A r \in runs : r.from <= bound,
           InTurn(runs), NEW l \in runs, \A r \in runs : r.from <= l.from
    PROVE  LastStarted(runs) = l
<1>1. LastStarted(runs) \in runs /\ \A r \in runs : r.from <= LastStarted(runs).from
  BY LastStartedIs
<1>2. /\ l.from <= LastStarted(runs).from /\ LastStarted(runs).from <= l.from
      /\ l.from \in Nat /\ LastStarted(runs).from \in Nat
  BY <1>1 DEF OutcomeRun
<1>3. l.from = LastStarted(runs).from
  BY <1>2
<1> QED
  BY <1>1, <1>3 DEF InTurn

\* The last of some runs, which all began before a later probe.
LEMMA LastOfCovering ==
    ASSUME NEW bound \in Nat, NEW S, Timed(S, bound), NEW runs, Cover(runs, S), runs # {}
    PROVE  /\ LastStarted(runs) \in runs /\ \A r \in runs : r.from <= LastStarted(runs).from
           /\ \A r \in runs : r.from <= bound
<1>1. \A r \in runs : r.from <= bound
  BY DEF Cover, Timed, Finite
<1> QED
  BY <1>1, LastStartedIs DEF Cover

\* The last of all runs is the last of those since any of them begins.
LEMMA LastOfSince ==
    ASSUME NEW bound \in Nat, NEW S, Timed(S, bound), NEW runs, Cover(runs, S),
           NEW r \in runs, NEW last, last = LastStarted(runs)
    PROVE  last \in RunsSince(runs, r.from) /\ LastStarted(RunsSince(runs, r.from)) = last
<1>1. PICK some \in SUBSET runs : some = RunsSince(runs, r.from)
  BY DEF RunsSince
<1>2. /\ last \in runs /\ \A q \in runs : q.from <= last.from
      /\ \A q \in runs : q.from <= bound
  BY LastOfCovering
<1>3. last \in some
  BY <1>1, <1>2 DEF RunsSince, Cover, OutcomeRun
<1>4. InTurn(some) /\ some \in SUBSET OutcomeRun
  BY DEF InTurn, Cover
<1>5. LastStarted(some) = last
  BY <1>2, <1>3, <1>4, LastStartedOf
<1> QED
  BY <1>1, <1>3, <1>5

\* A later probe makes the last run longer.
LEMMA GrownCovers ==
    ASSUME NEW bound \in Nat, NEW S, Timed(S, bound), NEW p \in S, \A q \in S : q.at <= p.at,
           NEW rest, rest = S \ {p}, NEW runs, Cover(runs, rest), runs # {},
           NEW last, last = LastStarted(runs), last.ok = OK(p),
           NEW new, new = (runs \ {last}) \cup {Longer(last, p)}
    PROVE  Cover(new, S)
<1>1. Timed(rest, bound) /\ rest \in SUBSET S
  BY TimedPart
<1>2. last \in runs /\ \A r \in runs : r.from <= last.from
  BY <1>1, LastOfCovering
<1>3. PICK l : l = Longer(last, p)
  OBVIOUS
<1>4. last \in OutcomeRun /\ p \in AnyProbe
  BY <1>2 DEF Cover, Timed, Finite
<1>5. l \in OutcomeRun /\ l.from = last.from /\ l.to = p.at
  BY <1>3, <1>4, LongerRun
<1>6. \A q \in rest : q.at < p.at /\ q.at \in Nat
  <2>1. ASSUME NEW q \in rest PROVE q.at < p.at /\ q.at \in Nat
    <3>1. q.at # p.at /\ q.at <= p.at /\ q.at \in Nat /\ p.at \in Nat
      BY <1>1 DEF Timed, Finite, AnyProbe
    <3> QED
      BY <3>1
  <2> QED
    BY <2>1
<1>7. /\ runs \in SUBSET OutcomeRun /\ InTurn(runs)
      /\ \A r \in runs : r.from \in Nat /\ r.to \in Nat /\ r.from <= r.to /\ r.to < p.at /\ r.from < p.at
  <2>1. ASSUME NEW r \in runs
        PROVE  r.from \in Nat /\ r.to \in Nat /\ r.from <= r.to /\ r.to < p.at /\ r.from < p.at
    <3>1. r.from \in Nat /\ r.to \in Nat /\ r.from <= r.to
      BY DEF Cover, InTurn, OutcomeRun
    <3>2. \E q \in rest : r.from = q.at
      BY DEF Cover
    <3>3. \E q \in rest : r.to = q.at
      BY DEF Cover
    <3> QED
      BY <1>6, <3>1, <3>2, <3>3
  <2> QED
    BY <2>1 DEF Cover
<1>8. \A r \in runs \ {last} : r.from < last.from /\ r.to < last.from
  <2>1. ASSUME NEW r \in runs, r # last PROVE r.from < last.from /\ r.to < last.from
    <3>1. r.from # last.from
      BY <1>2, <1>7, <2>1 DEF InTurn
    <3>2. r.from <= last.from /\ r.from \in Nat /\ last.from \in Nat
      BY <1>2, <1>7
    <3>3. r.from < last.from
      BY <3>1, <3>2
    <3> QED
      BY <1>2, <1>7, <3>3 DEF InTurn
  <2> QED
    BY <2>1
<1>9. new = (runs \ {last}) \cup {l} /\ new \in SUBSET OutcomeRun
  BY <1>3, <1>5, <1>7
<1>10. InTurn(new)
  <2>1. ASSUME NEW r \in new PROVE r.from <= r.to
    <3>1. CASE r = l
      <4>1. last.from \in Nat /\ last.from < p.at
        BY <1>2, <1>7
      <4>2. p.at \in Nat
        BY <1>4 DEF AnyProbe
      <4> QED
        BY <1>5, <3>1, <4>1, <4>2
    <3>2. CASE r \in runs
      BY <1>7, <3>2
    <3> QED
      BY <1>9, <3>1, <3>2
  <2>2. ASSUME NEW r \in new, NEW q \in new
        PROVE  (r.from < q.from => r.to < q.from) /\ (r.from = q.from => r = q)
    <3>1. CASE r = l /\ q = l
      BY <1>5, <3>1 DEF OutcomeRun
    <3>2. CASE r \in runs \ {last} /\ q \in runs \ {last}
      BY <1>7, <3>2 DEF InTurn
    <3>3. CASE r \in runs \ {last} /\ q = l
      <4>1. r.from < q.from /\ r.to < q.from /\ r.from \in Nat /\ q.from \in Nat
        BY <1>2, <1>5, <1>7, <1>8, <3>3
      <4> QED
        BY <4>1
    <3>4. CASE r = l /\ q \in runs \ {last}
      <4>1. q.from < r.from /\ r.from \in Nat /\ q.from \in Nat
        BY <1>2, <1>5, <1>7, <1>8, <3>4
      <4> QED
        BY <4>1
    <3> QED
      BY <1>9, <3>1, <3>2, <3>3, <3>4
  <2> QED
    BY <2>1, <2>2 DEF InTurn
<1>11. ASSUME NEW q \in S PROVE \E r \in new : r.from <= q.at /\ q.at <= r.to
  <2>1. CASE q = p
    BY <1>2, <1>4, <1>5, <1>7, <1>9, <2>1 DEF AnyProbe
  <2>2. CASE q \in rest
    <3>1. PICK r \in runs : r.from <= q.at /\ q.at <= r.to
      BY <2>2 DEF Cover
    <3>2. CASE r = last
      <4>1. l.from <= q.at /\ q.at <= l.to
        BY <1>4, <1>5, <1>6, <2>2, <3>1, <3>2 DEF AnyProbe
      <4> QED
        BY <1>9, <4>1
    <3>3. CASE r # last
      BY <1>9, <3>1, <3>3
    <3> QED
      BY <3>2, <3>3
  <2> QED
    BY <2>1, <2>2
<1>12. ASSUME NEW r \in new PROVE (\E q \in S : r.from = q.at) /\ (\E q \in S : r.to = q.at)
  <2>1. \A x \in runs : (\E q \in S : x.from = q.at) /\ (\E q \in S : x.to = q.at)
    BY <1>1 DEF Cover
  <2>2. CASE r = l
    BY <1>2, <1>5, <2>1, <2>2
  <2>3. CASE r \in runs
    BY <2>1, <2>3
  <2> QED
    BY <1>9, <2>2, <2>3
<1>13. ASSUME NEW r \in new
       PROVE  OutcomeRuns({}, ProbesSince(S, r.from)) = RunsSince(new, r.from)
  <2>1. PICK x \in runs : x.from = r.from
    BY <1>2, <1>5, <1>9
  <2>2. OutcomeRuns({}, ProbesSince(rest, x.from)) = RunsSince(runs, x.from)
    BY DEF Cover
  <2>3. PICK T : T = ProbesSince(S, x.from)
    OBVIOUS
  <2>4. PICK U : U = ProbesSince(rest, x.from)
    OBVIOUS
  <2>5. T \in SUBSET S /\ p \in T /\ U = T \ {p}
    <3>1. p.at >= x.from
      BY <1>4, <1>7 DEF AnyProbe
    <3> QED
      BY <2>3, <2>4, <3>1 DEF ProbesSince
  <2>6. OutcomeRuns({}, T) = AppendOutcomeRun(OutcomeRuns({}, U), p)
    <3>1. Timed(T, bound) /\ \A q \in T : q.at <= p.at
      BY <2>5, TimedPart
    <3> QED
      BY <2>5, <3>1, RunsOfOneMore
  <2>7. PICK tail : tail = RunsSince(runs, x.from)
    OBVIOUS
  <2>8. last \in tail /\ LastStarted(tail) = last
    BY <1>1, <2>7, LastOfSince
  <2>9. AppendOutcomeRun(tail, p) = (tail \ {last}) \cup {l}
    <3>1. tail # {}
      BY <2>8
    <3> QED
      BY <1>3, <2>8, <3>1, AppendIs
  <2>10. (tail \ {last}) \cup {l} = RunsSince(new, x.from)
    <3>1. l.from >= x.from
      BY <1>2, <1>5, <1>7
    <3> QED
      BY <1>9, <2>7, <3>1 DEF RunsSince
  <2> QED
    BY <2>1, <2>2, <2>3, <2>4, <2>6, <2>7, <2>9, <2>10
<1> QED
  BY <1>9, <1>10, <1>11, <1>12, <1>13 DEF Cover

\* Moments of runs are before a later probe.
LEMMA RunsAreBefore ==
    ASSUME NEW bound \in Nat, NEW S, Timed(S, bound), NEW p \in S, \A q \in S : q.at <= p.at,
           NEW rest, rest = S \ {p}, NEW runs, Cover(runs, rest)
    PROVE  /\ \A q \in rest : q.at < p.at /\ q.at \in Nat
           /\ \A r \in runs : /\ r.from \in Nat /\ r.to \in Nat /\ r.from <= r.to
                              /\ r.to < p.at /\ r.from < p.at
<1>1. Timed(rest, bound) /\ rest \in SUBSET S
  BY TimedPart
<1>2. ASSUME NEW q \in rest PROVE q.at < p.at /\ q.at \in Nat
  <2>1. q.at # p.at /\ q.at <= p.at /\ q.at \in Nat /\ p.at \in Nat
    BY <1>1 DEF Timed, Finite, AnyProbe
  <2> QED
    BY <2>1
<1>3. ASSUME NEW r \in runs
      PROVE  r.from \in Nat /\ r.to \in Nat /\ r.from <= r.to /\ r.to < p.at /\ r.from < p.at
  <2>1. r.from \in Nat /\ r.to \in Nat /\ r.from <= r.to
    BY DEF Cover, InTurn, OutcomeRun
  <2>2. \E q \in rest : r.from = q.at
    BY DEF Cover
  <2>3. \E q \in rest : r.to = q.at
    BY DEF Cover
  <2> QED
    BY <1>2, <2>1, <2>2, <2>3
<1> QED
  BY <1>2, <1>3

\* Or it begins a run of its own.
LEMMA BegunCovers ==
    ASSUME NEW bound \in Nat, NEW S, Timed(S, bound), NEW p \in S, \A q \in S : q.at <= p.at,
           NEW rest, rest = S \ {p}, NEW runs, Cover(runs, rest),
           NEW last, last = LastStarted(runs), ~(runs # {} /\ last.ok = OK(p)),
           NEW new, new = runs \cup {NewRun(p)}
    PROVE  Cover(new, S)
<1>1. Timed(rest, bound) /\ rest \in SUBSET S
  BY TimedPart
<1>2. p \in AnyProbe /\ p.at \in Nat
  BY DEF Timed, Finite, AnyProbe
<1>3. PICK l : l = NewRun(p)
  OBVIOUS
<1>4. l \in OutcomeRun /\ l.from = p.at /\ l.to = p.at
  <2>1. PICK r \in OutcomeRun : r = [ok |-> TRUE, from |-> 0, to |-> 0, count |-> 0]
    BY DEF OutcomeRun
  <2> QED
    BY <1>2, <1>3, <2>1, LongerRun
<1>5. \A q \in rest : q.at < p.at /\ q.at \in Nat
  BY RunsAreBefore
<1>6. \A r \in runs : /\ r.from \in Nat /\ r.to \in Nat /\ r.from <= r.to
                      /\ r.to < p.at /\ r.from < p.at
  BY RunsAreBefore
<1>7. runs \in SUBSET OutcomeRun /\ InTurn(runs)
  BY DEF Cover
<1>8. new = runs \cup {l} /\ new \in SUBSET OutcomeRun
  BY <1>3, <1>4, <1>7
<1>9. InTurn(new)
  <2>1. ASSUME NEW r \in new PROVE r.from <= r.to
    <3>1. CASE r = l
      BY <1>2, <1>4, <3>1
    <3>2. CASE r \in runs
      BY <1>6, <3>2
    <3> QED
      BY <1>8, <3>1, <3>2
  <2>2. ASSUME NEW r \in new, NEW q \in new
        PROVE  (r.from < q.from => r.to < q.from) /\ (r.from = q.from => r = q)
    <3>1. CASE r = l /\ q = l
      BY <1>2, <1>4, <3>1
    <3>2. CASE r \in runs /\ q \in runs
      BY <1>7, <3>2 DEF InTurn
    <3>3. CASE r \in runs /\ q = l
      <4>1. r.from < q.from /\ r.to < q.from /\ r.from \in Nat /\ q.from \in Nat
        BY <1>2, <1>4, <1>6, <3>3
      <4> QED
        BY <4>1
    <3>4. CASE r = l /\ q \in runs
      <4>1. q.from < r.from /\ r.from \in Nat /\ q.from \in Nat
        BY <1>2, <1>4, <1>6, <3>4
      <4> QED
        BY <4>1
    <3> QED
      BY <1>8, <3>1, <3>2, <3>3, <3>4
  <2> QED
    BY <2>1, <2>2 DEF InTurn
<1>10. ASSUME NEW q \in S PROVE \E r \in new : r.from <= q.at /\ q.at <= r.to
  <2>1. CASE q = p
    <3>1. l.from <= q.at /\ q.at <= l.to
      BY <1>2, <1>4, <2>1
    <3> QED
      BY <1>8, <3>1
  <2>2. CASE q \in rest
    BY <1>8, <2>2 DEF Cover
  <2> QED
    BY <2>1, <2>2
<1>11. ASSUME NEW r \in new PROVE (\E q \in S : r.from = q.at) /\ (\E q \in S : r.to = q.at)
  <2>1. CASE r = l
    BY <1>4, <2>1
  <2>2. CASE r \in runs
    BY <1>1, <2>2 DEF Cover
  <2> QED
    BY <1>8, <2>1, <2>2
<1>12. ASSUME NEW r \in new
       PROVE  OutcomeRuns({}, ProbesSince(S, r.from)) = RunsSince(new, r.from)
  <2>1. PICK T : T = ProbesSince(S, r.from)
    OBVIOUS
  <2>2. PICK U : U = T \ {p}
    OBVIOUS
  <2>3. r.from <= p.at /\ r.from \in Nat
    BY <1>2, <1>4, <1>6, <1>8
  <2>4. T \in SUBSET S /\ p \in T
    BY <1>2, <2>1, <2>3 DEF ProbesSince
  <2>5. OutcomeRuns({}, T) = AppendOutcomeRun(OutcomeRuns({}, U), p)
    <3>1. Timed(T, bound) /\ \A q \in T : q.at <= p.at
      BY <2>4, TimedPart
    <3> QED
      BY <2>2, <2>4, <3>1, RunsOfOneMore
  <2>6. CASE r = l
    <3>1. U = {}
      <4>1. \A q \in rest : ~(q.at >= r.from)
        BY <1>2, <1>4, <1>5, <2>6
      <4> QED
        BY <2>1, <2>2, <4>1 DEF ProbesSince
    <3>2. AppendOutcomeRun({}, p) = {l}
      <4>1. PICK none : none = {}
        OBVIOUS
      <4>2. PICK x : x = LastStarted(none)
        OBVIOUS
      <4>3. AppendOutcomeRun(none, p) = none \cup {NewRun(p)}
        BY <4>1, <4>2, AppendIs
      <4> QED
        BY <1>3, <4>1, <4>3
    <3>3. RunsSince(new, r.from) = {l}
      <4>1. \A x \in runs : ~(x.from >= r.from)
        BY <1>2, <1>4, <1>6, <2>6
      <4>2. l.from >= r.from
        BY <2>6, <1>2, <1>4
      <4> QED
        BY <1>8, <4>1, <4>2 DEF RunsSince
    <3> QED
      BY <2>1, <2>5, <3>1, <3>2, <3>3, RunsOfNone
  <2>7. CASE r \in runs
    <3>1. U = ProbesSince(rest, r.from)
      BY <2>1, <2>2 DEF ProbesSince
    <3>2. PICK tail : tail = RunsSince(runs, r.from)
      OBVIOUS
    <3>3. OutcomeRuns({}, U) = tail
      BY <2>7, <3>1, <3>2 DEF Cover
    <3>4. last \in tail /\ LastStarted(tail) = last
      BY <1>1, <2>7, <3>2, LastOfSince
    <3>5. AppendOutcomeRun(tail, p) = tail \cup {l}
      <4>1. ~(tail # {} /\ last.ok = OK(p))
        BY <2>7
      <4> QED
        BY <1>3, <3>4, <4>1, AppendIs
    <3>6. tail \cup {l} = RunsSince(new, r.from)
      <4>1. l.from >= r.from
        BY <1>2, <1>4, <2>3
      <4> QED
        BY <1>8, <3>2, <4>1 DEF RunsSince
    <3> QED
      BY <2>1, <2>5, <3>3, <3>5, <3>6
  <2> QED
    BY <1>8, <2>6, <2>7
<1> QED
  BY <1>8, <1>9, <1>10, <1>11, <1>12 DEF Cover

\* The runs of some probes cover them.
LEMMA RunsCover ==
    ASSUME NEW bound \in Nat, NEW S, Timed(S, bound)
    PROVE  Cover(OutcomeRuns({}, S), S)
<1> DEFINE good == {T \in SUBSET S : Cover(OutcomeRuns({}, T), T)}
<1>1. {} \in good
  <2>1. OutcomeRuns({}, {}) = {}
    BY RunsOfNone
  <2>2. Cover({}, {})
    BY DEF Cover, InTurn
  <2> QED
    BY <2>1, <2>2
<1>2. ASSUME NEW T \in SUBSET S, T # {}, T \ {Latest(T)} \in good PROVE T \in good
  <2>1. PICK p : p = Latest(T)
    OBVIOUS
  <2>2. PICK rest : rest = T \ {p}
    OBVIOUS
  <2>3. PICK runs : runs = OutcomeRuns({}, rest) /\ Cover(runs, rest)
    BY <1>2, <2>1, <2>2
  <2> HIDE DEF good
  <2>4. Timed(T, bound)
    BY TimedPart
  <2>5. p \in T /\ \A q \in T : q.at <= p.at
    BY <1>2, <2>1, <2>4, LatestIs
  <2>6. OutcomeRuns({}, T) = AppendOutcomeRun(runs, p)
    BY <2>2, <2>3, <2>4, <2>5, RunsOfOneMore
  <2>7. PICK last : last = LastStarted(runs)
    OBVIOUS
  <2>8. PICK new : new = AppendOutcomeRun(runs, p)
    OBVIOUS
  <2>9. CASE runs # {} /\ last.ok = OK(p)
    <3>1. new = (runs \ {last}) \cup {Longer(last, p)}
      BY <2>7, <2>8, <2>9, AppendIs
    <3>2. Cover(new, T)
      BY <2>2, <2>3, <2>4, <2>5, <2>7, <2>9, <3>1, GrownCovers
    <3> QED
      BY <2>6, <2>8, <3>2 DEF good
  <2>10. CASE ~(runs # {} /\ last.ok = OK(p))
    <3>1. new = runs \cup {NewRun(p)}
      BY <2>7, <2>8, <2>10, AppendIs
    <3>2. Cover(new, T)
      BY <2>2, <2>3, <2>4, <2>5, <2>7, <2>10, <3>1, BegunCovers
    <3> QED
      BY <2>6, <2>8, <3>2 DEF good
  <2> QED
    BY <2>9, <2>10
<1> HIDE DEF good
<1>3. S \in good
  BY <1>1, <1>2, ByLatest
<1> QED
  BY <1>3 DEF good

\* What deleting the oldest runs leaves are the runs of the probes since some moment.
LEMMA PrunedRuns ==
    ASSUME NEW bound \in Nat, NEW S, Timed(S, bound), NEW cutoff \in Int
    PROVE  \E old \in SUBSET S :
              /\ \A p \in old : p.at < cutoff
              /\ \A p \in old, q \in S : q.at <= p.at => q \in old
              /\ RunsFrom(OutcomeRuns({}, S), cutoff) = OutcomeRuns({}, S \ old)
<1>1. PICK runs : runs = OutcomeRuns({}, S)
  OBVIOUS
<1>2. Cover(runs, S)
  BY <1>1, RunsCover
<1>3. PICK kept \in SUBSET runs : kept = RunsFrom(runs, cutoff)
  BY DEF RunsFrom
<1>4. \A r \in runs : r.from \in Nat /\ r.to \in Nat /\ r.from <= r.to
  BY <1>2 DEF Cover, InTurn, OutcomeRun
<1>5. \A p \in S : p.at \in Nat
  BY DEF Timed, Finite, AnyProbe
<1>6. CASE kept = {}
  <2>1. ASSUME NEW p \in S PROVE p.at < cutoff
    <3>1. PICK r \in runs : r.from <= p.at /\ p.at <= r.to
      BY <1>2 DEF Cover
    <3>2. ~(r.to >= cutoff)
      BY <1>3, <1>6 DEF RunsFrom
    <3> QED
      BY <1>4, <1>5, <3>1, <3>2
  <2>2. S \ S = {} /\ OutcomeRuns({}, {}) = {}
    BY RunsOfNone
  <2>3. RunsFrom(OutcomeRuns({}, S), cutoff) = OutcomeRuns({}, S \ S)
    BY <1>1, <1>3, <1>6, <2>2
  <2> QED
    BY <2>1, <2>3
<1>7. CASE kept # {}
  <2>1. PICK moments \in SUBSET Nat : moments = {r.from : r \in kept}
    BY <1>4
  <2>2. Min(moments) \in moments /\ \A m \in moments : Min(moments) <= m
    <3>1. moments # {}
      BY <1>7, <2>1
    <3> QED
      BY <3>1, MinOf
  <2>3. PICK first \in kept : first.from = Min(moments)
    BY <2>1, <2>2
  <2>4. first \in runs /\ first.to >= cutoff /\ \A r \in kept : first.from <= r.from
    BY <1>3, <2>1, <2>2, <2>3 DEF RunsFrom
  <2>5. PICK old \in SUBSET S : old = {p \in S : p.at < first.from}
    OBVIOUS
  <2>6. ASSUME NEW p \in old PROVE p.at < cutoff
    <3>1. PICK r \in runs : r.from <= p.at /\ p.at <= r.to
      BY <1>2 DEF Cover
    <3>2. r \notin kept
      BY <1>4, <1>5, <2>4, <2>5, <3>1
    <3>3. ~(r.to >= cutoff)
      BY <1>3, <3>2 DEF RunsFrom
    <3> QED
      BY <1>4, <1>5, <3>1, <3>3
  <2>7. \A p \in old, q \in S : q.at <= p.at => q \in old
    BY <1>4, <1>5, <2>4, <2>5
  <2>8. ASSUME NEW r \in runs PROVE r \in kept <=> r.from >= first.from
    <3>1. r.from < first.from \/ r.from = first.from \/ first.from < r.from
      BY <1>4, <2>4
    <3>2. CASE r.from < first.from
      BY <1>4, <2>4, <3>2
    <3>3. CASE r.from = first.from
      BY <1>2, <1>4, <2>4, <3>3 DEF Cover, InTurn
    <3>4. CASE first.from < r.from
      <4>1. first.to < r.from
        BY <1>2, <2>4, <3>4 DEF Cover, InTurn
      <4>2. r.to >= cutoff
        BY <1>4, <2>4, <4>1
      <4> QED
        BY <1>3, <1>4, <2>4, <3>4, <4>2 DEF RunsFrom
    <3> QED
      BY <3>1, <3>2, <3>3, <3>4
  <2>9. kept = RunsSince(runs, first.from)
    BY <2>8 DEF RunsSince
  <2>10. S \ old = ProbesSince(S, first.from)
    BY <1>4, <1>5, <2>4, <2>5 DEF ProbesSince
  <2>11. OutcomeRuns({}, ProbesSince(S, first.from)) = RunsSince(runs, first.from)
    BY <1>2, <2>4 DEF Cover
  <2> QED
    BY <1>1, <1>3, <2>6, <2>7, <2>9, <2>10, <2>11
<1> QED
  BY <1>6, <1>7

-----------------------------------------------------------------------------
(* What the tables tell of runs *)

Rep(some) == {p \in some : Reportable(p)}

\* Runs are made of reportable probes alone.
LEMMA RunsOfReportable ==
    ASSUME NEW runs, NEW S
    PROVE  OutcomeRuns(runs, S) = OutcomeRuns(runs, Rep(S))
<1>1. {p \in S : Reportable(p)} = {p \in Rep(S) : Reportable(p)}
  BY DEF Rep
<1> QED
  BY <1>1 DEF OutcomeRuns, MapThenFoldSet

\* The reportable probes that were compacted and not forgotten.
Compacted(t, gone) == Rep(probes \ t.raw) \ gone

\* The raw results are the latest probes, and the runs tell of the ones before, but for
\* the oldest, which are gone and need not be kept.
TellsRuns(t) ==
    /\ t.raw \in SUBSET probes
    /\ \A p \in t.raw, q \in probes : p.at < q.at => q \in t.raw
    /\ \E gone \in SUBSET probes :
          /\ \A p \in gone, q \in probes :
                q.at <= p.at => q \notin Kept(0) /\ q \notin t.raw /\ (Reportable(q) => q \in gone)
          /\ t.runs = OutcomeRuns({}, Compacted(t, gone))

\* Those two tables tell it.
LEMMA TellsAlike ==
    ASSUME NEW t, TellsRuns(t), NEW u, u.raw = t.raw, u.runs = t.runs
    PROVE  TellsRuns(u)
BY DEF TellsRuns, Compacted

\* What tells the runs goes on to do so while fewer probes have to be kept.
LEMMA TellsStays ==
    ASSUME NEW t, TellsRuns(t), probes' = probes, \A p \in probes : p \in Kept(0)' => p \in Kept(0)
    PROVE  TellsRuns(t)'
BY DEF TellsRuns, Compacted

\* So it does when another probe is stored, which is the latest.
LEMMA StoredTells ==
    ASSUME NEW t, DOMAIN t = Tables, TellsRuns(t), NEW p \in AnyProbe, probes \in SUBSET AnyProbe,
           \A q \in probes : q.at < p.at, time' = time, probes' = probes \cup {p}
    PROVE  TellsRuns(Stored(t, p))'
<1>1. PICK u : u = Stored(t, p)
  OBVIOUS
<1>2. u.raw = t.raw \cup {p} /\ u.runs = t.runs
  BY <1>1 DEF Stored, Tables
<1>3. p \notin probes /\ \A q \in probes : q.at \in Nat /\ p.at \in Nat
  BY DEF AnyProbe
<1>4. PICK gone \in SUBSET probes :
          /\ \A q \in gone, r \in probes :
                r.at <= q.at => r \notin Kept(0) /\ r \notin t.raw /\ (Reportable(r) => r \in gone)
          /\ t.runs = OutcomeRuns({}, Compacted(t, gone))
  BY DEF TellsRuns
<1>5. t.raw \in SUBSET probes /\ \A q \in t.raw, r \in probes : q.at < r.at => r \in t.raw
  BY DEF TellsRuns
<1>6. u.raw \in SUBSET probes'
  BY <1>2, <1>5
<1>7. ASSUME NEW q \in u.raw, NEW r \in probes', q.at < r.at PROVE r \in u.raw
  <2>1. CASE r = p
    BY <1>2, <2>1
  <2>2. CASE q = p /\ r \in probes
    <3>1. r.at < p.at /\ p.at < r.at /\ p.at \in Nat /\ r.at \in Nat
      BY <1>3, <1>7, <2>2
    <3> QED
      BY <3>1
  <2>3. CASE q \in t.raw /\ r \in probes
    BY <1>2, <1>5, <1>7, <2>3
  <2> QED
    BY <1>2, <2>1, <2>2, <2>3
<1>8. ASSUME NEW q \in gone, NEW r \in probes', r.at <= q.at
      PROVE  r \notin Kept(0)' /\ r \notin u.raw /\ (Reportable(r) => r \in gone)
  <2>1. r # p
    <3>1. q.at < p.at /\ q.at \in Nat /\ p.at \in Nat
      BY <1>3
    <3> QED
      BY <1>8, <3>1
  <2>2. r \in probes /\ r \notin Kept(0) /\ r \notin t.raw /\ (Reportable(r) => r \in gone)
    BY <1>4, <1>8, <2>1
  <2>3. r \notin Kept(0)'
    BY <2>2 DEF Kept
  <2> QED
    BY <1>2, <2>1, <2>2, <2>3
<1>9. u.runs = OutcomeRuns({}, Compacted(u, gone)')
  <2>1. probes' \ u.raw = probes \ t.raw
    BY <1>2, <1>3
  <2>2. Compacted(u, gone)' = Compacted(t, gone)
    BY <2>1 DEF Compacted
  <2> QED
    BY <1>2, <1>4, <2>2
<1>10. TellsRuns(u)'
  BY <1>6, <1>7, <1>8, <1>9 DEF TellsRuns
<1> QED
  BY <1>1, <1>10

\* What statements leave alone.
LEMMA RawAndRuns ==
    ASSUME NEW t, DOMAIN t = Tables, NEW from
    PROVE  /\ \A k \in 1 .. 9 : DOMAIN Statement(k, t, from) = Tables
           /\ \A k \in {1, 2, 4, 5, 6, 7, 8, 9} : Statement(k, t, from).raw = t.raw
           /\ \A k \in {2, 3, 4, 5, 6, 7, 8} : Statement(k, t, from).runs = t.runs
<1>1. ASSUME NEW k \in 1 .. 9, NEW u, u = Statement(k, t, from)
      PROVE  /\ DOMAIN u = Tables
             /\ k # 3 => u.raw = t.raw
             /\ k # 1 /\ k # 9 => u.runs = t.runs
  <2>1. PICK c : c = from - policy[LevelOf(k)]
    OBVIOUS
  <2>2. u = t \/ u = Execute(k, t, c)
    BY <1>1, <2>1, Zenon DEF Statement
  <2>3. CASE u = t
    BY <2>3
  <2>4. CASE u = Execute(k, t, c)
    <3>1. CASE k = 1
      <4>1. PICK x : x = OutcomeRuns(t.runs, Older(t.raw, c))
        OBVIOUS
      <4>2. Execute(1, t, c) = [t EXCEPT !.runs = x]
        BY <4>1 DEF Execute, CompactRawOutcomeRuns
      <4>3. u = [t EXCEPT !.runs = x]
        BY <2>4, <3>1, <4>2
      <4> QED
        BY <3>1, <4>3 DEF Tables
    <3>2. CASE k = 2
      <4>1. PICK x : x = Upsert(t.minute, [s \in {Truncated(p.at, Minute) : p \in Older(t.raw, c)} |->
                       Summary({p \in Older(t.raw, c) : Truncated(p.at, Minute) = s})])
        OBVIOUS
      <4>2. Execute(2, t, c) = [t EXCEPT !.minute = x]
        BY <4>1 DEF Execute, RollupRaw
      <4>3. u = [t EXCEPT !.minute = x]
        BY <2>4, <3>2, <4>2
      <4> QED
        BY <3>2, <4>3 DEF Tables
    <3>3. CASE k = 3
      <4>1. PICK x : x = t.raw \ Older(t.raw, c)
        OBVIOUS
      <4>2. Execute(3, t, c) = [t EXCEPT !.raw = x]
        BY <4>1 DEF Execute
      <4>3. u = [t EXCEPT !.raw = x]
        BY <2>4, <3>3, <4>2
      <4> QED
        BY <3>3, <4>3 DEF Tables
    <3>4. CASE k = 4
      <4>1. PICK x : x = RollupStored(t.minute, t.hour, Hour, c)
        OBVIOUS
      <4>2. Execute(4, t, c) = [t EXCEPT !.hour = x]
        BY <4>1 DEF Execute
      <4>3. u = [t EXCEPT !.hour = x]
        BY <2>4, <3>4, <4>2
      <4> QED
        BY <3>4, <4>3 DEF Tables
    <3>5. CASE k = 5
      <4>1. PICK x : x = DeleteOlder(t.minute, c)
        OBVIOUS
      <4>2. Execute(5, t, c) = [t EXCEPT !.minute = x]
        BY <4>1 DEF Execute
      <4>3. u = [t EXCEPT !.minute = x]
        BY <2>4, <3>5, <4>2
      <4> QED
        BY <3>5, <4>3 DEF Tables
    <3>6. CASE k = 6
      <4>1. PICK x : x = RollupStored(t.hour, t.day, Day, c)
        OBVIOUS
      <4>2. Execute(6, t, c) = [t EXCEPT !.day = x]
        BY <4>1 DEF Execute
      <4>3. u = [t EXCEPT !.day = x]
        BY <2>4, <3>6, <4>2
      <4> QED
        BY <3>6, <4>3 DEF Tables
    <3>7. CASE k = 7
      <4>1. PICK x : x = DeleteOlder(t.hour, c)
        OBVIOUS
      <4>2. Execute(7, t, c) = [t EXCEPT !.hour = x]
        BY <4>1 DEF Execute
      <4>3. u = [t EXCEPT !.hour = x]
        BY <2>4, <3>7, <4>2
      <4> QED
        BY <3>7, <4>3 DEF Tables
    <3>8. CASE k = 8
      <4>1. PICK x : x = DeleteOlder(t.day, c)
        OBVIOUS
      <4>2. Execute(8, t, c) = [t EXCEPT !.day = x]
        BY <4>1 DEF Execute
      <4>3. u = [t EXCEPT !.day = x]
        BY <2>4, <3>8, <4>2
      <4> QED
        BY <3>8, <4>3 DEF Tables
    <3>9. CASE k = 9
      <4>1. PICK x : x = RunsFrom(t.runs, c)
        OBVIOUS
      <4>2. Execute(9, t, c) = [t EXCEPT !.runs = x]
        BY <4>1 DEF Execute
      <4>3. u = [t EXCEPT !.runs = x]
        BY <2>4, <3>9, <4>2
      <4> QED
        BY <3>9, <4>3 DEF Tables
    <3> QED
      BY <3>1, <3>2, <3>3, <3>4, <3>5, <3>6, <3>7, <3>8, <3>9
  <2> QED
    BY <2>2, <2>3, <2>4
<1> QED
  BY <1>1

\* The raw results that are left and the runs depend on those two tables alone.
LEMMA DeletedRaw ==
    ASSUME NEW t, DOMAIN t = Tables, NEW u, DOMAIN u = Tables, u.raw = t.raw, u.runs = t.runs, NEW from
    PROVE  /\ Statement(3, u, from).raw = Statement(3, t, from).raw
           /\ Statement(3, u, from).runs = Statement(3, t, from).runs
<1>1. Statement(3, u, from).runs = Statement(3, t, from).runs
  BY RawAndRuns
<1>2. LevelOf(3) = "raw"
  BY Levels4
<1>3. CASE policy["raw"] = Forever
  <2>1. Statement(3, u, from) = u /\ Statement(3, t, from) = t
    BY <1>2, <1>3 DEF Statement
  <2> QED
    BY <1>1, <2>1
<1>4. CASE policy["raw"] # Forever
  <2>1. PICK c : c = from - policy["raw"]
    OBVIOUS
  <2>2. Statement(3, u, from) = Execute(3, u, c) /\ Statement(3, t, from) = Execute(3, t, c)
    BY <1>2, <1>4, <2>1 DEF Statement
  <2>3. /\ Execute(3, u, c) = [u EXCEPT !.raw = u.raw \ Older(u.raw, c)]
        /\ Execute(3, t, c) = [t EXCEPT !.raw = t.raw \ Older(t.raw, c)]
    BY DEF Execute
  <2>4. /\ Execute(3, u, c).raw = u.raw \ Older(u.raw, c)
        /\ Execute(3, t, c).raw = t.raw \ Older(t.raw, c)
    BY <2>3 DEF Tables
  <2> QED
    BY <1>1, <2>2, <2>4
<1> QED
  BY <1>3, <1>4

\* No two probes have a moment in common.
OneAtATime == \A p, q \in probes : p.at = q.at => p = q

\* Reportable ones are in an order.
LEMMA SomeTimed ==
    ASSUME NEW bound, Finite(probes, bound), OneAtATime, NEW S \in SUBSET probes, \A p \in S : Reportable(p)
    PROVE  Timed(S, bound)
<1>1. Finite(S, bound)
  BY FinitePart
<1>2. \A p, q \in S : p.at = q.at => p = q
  BY DEF OneAtATime
<1> QED
  BY <1>1, <1>2 DEF Timed

\* So are those that were compacted.
LEMMA CompactedTimed ==
    ASSUME NEW bound, Finite(probes, bound), OneAtATime, NEW t, NEW gone
    PROVE  Timed(Compacted(t, gone), bound) /\ Compacted(t, gone) \in SUBSET probes
<1>1. PICK S : S = Compacted(t, gone)
  OBVIOUS
<1>2. S \in SUBSET probes /\ \A p \in S : Reportable(p)
  BY <1>1 DEF Compacted, Rep
<1>3. Timed(S, bound)
  BY <1>2, SomeTimed
<1> QED
  BY <1>1, <1>2, <1>3

\* Statements 1 and 3 move raw results into runs.
LEMMA CompactTells ==
    ASSUME NEW from, Ready(from), OneAtATime, NEW t, DOMAIN t = Tables, TellsRuns(t)
    PROVE  TellsRuns(Statement(3, Statement(1, t, from), from))
<1>1. CASE policy["raw"] = Forever
  <2>1. Statement(1, t, from) = t /\ Statement(3, t, from) = t
    BY <1>1, Levels4, NoCutoff
  <2> QED
    BY <2>1
<1>2. CASE policy["raw"] # Forever
  <2>1. PICK c : c = from - policy["raw"]
    OBVIOUS
  <2>2. c \in Int
    BY <1>2, <2>1, RetentionIs DEF Ready, Levels
  <2>3. PICK v : v = Statement(1, t, from)
    OBVIOUS
  <2>4. PICK u : u = Statement(3, v, from)
    OBVIOUS
  <2>5. PICK old : old = Older(t.raw, c)
    OBVIOUS
  <2>6. v.raw = t.raw /\ v.runs = OutcomeRuns(t.runs, old) /\ DOMAIN v = Tables
    <3>1. v = Execute(1, t, c)
      BY <1>2, <2>1, <2>3, Levels4 DEF Statement
    <3>2. Execute(1, t, c) = [t EXCEPT !.runs = OutcomeRuns(t.runs, old)]
      BY <2>5 DEF Execute, CompactRawOutcomeRuns
    <3>3. PICK x : x = OutcomeRuns(t.runs, old)
      OBVIOUS
    <3>4. v = [t EXCEPT !.runs = x]
      BY <3>1, <3>2, <3>3
    <3> QED
      BY <3>3, <3>4 DEF Tables
  <2>7. u.raw = t.raw \ old /\ u.runs = v.runs
    <3>1. u = Execute(3, v, c)
      BY <1>2, <2>1, <2>4, Levels4 DEF Statement
    <3>2. Execute(3, v, c) = [v EXCEPT !.raw = v.raw \ Older(v.raw, c)]
      BY DEF Execute
    <3>3. PICK x : x = v.raw \ Older(v.raw, c)
      OBVIOUS
    <3>4. u = [v EXCEPT !.raw = x]
      BY <3>1, <3>2, <3>3
    <3>5. u.raw = x /\ u.runs = v.runs
      BY <2>6, <3>4 DEF Tables
    <3> QED
      BY <2>5, <2>6, <3>3, <3>5
  <2>8. PICK gone \in SUBSET probes :
          /\ \A q \in gone, r \in probes :
                r.at <= q.at => r \notin Kept(0) /\ r \notin t.raw /\ (Reportable(r) => r \in gone)
          /\ t.runs = OutcomeRuns({}, Compacted(t, gone))
    BY DEF TellsRuns
  <2>9. t.raw \in SUBSET probes /\ \A q \in t.raw, r \in probes : q.at < r.at => r \in t.raw
    BY DEF TellsRuns
  <2>10. \A p \in probes : p.at \in Nat
    BY DEF Ready, Finite, AnyProbe
  <2>11. ASSUME NEW q \in u.raw, NEW r \in probes, q.at < r.at PROVE r \in u.raw
    <3>1. q \in t.raw /\ ~(q.at < c) /\ q \in probes
      BY <2>5, <2>7, <2>9 DEF Older
    <3>2. r \in t.raw
      BY <2>9, <2>11, <3>1
    <3>3. ~(r.at < c)
      BY <2>2, <2>10, <2>11, <3>1
    <3> QED
      BY <2>5, <2>7, <3>2, <3>3 DEF Older
  <2>12. PICK A : A = Compacted(t, gone)
    OBVIOUS
  <2>13. PICK B : B = Rep(old)
    OBVIOUS
  <2>14. Compacted(u, gone) = A \cup B
    <3>1. old \in SUBSET t.raw
      BY <2>5 DEF Older
    <3>2. gone \cap t.raw = {}
      <4>1. ASSUME NEW p \in gone PROVE p \notin t.raw
        <5>1. p \in probes /\ p.at <= p.at
          BY <2>10
        <5> QED
          BY <2>8, <5>1
      <4> QED
        BY <4>1
    <3> QED
      BY <2>7, <2>9, <2>12, <2>13, <3>1, <3>2 DEF Compacted, Rep
  <2>15. u.runs = OutcomeRuns(OutcomeRuns({}, A), B)
    BY <2>6, <2>7, <2>8, <2>12, <2>13, RunsOfReportable
  <2>16. Timed(A \cup B, time) /\ time \in Nat
    BY <2>14, CompactedTimed DEF Ready
  <2>17. ASSUME NEW p \in A, NEW q \in B PROVE p.at < q.at
    <3>1. p \in probes /\ p \notin t.raw /\ q \in t.raw /\ q \in probes
      BY <2>5, <2>9, <2>12, <2>13 DEF Compacted, Rep, Older
    <3>2. ~(q.at < p.at) /\ p.at # q.at
      BY <2>9, <3>1 DEF OneAtATime
    <3> QED
      BY <2>10, <3>1, <3>2
  <2>18. OutcomeRuns(OutcomeRuns({}, A), B) = OutcomeRuns({}, A \cup B)
    <3>1. PICK bound \in Nat : bound = time
      BY <2>16
    <3>2. Timed(A \cup B, bound)
      BY <2>16, <3>1
    <3> QED
      BY <2>17, <3>2, RunsInTwo
  <2>19. u.runs = OutcomeRuns({}, Compacted(u, gone))
    BY <2>14, <2>15, <2>18
  <2>20. u.raw \in SUBSET probes
    BY <2>7, <2>9
  <2>21. \A q \in gone, r \in probes :
            r.at <= q.at => r \notin Kept(0) /\ r \notin u.raw /\ (Reportable(r) => r \in gone)
    BY <2>7, <2>8
  <2>22. TellsRuns(u)
    BY <2>11, <2>19, <2>20, <2>21 DEF TellsRuns
  <2> QED
    BY <2>3, <2>4, <2>22
<1> QED
  BY <1>1, <1>2

\* Statement 9 forgets the oldest runs.
LEMMA PruneTells ==
    ASSUME NEW from, Ready(from), OneAtATime, NEW t, DOMAIN t = Tables, TellsRuns(t)
    PROVE  TellsRuns(Statement(9, t, from))
<1>1. CASE policy["day"] = Forever
  <2>1. Statement(9, t, from) = t
    BY <1>1, Levels4, NoCutoff
  <2> QED
    BY <2>1
<1>2. CASE policy["day"] # Forever
  <2>1. PICK c : c = from - policy["day"]
    OBVIOUS
  <2>2. c \in Int /\ policy["day"] \in Nat /\ from \in Nat /\ time \in Nat /\ from <= time
    BY <1>2, <2>1, RetentionIs DEF Ready, Levels
  <2>3. PICK u : u = Statement(9, t, from)
    OBVIOUS
  <2>4. u.raw = t.raw /\ u.runs = RunsFrom(t.runs, c)
    <3>1. u = Execute(9, t, c)
      BY <1>2, <2>1, <2>3, Levels4 DEF Statement
    <3>2. Execute(9, t, c) = [t EXCEPT !.runs = RunsFrom(t.runs, c)]
      BY DEF Execute
    <3>3. PICK x : x = RunsFrom(t.runs, c)
      OBVIOUS
    <3>4. u = [t EXCEPT !.runs = x]
      BY <3>1, <3>2, <3>3
    <3> QED
      BY <3>3, <3>4 DEF Tables
  <2>5. PICK gone \in SUBSET probes :
          /\ \A q \in gone, r \in probes :
                r.at <= q.at => r \notin Kept(0) /\ r \notin t.raw /\ (Reportable(r) => r \in gone)
          /\ t.runs = OutcomeRuns({}, Compacted(t, gone))
    BY DEF TellsRuns
  <2>6. t.raw \in SUBSET probes /\ \A q \in t.raw, r \in probes : q.at < r.at => r \in t.raw
    BY DEF TellsRuns
  <2>7. \A p \in probes : p.at \in Nat
    BY DEF Ready, Finite, AnyProbe
  <2>8. PICK A : A = Compacted(t, gone)
    OBVIOUS
  <2>9. Timed(A, time) /\ A \in SUBSET probes
    BY <2>8, CompactedTimed DEF Ready
  <2>10. PICK old \in SUBSET A :
            /\ \A p \in old : p.at < c
            /\ \A p \in old, q \in A : q.at <= p.at => q \in old
            /\ RunsFrom(OutcomeRuns({}, A), c) = OutcomeRuns({}, A \ old)
    BY <2>2, <2>9, PrunedRuns
  <2>11. PICK all \in SUBSET probes : all = gone \cup old
    BY <2>9
  <2>12. ASSUME NEW p \in all, NEW q \in probes, q.at <= p.at
         PROVE  q \notin Kept(0) /\ q \notin u.raw /\ (Reportable(q) => q \in all)
    <3>1. CASE p \in gone
      BY <2>4, <2>5, <2>11, <2>12, <3>1
    <3>2. CASE p \in old
      <4>1. p \in probes /\ p \notin t.raw /\ p.at < c
        BY <2>8, <2>9, <2>10, <3>2 DEF Compacted, Rep
      <4>2. q \notin t.raw
        <5>1. q.at = p.at => q = p
          BY <4>1 DEF OneAtATime
        <5>2. q.at < p.at \/ q.at = p.at
          BY <2>7, <2>12, <4>1
        <5> QED
          BY <2>6, <4>1, <5>1, <5>2
      <4>3. Reportable(q) => q \in all
        <5>1. Reportable(q) => q \in A \/ q \in gone
          BY <2>8, <4>2 DEF Compacted, Rep
        <5> QED
          BY <2>10, <2>11, <2>12, <3>2, <5>1
      <4>4. ~(q.at >= time - policy["day"] + 0)
        BY <2>1, <2>2, <2>7, <2>12, <4>1
      <4>5. policy \in Policies
        BY DEF Ready
      <4> QED
        BY <1>2, <2>4, <4>2, <4>3, <4>4, <4>5 DEF Kept
    <3> QED
      BY <2>11, <3>1, <3>2
  <2>13. Compacted(u, all) = A \ old
    BY <2>4, <2>8, <2>11 DEF Compacted
  <2>14. u.runs = OutcomeRuns({}, Compacted(u, all))
    BY <2>4, <2>5, <2>8, <2>10, <2>13
  <2>15. TellsRuns(u)
    BY <2>4, <2>6, <2>12, <2>14 DEF TellsRuns
  <2> QED
    BY <2>3, <2>15
<1> QED
  BY <1>1, <1>2

\* While a prune goes on: what would be left if its raw results were deleted next.
RunsRemaining ==
    IF pruning.step \in {2, 3} THEN Statement(3, pruning.tables, pruning.from) ELSE pruning.tables

\* The statements that use tables that no one else writes.
LEMMA LastTell ==
    ASSUME NEW from, Ready(from), OneAtATime, NEW t, DOMAIN t = Tables, TellsRuns(t)
    PROVE  DOMAIN Run(4, 9, t, from) = Tables /\ TellsRuns(Run(4, 9, t, from))
<1>1. PICK f : /\ f[0] = t /\ Run(4, 9, t, from) = f[6]
               /\ \A k \in 1 .. 6 : f[k] = Statement(4 + k - 1, f[k - 1], from)
  <2>1. PICK n \in Nat : n = 6
    OBVIOUS
  <2>2. PICK first \in Nat : first = 4
    OBVIOUS
  <2>3. PICK last : last = 9
    OBVIOUS
  <2>4. \E f : /\ f[0] = t
               /\ Run(first, last, t, from) = f[n]
               /\ \A k \in 1 .. n : f[k] = Statement(first + k - 1, f[k - 1], from)
    <3>1. last = first + n - 1
      BY <2>1, <2>2, <2>3
    <3> QED
      BY <3>1, RunFold
  <2> QED
    BY <2>1, <2>2, <2>3, <2>4
<1>2. /\ f[1] = Statement(4, f[0], from) /\ f[2] = Statement(5, f[1], from)
      /\ f[3] = Statement(6, f[2], from) /\ f[4] = Statement(7, f[3], from)
      /\ f[5] = Statement(8, f[4], from) /\ f[6] = Statement(9, f[5], from)
  BY <1>1
<1>3. ASSUME NEW u, DOMAIN u = Tables, TellsRuns(u), NEW k \in 4 .. 8, NEW w, w = Statement(k, u, from)
      PROVE  DOMAIN w = Tables /\ TellsRuns(w)
  <2>1. DOMAIN w = Tables /\ w.raw = u.raw /\ w.runs = u.runs
    BY <1>3, RawAndRuns
  <2> QED
    BY <1>3, <2>1, TellsAlike
<1>4. DOMAIN f[0] = Tables /\ TellsRuns(f[0])
  BY <1>1
<1>5. DOMAIN f[1] = Tables /\ TellsRuns(f[1])
  BY <1>2, <1>3, <1>4
<1>6. DOMAIN f[2] = Tables /\ TellsRuns(f[2])
  BY <1>2, <1>3, <1>5
<1>7. DOMAIN f[3] = Tables /\ TellsRuns(f[3])
  BY <1>2, <1>3, <1>6
<1>8. DOMAIN f[4] = Tables /\ TellsRuns(f[4])
  BY <1>2, <1>3, <1>7
<1>9. DOMAIN f[5] = Tables /\ TellsRuns(f[5])
  BY <1>2, <1>3, <1>8
<1>10. DOMAIN f[6] = Tables /\ TellsRuns(f[6])
  <2>1. PICK u : u = f[5]
    OBVIOUS
  <2>2. PICK w : w = Statement(9, u, from)
    OBVIOUS
  <2>3. DOMAIN w = Tables
    BY <1>9, <2>1, <2>2, RawAndRuns
  <2>4. TellsRuns(w)
    BY <1>9, <2>1, <2>2, PruneTells
  <2> QED
    BY <1>2, <2>1, <2>2, <2>3, <2>4
<1> QED
  BY <1>1, <1>10

-----------------------------------------------------------------------------
(* Prunes and runs *)

\* A whole prune.
LEMMA AllTell ==
    ASSUME NEW from, Ready(from), OneAtATime, NEW t, DOMAIN t = Tables, TellsRuns(t)
    PROVE  DOMAIN RollupAndPrune(t, from) = Tables /\ TellsRuns(RollupAndPrune(t, from))
<1>1. PICK f : /\ f[0] = t /\ RollupAndPrune(t, from) = f[9]
               /\ \A k \in 1 .. 9 : f[k] = Statement(1 + k - 1, f[k - 1], from)
  <2>1. PICK n \in Nat : n = 9
    OBVIOUS
  <2>2. PICK first \in Nat : first = 1
    OBVIOUS
  <2>3. \E f : /\ f[0] = t
               /\ Run(first, n, t, from) = f[n]
               /\ \A k \in 1 .. n : f[k] = Statement(first + k - 1, f[k - 1], from)
    <3>1. n = first + n - 1
      BY <2>1, <2>2
    <3> QED
      BY <3>1, RunFold
  <2> QED
    BY <2>1, <2>2, <2>3 DEF RollupAndPrune
<1>2. /\ f[1] = Statement(1, f[0], from) /\ f[2] = Statement(2, f[1], from)
      /\ f[3] = Statement(3, f[2], from) /\ f[4] = Statement(4, f[3], from)
      /\ f[5] = Statement(5, f[4], from) /\ f[6] = Statement(6, f[5], from)
      /\ f[7] = Statement(7, f[6], from) /\ f[8] = Statement(8, f[7], from)
      /\ f[9] = Statement(9, f[8], from)
  BY <1>1
<1>3. ASSUME NEW u, DOMAIN u = Tables, TellsRuns(u), NEW k \in 4 .. 8, NEW w, w = Statement(k, u, from)
      PROVE  DOMAIN w = Tables /\ TellsRuns(w)
  <2>1. DOMAIN w = Tables /\ w.raw = u.raw /\ w.runs = u.runs
    BY <1>3, RawAndRuns
  <2> QED
    BY <1>3, <2>1, TellsAlike
<1>4. DOMAIN f[3] = Tables /\ TellsRuns(f[3])
  <2>1. PICK v : v = Statement(1, t, from)
    OBVIOUS
  <2>2. PICK u : u = Statement(2, v, from)
    OBVIOUS
  <2>3. PICK w : w = Statement(3, u, from)
    OBVIOUS
  <2>4. PICK x : x = Statement(3, v, from)
    OBVIOUS
  <2>5. DOMAIN v = Tables
    BY <2>1, RawAndRuns
  <2>6. DOMAIN u = Tables /\ u.raw = v.raw /\ u.runs = v.runs
    BY <2>2, <2>5, RawAndRuns
  <2>7. w.raw = x.raw /\ w.runs = x.runs
    BY <2>3, <2>4, <2>5, <2>6, DeletedRaw
  <2>8. TellsRuns(x)
    BY <2>1, <2>4, CompactTells
  <2>9. TellsRuns(w)
    BY <2>7, <2>8, TellsAlike
  <2>10. DOMAIN w = Tables
    BY <2>3, <2>6, RawAndRuns
  <2> QED
    BY <1>1, <1>2, <2>1, <2>2, <2>3, <2>9, <2>10
<1>5. DOMAIN f[4] = Tables /\ TellsRuns(f[4])
  BY <1>2, <1>3, <1>4
<1>6. DOMAIN f[5] = Tables /\ TellsRuns(f[5])
  BY <1>2, <1>3, <1>5
<1>7. DOMAIN f[6] = Tables /\ TellsRuns(f[6])
  BY <1>2, <1>3, <1>6
<1>8. DOMAIN f[7] = Tables /\ TellsRuns(f[7])
  BY <1>2, <1>3, <1>7
<1>9. DOMAIN f[8] = Tables /\ TellsRuns(f[8])
  BY <1>2, <1>3, <1>8
<1>10. DOMAIN f[9] = Tables /\ TellsRuns(f[9])
  <2>1. PICK u : u = f[8]
    OBVIOUS
  <2>2. PICK w : w = Statement(9, u, from)
    OBVIOUS
  <2>3. DOMAIN w = Tables
    BY <1>9, <2>1, <2>2, RawAndRuns
  <2>4. TellsRuns(w)
    BY <1>9, <2>1, <2>2, PruneTells
  <2> QED
    BY <1>2, <2>1, <2>2, <2>3, <2>4
<1> QED
  BY <1>1, <1>10

-----------------------------------------------------------------------------

Telling(t) == DOMAIN t = Tables /\ TellsRuns(t)

\* The committed tables tell the runs, and a prune that is under way will.
RunsInv ==
    /\ Telling(tables)
    /\ pruning = Idle \/ (DOMAIN pruning.tables = Tables /\ Telling(RunsRemaining))

\* While no probe is stored and no time passes, the runs are still told.
LEMMA TellingStays ==
    ASSUME UNCHANGED <<time, probes>>, NEW t, Telling(t)
    PROVE  Telling(t)'
<1>1. \A p \in probes : p \in Kept(0)' => p \in Kept(0)
  BY DEF Kept
<1>2. TellsRuns(t)'
  BY <1>1, TellsStays DEF Telling
<1> QED
  BY <1>2 DEF Telling

\* They are when another probe is stored.
LEMMA StoredTelling ==
    ASSUME NEW t, Telling(t), NEW p \in AnyProbe, probes \in SUBSET AnyProbe,
           \A q \in probes : q.at < p.at, time' = time, probes' = probes \cup {p}
    PROVE  Telling(Stored(t, p))'
<1>1. TellsRuns(Stored(t, p))'
  BY StoredTells DEF Telling
<1>2. DOMAIN Stored(t, p) = Tables
  BY DEF Telling, Stored
<1> QED
  BY <1>1, <1>2 DEF Telling

\* At first there is none.
LEMMA RunsInit == RollupInit => RunsInv
<1> SUFFICES ASSUME RollupInit PROVE RunsInv
  OBVIOUS
<1>1. probes = {} /\ tables = Empty /\ pruning = Idle
  BY DEF RollupInit
<1>2. PICK gone : gone = {}
  OBVIOUS
<1>3. Compacted(Empty, gone) = {}
  BY <1>1 DEF Compacted, Rep
<1>4. Empty.raw = {} /\ Empty.runs = {} /\ DOMAIN Empty = Tables
  BY DEF Empty, Tables
<1>5. Empty.runs = OutcomeRuns({}, Compacted(Empty, gone))
  BY <1>3, <1>4, RunsOfNone
<1>6. TellsRuns(Empty)
  BY <1>1, <1>2, <1>4, <1>5 DEF TellsRuns
<1> QED
  BY <1>1, <1>4, <1>6 DEF RunsInv, Telling

\* Time passes, and nothing else.
LEMMA RunsTick == IInv /\ RunsInv /\ TimePasses => RunsInv'
<1> SUFFICES ASSUME IInv, RunsInv, TimePasses PROVE RunsInv'
  OBVIOUS
<1>1. /\ time \in Nat /\ probes \in SUBSET AnyProbe /\ time' = time + 1
      /\ UNCHANGED <<backend, policy, tables, pruning, probes>>
  BY DEF IInv, TimePasses, Finite
<1>2. ASSUME NEW p \in probes, p \in Kept(0)' PROVE p \in Kept(0)
  <2>1. ASSUME NEW c \in Policies, c["day"] # Forever PROVE p.at >= time - c["day"] + 0
    <3>1. p.at >= time' - c["day"] + 0
      BY <1>2, <2>1 DEF Kept
    <3>2. c["day"] \in Nat /\ p.at \in Nat
      BY <1>1, <2>1, RollupsAssumption DEF Retention, Levels, AnyProbe
    <3> QED
      BY <1>1, <3>1, <3>2
  <2> QED
    BY <2>1 DEF Kept
<1>3. ASSUME NEW t, Telling(t) PROVE Telling(t)'
  <2>1. TellsRuns(t)'
    BY <1>1, <1>2, <1>3, TellsStays DEF Telling
  <2> QED
    BY <1>3, <2>1 DEF Telling
<1>4. PICK t : t = tables /\ Telling(t)
  BY DEF RunsInv
<1>5. Telling(tables)'
  BY <1>1, <1>3, <1>4 DEF Telling
<1>6. CASE pruning = Idle
  BY <1>1, <1>5, <1>6 DEF RunsInv
<1>7. CASE pruning # Idle
  <2>1. PICK w : w = RunsRemaining /\ Telling(w) /\ DOMAIN pruning.tables = Tables
    BY <1>7 DEF RunsInv
  <2>2. RunsRemaining' = w
    BY <1>1, <2>1 DEF RunsRemaining, Statement
  <2>3. Telling(w)'
    BY <1>3, <2>1
  <2>4. Telling(RunsRemaining)'
    BY <2>2, <2>3 DEF Telling
  <2> QED
    BY <1>1, <1>5, <2>1, <2>4 DEF RunsInv
<1> QED
  BY <1>6, <1>7

\* A probe that is stored during a prune is not among the raw results it deletes.
LEMMA RunsSaveProbe == IInv /\ RunsInv /\ SaveProbe => RunsInv'
<1> SUFFICES ASSUME IInv, RunsInv, SaveProbe PROVE RunsInv'
  OBVIOUS
<1>1. time \in Nat /\ policy \in Policies /\ probes \in SUBSET AnyProbe
  BY DEF IInv, Finite
<1>2. PICK at \in {t \in 0 .. time : t >= time - MaxLate}, o \in Outcomes :
        LET p == [at |-> at, outcome |-> o]
        IN  /\ \A q \in probes : q.at < at
            /\ probes' = probes \cup {p}
            /\ tables' = [tables EXCEPT !.raw = @ \cup {p}]
            /\ pruning' = IF pruning = Idle THEN Idle
                          ELSE [pruning EXCEPT !.tables.raw = @ \cup {p}]
  BY DEF SaveProbe
<1>3. PICK p : p = [at |-> at, outcome |-> o]
  OBVIOUS
<1>4. /\ p \in AnyProbe /\ p.at \in Nat /\ p.at >= time - MaxLate
      /\ \A q \in probes : q.at < p.at
  BY <1>1, <1>2, <1>3, RollupsAssumption DEF AnyProbe
<1>5. /\ probes' = probes \cup {p} /\ time' = time /\ policy' = policy
      /\ tables' = [tables EXCEPT !.raw = @ \cup {p}]
      /\ pruning' = IF pruning = Idle THEN Idle ELSE [pruning EXCEPT !.tables.raw = @ \cup {p}]
  BY <1>2, <1>3 DEF SaveProbe
<1>6. ASSUME NEW t, Telling(t) PROVE Telling(Stored(t, p))'
  BY <1>1, <1>4, <1>5, <1>6, StoredTelling
<1>7. PICK t : t = tables /\ Telling(t)
  BY DEF RunsInv
<1>8. PICK u : u = Stored(t, p)
  OBVIOUS
<1>9. Telling(u)'
  BY <1>6, <1>7, <1>8
<1>10. tables' = u
  BY <1>5, <1>7, <1>8 DEF Stored
<1>11. Telling(tables)'
  BY <1>9, <1>10 DEF Telling
<1>12. CASE pruning = Idle
  BY <1>5, <1>11, <1>12 DEF RunsInv
<1>13. CASE pruning # Idle
  <2>1. PICK w : w = RunsRemaining /\ Telling(w) /\ DOMAIN pruning.tables = Tables
    BY <1>13 DEF RunsInv
  <2>2. PICK v : v = Stored(w, p)
    OBVIOUS
  <2>3. Telling(v)'
    BY <1>6, <2>1, <2>2
  <2>4. PICK old : old = pruning.tables
    OBVIOUS
  <2>5. PICK new : new = Stored(old, p)
    OBVIOUS
  <2>6. Pruning
    BY <1>13 DEF IInv
  <2>7. /\ DOMAIN pruning' = {"step", "from", "tables"}
        /\ pruning'.step = pruning.step /\ pruning'.from = pruning.from /\ pruning'.tables = new
    <3>1. pruning' = [pruning EXCEPT !.tables = new]
      BY <1>5, <1>13, <2>4, <2>5, <2>6 DEF Pruning, Stored
    <3> QED
      BY <2>6, <3>1 DEF Pruning
  <2>8. DOMAIN new = Tables
    BY <2>1, <2>4, <2>5 DEF Stored
  <2>9. RunsRemaining' = v
    <3>1. CASE pruning.step \in {2, 3}
      <4>1. PICK from \in Nat : from = pruning.from /\ from <= time
        BY <2>6 DEF Pruning
      <4>2. w = Statement(3, old, from)
        BY <2>1, <2>4, <3>1, <4>1 DEF RunsRemaining
      <4>3. Statement(3, Stored(old, p), from) = Stored(Statement(3, old, from), p)
        BY <1>1, <1>4, <2>1, <2>4, <4>1, YoungIsSpared
      <4>4. Statement(3, new, from) = v
        BY <2>2, <2>5, <4>2, <4>3
      <4>5. RunsRemaining' = Statement(3, new, from)'
        BY <2>7, <3>1, <4>1 DEF RunsRemaining
      <4>6. Statement(3, new, from)' = Statement(3, new, from)
        BY <1>5 DEF Statement
      <4> QED
        BY <4>4, <4>5, <4>6
    <3>2. CASE pruning.step \notin {2, 3}
      BY <2>1, <2>2, <2>4, <2>5, <2>7, <3>2 DEF RunsRemaining
    <3> QED
      BY <3>1, <3>2
  <2>10. Telling(RunsRemaining)'
    BY <2>3, <2>9 DEF Telling
  <2> QED
    BY <1>11, <2>7, <2>8, <2>10 DEF RunsInv
<1> QED
  BY <1>12, <1>13

\* Between the first and the third statement of a prune some raw results are in the runs
\* already; counted after the deletion that is to come, every probe is in one run.
LEMMA RunsPrune ==
    IInv /\ RunsInv /\ (PruneSQLite \/ BeginPrune \/ PruneStatement \/ CommitPrune \/ AbortPrune)
      => RunsInv'
<1> SUFFICES ASSUME IInv, RunsInv,
                    PruneSQLite \/ BeginPrune \/ PruneStatement \/ CommitPrune \/ AbortPrune
             PROVE  RunsInv'
  OBVIOUS
<1>1. UNCHANGED <<time, probes, backend, policy>> /\ time \in Nat
  BY DEF PruneSQLite, BeginPrune, PruneStatement, CommitPrune, AbortPrune, IInv
<1>2. ASSUME NEW t, Telling(t) PROVE Telling(t)'
  BY <1>1, <1>2, TellingStays
<1>3. PICK now_tables : now_tables = tables /\ Telling(now_tables)
  BY DEF RunsInv
<1>4. ASSUME UNCHANGED tables PROVE Telling(tables)'
  BY <1>2, <1>3, <1>4 DEF Telling
<1>5. OneAtATime
  BY DEF IInv, OneAtATime
<1>6. CASE PruneSQLite
  <2>1. PICK from \in Nat : from = time
    BY <1>1
  <2>2. Ready(from)
    BY <2>1, IsReady
  <2>3. PICK u : u = RollupAndPrune(now_tables, from)
    OBVIOUS
  <2>4. DOMAIN u = Tables /\ TellsRuns(u)
    BY <1>3, <1>5, <2>2, <2>3, AllTell DEF Telling
  <2>5. Telling(u)'
    BY <1>2, <2>4 DEF Telling
  <2>6. tables' = u /\ pruning' = Idle
    BY <1>3, <1>6, <2>1, <2>3 DEF PruneSQLite, PruneIsDue
  <2>7. Telling(tables)'
    BY <2>5, <2>6 DEF Telling
  <2> QED
    BY <2>6, <2>7 DEF RunsInv
<1>7. CASE BeginPrune
  <2>1. UNCHANGED tables /\ pruning' = [step |-> 1, from |-> time, tables |-> tables]
    BY <1>7 DEF BeginPrune
  <2>2. Telling(tables)'
    BY <1>4, <2>1
  <2>3. RunsRemaining' = tables' /\ pruning'.tables = tables'
    BY <2>1 DEF RunsRemaining
  <2>4. Telling(RunsRemaining)'
    BY <2>2, <2>3 DEF Telling
  <2>5. DOMAIN pruning'.tables = Tables
    BY <1>3, <2>1, <2>3 DEF Telling
  <2> QED
    BY <2>2, <2>4, <2>5 DEF RunsInv
<1>8. CASE PruneStatement
  <2>1. pruning.step \in 1 .. 3 /\ UNCHANGED tables
    BY <1>8 DEF PruneStatement, OnRaw
  <2>2. pruning # Idle /\ Pruning
    BY <2>1 DEF IInv, Idle, None
  <2>3. PICK k \in 1 .. 3 : k = pruning.step
    BY <2>1
  <2>4. PICK t : t = pruning.tables /\ DOMAIN t = Tables
    BY <2>2 DEF RunsInv
  <2>5. PICK from \in Nat : from = pruning.from /\ from <= time
    BY <2>2 DEF Pruning
  <2>6. PICK u : u = Statement(k, t, from)
    OBVIOUS
  <2>7. /\ DOMAIN pruning' = {"step", "from", "tables"}
        /\ pruning'.step = k + 1 /\ pruning'.from = from /\ pruning'.tables = u
    BY <1>8, <2>2, <2>3, <2>4, <2>5, <2>6 DEF PruneStatement, Pruning
  <2>8. Ready(from)
    BY <2>5, IsReady
  <2>9. PICK w : w = IF k \in {2, 3} THEN Statement(3, t, from) ELSE t
    OBVIOUS
  <2>10. w = RunsRemaining /\ Telling(w)
    BY <2>2, <2>3, <2>4, <2>5, <2>9 DEF RunsRemaining, RunsInv
  <2>11. DOMAIN u = Tables
    BY <2>4, <2>6, RawAndRuns
  <2>12. PICK v : v = IF k \in {1, 2} THEN Statement(3, u, from) ELSE u
    OBVIOUS
  <2>13. DOMAIN v = Tables
    BY <2>11, <2>12, RawAndRuns
  <2>14. TellsRuns(v)
    <3>1. CASE k = 1
      <4>1. w = t /\ v = Statement(3, Statement(1, t, from), from)
        BY <2>6, <2>9, <2>12, <3>1
      <4>2. TellsRuns(t)
        BY <2>10, <4>1 DEF Telling
      <4> QED
        BY <1>5, <2>4, <2>8, <4>1, <4>2, CompactTells
    <3>2. CASE k = 2
      <4>1. w = Statement(3, t, from) /\ v = Statement(3, u, from) /\ u = Statement(2, t, from)
        BY <2>6, <2>9, <2>12, <3>2
      <4>2. u.raw = t.raw /\ u.runs = t.runs
        BY <2>4, <4>1, RawAndRuns
      <4>3. v.raw = w.raw /\ v.runs = w.runs
        BY <2>4, <2>11, <4>1, <4>2, DeletedRaw
      <4>4. TellsRuns(w)
        BY <2>10 DEF Telling
      <4> QED
        BY <4>3, <4>4, TellsAlike
    <3>3. CASE k = 3
      <4>1. v = w
        BY <2>6, <2>9, <2>12, <3>3
      <4> QED
        BY <2>10, <4>1 DEF Telling
    <3> QED
      BY <3>1, <3>2, <3>3
  <2>15. Telling(v)'
    BY <1>2, <2>13, <2>14 DEF Telling
  <2>16. RunsRemaining' = v
    <3>1. CASE k \in {1, 2}
      <4>1. RunsRemaining' = Statement(3, u, from)'
        BY <2>7, <3>1 DEF RunsRemaining
      <4>2. Statement(3, u, from)' = Statement(3, u, from)
        BY <1>1 DEF Statement
      <4> QED
        BY <2>12, <3>1, <4>1, <4>2
    <3>2. CASE k = 3
      <4>1. pruning'.step \notin {2, 3}
        BY <2>7, <3>2
      <4> QED
        BY <2>7, <2>12, <3>2, <4>1 DEF RunsRemaining
    <3> QED
      BY <3>1, <3>2
  <2>17. Telling(RunsRemaining)'
    BY <2>15, <2>16 DEF Telling
  <2>18. Telling(tables)'
    BY <1>4, <2>1
  <2>19. DOMAIN pruning'.tables = Tables
    BY <2>7, <2>11
  <2> QED
    BY <2>17, <2>18, <2>19 DEF RunsInv
<1>9. CASE CommitPrune
  <2>1. pruning.step = 4 /\ pruning' = Idle
        /\ tables' = Run(4, 9, pruning.tables, pruning.from)
    BY <1>9 DEF CommitPrune
  <2>2. pruning # Idle /\ Pruning
    BY <2>1 DEF IInv, Idle, None
  <2>3. PICK t : t = pruning.tables
    OBVIOUS
  <2>4. PICK from \in Nat : from = pruning.from /\ from <= time
    BY <2>2 DEF Pruning
  <2>5. DOMAIN t = Tables /\ TellsRuns(t)
    BY <2>1, <2>2, <2>3 DEF RunsInv, RunsRemaining, Telling
  <2>6. Ready(from)
    BY <2>4, IsReady
  <2>7. PICK u : u = Run(4, 9, t, from)
    OBVIOUS
  <2>8. DOMAIN u = Tables /\ TellsRuns(u)
    BY <1>5, <2>5, <2>6, <2>7, LastTell
  <2>9. Telling(u)'
    BY <1>2, <2>8 DEF Telling
  <2>10. tables' = u
    BY <2>1, <2>3, <2>4, <2>7
  <2>11. Telling(tables)'
    BY <2>9, <2>10 DEF Telling
  <2> QED
    BY <2>1, <2>11 DEF RunsInv
<1>10. CASE AbortPrune
  <2>1. UNCHANGED tables /\ pruning' = Idle
    BY <1>10 DEF AbortPrune
  <2> QED
    BY <1>4, <2>1 DEF RunsInv
<1> QED
  BY <1>6, <1>7, <1>8, <1>9, <1>10

\* Other retentions leave the tables alone.
LEMMA RunsReload == IInv /\ RunsInv /\ ReloadPolicy => RunsInv'
<1> SUFFICES ASSUME IInv, RunsInv, ReloadPolicy PROVE RunsInv'
  OBVIOUS
<1>1. UNCHANGED <<time, probes, tables, pruning>> /\ pruning = Idle
  BY DEF ReloadPolicy
<1>2. PICK t : t = tables /\ Telling(t)
  BY DEF RunsInv
<1>3. Telling(t)'
  BY <1>1, <1>2, TellingStays
<1>4. Telling(tables)'
  BY <1>1, <1>2, <1>3 DEF Telling
<1> QED
  BY <1>1, <1>4 DEF RunsInv

\* The invariant depends on nothing but the variables.
LEMMA RunsStutter == RunsInv /\ UNCHANGED rollupVars => RunsInv'
<1> SUFFICES ASSUME RunsInv, UNCHANGED rollupVars PROVE RunsInv'
  OBVIOUS
<1>1. UNCHANGED <<time, backend, policy, tables, pruning, probes>>
  BY DEF rollupVars
<1>2. ASSUME NEW t, Telling(t) PROVE Telling(t)'
  BY <1>1, <1>2, TellingStays
<1>3. PICK t : t = tables /\ Telling(t)
  BY DEF RunsInv
<1>4. Telling(tables)'
  BY <1>1, <1>2, <1>3 DEF Telling
<1>5. CASE pruning = Idle
  BY <1>1, <1>4, <1>5 DEF RunsInv
<1>6. CASE pruning # Idle
  <2>1. PICK w : w = RunsRemaining /\ Telling(w) /\ DOMAIN pruning.tables = Tables
    BY <1>6 DEF RunsInv
  <2>2. RunsRemaining' = w
    BY <1>1, <2>1 DEF RunsRemaining, Statement
  <2>3. Telling(RunsRemaining)'
    BY <1>2, <2>1, <2>2 DEF Telling
  <2> QED
    BY <1>1, <1>4, <2>1, <2>3 DEF RunsInv
<1> QED
  BY <1>5, <1>6

\* Then the runs of the two tables together are those of the probes since some moment.
LEMMA RunsToldNow == IInv /\ RunsInv => RunsAreKept
<1> SUFFICES ASSUME IInv, RunsInv PROVE RunsAreKept
  OBVIOUS
<1>1. time \in Nat /\ Finite(probes, time) /\ OneAtATime
  BY DEF IInv, OneAtATime
<1>2. PICK t : t = tables /\ TellsRuns(t)
  BY DEF RunsInv, Telling
<1>3. PICK gone \in SUBSET probes :
          /\ \A q \in gone, r \in probes :
                r.at <= q.at => r \notin Kept(0) /\ r \notin t.raw /\ (Reportable(r) => r \in gone)
          /\ t.runs = OutcomeRuns({}, Compacted(t, gone))
  BY <1>2 DEF TellsRuns
<1>4. t.raw \in SUBSET probes /\ \A q \in t.raw, r \in probes : q.at < r.at => r \in t.raw
  BY <1>2 DEF TellsRuns
<1>5. \A p \in probes : p.at \in Nat /\ p.at <= time
  BY <1>1 DEF Finite, AnyProbe
<1>6. PICK A : A = Compacted(t, gone)
  OBVIOUS
<1>7. PICK B : B = Rep(t.raw)
  OBVIOUS
<1>8. gone \cap t.raw = {}
  <2>1. ASSUME NEW p \in gone PROVE p \notin t.raw
    <3>1. p \in probes /\ p.at <= p.at
      BY <1>5
    <3> QED
      BY <1>3, <3>1
  <2> QED
    BY <2>1
<1>9. A \cup B = Rep(probes \ gone)
  BY <1>4, <1>6, <1>7, <1>8 DEF Compacted, Rep
<1>10. Timed(A \cup B, time)
  <2>1. PICK S : S = A \cup B
    OBVIOUS
  <2>2. S \in SUBSET probes /\ \A p \in S : Reportable(p)
    BY <1>9, <2>1 DEF Rep
  <2>3. Timed(S, time)
    BY <1>1, <2>2, SomeTimed
  <2> QED
    BY <2>1, <2>3
<1>11. ASSUME NEW p \in A, NEW q \in B PROVE p.at < q.at
  <2>1. p \in probes /\ p \notin t.raw /\ q \in t.raw /\ q \in probes
    BY <1>4, <1>6, <1>7 DEF Compacted, Rep
  <2>2. ~(q.at < p.at) /\ p.at # q.at
    BY <1>1, <1>4, <2>1 DEF OneAtATime
  <2> QED
    BY <1>5, <2>1, <2>2
<1>12. ReportableRuns(t) = OutcomeRuns({}, A \cup B)
  <2>1. ReportableRuns(t) = OutcomeRuns(OutcomeRuns({}, A), B)
    BY <1>3, <1>6, <1>7, RunsOfReportable DEF ReportableRuns
  <2>2. PICK bound \in Nat : bound = time
    BY <1>1
  <2>3. Timed(A \cup B, bound)
    BY <1>10, <2>2
  <2>4. OutcomeRuns(OutcomeRuns({}, A), B) = OutcomeRuns({}, A \cup B)
    BY <1>11, <2>3, RunsInTwo
  <2> QED
    BY <2>1, <2>4
<1>13. \E u \in {0} \cup {p.at + 1 : p \in probes} :
            Kept(0) \subseteq Since(u) /\ Rep(Since(u)) = Rep(probes \ gone)
  <2>1. CASE gone = {}
    <3>1. Since(0) = probes
      BY <1>5 DEF Since
    <3> QED
      BY <2>1, <3>1 DEF Kept
  <2>2. CASE gone # {}
    <3>1. PICK moments \in SUBSET Nat : moments = {p.at : p \in gone}
      BY <1>5
    <3>2. Max(moments) \in moments /\ \A m \in moments : m <= Max(moments)
      <4>1. moments # {} /\ \A m \in moments : m <= time
        BY <1>5, <2>2, <3>1
      <4> QED
        BY <1>1, <4>1, MaxOf
    <3>3. PICK last \in gone : last.at = Max(moments)
      BY <3>1, <3>2
    <3>4. last \in probes /\ \A p \in gone : p.at <= last.at
      BY <3>1, <3>2, <3>3
    <3>5. PICK u : u = last.at + 1
      OBVIOUS
    <3>6. ASSUME NEW p \in probes PROVE p.at >= u <=> ~(p.at <= last.at)
      BY <1>5, <3>4, <3>5
    <3>7. Kept(0) \subseteq Since(u)
      <4>1. ASSUME NEW p \in Kept(0) PROVE p \in Since(u)
        <5>1. p \in probes
          BY DEF Kept
        <5> QED
          BY <1>3, <3>3, <3>6, <5>1 DEF Since
      <4> QED
        BY <4>1
    <3>8. Rep(Since(u)) = Rep(probes \ gone)
      <4>1. ASSUME NEW p \in probes, Reportable(p) PROVE p.at >= u <=> p \notin gone
        BY <1>3, <3>3, <3>4, <3>6, <4>1
      <4> QED
        BY <4>1 DEF Rep, Since
    <3> QED
      BY <3>4, <3>5, <3>7, <3>8
  <2> QED
    BY <2>1, <2>2
<1>14. PICK u \in {0} \cup {p.at + 1 : p \in probes} :
            Kept(0) \subseteq Since(u) /\ Rep(Since(u)) = Rep(probes \ gone)
  BY <1>13
<1>15. OutcomeRuns({}, Since(u)) = OutcomeRuns({}, Rep(Since(u)))
  BY RunsOfReportable
<1>16. ReportableRuns(tables) = OutcomeRuns({}, Since(u))
  BY <1>2, <1>9, <1>12, <1>14, <1>15
<1> QED
  BY <1>14, <1>16 DEF RunsAreKept

\* What status intervals are computed from are the runs of equal outcomes.
THEOREM RunsAlwaysKept == RollupSpec => []RunsAreKept
<1>1. IInv /\ RunsInv /\ [RollupNext]_rollupVars => RunsInv'
  BY RunsTick, RunsSaveProbe, RunsPrune, RunsReload, RunsStutter DEF RollupNext
<1> QED
  BY <1>1, RunsInit, RunsToldNow, InvariantHolds, PTL DEF RollupSpec

=============================================================================
