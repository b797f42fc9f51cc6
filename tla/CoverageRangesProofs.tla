------------------------ MODULE CoverageRangesProofs ------------------------
(***************************************************************************)
(* What the merge loop of ranges.ts computes, for every duration and every *)
(* set of ranges: the loop is a fold over the ranges in their order, and   *)
(* what it has passed so far satisfies the loop invariant Merged.          *)
(*                                                                         *)
(* The library states induction over finite sets for operators; here it is *)
(* derived for sets, from the minimal elements of a well-founded order.    *)
(***************************************************************************)
EXTENDS CoverageRanges, FiniteSetTheorems, SequenceTheorems, TLAPS

\* A family of sets that has {} and grows with its members has S.
LEMMA SetInduction ==
  ASSUME NEW S, IsFiniteSet(S), NEW F,
         {} \in F,
         \A T \in SUBSET S : T # {} => \E x \in T : (T \ {x} \in F => T \in F)
  PROVE  S \in F
<1> SUFFICES ASSUME S \notin F PROVE FALSE
  OBVIOUS
<1> DEFINE Bad == (SUBSET S) \ F
           R == StrictSubsetOrdering(S)
           U == FiniteSubsetsOf(S)
<1>1. IsWellFoundedOn(R, U)
  BY FS_StrictSubsetOrderingWellFounded
<1>2. Bad # {} /\ Bad \subseteq U
  BY FS_Subset DEF FiniteSubsetsOf
<1> HIDE DEF Bad, R, U
<1>3. PICK T \in Bad : \A V \in Bad : ~(<<V, T>> \in R)
  BY <1>1, <1>2, WFMin
<1> USE DEF Bad, R
<1>4. T \in SUBSET S /\ T # {} /\ T \notin F
  BY <1>3
<1>5. PICK x \in T : (T \ {x} \in F => T \in F)
  BY <1>4
<1>6. T \ {x} \in Bad
  BY <1>4, <1>5
<1>7. <<T \ {x}, T>> \in R
  BY <1>4, <1>5 DEF StrictSubsetOrdering
<1> QED BY <1>3, <1>6, <1>7

LEMMA NatSetInduction ==
  ASSUME NEW F, 0 \in F, \A n \in Nat : n \in F => n + 1 \in F
  PROVE  Nat \subseteq F
<1> SUFFICES ASSUME ~(Nat \subseteq F) PROVE FALSE
  OBVIOUS
<1> DEFINE Bad == Nat \ F
           R == OpToRel(<, Nat)
<1>1. IsWellFoundedOn(R, Nat)
  BY NatLessThanWellFounded
<1>2. Bad # {} /\ Bad \subseteq Nat
  OBVIOUS
<1> HIDE DEF Bad, R
<1>3. PICK n \in Bad : \A m \in Bad : ~(<<m, n>> \in R)
  BY <1>1, <1>2, WFMin
<1> USE DEF Bad, R
<1>4. n \in Nat /\ n # 0 /\ n \notin F
  BY <1>3
<1>5. n - 1 \in Nat /\ (n - 1) + 1 = n
  BY <1>4
<1>6. n - 1 \in Bad
  BY <1>4, <1>5
<1>7. <<n - 1, n>> \in R
  BY <1>4, <1>5 DEF OpToRel
<1> QED BY <1>3, <1>6, <1>7

-----------------------------------------------------------------------------
(* Folds over the subsets of a finite set.                                 *)

\* The parts of a fold over the subsets of S: values in V, a first one, the
\* element that is taken next, and the value after one element more.
CanFold(S, V, base, pick, next) ==
  /\ base \in V
  /\ \A s \in SUBSET S : s # {} => pick[s] \in s
  /\ \A x \in S, v \in V : next[<<x, v>>] \in V

IsFold(it, S, base, pick, next) ==
  \A s \in SUBSET S :
    it[s] = IF s = {} THEN base ELSE next[<<pick[s], it[s \ {pick[s]}]>>]

\* The recursive definition of a fold has a solution: by induction on the
\* number of elements.
LEMMA FoldOverSet ==
  ASSUME NEW S, IsFiniteSet(S), NEW V, NEW base, NEW pick, NEW next,
         CanFold(S, V, base, pick, next)
  PROVE  \E it \in [SUBSET S -> V] : IsFold(it, S, base, pick, next)
<1> USE DEF CanFold, IsFold
<1> DEFINE G(n) == {s \in SUBSET S : Cardinality(s) <= n}
           Fold(g, T) == \A s \in T :
             g[s] = IF s = {} THEN base ELSE next[<<pick[s], g[s \ {pick[s]}]>>]
           F == {n \in Nat : \E g \in [G(n) -> V] : Fold(g, G(n))}
<1>1. \A s \in SUBSET S : Cardinality(s) \in Nat /\ Cardinality(s) <= Cardinality(S)
  BY FS_Subset, FS_CardinalityType
<1>2. 0 \in F
  <2>1. \A s \in G(0) : s = {}
    BY <1>1, FS_EmptySet, FS_Subset
  <2>2. [s \in G(0) |-> base] \in [G(0) -> V] /\ Fold([s \in G(0) |-> base], G(0))
    BY <2>1
  <2> QED BY <2>2
<1>3. ASSUME NEW n \in Nat, n \in F PROVE n + 1 \in F
  <2>1. PICK g \in [G(n) -> V] : Fold(g, G(n))
    BY <1>3
  <2> DEFINE h == [s \in G(n + 1) |->
                     IF s = {} THEN base ELSE next[<<pick[s], g[s \ {pick[s]}]>>]]
  <2>2. ASSUME NEW s \in G(n + 1), s # {}
        PROVE  pick[s] \in S /\ s \ {pick[s]} \in G(n) /\ s \ {pick[s]} \in G(n + 1)
    <3>1. IsFiniteSet(s) /\ pick[s] \in s
      BY <2>2, FS_Subset
    <3>2. Cardinality(s \ {pick[s]}) = Cardinality(s) - 1
      BY <3>1, FS_RemoveElement
    <3> QED BY <1>1, <2>2, <3>1, <3>2
  <2>3. \A s \in G(n) : h[s] = g[s] /\ s \in G(n + 1)
    <3>1. \A s \in G(n) : s \in G(n + 1)
      BY <1>1
    <3> QED BY <2>1, <3>1
  <2>4. h \in [G(n + 1) -> V]
    <3> SUFFICES ASSUME NEW s \in G(n + 1), s # {}
                 PROVE  next[<<pick[s], g[s \ {pick[s]}]>>] \in V
      OBVIOUS
    <3>1. g[s \ {pick[s]}] \in V
      BY <2>1, <2>2
    <3> QED BY <2>2, <3>1
  <2>5. ASSUME NEW s \in G(n + 1)
        PROVE  h[s] = IF s = {} THEN base ELSE next[<<pick[s], h[s \ {pick[s]}]>>]
    BY <2>2, <2>3
  <2> HIDE DEF h, G
  <2>6. Fold(h, G(n + 1))
    BY <2>5
  <2> QED BY <2>4, <2>6
<1> HIDE DEF F
<1>4. Cardinality(S) \in F
  BY <1>1, <1>2, <1>3, NatSetInduction
<1>5. G(Cardinality(S)) = SUBSET S
  BY <1>1
<1> QED BY <1>4, <1>5 DEF F

-----------------------------------------------------------------------------
(* Ranges and their order.                                                 *)

LEMMA RangeFields ==
  ASSUME NEW d \in Nat, NEW r \in Ranges(d)
  PROVE  /\ r.startMs \in Nat /\ r.endMs \in Nat
         /\ r.startMs < r.endMs /\ r.endMs <= d
         /\ r = [startMs |-> r.startMs, endMs |-> r.endMs]
  BY DEF Ranges

LEMMA RangesFinite ==
  ASSUME NEW d \in Nat
  PROVE  IsFiniteSet(Ranges(d))
<1> DEFINE P == (0..d) \X (0..d)
           Q == [startMs : 0..d, endMs : 0..d]
           f == [p \in P |-> [startMs |-> p[1], endMs |-> p[2]]]
<1>1. IsFiniteSet(P)
  <2>1. IsFiniteSet(0..d)
    BY FS_Interval
  <2> HIDE DEF P
  <2> QED BY <2>1, FS_Product DEF P
<1>2. f \in Surjection(P, Q)
  <2>1. f \in [P -> Q]
    OBVIOUS
  <2>2. ASSUME NEW q \in Q PROVE \E p \in P : f[p] = q
    <3>1. <<q.startMs, q.endMs>> \in P /\ q = [startMs |-> q.startMs, endMs |-> q.endMs]
      OBVIOUS
    <3> QED BY <3>1
  <2> QED BY <2>1, <2>2 DEF Surjection
<1>3. IsFiniteSet(Q)
  BY <1>1, <1>2, FS_Surjection
<1> QED BY <1>3, FS_Subset DEF Ranges

LEMMA LatestExists ==
  ASSUME NEW d \in Nat, NEW R \in SUBSET Ranges(d), R # {}
  PROVE  Latest(R) \in R /\ \A r \in R : ~Earlier(Latest(R), r)
<1> DEFINE F == {T \in SUBSET R : T # {} =>
                   \E last \in T : \A r \in T : ~Earlier(last, r)}
<1>1. IsFiniteSet(R)
  BY RangesFinite, FS_Subset
<1>2. \A r \in R : r.startMs \in Nat /\ r.endMs \in Nat
  BY RangeFields
<1>3. ASSUME NEW T \in SUBSET R, T # {}
      PROVE  \E x \in T : (T \ {x} \in F => T \in F)
  <2>1. PICK x \in T : TRUE
    BY <1>3
  <2>2. CASE T \ {x} = {}
    BY <1>2, <2>1, <2>2 DEF Earlier
  <2>3. CASE T \ {x} # {}
    <3> SUFFICES ASSUME T \ {x} \in F PROVE T \in F
      BY <2>1
    <3>1. PICK last \in T \ {x} : \A r \in T \ {x} : ~Earlier(last, r)
      BY <2>3
    <3>2. CASE Earlier(last, x)
      <4>1. \A r \in T : ~Earlier(x, r)
        BY <1>2, <2>1, <3>1, <3>2 DEF Earlier
      <4> QED BY <2>1, <4>1
    <3>3. CASE ~Earlier(last, x)
      BY <3>1, <3>3
    <3> QED BY <3>2, <3>3
  <2> QED BY <2>2, <2>3
<1> HIDE DEF F
<1>4. R \in F
  <2>1. {} \in F
    BY DEF F
  <2> QED BY <1>1, <1>3, <2>1, SetInduction
<1>5. \E last \in R : \A r \in R : ~Earlier(last, r)
  BY <1>4 DEF F
<1> QED BY <1>5 DEF Latest

-----------------------------------------------------------------------------
(* The merge loop: what it has after the ranges of a set.                  *)

PositionsIn(R, p) == \E r \in R : p \in Int /\ r.startMs <= p /\ p < r.endMs

LEMMA PositionsMean ==
  ASSUME NEW d \in Nat, NEW R \in SUBSET Ranges(d), NEW p
  PROVE  p \in Positions(R) <=> PositionsIn(R, p)
<1>1. ASSUME NEW r \in R
      PROVE  p \in r.startMs .. (r.endMs - 1) <=> p \in Int /\ r.startMs <= p /\ p < r.endMs
  BY RangeFields
<1> QED BY <1>1 DEF Positions, PositionsIn

\* What the loop has when it has passed the ranges of s.
Merged(d, s, merged) ==
  /\ merged \in Seq(Ranges(d))
  /\ merged = <<>> <=> s = {}
  /\ \A i \in 1..Len(merged) : \E r \in s : r.startMs = merged[i].startMs
  /\ \A i, j \in 1..Len(merged) : i < j => merged[i].endMs < merged[j].startMs
  /\ \A p \in Int : PositionsIn(ToSet(merged), p) <=> PositionsIn(s, p)

LEMMA ToSetOfSeq ==
  ASSUME NEW T, NEW q \in Seq(T)
  PROVE  /\ ToSet(q) \subseteq T
         /\ \A x : x \in ToSet(q) <=> \E i \in 1..Len(q) : x = q[i]
  BY DEF ToSet

LEMMA RangeAppended ==
  ASSUME NEW d \in Nat, NEW s \in SUBSET Ranges(d), NEW r \in Ranges(d),
         NEW merged, Merged(d, s, merged),
         merged = <<>> \/ r.startMs > Last(merged).endMs
  PROVE  Merged(d, s \union {r}, Append(merged, r))
<1> DEFINE new == Append(merged, r)
           n == Len(merged)
<1>1. merged \in Seq(Ranges(d)) /\ n \in Nat
  BY DEF Merged
<1>2. /\ new \in Seq(Ranges(d)) /\ new # <<>> /\ Len(new) = n + 1
      /\ new[n + 1] = r /\ \A i \in 1..n : new[i] = merged[i]
  BY <1>1, AppendProperties
<1>3. \A i \in 1..n : merged[i].endMs < r.startMs
  <2> SUFFICES ASSUME NEW i \in 1..n PROVE merged[i].endMs < r.startMs
    OBVIOUS
  <2>1. /\ merged[i] \in Ranges(d) /\ merged[n] \in Ranges(d)
        /\ merged[n].endMs < r.startMs
    BY <1>1 DEF Last
  <2>2. i < n => merged[i].endMs < merged[n].startMs
    BY <1>1 DEF Merged
  <2> QED BY <2>1, <2>2, RangeFields
<1> HIDE DEF new, n
<1>4. \A i \in 1..Len(new) : \E q \in s \union {r} : q.startMs = new[i].startMs
  <2>1. \A i \in 1..n : \E q \in s : q.startMs = merged[i].startMs
    BY DEF Merged, n
  <2> QED BY <1>1, <1>2, <2>1
<1>5. ASSUME NEW i \in 1..Len(new), NEW j \in 1..Len(new), i < j
      PROVE  new[i].endMs < new[j].startMs
  <2>1. \A k, l \in 1..n : k < l => merged[k].endMs < merged[l].startMs
    BY DEF Merged, n
  <2> QED BY <1>1, <1>2, <1>3, <1>5, <2>1
<1>6. ToSet(new) = ToSet(merged) \union {r}
  <2>1. \A x : x \in ToSet(new) <=> \E i \in 1..Len(new) : x = new[i]
    BY <1>2, ToSetOfSeq
  <2>2. \A x : x \in ToSet(merged) <=> \E i \in 1..n : x = merged[i]
    BY <1>1, ToSetOfSeq DEF n
  <2>3. 1..Len(new) = (1..n) \union {n + 1}
    BY <1>1, <1>2
  <2> QED BY <1>2, <2>1, <2>2, <2>3
<1>7. \A p \in Int : PositionsIn(ToSet(new), p) <=> PositionsIn(s \union {r}, p)
  BY <1>6 DEF Merged, PositionsIn
<1> QED BY <1>2, <1>4, <1>5, <1>7 DEF Merged, new

LEMMA MaxOfTwo ==
  ASSUME NEW a \in Nat, NEW b \in Nat
  PROVE  Max({a, b}) = IF a >= b THEN a ELSE b
<1> DEFINE m == IF a >= b THEN a ELSE b
<1>1. m \in {a, b} /\ \A y \in {a, b} : m >= y
  OBVIOUS
<1>2. ASSUME NEW x \in {a, b}, \A y \in {a, b} : x >= y PROVE x = m
  BY <1>2
<1> QED BY <1>1, <1>2 DEF Max

Longer(last, r) ==
  [startMs |-> last.startMs,
   endMs |-> IF last.endMs >= r.endMs THEN last.endMs ELSE r.endMs]

LEMMA LengthenedIs ==
  ASSUME NEW d \in Nat, NEW r \in Ranges(d), NEW merged \in Seq(Ranges(d)), merged # <<>>
  PROVE  LET n == Len(merged)
             new == [merged EXCEPT ![n] = Longer(merged[n], r)]
         IN  /\ [merged EXCEPT ![Len(merged)].endMs = Max({@, r.endMs})] = new
             /\ n \in Nat \ {0} /\ merged[n] \in Ranges(d)
             /\ Longer(merged[n], r) \in Ranges(d)
             /\ new \in Seq(Ranges(d)) /\ new # <<>> /\ Len(new) = n
             /\ new[n] = Longer(merged[n], r)
             /\ \A i \in 1..n : i # n => new[i] = merged[i]
<1> DEFINE n == Len(merged)
           last == merged[n]
           top == IF last.endMs >= r.endMs THEN last.endMs ELSE r.endMs
           longer == Longer(last, r)
           new == [merged EXCEPT ![n] = longer]
<1>1. n \in Nat \ {0} /\ last \in Ranges(d)
  OBVIOUS
<1>2. longer \in Ranges(d)
  BY <1>1, RangeFields DEF Ranges, Longer
<1>3. [merged EXCEPT ![Len(merged)].endMs = Max({@, r.endMs})] = new
  <2>1. Max({last.endMs, r.endMs}) = top
    BY <1>1, RangeFields, MaxOfTwo
  <2>2. last = [startMs |-> last.startMs, endMs |-> last.endMs]
    BY <1>1, RangeFields
  <2>3. longer = [startMs |-> last.startMs, endMs |-> top]
    BY DEF Longer
  <2> HIDE DEF top, longer
  <2>4. [last EXCEPT !.endMs = top] = longer
    BY <2>2, <2>3
  <2> QED BY <2>1, <2>4
<1>4. /\ new \in Seq(Ranges(d)) /\ new # <<>> /\ Len(new) = n
      /\ new[n] = longer /\ \A i \in 1..n : i # n => new[i] = merged[i]
  <2> HIDE DEF longer
  <2> QED BY <1>1, <1>2
<1> QED BY <1>1, <1>2, <1>3, <1>4

LEMMA RangeLengthened ==
  ASSUME NEW d \in Nat, NEW s \in SUBSET Ranges(d), NEW r \in Ranges(d),
         \A q \in s : q.startMs <= r.startMs,
         NEW merged, Merged(d, s, merged),
         merged # <<>>, ~(r.startMs > Last(merged).endMs)
  PROVE  Merged(d, s \union {r},
                [merged EXCEPT ![Len(merged)].endMs = Max({@, r.endMs})])
<1> DEFINE n == Len(merged)
           last == merged[n]
           longer == Longer(last, r)
           new == [merged EXCEPT ![n] = longer]
<1>0. merged \in Seq(Ranges(d))
  BY DEF Merged
<1>1. /\ [merged EXCEPT ![Len(merged)].endMs = Max({@, r.endMs})] = new
      /\ n \in Nat \ {0} /\ last \in Ranges(d) /\ longer \in Ranges(d)
      /\ new \in Seq(Ranges(d)) /\ new # <<>> /\ Len(new) = n
      /\ new[n] = longer /\ \A i \in 1..n : i # n => new[i] = merged[i]
  BY <1>0, LengthenedIs
<1>2. /\ last.startMs \in Nat /\ last.endMs \in Nat
      /\ last.startMs < last.endMs
      /\ r.startMs \in Nat /\ r.endMs \in Nat
      /\ r.startMs < r.endMs /\ r.startMs <= last.endMs
  BY <1>1, RangeFields DEF Last
<1>3. last.startMs <= r.startMs
  BY <1>1 DEF Merged
<1>4. /\ longer.startMs = last.startMs
      /\ longer.endMs = IF last.endMs >= r.endMs THEN last.endMs ELSE r.endMs
  BY DEF Longer
<1> HIDE DEF new, longer
<1>5. \A i \in 1..n : new[i].startMs = merged[i].startMs
  BY <1>1, <1>4
<1>6. \A i \in 1..Len(new) : \E q \in s \union {r} : q.startMs = new[i].startMs
  BY <1>1, <1>5 DEF Merged
<1>7. ASSUME NEW i \in 1..Len(new), NEW j \in 1..Len(new), i < j
      PROVE  new[i].endMs < new[j].startMs
  <2>1. i \in 1..n /\ j \in 1..n /\ i # n
    BY <1>1, <1>7
  <2> QED BY <1>1, <1>5, <1>7, <2>1 DEF Merged
<1>8. ASSUME NEW p \in Int
       PROVE  PositionsIn(ToSet(new), p) <=> PositionsIn(s \union {r}, p)
  <2> DEFINE In(q) == q.startMs <= p /\ p < q.endMs
  <2>1. PositionsIn(ToSet(merged), p) <=> \E i \in 1..n : In(merged[i])
    BY <1>0, <1>1, ToSetOfSeq DEF PositionsIn
  <2>2. PositionsIn(ToSet(new), p) <=> \E i \in 1..n : In(new[i])
    BY <1>0, <1>1, ToSetOfSeq DEF PositionsIn
  <2>3. In(longer) <=> In(last) \/ In(r)
    BY <1>2, <1>3, <1>4
  <2>4. PositionsIn(s \union {r}, p) <=> PositionsIn(s, p) \/ In(r)
    BY DEF PositionsIn
  <2> HIDE DEF In
  <2>5. (\E i \in 1..n : In(new[i])) <=> (\E i \in 1..n : In(merged[i])) \/ In(r)
    BY <1>1, <2>3
  <2> QED BY <2>1, <2>2, <2>4, <2>5 DEF Merged
<1> QED BY <1>1, <1>6, <1>7, <1>8 DEF Merged

LEMMA MergeNextKeeps ==
  ASSUME NEW d \in Nat, NEW s \in SUBSET Ranges(d), NEW r \in Ranges(d),
         \A q \in s : q.startMs <= r.startMs,
         NEW merged, Merged(d, s, merged)
  PROVE  Merged(d, s \union {r}, MergeNext(r, merged))
<1>1. CASE merged = <<>> \/ r.startMs > Last(merged).endMs
  BY <1>1, RangeAppended DEF MergeNext
<1>2. CASE merged # <<>> /\ ~(r.startMs > Last(merged).endMs)
  BY <1>2, RangeLengthened DEF MergeNext
<1> QED BY <1>1, <1>2

LEMMA MergeNextType ==
  ASSUME NEW d \in Nat, NEW r \in Ranges(d), NEW merged \in Seq(Ranges(d))
  PROVE  MergeNext(r, merged) \in Seq(Ranges(d))
<1>1. Append(merged, r) \in Seq(Ranges(d))
  BY AppendProperties
<1>2. ASSUME merged # <<>>
      PROVE  [merged EXCEPT ![Len(merged)].endMs = Max({@, r.endMs})] \in Seq(Ranges(d))
  BY <1>2, LengthenedIs
<1> QED BY <1>1, <1>2 DEF MergeNext

\* The fold of MergeLoop is a function on the subsets of the ranges.
LEMMA MergeLoopFold ==
  ASSUME NEW d \in Nat, NEW R \in SUBSET Ranges(d)
  PROVE  \E it : /\ MergeLoop(R) = it[R]
                 /\ it = [s \in SUBSET R |-> IF s = {} THEN <<>>
                          ELSE MergeNext(Latest(s), it[s \ {Latest(s)}])]
<1> DEFINE Step(s, g) == IF s = {} THEN <<>> ELSE MergeNext(Latest(s), g[s \ {Latest(s)}])
           V == Seq(Ranges(d))
           pick == [s \in SUBSET R |-> Latest(s)]
           next == [x \in R \X V |-> MergeNext(x[1], x[2])]
<1>1. IsFiniteSet(R)
  BY RangesFinite, FS_Subset
<1>2. \A s \in SUBSET R : s # {} => pick[s] \in s
  BY LatestExists
<1>3. \A x \in R, v \in V : next[<<x, v>>] = MergeNext(x, v) /\ next[<<x, v>>] \in V
  BY MergeNextType
<1>4. <<>> \in V
  OBVIOUS
<1> HIDE DEF V, pick, next
<1>5. PICK g \in [SUBSET R -> V] : \A s \in SUBSET R :
        g[s] = IF s = {} THEN <<>> ELSE next[<<pick[s], g[s \ {pick[s]}]>>]
  <2>1. CanFold(R, V, <<>>, pick, next)
    BY <1>2, <1>3, <1>4 DEF CanFold
  <2>2. \E g \in [SUBSET R -> V] : IsFold(g, R, <<>>, pick, next)
    BY <1>1, <2>1, FoldOverSet
  <2> QED BY <2>2 DEF IsFold
<1>6. ASSUME NEW s \in SUBSET R PROVE g[s] = Step(s, g)
  <2>1. CASE s = {}
    BY <1>5, <2>1
  <2>2. CASE s # {}
    <3>1. pick[s] = Latest(s) /\ pick[s] \in R /\ g[s \ {pick[s]}] \in V
      BY <1>2, <1>5, <2>2 DEF pick
    <3> QED BY <1>3, <1>5, <2>2, <3>1
  <2> QED BY <2>1, <2>2
<1>7. g = [s \in SUBSET R |-> Step(s, g)]
  BY <1>5, <1>6
<1> DEFINE it == CHOOSE it : it = [s \in SUBSET R |-> Step(s, it)]
<1>8. it = [s \in SUBSET R |-> Step(s, it)]
  BY <1>7
<1>9. MergeLoop(R) = it[R]
  BY DEF MergeLoop, MapThenFoldSet
<1> QED BY <1>8, <1>9

LEMMA MergeLoopMerged ==
  ASSUME NEW d \in Nat, NEW R \in SUBSET Ranges(d)
  PROVE  Merged(d, R, MergeLoop(R))
<1>1. PICK it : /\ MergeLoop(R) = it[R]
                /\ it = [s \in SUBSET R |-> IF s = {} THEN <<>>
                         ELSE MergeNext(Latest(s), it[s \ {Latest(s)}])]
  BY MergeLoopFold
<1>2. \A s \in SUBSET R : it[s] = IF s = {} THEN <<>>
                                  ELSE MergeNext(Latest(s), it[s \ {Latest(s)}])
  BY <1>1
<1> DEFINE F == {s \in SUBSET R : Merged(d, s, it[s])}
<1>3. {} \in F
  <2>1. it[{}] = <<>>
    BY <1>2
  <2>2. ToSet(<<>>) = {}
    BY DEF ToSet
  <2>3. Merged(d, {}, <<>>)
    BY <2>2 DEF Merged, PositionsIn
  <2> QED BY <2>1, <2>3
<1>4. ASSUME NEW s \in SUBSET R, s # {}
      PROVE  \E x \in s : (s \ {x} \in F => s \in F)
  <2> DEFINE r == Latest(s)
             rest == s \ {r}
  <2>1. r \in s /\ \A q \in s : ~Earlier(r, q)
    BY <1>4, LatestExists
  <2>2. \A q \in rest : q.startMs <= r.startMs
    BY <2>1, RangeFields DEF Earlier
  <2>3. rest \union {r} = s /\ rest \in SUBSET Ranges(d) /\ r \in Ranges(d)
    BY <2>1
  <2>4. it[s] = MergeNext(r, it[rest])
    BY <1>2, <1>4
  <2> HIDE DEF r, rest
  <2>5. Merged(d, rest, it[rest]) => Merged(d, s, it[s])
    BY <2>2, <2>3, <2>4, MergeNextKeeps
  <2>6. rest \in F => s \in F
    BY <2>5
  <2> QED BY <2>1, <2>6 DEF rest
<1> HIDE DEF F
<1>5. R \in F
  BY <1>3, <1>4, RangesFinite, FS_Subset, SetInduction
<1> QED BY <1>1, <1>5 DEF F

\* The merge loop of ranges.ts keeps every watched position and adds none,
\* and no two of the ranges it returns overlap or touch.
THEOREM MergeKeepsPositions ==
  ASSUME NEW d \in Nat, NEW R \in SUBSET Ranges(d)
  PROVE  /\ MergeRanges(R) \in SUBSET Ranges(d)
         /\ Positions(MergeRanges(R)) = Positions(R)
         /\ Normal(MergeRanges(R))
<1> DEFINE merged == MergeLoop(R)
<1>1. Merged(d, R, merged)
  BY MergeLoopMerged
<1> HIDE DEF merged
<1>2. /\ ToSet(merged) \in SUBSET Ranges(d)
      /\ \A x : x \in ToSet(merged) <=> \E i \in 1..Len(merged) : x = merged[i]
  BY <1>1, ToSetOfSeq DEF Merged
<1>3. \A p : p \in Positions(ToSet(merged)) <=> p \in Positions(R)
  <2>1. \A p : p \in Positions(ToSet(merged)) <=> PositionsIn(ToSet(merged), p)
    BY <1>2, PositionsMean
  <2>2. \A p : p \in Positions(R) <=> PositionsIn(R, p)
    BY PositionsMean
  <2> QED BY <1>1, <2>1, <2>2 DEF Merged, PositionsIn
<1>4. Normal(ToSet(merged))
  <2> SUFFICES ASSUME NEW i \in 1..Len(merged), NEW j \in 1..Len(merged),
                      merged[i] # merged[j]
               PROVE  \/ merged[i].endMs < merged[j].startMs
                      \/ merged[j].endMs < merged[i].startMs
    BY <1>2 DEF Normal
  <2>1. i < j \/ j < i
    BY <1>1 DEF Merged
  <2> QED BY <1>1, <2>1 DEF Merged
<1> QED BY <1>2, <1>3, <1>4 DEF MergeRanges, merged

-----------------------------------------------------------------------------
(* The length of what is covered.                                          *)

LEMMA LengthFold ==
  ASSUME NEW d \in Nat, NEW R \in SUBSET Ranges(d)
  PROVE  \E it : /\ CoveredMs(R) = it[R]
                 /\ it = [s \in SUBSET R |-> IF s = {} THEN 0
                          ELSE LengthOf(CHOOSE x \in s : TRUE)
                               + it[s \ {CHOOSE x \in s : TRUE}]]
<1> DEFINE Step(s, g) == IF s = {} THEN 0
                         ELSE LengthOf(CHOOSE x \in s : TRUE) + g[s \ {CHOOSE x \in s : TRUE}]
           pick == [s \in SUBSET R |-> CHOOSE x \in s : TRUE]
           next == [x \in R \X Int |-> LengthOf(x[1]) + x[2]]
<1>1. IsFiniteSet(R)
  BY RangesFinite, FS_Subset
<1>2. \A s \in SUBSET R : s # {} => pick[s] \in s
  OBVIOUS
<1>3. \A x \in R, v \in Int : next[<<x, v>>] = LengthOf(x) + v /\ next[<<x, v>>] \in Int
  BY RangeFields DEF LengthOf
<1> HIDE DEF pick, next
<1>5. PICK g \in [SUBSET R -> Int] : \A s \in SUBSET R :
        g[s] = IF s = {} THEN 0 ELSE next[<<pick[s], g[s \ {pick[s]}]>>]
  <2>1. CanFold(R, Int, 0, pick, next)
    BY <1>2, <1>3 DEF CanFold
  <2>2. \E g \in [SUBSET R -> Int] : IsFold(g, R, 0, pick, next)
    BY <1>1, <2>1, FoldOverSet
  <2> QED BY <2>2 DEF IsFold
<1>6. ASSUME NEW s \in SUBSET R PROVE g[s] = Step(s, g)
  <2>1. CASE s = {}
    BY <1>5, <2>1
  <2>2. CASE s # {}
    <3>1. pick[s] = (CHOOSE x \in s : TRUE) /\ pick[s] \in R /\ g[s \ {pick[s]}] \in Int
      BY <1>2, <1>5, <2>2 DEF pick
    <3> QED BY <1>3, <1>5, <2>2, <3>1
  <2> QED BY <2>1, <2>2
<1>7. g = [s \in SUBSET R |-> Step(s, g)]
  BY <1>5, <1>6
<1> DEFINE it == CHOOSE it : it = [s \in SUBSET R |-> Step(s, it)]
<1>8. it = [s \in SUBSET R |-> Step(s, it)]
  BY <1>7
<1>9. CoveredMs(R) = it[R]
  BY DEF CoveredMs, MapThenSumSet, MapThenFoldSet
<1> QED BY <1>8, <1>9

\* The ranges of a normal set are disjoint, so that their lengths add up.
LEMMA OneMoreRange ==
  ASSUME NEW d \in Nat, NEW R \in SUBSET Ranges(d), Normal(R), NEW r \in R,
         IsFiniteSet(Positions(R \ {r}))
  PROVE  /\ IsFiniteSet(Positions(R))
         /\ Cardinality(Positions(R)) = LengthOf(r) + Cardinality(Positions(R \ {r}))
<1> DEFINE A == r.startMs .. (r.endMs - 1)
           B == Positions(R \ {r})
<1>1. /\ r.startMs \in Nat /\ r.endMs \in Nat /\ r.startMs < r.endMs
  BY RangeFields
<1>2. IsFiniteSet(A) /\ Cardinality(A) = LengthOf(r)
  <2> DEFINE a == r.startMs
             b == r.endMs - 1
  <2>1. a \in Int /\ b \in Int /\ a <= b
    BY <1>1
  <2>2. IsFiniteSet(a..b) /\ Cardinality(a..b) = IF a > b THEN 0 ELSE b - a + 1
    BY <2>1, FS_Interval
  <2> QED BY <1>1, <2>1, <2>2 DEF LengthOf
<1>3. Positions(R) = A \union B
  BY DEF Positions
<1>4. A \intersect B = {}
  <2> SUFFICES ASSUME NEW p \in A, p \in B PROVE FALSE
    OBVIOUS
  <2>1. PICK q \in R \ {r} : p \in Int /\ q.startMs <= p /\ p < q.endMs
    BY PositionsMean DEF PositionsIn
  <2>2. q.startMs \in Nat /\ q.endMs \in Nat
    BY RangeFields
  <2>3. r.endMs < q.startMs \/ q.endMs < r.startMs
    BY DEF Normal
  <2> QED BY <1>1, <2>1, <2>2, <2>3
<1> HIDE DEF A, B
<1>5. /\ IsFiniteSet(A \union B)
      /\ Cardinality(A \union B) = Cardinality(A) + Cardinality(B) - Cardinality(A \intersect B)
  BY <1>2, FS_Union DEF B
<1>6. Cardinality(A \intersect B) = 0 /\ Cardinality(A) \in Nat /\ Cardinality(B) \in Nat
  BY <1>2, <1>4, FS_EmptySet, FS_CardinalityType DEF B
<1> QED BY <1>2, <1>3, <1>5, <1>6 DEF B

\* coveredMs of ranges that neither overlap nor touch is the number of
\* positions they contain.
THEOREM CoveredCountsPositions ==
  ASSUME NEW d \in Nat, NEW R \in SUBSET Ranges(d), Normal(R)
  PROVE  /\ IsFiniteSet(Positions(R))
         /\ CoveredMs(R) = Cardinality(Positions(R))
<1>1. PICK it : /\ CoveredMs(R) = it[R]
                /\ it = [s \in SUBSET R |-> IF s = {} THEN 0
                         ELSE LengthOf(CHOOSE x \in s : TRUE)
                              + it[s \ {CHOOSE x \in s : TRUE}]]
  BY LengthFold
<1>2. \A s \in SUBSET R :
        it[s] = IF s = {} THEN 0
                ELSE LengthOf(CHOOSE x \in s : TRUE) + it[s \ {CHOOSE x \in s : TRUE}]
  BY <1>1
<1> DEFINE F == {s \in SUBSET R : /\ IsFiniteSet(Positions(s))
                                  /\ it[s] = Cardinality(Positions(s))}
<1>3. {} \in F
  <2>1. Positions({}) = {}
    BY DEF Positions
  <2> QED BY <1>2, <2>1, FS_EmptySet
<1>4. ASSUME NEW s \in SUBSET R, s # {}
      PROVE  \E x \in s : (s \ {x} \in F => s \in F)
  <2> DEFINE x == CHOOSE x \in s : TRUE
  <2>1. x \in s /\ it[s] = LengthOf(x) + it[s \ {x}]
    BY <1>2, <1>4
  <2> HIDE DEF x
  <2>2. s \in SUBSET Ranges(d) /\ Normal(s)
    BY DEF Normal
  <2>3. s \ {x} \in F => s \in F
    BY <2>1, <2>2, OneMoreRange
  <2> QED BY <2>1, <2>3
<1> HIDE DEF F
<1>5. R \in F
  BY <1>3, <1>4, RangesFinite, FS_Subset, SetInduction
<1> QED BY <1>1, <1>5 DEF F

\* The positions determine a normal set of ranges.
LEMMA NormalWithin ==
  ASSUME NEW d \in Nat, NEW A \in SUBSET Ranges(d), NEW B \in SUBSET Ranges(d),
         Normal(A), Normal(B), Positions(A) = Positions(B)
  PROVE  A \subseteq B
<1> SUFFICES ASSUME NEW a \in A PROVE a \in B
  OBVIOUS
<1>1. \A p \in Int : PositionsIn(A, p) <=> PositionsIn(B, p)
  BY PositionsMean
<1>2. \A r \in A \union B : r.startMs \in Nat /\ r.endMs \in Nat /\ r.startMs < r.endMs
                            /\ r = [startMs |-> r.startMs, endMs |-> r.endMs]
  BY RangeFields
<1>3. PICK b \in B : b.startMs <= a.startMs /\ a.startMs < b.endMs
  <2>1. PositionsIn(A, a.startMs)
    BY <1>2 DEF PositionsIn
  <2> QED BY <1>1, <1>2, <2>1 DEF PositionsIn
<1>4. b.startMs = a.startMs
  <2> SUFFICES ASSUME b.startMs < a.startMs PROVE FALSE
    BY <1>2, <1>3
  <2>1. PositionsIn(B, a.startMs - 1)
    BY <1>2, <1>3 DEF PositionsIn
  <2>2. PICK q \in A : q.startMs <= a.startMs - 1 /\ a.startMs - 1 < q.endMs
    BY <1>1, <1>2, <2>1 DEF PositionsIn
  <2>3. q # a
    BY <1>2, <2>2
  <2>4. q.endMs < a.startMs \/ a.endMs < q.startMs
    BY <2>3 DEF Normal
  <2> QED BY <1>2, <2>2, <2>4
<1>5. b.endMs <= a.endMs
  <2> SUFFICES ASSUME b.endMs > a.endMs PROVE FALSE
    BY <1>2
  <2>1. PositionsIn(B, a.endMs)
    BY <1>2, <1>4 DEF PositionsIn
  <2>2. PICK q \in A : q.startMs <= a.endMs /\ a.endMs < q.endMs
    BY <1>1, <1>2, <2>1 DEF PositionsIn
  <2>3. q # a
    BY <1>2, <2>2
  <2>4. q.endMs < a.startMs \/ a.endMs < q.startMs
    BY <2>3 DEF Normal
  <2> QED BY <1>2, <2>2, <2>4
<1>6. a.endMs <= b.endMs
  <2> SUFFICES ASSUME a.endMs > b.endMs PROVE FALSE
    BY <1>2
  <2>1. PositionsIn(A, b.endMs)
    BY <1>2, <1>4 DEF PositionsIn
  <2>2. PICK q \in B : q.startMs <= b.endMs /\ b.endMs < q.endMs
    BY <1>1, <1>2, <2>1 DEF PositionsIn
  <2>3. q # b
    BY <1>2, <2>2
  <2>4. q.endMs < b.startMs \/ b.endMs < q.startMs
    BY <2>3 DEF Normal
  <2> QED BY <1>2, <2>2, <2>4
<1> QED BY <1>2, <1>4, <1>5, <1>6

LEMMA PositionsDetermine ==
  ASSUME NEW d \in Nat, NEW A \in SUBSET Ranges(d), NEW B \in SUBSET Ranges(d),
         Normal(A), Normal(B), Positions(A) = Positions(B)
  PROVE  A = B
<1>1. A \subseteq B /\ B \subseteq A
  BY NormalWithin
<1> QED BY <1>1

\* Merging what is stored with one range more gives what merging everything
\* at once would: nothing is lost by storing merged ranges only.
THEOREM MergingIsIncremental ==
  ASSUME NEW d \in Nat, NEW R \in SUBSET Ranges(d), NEW r \in Ranges(d)
  PROVE  MergeRanges(MergeRanges(R) \union {r}) = MergeRanges(R \union {r})
<1> DEFINE A == MergeRanges(R) \union {r}
           B == R \union {r}
<1>1. MergeRanges(R) \in SUBSET Ranges(d) /\ Positions(MergeRanges(R)) = Positions(R)
  BY MergeKeepsPositions
<1>2. A \in SUBSET Ranges(d) /\ B \in SUBSET Ranges(d)
  BY <1>1
<1>3. Positions(A) = Positions(B)
  BY <1>1 DEF Positions
<1> HIDE DEF A, B
<1>4. /\ MergeRanges(A) \in SUBSET Ranges(d) /\ MergeRanges(B) \in SUBSET Ranges(d)
      /\ Normal(MergeRanges(A)) /\ Normal(MergeRanges(B))
      /\ Positions(MergeRanges(A)) = Positions(MergeRanges(B))
  BY <1>2, <1>3, MergeKeepsPositions
<1>5. MergeRanges(A) = MergeRanges(B)
  BY <1>4, PositionsDetermine
<1> QED BY <1>5 DEF A, B

\* isLessonComplete is true exactly when 95% of the positions of a video
\* that has a duration are covered, whatever ranges are stored.
THEOREM CompleteMeansCovered ==
  ASSUME NEW d \in Nat, NEW R \in SUBSET Ranges(d)
  PROVE  /\ IsFiniteSet(Positions(R))
         /\ LessonIsComplete(R, d) <=> d > 0 /\ 100 * Cardinality(Positions(R)) >= 95 * d
<1>1. /\ MergeRanges(R) \in SUBSET Ranges(d) /\ Normal(MergeRanges(R))
      /\ Positions(MergeRanges(R)) = Positions(R)
  BY MergeKeepsPositions
<1>2. /\ IsFiniteSet(Positions(R))
      /\ CoveredMs(MergeRanges(R)) = Cardinality(Positions(R))
  BY <1>1, CoveredCountsPositions
<1> QED BY <1>2 DEF LessonIsComplete
=============================================================================
