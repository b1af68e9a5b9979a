---------------------------- MODULE SequenceLemmas ----------------------------
(***************************************************************************)
(* What the folds and the concatenations that the models are written with  *)
(* compute, by induction on the natural numbers.  The induction theorems   *)
(* of the library have an operator as a parameter; Induction says the same *)
(* of a set.  A module that folds its own operator takes FoldSteps from an *)
(* instance of this one, with the operator for Op.                         *)
(***************************************************************************)
EXTENDS SequencesExt, SequenceTheorems, WellFoundedInduction, TLAPS

CONSTANT Op(_, _, _)    \* what a fold does with its result so far and an element, given p

Fold(p, base, seq) == FoldLeft(LAMBDA acc, x : Op(p, acc, x), base, seq)

-----------------------------------------------------------------------------
(* Induction, and the numbers it picks. *)

\* A set of naturals with 0, and with the successor of each of its elements, has all.
LEMMA Induction ==
    ASSUME NEW N \in SUBSET Nat, 0 \in N, \A n \in N : n + 1 \in N
    PROVE  N = Nat
<1>1. SUFFICES ASSUME Nat \ N # {} PROVE FALSE
  OBVIOUS
<1>2. IsWellFoundedOn(OpToRel(<, Nat), Nat)
  BY NatLessThanWellFounded
<1>3. PICK m \in Nat \ N : \A y \in Nat \ N : <<y, m>> \notin OpToRel(<, Nat)
  <2>1. Nat \ N \subseteq Nat
    OBVIOUS
  <2> QED BY <1>1, <1>2, <2>1, WFMin
<1>4. \A y \in Nat : y < m => y \in N
  BY <1>3 DEF OpToRel
<1> QED BY <1>4

\* A set of naturals that is not empty has a least element.
LEMMA MinOfNaturals ==
    ASSUME NEW S \in SUBSET Nat, S # {}
    PROVE  Min(S) \in S /\ \A y \in S : Min(S) <= y
<1>1. IsWellFoundedOn(OpToRel(<, Nat), Nat)
  BY NatLessThanWellFounded
<1>2. PICK m \in S : \A y \in S : <<y, m>> \notin OpToRel(<, Nat)
  BY <1>1, WFMin
<1>3. ASSUME NEW y \in S PROVE m <= y
  <2>1. m \in Nat /\ y \in Nat
    OBVIOUS
  <2>2. ~(y < m)
    BY <1>2, <2>1 DEF OpToRel
  <2> QED BY <2>1, <2>2
<1>4. \E x \in S : \A y \in S : x <= y
  BY <1>3
<1> QED BY <1>4 DEF Min

\* A set of natural numbers that are not above n has a greatest one.
LEMMA MaxUpTo ==
    ASSUME NEW n \in Nat, NEW S \in SUBSET Nat, S # {}, \A y \in S : y <= n
    PROVE  Max(S) \in S /\ \A y \in S : y <= Max(S)
<1> DEFINE Above == {m \in Nat : \A y \in S : y <= m}
<1>1. Above \subseteq Nat /\ Above # {}
  OBVIOUS
<1>2. Min(Above) \in Above /\ \A m \in Above : Min(Above) <= m
  BY <1>1, MinOfNaturals
<1> DEFINE top == Min(Above)
<1>3. top \in Nat /\ (\A y \in S : y <= top) /\ \A m \in Nat : (\A y \in S : y <= m) => top <= m
  BY <1>2
<1> HIDE DEF top, Above
<1>4. top \in S
  <2>1. SUFFICES ASSUME top \notin S PROVE FALSE
    OBVIOUS
  <2>2. ASSUME NEW y \in S PROVE y < top
    <3>1. y \in Nat /\ y <= top /\ y # top
      BY <1>3, <2>1
    <3> QED BY <1>3, <3>1
  <2>3. PICK z \in S : z \in Nat /\ z < top
    BY <2>2
  <2>4. \A y \in S : y <= top - 1
    BY <1>3, <2>2
  <2> QED BY <1>3, <2>3, <2>4
<1>5. \A y \in S : top >= y
  BY <1>3
<1>6. \E x \in S : \A y \in S : x >= y
  BY <1>4, <1>5
<1>7. Max(S) \in S /\ \A y \in S : Max(S) >= y
  BY <1>6 DEF Max
<1> QED BY <1>7

-----------------------------------------------------------------------------
(* Folds. *)

\* The function a fold is defined by, on the indices up to n.
Iterates(p, base, seq, n, iter) ==
    iter = [s \in SUBSET (1..n) |->
              IF s = {} THEN base ELSE Op(p, iter[s \ {Max(s)}], seq[Max(s)])]

\* The function exists for every length, by induction.
LEMMA IterateExists ==
    ASSUME NEW p, NEW base, NEW seq
    PROVE  \A n \in Nat : \E iter : Iterates(p, base, seq, n, iter)
<1> DEFINE N == {n \in Nat : \E iter : Iterates(p, base, seq, n, iter)}
<1>1. 0 \in N
  <2> DEFINE none == [s \in SUBSET (1..0) |-> base]
  <2>1. SUBSET (1..0) = {{}}
    OBVIOUS
  <2>2. none = [s \in SUBSET (1..0) |->
                  IF s = {} THEN base ELSE Op(p, none[s \ {Max(s)}], seq[Max(s)])]
    BY <2>1
  <2> QED BY <2>2 DEF Iterates
<1>2. ASSUME NEW n \in Nat, n \in N PROVE n + 1 \in N
  <2>1. PICK f : Iterates(p, base, seq, n, f)
    BY <1>2
  <2> DEFINE g == [s \in SUBSET (1..(n + 1)) |->
                     IF n + 1 \in s THEN Op(p, f[s \ {n + 1}], seq[n + 1]) ELSE f[s]]
  <2>2. ASSUME NEW s \in SUBSET (1..(n + 1))
        PROVE  g[s] = IF s = {} THEN base ELSE Op(p, g[s \ {Max(s)}], seq[Max(s)])
    <3>1. CASE n + 1 \in s
      <4>1. Max(s) = n + 1
        <5>1. \A y \in s : n + 1 >= y
          OBVIOUS
        <5>2. Max(s) \in s /\ \A y \in s : Max(s) >= y
          BY <3>1, <5>1 DEF Max
        <5>3. n + 1 \in Nat /\ \A y \in s : y \in Nat
          OBVIOUS
        <5>4. Max(s) \in Nat /\ n + 1 >= Max(s) /\ Max(s) >= n + 1
          BY <3>1, <5>1, <5>2, <5>3
        <5> QED BY <5>3, <5>4
      <4>2. s \ {n + 1} \in SUBSET (1..(n + 1)) /\ n + 1 \notin s \ {n + 1}
        OBVIOUS
      <4>3. g[s \ {n + 1}] = f[s \ {n + 1}]
        BY <4>2
      <4>4. g[s] = Op(p, f[s \ {n + 1}], seq[n + 1])
        BY <3>1
      <4> QED BY <3>1, <4>1, <4>3, <4>4
    <3>2. CASE n + 1 \notin s
      <4>1. s \in SUBSET (1..n)
        BY <3>2
      <4>2. g[s] = f[s]
        BY <3>2
      <4>3. f[s] = IF s = {} THEN base ELSE Op(p, f[s \ {Max(s)}], seq[Max(s)])
        BY <2>1, <4>1 DEF Iterates
      <4>4. g[s \ {Max(s)}] = f[s \ {Max(s)}]
        BY <3>2
      <4> QED BY <4>2, <4>3, <4>4
    <3> QED BY <3>1, <3>2
  <2>3. Iterates(p, base, seq, n + 1, g)
    <3> HIDE DEF g
    <3>1. g = [s \in SUBSET (1..(n + 1)) |-> g[s]]
      BY DEF g
    <3> QED BY <2>2, <3>1 DEF Iterates
  <2> QED BY <2>3
<1>3. N = Nat
  <2> HIDE DEF N
  <2>1. N \in SUBSET Nat
    BY DEF N
  <2> QED BY <1>1, <1>2, <2>1, Induction
<1> QED BY <1>3

\* The results f that begin with base and come one from another by the elements of
\* the sequence in order.
Steps(p, base, seq, n, f) ==
    /\ f[0] = base
    /\ \A k \in 1..n : f[k] = Op(p, f[k - 1], seq[k])

\* A fold is the last of these.
LEMMA FoldSteps ==
    ASSUME NEW p, NEW base, NEW seq, NEW n \in Nat, DOMAIN seq = 1..n
    PROVE  \E f : Steps(p, base, seq, n, f) /\ Fold(p, base, seq) = f[n]
<1> DEFINE iter == CHOOSE iter : Iterates(p, base, seq, n, iter)
<1>1. Iterates(p, base, seq, n, iter)
  BY IterateExists
<1>2. Fold(p, base, seq) = iter[1..n]
  BY DEF Fold, FoldLeft, MapThenFoldSet, Iterates
<1> HIDE DEF iter
<1> DEFINE f == [k \in 0..n |-> iter[1..k]]
<1>3. f[0] = base
  <2>1. 1..0 = {} /\ 1..0 \in SUBSET (1..n)
    OBVIOUS
  <2> QED BY <1>1, <2>1 DEF Iterates
<1>4. ASSUME NEW k \in 1..n PROVE f[k] = Op(p, f[k - 1], seq[k])
  <2>1. 1..k \in SUBSET (1..n) /\ 1..k # {}
    <3>1. k \in 1..k /\ \A j \in 1..k : j \in 1..n
      OBVIOUS
    <3> QED BY <3>1
  <2>2. Max(1..k) = k
    <3>1. k \in 1..k /\ \A y \in 1..k : k >= y
      OBVIOUS
    <3>2. Max(1..k) \in 1..k /\ \A y \in 1..k : Max(1..k) >= y
      BY <3>1 DEF Max
    <3> QED BY <3>1, <3>2
  <2>3. (1..k) \ {k} = 1..(k - 1)
    OBVIOUS
  <2>4. iter[1..k] = Op(p, iter[1..(k - 1)], seq[k])
    BY <1>1, <2>1, <2>2, <2>3 DEF Iterates
  <2> QED BY <2>4
<1>5. f[n] = iter[1..n]
  OBVIOUS
<1> HIDE DEF f
<1>6. Steps(p, base, seq, n, f)
  BY <1>3, <1>4 DEF Steps
<1> QED BY <1>2, <1>5, <1>6

\* The rule of the loops: what J[k] says of the result after k elements.
LEMMA FoldInvariant ==
    ASSUME NEW p, NEW base, NEW seq, NEW n \in Nat, DOMAIN seq = 1..n,
           NEW J, base \in J[0],
           \A k \in 1..n : \A acc \in J[k - 1] : Op(p, acc, seq[k]) \in J[k]
    PROVE  Fold(p, base, seq) \in J[n]
<1>1. PICK f : Steps(p, base, seq, n, f) /\ Fold(p, base, seq) = f[n]
  BY FoldSteps
<1> DEFINE N == {k \in Nat : k <= n => f[k] \in J[k]}
<1>2. 0 \in N
  BY <1>1 DEF Steps
<1>3. ASSUME NEW k \in Nat, k \in N PROVE k + 1 \in N
  <2>1. SUFFICES ASSUME k + 1 <= n PROVE f[k + 1] \in J[k + 1]
    OBVIOUS
  <2>2. k + 1 \in 1..n /\ (k + 1) - 1 = k /\ k <= n
    BY <2>1
  <2>3. f[k + 1] = Op(p, f[k], seq[k + 1])
    BY <1>1, <2>2 DEF Steps
  <2>4. f[k] \in J[k]
    BY <1>3, <2>2
  <2> QED BY <2>2, <2>3, <2>4
<1>4. N = Nat
  <2> HIDE DEF N
  <2>1. N \in SUBSET Nat
    BY DEF N
  <2> QED BY <1>2, <1>3, <2>1, Induction
<1>5. f[n] \in J[n]
  BY <1>4
<1> QED BY <1>1, <1>5

-----------------------------------------------------------------------------
(* Sequences put together. *)

\* A function on 1..n is a sequence of length n.
LEMMA FunctionIsSeq ==
    ASSUME NEW S, NEW n \in Nat, NEW f \in [1..n -> S]
    PROVE  f \in Seq(S) /\ Len(f) = n /\ DOMAIN f = 1..n
<1>1. f \in Seq(S)
  BY SeqDef
<1>2. Len(f) \in Nat /\ DOMAIN f = 1..Len(f)
  BY <1>1, LenProperties
<1>3. DOMAIN f = 1..n
  OBVIOUS
<1>4. 1..Len(f) = 1..n
  BY <1>2, <1>3
<1>5. Len(f) = n
  <2>1. ASSUME Len(f) < n PROVE FALSE
    <3>1. n \in 1..n /\ n \notin 1..Len(f)
      BY <1>2, <2>1
    <3> QED BY <1>4, <3>1
  <2>2. ASSUME n < Len(f) PROVE FALSE
    <3>1. Len(f) \in 1..Len(f) /\ Len(f) \notin 1..n
      BY <1>2, <2>2
    <3> QED BY <1>4, <3>1
  <2> QED BY <1>2, <2>1, <2>2
<1> QED BY <1>1, <1>3, <1>5

\* The function FlattenSeq is defined by, up to n.
Flattens(ss, n, flat) == flat = [i \in 1..n |-> IF i = 1 THEN ss[i] ELSE flat[i - 1] \o ss[i]]

\* The function exists for every length, by induction.
LEMMA FlattenExists ==
    ASSUME NEW ss
    PROVE  \A n \in Nat : \E flat : Flattens(ss, n, flat)
<1> DEFINE N == {n \in Nat : \E flat : Flattens(ss, n, flat)}
<1>1. 0 \in N
  <2> DEFINE none == [i \in 1..0 |-> << >>]
  <2>1. 1..0 = {}
    OBVIOUS
  <2>2. none = [i \in 1..0 |-> IF i = 1 THEN ss[i] ELSE none[i - 1] \o ss[i]]
    BY <2>1
  <2> QED BY <2>2 DEF Flattens
<1>2. ASSUME NEW n \in Nat, n \in N PROVE n + 1 \in N
  <2>1. PICK f : Flattens(ss, n, f)
    BY <1>2
  <2> DEFINE g == [i \in 1..(n + 1) |->
                     IF i <= n THEN f[i] ELSE IF i = 1 THEN ss[i] ELSE f[i - 1] \o ss[i]]
  <2>2. ASSUME NEW i \in 1..(n + 1)
        PROVE  g[i] = IF i = 1 THEN ss[i] ELSE g[i - 1] \o ss[i]
    <3>1. i # 1 => i - 1 \in 1..n /\ i - 1 \in 1..(n + 1) /\ i - 1 <= n
      OBVIOUS
    <3>2. i # 1 => g[i - 1] = f[i - 1]
      BY <3>1
    <3>3. CASE i <= n
      <4>1. i \in 1..n
        BY <3>3
      <4>2. f[i] = IF i = 1 THEN ss[i] ELSE f[i - 1] \o ss[i]
        BY <2>1, <4>1 DEF Flattens
      <4> QED BY <3>2, <3>3, <4>2
    <3>4. CASE ~(i <= n)
      BY <3>2, <3>4
    <3> QED BY <3>3, <3>4
  <2>3. Flattens(ss, n + 1, g)
    <3> HIDE DEF g
    <3>1. g = [i \in 1..(n + 1) |-> g[i]]
      BY DEF g
    <3> QED BY <2>2, <3>1 DEF Flattens
  <2> QED BY <2>3
<1>3. N = Nat
  <2> HIDE DEF N
  <2>1. N \in SUBSET Nat
    BY DEF N
  <2> QED BY <1>1, <1>2, <2>1, Induction
<1> QED BY <1>3

\* A flattened sequence has the elements of all of its sequences.
LEMMA FlattenRange ==
    ASSUME NEW S, NEW n \in Nat, NEW ss \in [1..n -> Seq(S)]
    PROVE  /\ FlattenSeq(ss) \in Seq(S)
           /\ Range(FlattenSeq(ss)) = UNION {Range(ss[k]) : k \in 1..n}
<1>1. Len(ss) = n /\ ss \in Seq(Seq(S))
  BY FunctionIsSeq
<1>2. CASE n = 0
  <2>1. ss = << >>
    BY <1>1, <1>2, EmptySeq
  <2>2. FlattenSeq(ss) = << >>
    BY <1>1, <1>2, <2>1 DEF FlattenSeq
  <2>3. Range(<< >>) = {} /\ 1..n = {}
    BY <1>2 DEF Range
  <2> QED BY <2>2, <2>3, EmptySeq
<1>3. CASE n > 0
  <2> DEFINE flat == CHOOSE flat : Flattens(ss, n, flat)
  <2>1. Flattens(ss, n, flat)
    BY FlattenExists
  <2>2. FlattenSeq(ss) = flat[n]
    BY <1>1, <1>3 DEF FlattenSeq, Flattens
  <2> HIDE DEF flat
  <2>3. \A i \in 1..n : flat[i] = IF i = 1 THEN ss[i] ELSE flat[i - 1] \o ss[i]
    BY <2>1 DEF Flattens
  <2> DEFINE Done(i) == flat[i] \in Seq(S) /\ Range(flat[i]) = UNION {Range(ss[k]) : k \in 1..i}
             N == {i \in Nat : i + 1 \in 1..n => Done(i + 1)}
  <2>4. 0 \in N
    <3>1. 1 \in 1..n /\ flat[1] = ss[1] /\ ss[1] \in Seq(S)
      BY <1>3, <2>3
    <3>2. 1..1 = {1}
      OBVIOUS
    <3>3. UNION {Range(ss[k]) : k \in {1}} = Range(ss[1])
      OBVIOUS
    <3>4. Done(1)
      BY <3>1, <3>2, <3>3
    <3> QED BY <3>4
  <2>5. ASSUME NEW i \in Nat, i \in N PROVE i + 1 \in N
    <3>1. SUFFICES ASSUME i + 2 \in 1..n PROVE Done(i + 2)
      <4>1. (i + 1) + 1 = i + 2
        OBVIOUS
      <4> QED BY <4>1
    <3>2. Done(i + 1)
      BY <2>5, <3>1
    <3>3. flat[i + 2] = flat[i + 1] \o ss[i + 2] /\ ss[i + 2] \in Seq(S)
      <4>1. i + 2 # 1 /\ (i + 2) - 1 = i + 1
        OBVIOUS
      <4> QED BY <2>3, <3>1, <4>1
    <3>4. flat[i + 2] \in Seq(S)
      BY <3>2, <3>3, ConcatProperties
    <3>5. Range(flat[i + 2]) = Range(flat[i + 1]) \union Range(ss[i + 2])
      BY <3>2, <3>3, RangeConcatenation
    <3>6. 1..(i + 2) = 1..(i + 1) \union {i + 2}
      OBVIOUS
    <3>7. UNION {Range(ss[k]) : k \in 1..(i + 2)}
            = (UNION {Range(ss[k]) : k \in 1..(i + 1)}) \union Range(ss[i + 2])
      <4> DEFINE R(k) == Range(ss[k])
      <4>1. \A I, J, x : I = J \union {x} =>
              UNION {R(k) : k \in I} = (UNION {R(k) : k \in J}) \union R(x)
        <5> HIDE DEF R
        <5> QED OBVIOUS
      <4> QED BY <3>6, <4>1
    <3>8. Range(flat[i + 2]) = UNION {Range(ss[k]) : k \in 1..(i + 2)}
      BY <3>2, <3>5, <3>7
    <3> QED BY <3>4, <3>8
  <2>6. N = Nat
    <3> HIDE DEF N
    <3>1. N \in SUBSET Nat
      BY DEF N
    <3> QED BY <2>4, <2>5, <3>1, Induction
  <2>7. n - 1 \in Nat /\ (n - 1) + 1 = n /\ n \in 1..n
    BY <1>3
  <2>8. Done(n)
    BY <2>6, <2>7
  <2> QED BY <2>2, <2>8
<1> QED BY <1>2, <1>3
===============================================================================
