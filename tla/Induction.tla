------------------------------ MODULE Induction ------------------------------
(***************************************************************************)
(* What the proofs about loops rest on: induction over natural numbers in a *)
(* form the provers can apply, and a fold taken one step at a time.        *)
(***************************************************************************)
EXTENDS Integers, Sequences, SequencesExt, WellFoundedInduction, TLAPS

CONSTANT Op(_, _)

(* A left fold of Op over a sequence, as the loops of the program are      *)
(* modelled.                                                               *)
Fold(base, seq) == FoldLeft(Op, base, seq)

(* The function that FoldLeft applies, from the definition of              *)
(* MapThenFoldSet.                                                         *)
Iterates(g, base, seq, S) ==
  g = [s \in SUBSET S |-> IF s = {} THEN base ELSE Op(g[s \ {Max(s)}], seq[Max(s)])]

(* The order of the natural numbers, as a relation.                        *)
Below == {pair \in Nat \X Nat : pair[1] < pair[2]}

LEMMA BelowIsWellFounded == IsWellFoundedOn(Below, Nat)
  BY NatLessThanWellFounded DEF OpToRel, Below

(* A set of natural numbers that is not empty has a least element.  This   *)
(* stands for the induction rule: its theorem has an operator for a        *)
(* parameter, this one has a set.                                          *)
LEMMA LeastNatural ==
  ASSUME NEW S \in SUBSET Nat, S # {}
  PROVE  \E i \in S : \A j \in S : i <= j
  <1>1. PICK i \in S : \A j \in S : <<j, i>> \notin Below
    BY BelowIsWellFounded, WFMin
  <1>2. \A j \in S : ~(j < i)
    BY <1>1 DEF Below
  <1> QED BY <1>2

(* What holds at a and goes from each number to the next holds up to n.    *)
LEMMA UpTo ==
  ASSUME NEW a \in Nat, NEW n \in Nat, NEW S, a \in S,
         \A i \in a..(n - 1) : i \in S => i + 1 \in S
  PROVE  \A i \in a..n : i \in S
  <1> DEFINE bad == {i \in a..n : i \notin S}
  <1>1. bad \in SUBSET Nat
    OBVIOUS
  <1>2. SUFFICES ASSUME bad # {} PROVE FALSE
    OBVIOUS
  <1>3. PICK i \in bad : \A j \in bad : i <= j
    <2> HIDE DEF bad
    <2> QED BY <1>1, <1>2, LeastNatural
  <1>4. i \in Nat /\ i > a /\ i <= n
    BY <1>3
  <1>5. i - 1 \in a..(n - 1) /\ i - 1 \notin bad /\ i - 1 \in a..n
    BY <1>3, <1>4
  <1>6. i - 1 + 1 \in S
    BY <1>5
  <1> QED BY <1>3, <1>4, <1>6

(* The last element of a set of numbers is its maximum.                    *)
LEMMA MaxIs ==
  ASSUME NEW S \in SUBSET Nat, NEW n \in S, \A x \in S : x <= n
  PROVE  Max(S) = n
  <1>1. \A x \in S : n >= x
    OBVIOUS
  <1>2. Max(S) \in S /\ \A y \in S : Max(S) >= y
    BY <1>1 DEF Max
  <1>3. Max(S) \in Nat /\ n \in Nat /\ Max(S) <= n /\ Max(S) >= n
    BY <1>1, <1>2
  <1> QED BY <1>3

(* The function exists, one element of the sequence at a time.             *)
LEMMA IterateMore ==
  ASSUME NEW base, NEW seq, NEW n \in Nat, NEW g, Iterates(g, base, seq, 1..n)
  PROVE  \E h : Iterates(h, base, seq, 1..(n + 1))
  <1> DEFINE h == [s \in SUBSET (1..(n + 1)) |->
                     IF n + 1 \in s THEN Op(g[s \ {n + 1}], seq[n + 1]) ELSE g[s]]
  <1>1. ASSUME NEW s \in SUBSET (1..(n + 1))
        PROVE  h[s] = IF s = {} THEN base ELSE Op(h[s \ {Max(s)}], seq[Max(s)])
    <2>1. CASE n + 1 \in s
      <3>1. Max(s) = n + 1
        BY <2>1, MaxIs
      <3>2. s \ {n + 1} \in SUBSET (1..(n + 1)) /\ n + 1 \notin s \ {n + 1}
        OBVIOUS
      <3>3. h[s \ {n + 1}] = g[s \ {n + 1}]
        BY <3>2
      <3>4. h[s] = Op(g[s \ {n + 1}], seq[n + 1])
        BY <2>1
      <3> QED BY <2>1, <3>1, <3>3, <3>4
    <2>2. CASE n + 1 \notin s
      <3>1. s \in SUBSET (1..n)
        BY <2>2
      <3>2. s \ {Max(s)} \in SUBSET (1..n) /\ s \ {Max(s)} \in SUBSET (1..(n + 1))
            /\ n + 1 \notin s \ {Max(s)}
        BY <3>1, <2>2
      <3>3. h[s \ {Max(s)}] = g[s \ {Max(s)}]
        BY <3>2
      <3>4. g[s] = IF s = {} THEN base ELSE Op(g[s \ {Max(s)}], seq[Max(s)])
        BY <3>1 DEF Iterates
      <3>5. h[s] = g[s]
        BY <2>2
      <3> QED BY <3>3, <3>4, <3>5
    <2> QED BY <2>1, <2>2
  <1>2. h = [s \in SUBSET (1..(n + 1)) |->
               IF s = {} THEN base ELSE Op(h[s \ {Max(s)}], seq[Max(s)])]
    <2> HIDE DEF h
    <2>1. h = [s \in SUBSET (1..(n + 1)) |-> h[s]]
      BY DEF h
    <2> QED BY <1>1, <2>1
  <1> QED BY <1>2 DEF Iterates

LEMMA IterateSome ==
  ASSUME NEW base, NEW seq, NEW n \in Nat
  PROVE  \E g : Iterates(g, base, seq, 1..n)
  <1> DEFINE Good(k) == \E g : Iterates(g, base, seq, 1..k)
             bad == {k \in Nat : ~Good(k)}
  <1>1. Good(0)
    <2>1. Iterates([s \in SUBSET {} |-> base], base, seq, {})
      BY DEF Iterates
    <2>2. 1..0 = {}
      OBVIOUS
    <2> QED BY <2>1, <2>2
  <1>2. \A k \in Nat : Good(k) => Good(k + 1)
    BY IterateMore
  <1>3. SUFFICES ASSUME bad # {} PROVE FALSE
    OBVIOUS
  <1> HIDE DEF Good
  <1>4. PICK k \in bad : \A j \in bad : k <= j
    BY <1>3, LeastNatural
  <1>5. k \in Nat \ {0}
    BY <1>1, <1>4
  <1>6. k - 1 \in Nat /\ Good(k - 1)
    BY <1>4, <1>5
  <1>7. Good(k - 1 + 1)
    BY <1>6, <1>2
  <1> QED BY <1>4, <1>5, <1>7

(* A fold is the last of the steps f[0], f[1], ..., each Op of the one     *)
(* before and the next element: the loop, one turn at a time.              *)
THEOREM FoldSteps ==
  ASSUME NEW base, NEW S, NEW seq \in Seq(S)
  PROVE  \E f : /\ f[0] = base
                /\ \A i \in 1..Len(seq) : f[i] = Op(f[i - 1], seq[i])
                /\ Fold(base, seq) = f[Len(seq)]
  <1> DEFINE n == Len(seq)
             iter == CHOOSE g : Iterates(g, base, seq, 1..n)
             f == [i \in 0..n |-> iter[1..i]]
  <1>1. n \in Nat /\ DOMAIN seq = 1..n
    OBVIOUS
  <1>2. Iterates(iter, base, seq, 1..n)
    BY <1>1, IterateSome
  <1>3. Fold(base, seq) = iter[1..n]
    BY <1>1 DEF Fold, FoldLeft, MapThenFoldSet, Iterates
  <1> HIDE DEF iter, n
  <1>4. f[0] = base
    BY <1>1, <1>2 DEF Iterates
  <1>5. ASSUME NEW i \in 1..n
        PROVE  f[i] = Op(f[i - 1], seq[i])
    <2>0. i \in Nat /\ i >= 1 /\ i <= n
      BY <1>1
    <2>1. 1..i \in SUBSET (1..n) /\ 1..i # {} /\ (1..i) \ {i} = 1..(i - 1)
      <3>1. 1..i \in SUBSET (1..n)
        BY <2>0, <1>1
      <3>2. i \in 1..i
        BY <2>0
      <3>3. (1..i) \ {i} = 1..(i - 1)
        BY <2>0
      <3> QED BY <3>1, <3>2, <3>3
    <2>2. Max(1..i) = i
      BY MaxIs
    <2>3. iter[1..i] = Op(iter[1..(i - 1)], seq[i])
      BY <1>2, <2>1, <2>2 DEF Iterates
    <2> QED BY <1>1, <2>3
  <1>6. f[n] = iter[1..n]
    BY <1>1
  <1> HIDE DEF f
  <1> QED BY <1>3, <1>4, <1>5, <1>6 DEF n

(* The loop over one sequence and then another.                            *)
THEOREM FoldConcat ==
  ASSUME NEW base, NEW S, NEW a \in Seq(S), NEW b \in Seq(S)
  PROVE  Fold(base, a \o b) = Fold(Fold(base, a), b)
  <1> DEFINE n == Len(a)
             m == Len(b)
             seq == a \o b
  <1>0. seq \in Seq(S)
    OBVIOUS
  <1>1. /\ n \in Nat /\ m \in Nat /\ Len(seq) = n + m
        /\ \A i \in 1..n : seq[i] = a[i]
        /\ \A i \in 1..m : seq[n + i] = b[i]
    OBVIOUS
  <1> HIDE DEF seq
  <1>2. PICK f : /\ f[0] = base
                 /\ \A i \in 1..Len(seq) : f[i] = Op(f[i - 1], seq[i])
                 /\ Fold(base, seq) = f[Len(seq)]
    BY <1>0, FoldSteps
  <1>3. PICK g : /\ g[0] = base
                 /\ \A i \in 1..Len(a) : g[i] = Op(g[i - 1], a[i])
                 /\ Fold(base, a) = g[Len(a)]
    BY FoldSteps
  <1>4. PICK h : /\ h[0] = Fold(base, a)
                 /\ \A i \in 1..Len(b) : h[i] = Op(h[i - 1], b[i])
                 /\ Fold(Fold(base, a), b) = h[Len(b)]
    BY FoldSteps
  <1> HIDE DEF n, m
  <1>5. f[n] = g[n]
    <2> DEFINE same == {i \in Nat : f[i] = g[i]}
    <2>1. 0 \in same
      BY <1>2, <1>3
    <2>2. ASSUME NEW i \in 0..(n - 1), i \in same PROVE i + 1 \in same
      <3>1. i + 1 \in 1..n /\ i + 1 \in 1..(n + m) /\ i + 1 - 1 = i
        BY <1>1
      <3>2. f[i + 1] = Op(f[i], seq[i + 1]) /\ g[i + 1] = Op(g[i], a[i + 1])
        BY <1>1, <1>2, <1>3, <3>1 DEF n
      <3> QED BY <1>1, <2>2, <3>1, <3>2
    <2> HIDE DEF same
    <2>3. \A i \in 0..n : i \in same
      BY <1>1, <2>1, <2>2, UpTo
    <2> QED BY <1>1, <2>3 DEF same
  <1>6. f[n + m] = h[m]
    <2> DEFINE same == {i \in Nat : f[n + i] = h[i]}
    <2>1. 0 \in same
      BY <1>1, <1>3, <1>4, <1>5 DEF n
    <2>2. ASSUME NEW i \in 0..(m - 1), i \in same PROVE i + 1 \in same
      <3>1. i \in Nat /\ i + 1 \in 1..m /\ n + (i + 1) \in 1..(n + m)
            /\ i + 1 - 1 = i /\ n + (i + 1) - 1 = n + i
        BY <1>1
      <3>2. f[n + (i + 1)] = Op(f[n + i], seq[n + (i + 1)])
        BY <1>1, <1>2, <3>1
      <3>3. h[i + 1] = Op(h[i], b[i + 1])
        BY <1>4, <3>1 DEF m
      <3> QED BY <1>1, <2>2, <3>1, <3>2, <3>3
    <2> HIDE DEF same
    <2>3. \A i \in 0..m : i \in same
      BY <1>1, <2>1, <2>2, UpTo
    <2> QED BY <1>1, <2>3 DEF same
  <1> QED BY <1>1, <1>2, <1>4, <1>6 DEF seq, m
=============================================================================
