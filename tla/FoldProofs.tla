----------------------------- MODULE FoldProofs -----------------------------
(***************************************************************************)
(* What FoldLeft computes, for any operator Op: the last of a sequence of  *)
(* results, each made by Op of the one before and the next element.  Op    *)
(* has a first argument for what stays the same from turn to turn.         *)
(*                                                                         *)
(* A fact with an operator as a parameter cannot be cited by the provers;  *)
(* here the operator is a constant, and each fold has an instance of this  *)
(* module.  FoldLeft is defined by recursion on functions: first it is     *)
(* shown that the definition has a solution, by induction on the length in *)
(* the form of a least counterexample, then what the solution is.          *)
(***************************************************************************)
EXTENDS Integers, Sequences, SequencesExt, SequenceTheorems, WellFoundedInduction, TLAPS

CONSTANT Op(_, _, _)

(* A set of naturals has a least element. *)
LEMMA Minimum ==
    ASSUME NEW T \in SUBSET Nat, T # {}
    PROVE  \E n \in T : \A m \in T : n <= m
PROOF
  <1> DEFINE Less == {ss \in Nat \X Nat : ss[1] < ss[2]}
  <1>1. IsWellFoundedOn(Less, Nat)
    BY NatLessThanWellFounded DEF OpToRel
  <1>2. PICK n \in T : \A m \in T : ~ (<<m, n>> \in Less)
    BY <1>1, WFMin, Zenon
  <1>3. ASSUME NEW m \in T, m < n PROVE <<m, n>> \in Less
    BY <1>3
  <1>4. \A m \in T : n <= m
    <2> HIDE DEF Less
    <2>1. \A m \in T : ~ (m < n)
      BY <1>2, <1>3
    <2>2. QED
      BY <2>1
  <1>5. QED
    BY <1>4

(* Induction over the naturals, for a set in place of a predicate. *)
LEMMA Induction ==
    ASSUME NEW S, 0 \in S, \A n \in Nat : n \in S => n + 1 \in S
    PROVE  Nat \subseteq S
PROOF
  <1>1. SUFFICES ASSUME Nat \ S # {} PROVE FALSE
    OBVIOUS
  <1>2. PICK n \in Nat \ S : \A m \in Nat \ S : n <= m
    BY <1>1, Minimum
  <1>3. n - 1 \in Nat /\ n - 1 \in S
    BY <1>2
  <1>4. QED
    BY <1>2, <1>3

(* Max of a finite set of positions is its largest element. *)
LEMMA MaxIsLargest ==
    ASSUME NEW k \in Nat, NEW s \in SUBSET (1..k), s # {}
    PROVE  Max(s) \in s /\ \A x \in s : x <= Max(s)
PROOF
  <1> DEFINE T == {k - x : x \in s}
  <1>1. T \in SUBSET Nat /\ T # {}
    <2>1. \A x \in s : x \in Nat /\ x <= k
      OBVIOUS
    <2>2. \A x \in s : k - x \in Nat
      BY <2>1
    <2>3. QED
      BY <2>2
  <1>2. PICK m \in T : \A y \in T : m <= y
    BY <1>1, Minimum
  <1>3. PICK x \in s : m = k - x
    BY <1>2
  <1>4. \A y \in s : x >= y
    <2>1. ASSUME NEW y \in s PROVE x >= y
      <3>1. k - y \in T
        OBVIOUS
      <3>2. k - x <= k - y
        BY <1>2, <1>3, <3>1
      <3>3. x \in Nat /\ y \in Nat
        OBVIOUS
      <3>4. QED
        BY <3>2, <3>3
    <2>2. QED
      BY <2>1
  <1>5. Max(s) \in s /\ \A y \in s : Max(s) >= y
    <2>1. \E z \in s : \A y \in s : z >= y
      BY <1>4
    <2>2. QED
      BY <2>1, Zenon DEF Max
  <1>6. QED
    BY <1>5

(* Max of a set of positions up to k that has k. *)
LEMMA MaxIs ==
    ASSUME NEW k \in Nat, NEW s \in SUBSET (1..k), k \in s
    PROVE  Max(s) = k
PROOF
  <1>1. Max(s) \in s /\ k <= Max(s)
    BY MaxIsLargest
  <1>2. Max(s) \in 1..k
    BY <1>1
  <1>3. QED
    BY <1>1, <1>2

-----------------------------------------------------------------------------
(* The fold *)

Turn(x, base, seq, g, s) ==
    IF s = {} THEN base ELSE Op(x, g[s \ {Max(s)}], seq[Max(s)])
IsFold(x, base, seq, g, D) == g = [s \in SUBSET D |-> Turn(x, base, seq, g, s)]
Fold(x, base, seq) == CHOOSE g : IsFold(x, base, seq, g, DOMAIN seq)

(* FoldLeft, with its definition and that of MapThenFoldSet expanded. *)
Folded(x, base, seq) == Fold(x, base, seq)[DOMAIN seq]

(* The results turn by turn. *)
IsRun(x, base, seq, acc) ==
    /\ acc[0] = base
    /\ \A i \in 0..(Len(seq) - 1) : acc[i + 1] = Op(x, acc[i], seq[i + 1])

(* The recursive definition inside FoldLeft has a solution. *)
LEMMA FoldExists ==
    ASSUME NEW x, NEW base, NEW seq, NEW n \in Nat
    PROVE  \E g : IsFold(x, base, seq, g, 1..n)
PROOF
  <1> DEFINE N == {k \in Nat : \E g : IsFold(x, base, seq, g, 1..k)}
  <1>1. 0 \in N
    <2> DEFINE g == [s \in SUBSET (1..0) |-> base]
    <2>1. ASSUME NEW s \in SUBSET (1..0) PROVE g[s] = Turn(x, base, seq, g, s)
      BY DEF Turn
    <2>2. IsFold(x, base, seq, g, 1..0)
      BY <2>1, Zenon DEF IsFold
    <2>3. QED
      BY <2>2
  <1>2. ASSUME NEW k \in Nat, k \in N PROVE k + 1 \in N
    <2>1. PICK f : IsFold(x, base, seq, f, 1..k)
      BY <1>2
    <2>2. \A s \in SUBSET (1..k) : f[s] = Turn(x, base, seq, f, s)
      BY <2>1 DEF IsFold
    <2> DEFINE last(s) == Op(x, f[s \ {k + 1}], seq[k + 1])
               g == [s \in SUBSET (1..(k + 1)) |-> IF k + 1 \in s THEN last(s) ELSE f[s]]
    <2>3. ASSUME NEW s \in SUBSET (1..(k + 1)) PROVE g[s] = Turn(x, base, seq, g, s)
      <3>1. CASE k + 1 \in s
        <4>1. Max(s) = k + 1
          BY <3>1, MaxIs
        <4>2. s \ {k + 1} \in SUBSET (1..(k + 1)) /\ k + 1 \notin s \ {k + 1}
          OBVIOUS
        <4>3. g[s \ {k + 1}] = f[s \ {k + 1}]
          BY <4>2
        <4>4. g[s] = last(s) /\ s # {}
          BY <3>1
        <4>5. QED
          BY <4>1, <4>3, <4>4 DEF Turn
      <3>2. CASE k + 1 \notin s
        <4>1. s \in SUBSET (1..k)
          BY <3>2
        <4>2. g[s] = f[s] /\ f[s] = Turn(x, base, seq, f, s)
          BY <2>2, <3>2, <4>1
        <4>3. s # {} => g[s \ {Max(s)}] = f[s \ {Max(s)}]
          <5>1. s \ {Max(s)} \in SUBSET (1..(k + 1)) /\ k + 1 \notin s \ {Max(s)}
            BY <3>2
          <5>2. QED
            BY <5>1
        <4>4. QED
          BY <4>2, <4>3 DEF Turn
      <3>3. QED
        BY <3>1, <3>2
    <2>4. IsFold(x, base, seq, g, 1..(k + 1))
      BY <2>3, Zenon DEF IsFold
    <2>5. QED
      BY <2>4
  <1>3. Nat \subseteq N
    <2> HIDE DEF N
    <2>1. QED
      BY <1>1, <1>2, Induction
  <1>4. QED
    BY <1>3

(* A fold over a sequence is the last of the results turn by turn. *)
THEOREM FoldTurns ==
    ASSUME NEW S, NEW x, NEW base, NEW seq \in Seq(S)
    PROVE  \E acc : IsRun(x, base, seq, acc) /\ Folded(x, base, seq) = acc[Len(seq)]
PROOF
  <1>0. PICK n \in Nat : n = Len(seq) /\ DOMAIN seq = 1..n
    BY LenProperties
  <1> DEFINE g == Fold(x, base, seq)
             acc == [i \in 0..n |-> g[1..i]]
  <1>1. IsFold(x, base, seq, g, 1..n)
    <2>1. \E h : IsFold(x, base, seq, h, 1..n)
      BY FoldExists
    <2>2. QED
      BY <1>0, <2>1, Zenon DEF Fold
  <1> HIDE DEF g
  <1>2. \A s \in SUBSET (1..n) : g[s] = Turn(x, base, seq, g, s)
    BY <1>1 DEF IsFold
  <1>3. acc[0] = base
    <2>1. 1..0 = {} /\ 0 \in 0..n /\ 1..0 \in SUBSET (1..n)
      OBVIOUS
    <2>2. QED
      BY <1>2, <2>1 DEF Turn
  <1>4. ASSUME NEW i \in 0..(n - 1) PROVE acc[i + 1] = Op(x, acc[i], seq[i + 1])
    <2>1. i \in 0..n /\ i + 1 \in 0..n /\ i + 1 \in Nat
      OBVIOUS
    <2>2. 1..(i + 1) \in SUBSET (1..n) /\ i + 1 \in 1..(i + 1)
      OBVIOUS
    <2>3. Max(1..(i + 1)) = i + 1
      BY <2>1, <2>2, MaxIs
    <2>4. (1..(i + 1)) \ {i + 1} = 1..i
      <3>1. \A j \in Int : (1 <= j /\ j <= i + 1 /\ j # i + 1) <=> (1 <= j /\ j <= i)
        BY <2>1
      <3>2. QED
        BY <2>1, <3>1
    <2>5. g[1..(i + 1)] = Op(x, g[1..i], seq[i + 1])
      BY <1>2, <2>2, <2>3, <2>4 DEF Turn
    <2>6. QED
      BY <2>1, <2>5
  <1>5. Folded(x, base, seq) = acc[n]
    <2>1. n \in 0..n
      OBVIOUS
    <2>2. QED
      BY <1>0, <2>1 DEF Folded, g
  <1>6. QED
    <2> HIDE DEF acc
    <2>1. QED
      BY <1>0, <1>3, <1>4, <1>5 DEF IsRun
=============================================================================
