------------------------ MODULE PolicyTemplateProofs ------------------------
(***************************************************************************)
(* Proofs about PolicyTemplate for any policy of the schema, any request:  *)
(* the loop over the field mappings, which replaces one placeholder after  *)
(* the other in the text it has so far, against the reference definition,  *)
(* which replaces them all at once.                                        *)
(*                                                                         *)
(* A text whose brackets come in pairs is a sequence of items, plain texts *)
(* and placeholders.  Replacing a placeholder in such a text replaces it   *)
(* among the items, and leaves items if the value is plain.                *)
(*                                                                         *)
(* FoldLeft and FlattenSeq are defined by recursion on functions: that     *)
(* their definitions have solutions, and what these compute, is shown by   *)
(* induction on the length, for FoldLeft in FoldProofs.                    *)
(***************************************************************************)
EXTENDS PolicyTemplate, SequenceTheorems, TLAPS

(* The loop over the field mappings *)
Loop == INSTANCE FoldProofs WITH Op <- applyMapping

(* A set of naturals has a least element. *)
LEMMA Minimum ==
    ASSUME NEW T \in SUBSET Nat, T # {}
    PROVE  \E n \in T : \A m \in T : n <= m
PROOF
  BY Loop!Minimum

(* Induction over the naturals, for a set in place of a predicate. *)
LEMMA Induction ==
    ASSUME NEW S, 0 \in S, \A n \in Nat : n \in S => n + 1 \in S
    PROVE  Nat \subseteq S
PROOF
  BY Loop!Induction

(* Induction over finite sequences, built by appending one element. *)
LEMMA InductionOnSeq ==
    ASSUME NEW S, NEW T, <<>> \in T,
           \A s \in Seq(S) : \A x \in S : s \in T => Append(s, x) \in T
    PROVE  Seq(S) \subseteq T
PROOF
  <1> DEFINE N == {n \in Nat : \A s \in Seq(S) : Len(s) = n => s \in T}
  <1>1. 0 \in N
    BY EmptySeq
  <1>2. ASSUME NEW n \in Nat, n \in N PROVE n + 1 \in N
    <2>1. SUFFICES ASSUME NEW s \in Seq(S), Len(s) = n + 1 PROVE s \in T
      OBVIOUS
    <2>2. s # <<>>
      BY <2>1
    <2>3. PICK t \in Seq(S), x \in S : s = Append(t, x)
      BY <2>2, SequenceEmptyOrAppend
    <2>4. Len(t) = n
      BY <2>1, <2>3, AppendProperties
    <2>5. QED
      BY <1>2, <2>3, <2>4
  <1>3. Nat \subseteq N
    <2> HIDE DEF N
    <2>1. QED
      BY <1>1, <1>2, Induction
  <1>4. QED
    BY <1>3, LenProperties

-----------------------------------------------------------------------------
(* FlattenSeq *)

Joins(f, ss, n) == f = [i \in 1..n |-> IF i = 1 THEN ss[i] ELSE f[i-1] \o ss[i]]
Joined(ss) == CHOOSE f : Joins(f, ss, Len(ss))

(* FlattenSeq is the last of the joined beginnings of ss. *)
LEMMA FlattenIsJoined ==
    ASSUME NEW ss
    PROVE  FlattenSeq(ss) = IF Len(ss) = 0 THEN ss ELSE Joined(ss)[Len(ss)]
PROOF
  BY DEF FlattenSeq, Joined, Joins

(* The recursive definition inside FlattenSeq has a solution. *)
LEMMA JoinsExists ==
    ASSUME NEW S, NEW ss \in Seq(Seq(S))
    PROVE  \E f \in [1..Len(ss) -> Seq(S)] : Joins(f, ss, Len(ss))
PROOF
  <1> DEFINE N == {n \in Nat : n <= Len(ss) => \E f \in [1..n -> Seq(S)] : Joins(f, ss, n)}
  <1>1. 0 \in N
    <2>1. Joins([i \in 1..0 |-> <<>>], ss, 0)
      BY DEF Joins
    <2>2. [i \in 1..0 |-> <<>>] \in [1..0 -> Seq(S)]
      OBVIOUS
    <2>3. QED
      BY <2>1, <2>2
  <1>2. ASSUME NEW n \in Nat, n \in N PROVE n + 1 \in N
    <2>1. SUFFICES ASSUME n + 1 <= Len(ss)
                   PROVE  \E f \in [1..(n + 1) -> Seq(S)] : Joins(f, ss, n + 1)
      OBVIOUS
    <2>2. PICK f \in [1..n -> Seq(S)] : Joins(f, ss, n)
      BY <1>2, <2>1
    <2> DEFINE last == IF n = 0 THEN ss[1] ELSE f[n] \o ss[n + 1]
               g == [i \in 1..(n + 1) |-> IF i = n + 1 THEN last ELSE f[i]]
    <2>3. \A i \in 1..n : f[i] = IF i = 1 THEN ss[i] ELSE f[i-1] \o ss[i]
      BY <2>2 DEF Joins
    <2>4. last \in Seq(S)
      <3>1. CASE n = 0
        BY <3>1, <2>1
      <3>2. CASE n # 0
        <4>1. f[n] \in Seq(S) /\ ss[n + 1] \in Seq(S)
          BY <3>2, <2>1
        <4>2. QED
          BY <4>1, <3>2
      <3>3. QED
        BY <3>1, <3>2
    <2>5. g \in [1..(n + 1) -> Seq(S)]
      <3> HIDE DEF last
      <3>1. QED
        BY <2>4
    <2>6. ASSUME NEW i \in 1..(n + 1)
          PROVE  g[i] = IF i = 1 THEN ss[i] ELSE g[i-1] \o ss[i]
      <3>1. CASE i = n + 1
        <4>1. n # 0 => n \in 1..n /\ g[n] = f[n]
          OBVIOUS
        <4>2. g[i] = last /\ i - 1 = n
          BY <3>1
        <4>3. QED
          BY <3>1, <4>1, <4>2
      <3>2. CASE i # n + 1
        <4>1. i \in 1..n /\ g[i] = f[i] /\ (i # 1 => g[i - 1] = f[i - 1])
          BY <3>2
        <4>2. QED
          BY <2>3, <4>1
      <3>3. QED
        BY <3>1, <3>2
    <2>7. Joins(g, ss, n + 1)
      <3> HIDE DEF g
      <3>1. QED
        BY <2>5, <2>6 DEF Joins
    <2>8. QED
      BY <2>5, <2>7
  <1>3. Nat \subseteq N
    <2> HIDE DEF N
    <2>1. QED
      BY <1>1, <1>2, Induction
  <1>4. QED
    BY <1>3

(* What FlattenSeq computes is the last of the partial results.            *)
LEMMA FlattenParts ==
    ASSUME NEW S, NEW ss \in Seq(Seq(S))
    PROVE  \E f \in [0..Len(ss) -> Seq(S)] :
               /\ f[0] = <<>>
               /\ \A i \in 0..(Len(ss) - 1) : f[i + 1] = f[i] \o ss[i + 1]
               /\ f[Len(ss)] = FlattenSeq(ss)
PROOF
  <1> DEFINE j == Joined(ss)
             f == [i \in 0..Len(ss) |-> IF i = 0 THEN <<>> ELSE j[i]]
  <1>1. Joins(j, ss, Len(ss))
    <2>1. \E g : Joins(g, ss, Len(ss))
      BY JoinsExists
    <2>2. QED
      BY <2>1 DEF Joined
  <1>2. \A i \in 1..Len(ss) : j[i] = IF i = 1 THEN ss[i] ELSE j[i-1] \o ss[i]
    BY <1>1 DEF Joins
  <1> HIDE DEF j
  <1> DEFINE N == {n \in Nat : n \in 1..Len(ss) => j[n] \in Seq(S)}
  <1>3. 0 \in N
    OBVIOUS
  <1>4. ASSUME NEW n \in Nat, n \in N PROVE n + 1 \in N
    <2>1. SUFFICES ASSUME n + 1 \in 1..Len(ss) PROVE j[n + 1] \in Seq(S)
      OBVIOUS
    <2>2. ss[n + 1] \in Seq(S) /\ (n + 1) - 1 = n
      BY <2>1
    <2>3. CASE n = 0
      BY <1>2, <2>1, <2>2, <2>3
    <2>4. CASE n # 0
      <3>1. j[n] \in Seq(S)
        BY <1>4, <2>1, <2>4
      <3>2. j[n + 1] = j[n] \o ss[n + 1]
        <4>1. n + 1 # 1
          BY <2>4
        <4>2. QED
          BY <1>2, <2>1, <2>2, <4>1, Zenon
      <3>3. QED
        BY <2>2, <3>1, <3>2
    <2>5. QED
      BY <2>3, <2>4
  <1>5. Nat \subseteq N
    <2> HIDE DEF N
    <2>1. QED
      BY <1>3, <1>4, Induction
  <1>6. \A i \in 1..Len(ss) : j[i] \in Seq(S)
    BY <1>5
  <1>7. f \in [0..Len(ss) -> Seq(S)]
    BY <1>6
  <1>8. f[0] = <<>>
    OBVIOUS
  <1>9. ASSUME NEW i \in 0..(Len(ss) - 1) PROVE f[i + 1] = f[i] \o ss[i + 1]
    <2>1. i + 1 \in 1..Len(ss) /\ (i + 1) - 1 = i /\ f[i + 1] = j[i + 1] /\ ss[i + 1] \in Seq(S)
      OBVIOUS
    <2>2. CASE i = 0
      <3>1. f[i] = <<>> /\ j[i + 1] = ss[i + 1]
        BY <1>2, <2>1, <2>2
      <3>2. ss[i + 1] = <<>> \o ss[i + 1]
        BY <2>1, ConcatEmptySeq
      <3>3. QED
        BY <2>1, <3>1, <3>2, Zenon
    <2>3. CASE i # 0
      <3>1. f[i] = j[i] /\ i + 1 # 1
        BY <2>3
      <3>2. QED
        BY <1>2, <2>1, <3>1, Zenon
    <2>4. QED
      BY <2>2, <2>3
  <1>10. f[Len(ss)] = FlattenSeq(ss)
    <2>1. CASE Len(ss) = 0
      <3>1. ss = <<>>
        BY <2>1
      <3>2. QED
        BY <2>1, <3>1, FlattenIsJoined
    <2>2. CASE Len(ss) # 0
      BY <2>2, FlattenIsJoined DEF j
    <2>3. QED
      BY <2>1, <2>2
  <1>11. QED
    <2> HIDE DEF f
    <2>1. QED
      BY <1>7, <1>8, <1>9, <1>10

(* A sequence of texts flattens to a text. *)
LEMMA FlattenType ==
    ASSUME NEW S, NEW ss \in Seq(Seq(S))
    PROVE  FlattenSeq(ss) \in Seq(S)
PROOF
  <1>1. PICK f \in [0..Len(ss) -> Seq(S)] : f[Len(ss)] = FlattenSeq(ss)
    BY FlattenParts
  <1>2. Len(ss) \in 0..Len(ss)
    BY LenProperties
  <1>3. QED
    BY <1>1, <1>2

(* Nothing flattens to nothing. *)
LEMMA FlattenEmpty == FlattenSeq(<<>>) = <<>>
PROOF
  BY FlattenIsJoined

(* One more text is joined at the end. *)
LEMMA FlattenAppend ==
    ASSUME NEW S, NEW ss \in Seq(Seq(S)), NEW s \in Seq(S)
    PROVE  FlattenSeq(Append(ss, s)) = FlattenSeq(ss) \o s
PROOF
  <1> DEFINE tt == Append(ss, s)
             n == Len(ss)
  <1>1. /\ tt \in Seq(Seq(S)) /\ Len(tt) = n + 1 /\ n \in Nat
        /\ \A i \in 1..n : tt[i] = ss[i]
        /\ tt[n + 1] = s
    BY AppendProperties
  <1> HIDE DEF tt
  <1>2. PICK f \in [0..n -> Seq(S)] :
            /\ f[0] = <<>>
            /\ \A i \in 0..(n - 1) : f[i + 1] = f[i] \o ss[i + 1]
            /\ f[n] = FlattenSeq(ss)
    BY FlattenParts
  <1>3. PICK g \in [0..Len(tt) -> Seq(S)] :
            /\ g[0] = <<>>
            /\ \A i \in 0..(Len(tt) - 1) : g[i + 1] = g[i] \o tt[i + 1]
            /\ g[Len(tt)] = FlattenSeq(tt)
    BY <1>1, FlattenParts
  <1> HIDE DEF n
  <1> DEFINE N == {k \in Nat : k <= n => g[k] = f[k]}
  <1>4. 0 \in N
    BY <1>2, <1>3
  <1>5. ASSUME NEW k \in Nat, k \in N PROVE k + 1 \in N
    <2>1. SUFFICES ASSUME k + 1 <= n PROVE g[k + 1] = f[k + 1]
      OBVIOUS
    <2>2. n \in Nat /\ Len(tt) = n + 1
      BY <1>1
    <2>3. k \in 0..(n - 1) /\ k \in 0..(Len(tt) - 1) /\ k + 1 \in 1..n
      BY <2>1, <2>2
    <2>4. g[k] = f[k]
      BY <1>5, <2>1, <2>2
    <2>5. QED
      BY <1>1, <1>2, <1>3, <2>3, <2>4, Zenon
  <1>6. Nat \subseteq N
    <2> HIDE DEF N
    <2>1. QED
      BY <1>4, <1>5, Induction
  <1>7. g[n] = f[n]
    BY <1>1, <1>6
  <1>8. n \in 0..(Len(tt) - 1)
    BY <1>1
  <1>9. QED
    BY <1>1, <1>2, <1>3, <1>7, <1>8, Zenon DEF tt

(* Two sequences of texts in a row. *)
LEMMA FlattenConcat ==
    ASSUME NEW S, NEW ss \in Seq(Seq(S)), NEW tt \in Seq(Seq(S))
    PROVE  FlattenSeq(ss \o tt) = FlattenSeq(ss) \o FlattenSeq(tt)
PROOF
  <1> DEFINE Flat(x) == FlattenSeq(x)
             T == {x \in Seq(Seq(S)) : Flat(ss \o x) = Flat(ss) \o Flat(x)}
  <1>1. <<>> \in T
    <2>1. ss \o <<>> = ss /\ Flat(ss) \in Seq(S) /\ <<>> \in Seq(Seq(S))
      BY ConcatEmptySeq, FlattenType, EmptySeq
    <2>2. Flat(ss) \o <<>> = Flat(ss)
      BY <2>1, ConcatEmptySeq
    <2>3. QED
      BY <2>1, <2>2, FlattenEmpty
  <1>2. ASSUME NEW x \in Seq(Seq(S)), NEW s \in Seq(S), x \in T PROVE Append(x, s) \in T
    <2>1. Append(x, s) \in Seq(Seq(S)) /\ ss \o x \in Seq(Seq(S))
      BY AppendProperties, ConcatProperties
    <2>2. ss \o Append(x, s) = Append(ss \o x, s)
      OBVIOUS
    <2>3. Flat(Append(ss \o x, s)) = Flat(ss \o x) \o s
      BY <2>1, FlattenAppend
    <2>4. Flat(Append(x, s)) = Flat(x) \o s
      BY FlattenAppend
    <2>5. Flat(ss) \in Seq(S) /\ Flat(x) \in Seq(S)
      BY FlattenType
    <2>6. (Flat(ss) \o Flat(x)) \o s = Flat(ss) \o (Flat(x) \o s)
      <3>1. \A a, b, c \in Seq(S) : (a \o b) \o c = a \o (b \o c)
        BY ConcatAssociative, SMTT(60)
      <3>2. QED
        BY <2>5, <3>1, Zenon
    <2>7. Flat(ss \o x) = Flat(ss) \o Flat(x)
      BY <1>2
    <2>8. QED
      BY <2>1, <2>2, <2>3, <2>4, <2>6, <2>7
  <1>3. Seq(Seq(S)) \subseteq T
    <2> HIDE DEF T
    <2>1. QED
      BY <1>1, <1>2, InductionOnSeq
  <1>4. QED
    BY <1>3

(* The first n texts of pp and the others. *)
Halves(pp, n, l, r) ==
    /\ Len(l) = n /\ \A i \in 1..n : l[i] = pp[i]
    /\ Len(r) = Len(pp) - n /\ \A i \in 1..(Len(pp) - n) : r[i] = pp[n + i]
    /\ FlattenSeq(pp) = FlattenSeq(l) \o FlattenSeq(r)

(* A sequence of texts may be flattened in two parts. *)
LEMMA FlattenCut ==
    ASSUME NEW S, NEW pp \in Seq(Seq(S)), NEW n \in 0..Len(pp)
    PROVE  \E l \in Seq(Seq(S)), r \in Seq(Seq(S)) : Halves(pp, n, l, r)
PROOF
  <1>1. Len(pp) \in Nat /\ \A i \in 1..Len(pp) : pp[i] \in Seq(S)
    BY LenProperties, ElementOfSeq
  <1>2. PICK l : l = SubSeq(pp, 1, n)
    OBVIOUS
  <1>3. PICK r : r = SubSeq(pp, n + 1, Len(pp))
    OBVIOUS
  <1>4. l \in Seq(Seq(S)) /\ Len(l) = n /\ \A i \in 1..n : l[i] = pp[i]
    BY <1>1, <1>2
  <1>5. /\ r \in Seq(Seq(S)) /\ Len(r) = Len(pp) - n
        /\ \A i \in 1..(Len(pp) - n) : r[i] = pp[n + i]
    BY <1>1, <1>3
  <1>6. pp = l \o r
    <2>1. SubSeq(pp, 1, n) \o SubSeq(pp, n + 1, Len(pp)) = SubSeq(pp, 1, Len(pp))
      <3>1. 1 \in 1..(Len(pp) + 1) /\ n \in (1 - 1)..Len(pp) /\ Len(pp) \in n..Len(pp)
        BY <1>1
      <3>2. QED
        BY <3>1, ConcatAdjacentSubSeq
    <2>2. QED
      BY <1>2, <1>3, <2>1, SubSeqFull
  <1>7. FlattenSeq(pp) = FlattenSeq(l) \o FlattenSeq(r)
    <2>1. FlattenSeq(l \o r) = FlattenSeq(l) \o FlattenSeq(r)
      BY <1>4, <1>5, FlattenConcat
    <2>2. QED
      BY <1>6, <2>1, Zenon
  <1>8. QED
    BY <1>4, <1>5, <1>7, Zenon DEF Halves

(* A text is what its characters flatten to. *)
LEMMA FlattenSingles ==
    ASSUME NEW S, NEW text \in Seq(S), NEW pp \in Seq(Seq(S)), Len(pp) = Len(text),
           \A i \in 1..Len(text) : pp[i] = <<text[i]>>
    PROVE  FlattenSeq(pp) = text
PROOF
  <1> DEFINE Match(t, ss) == Len(ss) = Len(t) /\ \A i \in 1..Len(t) : ss[i] = <<t[i]>>
             T == {t \in Seq(S) : \A ss \in Seq(Seq(S)) : Match(t, ss) => FlattenSeq(ss) = t}
  <1>1. <<>> \in T
    <2>1. <<>> \in Seq(S) /\ Len(<<>>) = 0
      BY EmptySeq
    <2>2. ASSUME NEW ss \in Seq(Seq(S)), Len(ss) = 0 PROVE ss = <<>>
      BY <2>2
    <2>3. QED
      BY <2>1, <2>2, FlattenEmpty
  <1>2. ASSUME NEW t \in Seq(S), NEW x \in S, t \in T PROVE Append(t, x) \in T
    <2> DEFINE n == Len(t)
    <2>1. SUFFICES ASSUME NEW ss \in Seq(Seq(S)), Match(Append(t, x), ss)
                   PROVE  FlattenSeq(ss) = Append(t, x)
      BY AppendProperties
    <2>2. /\ Len(Append(t, x)) = n + 1 /\ n \in Nat
          /\ \A i \in 1..n : Append(t, x)[i] = t[i]
          /\ Append(t, x)[n + 1] = x
      BY AppendProperties, LenProperties
    <2>3. Len(ss) = n + 1
      BY <2>1, <2>2
    <2>4. ss # <<>>
      BY <2>2, <2>3
    <2>5. PICK ww \in Seq(Seq(S)), w \in Seq(S) : ss = Append(ww, w)
      BY <2>4, SequenceEmptyOrAppend
    <2>6. Len(ww) = n /\ (\A i \in 1..n : ss[i] = ww[i]) /\ ss[n + 1] = w
      <3>1. Len(ss) = Len(ww) + 1 /\ Len(ww) \in Nat
        BY <2>5, AppendProperties, LenProperties
      <3>2. Len(ww) = n
        BY <2>2, <2>3, <3>1
      <3>3. QED
        BY <2>5, <3>2, AppendProperties
    <2> HIDE DEF n
    <2>7. (\A i \in 1..n : i \in 1..(n + 1)) /\ n + 1 \in 1..(n + 1)
      BY <2>2
    <2>8. w = <<x>> /\ \A i \in 1..n : ww[i] = <<t[i]>>
      BY <2>1, <2>2, <2>6, <2>7, Zenon
    <2>9. FlattenSeq(ww) = t
      BY <1>2, <2>6, <2>8 DEF n
    <2>10. FlattenSeq(ss) = FlattenSeq(ww) \o w
      BY <2>5, FlattenAppend
    <2>11. Append(t, x) = t \o <<x>>
      BY AppendIsConcat
    <2>12. QED
      BY <2>8, <2>9, <2>10, <2>11, Zenon
  <1>3. Seq(S) \subseteq T
    <2> HIDE DEF T
    <2>1. QED
      BY <1>1, <1>2, InductionOnSeq
  <1>4. QED
    BY <1>3

(* Empty texts add nothing. *)
LEMMA FlattenEmpties ==
    ASSUME NEW S, NEW pp \in Seq(Seq(S)), \A i \in 1..Len(pp) : pp[i] = <<>>
    PROVE  FlattenSeq(pp) = <<>>
PROOF
  <1> DEFINE Void(ss) == \A i \in 1..Len(ss) : ss[i] = <<>>
             T == {ss \in Seq(Seq(S)) : Void(ss) => FlattenSeq(ss) = <<>>}
  <1>1. <<>> \in T
    BY FlattenEmpty, EmptySeq
  <1>2. ASSUME NEW ss \in Seq(Seq(S)), NEW s \in Seq(S), ss \in T PROVE Append(ss, s) \in T
    <2>1. SUFFICES ASSUME Void(Append(ss, s)) PROVE FlattenSeq(Append(ss, s)) = <<>>
      BY AppendProperties
    <2>2. /\ Len(Append(ss, s)) = Len(ss) + 1 /\ Len(ss) \in Nat
          /\ \A i \in 1..Len(ss) : Append(ss, s)[i] = ss[i]
          /\ Append(ss, s)[Len(ss) + 1] = s
      BY AppendProperties, LenProperties
    <2>3. (\A i \in 1..Len(ss) : i \in 1..(Len(ss) + 1)) /\ Len(ss) + 1 \in 1..(Len(ss) + 1)
      BY <2>2
    <2>4. s = <<>> /\ Void(ss)
      BY <2>1, <2>2, <2>3, Zenon
    <2>5. FlattenSeq(Append(ss, s)) = FlattenSeq(ss) \o s /\ FlattenSeq(ss) = <<>>
      BY <1>2, <2>4, FlattenAppend
    <2>6. <<>> \o <<>> = <<>>
      BY EmptySeq, ConcatEmptySeq
    <2>7. QED
      BY <2>4, <2>5, <2>6, Zenon
  <1>3. Seq(Seq(S)) \subseteq T
    <2> HIDE DEF T
    <2>1. QED
      BY <1>1, <1>2, InductionOnSeq
  <1>4. QED
    BY <1>3

(* One text and empty ones behind it. *)
LEMMA FlattenFirst ==
    ASSUME NEW S, NEW pp \in Seq(Seq(S)), Len(pp) >= 1,
           \A i \in 2..Len(pp) : pp[i] = <<>>
    PROVE  FlattenSeq(pp) = pp[1]
PROOF
  <1>1. Len(pp) \in Nat /\ pp[1] \in Seq(S)
    BY LenProperties, ElementOfSeq
  <1>2. 1 \in 0..Len(pp)
    BY <1>1
  <1>9. PICK l \in Seq(Seq(S)), r \in Seq(Seq(S)) : Halves(pp, 1, l, r)
    BY <1>2, FlattenCut
  <1>3. /\ Len(l) = 1 /\ \A i \in 1..1 : l[i] = pp[i]
        /\ Len(r) = Len(pp) - 1 /\ \A i \in 1..(Len(pp) - 1) : r[i] = pp[1 + i]
        /\ FlattenSeq(pp) = FlattenSeq(l) \o FlattenSeq(r)
    BY <1>9, Zenon DEF Halves
  <1>4. FlattenSeq(r) = <<>>
    <2>1. \A i \in 1..Len(r) : 1 + i \in 2..Len(pp)
      BY <1>1, <1>3
    <2>2. \A i \in 1..Len(r) : r[i] = <<>>
      BY <1>3, <2>1
    <2>3. QED
      BY <2>2, FlattenEmpties
  <1>5. FlattenSeq(l) = pp[1]
    <2>1. l = Append(<<>>, pp[1]) /\ <<>> \in Seq(Seq(S))
      BY <1>1, <1>3
    <2>2. FlattenSeq(Append(<<>>, pp[1])) = FlattenSeq(<<>>) \o pp[1]
      BY <1>1, <2>1, FlattenAppend
    <2>3. <<>> \o pp[1] = pp[1]
      BY <1>1, ConcatEmptySeq
    <2>4. QED
      BY <2>1, <2>2, <2>3, FlattenEmpty, Zenon
  <1>6. pp[1] \o <<>> = pp[1]
    BY <1>1, ConcatEmptySeq
  <1>7. QED
    BY <1>3, <1>4, <1>5, <1>6, Zenon

-----------------------------------------------------------------------------
(* Splice *)

Within(cut, i) == \E j \in DOMAIN cut : j < i /\ i < j + cut[j].length
PieceAt(text, cut, i) ==
    IF i \in DOMAIN cut THEN cut[i].new ELSE IF Within(cut, i) THEN <<>> ELSE <<text[i]>>
Pieces(text, cut) == [i \in DOMAIN text |-> PieceAt(text, cut, i)]

(* What is put in is text. *)
NewTexts(cut, S) == \A i \in DOMAIN cut : cut[i].new \in Seq(S)

(* Splice joins one piece for each character. *)
LEMMA SpliceIsFlatten ==
    ASSUME NEW text, NEW cut
    PROVE  Splice(text, cut) = FlattenSeq(Pieces(text, cut))
PROOF
  BY DEF Splice, Pieces, PieceAt, Within

(* The pieces are texts. *)
LEMMA PiecesType ==
    ASSUME NEW S, NEW text \in Seq(S), NEW cut, NewTexts(cut, S)
    PROVE  /\ Pieces(text, cut) \in Seq(Seq(S))
           /\ Len(Pieces(text, cut)) = Len(text)
           /\ \A i \in 1..Len(text) : Pieces(text, cut)[i] = PieceAt(text, cut, i)
PROOF
  <1>1. DOMAIN text = 1..Len(text) /\ Len(text) \in Nat
    BY LenProperties
  <1>2. \A i \in 1..Len(text) : PieceAt(text, cut, i) \in Seq(S)
    BY DEF PieceAt, NewTexts
  <1>3. QED
    BY <1>1, <1>2 DEF Pieces

(* Splicing a text gives a text. *)
LEMMA SpliceType ==
    ASSUME NEW S, NEW text \in Seq(S), NEW cut, NewTexts(cut, S)
    PROVE  Splice(text, cut) \in Seq(S)
PROOF
  BY SpliceIsFlatten, PiecesType, FlattenType

(* The pieces of the first n characters and those of the others. *)
Spliced(text, cut, n, l, r) ==
    /\ Len(l) = n /\ \A i \in 1..n : l[i] = PieceAt(text, cut, i)
    /\ Len(r) = Len(text) - n
    /\ \A i \in 1..(Len(text) - n) : r[i] = PieceAt(text, cut, n + i)
    /\ Splice(text, cut) = FlattenSeq(l) \o FlattenSeq(r)

(* A text may be spliced in two parts. *)
LEMMA SpliceCut ==
    ASSUME NEW S, NEW text \in Seq(S), NEW cut, NewTexts(cut, S), NEW n \in 0..Len(text)
    PROVE  \E l \in Seq(Seq(S)), r \in Seq(Seq(S)) : Spliced(text, cut, n, l, r)
PROOF
  <1>1. PICK pp \in Seq(Seq(S)) :
            /\ pp = Pieces(text, cut) /\ Len(pp) = Len(text)
            /\ \A i \in 1..Len(text) : pp[i] = PieceAt(text, cut, i)
    <2>1. /\ Pieces(text, cut) \in Seq(Seq(S))
          /\ Len(Pieces(text, cut)) = Len(text)
          /\ \A i \in 1..Len(text) : Pieces(text, cut)[i] = PieceAt(text, cut, i)
      BY PiecesType
    <2>2. QED
      BY <2>1, Zenon
  <1>2. PICK l \in Seq(Seq(S)), r \in Seq(Seq(S)) : Halves(pp, n, l, r)
    <2>1. n \in 0..Len(pp)
      BY <1>1
    <2>2. QED
      BY <2>1, FlattenCut
  <1>3. Len(text) \in Nat
    BY LenProperties
  <1>4. \A i \in 1..n : i \in 1..Len(text)
    BY <1>3
  <1>5. \A i \in 1..(Len(text) - n) : n + i \in 1..Len(text)
    BY <1>3
  <1>6. QED
    BY <1>1, <1>2, <1>4, <1>5, SpliceIsFlatten, Zenon DEF Halves, Spliced

-----------------------------------------------------------------------------
(* Placeholders in a text *)

Plains(S) == {t \in Seq(S) : IsPlain(t)}

(* The placeholder with the name p stands at position i. *)
At(text, i, p) ==
    /\ i \in 1..Len(text) /\ i + Len(p) + 1 <= Len(text)
    /\ text[i] = "<" /\ text[i + Len(p) + 1] = ">"
    /\ \A k \in 1..Len(p) : text[i + k] = p[k]

(* A placeholder, character by character. *)
LEMMA PatternType ==
    ASSUME NEW S, Brackets \subseteq S, NEW p \in Seq(S)
    PROVE  /\ Pattern(p) \in Seq(S) /\ Len(Pattern(p)) = Len(p) + 2
           /\ Pattern(p)[1] = "<" /\ Pattern(p)[Len(p) + 2] = ">"
           /\ \A k \in 1..Len(p) : Pattern(p)[k + 1] = p[k]
PROOF
  <1>1. "<" \in S /\ ">" \in S /\ Len(p) \in Nat
    BY LenProperties DEF Brackets
  <1>2. <<"<">> \in Seq(S) /\ <<">">> \in Seq(S)
    BY <1>1
  <1>3. PICK a \in Seq(S) :
            /\ a = <<"<">> \o p /\ Len(a) = Len(p) + 1 /\ a[1] = "<"
            /\ \A k \in 1..Len(p) : a[k + 1] = p[k]
    <2>1. /\ <<"<">> \o p \in Seq(S) /\ Len(<<"<">> \o p) = Len(p) + 1
          /\ (<<"<">> \o p)[1] = "<"
          /\ \A k \in 1..Len(p) : (<<"<">> \o p)[k + 1] = p[k]
      BY <1>1, <1>2
    <2>2. QED
      BY <2>1, Zenon
  <1>4. PICK b \in Seq(S) :
            /\ b = a \o <<">">> /\ Len(b) = Len(a) + 1 /\ b[Len(a) + 1] = ">"
            /\ \A k \in 1..Len(a) : b[k] = a[k]
    <2>1. /\ a \o <<">">> \in Seq(S) /\ Len(a \o <<">">>) = Len(a) + 1
          /\ (a \o <<">">>)[Len(a) + 1] = ">"
          /\ \A k \in 1..Len(a) : (a \o <<">">>)[k] = a[k]
      BY <1>1, <1>2, LenProperties
    <2>2. QED
      BY <2>1, Zenon
  <1>5. Pattern(p) = b
    BY <1>3, <1>4, Zenon DEF Pattern
  <1>6. \A k \in 1..Len(p) : k + 1 \in 1..Len(a)
    BY <1>1, <1>3
  <1>7. Len(b) = Len(p) + 2 /\ b[1] = "<" /\ b[Len(p) + 2] = ">"
    BY <1>1, <1>3, <1>4
  <1>8. \A k \in 1..Len(p) : b[k + 1] = p[k]
    BY <1>3, <1>4, <1>6
  <1>9. QED
    BY <1>5, <1>7, <1>8

(* Where a placeholder occurs. *)
LEMMA OccurrenceIsAt ==
    ASSUME NEW S, Brackets \subseteq S, NEW text \in Seq(S), NEW p \in Seq(S), NEW i
    PROVE  i \in Occurrences(text, Pattern(p)) <=> At(text, i, p)
PROOF
  <1>1. PICK q \in Seq(S) :
            /\ q = Pattern(p) /\ Len(q) = Len(p) + 2
            /\ q[1] = "<" /\ q[Len(p) + 2] = ">"
            /\ \A k \in 1..Len(p) : q[k + 1] = p[k]
    <2>1. /\ Pattern(p) \in Seq(S) /\ Len(Pattern(p)) = Len(p) + 2
          /\ Pattern(p)[1] = "<" /\ Pattern(p)[Len(p) + 2] = ">"
          /\ \A k \in 1..Len(p) : Pattern(p)[k + 1] = p[k]
      BY PatternType
    <2>2. QED
      BY <2>1, Zenon
  <1>2. /\ Len(p) \in Nat /\ Len(text) \in Nat
        /\ DOMAIN text = 1..Len(text) /\ DOMAIN q = 1..(Len(p) + 2)
    BY <1>1, LenProperties
  <1>3. ASSUME i \in Occurrences(text, q) PROVE At(text, i, p)
    <2>1. /\ i \in 1..Len(text) /\ i + (Len(p) + 2) - 1 <= Len(text)
          /\ \A k \in 1..(Len(p) + 2) : text[i + k - 1] = q[k]
      BY <1>1, <1>2, <1>3 DEF Occurrences
    <2>2. text[i] = "<"
      <3>1. 1 \in 1..(Len(p) + 2) /\ i + 1 - 1 = i
        BY <1>2, <2>1
      <3>2. QED
        BY <1>1, <2>1, <3>1, Zenon
    <2>3. text[i + Len(p) + 1] = ">"
      <3>1. Len(p) + 2 \in 1..(Len(p) + 2) /\ i + (Len(p) + 2) - 1 = i + Len(p) + 1
        BY <1>2, <2>1
      <3>2. QED
        BY <1>1, <2>1, <3>1, Zenon
    <2>4. ASSUME NEW k \in 1..Len(p) PROVE text[i + k] = p[k]
      <3>1. k + 1 \in 1..(Len(p) + 2) /\ i + (k + 1) - 1 = i + k
        BY <1>2, <2>1
      <3>2. QED
        BY <1>1, <2>1, <3>1, Zenon
    <2>5. i + Len(p) + 1 <= Len(text)
      BY <1>2, <2>1
    <2>6. QED
      BY <2>1, <2>2, <2>3, <2>4, <2>5 DEF At
  <1>4. ASSUME At(text, i, p) PROVE i \in Occurrences(text, q)
    <2>1. /\ i \in 1..Len(text) /\ i + Len(p) + 1 <= Len(text)
          /\ text[i] = "<" /\ text[i + Len(p) + 1] = ">"
          /\ \A k \in 1..Len(p) : text[i + k] = p[k]
      BY <1>4 DEF At
    <2>2. ASSUME NEW k \in 1..(Len(p) + 2) PROVE text[i + k - 1] = q[k]
      <3>1. CASE k = 1
        BY <1>1, <2>1, <3>1
      <3>2. CASE k = Len(p) + 2
        <4>1. i + k - 1 = i + Len(p) + 1
          BY <1>2, <2>1, <3>2
        <4>2. QED
          BY <1>1, <2>1, <3>2, <4>1, Zenon
      <3>3. CASE k # 1 /\ k # Len(p) + 2
        <4>1. k - 1 \in 1..Len(p) /\ (k - 1) + 1 = k /\ i + k - 1 = i + (k - 1)
          BY <1>2, <2>1, <3>3
        <4>2. QED
          BY <1>1, <2>1, <4>1, Zenon
      <3>4. QED
        BY <3>1, <3>2, <3>3
    <2>3. i + Len(q) - 1 <= Len(text)
      BY <1>1, <1>2, <2>1
    <2>4. \A k \in DOMAIN q : text[i + k - 1] = q[k]
      BY <1>2, <2>2, Zenon
    <2>5. QED
      BY <1>2, <2>1, <2>3, <2>4, Zenon DEF Occurrences
  <1>5. QED
    BY <1>1, <1>3, <1>4, Zenon

(* A plain text has no brackets. *)
LEMMA PlainFacts ==
    ASSUME NEW S, NEW t \in Plains(S)
    PROVE  /\ t \in Seq(S) /\ Len(t) \in Nat
           /\ \A k \in 1..Len(t) : t[k] # "<" /\ t[k] # ">"
PROOF
  <1>1. t \in Seq(S) /\ IsPlain(t)
    BY DEF Plains
  <1>2. DOMAIN t = 1..Len(t) /\ Len(t) \in Nat
    BY <1>1, LenProperties
  <1>3. QED
    BY <1>1, <1>2 DEF IsPlain, Brackets

(* Placeholders with plain names do not overlap. *)
LEMMA NoOverlap ==
    ASSUME NEW S, NEW text \in Seq(S), NEW p \in Plains(S), NEW q \in Plains(S),
           NEW i, NEW j, At(text, i, p), At(text, j, q), i <= j, j <= i + Len(p) + 1
    PROVE  i = j /\ p = q
PROOF
  <1>1. /\ p \in Seq(S) /\ Len(p) \in Nat /\ q \in Seq(S) /\ Len(q) \in Nat
        /\ \A k \in 1..Len(p) : p[k] # "<" /\ p[k] # ">"
        /\ \A k \in 1..Len(q) : q[k] # "<" /\ q[k] # ">"
    BY PlainFacts
  <1>2. /\ i \in Nat /\ j \in Nat
        /\ text[i] = "<" /\ text[i + Len(p) + 1] = ">"
        /\ \A k \in 1..Len(p) : text[i + k] = p[k]
        /\ text[j] = "<" /\ text[j + Len(q) + 1] = ">"
        /\ \A k \in 1..Len(q) : text[j + k] = q[k]
    BY DEF At
  <1>3. i = j
    <2>1. SUFFICES ASSUME i < j PROVE FALSE
      BY <1>2
    <2>2. CASE j = i + Len(p) + 1
      BY <1>2, <2>2
    <2>3. CASE j # i + Len(p) + 1
      <3>0. i \in Nat /\ j \in Nat /\ Len(p) \in Nat
        BY <1>1, <1>2
      <3>1. j - i \in 1..Len(p) /\ i + (j - i) = j
        BY <2>1, <2>3, <3>0
      <3>2. text[j] = p[j - i]
        BY <1>2, <3>1, Zenon
      <3>3. QED
        BY <1>1, <1>2, <3>1, <3>2
    <2>4. QED
      BY <2>2, <2>3
  <1>4. Len(p) = Len(q)
    <2>1. ASSUME Len(p) < Len(q) PROVE FALSE
      <3>1. Len(p) + 1 \in 1..Len(q) /\ i + (Len(p) + 1) = i + Len(p) + 1
        BY <1>1, <1>2, <2>1
      <3>2. text[i + Len(p) + 1] = q[Len(p) + 1]
        BY <1>2, <1>3, <3>1, Zenon
      <3>3. QED
        BY <1>1, <1>2, <3>1, <3>2
    <2>2. ASSUME Len(q) < Len(p) PROVE FALSE
      <3>1. Len(q) + 1 \in 1..Len(p) /\ i + (Len(q) + 1) = i + Len(q) + 1
        BY <1>1, <1>2, <2>2
      <3>2. text[i + Len(q) + 1] = p[Len(q) + 1]
        BY <1>2, <3>1, Zenon
      <3>3. QED
        BY <1>1, <1>2, <1>3, <3>1, <3>2
    <2>3. QED
      BY <1>1, <2>1, <2>2
  <1>5. \A k \in 1..Len(p) : p[k] = q[k]
    BY <1>2, <1>3, <1>4
  <1>6. p = q
    BY <1>1, <1>4, <1>5, SeqEqual
  <1>7. QED
    BY <1>3, <1>6

(* There is a choice of occurrences as strings.ReplaceAll makes it. *)
LEMMA ReplacedIsChoice ==
    ASSUME NEW S, NEW text \in Seq(S), NEW old, Len(old) \in Nat
    PROVE  /\ Replaced(text, old) \in SUBSET Occurrences(text, old)
           /\ \A i \in Occurrences(text, old) :
                  i \in Replaced(text, old) <=>
                      \A j \in Replaced(text, old) : ~ (j < i /\ i < j + Len(old))
PROOF
  <1> DEFINE O == Occurrences(text, old)
             Free(I, i) == \A j \in I : ~ (j < i /\ i < j + Len(old))
             Greedy(I, n) == I \in SUBSET O /\ (\A i \in I : i <= n)
                             /\ \A i \in O : i <= n => (i \in I <=> Free(I, i))
             N == {n \in Nat : \E I : Greedy(I, n)}
  <1>1. Len(text) \in Nat /\ O \subseteq 1..Len(text)
    BY LenProperties DEF Occurrences
  <1> HIDE DEF O
  <1>2. 0 \in N
    <2>1. Greedy({}, 0)
      BY <1>1
    <2>2. QED
      BY <2>1
  <1>3. ASSUME NEW n \in Nat, n \in N PROVE n + 1 \in N
    <2>1. PICK I : Greedy(I, n)
      BY <1>3
    <2> DEFINE J == I \cup {i \in O : i = n + 1 /\ Free(I, i)}
    <2>2. \A i \in O : i \in Nat
      BY <1>1
    <2>3. J \in SUBSET O /\ \A i \in J : i <= n + 1
      BY <2>1, <2>2
    <2>4. ASSUME NEW i \in O, i <= n + 1 PROVE i \in J <=> Free(J, i)
      <3>1. \A j \in J : j \in I \/ j = n + 1
        OBVIOUS
      <3>2. Free(J, i) <=> Free(I, i)
        BY <2>2, <2>4, <3>1
      <3>3. CASE i = n + 1
        <4>1. i \notin I
          BY <2>1, <3>3
        <4>2. QED
          BY <3>2, <3>3, <4>1
      <3>4. CASE i # n + 1
        <4>1. i <= n
          BY <2>2, <2>4, <3>4
        <4>2. QED
          BY <2>1, <3>2, <3>4, <4>1
      <3>5. QED
        BY <3>3, <3>4
    <2>5. Greedy(J, n + 1)
      BY <2>3, <2>4
    <2>6. QED
      <3> HIDE DEF J, Greedy
      <3>1. QED
        BY <2>5
  <1>4. Nat \subseteq N
    <2> HIDE DEF N
    <2>1. QED
      BY <1>2, <1>3, Induction
  <1>5. PICK I : Greedy(I, Len(text))
    BY <1>1, <1>4
  <1>6. \A i \in O : i <= Len(text)
    BY <1>1
  <1>7. \E S1 \in SUBSET O : \A i \in O : i \in S1 <=> Free(S1, i)
    BY <1>5, <1>6
  <1>8. Replaced(text, old) = CHOOSE S1 \in SUBSET O : \A i \in O : i \in S1 <=> Free(S1, i)
    BY DEF Replaced, O
  <1>9. QED
    BY <1>7, <1>8, Zenon DEF O

(* With a plain name every occurrence is replaced. *)
LEMMA ReplacedPlain ==
    ASSUME NEW S, Brackets \subseteq S, NEW text \in Seq(S), NEW q \in Plains(S)
    PROVE  Replaced(text, Pattern(q)) = Occurrences(text, Pattern(q))
PROOF
  <1> DEFINE O == Occurrences(text, Pattern(q))
             R == Replaced(text, Pattern(q))
  <1>1. q \in Seq(S) /\ Len(q) \in Nat
    BY PlainFacts
  <1>2. Len(Pattern(q)) = Len(q) + 2
    BY <1>1, PatternType
  <1>3. /\ R \in SUBSET O
        /\ \A i \in O : i \in R <=> \A j \in R : ~ (j < i /\ i < j + Len(Pattern(q)))
    BY <1>1, <1>2, ReplacedIsChoice
  <1>4. \A i \in O : At(text, i, q)
    BY <1>1, OccurrenceIsAt
  <1> HIDE DEF O, R
  <1>5. ASSUME NEW i \in O, NEW j \in R PROVE ~ (j < i /\ i < j + Len(Pattern(q)))
    <2>1. At(text, i, q) /\ At(text, j, q)
      BY <1>3, <1>4
    <2>2. i \in Nat /\ j \in Nat
      BY <2>1 DEF At
    <2>3. SUFFICES ASSUME j < i, i < j + Len(Pattern(q)) PROVE FALSE
      OBVIOUS
    <2>4. j <= i /\ i <= j + Len(q) + 1
      BY <1>1, <1>2, <2>2, <2>3
    <2>5. j = i
      BY <2>1, <2>4, NoOverlap
    <2>6. QED
      BY <2>2, <2>3, <2>5
  <1>6. QED
    BY <1>3, <1>5 DEF O, R

-----------------------------------------------------------------------------
(* Replacing several placeholders at the same time *)

PlainSubst(subst, S) ==
    DOMAIN subst \subseteq Plains(S) /\ \A p \in DOMAIN subst : subst[p] \in Seq(S)

(* cut replaces, at each of its places, the placeholder that stands there. *)
IsCut(text, subst, cut) ==
    /\ \A i \in DOMAIN cut : \E p \in DOMAIN subst : At(text, i, p)
    /\ \A p \in DOMAIN subst : \A i :
           At(text, i, p) =>
               i \in DOMAIN cut /\ cut[i].length = Len(p) + 2 /\ cut[i].new = subst[p]

(* Such a cut puts texts in. *)
LEMMA CutTexts ==
    ASSUME NEW S, NEW subst, PlainSubst(subst, S), NEW text, NEW cut, IsCut(text, subst, cut)
    PROVE  NewTexts(cut, S)
PROOF
  BY DEF PlainSubst, IsCut, NewTexts

(* ReplaceEach makes such a cut ... *)
LEMMA EachIsSplice ==
    ASSUME NEW S, Brackets \subseteq S, NEW text \in Seq(S), NEW subst, PlainSubst(subst, S)
    PROVE  \E cut : IsCut(text, subst, cut) /\ ReplaceEach(text, subst) = Splice(text, cut)
PROOF
  <1> DEFINE O(p) == Occurrences(text, Pattern(p))
             the(i) == CHOOSE p \in DOMAIN subst : i \in O(p)
             places == UNION {O(p) : p \in DOMAIN subst}
             cut == [i \in places |-> [length |-> Len(Pattern(the(i))), new |-> subst[the(i)]]]
  <1>1. ReplaceEach(text, subst) = Splice(text, cut)
    BY DEF ReplaceEach
  <1>2. \A p \in DOMAIN subst : p \in Plains(S) /\ p \in Seq(S)
    BY DEF PlainSubst, Plains
  <1>3. \A p \in DOMAIN subst : \A i : i \in O(p) <=> At(text, i, p)
    BY <1>2, OccurrenceIsAt
  <1> HIDE DEF O
  <1>4. \A i : i \in places <=> \E p \in DOMAIN subst : i \in O(p)
    OBVIOUS
  <1>5. ASSUME NEW p \in DOMAIN subst, NEW i, At(text, i, p) PROVE the(i) = p
    <2>1. the(i) \in DOMAIN subst /\ i \in O(the(i))
      BY <1>3, <1>5, Zenon
    <2>2. PICK q \in DOMAIN subst : q = the(i) /\ At(text, i, q)
      BY <1>3, <2>1, Zenon
    <2>3. i \in Nat /\ Len(p) \in Nat
      BY <1>2, <1>5, LenProperties DEF At
    <2>4. i <= i /\ i <= i + Len(p) + 1
      BY <2>3
    <2>5. p = q
      BY <1>2, <1>5, <2>2, <2>4, NoOverlap
    <2>6. QED
      BY <2>2, <2>5, Zenon
  <1> HIDE DEF the, places
  <1>6. ASSUME NEW p \in DOMAIN subst, NEW i, At(text, i, p)
        PROVE  i \in DOMAIN cut /\ cut[i].length = Len(p) + 2 /\ cut[i].new = subst[p]
    <2>1. i \in places /\ the(i) = p
      BY <1>3, <1>4, <1>5, <1>6
    <2>2. cut[i] = [length |-> Len(Pattern(p)), new |-> subst[p]]
      BY <2>1
    <2>3. Len(Pattern(p)) = Len(p) + 2
      BY <1>2, PatternType
    <2>4. QED
      BY <2>1, <2>2, <2>3
  <1>7. ASSUME NEW i \in DOMAIN cut PROVE \E p \in DOMAIN subst : At(text, i, p)
    BY <1>3, <1>4, <1>7
  <1>8. IsCut(text, subst, cut)
    <2> HIDE DEF cut
    <2>1. QED
      BY <1>6, <1>7 DEF IsCut
  <1>9. QED
    BY <1>1, <1>8, Zenon

(* ... and so does strings.ReplaceAll with a plain name. *)
LEMMA TextIsSplice ==
    ASSUME NEW S, Brackets \subseteq S, NEW text \in Seq(S), NEW q \in Plains(S), NEW v \in Seq(S),
           NEW subst, subst = [p \in {q} |-> v]
    PROVE  \E cut : /\ IsCut(text, subst, cut)
                    /\ ReplaceText(text, Pattern(q), v) = Splice(text, cut)
PROOF
  <1> DEFINE O == Occurrences(text, Pattern(q))
             cut == [i \in O |-> [length |-> Len(Pattern(q)), new |-> v]]
  <1>1. ReplaceText(text, Pattern(q), v) = Splice(text, cut)
    BY ReplacedPlain DEF ReplaceText
  <1>2. q \in Seq(S)
    BY DEF Plains
  <1>3. \A i : i \in O <=> At(text, i, q)
    BY <1>2, OccurrenceIsAt
  <1>4. Len(Pattern(q)) = Len(q) + 2
    BY <1>2, PatternType
  <1> HIDE DEF O
  <1>5. DOMAIN subst = {q} /\ subst[q] = v
    OBVIOUS
  <1>6. DOMAIN cut = O /\ \A i \in O : cut[i].length = Len(q) + 2 /\ cut[i].new = v
    BY <1>4
  <1>7. IsCut(text, subst, cut)
    <2> HIDE DEF cut
    <2>1. QED
      BY <1>3, <1>5, <1>6 DEF IsCut
  <1>8. QED
    BY <1>1, <1>7, Zenon

-----------------------------------------------------------------------------
(* A text that is put together from items: plain texts and placeholders    *)
(* with plain names                                                        *)

Items(S) == Plains(S) \cup {Pattern(p) : p \in Plains(S)}

(* Every opening bracket has a closing one behind it. *)
Closed(u) == \A i \in 1..Len(u) : u[i] = "<" => \E j \in (i + 1)..Len(u) : u[j] = ">"

SwapItem(it, subst) ==
    IF \E p \in DOMAIN subst : it = Pattern(p)
    THEN subst[CHOOSE p \in DOMAIN subst : it = Pattern(p)]
    ELSE it
Swapped(items, subst) == [j \in DOMAIN items |-> SwapItem(items[j], subst)]

(* Placeholders have different names, and are not plain. *)
LEMMA PatternTellsApart ==
    ASSUME NEW S, Brackets \subseteq S, NEW p \in Plains(S)
    PROVE  /\ Pattern(p) \notin Plains(S)
           /\ \A q \in Plains(S) : Pattern(p) = Pattern(q) => p = q
PROOF
  <1>1. p \in Seq(S) /\ Len(p) \in Nat
    BY PlainFacts
  <1>2. PICK a : a = Pattern(p)
    OBVIOUS
  <1>3. /\ a \in Seq(S) /\ Len(a) = Len(p) + 2 /\ a[1] = "<" /\ a[Len(p) + 2] = ">"
        /\ \A k \in 1..Len(p) : a[k + 1] = p[k]
    BY <1>1, <1>2, PatternType
  <1>4. a \notin Plains(S)
    <2>1. 1 \in 1..Len(a)
      BY <1>1, <1>3
    <2>2. QED
      BY <1>3, <2>1, PlainFacts
  <1>5. ASSUME NEW q \in Plains(S), a = Pattern(q) PROVE p = q
    <2>1. q \in Seq(S) /\ Len(q) \in Nat
      BY PlainFacts
    <2>2. /\ Len(a) = Len(q) + 2 /\ a[1] = "<" /\ a[Len(q) + 2] = ">"
          /\ \A k \in 1..Len(q) : a[k + 1] = q[k]
      BY <1>5, <2>1, PatternType
    <2>3. Len(p) = Len(q)
      BY <1>1, <1>3, <2>1, <2>2
    <2>4. \A k \in 1..Len(p) : p[k] = q[k]
      BY <1>3, <2>2, <2>3
    <2>5. QED
      BY <1>1, <2>1, <2>3, <2>4, SeqEqual
  <1>6. QED
    BY <1>2, <1>4, <1>5, Zenon

(* What an item becomes. *)
LEMMA SwapFacts ==
    ASSUME NEW S, Brackets \subseteq S, NEW subst, PlainSubst(subst, S)
    PROVE  /\ \A p \in DOMAIN subst : SwapItem(Pattern(p), subst) = subst[p]
           /\ \A p \in Plains(S) \ DOMAIN subst : SwapItem(Pattern(p), subst) = Pattern(p)
           /\ \A t \in Plains(S) : SwapItem(t, subst) = t
PROOF
  <1>1. DOMAIN subst \subseteq Plains(S)
    BY DEF PlainSubst
  <1>2. /\ \A p \in Plains(S) : Pattern(p) \notin Plains(S)
        /\ \A p, q \in Plains(S) : Pattern(p) = Pattern(q) => p = q
    BY PatternTellsApart
  <1>3. ASSUME NEW p \in DOMAIN subst PROVE SwapItem(Pattern(p), subst) = subst[p]
    <2> DEFINE c == CHOOSE q \in DOMAIN subst : Pattern(p) = Pattern(q)
    <2>1. c \in DOMAIN subst /\ Pattern(p) = Pattern(c)
      BY Zenon
    <2>2. c = p
      <3> HIDE DEF c
      <3>1. QED
        BY <1>1, <1>2, <2>1, Zenon
    <2>3. SwapItem(Pattern(p), subst) = subst[c]
      BY Zenon DEF SwapItem
    <2>4. QED
      BY <2>2, <2>3, Zenon
  <1>4. ASSUME NEW p \in Plains(S) \ DOMAIN subst PROVE SwapItem(Pattern(p), subst) = Pattern(p)
    <2>1. ~ \E q \in DOMAIN subst : Pattern(p) = Pattern(q)
      BY <1>1, <1>2
    <2>2. QED
      BY <2>1, Zenon DEF SwapItem
  <1>5. ASSUME NEW t \in Plains(S) PROVE SwapItem(t, subst) = t
    <2>1. ~ \E q \in DOMAIN subst : t = Pattern(q)
      BY <1>1, <1>2
    <2>2. QED
      BY <2>1, Zenon DEF SwapItem
  <1>6. QED
    BY <1>3, <1>4, <1>5

(* An item behind a text, character by character. *)
Joint(text, u, it) ==
    /\ Len(text) = Len(u) + Len(it)
    /\ \A i \in 1..Len(u) : text[i] = u[i]
    /\ \A k \in 1..Len(it) : text[Len(u) + k] = it[k]

(* That is what \o gives. *)
LEMMA JointConcat ==
    ASSUME NEW S, NEW u \in Seq(S), NEW it \in Seq(S)
    PROVE  u \o it \in Seq(S) /\ Joint(u \o it, u, it)
PROOF
  <1>1. Len(u) \in Nat /\ Len(it) \in Nat
    BY LenProperties
  <1>2. /\ u \o it \in Seq(S) /\ Len(u \o it) = Len(u) + Len(it)
        /\ \A i \in 1..Len(u) : (u \o it)[i] = u[i]
        /\ \A k \in 1..Len(it) : (u \o it)[Len(u) + k] = it[k]
    BY <1>1
  <1>3. QED
    BY <1>2, Zenon DEF Joint

(* The placeholders of a closed text are those of the text before the item *)
(* and the item, if it is one.                                             *)
LEMMA AtJoint ==
    ASSUME NEW S, Brackets \subseteq S, NEW u \in Seq(S), NEW it \in Items(S), NEW text \in Seq(S),
           Joint(text, u, it), Closed(u), NEW p \in Plains(S), NEW i
    PROVE  /\ At(u, i, p) => At(text, i, p)
           /\ At(text, i, p) /\ i <= Len(u) => At(u, i, p)
           /\ At(text, i, p) /\ ~ (i <= Len(u)) => i = Len(u) + 1 /\ it = Pattern(p)
           /\ it = Pattern(p) => At(text, Len(u) + 1, p)
PROOF
  <1>1. /\ Len(u) \in Nat /\ Len(text) \in Nat /\ p \in Seq(S) /\ Len(p) \in Nat
        /\ \A k \in 1..Len(p) : p[k] # "<" /\ p[k] # ">"
    BY PlainFacts, LenProperties
  <1>2. it \in Seq(S) /\ Len(it) \in Nat
    <2>1. CASE it \in Plains(S)
      BY <2>1, PlainFacts
    <2>2. CASE it \notin Plains(S)
      <3>1. PICK w \in Plains(S) : it = Pattern(w)
        BY <2>2 DEF Items
      <3>2. w \in Seq(S) /\ Len(w) \in Nat
        BY PlainFacts
      <3>3. it \in Seq(S) /\ Len(it) = Len(w) + 2
        BY <3>1, <3>2, PatternType
      <3>4. QED
        BY <3>2, <3>3
    <2>3. QED
      BY <2>1, <2>2
  <1>3. /\ Len(text) = Len(u) + Len(it)
        /\ \A k \in 1..Len(u) : text[k] = u[k]
        /\ \A k \in 1..Len(it) : text[Len(u) + k] = it[k]
    BY DEF Joint
  <1>4. ASSUME At(u, i, p) PROVE At(text, i, p)
    <2>1. /\ i \in 1..Len(u) /\ i + Len(p) + 1 <= Len(u)
          /\ u[i] = "<" /\ u[i + Len(p) + 1] = ">"
          /\ \A k \in 1..Len(p) : u[i + k] = p[k]
      BY <1>4 DEF At
    <2>2. /\ i \in 1..Len(text) /\ i + Len(p) + 1 <= Len(text) /\ i + Len(p) + 1 \in 1..Len(u)
          /\ \A k \in 1..Len(p) : i + k \in 1..Len(u)
      BY <1>1, <1>2, <1>3, <2>1
    <2>3. QED
      BY <1>3, <2>1, <2>2 DEF At
  <1>5. ASSUME At(text, i, p), i <= Len(u) PROVE At(u, i, p)
    <2>1. /\ i \in 1..Len(text) /\ i + Len(p) + 1 <= Len(text)
          /\ text[i] = "<" /\ text[i + Len(p) + 1] = ">"
          /\ \A k \in 1..Len(p) : text[i + k] = p[k]
      BY <1>5 DEF At
    <2>2. i \in 1..Len(u) /\ u[i] = "<"
      BY <1>1, <1>3, <1>5, <2>1
    <2>3. PICK j \in (i + 1)..Len(u) : u[j] = ">"
      BY <2>2 DEF Closed
    <2>4. text[j] = ">" /\ i \in Nat /\ j \in Nat
      <3>1. j \in 1..Len(u)
        BY <2>2
      <3>2. QED
        BY <1>3, <2>2, <2>3, <3>1
    <2>5. i + Len(p) + 1 <= Len(u)
      <3>1. SUFFICES ASSUME i + Len(p) + 1 > Len(u) PROVE FALSE
        BY <1>1, <2>4
      <3>2. j - i \in 1..Len(p) /\ i + (j - i) = j
        BY <1>1, <2>4, <3>1
      <3>3. text[j] = p[j - i]
        BY <2>1, <3>2, Zenon
      <3>4. QED
        BY <1>1, <2>4, <3>2, <3>3
    <2>6. i + Len(p) + 1 \in 1..Len(u) /\ \A k \in 1..Len(p) : i + k \in 1..Len(u)
      BY <1>1, <2>4, <2>5
    <2>7. QED
      BY <1>3, <2>1, <2>2, <2>5, <2>6 DEF At
  <1>6. ASSUME At(text, i, p), ~ (i <= Len(u)) PROVE i = Len(u) + 1 /\ it = Pattern(p)
    <2>1. /\ i \in 1..Len(text) /\ i + Len(p) + 1 <= Len(text)
          /\ text[i] = "<" /\ text[i + Len(p) + 1] = ">"
          /\ \A k \in 1..Len(p) : text[i + k] = p[k]
      BY <1>6 DEF At
    <2>2. i - Len(u) \in 1..Len(it) /\ Len(u) + (i - Len(u)) = i /\ i \in Nat
      BY <1>1, <1>2, <1>3, <1>6, <2>1
    <2>3. it[i - Len(u)] = "<"
      BY <1>3, <2>1, <2>2, Zenon
    <2>4. it \notin Plains(S)
      BY <2>2, <2>3, PlainFacts
    <2>5. PICK w \in Plains(S) : it = Pattern(w)
      BY <2>4 DEF Items
    <2>6. /\ w \in Seq(S) /\ Len(w) \in Nat
          /\ \A k \in 1..Len(w) : w[k] # "<" /\ w[k] # ">"
      BY PlainFacts
    <2>7. /\ Len(it) = Len(w) + 2 /\ it[1] = "<" /\ it[Len(w) + 2] = ">"
          /\ \A k \in 1..Len(w) : it[k + 1] = w[k]
      BY <2>5, <2>6, PatternType
    <2>8. At(text, Len(u) + 1, w)
      <3>1. /\ Len(u) + 1 \in 1..Len(text) /\ (Len(u) + 1) + Len(w) + 1 <= Len(text)
            /\ 1 \in 1..Len(it) /\ Len(w) + 2 \in 1..Len(it)
            /\ (Len(u) + 1) + Len(w) + 1 = Len(u) + (Len(w) + 2)
        BY <1>1, <1>3, <2>6, <2>7
      <3>2. text[Len(u) + 1] = "<" /\ text[(Len(u) + 1) + Len(w) + 1] = ">"
        BY <1>3, <2>7, <3>1
      <3>3. ASSUME NEW k \in 1..Len(w) PROVE text[(Len(u) + 1) + k] = w[k]
        <4>1. k + 1 \in 1..Len(it) /\ (Len(u) + 1) + k = Len(u) + (k + 1)
          BY <1>1, <2>6, <2>7
        <4>2. QED
          BY <1>3, <2>7, <4>1, Zenon
      <3>4. QED
        BY <3>1, <3>2, <3>3 DEF At
    <2>9. Len(u) + 1 <= i /\ i <= (Len(u) + 1) + Len(w) + 1
      BY <1>1, <1>3, <2>1, <2>2, <2>6, <2>7
    <2>10. Len(u) + 1 = i /\ w = p
      BY <1>6, <2>8, <2>9, NoOverlap
    <2>11. QED
      BY <2>5, <2>10
  <1>7. ASSUME it = Pattern(p) PROVE At(text, Len(u) + 1, p)
    <2>1. /\ Len(it) = Len(p) + 2 /\ it[1] = "<" /\ it[Len(p) + 2] = ">"
          /\ \A k \in 1..Len(p) : it[k + 1] = p[k]
      BY <1>1, <1>7, PatternType
    <2>2. /\ Len(u) + 1 \in 1..Len(text) /\ (Len(u) + 1) + Len(p) + 1 <= Len(text)
          /\ 1 \in 1..Len(it) /\ Len(p) + 2 \in 1..Len(it)
          /\ (Len(u) + 1) + Len(p) + 1 = Len(u) + (Len(p) + 2)
      BY <1>1, <1>3, <2>1
    <2>3. text[Len(u) + 1] = "<" /\ text[(Len(u) + 1) + Len(p) + 1] = ">"
      BY <1>3, <2>1, <2>2
    <2>4. ASSUME NEW k \in 1..Len(p) PROVE text[(Len(u) + 1) + k] = p[k]
      <3>1. k + 1 \in 1..Len(it) /\ (Len(u) + 1) + k = Len(u) + (k + 1)
        BY <1>1, <2>1
      <3>2. QED
        BY <1>3, <2>1, <3>1, Zenon
    <2>5. QED
      BY <2>2, <2>3, <2>4 DEF At
  <1>8. QED
    BY <1>4, <1>5, <1>6, <1>7, Zenon

(* An item behind a closed text leaves it closed. *)
LEMMA ClosedJoint ==
    ASSUME NEW S, Brackets \subseteq S, NEW u \in Seq(S), NEW it \in Items(S), NEW text \in Seq(S),
           Joint(text, u, it), Closed(u)
    PROVE  Closed(text)
PROOF
  <1>1. Len(u) \in Nat /\ Len(text) \in Nat
    BY LenProperties
  <1>2. /\ Len(text) = Len(u) + Len(it)
        /\ \A k \in 1..Len(u) : text[k] = u[k]
        /\ \A k \in 1..Len(it) : text[Len(u) + k] = it[k]
    BY DEF Joint
  <1>3. SUFFICES ASSUME NEW i \in 1..Len(text), text[i] = "<"
                 PROVE  \E j \in (i + 1)..Len(text) : text[j] = ">"
    BY DEF Closed
  <1>4. CASE it \in Plains(S)
    <2>1. Len(it) \in Nat /\ \A k \in 1..Len(it) : it[k] # "<"
      BY <1>4, PlainFacts
    <2>2. i <= Len(u)
      <3>1. SUFFICES ASSUME i > Len(u) PROVE FALSE
        BY <1>1
      <3>2. i - Len(u) \in 1..Len(it) /\ Len(u) + (i - Len(u)) = i
        BY <1>1, <1>2, <2>1, <3>1
      <3>3. text[i] = it[i - Len(u)]
        BY <1>2, <3>2, Zenon
      <3>4. QED
        BY <1>3, <2>1, <3>2, <3>3
    <2>3. i \in 1..Len(u) /\ u[i] = "<"
      BY <1>1, <1>2, <1>3, <2>2
    <2>4. PICK j \in (i + 1)..Len(u) : u[j] = ">"
      BY <2>3 DEF Closed
    <2>5. j \in 1..Len(u) /\ j \in (i + 1)..Len(text)
      BY <1>1, <1>2, <2>1, <2>3
    <2>6. text[j] = ">"
      BY <1>2, <2>4, <2>5
    <2>7. QED
      BY <2>5, <2>6
  <1>5. CASE it \notin Plains(S)
    <2>1. PICK w \in Plains(S) : it = Pattern(w)
      BY <1>5 DEF Items
    <2>2. w \in Seq(S) /\ Len(w) \in Nat
      BY PlainFacts
    <2>3. Len(it) = Len(w) + 2 /\ it[Len(w) + 2] = ">"
      BY <2>1, <2>2, PatternType
    <2>4. Len(it) \in 1..Len(it) /\ Len(u) + Len(it) = Len(text)
      BY <1>2, <2>2, <2>3
    <2>5. text[Len(text)] = ">"
      <3>1. text[Len(u) + Len(it)] = it[Len(it)]
        BY <1>2, <2>4, Zenon
      <3>2. QED
        BY <2>3, <2>4, <3>1, Zenon
    <2>6. i # Len(text)
      BY <1>3, <2>5
    <2>7. Len(text) \in (i + 1)..Len(text)
      BY <1>1, <2>6
    <2>8. QED
      BY <2>5, <2>7
  <1>6. QED
    BY <1>4, <1>5

(* Items are texts. *)
LEMMA ItemsAreTexts ==
    ASSUME NEW S, Brackets \subseteq S
    PROVE  Items(S) \subseteq Seq(S)
PROOF
  <1>1. ASSUME NEW p \in Plains(S) PROVE p \in Seq(S) /\ Pattern(p) \in Seq(S)
    BY PlainFacts, PatternType
  <1>2. QED
    BY <1>1 DEF Items

(* What is cut out of a text and what is cut out of the item behind it. *)
CutShort(text, cut, u, it, subst, c) ==
    IsCut(u, subst, c) /\ Splice(text, cut) = Splice(u, c) \o SwapItem(it, subst)

(* Every cut of the two together is one of the text and one of the item. *)
LEMMA SpliceJoint ==
    ASSUME NEW S, Brackets \subseteq S, NEW u \in Seq(S), NEW it \in Items(S), NEW text \in Seq(S),
           Joint(text, u, it), Closed(u),
           NEW subst, PlainSubst(subst, S), NEW cut, IsCut(text, subst, cut)
    PROVE  \E c : CutShort(text, cut, u, it, subst, c)
PROOF
  <1> DEFINE c == [i \in {j \in DOMAIN cut : j <= Len(u)} |-> cut[i]]
  <1>1. Len(u) \in Nat /\ Len(text) \in Nat /\ it \in Seq(S) /\ Len(it) \in Nat
    BY LenProperties, ItemsAreTexts
  <1>2. /\ Len(text) = Len(u) + Len(it)
        /\ \A k \in 1..Len(u) : text[k] = u[k]
        /\ \A k \in 1..Len(it) : text[Len(u) + k] = it[k]
    BY DEF Joint
  <1>3. \A p \in DOMAIN subst : p \in Plains(S) /\ Len(p) \in Nat
    BY PlainFacts DEF PlainSubst
  <1>4. ASSUME NEW p \in DOMAIN subst, NEW i
        PROVE  /\ At(u, i, p) <=> At(text, i, p) /\ i <= Len(u)
               /\ At(text, i, p) /\ ~ (i <= Len(u)) => i = Len(u) + 1 /\ it = Pattern(p)
               /\ it = Pattern(p) => At(text, Len(u) + 1, p)
    <2>1. p \in Plains(S)
      BY <1>3
    <2>2. At(u, i, p) => i <= Len(u)
      BY <1>1 DEF At
    <2>3. QED
      BY <2>1, <2>2, AtJoint
  <1>5. /\ \A i \in DOMAIN cut : \E p \in DOMAIN subst : At(text, i, p)
        /\ \A p \in DOMAIN subst : \A i :
               At(text, i, p) =>
                   i \in DOMAIN cut /\ cut[i].length = Len(p) + 2 /\ cut[i].new = subst[p]
    BY DEF IsCut
  <1>6. /\ \A i : i \in DOMAIN c <=> i \in DOMAIN cut /\ i <= Len(u)
        /\ \A i \in DOMAIN c : c[i] = cut[i]
    OBVIOUS
  <1> HIDE DEF c
  <1>7. IsCut(u, subst, c)
    <2>1. ASSUME NEW i \in DOMAIN c PROVE \E p \in DOMAIN subst : At(u, i, p)
      BY <1>4, <1>5, <1>6
    <2>2. ASSUME NEW p \in DOMAIN subst, NEW i, At(u, i, p)
          PROVE  i \in DOMAIN c /\ c[i].length = Len(p) + 2 /\ c[i].new = subst[p]
      BY <1>4, <1>5, <1>6, <2>2
    <2>3. QED
      BY <2>1, <2>2, Zenon DEF IsCut
  <1>8. NewTexts(cut, S) /\ NewTexts(c, S)
    BY <1>7, CutTexts
  <1>9. PICK l \in Seq(Seq(S)), r \in Seq(Seq(S)) : Spliced(text, cut, Len(u), l, r)
    <2>1. Len(u) \in 0..Len(text)
      BY <1>1, <1>2
    <2>2. QED
      BY <1>8, <2>1, SpliceCut
  <1>10. /\ Len(l) = Len(u) /\ \A i \in 1..Len(u) : l[i] = PieceAt(text, cut, i)
         /\ Len(r) = Len(it) /\ \A k \in 1..Len(it) : r[k] = PieceAt(text, cut, Len(u) + k)
         /\ Splice(text, cut) = FlattenSeq(l) \o FlattenSeq(r)
    <2>1. Len(text) - Len(u) = Len(it)
      BY <1>1, <1>2
    <2>2. QED
      BY <1>9, <2>1, Zenon DEF Spliced
  <1>11. FlattenSeq(l) = Splice(u, c)
    <2>1. PICK pp \in Seq(Seq(S)) :
              /\ pp = Pieces(u, c) /\ Len(pp) = Len(u)
              /\ \A i \in 1..Len(u) : pp[i] = PieceAt(u, c, i)
      <3>1. /\ Pieces(u, c) \in Seq(Seq(S)) /\ Len(Pieces(u, c)) = Len(u)
            /\ \A i \in 1..Len(u) : Pieces(u, c)[i] = PieceAt(u, c, i)
        BY <1>8, PiecesType
      <3>2. QED
        BY <3>1, Zenon
    <2>2. ASSUME NEW i \in 1..Len(u) PROVE PieceAt(text, cut, i) = PieceAt(u, c, i)
      <3>1. i \in Nat /\ i <= Len(u)
        BY <1>1
      <3>2. i \in DOMAIN cut <=> i \in DOMAIN c
        BY <1>6, <3>1
      <3>3. ASSUME NEW j \in DOMAIN cut, j < i PROVE j \in DOMAIN c
        <4>1. j \in Nat
          BY <1>5 DEF At
        <4>2. QED
          BY <1>1, <1>6, <3>1, <3>3, <4>1
      <3>4. Within(cut, i) <=> Within(c, i)
        BY <1>6, <3>3, Zenon DEF Within
      <3>5. QED
        BY <1>2, <1>6, <3>2, <3>4, Zenon DEF PieceAt
    <2>3. l = pp
      <3>1. Len(l) = Len(pp) /\ \A i \in 1..Len(l) : l[i] = pp[i]
        BY <1>10, <2>1, <2>2, Zenon
      <3>2. QED
        BY <3>1, SeqEqual
    <2>4. QED
      BY <2>1, <2>3, SpliceIsFlatten, Zenon
  <1>12. ASSUME NEW k \in 1..Len(it), NEW j \in DOMAIN cut, j < Len(u) + k,
                Len(u) + k < j + cut[j].length
         PROVE  j = Len(u) + 1
    <2>1. PICK p \in DOMAIN subst : At(text, j, p)
      BY <1>5
    <2>2. cut[j].length = Len(p) + 2 /\ Len(p) \in Nat
      BY <1>3, <1>5, <2>1
    <2>3. SUFFICES ASSUME j <= Len(u) PROVE FALSE
      BY <1>4, <2>1
    <2>4. At(u, j, p)
      BY <1>4, <2>1, <2>3
    <2>5. j \in Nat /\ j + Len(p) + 1 <= Len(u)
      BY <2>4 DEF At
    <2>6. QED
      BY <1>1, <1>12, <2>2, <2>5
  <1>13. ASSUME NEW k \in 1..Len(it), Len(u) + k \in DOMAIN cut
         PROVE  k = 1 /\ \E p \in DOMAIN subst : it = Pattern(p)
    <2>1. PICK p \in DOMAIN subst : At(text, Len(u) + k, p)
      BY <1>5, <1>13
    <2>2. ~ (Len(u) + k <= Len(u))
      BY <1>1
    <2>3. Len(u) + k = Len(u) + 1 /\ it = Pattern(p)
      BY <1>4, <2>1, <2>2
    <2>4. QED
      BY <1>1, <2>3
  <1>14. FlattenSeq(r) = SwapItem(it, subst)
    <2>1. CASE ~ \E p \in DOMAIN subst : it = Pattern(p)
      <3>1. ASSUME NEW k \in 1..Len(it) PROVE r[k] = <<it[k]>>
        <4>1. Len(u) + k \notin DOMAIN cut
          BY <1>13, <2>1
        <4>2. ~ Within(cut, Len(u) + k)
          <5>1. SUFFICES ASSUME NEW j \in DOMAIN cut, j < Len(u) + k,
                                Len(u) + k < j + cut[j].length
                         PROVE  FALSE
            BY DEF Within
          <5>2. j = Len(u) + 1
            BY <1>12, <5>1
          <5>3. 1 \in 1..Len(it)
            BY <1>1
          <5>4. QED
            BY <1>13, <2>1, <5>2, <5>3
        <4>3. QED
          BY <1>2, <1>10, <4>1, <4>2, Zenon DEF PieceAt
      <3>2. FlattenSeq(r) = it
        BY <1>1, <1>10, <3>1, FlattenSingles
      <3>3. SwapItem(it, subst) = it
        BY <2>1, Zenon DEF SwapItem
      <3>4. QED
        BY <3>2, <3>3
    <2>2. CASE \E p \in DOMAIN subst : it = Pattern(p)
      <3>1. PICK p \in DOMAIN subst : it = Pattern(p)
        BY <2>2
      <3>2. p \in Plains(S) /\ p \in Seq(S) /\ Len(p) \in Nat
        BY <1>3, PlainFacts
      <3>3. Len(it) = Len(p) + 2
        BY <3>1, <3>2, PatternType
      <3>4. At(text, Len(u) + 1, p)
        BY <1>4, <3>1
      <3>5. /\ Len(u) + 1 \in DOMAIN cut /\ cut[Len(u) + 1].length = Len(p) + 2
            /\ cut[Len(u) + 1].new = subst[p]
        BY <1>5, <3>4
      <3>6. r[1] = subst[p]
        <4>1. 1 \in 1..Len(it)
          BY <3>2, <3>3
        <4>2. QED
          BY <1>10, <3>5, <4>1, Zenon DEF PieceAt
      <3>7. ASSUME NEW k \in 2..Len(r) PROVE r[k] = <<>>
        <4>1. k \in 1..Len(it) /\ k # 1
          BY <1>1, <1>10
        <4>2. Len(u) + k \notin DOMAIN cut
          BY <1>13, <4>1
        <4>3. Len(u) + 1 < Len(u) + k /\ Len(u) + k < (Len(u) + 1) + (Len(p) + 2)
          BY <1>1, <1>10, <3>2, <3>3, <4>1
        <4>4. Within(cut, Len(u) + k)
          BY <3>5, <4>3, Zenon DEF Within
        <4>5. QED
          BY <1>10, <4>1, <4>2, <4>4, Zenon DEF PieceAt
      <3>8. Len(r) >= 1
        BY <1>10, <3>2, <3>3
      <3>9. FlattenSeq(r) = r[1]
        BY <3>7, <3>8, FlattenFirst
      <3>10. SwapItem(it, subst) = subst[p]
        BY <3>1, SwapFacts
      <3>11. QED
        BY <3>6, <3>9, <3>10, Zenon
    <2>3. QED
      BY <2>1, <2>2
  <1>15. CutShort(text, cut, u, it, subst, c)
    BY <1>7, <1>10, <1>11, <1>14, Zenon DEF CutShort
  <1>16. QED
    BY <1>15, Zenon

(* What an item becomes is a text. *)
LEMMA SwapType ==
    ASSUME NEW S, Brackets \subseteq S, NEW it \in Items(S), NEW subst, PlainSubst(subst, S)
    PROVE  SwapItem(it, subst) \in Seq(S)
PROOF
  <1>1. \A p \in DOMAIN subst : subst[p] \in Seq(S)
    BY DEF PlainSubst
  <1>2. CASE \E p \in DOMAIN subst : it = Pattern(p)
    <2>1. PICK p \in DOMAIN subst : it = Pattern(p)
      BY <1>2
    <2>2. SwapItem(it, subst) = subst[p]
      BY <2>1, SwapFacts
    <2>3. QED
      BY <1>1, <2>2
  <1>3. CASE ~ \E p \in DOMAIN subst : it = Pattern(p)
    <2>1. SwapItem(it, subst) = it
      BY <1>3, Zenon DEF SwapItem
    <2>2. QED
      BY <2>1, ItemsAreTexts
  <1>4. QED
    BY <1>2, <1>3

(* What each item becomes. *)
LEMMA SwappedType ==
    ASSUME NEW S, Brackets \subseteq S, NEW items \in Seq(Items(S)), NEW subst, PlainSubst(subst, S)
    PROVE  /\ Swapped(items, subst) \in Seq(Seq(S))
           /\ Len(Swapped(items, subst)) = Len(items)
           /\ \A j \in 1..Len(items) : Swapped(items, subst)[j] = SwapItem(items[j], subst)
PROOF
  <1>1. DOMAIN items = 1..Len(items) /\ Len(items) \in Nat
    BY LenProperties
  <1>2. ASSUME NEW it \in Items(S) PROVE SwapItem(it, subst) \in Seq(S)
    BY SwapType
  <1>3. \A j \in 1..Len(items) : items[j] \in Items(S)
    BY ElementOfSeq
  <1>4. \A j \in 1..Len(items) : SwapItem(items[j], subst) \in Seq(S)
    BY <1>2, <1>3
  <1>5. QED
    BY <1>1, <1>4 DEF Swapped

(* With one item more. *)
LEMMA SwappedAppend ==
    ASSUME NEW S, Brackets \subseteq S, NEW items \in Seq(Items(S)), NEW it \in Items(S),
           NEW subst, PlainSubst(subst, S)
    PROVE  Swapped(Append(items, it), subst) = Append(Swapped(items, subst), SwapItem(it, subst))
PROOF
  <1>1. PICK more \in Seq(Items(S)) :
            /\ more = Append(items, it) /\ Len(more) = Len(items) + 1
            /\ \A j \in 1..Len(items) : more[j] = items[j]
            /\ more[Len(items) + 1] = it
    <2>1. /\ Append(items, it) \in Seq(Items(S)) /\ Len(Append(items, it)) = Len(items) + 1
          /\ \A j \in 1..Len(items) : Append(items, it)[j] = items[j]
          /\ Append(items, it)[Len(items) + 1] = it
      BY AppendProperties
    <2>2. QED
      BY <2>1, Zenon
  <1>2. PICK a : a = Swapped(items, subst)
    OBVIOUS
  <1>3. PICK b : b = Swapped(more, subst)
    OBVIOUS
  <1>4. /\ a \in Seq(Seq(S)) /\ Len(a) = Len(items)
        /\ \A j \in 1..Len(items) : a[j] = SwapItem(items[j], subst)
    BY <1>2, SwappedType
  <1>5. /\ b \in Seq(Seq(S)) /\ Len(b) = Len(items) + 1
        /\ \A j \in 1..(Len(items) + 1) : b[j] = SwapItem(more[j], subst)
    BY <1>1, <1>3, SwappedType
  <1>6. PICK x \in Seq(S) : x = SwapItem(it, subst)
    <2>1. Len(items) + 1 \in 1..(Len(items) + 1)
      BY LenProperties
    <2>2. b[Len(items) + 1] \in Seq(S)
      BY <1>5, <2>1, ElementOfSeq
    <2>3. QED
      BY <1>1, <1>5, <2>1, <2>2
  <1>7. PICK d \in Seq(Seq(S)) :
            /\ d = Append(a, x) /\ Len(d) = Len(items) + 1
            /\ \A j \in 1..Len(items) : d[j] = a[j]
            /\ d[Len(items) + 1] = x
    <2>1. /\ Append(a, x) \in Seq(Seq(S)) /\ Len(Append(a, x)) = Len(a) + 1
          /\ \A j \in 1..Len(a) : Append(a, x)[j] = a[j]
          /\ Append(a, x)[Len(a) + 1] = x
      <3>1. a \in Seq(Seq(S))
        BY <1>4
      <3>2. QED
        BY <3>1, AppendProperties
    <2>2. QED
      BY <1>4, <2>1, Zenon
  <1>8. ASSUME NEW j \in 1..Len(b) PROVE b[j] = d[j]
    <2>1. j \in 1..(Len(items) + 1) /\ Len(items) \in Nat
      BY <1>5, LenProperties
    <2>2. j \in 1..Len(items) \/ j = Len(items) + 1
      BY <2>1
    <2>3. QED
      BY <1>1, <1>4, <1>5, <1>6, <1>7, <2>1, <2>2, Zenon
  <1>9. b = d
    <2>1. b \in Seq(Seq(S)) /\ Len(b) = Len(d)
      BY <1>5, <1>7
    <2>2. QED
      BY <1>8, <2>1, SeqEqual
  <1>10. QED
    BY <1>1, <1>2, <1>3, <1>6, <1>7, <1>9, Zenon

(* The text of some items is closed, its placeholders are those among the  *)
(* items, and they are replaced by replacing the items.                    *)
LEMMA ReplaceItems ==
    ASSUME NEW S, Brackets \subseteq S, NEW items \in Seq(Items(S))
    PROVE  /\ FlattenSeq(items) \in Seq(S) /\ Closed(FlattenSeq(items))
           /\ \A p \in Plains(S) :
                  (\E i : At(FlattenSeq(items), i, p)) <=>
                      (\E j \in 1..Len(items) : items[j] = Pattern(p))
           /\ \A subst, cut :
                  PlainSubst(subst, S) /\ IsCut(FlattenSeq(items), subst, cut) =>
                      Splice(FlattenSeq(items), cut) = FlattenSeq(Swapped(items, subst))
PROOF
  <1> DEFINE Has(u, tt) == \A p \in Plains(S) :
                 (\E i : At(u, i, p)) <=> (\E j \in 1..Len(tt) : tt[j] = Pattern(p))
             Swap(u, tt) == \A subst, cut :
                 PlainSubst(subst, S) /\ IsCut(u, subst, cut) =>
                     Splice(u, cut) = FlattenSeq(Swapped(tt, subst))
             Good(tt) == /\ FlattenSeq(tt) \in Seq(S) /\ Closed(FlattenSeq(tt))
                         /\ Has(FlattenSeq(tt), tt) /\ Swap(FlattenSeq(tt), tt)
             T == {tt \in Seq(Items(S)) : Good(tt)}
  <1>1. <<>> \in T
    <2>1. FlattenSeq(<<>>) = <<>> /\ <<>> \in Seq(S) /\ Len(<<>>) = 0 /\ <<>> \in Seq(Items(S))
      BY FlattenEmpty, EmptySeq
    <2>2. Closed(<<>>)
      BY <2>1 DEF Closed
    <2>3. Has(<<>>, <<>>)
      BY <2>1 DEF At
    <2>4. ASSUME NEW subst, NEW cut, PlainSubst(subst, S), IsCut(<<>>, subst, cut)
          PROVE  Splice(<<>>, cut) = FlattenSeq(Swapped(<<>>, subst))
      <3>1. Pieces(<<>>, cut) = <<>> /\ Swapped(<<>>, subst) = <<>>
        BY DEF Pieces, Swapped
      <3>2. QED
        BY <3>1, SpliceIsFlatten, Zenon
    <2>5. QED
      BY <2>1, <2>2, <2>3, <2>4
  <1>2. ASSUME NEW tt \in Seq(Items(S)), NEW it \in Items(S), tt \in T PROVE Append(tt, it) \in T
    <2>1. Good(tt) /\ tt \in Seq(Seq(S)) /\ it \in Seq(S)
      BY <1>2, ItemsAreTexts, SeqMonotonic
    <2>2. PICK u \in Seq(S) : u = FlattenSeq(tt)
      BY <2>1
    <2>3. Closed(u) /\ Has(u, tt) /\ Swap(u, tt)
      BY <2>1, <2>2
    <2>4. PICK text \in Seq(S) : text = u \o it /\ Joint(text, u, it)
      BY <2>1, JointConcat
    <2>5. FlattenSeq(Append(tt, it)) = text
      BY <2>1, <2>2, <2>4, FlattenAppend
    <2>6. Closed(text)
      BY <2>3, <2>4, ClosedJoint
    <2>7. /\ Append(tt, it) \in Seq(Items(S)) /\ Len(Append(tt, it)) = Len(tt) + 1
          /\ \A j \in 1..Len(tt) : Append(tt, it)[j] = tt[j]
          /\ Append(tt, it)[Len(tt) + 1] = it
          /\ Len(tt) \in Nat
      BY AppendProperties, LenProperties
    <2>8. ASSUME NEW p \in Plains(S)
          PROVE  (\E i : At(text, i, p)) <=>
                     (\E j \in 1..Len(Append(tt, it)) : Append(tt, it)[j] = Pattern(p))
      <3>1. \A i : /\ At(u, i, p) => At(text, i, p)
                   /\ At(text, i, p) /\ i <= Len(u) => At(u, i, p)
                   /\ At(text, i, p) /\ ~ (i <= Len(u)) => i = Len(u) + 1 /\ it = Pattern(p)
                   /\ it = Pattern(p) => At(text, Len(u) + 1, p)
        BY <2>3, <2>4, AtJoint
      <3>2. (\E i : At(text, i, p)) <=> (\E i : At(u, i, p)) \/ it = Pattern(p)
        BY <3>1, Zenon
      <3>3. (\E j \in 1..Len(Append(tt, it)) : Append(tt, it)[j] = Pattern(p)) <=>
                (\E j \in 1..Len(tt) : tt[j] = Pattern(p)) \/ it = Pattern(p)
        <4>1. /\ \A j \in 1..(Len(tt) + 1) : j \in 1..Len(tt) \/ j = Len(tt) + 1
              /\ \A j \in 1..Len(tt) : j \in 1..(Len(tt) + 1)
              /\ Len(tt) + 1 \in 1..(Len(tt) + 1)
          BY <2>7
        <4>2. QED
          BY <2>7, <4>1, Zenon
      <3>4. QED
        BY <2>3, <3>2, <3>3, Zenon
    <2>9. ASSUME NEW subst, NEW cut, PlainSubst(subst, S), IsCut(text, subst, cut)
          PROVE  Splice(text, cut) = FlattenSeq(Swapped(Append(tt, it), subst))
      <3> HIDE DEF Has, Swap, Good, T
      <3>1. PICK c : /\ IsCut(u, subst, c)
                     /\ Splice(text, cut) = Splice(u, c) \o SwapItem(it, subst)
        <4>1. Joint(text, u, it) /\ Closed(u) /\ PlainSubst(subst, S) /\ IsCut(text, subst, cut)
          BY <2>3, <2>4, <2>9
        <4>2. \E c : CutShort(text, cut, u, it, subst, c)
          BY <4>1, SpliceJoint
        <4>3. QED
          BY <4>2, Zenon DEF CutShort
      <3>2. Splice(u, c) = FlattenSeq(Swapped(tt, subst))
        BY <2>3, <2>9, <3>1, Zenon DEF Swap
      <3>3. Swapped(Append(tt, it), subst) = Append(Swapped(tt, subst), SwapItem(it, subst))
        BY <2>9, SwappedAppend
      <3>4. Swapped(tt, subst) \in Seq(Seq(S)) /\ SwapItem(it, subst) \in Seq(S)
        BY <2>9, SwappedType, SwapType
      <3>5. FlattenSeq(Append(Swapped(tt, subst), SwapItem(it, subst))) =
                FlattenSeq(Swapped(tt, subst)) \o SwapItem(it, subst)
        BY <3>4, FlattenAppend
      <3>6. QED
        BY <3>1, <3>2, <3>3, <3>5, Zenon
    <2>10. QED
      BY <2>5, <2>6, <2>7, <2>8, <2>9
  <1>3. Seq(Items(S)) \subseteq T
    <2> HIDE DEF T
    <2>1. QED
      BY <1>1, <1>2, InductionOnSeq
  <1>4. QED
    BY <1>3

(* A text of items. *)
Itemized(text, S) == \E items \in Seq(Items(S)) : FlattenSeq(items) = text

(* One item more. *)
LEMMA ItemizedJoint ==
    ASSUME NEW S, Brackets \subseteq S, NEW u \in Seq(S), NEW it \in Items(S), NEW text \in Seq(S),
           Joint(text, u, it), Itemized(u, S)
    PROVE  Itemized(text, S)
PROOF
  <1>1. PICK items \in Seq(Items(S)) : FlattenSeq(items) = u
    BY DEF Itemized
  <1>2. it \in Seq(S) /\ items \in Seq(Seq(S))
    BY ItemsAreTexts, SeqMonotonic
  <1>3. PICK both \in Seq(S) : both = u \o it /\ Joint(both, u, it)
    BY <1>2, JointConcat
  <1>4. Len(u) \in Nat /\ Len(it) \in Nat /\ Len(text) \in Nat
    BY <1>2, LenProperties
  <1>5. /\ Len(text) = Len(u) + Len(it) /\ Len(both) = Len(u) + Len(it)
        /\ \A i \in 1..Len(u) : text[i] = u[i] /\ both[i] = u[i]
        /\ \A k \in 1..Len(it) : text[Len(u) + k] = it[k] /\ both[Len(u) + k] = it[k]
    BY <1>3 DEF Joint
  <1>6. ASSUME NEW i \in 1..Len(text) PROVE text[i] = both[i]
    <2>1. CASE i <= Len(u)
      <3>1. i \in 1..Len(u)
        BY <1>4, <2>1
      <3>2. QED
        BY <1>5, <3>1
    <2>2. CASE ~ (i <= Len(u))
      <3>1. i - Len(u) \in 1..Len(it) /\ Len(u) + (i - Len(u)) = i
        BY <1>4, <1>5, <2>2
      <3>2. QED
        BY <1>5, <3>1
    <2>3. QED
      BY <2>1, <2>2
  <1>7. text = both
    BY <1>5, <1>6, SeqEqual
  <1>8. Append(items, it) \in Seq(Items(S))
    BY AppendProperties
  <1>9. FlattenSeq(Append(items, it)) = FlattenSeq(items) \o it
    BY <1>2, FlattenAppend
  <1>10. QED
    BY <1>1, <1>3, <1>7, <1>8, <1>9, Zenon DEF Itemized

(* The first m characters, if no pair of brackets stands around their end. *)
LEMMA PrefixWellBracketed ==
    ASSUME NEW S, NEW text \in Seq(S), WellBracketed(text), NEW m \in 0..Len(text),
           \A i \in 1..m : \A j \in (m + 1)..Len(text) : ~ Pair(text, i, j)
    PROVE  \E u \in Seq(S) : /\ Len(u) = m /\ \A i \in 1..m : u[i] = text[i]
                             /\ WellBracketed(u)
PROOF
  <1>1. /\ Len(text) \in Nat /\ DOMAIN text = 1..Len(text)
        /\ \A i \in 1..Len(text) : text[i] \in S
    BY LenProperties, ElementOfSeq
  <1>2. PICK u : u = [i \in 1..m |-> text[i]]
    OBVIOUS
  <1>3. u \in Seq(S) /\ Len(u) = m /\ DOMAIN u = 1..m /\ \A i \in 1..m : u[i] = text[i]
    BY <1>1, <1>2
  <1>4. ASSUME NEW i \in 1..m, NEW j \in 1..m, Pair(text, i, j) PROVE Pair(u, i, j)
    <2>1. \A k \in (i + 1)..(j - 1) : k \in 1..m
      BY <1>1
    <2>2. QED
      BY <1>3, <1>4, <2>1 DEF Pair
  <1>5. \A i \in 1..m : i \in 1..Len(text)
    BY <1>1
  <1>6. ASSUME NEW i \in 1..m, u[i] = "<" PROVE \E j \in DOMAIN u : Pair(u, i, j)
    <2>1. PICK j \in 1..Len(text) : Pair(text, i, j)
      BY <1>1, <1>3, <1>5, <1>6 DEF WellBracketed
    <2>2. j \in 1..m
      <3>1. j \in (m + 1)..Len(text) \/ j \in 1..m
        BY <1>1
      <3>2. QED
        BY <2>1, <3>1
    <2>3. QED
      BY <1>3, <1>4, <2>1, <2>2
  <1>7. ASSUME NEW j \in 1..m, u[j] = ">" PROVE \E i \in DOMAIN u : Pair(u, i, j)
    <2>1. PICK i \in 1..Len(text) : Pair(text, i, j)
      BY <1>1, <1>3, <1>5, <1>7 DEF WellBracketed
    <2>2. i < j
      BY <2>1 DEF Pair
    <2>3. i \in 1..m
      BY <1>1, <2>2
    <2>4. QED
      BY <1>3, <1>4, <2>1, <2>3
  <1>8. WellBracketed(u)
    BY <1>3, <1>6, <1>7 DEF WellBracketed
  <1>9. QED
    BY <1>3, <1>8, Zenon

(* A well-bracketed text is one of items. *)
LEMMA WellBracketedItems ==
    ASSUME NEW S, Brackets \subseteq S, NEW text \in Seq(S), WellBracketed(text)
    PROVE  Itemized(text, S)
PROOF
  <1> DEFINE Short(n) == \A t \in Seq(S) : Len(t) <= n /\ WellBracketed(t) => Itemized(t, S)
             N == {n \in Nat : Short(n)}
  <1>1. 0 \in N
    <2>1. ASSUME NEW t \in Seq(S), Len(t) <= 0 PROVE Itemized(t, S)
      <3>1. t = <<>>
        BY <2>1, LenProperties, EmptySeq
      <3>2. <<>> \in Seq(Items(S)) /\ FlattenSeq(<<>>) = <<>>
        BY EmptySeq, FlattenEmpty
      <3>3. QED
        BY <3>1, <3>2, Zenon DEF Itemized
    <2>2. QED
      BY <2>1
  <1>2. ASSUME NEW n \in Nat, n \in N PROVE n + 1 \in N
    <2>1. SUFFICES ASSUME NEW t \in Seq(S), Len(t) <= n + 1, WellBracketed(t) PROVE Itemized(t, S)
      OBVIOUS
    <2>2. Short(n)
      BY <1>2
    <2> HIDE DEF Short, N
    <2>3. /\ Len(t) \in Nat /\ DOMAIN t = 1..Len(t)
          /\ \A i \in 1..Len(t) : t[i] \in S
      BY LenProperties, ElementOfSeq
    <2>4. CASE Len(t) <= n
      BY <2>1, <2>2, <2>4 DEF Short
    <2>5. CASE ~ (Len(t) <= n)
      <3>1. Len(t) = n + 1 /\ n + 1 \in 1..Len(t)
        <4>1. Len(t) <= n + 1 /\ Len(t) \in Nat /\ ~ (Len(t) <= n)
          BY <2>1, <2>3, <2>5
        <4>2. Len(t) = n + 1
          BY <4>1
        <4>3. QED
          BY <4>2
      <3>2. ASSUME NEW m \in 0..n, NEW it \in Items(S), m + Len(it) = n + 1,
                   \A k \in 1..Len(it) : t[m + k] = it[k],
                   \A i \in 1..m : \A j \in (m + 1)..Len(t) : ~ Pair(t, i, j)
            PROVE  Itemized(t, S)
        <4>1. PICK u \in Seq(S) : /\ Len(u) = m /\ \A i \in 1..m : u[i] = t[i]
                                  /\ WellBracketed(u)
          <5>1. m \in 0..Len(t)
            BY <3>1
          <5>2. WellBracketed(t)
            BY <2>1
          <5>3. \A i \in 1..m : \A j \in (m + 1)..Len(t) : ~ Pair(t, i, j)
            BY <3>2
          <5>4. QED
            BY <5>1, <5>2, <5>3, PrefixWellBracketed
        <4>2. Len(u) <= n
          BY <4>1
        <4>3. Itemized(u, S)
          BY <2>2, <4>1, <4>2 DEF Short
        <4>4. Joint(t, u, it)
          BY <3>1, <3>2, <4>1 DEF Joint
        <4>5. QED
          BY <4>3, <4>4, ItemizedJoint
      <3>3. CASE t[n + 1] \notin Brackets
        <4> DEFINE it == <<t[n + 1]>>
        <4>1. it \in Seq(S) /\ Len(it) = 1 /\ it[1] = t[n + 1] /\ DOMAIN it = 1..1
          BY <2>3, <3>1
        <4> HIDE DEF it
        <4>2. it \in Items(S)
          BY <3>3, <4>1 DEF Items, Plains, IsPlain
        <4>3. ASSUME NEW i \in 1..n, NEW j \in (n + 1)..Len(t) PROVE ~ Pair(t, i, j)
          <5>1. j = n + 1
            BY <3>1
          <5>2. QED
            BY <3>3, <5>1 DEF Pair, Brackets
        <4>4. \A k \in 1..Len(it) : t[n + k] = it[k]
          BY <4>1
        <4>5. n \in 0..n
          OBVIOUS
        <4>6. QED
          BY <3>2, <4>1, <4>2, <4>3, <4>4, <4>5
      <3>4. CASE t[n + 1] = "<"
        <4>1. PICK j \in 1..Len(t) : Pair(t, n + 1, j)
          BY <2>1, <2>3, <3>1, <3>4 DEF WellBracketed
        <4>2. QED
          BY <3>1, <4>1 DEF Pair
      <3>5. CASE t[n + 1] = ">"
        <4>1. PICK a \in 1..Len(t) : Pair(t, a, n + 1)
          BY <2>1, <2>3, <3>1, <3>5 DEF WellBracketed
        <4>2. /\ a < n + 1 /\ t[a] = "<"
              /\ \A k \in (a + 1)..n : t[k] # "<" /\ t[k] # ">"
          BY <4>1 DEF Pair, Brackets
        <4>3. a \in 1..n
          BY <3>1, <4>2
        <4>4. PICK d \in Nat : d = n - a
          BY <4>3
        <4>5. PICK w \in Seq(S) : Len(w) = d /\ \A k \in 1..d : w[k] = t[a + k]
          <5>1. \A k \in 1..d : a + k \in 1..Len(t)
            BY <3>1, <4>3, <4>4
          <5>2. \A k \in 1..d : t[a + k] \in S
            BY <2>3, <5>1
          <5>3. PICK w : w = [k \in 1..d |-> t[a + k]]
            OBVIOUS
          <5>4. w \in Seq(S) /\ Len(w) = d /\ \A k \in 1..d : w[k] = t[a + k]
            BY <5>2, <5>3
          <5>5. QED
            BY <5>4, Zenon
        <4>6. w \in Plains(S)
          <5>1. \A k \in 1..d : a + k \in (a + 1)..n
            BY <4>3, <4>4
          <5>2. DOMAIN w = 1..d
            BY <4>5, LenProperties
          <5>3. QED
            BY <4>2, <4>5, <5>1, <5>2 DEF Plains, IsPlain, Brackets
        <4>7. PICK it \in Items(S) :
                  /\ it = Pattern(w) /\ Len(it) = d + 2
                  /\ it[1] = "<" /\ it[d + 2] = ">"
                  /\ \A k \in 1..d : it[k + 1] = w[k]
          <5>1. Pattern(w) \in Items(S)
            BY <4>6 DEF Items
          <5>2. /\ Len(Pattern(w)) = d + 2
                /\ Pattern(w)[1] = "<" /\ Pattern(w)[d + 2] = ">"
                /\ \A k \in 1..d : Pattern(w)[k + 1] = w[k]
            <6>1. /\ Len(Pattern(w)) = Len(w) + 2
                  /\ Pattern(w)[1] = "<" /\ Pattern(w)[Len(w) + 2] = ">"
                  /\ \A k \in 1..Len(w) : Pattern(w)[k + 1] = w[k]
              BY PatternType
            <6>2. QED
              BY <4>5, <6>1, Zenon
          <5>3. QED
            BY <5>1, <5>2, Zenon
        <4>8. PICK m \in 0..n : m = a - 1
          BY <4>3
        <4>9. ASSUME NEW k \in 1..Len(it) PROVE t[m + k] = it[k]
          <5>1. k = 1 \/ k = d + 2 \/ k - 1 \in 1..d
            BY <4>4, <4>7
          <5>2. CASE k = 1
            BY <4>2, <4>3, <4>7, <4>8, <5>2
          <5>3. CASE k = d + 2
            <6>1. m + k = n + 1
              BY <4>3, <4>4, <4>8, <5>3
            <6>2. QED
              BY <3>5, <4>7, <5>3, <6>1
          <5>4. CASE k - 1 \in 1..d
            <6>1. m + k = a + (k - 1) /\ (k - 1) + 1 = k
              BY <4>3, <4>7, <4>8
            <6>2. QED
              BY <4>5, <4>7, <5>4, <6>1
          <5>5. QED
            BY <5>1, <5>2, <5>3, <5>4
        <4>10. ASSUME NEW i \in 1..m, NEW j \in (m + 1)..Len(t) PROVE ~ Pair(t, i, j)
          <5>1. j = a \/ a \in (i + 1)..(j - 1)
            BY <2>3, <4>3, <4>8
          <5>2. QED
            BY <4>2, <5>1 DEF Pair, Brackets
        <4>11. m + Len(it) = n + 1
          BY <4>3, <4>4, <4>7, <4>8
        <4>12. QED
          BY <3>2, <4>9, <4>10, <4>11
      <3>6. QED
        BY <3>3, <3>4, <3>5 DEF Brackets
    <2>6. QED
      BY <2>4, <2>5
  <1>3. Nat \subseteq N
    <2> HIDE DEF N
    <2>1. QED
      BY <1>1, <1>2, Induction
  <1>4. Short(Len(text)) /\ Len(text) <= Len(text)
    BY <1>3, LenProperties
  <1>5. QED
    BY <1>4

(* ReplaceText gives a text. *)
LEMMA ReplaceTextType ==
    ASSUME NEW S, NEW text \in Seq(S), NEW old, NEW v \in Seq(S)
    PROVE  ReplaceText(text, old, v) \in Seq(S)
PROOF
  <1> DEFINE cut == [i \in Replaced(text, old) |-> [length |-> Len(old), new |-> v]]
  <1>1. NewTexts(cut, S)
    BY DEF NewTexts
  <1>2. ReplaceText(text, old, v) = Splice(text, cut)
    BY DEF ReplaceText
  <1> HIDE DEF cut
  <1>3. QED
    BY <1>1, <1>2, SpliceType

(* A placeholder occurs in a text that has it in the middle. *)
LEMMA OccursBetween ==
    ASSUME NEW S, Brackets \subseteq S, NEW a \in Seq(S), NEW b \in Seq(S), NEW p \in Seq(S)
    PROVE  Occurs(a \o (Pattern(p) \o b), Pattern(p))
PROOF
  <1>1. PICK q \in Seq(S) :
            /\ q = Pattern(p) /\ Len(q) = Len(p) + 2
            /\ q[1] = "<" /\ q[Len(p) + 2] = ">"
            /\ \A k \in 1..Len(p) : q[k + 1] = p[k]
    <2>1. /\ Pattern(p) \in Seq(S) /\ Len(Pattern(p)) = Len(p) + 2
          /\ Pattern(p)[1] = "<" /\ Pattern(p)[Len(p) + 2] = ">"
          /\ \A k \in 1..Len(p) : Pattern(p)[k + 1] = p[k]
      BY PatternType
    <2>2. QED
      BY <2>1, Zenon
  <1>2. PICK qb \in Seq(S) : qb = q \o b /\ Joint(qb, q, b)
    BY JointConcat
  <1>3. PICK text \in Seq(S) : text = a \o qb /\ Joint(text, a, qb)
    BY JointConcat
  <1>4. Len(a) \in Nat /\ Len(b) \in Nat /\ Len(p) \in Nat
    BY LenProperties
  <1>5. Len(qb) = Len(p) + 2 + Len(b) /\ \A k \in 1..(Len(p) + 2) : qb[k] = q[k]
    BY <1>1, <1>2 DEF Joint
  <1>6. Len(text) = Len(a) + Len(qb) /\ \A k \in 1..Len(qb) : text[Len(a) + k] = qb[k]
    BY <1>3 DEF Joint
  <1>7. \A k \in 1..(Len(p) + 2) : text[Len(a) + k] = q[k]
    BY <1>4, <1>5, <1>6
  <1>8. At(text, Len(a) + 1, p)
    <2>1. Len(a) + 1 \in 1..Len(text) /\ Len(a) + 1 + Len(p) + 1 <= Len(text)
      BY <1>4, <1>5, <1>6
    <2>2. text[Len(a) + 1] = "<"
      BY <1>1, <1>4, <1>7
    <2>3. text[Len(a) + 1 + Len(p) + 1] = ">"
      <3>1. Len(a) + 1 + Len(p) + 1 = Len(a) + (Len(p) + 2) /\ Len(p) + 2 \in 1..(Len(p) + 2)
        BY <1>4
      <3>2. QED
        BY <1>1, <1>7, <3>1
    <2>4. ASSUME NEW k \in 1..Len(p) PROVE text[Len(a) + 1 + k] = p[k]
      <3>1. Len(a) + 1 + k = Len(a) + (k + 1) /\ k + 1 \in 1..(Len(p) + 2)
        BY <1>4
      <3>2. QED
        BY <1>1, <1>7, <3>1
    <2>5. QED
      BY <2>1, <2>2, <2>3, <2>4 DEF At
  <1>9. Len(a) + 1 \in Occurrences(text, Pattern(p))
    BY <1>8, OccurrenceIsAt
  <1>10. QED
    BY <1>1, <1>2, <1>3, <1>9, Zenon DEF Occurs

(* Replacing one placeholder leaves the others where they stand, whatever  *)
(* the value.                                                              *)
LEMMA ReplaceKeeps ==
    ASSUME NEW S, Brackets \subseteq S, NEW text \in Seq(S), NEW p \in Plains(S), NEW q \in Plains(S),
           p # q, NEW v \in Seq(S), Occurs(text, Pattern(p))
    PROVE  Occurs(ReplaceText(text, Pattern(q), v), Pattern(p))
PROOF
  <1>1. p \in Seq(S) /\ Len(p) \in Nat /\ q \in Seq(S) /\ Len(q) \in Nat /\ Len(text) \in Nat
    BY PlainFacts, LenProperties
  <1>2. PICK i : At(text, i, p)
    <2>1. PICK i : i \in Occurrences(text, Pattern(p))
      BY DEF Occurs
    <2>2. QED
      BY <1>1, <2>1, OccurrenceIsAt
  <1>3. /\ i \in 1..Len(text) /\ i + Len(p) + 1 <= Len(text)
        /\ text[i] = "<" /\ text[i + Len(p) + 1] = ">"
        /\ \A k \in 1..Len(p) : text[i + k] = p[k]
    BY <1>2 DEF At
  <1>4. PICK subst : subst = [x \in {q} |-> v]
    OBVIOUS
  <1>5. PICK cut : IsCut(text, subst, cut) /\ ReplaceText(text, Pattern(q), v) = Splice(text, cut)
    BY <1>4, TextIsSplice
  <1>6. \A j \in DOMAIN cut : At(text, j, q) /\ cut[j].length = Len(q) + 2 /\ cut[j].new = v
    BY <1>4, <1>5 DEF IsCut
  <1>7. NewTexts(cut, S)
    BY <1>6 DEF NewTexts
  <1>8. ASSUME NEW j \in DOMAIN cut PROVE j + Len(q) + 1 < i \/ i + Len(p) + 1 < j
    <2>1. At(text, j, q) /\ j \in Nat
      BY <1>6 DEF At
    <2>2. ~ (i <= j /\ j <= i + Len(p) + 1)
      BY <1>2, <2>1, NoOverlap
    <2>3. ~ (j <= i /\ i <= j + Len(q) + 1)
      BY <1>2, <2>1, NoOverlap
    <2>4. QED
      BY <1>1, <1>3, <2>1, <2>2, <2>3
  <1>9. ASSUME NEW k \in 1..(Len(p) + 2) PROVE PieceAt(text, cut, i - 1 + k) = <<text[i - 1 + k]>>
    <2>1. ASSUME NEW j \in DOMAIN cut
          PROVE  j # i - 1 + k /\ ~ (j < i - 1 + k /\ i - 1 + k < j + cut[j].length)
      <3>1. j \in Nat /\ cut[j].length = Len(q) + 2
        BY <1>6 DEF At
      <3>2. QED
        BY <1>1, <1>3, <1>8, <3>1
    <2>2. QED
      BY <2>1, Zenon DEF PieceAt, Within
  <1>10. PICK l \in Seq(Seq(S)), r \in Seq(Seq(S)) : Spliced(text, cut, i - 1, l, r)
    <2>1. i - 1 \in 0..Len(text)
      BY <1>1, <1>3
    <2>2. QED
      BY <1>7, <2>1, SpliceCut
  <1>11. /\ Len(r) = Len(text) - (i - 1)
         /\ \A k \in 1..(Len(text) - (i - 1)) : r[k] = PieceAt(text, cut, (i - 1) + k)
         /\ Splice(text, cut) = FlattenSeq(l) \o FlattenSeq(r)
    BY <1>10, Zenon DEF Spliced
  <1>12. PICK m \in Seq(Seq(S)), e \in Seq(Seq(S)) : Halves(r, Len(p) + 2, m, e)
    <2>1. Len(p) + 2 \in 0..Len(r)
      BY <1>1, <1>3, <1>11
    <2>2. QED
      BY <2>1, FlattenCut
  <1>13. /\ Len(m) = Len(p) + 2 /\ \A k \in 1..(Len(p) + 2) : m[k] = r[k]
         /\ FlattenSeq(r) = FlattenSeq(m) \o FlattenSeq(e)
    BY <1>12, Zenon DEF Halves
  <1>14. FlattenSeq(m) = Pattern(p)
    <2>1. PICK pat \in Seq(S) :
              /\ pat = Pattern(p) /\ Len(pat) = Len(p) + 2
              /\ pat[1] = "<" /\ pat[Len(p) + 2] = ">"
              /\ \A k \in 1..Len(p) : pat[k + 1] = p[k]
      <3>1. /\ Pattern(p) \in Seq(S) /\ Len(Pattern(p)) = Len(p) + 2
            /\ Pattern(p)[1] = "<" /\ Pattern(p)[Len(p) + 2] = ">"
            /\ \A k \in 1..Len(p) : Pattern(p)[k + 1] = p[k]
        BY <1>1, PatternType
      <3>2. QED
        BY <3>1, Zenon
    <2>2. ASSUME NEW k \in 1..(Len(p) + 2) PROVE text[i - 1 + k] = pat[k]
      <3>1. CASE k = 1
        BY <1>3, <2>1, <3>1
      <3>2. CASE k = Len(p) + 2
        <4>1. i - 1 + k = i + Len(p) + 1
          BY <1>1, <1>3, <3>2
        <4>2. QED
          BY <1>3, <2>1, <3>2, <4>1
      <3>3. CASE k # 1 /\ k # Len(p) + 2
        <4>1. k - 1 \in 1..Len(p) /\ i - 1 + k = i + (k - 1) /\ (k - 1) + 1 = k
          BY <1>1, <1>3, <3>3
        <4>2. QED
          BY <1>3, <2>1, <4>1
      <3>4. QED
        BY <3>1, <3>2, <3>3
    <2>3. ASSUME NEW k \in 1..Len(pat) PROVE m[k] = <<pat[k]>>
      <3>1. k \in 1..(Len(p) + 2) /\ k \in 1..(Len(text) - (i - 1))
        BY <1>1, <1>3, <2>1
      <3>2. m[k] = <<text[i - 1 + k]>>
        BY <1>9, <1>11, <1>13, <3>1
      <3>3. QED
        BY <2>2, <3>1, <3>2
    <2>4. FlattenSeq(m) = pat
      <3>1. Len(m) = Len(pat) /\ \A k \in 1..Len(pat) : m[k] = <<pat[k]>>
        BY <1>13, <2>1, <2>3, Zenon
      <3>2. QED
        BY <3>1, FlattenSingles
    <2>5. QED
      BY <2>1, <2>4
  <1>15. FlattenSeq(l) \in Seq(S) /\ FlattenSeq(e) \in Seq(S)
    BY FlattenType
  <1>16. Occurs(FlattenSeq(l) \o (Pattern(p) \o FlattenSeq(e)), Pattern(p))
    BY <1>1, <1>15, OccursBetween
  <1>17. QED
    BY <1>5, <1>11, <1>13, <1>14, <1>16, Zenon

-----------------------------------------------------------------------------
(* What stands before the first bracket *)

(* text is a text of the characters in W that starts with head. *)
StartsWith(text, head, W) == \E rest \in Seq(W) : text = head \o rest

(* No placeholder begins in head. *)
Bare(head) == \A i \in 1..Len(head) : head[i] # "<"

(* Replacing a placeholder leaves such a head alone. *)
LEMMA ReplaceBehind ==
    ASSUME NEW S, Brackets \subseteq S, NEW head \in Seq(S), Bare(head),
           NEW text, StartsWith(text, head, S), NEW q \in Seq(S), NEW v \in Seq(S)
    PROVE  StartsWith(ReplaceText(text, Pattern(q), v), head, S)
PROOF
  <1>1. PICK rest \in Seq(S) : text = head \o rest
    BY DEF StartsWith
  <1>2. text \in Seq(S) /\ Joint(text, head, rest)
    BY <1>1, JointConcat
  <1>3. Len(head) \in Nat /\ Len(rest) \in Nat /\ Len(text) = Len(head) + Len(rest)
    BY <1>2, LenProperties DEF Joint
  <1>4. \A i \in 1..Len(head) : text[i] = head[i]
    BY <1>2 DEF Joint
  <1> DEFINE c == [i \in Replaced(text, Pattern(q)) |-> [length |-> Len(Pattern(q)), new |-> v]]
  <1>5. ReplaceText(text, Pattern(q), v) = Splice(text, c) /\ DOMAIN c = Replaced(text, Pattern(q))
    BY DEF ReplaceText
  <1>6. NewTexts(c, S)
    BY DEF NewTexts
  <1> HIDE DEF c
  <1>7. ASSUME NEW j \in DOMAIN c PROVE j \in Nat /\ ~ (j <= Len(head))
    <2>1. Len(Pattern(q)) \in Nat
      BY PatternType, LenProperties
    <2>2. j \in Occurrences(text, Pattern(q))
      BY <1>2, <1>5, <2>1, ReplacedIsChoice
    <2>3. At(text, j, q)
      BY <1>2, <2>2, OccurrenceIsAt
    <2>4. j \in 1..Len(text) /\ text[j] = "<"
      BY <2>3 DEF At
    <2>5. QED
      BY <1>3, <1>4, <2>4 DEF Bare
  <1>8. ASSUME NEW i \in 1..Len(head) PROVE PieceAt(text, c, i) = <<head[i]>>
    <2>1. i \notin DOMAIN c
      BY <1>7, <1>3
    <2>2. ~ Within(c, i)
      <3>1. SUFFICES ASSUME NEW j \in DOMAIN c, j < i PROVE FALSE
        BY DEF Within
      <3>2. QED
        BY <1>3, <1>7, <3>1
    <2>3. QED
      BY <1>4, <2>1, <2>2, Zenon DEF PieceAt
  <1>9. PICK l \in Seq(Seq(S)), r \in Seq(Seq(S)) : Spliced(text, c, Len(head), l, r)
    <2>1. Len(head) \in 0..Len(text)
      BY <1>3
    <2>2. QED
      BY <1>2, <1>6, <2>1, SpliceCut
  <1>10. /\ Len(l) = Len(head) /\ \A i \in 1..Len(head) : l[i] = PieceAt(text, c, i)
         /\ Splice(text, c) = FlattenSeq(l) \o FlattenSeq(r)
    BY <1>9, Zenon DEF Spliced
  <1>11. FlattenSeq(l) = head
    BY <1>8, <1>10, FlattenSingles
  <1>12. FlattenSeq(r) \in Seq(S)
    BY FlattenType
  <1>13. QED
    BY <1>5, <1>10, <1>11, <1>12, Zenon DEF StartsWith

-----------------------------------------------------------------------------
(* Items and what ReplaceText and ReplaceEach make of them *)

(* The placeholders of a text are those among its items. *)
LEMMA ItemsOccur ==
    ASSUME NEW S, Brackets \subseteq S, NEW items \in Seq(Items(S)), NEW p \in Plains(S)
    PROVE  Occurs(FlattenSeq(items), Pattern(p)) <=>
               \E j \in 1..Len(items) : items[j] = Pattern(p)
PROOF
  <1>1. PICK text \in Seq(S) : text = FlattenSeq(items)
    BY ReplaceItems
  <1>2. (\E i : At(text, i, p)) <=> (\E j \in 1..Len(items) : items[j] = Pattern(p))
    <2>1. \A r \in Plains(S) : (\E i : At(FlattenSeq(items), i, r)) <=>
                                   (\E j \in 1..Len(items) : items[j] = Pattern(r))
      BY ReplaceItems
    <2>2. QED
      BY <1>1, <2>1, Zenon
  <1>3. p \in Seq(S)
    BY DEF Plains
  <1>4. \A i : i \in Occurrences(text, Pattern(p)) <=> At(text, i, p)
    BY <1>3, OccurrenceIsAt
  <1>5. Occurs(text, Pattern(p)) <=> \E i : At(text, i, p)
    BY <1>4 DEF Occurs
  <1>6. QED
    BY <1>1, <1>2, <1>5, Zenon

(* A cut of the placeholders swaps the items. *)
LEMMA ItemsSplice ==
    ASSUME NEW S, Brackets \subseteq S, NEW items \in Seq(Items(S)),
           NEW subst, PlainSubst(subst, S), NEW cut, IsCut(FlattenSeq(items), subst, cut)
    PROVE  Splice(FlattenSeq(items), cut) = FlattenSeq(Swapped(items, subst))
PROOF
  <1>1. \A s, c : PlainSubst(s, S) /\ IsCut(FlattenSeq(items), s, c) =>
                      Splice(FlattenSeq(items), c) = FlattenSeq(Swapped(items, s))
    BY ReplaceItems
  <1>2. QED
    BY <1>1, Zenon

(* Only q is replaced. *)
IsOne(one, q, v) == one = [x \in {q} |-> v]

(* Replacing one placeholder swaps it among the items. *)
LEMMA ItemsReplaceText ==
    ASSUME NEW S, Brackets \subseteq S, NEW items \in Seq(Items(S)), NEW q \in Plains(S),
           NEW v \in Seq(S), NEW one, IsOne(one, q, v)
    PROVE  /\ PlainSubst(one, S)
           /\ ReplaceText(FlattenSeq(items), Pattern(q), v) = FlattenSeq(Swapped(items, one))
PROOF
  <1>1. PlainSubst(one, S)
    BY DEF PlainSubst, IsOne
  <1>2. PICK text \in Seq(S) : text = FlattenSeq(items)
    BY ReplaceItems
  <1>3. PICK cut : IsCut(text, one, cut) /\ ReplaceText(text, Pattern(q), v) = Splice(text, cut)
    BY TextIsSplice DEF IsOne
  <1>4. Splice(text, cut) = FlattenSeq(Swapped(items, one))
    BY <1>1, <1>2, <1>3, ItemsSplice
  <1>5. QED
    BY <1>1, <1>2, <1>3, <1>4, Zenon

(* Replacing several at once swaps them all. *)
LEMMA ItemsReplaceEach ==
    ASSUME NEW S, Brackets \subseteq S, NEW items \in Seq(Items(S)),
           NEW subst, PlainSubst(subst, S)
    PROVE  ReplaceEach(FlattenSeq(items), subst) = FlattenSeq(Swapped(items, subst))
PROOF
  <1>1. PICK text \in Seq(S) : text = FlattenSeq(items)
    BY ReplaceItems
  <1>2. PICK cut : IsCut(text, subst, cut) /\ ReplaceEach(text, subst) = Splice(text, cut)
    BY EachIsSplice
  <1>3. Splice(text, cut) = FlattenSeq(Swapped(items, subst))
    BY <1>1, <1>2, ItemsSplice
  <1>4. QED
    BY <1>1, <1>2, <1>3, Zenon

(* Plain values only. *)
PlainTexts(subst, S) == DOMAIN subst \subseteq Plains(S) /\ \A p \in DOMAIN subst : subst[p] \in Plains(S)

(* more replaces q, as one does, besides what subst replaces. *)
OneMore(subst, q, one, more, S) ==
    /\ PlainSubst(one, S) /\ DOMAIN one = {q}
    /\ PlainSubst(more, S) /\ DOMAIN more = DOMAIN subst \cup {q}
    /\ more[q] = one[q] /\ \A p \in DOMAIN subst : more[p] = subst[p]

(* An item is swapped for an item, and after that it can be swapped for    *)
(* one more name.                                                          *)
SwapsOn(it, subst, S) ==
    /\ PlainSubst(subst, S)
    /\ SwapItem(it, subst) \in Items(S)
    /\ \A q \in Plains(S) \ DOMAIN subst :
           /\ SwapItem(it, subst) = Pattern(q) <=> it = Pattern(q)
           /\ \A one, more :
                  OneMore(subst, q, one, more, S) =>
                      SwapItem(SwapItem(it, subst), one) = SwapItem(it, more)

(* So it is for plain values. *)
LEMMA SwapTwice ==
    ASSUME NEW S, Brackets \subseteq S, NEW it \in Items(S), NEW subst, PlainTexts(subst, S)
    PROVE  SwapsOn(it, subst, S)
PROOF
  <1>1. PlainSubst(subst, S) /\ \A p \in DOMAIN subst : p \in Plains(S) /\ subst[p] \in Plains(S)
    BY DEF PlainTexts, PlainSubst, Plains
  <1>2. /\ \A p \in Plains(S) : Pattern(p) \notin Plains(S)
        /\ \A p, q \in Plains(S) : Pattern(p) = Pattern(q) => p = q
    BY PatternTellsApart
  <1>3. ASSUME NEW s, PlainSubst(s, S)
        PROVE  /\ \A p \in DOMAIN s : SwapItem(Pattern(p), s) = s[p]
               /\ \A p \in Plains(S) \ DOMAIN s : SwapItem(Pattern(p), s) = Pattern(p)
               /\ \A t \in Plains(S) : SwapItem(t, s) = t
    BY <1>3, SwapFacts
  <1>4. CASE it \in Plains(S)
    <2>1. SwapItem(it, subst) = it
      BY <1>1, <1>3, <1>4
    <2>2. \A one : PlainSubst(one, S) => SwapItem(it, one) = it
      BY <1>3, <1>4
    <2>3. it # Pattern(it) /\ \A q \in Plains(S) : it # Pattern(q)
      BY <1>2, <1>4
    <2>4. QED
      <3>1. it \in Items(S)
        BY <1>4 DEF Items
      <3>2. QED
        BY <1>1, <2>1, <2>2, <2>3, <3>1, Zenon DEF SwapsOn, OneMore
  <1>5. CASE \E p \in Plains(S) : it = Pattern(p)
    <2>1. PICK p \in Plains(S) : it = Pattern(p)
      BY <1>5
    <2>2. CASE p \in DOMAIN subst
      <3>1. SwapItem(it, subst) = subst[p] /\ subst[p] \in Plains(S)
        BY <1>1, <1>3, <2>1, <2>2
      <3>2. subst[p] \in Items(S)
        BY <3>1 DEF Items
      <3>3. ASSUME NEW q \in Plains(S) \ DOMAIN subst
            PROVE  SwapItem(it, subst) # Pattern(q) /\ it # Pattern(q)
        BY <1>2, <2>1, <2>2, <3>1
      <3>4. ASSUME NEW one, NEW more, PlainSubst(one, S), PlainSubst(more, S),
                   p \in DOMAIN more, more[p] = subst[p]
            PROVE  SwapItem(SwapItem(it, subst), one) = SwapItem(it, more)
        <4>1. SwapItem(subst[p], one) = subst[p]
          BY <1>3, <3>1, <3>4
        <4>2. SwapItem(it, more) = more[p]
          BY <1>3, <2>1, <3>4
        <4>3. QED
          BY <3>1, <3>4, <4>1, <4>2
      <3>5. QED
        BY <1>1, <2>2, <3>1, <3>2, <3>3, <3>4, Zenon DEF SwapsOn, OneMore
    <2>3. CASE p \notin DOMAIN subst
      <3>1. SwapItem(it, subst) = it
        BY <1>1, <1>3, <2>1, <2>3
      <3>2. ASSUME NEW q \in Plains(S) \ DOMAIN subst, NEW one, NEW more,
                   PlainSubst(one, S), DOMAIN one = {q},
                   PlainSubst(more, S), DOMAIN more = DOMAIN subst \cup {q}, more[q] = one[q]
            PROVE  SwapItem(it, one) = SwapItem(it, more)
        <4>1. CASE p = q
          <5>1. SwapItem(it, one) = one[q] /\ SwapItem(it, more) = more[q]
            BY <1>3, <2>1, <3>2, <4>1
          <5>2. QED
            BY <3>2, <5>1
        <4>2. CASE p # q
          <5>1. p \notin DOMAIN one /\ p \notin DOMAIN more
            BY <2>3, <3>2, <4>2
          <5>2. SwapItem(it, one) = it /\ SwapItem(it, more) = it
            BY <1>3, <2>1, <3>2, <5>1
          <5>3. QED
            BY <5>2
        <4>3. QED
          BY <4>1, <4>2
      <3>3. QED
        BY <1>1, <3>1, <3>2, Zenon DEF SwapsOn, OneMore
    <2>4. QED
      BY <2>2, <2>3
  <1>6. QED
    BY <1>4, <1>5 DEF Items

(* The same for all items. *)
LEMMA SwappedTwice ==
    ASSUME NEW S, Brackets \subseteq S, NEW items \in Seq(Items(S)), NEW subst, PlainTexts(subst, S)
    PROVE  /\ Swapped(items, subst) \in Seq(Items(S))
           /\ \A q \in Plains(S) \ DOMAIN subst :
                  /\ (\E j \in 1..Len(Swapped(items, subst)) : Swapped(items, subst)[j] = Pattern(q))
                         <=> (\E j \in 1..Len(items) : items[j] = Pattern(q))
                  /\ \A one, more :
                         OneMore(subst, q, one, more, S) =>
                             Swapped(Swapped(items, subst), one) = Swapped(items, more)
PROOF
  <1>1. /\ Len(items) \in Nat /\ DOMAIN items = 1..Len(items)
        /\ \A j \in 1..Len(items) : items[j] \in Items(S)
    BY LenProperties, ElementOfSeq
  <1>2. PICK uu : uu = Swapped(items, subst)
    OBVIOUS
  <1>3. \A j \in 1..Len(items) : SwapItem(items[j], subst) \in Items(S)
    <2>1. ASSUME NEW it \in Items(S) PROVE SwapItem(it, subst) \in Items(S)
      BY SwapTwice DEF SwapsOn
    <2>2. QED
      BY <1>1, <2>1
  <1>4. /\ uu \in Seq(Items(S)) /\ Len(uu) = Len(items) /\ DOMAIN uu = 1..Len(items)
        /\ \A j \in 1..Len(items) : uu[j] = SwapItem(items[j], subst)
    BY <1>1, <1>2, <1>3 DEF Swapped
  <1>5. ASSUME NEW q \in Plains(S) \ DOMAIN subst
        PROVE  (\E j \in 1..Len(uu) : uu[j] = Pattern(q)) <=>
                   (\E j \in 1..Len(items) : items[j] = Pattern(q))
    <2>1. \A j \in 1..Len(items) : uu[j] = Pattern(q) <=> items[j] = Pattern(q)
      <3>1. ASSUME NEW it \in Items(S) PROVE SwapItem(it, subst) = Pattern(q) <=> it = Pattern(q)
        <4>1. SwapsOn(it, subst, S)
          BY SwapTwice
        <4>2. QED
          BY <4>1, Zenon DEF SwapsOn
      <3>2. QED
        BY <1>1, <1>4, <3>1
    <2>2. QED
      BY <1>4, <2>1
  <1>6. ASSUME NEW q \in Plains(S) \ DOMAIN subst, NEW one, NEW more,
               OneMore(subst, q, one, more, S)
        PROVE  Swapped(uu, one) = Swapped(items, more)
    <2>1. ASSUME NEW it \in Items(S)
          PROVE  SwapItem(SwapItem(it, subst), one) = SwapItem(it, more)
      <3>1. SwapsOn(it, subst, S)
        BY SwapTwice
      <3>2. QED
        BY <1>6, <3>1, Zenon DEF SwapsOn
    <2>2. \A j \in 1..Len(items) : SwapItem(uu[j], one) = SwapItem(items[j], more)
      BY <1>1, <1>4, <2>1
    <2>3. QED
      BY <1>1, <1>4, <2>2 DEF Swapped
  <1>7. QED
    BY <1>2, <1>4, <1>5, <1>6, Zenon

-----------------------------------------------------------------------------
(* The loop over the field mappings *)

(* Max of a finite set of positions is its largest element. *)
LEMMA MaxIsLargest ==
    ASSUME NEW k \in Nat, NEW s \in SUBSET (1..k), s # {}
    PROVE  Max(s) \in s /\ \A x \in s : x <= Max(s)
PROOF
  BY Loop!MaxIsLargest DEF Max, Loop!Max

Blank(policy) == policy.resource = <<>> \/ policy.action = ""
IsRun(policy, req, acc) == Loop!IsRun(req, Resolved(policy.resource), policy.field_mappings, acc)

(* resolveResourceFromRequest is the fold of applyMapping over all the     *)
(* field mappings, unless the resource or the action is empty.             *)
LEMMA ResolveIsLoop ==
    ASSUME NEW policy, NEW req
    PROVE  resolveResourceFromRequest(policy, req) =
               IF Blank(policy) THEN Failed
               ELSE Loop!Folded(req, Resolved(policy.resource), policy.field_mappings)
PROOF
  BY DEF resolveResourceFromRequest, Blank, FoldLeft, MapThenFoldSet, Max,
         Loop!Folded, Loop!Fold, Loop!IsFold, Loop!Turn, Loop!Max

(* resolveResourceFromRequest is the last of a sequence of results, each   *)
(* the turn of the loop on the one before.                                 *)
LEMMA LoopTurns ==
    ASSUME NEW M, NEW policy, NEW req, policy.field_mappings \in Seq(M), ~ Blank(policy)
    PROVE  \E acc :
               /\ IsRun(policy, req, acc)
               /\ resolveResourceFromRequest(policy, req) = acc[Len(policy.field_mappings)]
PROOF
  BY ResolveIsLoop, Loop!FoldTurns DEF IsRun

-----------------------------------------------------------------------------
(* The answers of the resolution *)

Answers(W) == {Failed} \cup {Resolved(text) : text \in Seq(W)}

(* Whether an answer is a failure, and what it says. *)
LEMMA AnswerFields ==
    /\ ~ Failed.ok
    /\ \A text : Resolved(text).ok /\ Resolved(text).text = text
PROOF
  BY DEF Failed, Resolved

(* An answer that is no failure is a text. *)
LEMMA AnswerText ==
    ASSUME NEW W, NEW a \in Answers(W), a.ok
    PROVE  a.text \in Seq(W) /\ a = Resolved(a.text)
PROOF
  <1>1. a # Failed
    BY AnswerFields
  <1>2. PICK text \in Seq(W) : a = Resolved(text)
    BY <1>1 DEF Answers
  <1>3. QED
    BY <1>2, AnswerFields

(* extractFieldFromRequest answers with a failure or with a text. *)
LEMMA ExtractType ==
    ASSUME NEW T, NEW req, HasTexts(req, T), NEW field
    PROVE  extractFieldFromRequest(req, field) \in Answers(T)
PROOF
  <1>1. SUFFICES ASSUME field \in DOMAIN req.fields
                 PROVE  fieldText(req.fields[field]) \in Answers(T)
    BY DEF extractFieldFromRequest, Answers
  <1> DEFINE f == req.fields[field]
             texts == {Resolved(f.value), Resolved(f.value.text), Resolved(f.value.hex),
                       Resolved(Digits(f.value)),
                       Resolved(<<"true">>), Resolved(<<"false">>)}
  <1>2. fieldText(f) \in texts \cup {Failed}
    <2> HIDE DEF f
    <2>1. QED
      BY Zenon DEF fieldText
  <1>3. PICK text : fieldText(f) = Resolved(text) \/ fieldText(f) = Failed
    BY <1>2
  <1> HIDE DEF texts
  <1>4. CASE fieldText(f) = Failed
    BY <1>4 DEF Answers
  <1>5. CASE fieldText(f) = Resolved(text)
    <2>1. fieldText(f).ok /\ fieldText(f).text = text
      BY <1>5, AnswerFields
    <2>2. text \in Seq(T)
      BY <1>1, <2>1 DEF HasTexts
    <2>3. QED
      BY <1>5, <2>2 DEF Answers
  <1>6. QED
    BY <1>3, <1>4, <1>5

-----------------------------------------------------------------------------
(* The loop against the reference definition *)

(* Min of a set of naturals is its smallest element. *)
LEMMA MinIsSmallest ==
    ASSUME NEW I \in SUBSET Nat, I # {}
    PROVE  Min(I) \in I /\ \A i \in I : Min(I) <= i
PROOF
  <1>1. \E n \in I : \A m \in I : n <= m
    BY Minimum
  <1>2. QED
    BY <1>1, Zenon DEF Min

(* MappingOf is the first mapping with the name, or 0. *)
LEMMA MappingOfIsFirst ==
    ASSUME NEW M, NEW policy, policy.field_mappings \in Seq(M), NEW p
    PROVE  LET maps == policy.field_mappings
               k == MappingOf(policy, p)
           IN  /\ k \in 0..Len(maps)
               /\ k = 0 => \A i \in 1..Len(maps) : maps[i].placeholder # p
               /\ k # 0 => /\ maps[k].placeholder = p
                           /\ \A i \in 1..Len(maps) : maps[i].placeholder = p => k <= i
PROOF
  <1> DEFINE I == {i \in 1..Len(policy.field_mappings) : policy.field_mappings[i].placeholder = p}
  <1>1. MappingOf(policy, p) = IF I # {} THEN Min(I) ELSE 0
    BY DEF MappingOf, SelectInSeq
  <1>2. I \in SUBSET Nat
    OBVIOUS
  <1>3. I # {} => Min(I) \in I /\ \A i \in I : Min(I) <= i
    BY <1>2, MinIsSmallest
  <1>4. CASE I = {}
    <2>1. MappingOf(policy, p) = 0
      BY <1>1, <1>4
    <2>2. \A i \in 1..Len(policy.field_mappings) : policy.field_mappings[i].placeholder # p
      BY <1>4
    <2>3. Len(policy.field_mappings) \in Nat
      BY LenProperties
    <2>4. QED
      BY <2>1, <2>2, <2>3
  <1>5. CASE I # {}
    <2>1. MappingOf(policy, p) \in I /\ \A i \in I : MappingOf(policy, p) <= i
      BY <1>1, <1>3, <1>5
    <2>2. QED
      BY <2>1
  <1>6. QED
    BY <1>4, <1>5

(* The placeholders that the first i mappings replace ... *)
Placed(policy, i) == {p \in Mapped(policy) : MappingOf(policy, p) <= i}

(* ... nothing that these mappings need is missing ... *)
Named(mapping) == mapping.placeholder # <<>> /\ mapping.request_field # ""
Complete(policy, req, i) ==
    /\ \A j \in 1..i : Named(policy.field_mappings[j])
    /\ \A p \in Placed(policy, i) : ValueFor(policy, req, p).ok

(* ... and their values. *)
Values(policy, req, i) == [p \in Placed(policy, i) |-> ValueFor(policy, req, p).text]

(* What the proofs need of a policy and a request. *)
Proper(policy, req, W, F) ==
    /\ policy.resource \in Seq(W)
    /\ policy.field_mappings \in
           Seq([placeholder : Seq(W), request_field : F])
    /\ \A field : extractFieldFromRequest(req, field) \in Answers(W)

(* The mapped placeholders are those of the template with a mapping. *)
LEMMA MappedIsInTemplate ==
    ASSUME NEW M, NEW policy, policy.field_mappings \in Seq(M), NEW p
    PROVE  p \in Mapped(policy) <=>
               Occurs(policy.resource, Pattern(p)) /\ MappingOf(policy, p) # 0
PROOF
  <1> DEFINE maps == policy.field_mappings
             k == MappingOf(policy, p)
  <1>1. /\ k \in 0..Len(maps)
        /\ k = 0 => \A i \in 1..Len(maps) : maps[i].placeholder # p
        /\ k # 0 => maps[k].placeholder = p
    BY MappingOfIsFirst
  <1>2. DOMAIN maps = 1..Len(maps) /\ Len(maps) \in Nat
    BY LenProperties
  <1> HIDE DEF k
  <1>3. k # 0 <=> \E i \in 1..Len(maps) : maps[i].placeholder = p
    BY <1>1, <1>2
  <1>4. p \in {m.placeholder : m \in ToSet(maps)} <=> k # 0
    BY <1>2, <1>3 DEF ToSet
  <1>5. QED
    BY <1>4 DEF Mapped, k

(* What a turn adds to the placeholders that are replaced: at most the     *)
(* name of its mapping.                                                    *)
LEMMA PlacedStep ==
    ASSUME NEW W, NEW F, NEW policy, NEW req, Proper(policy, req, W, F),
           NEW i \in 0..(Len(policy.field_mappings) - 1)
    PROVE  LET q == policy.field_mappings[i + 1].placeholder
           IN  /\ Placed(policy, i) \subseteq Placed(policy, i + 1)
               /\ \A p \in Placed(policy, i + 1) :
                      p \notin Placed(policy, i) => p = q /\ MappingOf(policy, p) = i + 1
               /\ q # <<>> /\ Occurs(policy.resource, Pattern(q)) => q \in Placed(policy, i + 1)
               /\ q # <<>> /\ Occurs(policy.resource, Pattern(q)) /\ q \notin Placed(policy, i) =>
                      MappingOf(policy, q) = i + 1
PROOF
  <1> DEFINE maps == policy.field_mappings
             M == [placeholder : Seq(W), request_field : F]
             q == maps[i + 1].placeholder
  <1>1. maps \in Seq(M) /\ policy.resource \in Seq(W)
    BY DEF Proper
  <1>2. Len(maps) \in Nat
    BY <1>1, LenProperties
  <1>3. i \in Nat /\ i + 1 \in 1..Len(maps)
    BY <1>2
  <1>4. q \in Seq(W)
    <2>1. maps[i + 1] \in M
      BY <1>1, <1>3, ElementOfSeq
    <2>2. QED
      BY <2>1
  <1> DEFINE k(p) == MappingOf(policy, p)
  <1>5. \A p : /\ k(p) \in 0..Len(maps)
               /\ k(p) = 0 => \A j \in 1..Len(maps) : maps[j].placeholder # p
               /\ k(p) # 0 => /\ maps[k(p)].placeholder = p
                              /\ \A j \in 1..Len(maps) : maps[j].placeholder = p => k(p) <= j
    BY <1>1, MappingOfIsFirst
  <1>6. k(q) # 0 /\ k(q) <= i + 1
    BY <1>3, <1>5
  <1>7. \A p : k(p) \in Int
    BY <1>5, <1>2
  <1> HIDE DEF maps, k, q
  <1>8. Placed(policy, i) \subseteq Placed(policy, i + 1)
    BY <1>3, <1>7 DEF Placed, k
  <1>9. ASSUME NEW p \in Placed(policy, i + 1), p \notin Placed(policy, i)
        PROVE  p = q /\ k(p) = i + 1
    <2>1. k(p) <= i + 1 /\ ~ (k(p) <= i) /\ k(p) \in Int
      BY <1>7, <1>9 DEF Placed, k
    <2>2. k(p) = i + 1 /\ k(p) # 0
      BY <1>3, <2>1
    <2>3. maps[k(p)].placeholder = p
      BY <1>5, <2>2
    <2>4. QED
      BY <2>2, <2>3 DEF q
  <1>10. ASSUME q # <<>>, Occurs(policy.resource, Pattern(q))
         PROVE  /\ q \in Placed(policy, i + 1)
                /\ q \notin Placed(policy, i) => k(q) = i + 1
    <2>1. q \in Mapped(policy)
      <3>1. k(q) # 0 /\ Occurs(policy.resource, Pattern(q)) /\ policy.field_mappings \in Seq(M)
        BY <1>1, <1>6, <1>10 DEF maps
      <3> HIDE DEF M
      <3>2. QED
        BY <3>1, MappedIsInTemplate DEF k
    <2>2. q \in Placed(policy, i + 1)
      BY <1>6, <2>1 DEF Placed, k
    <2>3. QED
      BY <1>9, <2>2
  <1>11. QED
    BY <1>8, <1>9, <1>10 DEF maps, k, q

(* One turn of the loop, case by case. *)
LEMMA TurnFailed ==
    ASSUME NEW req, NEW acc, NEW m, ~ acc.ok
    PROVE  applyMapping(req, acc, m) = acc
PROOF
  BY DEF applyMapping

(* A mapping without a name or a field fails the resolution. *)
LEMMA TurnBroken ==
    ASSUME NEW req, NEW acc, NEW m, acc.ok, ~ Named(m)
    PROVE  applyMapping(req, acc, m) = Failed
PROOF
  BY DEF applyMapping, Named

(* A mapping for a placeholder that the text does not have is not read. *)
LEMMA TurnUnused ==
    ASSUME NEW req, NEW acc, NEW m, acc.ok, Named(m), ~ Occurs(acc.text, Pattern(m.placeholder))
    PROVE  applyMapping(req, acc, m) = acc
PROOF
  BY DEF applyMapping, Named

(* A mapping whose field has no usable value fails the resolution. *)
LEMMA TurnMissing ==
    ASSUME NEW req, NEW acc, NEW m, acc.ok, Named(m), Occurs(acc.text, Pattern(m.placeholder)),
           ~ extractFieldFromRequest(req, m.request_field).ok
    PROVE  applyMapping(req, acc, m) = Failed
PROOF
  BY DEF applyMapping, Named

(* A mapping whose placeholder is in the text replaces it everywhere. *)
LEMMA TurnReplaces ==
    ASSUME NEW req, NEW acc, NEW m, acc.ok, Named(m), Occurs(acc.text, Pattern(m.placeholder)),
           extractFieldFromRequest(req, m.request_field).ok
    PROVE  applyMapping(req, acc, m) =
               Resolved(ReplaceText(acc.text, Pattern(m.placeholder),
                                    extractFieldFromRequest(req, m.request_field).text))
PROOF
  BY DEF applyMapping, Named

(* Every turn gives a failure or a text. *)
LEMMA LoopType ==
    ASSUME NEW W, NEW F, NEW policy, NEW req, Proper(policy, req, W, F),
           NEW acc, IsRun(policy, req, acc)
    PROVE  \A i \in 0..Len(policy.field_mappings) : acc[i] \in Answers(W)
PROOF
  <1> DEFINE maps == policy.field_mappings
             N == {i \in Nat : i <= Len(maps) => acc[i] \in Answers(W)}
  <1>1. 0 \in N
    BY DEF Proper, IsRun, Loop!IsRun, Answers
  <1>2. ASSUME NEW i \in Nat, i \in N PROVE i + 1 \in N
    <2>1. SUFFICES ASSUME i + 1 <= Len(maps) PROVE acc[i + 1] \in Answers(W)
      OBVIOUS
    <2>2. Len(maps) \in Nat
      BY LenProperties DEF Proper
    <2>3. i \in 0..(Len(maps) - 1) /\ i <= Len(maps)
      BY <2>1, <2>2
    <2> DEFINE m == maps[i + 1]
               value == extractFieldFromRequest(req, m.request_field)
    <2>4. acc[i + 1] = applyMapping(req, acc[i], m)
      BY <2>3 DEF IsRun, Loop!IsRun
    <2>5. acc[i] \in Answers(W) /\ Failed \in Answers(W)
      BY <1>2, <2>3 DEF Answers
    <2>6. value \in Answers(W)
      BY DEF Proper
    <2> HIDE DEF m
    <2>7. CASE acc[i + 1] = acc[i] \/ acc[i + 1] = Failed
      BY <2>5, <2>7
    <2>8. CASE ~ (acc[i + 1] = acc[i] \/ acc[i + 1] = Failed)
      <3>1. /\ acc[i].ok /\ value.ok
            /\ acc[i + 1] = Resolved(ReplaceText(acc[i].text, Pattern(m.placeholder), value.text))
        BY <2>4, <2>8, TurnFailed, TurnBroken, TurnUnused, TurnMissing, TurnReplaces
      <3>2. acc[i].text \in Seq(W) /\ value.text \in Seq(W)
        BY <2>5, <2>6, <3>1, AnswerText
      <3>3. ReplaceText(acc[i].text, Pattern(m.placeholder), value.text) \in Seq(W)
        BY <3>2, ReplaceTextType
      <3>4. QED
        BY <3>1, <3>3 DEF Answers
    <2>9. QED
      BY <2>7, <2>8
  <1>3. Nat \subseteq N
    <2> HIDE DEF N
    <2>1. QED
      BY <1>1, <1>2, Induction
  <1>4. QED
    BY <1>3

(* A loop that has not failed has met no mapping without a name or field. *)
LEMMA LoopNamed ==
    ASSUME NEW W, NEW F, NEW policy, NEW req, Proper(policy, req, W, F),
           NEW acc, IsRun(policy, req, acc)
    PROVE  \A i \in 0..Len(policy.field_mappings) :
               acc[i].ok => \A j \in 1..i : Named(policy.field_mappings[j])
PROOF
  <1> DEFINE maps == policy.field_mappings
             N == {i \in Nat : i <= Len(maps) /\ acc[i].ok => \A j \in 1..i : Named(maps[j])}
  <1>1. 0 \in N
    OBVIOUS
  <1>2. ASSUME NEW i \in Nat, i \in N PROVE i + 1 \in N
    <2>1. SUFFICES ASSUME i + 1 <= Len(maps), acc[i + 1].ok PROVE \A j \in 1..(i + 1) : Named(maps[j])
      OBVIOUS
    <2>2. Len(maps) \in Nat
      BY LenProperties DEF Proper
    <2>3. i \in 0..(Len(maps) - 1) /\ i <= Len(maps)
      BY <2>1, <2>2
    <2> DEFINE m == maps[i + 1]
    <2>4. acc[i + 1] = applyMapping(req, acc[i], m)
      BY <2>3 DEF IsRun, Loop!IsRun
    <2> HIDE DEF m
    <2>5. acc[i].ok /\ Named(m)
      <3>1. ~ acc[i].ok => acc[i + 1] = acc[i]
        BY <2>4, TurnFailed
      <3>2. acc[i].ok /\ ~ Named(m) => acc[i + 1] = Failed
        BY <2>4, TurnBroken
      <3>3. ~ Failed.ok
        BY AnswerFields
      <3>4. QED
        BY <2>1, <3>1, <3>2, <3>3, Zenon
    <2>6. \A j \in 1..i : Named(maps[j])
      BY <1>2, <2>3, <2>5
    <2>7. \A j \in 1..(i + 1) : j \in 1..i \/ j = i + 1
      OBVIOUS
    <2>8. QED
      BY <2>5, <2>6, <2>7 DEF m
  <1>3. Nat \subseteq N
    <2> HIDE DEF N
    <2>1. QED
      BY <1>1, <1>2, Induction
  <1>4. QED
    BY <1>3

(* The names of the mappings are plain. *)
LEMMA NamesArePlain ==
    ASSUME NEW W, NEW F, NEW policy, NEW req, Proper(policy, req, W, F), PlainNames(policy)
    PROVE  /\ \A i \in 1..Len(policy.field_mappings) :
                  policy.field_mappings[i].placeholder \in Plains(W)
           /\ Mapped(policy) \subseteq Plains(W)
PROOF
  <1> DEFINE maps == policy.field_mappings
             M == [placeholder : Seq(W), request_field : F]
  <1>1. maps \in Seq(M)
    BY DEF Proper
  <1>2. Len(maps) \in Nat /\ DOMAIN maps = 1..Len(maps) /\ \A i \in 1..Len(maps) : maps[i] \in M
    BY <1>1, LenProperties, ElementOfSeq
  <1>3. ASSUME NEW i \in 1..Len(maps) PROVE maps[i].placeholder \in Plains(W)
    <2>1. maps[i] \in ToSet(maps)
      BY <1>2 DEF ToSet
    <2>2. IsPlain(maps[i].placeholder)
      BY <2>1 DEF PlainNames
    <2>3. maps[i].placeholder \in Seq(W)
      BY <1>2
    <2>4. QED
      BY <2>2, <2>3 DEF Plains
  <1>4. ASSUME NEW p \in Mapped(policy) PROVE p \in Plains(W)
    <2>1. PICK m \in ToSet(maps) : p = m.placeholder
      BY DEF Mapped
    <2>2. PICK i \in 1..Len(maps) : m = maps[i]
      BY <1>2, <2>1 DEF ToSet
    <2>3. QED
      BY <1>3, <2>1, <2>2
  <1>5. QED
    BY <1>3, <1>4

(* As long as the loop has not failed, nothing was missing, and every      *)
(* placeholder of the template that is not replaced yet is still there.    *)
Open(policy, req, acc, i) ==
    acc[i].ok =>
        /\ Complete(policy, req, i)
        /\ \A p \in Mapped(policy) :
               p \notin Placed(policy, i) => Occurs(acc[i].text, Pattern(p))

(* So it is after every turn, if the names are plain. *)
LEMMA LoopOpen ==
    ASSUME NEW W, Brackets \subseteq W, NEW F, NEW policy, NEW req, Proper(policy, req, W, F),
           PlainNames(policy), NEW acc, IsRun(policy, req, acc)
    PROVE  \A i \in 0..Len(policy.field_mappings) : Open(policy, req, acc, i)
PROOF
  <1> DEFINE maps == policy.field_mappings
             M == [placeholder : Seq(W), request_field : F]
             N == {i \in Nat : i <= Len(maps) => Open(policy, req, acc, i)}
  <1>1. maps \in Seq(M) /\ policy.resource \in Seq(W)
    BY DEF Proper
  <1>2. Len(maps) \in Nat
    BY <1>1, LenProperties
  <1>3. \A p : /\ MappingOf(policy, p) \in 0..Len(maps)
               /\ p \in Mapped(policy) <=>
                      Occurs(policy.resource, Pattern(p)) /\ MappingOf(policy, p) # 0
    <2> HIDE DEF M
    <2>1. QED
      BY <1>1, MappingOfIsFirst, MappedIsInTemplate
  <1>4. 0 \in N
    <2>1. acc[0].text = policy.resource
      BY AnswerFields DEF IsRun, Loop!IsRun
    <2>2. Placed(policy, 0) = {}
      <3>1. ASSUME NEW p \in Placed(policy, 0) PROVE FALSE
        <4>1. MappingOf(policy, p) <= 0 /\ MappingOf(policy, p) # 0
          BY <1>3 DEF Placed
        <4>2. QED
          BY <1>2, <1>3, <4>1
      <3>2. QED
        BY <3>1
    <2>3. Complete(policy, req, 0)
      BY <2>2 DEF Complete
    <2>4. Open(policy, req, acc, 0)
      BY <1>3, <2>1, <2>3, Zenon DEF Open
    <2>5. QED
      BY <2>4
  <1>5. ASSUME NEW i \in Nat, i \in N PROVE i + 1 \in N
    <2>1. SUFFICES ASSUME i + 1 <= Len(maps), acc[i + 1].ok
                   PROVE  /\ Complete(policy, req, i + 1)
                          /\ \A p \in Mapped(policy) :
                                 p \notin Placed(policy, i + 1) => Occurs(acc[i + 1].text, Pattern(p))
      BY DEF Open
    <2>2. /\ i \in 0..(Len(maps) - 1) /\ i \in 0..Len(maps) /\ i <= Len(maps)
          /\ i + 1 \in 1..Len(maps) /\ i + 1 \in 0..Len(maps)
      BY <1>2, <2>1
    <2> DEFINE m == maps[i + 1]
               q == m.placeholder
               value == extractFieldFromRequest(req, m.request_field)
    <2>3. acc[i + 1] = applyMapping(req, acc[i], m)
      BY <2>2 DEF IsRun, Loop!IsRun
    <2>4. acc[i] \in Answers(W) /\ value \in Answers(W)
      BY <2>2, LoopType DEF Proper
    <2>5. q \in Plains(W) /\ Mapped(policy) \subseteq Plains(W)
      BY <2>2, NamesArePlain
    <2>6. \A j \in 1..(i + 1) : Named(maps[j])
      BY <2>1, <2>2, LoopNamed
    <2> HIDE DEF m
    <2>7. acc[i].ok /\ Named(m)
      <3>1. ~ acc[i].ok => acc[i + 1] = acc[i]
        BY <2>3, TurnFailed
      <3>2. i + 1 \in 1..(i + 1)
        OBVIOUS
      <3>3. QED
        BY <2>1, <2>6, <3>1, <3>2, Zenon DEF m
    <2>8. /\ Complete(policy, req, i)
          /\ \A p \in Mapped(policy) :
                 p \notin Placed(policy, i) => Occurs(acc[i].text, Pattern(p))
      BY <1>5, <2>2, <2>7 DEF Open
    <2>9. /\ Placed(policy, i) \subseteq Placed(policy, i + 1)
          /\ \A p \in Placed(policy, i + 1) :
                 p \notin Placed(policy, i) => p = q /\ MappingOf(policy, p) = i + 1
          /\ Occurs(policy.resource, Pattern(q)) => q \in Placed(policy, i + 1)
      <3>1. q # <<>>
        BY <2>7 DEF Named
      <3>2. QED
        BY <2>2, <3>1, PlacedStep DEF m
    <2>10. Placed(policy, i + 1) \subseteq Mapped(policy)
      BY DEF Placed
    <2>11. Occurs(acc[i].text, Pattern(q)) => value.ok
      <3>1. Occurs(acc[i].text, Pattern(q)) /\ ~ value.ok => acc[i + 1] = Failed
        BY <2>3, <2>7, TurnMissing
      <3>2. ~ Failed.ok
        BY AnswerFields
      <3>3. QED
        BY <2>1, <3>1, <3>2, Zenon
    <2>12. ASSUME NEW p \in Placed(policy, i + 1) PROVE ValueFor(policy, req, p).ok
      <3>1. CASE p \in Placed(policy, i)
        BY <2>8, <3>1 DEF Complete
      <3>2. CASE p \notin Placed(policy, i)
        <4>1. p = q /\ MappingOf(policy, p) = i + 1 /\ Occurs(acc[i].text, Pattern(p))
          BY <2>8, <2>9, <2>10, <3>2
        <4>2. ValueFor(policy, req, p) = value
          BY <4>1 DEF ValueFor, m
        <4>3. QED
          BY <2>11, <4>1, <4>2
      <3>3. QED
        BY <3>1, <3>2
    <2>13. ASSUME NEW p \in Mapped(policy), p \notin Placed(policy, i + 1)
           PROVE  Occurs(acc[i + 1].text, Pattern(p))
      <3>1. p # q /\ Occurs(acc[i].text, Pattern(p)) /\ p \in Plains(W)
        BY <1>3, <2>5, <2>8, <2>9, <2>13
      <3>2. CASE ~ Occurs(acc[i].text, Pattern(q))
        <4>1. acc[i + 1] = acc[i]
          BY <2>3, <2>7, <3>2, TurnUnused
        <4>2. QED
          BY <3>1, <4>1
      <3>3. CASE Occurs(acc[i].text, Pattern(q))
        <4>1. acc[i].text \in Seq(W) /\ value.text \in Seq(W)
          BY <2>4, <2>7, <2>11, <3>3, AnswerText
        <4>2. acc[i + 1].text = ReplaceText(acc[i].text, Pattern(q), value.text)
          <5>1. acc[i + 1] = Resolved(ReplaceText(acc[i].text, Pattern(q), value.text))
            BY <2>3, <2>7, <2>11, <3>3, TurnReplaces
          <5>2. QED
            BY <5>1, AnswerFields
        <4> HIDE DEF q, value
        <4>3. Occurs(ReplaceText(acc[i].text, Pattern(q), value.text), Pattern(p))
          BY <2>5, <3>1, <4>1, ReplaceKeeps
        <4>4. QED
          BY <4>2, <4>3
      <3>4. QED
        BY <3>2, <3>3
    <2>14. QED
      BY <2>6, <2>12, <2>13 DEF Complete
  <1>6. Nat \subseteq N
    <2> HIDE DEF N
    <2>1. QED
      BY <1>4, <1>5, Induction
  <1>7. QED
    BY <1>6

(* While nothing is missing, the loop has replaced exactly the             *)
(* placeholders it came to, if nothing but them has brackets.              *)
SoFar(items, policy, req, acc, i) ==
    Complete(policy, req, i) =>
        acc[i] = Resolved(FlattenSeq(Swapped(items, Values(policy, req, i))))

(* The values of what is complete are plain texts. *)
LEMMA ValuesArePlain ==
    ASSUME NEW W, NEW F, NEW policy, NEW req, Proper(policy, req, W, F),
           PlainNames(policy), PlainValues(policy, req),
           NEW i, Complete(policy, req, i)
    PROVE  PlainTexts(Values(policy, req, i), W) /\ DOMAIN Values(policy, req, i) = Placed(policy, i)
PROOF
  <1>1. ASSUME NEW p \in Placed(policy, i)
        PROVE  p \in Plains(W) /\ ValueFor(policy, req, p).text \in Plains(W)
    <2>1. p \in Mapped(policy) /\ ValueFor(policy, req, p).ok
      BY DEF Placed, Complete
    <2>2. ValueFor(policy, req, p) \in Answers(W)
      BY DEF ValueFor, Proper
    <2>3. ValueFor(policy, req, p).text \in Seq(W)
      BY <2>1, <2>2, AnswerText
    <2>4. IsPlain(ValueFor(policy, req, p).text)
      BY <2>1 DEF PlainValues
    <2>5. p \in Plains(W)
      BY <2>1, NamesArePlain
    <2>6. QED
      BY <2>3, <2>4, <2>5 DEF Plains
  <1>2. QED
    BY <1>1 DEF PlainTexts, Values

(* Plain texts are texts. *)
LEMMA PlainTextsSubst ==
    ASSUME NEW S, NEW subst, PlainTexts(subst, S)
    PROVE  PlainSubst(subst, S)
PROOF
  BY DEF PlainTexts, PlainSubst, Plains

(* Without names nothing is swapped. *)
LEMMA SwappedNothing ==
    ASSUME NEW S, NEW items \in Seq(S), NEW subst, DOMAIN subst = {}
    PROVE  Swapped(items, subst) = items
PROOF
  <1>1. \A it : SwapItem(it, subst) = it
    BY DEF SwapItem
  <1>2. QED
    BY <1>1 DEF Swapped

(* A name that is replaced by a plain value is gone. *)
LEMMA SwappedAway ==
    ASSUME NEW S, Brackets \subseteq S, NEW items \in Seq(Items(S)), NEW subst, PlainTexts(subst, S),
           NEW uu, uu = Swapped(items, subst), NEW q \in DOMAIN subst,
           NEW j \in 1..Len(uu), uu[j] = Pattern(q)
    PROVE  FALSE
PROOF
  <1>1. PlainSubst(subst, S) /\ \A p \in DOMAIN subst : p \in Plains(S) /\ subst[p] \in Plains(S)
    BY DEF PlainTexts, PlainSubst, Plains
  <1>2. Len(uu) = Len(items) /\ uu[j] = SwapItem(items[j], subst) /\ items[j] \in Items(S)
    <2>1. Len(Swapped(items, subst)) = Len(items)
      BY <1>1, SwappedType
    <2>2. j \in 1..Len(items)
      BY <2>1
    <2>3. Swapped(items, subst)[j] = SwapItem(items[j], subst)
      BY <1>1, <2>2, SwappedType
    <2>4. QED
      BY <2>1, <2>2, <2>3, ElementOfSeq
  <1>3. /\ \A p \in Plains(S) : Pattern(p) \notin Plains(S)
        /\ \A p, r \in Plains(S) : Pattern(p) = Pattern(r) => p = r
    BY PatternTellsApart
  <1>4. /\ \A p \in DOMAIN subst : SwapItem(Pattern(p), subst) = subst[p]
        /\ \A p \in Plains(S) \ DOMAIN subst : SwapItem(Pattern(p), subst) = Pattern(p)
        /\ \A t \in Plains(S) : SwapItem(t, subst) = t
    BY <1>1, SwapFacts
  <1>5. CASE items[j] \in Plains(S)
    <2>1. Pattern(q) = items[j] /\ q \in Plains(S)
      BY <1>1, <1>2, <1>4, <1>5, Zenon
    <2>2. QED
      BY <1>3, <1>5, <2>1, Zenon
  <1>6. CASE \E p \in Plains(S) : items[j] = Pattern(p)
    <2>1. PICK p \in Plains(S) : items[j] = Pattern(p)
      BY <1>6
    <2>2. CASE p \in DOMAIN subst
      <3>1. Pattern(q) = subst[p] /\ q \in Plains(S)
        BY <1>1, <1>2, <1>4, <2>1, <2>2, Zenon
      <3>2. QED
        BY <1>1, <1>3, <2>2, <3>1, Zenon
    <2>3. CASE p \notin DOMAIN subst
      <3>1. Pattern(q) = Pattern(p) /\ q \in Plains(S)
        BY <1>1, <1>2, <1>4, <2>1, <2>3, Zenon
      <3>2. QED
        BY <1>3, <2>3, <3>1, Zenon
    <2>4. QED
      BY <2>2, <2>3
  <1>7. QED
    BY <1>2, <1>5, <1>6 DEF Items

(* So it is after every turn. *)
LEMMA LoopReplaces ==
    ASSUME NEW W, Brackets \subseteq W, NEW F, NEW policy, NEW req, Proper(policy, req, W, F),
           PlainNames(policy), PlainValues(policy, req),
           NEW items \in Seq(Items(W)), FlattenSeq(items) = policy.resource,
           NEW acc, IsRun(policy, req, acc)
    PROVE  \A i \in 0..Len(policy.field_mappings) : SoFar(items, policy, req, acc, i)
PROOF
  <1> DEFINE maps == policy.field_mappings
             res == policy.resource
             M == [placeholder : Seq(W), request_field : F]
             N == {i \in Nat : i <= Len(maps) => SoFar(items, policy, req, acc, i)}
  <1>1. maps \in Seq(M) /\ res \in Seq(W)
    BY DEF Proper
  <1>2. Len(maps) \in Nat
    BY <1>1, LenProperties
  <1>3. \A p : /\ MappingOf(policy, p) \in 0..Len(maps)
               /\ p \in Mapped(policy) <=> Occurs(res, Pattern(p)) /\ MappingOf(policy, p) # 0
    <2> HIDE DEF M
    <2>1. QED
      BY <1>1, MappingOfIsFirst, MappedIsInTemplate
  <1>4. 0 \in N
    <2>1. acc[0] = Resolved(res)
      BY DEF IsRun, Loop!IsRun
    <2>2. Placed(policy, 0) = {}
      <3>1. ASSUME NEW p \in Placed(policy, 0) PROVE FALSE
        <4>1. MappingOf(policy, p) <= 0 /\ MappingOf(policy, p) # 0
          BY <1>3 DEF Placed
        <4>2. QED
          BY <1>2, <1>3, <4>1
      <3>2. QED
        BY <3>1
    <2>3. DOMAIN Values(policy, req, 0) = {}
      BY <2>2 DEF Values
    <2>4. Swapped(items, Values(policy, req, 0)) = items
      BY <2>3, SwappedNothing
    <2>5. SoFar(items, policy, req, acc, 0)
      BY <2>1, <2>4, Zenon DEF SoFar
    <2>6. QED
      BY <2>5
  <1>5. ASSUME NEW i \in Nat, i \in N PROVE i + 1 \in N
    <2>1. SUFFICES ASSUME i + 1 <= Len(maps), Complete(policy, req, i + 1)
                   PROVE  acc[i + 1] =
                              Resolved(FlattenSeq(Swapped(items, Values(policy, req, i + 1))))
      BY DEF SoFar
    <2>2. i \in 0..(Len(maps) - 1) /\ i \in 0..Len(maps) /\ i <= Len(maps) /\ i + 1 \in 1..Len(maps)
      BY <1>2, <2>1
    <2> DEFINE m == maps[i + 1]
               q == m.placeholder
               value == extractFieldFromRequest(req, m.request_field)
    <2>3. acc[i + 1] = applyMapping(req, acc[i], m)
      BY <2>2 DEF IsRun, Loop!IsRun
    <2>4. Named(m)
      <3>1. i + 1 \in 1..(i + 1)
        OBVIOUS
      <3>2. QED
        BY <2>1, <3>1 DEF Complete
    <2>5. /\ Placed(policy, i) \subseteq Placed(policy, i + 1)
          /\ \A p \in Placed(policy, i + 1) :
                 p \notin Placed(policy, i) => p = q /\ MappingOf(policy, p) = i + 1
          /\ Occurs(res, Pattern(q)) => q \in Placed(policy, i + 1)
          /\ Occurs(res, Pattern(q)) /\ q \notin Placed(policy, i) => MappingOf(policy, q) = i + 1
      <3>1. q # <<>>
        BY <2>4 DEF Named
      <3>2. QED
        BY <2>2, <3>1, PlacedStep
    <2>6. Complete(policy, req, i)
      <3>1. \A j \in 1..i : j \in 1..(i + 1)
        OBVIOUS
      <3>2. QED
        BY <2>1, <2>5, <3>1 DEF Complete
    <2>7. PICK old : old = Values(policy, req, i)
      OBVIOUS
    <2>8. PICK new : new = Values(policy, req, i + 1)
      OBVIOUS
    <2>9. /\ PlainTexts(old, W) /\ DOMAIN old = Placed(policy, i)
          /\ \A p \in DOMAIN old : old[p] = ValueFor(policy, req, p).text
      <3>1. \A p \in DOMAIN old : old[p] = ValueFor(policy, req, p).text
        BY <2>7 DEF Values
      <3>2. QED
        BY <2>6, <2>7, <3>1, ValuesArePlain
    <2>10. /\ PlainTexts(new, W) /\ PlainSubst(new, W) /\ DOMAIN new = Placed(policy, i + 1)
           /\ \A p \in DOMAIN new : new[p] = ValueFor(policy, req, p).text
      <3>1. \A p \in DOMAIN new : new[p] = ValueFor(policy, req, p).text
        BY <2>8 DEF Values
      <3>2. PlainTexts(new, W) /\ DOMAIN new = Placed(policy, i + 1)
        BY <2>1, <2>8, ValuesArePlain
      <3>3. QED
        BY <3>1, <3>2, PlainTextsSubst
    <2>11. q \in Plains(W)
      BY <2>2, NamesArePlain
    <2>12. PICK uu : uu = Swapped(items, old)
      OBVIOUS
    <2>13. acc[i] = Resolved(FlattenSeq(uu))
      BY <1>5, <2>2, <2>6, <2>7, <2>12, Zenon DEF SoFar
    <2>14. acc[i].ok /\ acc[i].text = FlattenSeq(uu)
      BY <2>13, AnswerFields
    <2>15. uu \in Seq(Items(W))
      BY <2>9, <2>12, SwappedTwice
    <2>16. Occurs(FlattenSeq(uu), Pattern(q)) <=> \E j \in 1..Len(uu) : uu[j] = Pattern(q)
      BY <2>11, <2>15, ItemsOccur
    <2>17. Occurs(res, Pattern(q)) <=> \E j \in 1..Len(items) : items[j] = Pattern(q)
      <3>1. Occurs(FlattenSeq(items), Pattern(q)) <=> \E j \in 1..Len(items) : items[j] = Pattern(q)
        BY <2>11, ItemsOccur
      <3>2. QED
        BY <3>1
    <2>18. q \notin DOMAIN old =>
               ((\E j \in 1..Len(uu) : uu[j] = Pattern(q)) <=>
                    (\E j \in 1..Len(items) : items[j] = Pattern(q)))
      <3>1. \A r \in Plains(W) \ DOMAIN old :
                (\E j \in 1..Len(Swapped(items, old)) : Swapped(items, old)[j] = Pattern(r)) <=>
                    (\E j \in 1..Len(items) : items[j] = Pattern(r))
        BY <2>9, SwappedTwice
      <3>2. QED
        BY <2>11, <2>12, <3>1, Zenon
    <2> HIDE DEF m, q, value
    <2>19. CASE ~ Occurs(FlattenSeq(uu), Pattern(q))
      <3>1. acc[i + 1] = acc[i]
        BY <2>3, <2>4, <2>14, <2>19, TurnUnused DEF q
      <3>2. ASSUME NEW p \in Placed(policy, i + 1) PROVE p \in Placed(policy, i)
        <4>1. SUFFICES ASSUME p \notin Placed(policy, i) PROVE FALSE
          OBVIOUS
        <4>2. p = q /\ Occurs(res, Pattern(q))
          BY <1>3, <2>5, <4>1 DEF Placed
        <4>3. QED
          BY <2>9, <2>16, <2>17, <2>18, <2>19, <4>1, <4>2
      <3>3. Placed(policy, i + 1) = Placed(policy, i)
        BY <2>5, <3>2
      <3>4. new = old
        BY <2>7, <2>8, <3>3 DEF Values
      <3>5. QED
        BY <2>8, <2>12, <2>13, <3>1, <3>4
    <2>20. CASE Occurs(FlattenSeq(uu), Pattern(q))
      <3>1. q \notin DOMAIN old
        <4>1. SUFFICES ASSUME q \in DOMAIN old PROVE FALSE
          OBVIOUS
        <4>2. PICK j \in 1..Len(uu) : uu[j] = Pattern(q)
          BY <2>16, <2>20
        <4>3. QED
          BY <2>9, <2>11, <2>12, <2>15, <4>1, <4>2, SwappedAway
      <3>2. Occurs(res, Pattern(q))
        BY <2>16, <2>17, <2>18, <2>20, <3>1
      <3>3. q \in Placed(policy, i + 1) /\ MappingOf(policy, q) = i + 1
        BY <2>5, <2>9, <3>1, <3>2
      <3>4. ValueFor(policy, req, q) = value
        BY <3>3 DEF ValueFor, value, m
      <3>5. value.ok
        BY <2>1, <3>3, <3>4 DEF Complete
      <3>6. PICK v \in Seq(W) : v = value.text
        <4>1. value \in Answers(W)
          BY DEF Proper, value
        <4>2. QED
          BY <3>5, <4>1, AnswerText
      <3>7. acc[i + 1] = Resolved(ReplaceText(FlattenSeq(uu), Pattern(q), v))
        <4>1. acc[i + 1] = Resolved(ReplaceText(acc[i].text, Pattern(q), value.text))
          BY <2>3, <2>4, <2>14, <2>20, <3>5, TurnReplaces DEF q, value
        <4>2. QED
          BY <2>14, <3>6, <4>1, Zenon
      <3>8. PICK one : IsOne(one, q, v)
        BY DEF IsOne
      <3>9. /\ PlainSubst(one, W)
            /\ ReplaceText(FlattenSeq(uu), Pattern(q), v) = FlattenSeq(Swapped(uu, one))
        BY <2>11, <2>15, <3>8, ItemsReplaceText
      <3>10. OneMore(old, q, one, new, W)
        <4>1. DOMAIN one = {q} /\ one[q] = v
          BY <3>8 DEF IsOne
        <4>2. DOMAIN new = DOMAIN old \cup {q}
          BY <2>5, <2>9, <2>10, <3>3
        <4>3. new[q] = v
          BY <2>10, <3>3, <3>4, <3>6
        <4>4. \A p \in DOMAIN old : new[p] = old[p]
          BY <2>5, <2>9, <2>10
        <4>5. QED
          BY <2>10, <3>9, <4>1, <4>2, <4>3, <4>4 DEF OneMore
      <3>11. Swapped(uu, one) = Swapped(items, new)
        <4>1. \A r \in Plains(W) \ DOMAIN old : \A o, n :
                  OneMore(old, r, o, n, W) => Swapped(Swapped(items, old), o) = Swapped(items, n)
          BY <2>9, SwappedTwice
        <4>2. QED
          BY <2>11, <2>12, <3>1, <3>10, <4>1, Zenon
      <3>12. QED
        BY <2>8, <3>7, <3>9, <3>11, Zenon
    <2>21. QED
      BY <2>19, <2>20
  <1>6. Nat \subseteq N
    <2> HIDE DEF N
    <2>1. QED
      BY <1>4, <1>5, Induction
  <1>7. QED
    BY <1>6

(* Policies of the schema and requests with texts are proper, with         *)
(* brackets or without.                                                    *)
LEMMA ProperMessages ==
    ASSUME NEW T, NEW F, NEW policy \in PolicyMessages(T, F), NEW req, HasTexts(req, T)
    PROVE  Proper(policy, req, T, F) /\ Proper(policy, req, T \cup Brackets, F)
PROOF
  <1> DEFINE M(W) == [placeholder : Seq(W), request_field : F]
  <1>1. policy.resource \in Seq(T) /\ policy.field_mappings \in Seq(M(T))
    BY DEF PolicyMessages
  <1>2. \A field : extractFieldFromRequest(req, field) \in Answers(T)
    BY ExtractType
  <1>3. Seq(T) \subseteq Seq(T \cup Brackets)
    BY SeqMonotonic
  <1>4. Seq(M(T)) \subseteq Seq(M(T \cup Brackets))
    <2>1. M(T) \subseteq M(T \cup Brackets)
      BY <1>3
    <2> HIDE DEF M
    <2>2. QED
      BY <2>1, SeqMonotonic
  <1>5. Answers(T) \subseteq Answers(T \cup Brackets)
    BY <1>3 DEF Answers
  <1>6. QED
    BY <1>1, <1>2, <1>3, <1>4, <1>5 DEF Proper

(* With all mappings done nothing is missing just if the policy is not     *)
(* broken and the request resolves it.                                     *)
LEMMA CompleteAtTheEnd ==
    ASSUME NEW W, NEW F, NEW policy, NEW req, Proper(policy, req, W, F), ~ Blank(policy)
    PROVE  /\ Placed(policy, Len(policy.field_mappings)) = Mapped(policy)
           /\ Complete(policy, req, Len(policy.field_mappings)) <=>
                  ~ BrokenPolicy(policy) /\ ~ Unresolvable(policy, req)
PROOF
  <1> DEFINE maps == policy.field_mappings
             n == Len(maps)
             M == [placeholder : Seq(W), request_field : F]
  <1>1. maps \in Seq(M)
    BY DEF Proper
  <1>2. n \in Nat /\ DOMAIN maps = 1..n
    BY <1>1, LenProperties
  <1>3. \A p : MappingOf(policy, p) \in 0..n
    BY <1>1, MappingOfIsFirst
  <1>4. Placed(policy, n) = Mapped(policy)
    <2>1. \A p : MappingOf(policy, p) <= n
      BY <1>2, <1>3
    <2>2. QED
      BY <2>1 DEF Placed
  <1>5. BrokenPolicy(policy) <=> \E j \in 1..n : ~ Named(maps[j])
    BY <1>2 DEF BrokenPolicy, Blank, Named, ToSet
  <1>6. Unresolvable(policy, req) <=> \E p \in Placed(policy, n) : ~ ValueFor(policy, req, p).ok
    BY <1>4 DEF Unresolvable
  <1>7. QED
    BY <1>4, <1>5, <1>6 DEF Complete

(* resolveResourceFromRequest fails for every policy that is broken and,   *)
(* if the names of the mappings are plain, for every request without a     *)
(* usable field for a placeholder of the template, even where the values   *)
(* of other fields put brackets and placeholders into the text.            *)
THEOREM FailsWhenItMust ==
    ASSUME NEW T, NEW F, NEW policy \in PolicyMessages(T, F), NEW req, HasTexts(req, T),
           resolveResourceFromRequest(policy, req).ok
    PROVE  ~ BrokenPolicy(policy) /\ (PlainNames(policy) => ~ Unresolvable(policy, req))
PROOF
  <1> DEFINE n == Len(policy.field_mappings)
             W == T \cup Brackets
             M == [placeholder : Seq(W), request_field : F]
  <1>1. Proper(policy, req, W, F)
    BY ProperMessages
  <1>2. policy.field_mappings \in Seq(M)
    BY <1>1 DEF Proper
  <1>3. n \in 0..n /\ DOMAIN policy.field_mappings = 1..n
    <2>1. n \in Nat /\ DOMAIN policy.field_mappings = 1..n
      BY <1>2, LenProperties
    <2>2. QED
      BY <2>1
  <1>4. ~ Blank(policy)
    BY <1>3, ResolveIsLoop, AnswerFields
  <1>5. PICK acc : IsRun(policy, req, acc) /\ resolveResourceFromRequest(policy, req) = acc[n]
    BY <1>2, <1>4, LoopTurns
  <1>6. \A j \in 1..n : Named(policy.field_mappings[j])
    BY <1>1, <1>3, <1>5, LoopNamed
  <1>7. ~ BrokenPolicy(policy)
    BY <1>3, <1>4, <1>6 DEF BrokenPolicy, Blank, Named, ToSet
  <1>8. ASSUME PlainNames(policy) PROVE ~ Unresolvable(policy, req)
    <2>1. Brackets \subseteq W
      OBVIOUS
    <2> HIDE DEF W
    <2>2. Open(policy, req, acc, n)
      BY <1>1, <1>3, <1>5, <1>8, <2>1, LoopOpen
    <2>3. Complete(policy, req, n)
      BY <1>5, <2>2 DEF Open
    <2>4. QED
      BY <1>1, <1>4, <2>3, CompleteAtTheEnd
  <1>9. QED
    BY <1>7, <1>8

(* If there are no brackets but those around the names in the template, it *)
(* fails for no other reason, and the resource is the template with all    *)
(* its placeholders replaced at the same time: the order in which the      *)
(* field mappings are declared, a second mapping for a name and a mapping  *)
(* that the template does not use make no difference.                      *)
THEOREM ResolvesSimultaneously ==
    ASSUME NEW T, NEW F, NEW policy \in PolicyMessages(T, F), NEW req, HasTexts(req, T),
           Plain(policy, req), ~ BrokenPolicy(policy), ~ Unresolvable(policy, req)
    PROVE  resolveResourceFromRequest(policy, req) =
               Resolved(SimultaneousSubstitution(policy, req))
PROOF
  <1> DEFINE n == Len(policy.field_mappings)
             M(W) == [placeholder : Seq(W), request_field : F]
  <1>1. PICK W : W = T \cup Brackets
    OBVIOUS
  <1>2. Proper(policy, req, W, F) /\ Brackets \subseteq W
    BY <1>1, ProperMessages
  <1>3. policy.field_mappings \in Seq(M(W)) /\ policy.resource \in Seq(W)
    BY <1>2 DEF Proper
  <1>4. n \in 0..n
    <2>1. n \in Nat
      BY <1>3, LenProperties
    <2>2. QED
      BY <2>1
  <1>5. ~ Blank(policy)
    BY DEF Blank, BrokenPolicy
  <1>6. PICK acc : IsRun(policy, req, acc) /\ resolveResourceFromRequest(policy, req) = acc[n]
    BY <1>3, <1>5, LoopTurns
  <1>7. PlainNames(policy) /\ PlainValues(policy, req) /\ WellBracketed(policy.resource)
    BY DEF Plain
  <1>8. PICK items \in Seq(Items(W)) : FlattenSeq(items) = policy.resource
    <2>1. Itemized(policy.resource, W)
      BY <1>2, <1>3, <1>7, WellBracketedItems
    <2>2. QED
      BY <2>1, Zenon DEF Itemized
  <1>9. SoFar(items, policy, req, acc, n)
    BY <1>2, <1>4, <1>6, <1>7, <1>8, LoopReplaces
  <1>10. Complete(policy, req, n) /\ Placed(policy, n) = Mapped(policy)
    BY <1>2, <1>5, CompleteAtTheEnd
  <1>11. PICK subst : subst = Values(policy, req, n)
    OBVIOUS
  <1>12. PlainSubst(subst, W)
    BY <1>2, <1>7, <1>10, <1>11, ValuesArePlain, PlainTextsSubst
  <1>13. SimultaneousSubstitution(policy, req) = ReplaceEach(policy.resource, subst)
    BY <1>10, <1>11 DEF SimultaneousSubstitution, Values
  <1>14. ReplaceEach(FlattenSeq(items), subst) = FlattenSeq(Swapped(items, subst))
    BY <1>2, <1>12, ItemsReplaceEach
  <1>15. QED
    BY <1>6, <1>8, <1>9, <1>10, <1>11, <1>13, <1>14, Zenon DEF SoFar

(* A resolution that does not fail gives a text. *)
LEMMA ResolvesToText ==
    ASSUME NEW T, NEW F, NEW policy \in PolicyMessages(T, F), NEW req, HasTexts(req, T),
           resolveResourceFromRequest(policy, req).ok
    PROVE  resolveResourceFromRequest(policy, req).text \in Seq(T)
PROOF
  <1> DEFINE n == Len(policy.field_mappings)
             M == [placeholder : Seq(T), request_field : F]
  <1>1. Proper(policy, req, T, F)
    BY ProperMessages
  <1>2. policy.field_mappings \in Seq(M)
    BY <1>1 DEF Proper
  <1>3. n \in 0..n /\ DOMAIN policy.field_mappings = 1..n
    <2>1. n \in Nat /\ DOMAIN policy.field_mappings = 1..n
      BY <1>2, LenProperties
    <2>2. QED
      BY <2>1
  <1>4. ~ Blank(policy)
    BY <1>3, ResolveIsLoop, AnswerFields
  <1>5. PICK acc : IsRun(policy, req, acc) /\ resolveResourceFromRequest(policy, req) = acc[n]
    BY <1>2, <1>4, LoopTurns
  <1>6. acc[n] \in Answers(T)
    BY <1>1, <1>3, <1>5, LoopType
  <1>7. QED
    BY <1>5, <1>6, AnswerText

-----------------------------------------------------------------------------
(* What stands before the first placeholder stays *)

(* After every turn the text starts as the template does. *)
LEMMA LoopKeepsHead ==
    ASSUME NEW W, Brackets \subseteq W, NEW F, NEW policy, NEW req, Proper(policy, req, W, F),
           NEW acc, IsRun(policy, req, acc),
           NEW head \in Seq(W), StartsWith(policy.resource, head, W), Bare(head)
    PROVE  \A i \in 0..Len(policy.field_mappings) :
               acc[i].ok => StartsWith(acc[i].text, head, W)
PROOF
  <1> DEFINE maps == policy.field_mappings
             N == {i \in Nat : i <= Len(maps) /\ acc[i].ok => StartsWith(acc[i].text, head, W)}
  <1>1. 0 \in N
    <2>1. acc[0].text = policy.resource
      BY AnswerFields DEF IsRun, Loop!IsRun
    <2>2. QED
      BY <2>1
  <1>2. ASSUME NEW i \in Nat, i \in N PROVE i + 1 \in N
    <2>1. SUFFICES ASSUME i + 1 <= Len(maps), acc[i + 1].ok
                   PROVE  StartsWith(acc[i + 1].text, head, W)
      OBVIOUS
    <2>2. Len(maps) \in Nat
      BY LenProperties DEF Proper
    <2>3. i \in 0..(Len(maps) - 1) /\ i <= Len(maps) /\ i + 1 \in 1..Len(maps)
      BY <2>1, <2>2
    <2> DEFINE m == maps[i + 1]
               value == extractFieldFromRequest(req, m.request_field)
    <2>4. acc[i + 1] = applyMapping(req, acc[i], m)
      BY <2>3 DEF IsRun, Loop!IsRun
    <2>5. acc[i].ok => StartsWith(acc[i].text, head, W)
      BY <1>2, <2>3
    <2>6. value \in Answers(W)
      BY DEF Proper
    <2>7. m.placeholder \in Seq(W)
      <3>1. maps \in Seq([placeholder : Seq(W), request_field : F])
        BY DEF Proper
      <3>2. m \in [placeholder : Seq(W), request_field : F]
        BY <2>3, <3>1, ElementOfSeq
      <3>3. QED
        BY <3>2
    <2>8. ~ Failed.ok
      BY AnswerFields
    <2> HIDE DEF m, value
    <2>9. CASE acc[i + 1] = acc[i]
      BY <2>1, <2>5, <2>9, Zenon
    <2>10. CASE acc[i + 1] # acc[i]
      <3>1. acc[i + 1] # Failed
        BY <2>1, <2>8, Zenon
      <3>2. /\ acc[i].ok /\ value.ok /\ Named(m)
            /\ acc[i + 1] = Resolved(ReplaceText(acc[i].text, Pattern(m.placeholder), value.text))
        BY <2>4, <2>10, <3>1, TurnFailed, TurnBroken, TurnUnused, TurnMissing, TurnReplaces
        DEF value
      <3>3. value.text \in Seq(W)
        BY <2>6, <3>2, AnswerText
      <3>5. StartsWith(ReplaceText(acc[i].text, Pattern(m.placeholder), value.text), head, W)
        BY <2>5, <2>7, <3>2, <3>3, ReplaceBehind
      <3>6. QED
        BY <3>2, <3>5, AnswerFields, Zenon
    <2>11. QED
      BY <2>9, <2>10
  <1>3. Nat \subseteq N
    <2> HIDE DEF N
    <2>1. QED
      BY <1>1, <1>2, Induction
  <1>4. QED
    BY <1>3

(* The resource of every request starts with the text before the first     *)
(* opening bracket of the template, whatever the fields and the names of   *)
(* the mappings hold.                                                      *)
THEOREM ResolvesBehindItsHead ==
    ASSUME NEW T, Brackets \subseteq T, NEW F, NEW policy \in PolicyMessages(T, F),
           NEW req, HasTexts(req, T), resolveResourceFromRequest(policy, req).ok,
           NEW head \in Seq(T), StartsWith(policy.resource, head, T), Bare(head)
    PROVE  StartsWith(resolveResourceFromRequest(policy, req).text, head, T)
PROOF
  <1> DEFINE n == Len(policy.field_mappings)
             M == [placeholder : Seq(T), request_field : F]
  <1>1. Proper(policy, req, T, F)
    BY ProperMessages
  <1>2. policy.field_mappings \in Seq(M)
    BY <1>1 DEF Proper
  <1>3. n \in 0..n /\ DOMAIN policy.field_mappings = 1..n
    <2>1. n \in Nat /\ DOMAIN policy.field_mappings = 1..n
      BY <1>2, LenProperties
    <2>2. QED
      BY <2>1
  <1>4. ~ Blank(policy)
    BY <1>3, ResolveIsLoop, AnswerFields
  <1>5. PICK acc : IsRun(policy, req, acc) /\ resolveResourceFromRequest(policy, req) = acc[n]
    BY <1>2, <1>4, LoopTurns
  <1>6. acc[n].ok => StartsWith(acc[n].text, head, T)
    BY <1>1, <1>3, <1>5, LoopKeepsHead
  <1>7. QED
    BY <1>5, <1>6, Zenon
=============================================================================
