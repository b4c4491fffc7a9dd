------------------------- MODULE PolicyOptionProofs -------------------------
(***************************************************************************)
(* Proofs about PolicyOption for any number of concurrent calls, any       *)
(* names, any registry and any requests.                                   *)
(*                                                                         *)
(* A full method name is split at its last slash and looked up in the      *)
(* registry: the first part shows that this finds the policy that the      *)
(* method declares.  The second part is the inductive invariant: the       *)
(* caches hold nothing but results of that lookup, and each call has its   *)
(* own.                                                                    *)
(***************************************************************************)
EXTENDS PolicyOption, PolicyTemplateProofs

-----------------------------------------------------------------------------
(* The names *)

FullName(s, m) == <<"/">> \o s \o <<"/">> \o m

(* A service that has a method declares it, with a policy or without. *)
IsDeclared(s, m) == s \in DOMAIN Registry /\ m \in DOMAIN Registry[s]

(* What is in the registry: no method has a slash in its name, and what a  *)
(* method declares is an outcome of the lookup.                            *)
LEMMA DeclaredType ==
    ASSUME NEW s, NEW m, IsDeclared(s, m)
    PROVE  /\ s \in Seq(STRING) /\ m \in Seq(STRING) /\ ~ Contains(m, "/")
           /\ Registry[s][m] \in PolicyMessages(STRING, STRING) \cup {nil}
           /\ cachedPolicy(Registry[s][m], FALSE) \in Outcomes
PROOF
  <1>1. /\ s \in Seq(STRING) /\ m \in Seq(STRING \ {"/"})
        /\ Registry[s][m] \in PolicyMessages(STRING, STRING) \cup {nil}
    BY RegistryAssumption DEF IsDeclared
  <1>2. m \in Seq(STRING)
    BY <1>1, SeqMonotonic
  <1>3. \A i \in 1..Len(m) : m[i] \in STRING \ {"/"}
    BY <1>1, ElementOfSeq
  <1>4. ~ Contains(m, "/")
    BY <1>3 DEF Contains
  <1>5. Registry[s][m] \in UNION {Range(Registry[t]) : t \in DOMAIN Registry}
    BY DEF IsDeclared, Range
  <1>6. cachedPolicy(Registry[s][m], FALSE) \in Outcomes
    BY <1>5 DEF Outcomes
  <1>7. QED
    BY <1>1, <1>2, <1>4, <1>6

(* f is a text of length k followed by a text of length l. *)
Follows(f, a, k, b, l) ==
    /\ Len(f) = k + l
    /\ \A i \in 1..k : f[i] = a[i]
    /\ \A i \in 1..l : f[k + i] = b[i]

(* Where the elements of two sequences are once they are joined. *)
LEMMA ConcatAt ==
    ASSUME NEW S, NEW a \in Seq(S), NEW b \in Seq(S)
    PROVE  a \o b \in Seq(S) /\ Follows(a \o b, a, Len(a), b, Len(b))
PROOF
  BY DEF Follows

InFourParts(f, x, s, k, m, l) ==
    /\ Len(f) = k + l + 2
    /\ f[1] = x /\ f[k + 2] = x
    /\ \A i \in 1..k : f[i + 1] = s[i]
    /\ \A i \in 1..l : f[k + 2 + i] = m[i]

(* Where the elements of x, s, x and m are once they are joined. *)
LEMMA FourParts ==
    ASSUME NEW S, NEW x \in S, NEW s \in Seq(S), NEW m \in Seq(S)
    PROVE  /\ <<x>> \o s \o <<x>> \o m \in Seq(S)
           /\ InFourParts(<<x>> \o s \o <<x>> \o m, x, s, Len(s), m, Len(m))
PROOF
  <1>1. PICK one \in Seq(S) : one = <<x>> /\ Len(one) = 1 /\ one[1] = x
    <2>1. <<x>> \in Seq(S) /\ Len(<<x>>) = 1 /\ <<x>>[1] = x
      OBVIOUS
    <2>2. QED
      BY <2>1, Zenon
  <1>2. PICK k \in Nat, l \in Nat : k = Len(s) /\ l = Len(m)
    BY LenProperties
  <1>3. PICK a \in Seq(S) : a = one \o s /\ Follows(a, one, Len(one), s, k)
    BY <1>2, ConcatAt, Zenon
  <1>4. PICK b \in Seq(S) : b = a \o one /\ Follows(b, a, Len(a), one, Len(one))
    BY ConcatAt, Zenon
  <1>5. PICK f \in Seq(S) : f = b \o m /\ Follows(f, b, Len(b), m, l)
    BY <1>2, ConcatAt, Zenon
  <1>6. Len(one) = 1 /\ one[1] = x
    BY <1>1, Zenon
  <1>7. Follows(a, one, 1, s, k) /\ Follows(b, a, Len(a), one, 1)
    BY <1>3, <1>4, <1>6, Zenon
  <1>8. Len(a) = 1 + k /\ Len(b) = Len(a) + 1
    BY <1>7, Zenon DEF Follows
  <1>9. Len(a) = k + 1 /\ Len(b) = k + 2
    BY <1>8
  <1>10. Follows(b, a, k + 1, one, 1) /\ Follows(f, b, k + 2, m, l)
    BY <1>5, <1>7, <1>9, Zenon
  <1>11. InFourParts(f, x, s, k, m, l)
    BY <1>6, <1>7, <1>10 DEF Follows, InFourParts
  <1>12. f = <<x>> \o s \o <<x>> \o m
    BY <1>1, <1>3, <1>4, <1>5, Zenon
  <1>13. QED
    BY <1>2, <1>11, <1>12, Zenon

(* Sequences of the same four parts are the same. *)
LEMMA SamePieces ==
    ASSUME NEW S, NEW x, NEW s, NEW m, NEW k \in Nat, NEW l \in Nat,
           NEW f \in Seq(S), NEW g \in Seq(S),
           InFourParts(f, x, s, k, m, l), InFourParts(g, x, s, k, m, l)
    PROVE  f = g
PROOF
  <1>1. Len(f) = k + l + 2 /\ Len(g) = k + l + 2
    BY DEF InFourParts
  <1>2. ASSUME NEW i \in 1..Len(f) PROVE f[i] = g[i]
    <2>1. \/ i = 1 \/ i = k + 2
          \/ \E j \in 1..k : i = j + 1
          \/ \E j \in 1..l : i = k + 2 + j
      <3>1. CASE i \in 2..(k + 1)
        <4>1. i - 1 \in 1..k /\ i = (i - 1) + 1
          BY <3>1
        <4>2. QED
          BY <4>1, Zenon
      <3>2. CASE i > k + 2
        <4>1. i - (k + 2) \in 1..l /\ i = k + 2 + (i - (k + 2))
          BY <1>1, <3>2
        <4>2. QED
          BY <4>1, Zenon
      <3>3. i = 1 \/ i = k + 2 \/ i \in 2..(k + 1) \/ i > k + 2
        BY <1>1
      <3>4. QED
        BY <3>1, <3>2, <3>3
    <2>2. QED
      BY <2>1, Zenon DEF InFourParts
  <1>3. QED
    BY <1>1, <1>2, SeqEqual

(* If m does not have x, the second x is the last one. *)
LEMMA LastOfParts ==
    ASSUME NEW x, NEW s, NEW m, NEW k \in Nat, NEW l \in Nat, NEW f,
           InFourParts(f, x, s, k, m, l), \A i \in 1..l : m[i] # x
    PROVE  \A i \in 1..Len(f) : f[i] = x => i <= k + 2
PROOF
  <1>1. Len(f) = k + l + 2
    BY DEF InFourParts
  <1>2. SUFFICES ASSUME NEW i \in 1..Len(f), f[i] = x, i > k + 2 PROVE FALSE
    BY <1>1
  <1>3. i - (k + 2) \in 1..l /\ i = k + 2 + (i - (k + 2))
    BY <1>1, <1>2
  <1>4. \A j \in 1..l : f[k + 2 + j] = m[j]
    BY DEF InFourParts
  <1>5. f[k + 2 + (i - (k + 2))] = m[i - (k + 2)]
    BY <1>3, <1>4, Zenon
  <1>6. QED
    BY <1>2, <1>3, <1>5, Zenon

(* The texts of names: the provers do not know that "/" is a string.       *)
Tokens == STRING \cup {"/"}

(* The four parts of a full method name. *)
LEMMA FullNameParts ==
    ASSUME NEW s \in Seq(Tokens), NEW m \in Seq(Tokens)
    PROVE  /\ FullName(s, m) \in Seq(Tokens)
           /\ InFourParts(FullName(s, m), "/", s, Len(s), m, Len(m))
PROOF
  <1>1. "/" \in Tokens
    BY DEF Tokens
  <1>2. QED
    BY <1>1, FourParts, Zenon DEF FullName

(* The last slash of a text. *)
LEMMA LastSlash ==
    ASSUME NEW t \in Seq(Tokens), Contains(t, "/")
    PROVE  LET last == SelectLastInSeq(t, IsSlash)
           IN  /\ last \in 1..Len(t)
               /\ t[last] = "/"
               /\ \A i \in 1..Len(t) : t[i] = "/" => i <= last
PROOF
  <1> DEFINE I == {i \in 1..Len(t) : IsSlash(t[i])}
  <1>1. SelectLastInSeq(t, IsSlash) = IF I # {} THEN Max(I) ELSE 0
    BY DEF SelectLastInSeq
  <1>2. I # {}
    BY DEF Contains, IsSlash
  <1>3. Len(t) \in Nat /\ I \in SUBSET (1..Len(t))
    BY LenProperties
  <1>4. Max(I) \in I /\ \A i \in I : i <= Max(I)
    <2> HIDE DEF I
    <2>1. QED
      BY <1>2, <1>3, MaxIsLargest
  <1>5. QED
    BY <1>1, <1>2, <1>4 DEF IsSlash

(* The text after the leading slash. *)
LEMMA AfterSlash ==
    ASSUME NEW n \in Seq(Tokens), n # <<>>
    PROVE  /\ Tail(n) \in Seq(Tokens) /\ Len(n) \in Nat /\ Len(Tail(n)) \in Nat
           /\ Len(n) = Len(Tail(n)) + 1
           /\ \A i \in 1..Len(Tail(n)) : Tail(n)[i] = n[i + 1]
PROOF
  BY HeadTailProperties, LenProperties

(* p is the part of t of length k that follows its first j elements.       *)
IsPart(p, t, j, k) == Len(p) = k /\ \A i \in 1..k : p[i] = t[j + i]

(* The part before a position. *)
LEMMA Before ==
    ASSUME NEW S, NEW t \in Seq(S), NEW i \in 1..Len(t)
    PROVE  SubSeq(t, 1, i - 1) \in Seq(S) /\ IsPart(SubSeq(t, 1, i - 1), t, 0, i - 1)
PROOF
  <1>1. Len(t) \in Nat
    BY LenProperties
  <1>2. QED
    BY <1>1 DEF IsPart

(* The part after a position. *)
LEMMA After ==
    ASSUME NEW S, NEW t \in Seq(S), NEW i \in 1..Len(t)
    PROVE  /\ SubSeq(t, i + 1, Len(t)) \in Seq(S)
           /\ IsPart(SubSeq(t, i + 1, Len(t)), t, i, Len(t) - i)
PROOF
  <1>1. Len(t) \in Nat
    BY LenProperties
  <1>2. QED
    BY <1>1 DEF IsPart

(* The two parts of a name and the slash between them are the name. *)
LEMMA ParseJoins ==
    ASSUME NEW n \in Seq(Tokens), parseFullMethodName(n) # nil
    PROVE  \E s \in Seq(Tokens), m \in Seq(Tokens) :
               parseFullMethodName(n) = [service |-> s, method |-> m] /\ n = FullName(s, m)
PROOF
  <1>1. n # <<>> /\ n[1] = "/" /\ Contains(Tail(n), "/")
    BY DEF parseFullMethodName
  <1>2. PICK t \in Seq(Tokens) :
            /\ t = Tail(n) /\ Len(n) = Len(t) + 1 /\ Len(t) \in Nat
            /\ \A i \in 1..Len(t) : t[i] = n[i + 1]
    BY <1>1, AfterSlash, Zenon
  <1>3. PICK last \in 1..Len(t) : last = SelectLastInSeq(t, IsSlash) /\ t[last] = "/"
    BY <1>1, <1>2, LastSlash, Zenon
  <1>4. PICK s \in Seq(Tokens) : s = SubSeq(t, 1, last - 1) /\ IsPart(s, t, 0, last - 1)
    BY Before, Zenon
  <1>5. PICK m \in Seq(Tokens) :
            m = SubSeq(t, last + 1, Len(t)) /\ IsPart(m, t, last, Len(t) - last)
    BY After, Zenon
  <1>6. PICK k \in Nat, l \in Nat : last = k + 1 /\ Len(t) = k + l + 1
    <2>1. last - 1 \in Nat /\ Len(t) - last \in Nat /\ last = (last - 1) + 1
          /\ Len(t) = (last - 1) + (Len(t) - last) + 1
      BY <1>2, <1>3
    <2>2. QED
      BY <2>1, Zenon
  <1>7. IsPart(s, t, 0, k) /\ IsPart(m, t, k + 1, l)
    <2>1. last - 1 = k /\ Len(t) - last = l
      BY <1>6
    <2>2. QED
      BY <1>4, <1>5, <1>6, <2>1, Zenon
  <1>8. InFourParts(n, "/", s, k, m, l) /\ Len(s) = k /\ Len(m) = l
    <2>1. Len(n) = k + l + 2 /\ n[k + 2] = "/"
      <3>1. Len(n) = Len(t) + 1 /\ n[last + 1] = t[last] /\ t[last] = "/"
        BY <1>2, <1>3, Zenon
      <3>2. last + 1 = k + 2
        BY <1>6
      <3>3. Len(n) = k + l + 2
        BY <1>6, <3>1
      <3>4. QED
        BY <3>1, <3>2, <3>3, Zenon
    <2>2. ASSUME NEW i \in 1..k PROVE n[i + 1] = s[i]
      <3>1. 0 + i = i /\ i \in 1..Len(t)
        BY <1>6
      <3>2. s[i] = t[0 + i]
        BY <1>7, Zenon DEF IsPart
      <3>3. s[i] = t[i] /\ t[i] = n[i + 1]
        BY <1>2, <3>1, <3>2, Zenon
      <3>4. QED
        BY <3>3, Zenon
    <2>3. ASSUME NEW i \in 1..l PROVE n[k + 2 + i] = m[i]
      <3>1. k + 1 + i \in 1..Len(t) /\ (k + 1 + i) + 1 = k + 2 + i
        BY <1>6
      <3>2. m[i] = t[k + 1 + i] /\ t[k + 1 + i] = n[(k + 1 + i) + 1]
        BY <1>2, <1>7, <3>1, Zenon DEF IsPart
      <3>3. QED
        BY <3>1, <3>2, Zenon
    <2>4. Len(s) = k /\ Len(m) = l
      BY <1>7, Zenon DEF IsPart
    <2>5. QED
      BY <1>1, <2>1, <2>2, <2>3, <2>4, Zenon DEF InFourParts
  <1>9. n = FullName(s, m)
    <2>1. FullName(s, m) \in Seq(Tokens) /\ InFourParts(FullName(s, m), "/", s, k, m, l)
      BY <1>8, FullNameParts, Zenon
    <2>2. QED
      BY <1>8, <2>1, SamePieces, Zenon
  <1>10. parseFullMethodName(n) = [service |-> s, method |-> m]
    BY <1>1, <1>2, <1>3, <1>4, <1>5, Zenon DEF parseFullMethodName
  <1>11. QED
    BY <1>9, <1>10, Zenon

(* A name is read as the service and the method it is made of: the slash   *)
(* between them is the last one, as no method has a slash in its name.     *)
LEMMA ParseSplits ==
    ASSUME NEW n \in Seq(Tokens), NEW s \in Seq(Tokens), NEW m \in Seq(Tokens),
           ~ Contains(m, "/"), n = FullName(s, m)
    PROVE  /\ parseFullMethodName(n) = [service |-> s, method |-> m]
PROOF
  <1>1. PICK k \in Nat, l \in Nat : k = Len(s) /\ l = Len(m)
    BY LenProperties
  <1>2. InFourParts(n, "/", s, k, m, l)
    BY <1>1, FullNameParts, Zenon
  <1>3. Len(n) = k + l + 2 /\ n[1] = "/" /\ n[k + 2] = "/"
    BY <1>2, Zenon DEF InFourParts
  <1>4. n # <<>>
    <2>1. Len(n) # 0
      BY <1>3
    <2>2. QED
      BY <2>1, EmptySeq
  <1>5. PICK t \in Seq(Tokens) :
            /\ t = Tail(n) /\ Len(n) = Len(t) + 1 /\ Len(t) \in Nat
            /\ \A i \in 1..Len(t) : t[i] = n[i + 1]
    BY <1>4, AfterSlash, Zenon
  <1>6. PICK j \in 1..Len(t) : j = k + 1
    <2>1. Len(n) = Len(t) + 1 /\ Len(t) \in Nat
      BY <1>5, Zenon
    <2>2. k + 1 \in 1..Len(t)
      BY <1>3, <2>1
    <2>3. QED
      BY <2>2
  <1>7. t[j] = "/" /\ Contains(t, "/")
    <2>1. j + 1 = k + 2
      BY <1>6
    <2>2. t[j] = "/"
      BY <1>3, <1>5, <2>1, Zenon
    <2>3. QED
      BY <2>2, Zenon DEF Contains
  <1>8. PICK last \in 1..Len(t) :
            /\ last = SelectLastInSeq(t, IsSlash) /\ t[last] = "/"
            /\ \A i \in 1..Len(t) : t[i] = "/" => i <= last
    BY <1>7, LastSlash, Zenon
  <1>9. last = j
    <2>1. j <= last
      BY <1>7, <1>8, Zenon
    <2>2. n[last + 1] = "/" /\ Len(n) = Len(t) + 1 /\ Len(t) \in Nat
      BY <1>5, <1>8, Zenon
    <2>3. last + 1 \in 1..Len(n)
      BY <2>2
    <2>4. \A i \in 1..l : m[i] # "/"
      BY <1>1, Zenon DEF Contains
    <2>5. last + 1 <= k + 2
      BY <1>2, <2>2, <2>3, <2>4, LastOfParts, Zenon
    <2>6. QED
      BY <1>6, <2>1, <2>5
  <1>10. Len(t) = k + l + 1
    <2>1. Len(n) = Len(t) + 1 /\ Len(t) \in Nat
      BY <1>5, Zenon
    <2>2. QED
      BY <1>3, <2>1
  <1>11. SubSeq(t, 1, last - 1) = s
    <2>1. PICK p \in Seq(Tokens) : p = SubSeq(t, 1, last - 1) /\ IsPart(p, t, 0, last - 1)
      BY Before, Zenon
    <2>2. last - 1 = k
      BY <1>6, <1>9
    <2>3. Len(p) = k /\ \A i \in 1..k : p[i] = t[0 + i]
      BY <2>1, <2>2, Zenon DEF IsPart
    <2>4. ASSUME NEW i \in 1..k PROVE p[i] = s[i]
      <3>1. 0 + i = i /\ i \in 1..Len(t)
        BY <1>10
      <3>2. p[i] = t[i] /\ t[i] = n[i + 1] /\ n[i + 1] = s[i]
        BY <1>2, <1>5, <2>3, <3>1, Zenon DEF InFourParts
      <3>3. QED
        BY <3>2, Zenon
    <2>5. p = s
      BY <1>1, <2>3, <2>4, SeqEqual
    <2>6. QED
      BY <2>1, <2>5, Zenon
  <1>12. SubSeq(t, last + 1, Len(t)) = m
    <2>1. PICK p \in Seq(Tokens) :
              p = SubSeq(t, last + 1, Len(t)) /\ IsPart(p, t, last, Len(t) - last)
      BY After, Zenon
    <2>2. last = k + 1 /\ Len(t) - last = l
      BY <1>6, <1>9, <1>10
    <2>3. Len(p) = l /\ \A i \in 1..l : p[i] = t[k + 1 + i]
      BY <2>1, <2>2, Zenon DEF IsPart
    <2>4. ASSUME NEW i \in 1..l PROVE p[i] = m[i]
      <3>1. k + 1 + i \in 1..Len(t) /\ (k + 1 + i) + 1 = k + 2 + i
        BY <1>10
      <3>2. p[i] = t[k + 1 + i] /\ t[k + 1 + i] = n[(k + 1 + i) + 1]
        BY <1>5, <2>3, <3>1, Zenon
      <3>3. n[k + 2 + i] = m[i]
        BY <1>2, Zenon DEF InFourParts
      <3>4. QED
        BY <3>1, <3>2, <3>3, Zenon
    <2>5. p = m
      BY <1>1, <2>3, <2>4, SeqEqual
    <2>6. QED
      BY <2>1, <2>5, Zenon
  <1>13. QED
    BY <1>3, <1>4, <1>5, <1>7, <1>8, <1>11, <1>12, Zenon DEF parseFullMethodName

-----------------------------------------------------------------------------
(* The registry *)

(* Names, services and methods are texts. *)
LEMMA NamesAreTexts ==
    /\ \A n \in Names : n \in Seq(Tokens)
    /\ \A s, m : IsDeclared(s, m) => s \in Seq(Tokens) /\ m \in Seq(Tokens)
PROOF
  <1>1. Seq(STRING) \subseteq Seq(Tokens)
    BY SeqMonotonic DEF Tokens
  <1>2. Names \subseteq Seq(STRING)
    BY RegistryAssumption
  <1>3. QED
    BY <1>1, <1>2, DeclaredType

(* Of a name, at most one service and one method are the parts.            *)
LEMMA OneMethod ==
    ASSUME NEW n \in Names, NEW s, NEW m, IsDeclared(s, m), n = FullName(s, m)
    PROVE  /\ parseFullMethodName(n) = [service |-> s, method |-> m]
           /\ parseFullMethodName(n) # nil
           /\ DeclaredPolicy(n) = Registry[s][m]
PROOF
  <1>1. ASSUME NEW p, NEW q, IsDeclared(p, q), n = FullName(p, q)
        PROVE  parseFullMethodName(n) = [service |-> p, method |-> q]
    <2>1. n \in Seq(Tokens) /\ p \in Seq(Tokens) /\ q \in Seq(Tokens) /\ ~ Contains(q, "/")
      BY <1>1, NamesAreTexts, DeclaredType
    <2>2. QED
      BY <1>1, <2>1, ParseSplits
  <1>2. ASSUME NEW p, NEW q, IsDeclared(p, q), n = FullName(p, q)
        PROVE  p = s /\ q = m
    <2>1. [service |-> p, method |-> q] = [service |-> s, method |-> m]
      BY <1>1, <1>2
    <2>2. QED
      BY <2>1
  <1>3. [service |-> s, method |-> m] # nil
    <2>1. s \in Seq(STRING) /\ m \in Seq(STRING)
      BY DeclaredType
    <2>2. [service |-> s, method |-> m] \in [service : Seq(STRING), method : Seq(STRING)]
      BY <2>1
    <2>3. nil \notin [service : Seq(STRING), method : Seq(STRING)]
      BY NilIsNothing
    <2>4. QED
      BY <2>2, <2>3
  <1>4. DeclaredPolicy(n) = Registry[s][m]
    <2> DEFINE In(p) == \E q \in DOMAIN Registry[p] : n = FullName(p, q)
               s0 == CHOOSE p \in DOMAIN Registry : In(p)
               m0 == CHOOSE q \in DOMAIN Registry[s0] : n = FullName(s0, q)
    <2>1. DeclaredPolicy(n) =
              IF \E p \in DOMAIN Registry : In(p) THEN Registry[s0][m0] ELSE nil
      BY DEF DeclaredPolicy, FullName
    <2>2. \E p \in DOMAIN Registry : In(p)
      BY DEF IsDeclared
    <2>3. s0 \in DOMAIN Registry /\ In(s0)
      BY <2>2
    <2>4. m0 \in DOMAIN Registry[s0] /\ n = FullName(s0, m0)
      BY <2>3
    <2>5. s0 = s /\ m0 = m
      <3>1. IsDeclared(s0, m0)
        BY <2>3, <2>4 DEF IsDeclared
      <3> HIDE DEF s0, m0
      <3>2. QED
        BY <1>2, <2>4, <3>1
    <2>6. QED
      BY <2>1, <2>2, <2>5
  <1>5. QED
    BY <1>1, <1>3, <1>4

(* A lookup finds what the method declares: a name in the form of a full   *)
(* method name is not an error, whatever the registry has.                 *)
LEMMA LookupDeclared ==
    ASSUME NEW n \in Names
    PROVE  /\ lookupMethodPolicy(n) \in Outcomes
           /\ lookupMethodPolicy(n).err <=> parseFullMethodName(n) = nil
           /\ ~ lookupMethodPolicy(n).err => lookupMethodPolicy(n).policy = DeclaredPolicy(n)
           /\ lookupMethodPolicy(n).policy \in PolicyMessages(STRING, STRING) \cup {nil}
PROOF
  <1>1. CASE parseFullMethodName(n) = nil
    <2>1. lookupMethodPolicy(n) = cachedPolicy(nil, TRUE)
      BY <1>1 DEF lookupMethodPolicy
    <2>2. QED
      BY <1>1, <2>1 DEF cachedPolicy, Outcomes
  <1>2. CASE parseFullMethodName(n) # nil
    <2>1. PICK s \in Seq(Tokens), m \in Seq(Tokens) :
              parseFullMethodName(n) = [service |-> s, method |-> m] /\ n = FullName(s, m)
      BY <1>2, NamesAreTexts, ParseJoins
    <2>2. lookupMethodPolicy(n) =
              cachedPolicy(IF IsDeclared(s, m) THEN Registry[s][m] ELSE nil, FALSE)
      <3>1. parseFullMethodName(n).service = s /\ parseFullMethodName(n).method = m
        BY <2>1
      <3>2. QED
        BY <1>2, <3>1, Zenon DEF lookupMethodPolicy, IsDeclared
    <2>3. CASE IsDeclared(s, m)
      <3>1. lookupMethodPolicy(n) = cachedPolicy(Registry[s][m], FALSE)
        BY <2>2, <2>3
      <3>2. DeclaredPolicy(n) = Registry[s][m]
        BY <2>1, <2>3, OneMethod
      <3>3. /\ cachedPolicy(Registry[s][m], FALSE) \in Outcomes
            /\ Registry[s][m] \in PolicyMessages(STRING, STRING) \cup {nil}
        BY <2>3, DeclaredType
      <3>4. QED
        BY <1>2, <3>1, <3>2, <3>3 DEF cachedPolicy
    <2>4. CASE ~ IsDeclared(s, m)
      <3>1. lookupMethodPolicy(n) = cachedPolicy(nil, FALSE)
        BY <2>2, <2>4
      <3>2. ASSUME NEW p, NEW q, IsDeclared(p, q) PROVE n # FullName(p, q)
        <4>1. SUFFICES ASSUME n = FullName(p, q) PROVE FALSE
          OBVIOUS
        <4>2. [service |-> p, method |-> q] = [service |-> s, method |-> m]
          BY <2>1, <3>2, <4>1, OneMethod
        <4>3. p = s /\ q = m
          BY <4>2
        <4>4. QED
          BY <2>4, <3>2, <4>3
      <3>3. DeclaredPolicy(n) = nil
        BY <3>2 DEF DeclaredPolicy, FullName, IsDeclared
      <3>4. cachedPolicy(nil, FALSE) \in Outcomes
        BY DEF Outcomes
      <3>5. QED
        BY <1>2, <3>1, <3>3, <3>4 DEF cachedPolicy
    <2>5. QED
      BY <2>3, <2>4
  <1>3. QED
    BY <1>1, <1>2
-----------------------------------------------------------------------------
(* The inductive invariant *)

Contexts == [ran : BOOLEAN, policy : {nil} \cup [resource : Seq(STRING), action : STRING]]
PCs == {"idle", "load", "lookup", "store", "resolve", "handler", "refused"}

(* Every variable is a function of its type. *)
Shape ==
    /\ cache \in [Kinds -> [Names -> Outcomes \cup {nil}]]
    /\ pc \in [Calls -> PCs]
    /\ name \in [Calls -> Names \cup {nil}]
    /\ req \in [Calls -> Requests \cup {nil}]
    /\ found \in [Calls -> Outcomes \cup {nil}]
    /\ ctx \in [Calls -> Contexts]

(* Nothing but the result of the lookup is ever in a cache, whichever of   *)
(* the concurrent first calls of a method stored it.                       *)
CacheOK == \A k \in Kinds : \A n \in Names : cache[k][n] \in {nil, lookupMethodPolicy(n)}

PolicyOf(n) == lookupMethodPolicy(n).policy
Marked == [ran |-> TRUE, policy |-> nil]
With(resource, action) ==
    [ran |-> TRUE, policy |-> [resource |-> resource, action |-> action]]

(* The context x is the one for a call with the name n and the request r. *)
Served(n, r, x) ==
    LET p == PolicyOf(n)
        resolved == resolveResourceFromRequest(p, r)
    IN  /\ ~ lookupMethodPolicy(n).err
        /\ p = nil => x = Marked
        /\ p # nil /\ n \in Streaming => x = With(p.resource, p.action)
        /\ p # nil /\ n \notin Streaming => resolved.ok /\ x = With(resolved.text, p.action)

(* A call with the name n and the request r is one to refuse. *)
AtFault(n, r) ==
    LET p == PolicyOf(n)
    IN  \/ lookupMethodPolicy(n).err
        \/ p # nil /\ n \in Streaming /\ hasFieldMappings(p)
        \/ p # nil /\ n \notin Streaming /\ ~ resolveResourceFromRequest(p, r).ok

(* A call at label p with the name n, the request r, the result f of       *)
(* getMethodPolicy and the context x.                                      *)
CallOK(p, n, r, f, x) ==
    /\ n = nil <=> p = "idle"
    /\ n # nil => r \in RequestsOf(n)
    /\ p \in {"store", "resolve", "handler", "refused"} => f = lookupMethodPolicy(n)
    /\ p # "handler" => x = NoContext
    /\ p = "handler" => Served(n, r, x)
    /\ p = "refused" => AtFault(n, r)

CallsOK == \A c \in Calls : CallOK(pc[c], name[c], req[c], found[c], ctx[c])

Inv == Shape /\ CacheOK /\ CallsOK

(* No name, outcome, policy or context policy is nil. *)
LEMMA NilFacts ==
    /\ nil \notin Names /\ nil \notin Outcomes /\ nil \notin PolicyMessages(STRING, STRING)
    /\ nil \notin [resource : Seq(STRING), action : STRING]
PROOF
  BY NilIsNothing

(* The invariant holds in the initial state. *)
LEMMA InitInv == Init => Inv
PROOF
  <1>1. SUFFICES ASSUME Init PROVE Inv
    OBVIOUS
  <1>2. NoContext \in Contexts
    BY DEF NoContext, Contexts
  <1>3. Shape
    BY <1>1, <1>2 DEF Init, Shape, PCs
  <1>4. CacheOK
    BY <1>1 DEF Init, CacheOK
  <1>5. CallOK("idle", nil, nil, nil, NoContext)
    BY DEF CallOK
  <1>6. CallsOK
    BY <1>1, <1>5 DEF Init, CallsOK
  <1>7. QED
    BY <1>3, <1>4, <1>6 DEF Inv

(* What a step of call c has to show. *)
Others(c) ==
    \A d \in Calls \ {c} :
        /\ pc'[d] = pc[d] /\ name'[d] = name[d] /\ req'[d] = req[d]
        /\ found'[d] = found[d] /\ ctx'[d] = ctx[d]

(* A step of one call that leaves the others alone keeps the invariant. *)
LEMMA StepOf ==
    ASSUME Inv, NEW c \in Calls, Shape', CacheOK', Others(c),
           CallOK(pc'[c], name'[c], req'[c], found'[c], ctx'[c])
    PROVE  Inv'
PROOF
  <1>1. ASSUME NEW d \in Calls PROVE CallOK(pc'[d], name'[d], req'[d], found'[d], ctx'[d])
    <2>1. CASE d = c
      BY <2>1, Zenon
    <2>2. CASE d # c
      <3>1. CallOK(pc[d], name[d], req[d], found[d], ctx[d])
        BY DEF Inv, CallsOK
      <3>2. QED
        BY <2>2, <3>1, Zenon DEF Others
    <2>3. QED
      BY <2>1, <2>2
  <1>2. CallsOK'
    BY <1>1, Zenon DEF CallsOK
  <1>3. QED
    BY <1>2 DEF Inv

(* A new call keeps the invariant. *)
LEMMA BeginInv ==
    ASSUME Inv, NEW c \in Calls, NEW n \in Names, NEW r \in RequestsOf(n), Begin(c, n, r)
    PROVE  Inv'
PROOF
  <1>1. Shape /\ CacheOK /\ CallOK(pc[c], name[c], req[c], found[c], ctx[c])
    BY DEF Inv, CallsOK
  <1>2. r \in Requests \cup {nil}
    BY DEF RequestsOf
  <1>3. Shape'
    BY <1>1, <1>2 DEF Shape, Begin, Goto, PCs
  <1>4. CacheOK'
    BY <1>1 DEF CacheOK, Begin
  <1>5. /\ pc'[c] = "load" /\ name'[c] = n /\ req'[c] = r
        /\ found'[c] = found[c] /\ ctx'[c] = ctx[c] /\ Others(c)
    BY <1>1 DEF Shape, Begin, Goto, Others
  <1>6. CallOK("load", n, r, found[c], ctx[c])
    BY <1>1, NilFacts DEF CallOK, Begin
  <1>7. QED
    BY <1>3, <1>4, <1>5, <1>6, StepOf, Zenon

(* A call that has begun has a name that some interceptor handles.         *)
LEMMA HasName ==
    ASSUME Inv, NEW c \in Calls, pc[c] # "idle"
    PROVE  /\ name[c] \in Names /\ req[c] \in RequestsOf(name[c])
           /\ KindOf(name[c]) \in Kinds
PROOF
  <1>1. Shape /\ CallOK(pc[c], name[c], req[c], found[c], ctx[c])
    BY DEF Inv, CallsOK
  <1>2. name[c] # nil /\ name[c] \in Names \cup {nil}
    BY <1>1 DEF CallOK, Shape
  <1>3. QED
    BY <1>1, <1>2 DEF CallOK, KindOf, Kinds

(* A hit is the result of the lookup of the call's own name; a miss goes   *)
(* on to the lookup.                                                       *)
LEMMA LoadInv ==
    ASSUME Inv, NEW c \in Calls, Load(c)
    PROVE  Inv'
PROOF
  <1> DEFINE hit == cache[KindOf(name[c])][name[c]]
  <1>1. Shape /\ CacheOK /\ CallOK(pc[c], name[c], req[c], found[c], ctx[c])
    BY DEF Inv, CallsOK
  <1>2. pc[c] = "load" /\ name[c] \in Names /\ KindOf(name[c]) \in Kinds
    BY HasName DEF Load
  <1>3. hit \in Outcomes \cup {nil} /\ hit \in {nil, lookupMethodPolicy(name[c])}
    BY <1>1, <1>2 DEF Shape, CacheOK
  <1>4. PICK p \in {"lookup", "resolve"} :
            pc' = [pc EXCEPT ![c] = p] /\ (hit = nil <=> p = "lookup")
    BY DEF Load, Goto
  <1>5. /\ found' = [found EXCEPT ![c] = hit]
        /\ UNCHANGED <<cache, name, req, ctx>>
    BY DEF Load
  <1> HIDE DEF hit
  <1>6. Shape'
    BY <1>1, <1>3, <1>4, <1>5 DEF Shape, PCs
  <1>7. CacheOK'
    BY <1>1, <1>5 DEF CacheOK
  <1>8. /\ pc'[c] = p /\ name'[c] = name[c] /\ req'[c] = req[c]
        /\ found'[c] = hit /\ ctx'[c] = ctx[c] /\ Others(c)
    BY <1>1, <1>4, <1>5 DEF Shape, Others
  <1>9. CallOK(p, name[c], req[c], hit, ctx[c])
    BY <1>1, <1>2, <1>3, <1>4 DEF CallOK
  <1>10. QED
    BY <1>6, <1>7, <1>8, <1>9, StepOf, Zenon

(* The scan of the registry keeps the invariant. *)
LEMMA LookupInv ==
    ASSUME Inv, NEW c \in Calls, Lookup(c)
    PROVE  Inv'
PROOF
  <1>1. Shape /\ CacheOK /\ CallOK(pc[c], name[c], req[c], found[c], ctx[c])
    BY DEF Inv, CallsOK
  <1>2. pc[c] = "lookup" /\ name[c] \in Names
    BY HasName DEF Lookup
  <1>3. lookupMethodPolicy(name[c]) \in Outcomes
    BY <1>2, LookupDeclared
  <1>4. Shape'
    BY <1>1, <1>3 DEF Shape, Lookup, Goto, PCs
  <1>5. CacheOK'
    BY <1>1 DEF CacheOK, Lookup
  <1>6. /\ pc'[c] = "store" /\ name'[c] = name[c] /\ req'[c] = req[c]
        /\ found'[c] = lookupMethodPolicy(name[c]) /\ ctx'[c] = ctx[c] /\ Others(c)
    BY <1>1 DEF Shape, Lookup, Goto, Others
  <1>7. CallOK("store", name[c], req[c], lookupMethodPolicy(name[c]), ctx[c])
    BY <1>1, <1>2 DEF CallOK
  <1>8. QED
    BY <1>4, <1>5, <1>6, <1>7, StepOf, Zenon

(* Every first call of a method stores the same result, so that the last   *)
(* one to store overwrites nothing.                                        *)
LEMMA StoreInv ==
    ASSUME Inv, NEW c \in Calls, Store(c)
    PROVE  Inv'
PROOF
  <1>1. Shape /\ CacheOK /\ CallOK(pc[c], name[c], req[c], found[c], ctx[c])
    BY DEF Inv, CallsOK
  <1>2. pc[c] = "store" /\ name[c] \in Names /\ KindOf(name[c]) \in Kinds
    BY HasName DEF Store
  <1>3. found[c] = lookupMethodPolicy(name[c])
    BY <1>1, <1>2 DEF CallOK
  <1>4. Shape'
    BY <1>1, <1>2 DEF Shape, Store, Goto, PCs
  <1>5. CacheOK'
    BY <1>1, <1>2, <1>3 DEF CacheOK, Shape, Store
  <1>6. /\ pc'[c] = "resolve" /\ name'[c] = name[c] /\ req'[c] = req[c]
        /\ found'[c] = found[c] /\ ctx'[c] = ctx[c] /\ Others(c)
    BY <1>1 DEF Shape, Store, Goto, Others
  <1>7. CallOK("resolve", name[c], req[c], found[c], ctx[c])
    BY <1>1, <1>2, <1>3 DEF CallOK
  <1>8. QED
    BY <1>4, <1>5, <1>6, <1>7, StepOf, Zenon

(* The contexts that the interceptors make. *)
LEMMA ContextsMade ==
    /\ markInterceptorRan(NoContext) = Marked
    /\ Marked \in Contexts
    /\ \A resource, action : withPolicy(Marked, resource, action) = With(resource, action)
    /\ \A resource \in Seq(STRING), action \in STRING : With(resource, action) \in Contexts
PROOF
  <1>1. markInterceptorRan(NoContext) = Marked
    <2> DEFINE R == [ran : BOOLEAN, policy : {nil}]
    <2>1. NoContext \in R /\ NoContext.policy = nil
      BY DEF NoContext
    <2>2. /\ markInterceptorRan(NoContext) \in R
          /\ markInterceptorRan(NoContext).ran = TRUE
      BY <2>1 DEF markInterceptorRan
    <2>3. Marked \in R /\ Marked.ran = TRUE
      BY DEF Marked
    <2>4. QED
      BY <2>2, <2>3
  <1>2. Marked \in Contexts
    BY DEF Marked, Contexts
  <1>3. ASSUME NEW resource, NEW action
        PROVE  withPolicy(Marked, resource, action) = With(resource, action)
    <2>1. PICK q : q = [resource |-> resource, action |-> action]
      OBVIOUS
    <2> DEFINE R == [ran : {TRUE}, policy : {nil, q}]
    <2>2. Marked \in R
      BY DEF Marked
    <2>3. [Marked EXCEPT !.policy = q] \in R /\ [Marked EXCEPT !.policy = q].policy = q
      BY <2>2
    <2>4. [ran |-> TRUE, policy |-> q] \in R /\ [ran |-> TRUE, policy |-> q].policy = q
      OBVIOUS
    <2>5. [Marked EXCEPT !.policy = q] = [ran |-> TRUE, policy |-> q]
      BY <2>3, <2>4
    <2>6. QED
      BY <2>1, <2>5, Zenon DEF withPolicy, With
  <1>4. ASSUME NEW resource \in Seq(STRING), NEW action \in STRING
        PROVE  With(resource, action) \in Contexts
    BY DEF With, Contexts
  <1>5. QED
    BY <1>1, <1>2, <1>3, <1>4

(* What a policy that a lookup finds gives the handler.                    *)
LEMMA PolicyType ==
    ASSUME NEW n \in Names, PolicyOf(n) # nil
    PROVE  /\ PolicyOf(n) \in PolicyMessages(STRING, STRING)
           /\ PolicyOf(n).resource \in Seq(STRING) /\ PolicyOf(n).action \in STRING
           /\ \A r \in Requests :
                  resolveResourceFromRequest(PolicyOf(n), r).ok =>
                      resolveResourceFromRequest(PolicyOf(n), r).text \in Seq(STRING)
PROOF
  <1>1. PolicyOf(n) \in PolicyMessages(STRING, STRING)
    BY LookupDeclared DEF PolicyOf
  <1>2. PolicyOf(n).resource \in Seq(STRING) /\ PolicyOf(n).action \in STRING
    BY <1>1 DEF PolicyMessages
  <1>3. ASSUME NEW r \in Requests, resolveResourceFromRequest(PolicyOf(n), r).ok
        PROVE  resolveResourceFromRequest(PolicyOf(n), r).text \in Seq(STRING)
    <2>1. HasTexts(r, STRING)
      BY RegistryAssumption
    <2>2. QED
      BY <1>1, <1>3, <2>1, ResolvesToText
  <1>4. QED
    BY <1>1, <1>2, <1>3

(* A call leaves getMethodPolicy with the context x for its handler, ...   *)
LEMMA ServeInv ==
    ASSUME Inv, NEW c \in Calls, NEW x \in Contexts, pc[c] = "resolve",
           Served(name[c], req[c], x),
           ctx' = [ctx EXCEPT ![c] = x], Goto(c, "handler"),
           UNCHANGED <<cache, name, req, found>>
    PROVE  Inv'
PROOF
  <1>1. Shape /\ CacheOK /\ CallOK(pc[c], name[c], req[c], found[c], ctx[c])
    BY DEF Inv, CallsOK
  <1>2. found[c] = lookupMethodPolicy(name[c])
    BY <1>1 DEF CallOK
  <1>3. Shape'
    BY <1>1 DEF Shape, PCs, Goto
  <1>4. CacheOK'
    BY <1>1 DEF CacheOK
  <1>5. /\ pc'[c] = "handler" /\ name'[c] = name[c] /\ req'[c] = req[c]
        /\ found'[c] = found[c] /\ ctx'[c] = x /\ Others(c)
    BY <1>1 DEF Shape, Others, Goto
  <1>6. CallOK("handler", name[c], req[c], found[c], x)
    BY <1>1, <1>2 DEF CallOK
  <1>7. QED
    BY <1>3, <1>4, <1>5, <1>6, StepOf, Zenon

(* ... or is refused.                                                      *)
LEMMA RefuseInv ==
    ASSUME Inv, NEW c \in Calls, pc[c] = "resolve", AtFault(name[c], req[c]),
           Goto(c, "refused"), UNCHANGED <<cache, name, req, found, ctx>>
    PROVE  Inv'
PROOF
  <1>1. Shape /\ CacheOK /\ CallOK(pc[c], name[c], req[c], found[c], ctx[c])
    BY DEF Inv, CallsOK
  <1>2. Shape'
    BY <1>1 DEF Shape, Goto, PCs
  <1>3. CacheOK'
    BY <1>1 DEF CacheOK
  <1>4. /\ pc'[c] = "refused" /\ name'[c] = name[c] /\ req'[c] = req[c]
        /\ found'[c] = found[c] /\ ctx'[c] = ctx[c] /\ Others(c)
    BY <1>1 DEF Shape, Goto, Others
  <1>5. CallOK("refused", name[c], req[c], found[c], ctx[c])
    BY <1>1 DEF CallOK
  <1>6. QED
    BY <1>2, <1>3, <1>4, <1>5, StepOf, Zenon

(* Refusing a malformed name keeps the invariant. *)
LEMMA RefuseNameInv ==
    ASSUME Inv, NEW c \in Calls, RefuseName(c)
    PROVE  Inv'
PROOF
  <1>1. /\ pc[c] = "resolve" /\ found[c].err /\ Goto(c, "refused")
        /\ UNCHANGED <<cache, name, req, found, ctx>>
    BY DEF RefuseName
  <1>2. found[c] = lookupMethodPolicy(name[c])
    BY <1>1 DEF Inv, CallsOK, CallOK
  <1>3. AtFault(name[c], req[c])
    BY <1>1, <1>2, Zenon DEF AtFault
  <1>4. QED
    BY <1>1, <1>3, RefuseInv, Zenon

(* A call without a policy keeps the invariant. *)
LEMMA PassThroughInv ==
    ASSUME Inv, NEW c \in Calls, PassThrough(c)
    PROVE  Inv'
PROOF
  <1>1. /\ pc[c] = "resolve" /\ ~ found[c].err /\ found[c].policy = nil
        /\ Goto(c, "handler") /\ UNCHANGED <<cache, name, req, found>>
    BY DEF PassThrough
  <1>2. found[c] = lookupMethodPolicy(name[c]) /\ ctx[c] = NoContext
    BY <1>1 DEF Inv, CallsOK, CallOK
  <1>3. markInterceptorRan(ctx[c]) = Marked /\ Marked \in Contexts
    BY <1>2, ContextsMade, Zenon
  <1>4. Served(name[c], req[c], Marked)
    BY <1>1, <1>2, Zenon DEF Served, PolicyOf
  <1>5. ctx' = [ctx EXCEPT ![c] = Marked]
    BY <1>3, Zenon DEF PassThrough
  <1>6. QED
    BY <1>1, <1>3, <1>4, <1>5, ServeInv, Zenon

(* The rest of Interceptor keeps the invariant: it writes to the call's    *)
(* context only.                                                           *)
LEMMA ResolveUnaryInv ==
    ASSUME Inv, NEW c \in Calls, ResolveUnary(c)
    PROVE  Inv'
PROOF
  <1>1. CallOK(pc[c], name[c], req[c], found[c], ctx[c])
    BY DEF Inv, CallsOK
  <1>2. /\ pc[c] = "resolve" /\ ~ found[c].err /\ found[c].policy # nil
        /\ name[c] \notin Streaming /\ UNCHANGED <<cache, name, req, found>>
    BY DEF ResolveUnary
  <1>3. /\ found[c] = lookupMethodPolicy(name[c]) /\ ctx[c] = NoContext
        /\ name[c] \in Names /\ req[c] \in RequestsOf(name[c])
    BY <1>1, <1>2, HasName DEF CallOK
  <1>4. PICK p : p = PolicyOf(name[c]) /\ p = found[c].policy
    BY <1>3, Zenon DEF PolicyOf
  <1>5. PICK resolved : resolved = resolveResourceFromRequest(p, req[c])
    OBVIOUS
  <1>6. req[c] \in Requests
    BY <1>2, <1>3 DEF RequestsOf
  <1>7. CASE resolved.ok
    <2>1. With(resolved.text, p.action) \in Contexts
      <3>1. resolved.text \in Seq(STRING) /\ p.action \in STRING
        BY <1>2, <1>3, <1>4, <1>5, <1>6, <1>7, PolicyType, Zenon
      <3>2. QED
        BY <3>1, ContextsMade, Zenon
    <2>2. Served(name[c], req[c], With(resolved.text, p.action))
      BY <1>2, <1>3, <1>4, <1>5, <1>7, Zenon DEF Served
    <2>3. withPolicy(markInterceptorRan(ctx[c]), resolved.text, p.action) =
              With(resolved.text, p.action)
      BY <1>3, ContextsMade, Zenon
    <2>4. /\ ctx' = [ctx EXCEPT ![c] =
                         withPolicy(markInterceptorRan(ctx[c]), resolved.text, p.action)]
          /\ Goto(c, "handler")
      BY <1>4, <1>5, <1>7, Zenon DEF ResolveUnary
    <2>5. ctx' = [ctx EXCEPT ![c] = With(resolved.text, p.action)]
      BY <2>3, <2>4, Zenon
    <2>6. QED
      BY <1>2, <2>1, <2>2, <2>4, <2>5, ServeInv, Zenon
  <1>8. CASE ~ resolved.ok
    <2>1. AtFault(name[c], req[c])
      BY <1>2, <1>4, <1>5, <1>8, Zenon DEF AtFault
    <2>2. Goto(c, "refused") /\ UNCHANGED ctx
      BY <1>4, <1>5, <1>8, Zenon DEF ResolveUnary
    <2>3. UNCHANGED <<cache, name, req, found, ctx>>
      BY <1>2, <2>2
    <2>4. QED
      BY <1>2, <2>1, <2>2, <2>3, RefuseInv, Zenon
  <1>9. QED
    BY <1>7, <1>8

(* The rest of StreamInterceptor keeps the invariant. *)
LEMMA ResolveStreamInv ==
    ASSUME Inv, NEW c \in Calls, ResolveStream(c)
    PROVE  Inv'
PROOF
  <1>1. CallOK(pc[c], name[c], req[c], found[c], ctx[c])
    BY DEF Inv, CallsOK
  <1>2. /\ pc[c] = "resolve" /\ ~ found[c].err /\ found[c].policy # nil
        /\ name[c] \in Streaming /\ UNCHANGED <<cache, name, req, found>>
    BY DEF ResolveStream
  <1>3. /\ found[c] = lookupMethodPolicy(name[c]) /\ ctx[c] = NoContext
        /\ name[c] \in Names
    BY <1>1, <1>2, HasName DEF CallOK
  <1>4. PICK p : p = PolicyOf(name[c]) /\ p = found[c].policy
    BY <1>3, Zenon DEF PolicyOf
  <1>5. CASE ~ hasFieldMappings(p)
    <2>1. With(p.resource, p.action) \in Contexts
      <3>1. p.resource \in Seq(STRING) /\ p.action \in STRING
        BY <1>2, <1>3, <1>4, PolicyType, Zenon
      <3>2. QED
        BY <3>1, ContextsMade, Zenon
    <2>2. Served(name[c], req[c], With(p.resource, p.action))
      BY <1>2, <1>3, <1>4, Zenon DEF Served
    <2>3. withPolicy(markInterceptorRan(ctx[c]), p.resource, p.action) =
              With(p.resource, p.action)
      BY <1>3, ContextsMade, Zenon
    <2>4. /\ ctx' = [ctx EXCEPT ![c] =
                         withPolicy(markInterceptorRan(ctx[c]), p.resource, p.action)]
          /\ Goto(c, "handler")
      BY <1>4, <1>5, Zenon DEF ResolveStream
    <2>5. ctx' = [ctx EXCEPT ![c] = With(p.resource, p.action)]
      BY <2>3, <2>4, Zenon
    <2>6. QED
      BY <1>2, <2>1, <2>2, <2>4, <2>5, ServeInv, Zenon
  <1>6. CASE hasFieldMappings(p)
    <2>1. AtFault(name[c], req[c])
      BY <1>2, <1>4, <1>6, Zenon DEF AtFault
    <2>2. Goto(c, "refused") /\ UNCHANGED ctx
      BY <1>4, <1>6, Zenon DEF ResolveStream
    <2>3. UNCHANGED <<cache, name, req, found, ctx>>
      BY <1>2, <2>2
    <2>4. QED
      BY <1>2, <2>1, <2>2, <2>3, RefuseInv, Zenon
  <1>7. QED
    BY <1>5, <1>6

(* A call that returns keeps the invariant. *)
LEMMA ReturnInv ==
    ASSUME Inv, NEW c \in Calls, Return(c)
    PROVE  Inv'
PROOF
  <1>1. Shape /\ CacheOK
    BY DEF Inv
  <1>2. NoContext \in Contexts
    BY DEF NoContext, Contexts
  <1>3. Shape'
    BY <1>1, <1>2 DEF Shape, Return, Goto, PCs
  <1>4. CacheOK'
    BY <1>1 DEF CacheOK, Return
  <1>5. /\ pc'[c] = "idle" /\ name'[c] = nil /\ req'[c] = nil
        /\ found'[c] = nil /\ ctx'[c] = NoContext /\ Others(c)
    BY <1>1 DEF Shape, Return, Goto, Others
  <1>6. CallOK("idle", nil, nil, nil, NoContext)
    BY DEF CallOK
  <1>7. QED
    BY <1>3, <1>4, <1>5, <1>6, StepOf, Zenon

(* Every step keeps the invariant. *)
LEMMA NextInv ==
    ASSUME Inv, [Next]_vars
    PROVE  Inv'
PROOF
  <1>1. CASE UNCHANGED vars
    BY <1>1, Zenon DEF vars, Inv, Shape, CacheOK, CallsOK
  <1>2. CASE Next
    <2>1. PICK c \in Calls :
              \/ \E n \in Names : \E r \in RequestsOf(n) : Begin(c, n, r)
              \/ Load(c) \/ Lookup(c) \/ Store(c) \/ RefuseName(c) \/ PassThrough(c)
              \/ ResolveUnary(c) \/ ResolveStream(c) \/ Return(c)
      BY <1>2, Zenon DEF Next
    <2>2. CASE \E n \in Names : \E r \in RequestsOf(n) : Begin(c, n, r)
      BY <2>2, BeginInv
    <2>3. CASE Load(c)
      BY <2>3, LoadInv
    <2>4. CASE Lookup(c)
      BY <2>4, LookupInv
    <2>5. CASE Store(c)
      BY <2>5, StoreInv
    <2>6. CASE RefuseName(c)
      BY <2>6, RefuseNameInv
    <2>7. CASE PassThrough(c)
      BY <2>7, PassThroughInv
    <2>8. CASE ResolveUnary(c)
      BY <2>8, ResolveUnaryInv
    <2>9. CASE ResolveStream(c)
      BY <2>9, ResolveStreamInv
    <2>10. CASE Return(c)
      BY <2>10, ReturnInv
    <2>11. QED
      BY <2>1, <2>2, <2>3, <2>4, <2>5, <2>6, <2>7, <2>8, <2>9, <2>10
  <1>3. QED
    BY <1>1, <1>2

-----------------------------------------------------------------------------
(* The theorems *)

(* Both interceptors keep the invariant: a cache holds nothing but what    *)
(* the registry says, and every call carries its own name, request, policy *)
(* and context, however the calls interleave.                              *)
THEOREM Invariance == Spec => []Inv
PROOF
  BY InitInv, NextInv, PTL DEF Spec

(* The invariant implies the type invariant: no outcome is nil. *)
LEMMA InvType == Inv => TypeOK
PROOF
  <1>1. SUFFICES ASSUME Inv PROVE TypeOK
    OBVIOUS
  <1>2. ASSUME NEW c \in Calls
        PROVE  /\ name[c] \in Names \cup {nil}
               /\ name[c] = nil <=> pc[c] = "idle"
               /\ name[c] # nil => req[c] \in RequestsOf(name[c])
               /\ found[c] \in Outcomes \cup {nil}
               /\ pc[c] \in {"store", "resolve", "handler", "refused"} => found[c] # nil
               /\ ctx[c].ran => pc[c] = "handler"
    <2>1. Shape /\ CallOK(pc[c], name[c], req[c], found[c], ctx[c])
      BY <1>1 DEF Inv, CallsOK
    <2>2. name[c] \in Names \cup {nil} /\ found[c] \in Outcomes \cup {nil}
      BY <2>1 DEF Shape
    <2>3. /\ name[c] = nil <=> pc[c] = "idle"
          /\ name[c] # nil => req[c] \in RequestsOf(name[c])
      BY <2>1 DEF CallOK
    <2>4. ASSUME pc[c] \in {"store", "resolve", "handler", "refused"} PROVE found[c] # nil
      <3>1. found[c] = lookupMethodPolicy(name[c]) /\ name[c] \in Names
        BY <2>1, <2>4, <1>1, HasName DEF CallOK
      <3>2. QED
        BY <3>1, LookupDeclared, NilFacts
    <2>5. ASSUME pc[c] # "handler" PROVE ~ ctx[c].ran
      <3>1. ctx[c] = NoContext
        BY <2>1, <2>5 DEF CallOK
      <3>2. QED
        BY <3>1 DEF NoContext
    <2>6. QED
      BY <2>2, <2>3, <2>4, <2>5, Zenon
  <1>3. QED
    BY <1>1, <1>2 DEF TypeOK, Inv, Shape, PCs

(* Every variable has its type, and a call past getMethodPolicy has a      *)
(* result of it: neither is a cached "no policy" taken for a miss nor a    *)
(* miss for a cached "no policy".                                          *)
THEOREM TypeCorrect == Spec => []TypeOK
PROOF
  BY Invariance, InvType, PTL

(* In a state of the invariant, handlers run with their own policy. *)
LEMMA InvHandler == Inv => HandlerSeesItsPolicy
PROOF
  <1>1. SUFFICES ASSUME Inv, NEW c \in Calls, pc[c] = "handler",
                        NEW p, p = DeclaredPolicy(name[c])
                 PROVE  /\ ctx[c].ran
                        /\ ctx[c].policy = nil <=> p = nil
                        /\ p # nil => ctx[c].policy.action = p.action
                        /\ p # nil /\ name[c] \in Streaming =>
                               ctx[c].policy.resource = p.resource
                        /\ p # nil /\ name[c] \notin Streaming =>
                            /\ ~ BrokenPolicy(p)
                            /\ PlainNames(p) => ~ Unresolvable(p, req[c])
                            /\ Plain(p, req[c]) =>
                                ctx[c].policy.resource = SimultaneousSubstitution(p, req[c])
    BY Zenon DEF HandlerSeesItsPolicy
  <1>2. /\ name[c] \in Names /\ req[c] \in RequestsOf(name[c])
        /\ Served(name[c], req[c], ctx[c]) /\ ctx[c] \in Contexts
    BY <1>1, HasName DEF Inv, Shape, CallsOK, CallOK
  <1>3. PolicyOf(name[c]) = p
    BY <1>1, <1>2, LookupDeclared DEF Served, PolicyOf
  <1>4. CASE p = nil
    <2>1. ctx[c] = Marked
      BY <1>2, <1>3, <1>4, Zenon DEF Served
    <2>2. QED
      BY <1>4, <2>1 DEF Marked
  <1>5. CASE p # nil
    <2>1. p \in PolicyMessages(STRING, STRING) /\ p.resource \in Seq(STRING) /\ p.action \in STRING
      BY <1>2, <1>3, <1>5, PolicyType
    <2>2. ASSUME NEW resource \in Seq(STRING), ctx[c] = With(resource, p.action)
          PROVE  /\ ctx[c].ran /\ ctx[c].policy # nil
                 /\ ctx[c].policy.action = p.action /\ ctx[c].policy.resource = resource
      <3>1. ctx[c].ran /\ ctx[c].policy = [resource |-> resource, action |-> p.action]
        BY <2>2 DEF With
      <3>2. ctx[c].policy \in [resource : Seq(STRING), action : STRING]
        BY <2>1, <3>1
      <3>3. QED
        BY <3>1, <3>2, NilFacts
    <2>3. CASE name[c] \in Streaming
      <3>1. ctx[c] = With(p.resource, p.action)
        BY <1>2, <1>3, <1>5, <2>3, Zenon DEF Served
      <3>2. QED
        BY <1>5, <2>1, <2>2, <2>3, <3>1, Zenon
    <2>4. CASE name[c] \notin Streaming
      <3>1. req[c] \in Requests /\ HasTexts(req[c], STRING)
        BY <1>2, <2>4, RegistryAssumption DEF RequestsOf
      <3>2. PICK resolved : resolved = resolveResourceFromRequest(p, req[c])
        OBVIOUS
      <3>3. resolved.ok /\ ctx[c] = With(resolved.text, p.action)
        BY <1>2, <1>3, <1>5, <2>4, <3>2, Zenon DEF Served
      <3>4. resolved.text \in Seq(STRING)
        BY <1>2, <1>3, <1>5, <3>1, <3>2, <3>3, PolicyType, Zenon
      <3>5. ~ BrokenPolicy(p) /\ (PlainNames(p) => ~ Unresolvable(p, req[c]))
        BY <2>1, <3>1, <3>2, <3>3, FailsWhenItMust, Zenon
      <3>6. ASSUME Plain(p, req[c])
            PROVE  resolved.text = SimultaneousSubstitution(p, req[c])
        <4>1. PlainNames(p)
          BY <3>6 DEF Plain
        <4>2. resolved = Resolved(SimultaneousSubstitution(p, req[c]))
          BY <2>1, <3>1, <3>2, <3>5, <3>6, <4>1, ResolvesSimultaneously, Zenon
        <4>3. QED
          BY <4>2 DEF Resolved
      <3>7. QED
        BY <1>5, <2>2, <2>4, <3>3, <3>4, <3>5, <3>6, Zenon
    <2>5. QED
      BY <2>3, <2>4
  <1>6. QED
    BY <1>4, <1>5

(* A handler runs with the policy that its own method declares, resolved   *)
(* against its own request, for any number of concurrent calls, any        *)
(* registry and any requests: the policy that is shared through the cache  *)
(* is never the resolved one.                                              *)
THEOREM HandlersSeeTheirPolicy == Spec => []HandlerSeesItsPolicy
PROOF
  BY Invariance, InvHandler, PTL

(* In a state of the invariant, calls are refused for their own fault. *)
LEMMA InvRefused == Inv => RefusedForItsOwnFault
PROOF
  <1>1. SUFFICES ASSUME Inv, NEW c \in Calls, pc[c] = "refused",
                        NEW p, p = DeclaredPolicy(name[c]),
                        parseFullMethodName(name[c]) # nil
                 PROVE  \/ p # nil /\ name[c] \in Streaming /\ hasFieldMappings(p)
                        \/ /\ p # nil /\ name[c] \notin Streaming
                           /\ BrokenPolicy(p) \/ Unresolvable(p, req[c])
                              \/ ~ Plain(p, req[c])
    BY Zenon DEF RefusedForItsOwnFault
  <1>2. /\ name[c] \in Names /\ req[c] \in RequestsOf(name[c])
        /\ AtFault(name[c], req[c])
    BY <1>1, HasName DEF Inv, CallsOK, CallOK
  <1>3. ~ lookupMethodPolicy(name[c]).err /\ PolicyOf(name[c]) = p
    BY <1>1, <1>2, LookupDeclared DEF PolicyOf
  <1>4. CASE p # nil /\ name[c] \in Streaming /\ hasFieldMappings(p)
    BY <1>4
  <1>5. CASE p # nil /\ name[c] \notin Streaming /\ ~ resolveResourceFromRequest(p, req[c]).ok
    <2>1. p \in PolicyMessages(STRING, STRING)
      BY <1>2, <1>3, <1>5, PolicyType
    <2>2. HasTexts(req[c], STRING)
      BY <1>2, <1>5, RegistryAssumption DEF RequestsOf
    <2>3. ASSUME ~ BrokenPolicy(p), ~ Unresolvable(p, req[c]), Plain(p, req[c])
          PROVE  FALSE
      <3>1. resolveResourceFromRequest(p, req[c]) =
                Resolved(SimultaneousSubstitution(p, req[c]))
        BY <2>1, <2>2, <2>3, ResolvesSimultaneously, Zenon
      <3>2. Resolved(SimultaneousSubstitution(p, req[c])).ok
        BY DEF Resolved
      <3>3. QED
        BY <1>5, <3>1, <3>2, Zenon
    <2>4. QED
      BY <1>5, <2>3, Zenon
  <1>6. QED
    BY <1>2, <1>3, <1>4, <1>5, Zenon DEF AtFault

(* A call is refused only for the form of its name, its own method's       *)
(* policy or its own request, never for what another call met.             *)
THEOREM RefusedForTheirOwnFault == Spec => []RefusedForItsOwnFault
PROOF
  BY Invariance, InvRefused, PTL
=============================================================================
