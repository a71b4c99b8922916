--------------------------- MODULE Receipts_proofs ---------------------------
(***************************************************************************)
(* What one side writes as a string, the other reads back; and the texts   *)
(* that fingerprints are made of tell all receipts and batches apart.      *)
(***************************************************************************)
EXTENDS Receipts, SequenceTheorems, WellFoundedInduction, TLAPS

\* A set of naturals has a least element: what stands for induction below.
LEMMA FirstNatural ==
  ASSUME NEW T, T \subseteq Nat, T # {}
  PROVE  \E n \in T : \A m \in T : n <= m
<1> DEFINE R == {ss \in Nat \X Nat : ss[1] < ss[2]}
<1>1. IsWellFoundedOn(R, Nat)
  BY NatLessThanWellFounded DEF OpToRel
<1>2. PICK n \in T : \A m \in T : <<m, n>> \notin R
  <2> HIDE DEF R
  <2>1. QED
    BY <1>1, WFMin
<1>3. \A m \in T : ~(m < n)
  BY <1>2
<1>4. QED
  BY <1>3

-----------------------------------------------------------------------------
(* Flattening, piece by piece.                                             *)

LEMMA Associative ==
  ASSUME NEW S, NEW x \in Seq(S), NEW y \in Seq(S), NEW z \in Seq(S)
  PROVE  x \o (y \o z) = (x \o y) \o z
BY ConcatAssociative

\* g holds the flattened beginnings of s.
Flattens(g, s, S) ==
  /\ g \in [0 .. Len(s) -> Seq(S)]
  /\ g[0] = <<>>
  /\ \A n \in 1 .. Len(s) : g[n] = g[n - 1] \o s[n]

\* The recursive function inside FlattenSeq exists,
LEMMA FlattenExists ==
  ASSUME NEW S, NEW s \in Seq(Seq(S)), NEW N \in 1 .. Len(s)
  PROVE  \E f : f = [i \in 1 .. N |-> IF i = 1 THEN s[i] ELSE f[i - 1] \o s[i]]
<1> DEFINE Upto(f, n) == f = [i \in 1 .. n |-> IF i = 1 THEN s[i] ELSE f[i - 1] \o s[i]]
<1>1. N \in Nat \ {0} /\ N \in 1 .. N
  BY LenProperties
<1>2. \E f : Upto(f, 1)
  <2>1. Upto([i \in 1 .. 1 |-> s[i]], 1)
    OBVIOUS
  <2>2. QED
    BY <2>1
<1>3. ASSUME NEW n \in Nat \ {0, 1}, \E f : Upto(f, n - 1)
      PROVE  \E f : Upto(f, n)
  <2>1. PICK f : Upto(f, n - 1)
    BY <1>3
  <2> DEFINE g == [i \in 1 .. n |-> IF i = 1 THEN s[i] ELSE f[i - 1] \o s[i]]
  <2>2. \A i \in 1 .. n - 1 : g[i] = f[i]
    <3>1. \A i \in 1 .. n - 1 : f[i] = IF i = 1 THEN s[i] ELSE f[i - 1] \o s[i]
      BY <2>1
    <3>2. QED
      BY <3>1, <1>3
  <2>3. \A i \in 1 .. n : i # 1 => g[i - 1] = f[i - 1]
    <3> HIDE DEF g
    <3>1. \A i \in 1 .. n : i # 1 => i - 1 \in 1 .. n - 1
      BY <1>3
    <3>2. QED
      BY <2>2, <3>1
  <2>4. g = [i \in 1 .. n |-> IF i = 1 THEN s[i] ELSE g[i - 1] \o s[i]]
    <3> HIDE DEF g
    <3>1. \A i \in 1 .. n : (IF i = 1 THEN s[i] ELSE f[i - 1] \o s[i])
                              = (IF i = 1 THEN s[i] ELSE g[i - 1] \o s[i])
      BY <2>3
    <3>2. QED
      BY <3>1 DEF g
  <2>5. QED
    BY <2>4
<1> HIDE DEF Upto
<1> DEFINE T == {n \in 1 .. N : ~ \E f : Upto(f, n)}
<1>4. T = {}
  <2>1. SUFFICES ASSUME T # {} PROVE FALSE
    OBVIOUS
  <2>2. T \subseteq Nat
    BY <1>1
  <2>3. PICK n \in T : \A m \in T : n <= m
    <3> HIDE DEF T
    <3>1. QED
      BY <2>1, <2>2, FirstNatural
  <2>4. n # 1
    BY <1>2
  <2>5. n - 1 \in 1 .. N /\ n - 1 < n
    BY <1>1, <2>4
  <2>6. \E f : Upto(f, n - 1)
    BY <2>3, <2>5
  <2>9. n \in Nat \ {0, 1}
    BY <1>1, <2>4
  <2>7. \E f : Upto(f, n)
    BY <1>3, <2>6, <2>9
  <2>8. QED
    BY <2>7
<1>5. \E f : Upto(f, N)
  BY <1>1, <1>4
<1>6. QED
  BY <1>5 DEF Upto

\* and FlattenSeq yields what the beginnings end in.
LEMMA FlattenDef ==
  ASSUME NEW S, NEW s \in Seq(Seq(S))
  PROVE  \E g : Flattens(g, s, S) /\ FlattenSeq(s) = g[Len(s)]
<1>1. CASE Len(s) = 0
  <2> DEFINE g == [n \in 0 .. 0 |-> <<>>]
  <2>1. s = <<>>
    BY <1>1, EmptySeq
  <2>2. FlattenSeq(s) = <<>>
    BY <1>1, <2>1 DEF FlattenSeq
  <2>3. Flattens(g, s, S)
    BY <1>1 DEF Flattens
  <2>4. QED
    BY <1>1, <2>2, <2>3
<1>2. CASE Len(s) # 0
  <2> DEFINE N == Len(s)
  <2>1. N \in Nat \ {0} /\ N \in 1 .. Len(s) /\ \A n \in 1 .. N : s[n] \in Seq(S)
    BY <1>2
  <2> DEFINE Is(f) == f = [i \in 1 .. N |-> IF i = 1 THEN s[i] ELSE f[i - 1] \o s[i]]
             f == CHOOSE h : Is(h)
  <2>2. Is(f)
    BY <2>1, FlattenExists
  <2>3. FlattenSeq(s) = f[N]
    BY <1>2 DEF FlattenSeq
  <2>4. \A i \in 1 .. N : f[i] = IF i = 1 THEN s[i] ELSE f[i - 1] \o s[i]
    <3> HIDE DEF f
    <3>1. QED
      BY <2>2
  <2> HIDE DEF f, Is
  <2>5. \A n \in 1 .. N : f[n] \in Seq(S)
    <3> DEFINE T == {n \in 1 .. N : f[n] \notin Seq(S)}
    <3>1. SUFFICES ASSUME T # {} PROVE FALSE
      OBVIOUS
    <3>2. T \subseteq Nat
      BY <2>1
    <3>3. PICK n \in T : \A m \in T : n <= m
      <4> HIDE DEF T
      <4>1. QED
        BY <3>1, <3>2, FirstNatural
    <3>4. n # 1
      BY <2>1, <2>4
    <3>5. n - 1 \in 1 .. N /\ n - 1 \notin T
      BY <2>1, <3>3, <3>4
    <3>6. f[n - 1] \in Seq(S) /\ s[n] \in Seq(S) /\ f[n] = f[n - 1] \o s[n]
      BY <2>1, <2>4, <3>4, <3>5
    <3>7. f[n] \in Seq(S)
      BY <3>6, ConcatProperties
    <3>8. QED
      BY <3>7
  <2> DEFINE g == [n \in 0 .. N |-> IF n = 0 THEN <<>> ELSE f[n]]
  <2>6. \A n \in 0 .. N : g[n] \in Seq(S)
    BY <2>5
  <2>7. \A n \in 1 .. N : g[n] = g[n - 1] \o s[n]
    <3>1. SUFFICES ASSUME NEW n \in 1 .. N PROVE g[n] = g[n - 1] \o s[n]
      OBVIOUS
    <3>2. CASE n = 1
      <4>1. s[n] \in Seq(S) /\ g[n] = s[n] /\ g[n - 1] = <<>>
        BY <2>1, <2>4, <3>2
      <4>2. QED
        BY <4>1, ConcatEmptySeq
    <3>3. CASE n # 1
      <4>1. n - 1 \in 0 .. N /\ n - 1 # 0 /\ n \in 0 .. N /\ n # 0
        BY <2>1, <3>3
      <4>2. g[n] = f[n] /\ g[n - 1] = f[n - 1]
        BY <4>1
      <4>3. QED
        BY <2>4, <3>3, <4>2
    <3>4. QED
      BY <3>2, <3>3
  <2>8. Flattens(g, s, S)
    <3>1. g \in [0 .. N -> Seq(S)]
      BY <2>6
    <3>2. g[0] = <<>>
      BY <2>1
    <3>3. QED
      BY <2>7, <3>1, <3>2 DEF Flattens
  <2>9. FlattenSeq(s) = g[N]
    BY <2>1, <2>3
  <2>10. QED
    BY <2>8, <2>9
<1>3. QED
  BY <1>1, <1>2

LEMMA FlattenType ==
  ASSUME NEW S, NEW s \in Seq(Seq(S))
  PROVE  FlattenSeq(s) \in Seq(S)
<1>1. PICK g : Flattens(g, s, S) /\ FlattenSeq(s) = g[Len(s)]
  BY FlattenDef
<1>2. Len(s) \in 0 .. Len(s)
  OBVIOUS
<1>3. QED
  BY <1>1, <1>2 DEF Flattens

\* Text that stands before the flattened pieces stands before all but the last.
PartsLast(g, s, x) == \A n \in 1 .. Len(s) : x \o g[n] = (x \o g[n - 1]) \o s[n]

LEMMA LastPiece ==
  ASSUME NEW S, NEW s \in Seq(Seq(S)), NEW x \in Seq(S), NEW g, Flattens(g, s, S)
  PROVE  PartsLast(g, s, x)
<1>1. SUFFICES ASSUME NEW n \in 1 .. Len(s)
               PROVE  x \o g[n] = (x \o g[n - 1]) \o s[n]
  BY DEF PartsLast
<1>2. Len(s) \in Nat /\ s[n] \in Seq(S)
  BY LenProperties, ElementOfSeq
<1>3. n - 1 \in 0 .. Len(s)
  BY <1>2
<1>4. g[n - 1] \in Seq(S) /\ g[n] = g[n - 1] \o s[n]
  BY <1>3 DEF Flattens
<1>5. PICK u : u = g[n - 1]
  OBVIOUS
<1>6. PICK v : v = s[n]
  OBVIOUS
<1>7. u \in Seq(S) /\ v \in Seq(S)
  BY <1>2, <1>4, <1>5, <1>6
<1>8. x \o (u \o v) = (x \o u) \o v
  BY <1>7, Associative
<1>9. QED
  BY <1>4, <1>5, <1>6, <1>8

\* The texts p after x and q after y are the same.
Same(x, p, y, q) == x \o p = y \o q

\* Each of the last k pieces of s and t can be taken off a text in one way only.
TakenOff(s, t, k, S) ==
  \A j \in 0 .. k - 1 : \A u, v \in Seq(S) :
    Same(u, s[Len(s) - j], v, t[Len(t) - j]) => u = v /\ s[Len(s) - j] = t[Len(t) - j]

\* The texts x and y, with the pieces of s and t after them, are the same, and the
\* last k pieces can be taken off in one way only.
Alike(S, s, t, x, y, g, h, k) ==
  /\ s \in Seq(Seq(S)) /\ t \in Seq(Seq(S)) /\ x \in Seq(S) /\ y \in Seq(S)
  /\ Flattens(g, s, S) /\ Flattens(h, t, S) /\ Same(x, g[Len(s)], y, h[Len(t)])
  /\ k \in Nat /\ k <= Len(s) /\ k <= Len(t) /\ TakenOff(s, t, k, S)

\* When each of the last k pieces of two sequences can be taken off whatever stands
\* before it, equal texts have the same last k pieces and equal beginnings.
LEMMA PiecesTakenOff ==
  ASSUME NEW S, NEW s, NEW t, NEW x, NEW y, NEW g, NEW h, NEW k, Alike(S, s, t, x, y, g, h, k)
  PROVE  /\ Same(x, g[Len(s) - k], y, h[Len(t) - k])
         /\ \A j \in 0 .. k - 1 : s[Len(s) - j] = t[Len(t) - j]
<1>0. /\ s \in Seq(Seq(S)) /\ t \in Seq(Seq(S)) /\ x \in Seq(S) /\ y \in Seq(S)
      /\ Flattens(g, s, S) /\ Flattens(h, t, S) /\ Same(x, g[Len(s)], y, h[Len(t)])
      /\ k \in Nat /\ k <= Len(s) /\ k <= Len(t) /\ TakenOff(s, t, k, S)
  BY DEF Alike
<1> DEFINE m == Len(s)
           n == Len(t)
           A(j) == x \o g[m - j] = y \o h[n - j]
<1>1. /\ m \in Nat /\ n \in Nat
      /\ \A i \in 1 .. m : s[i] \in Seq(S)
      /\ \A i \in 1 .. n : t[i] \in Seq(S)
      /\ \A i \in 0 .. m : g[i] \in Seq(S)
      /\ \A i \in 0 .. n : h[i] \in Seq(S)
  BY <1>0, LenProperties, ElementOfSeq DEF Flattens
<1>8. PartsLast(g, s, x) /\ PartsLast(h, t, y)
  BY <1>0, LastPiece
<1>2. \A j \in 0 .. k - 1 :
         x \o g[m - j] = (x \o g[m - j - 1]) \o s[m - j] /\ y \o h[n - j] = (y \o h[n - j - 1]) \o t[n - j]
  <2>1. SUFFICES ASSUME NEW j \in 0 .. k - 1
                 PROVE  /\ x \o g[m - j] = (x \o g[m - j - 1]) \o s[m - j]
                        /\ y \o h[n - j] = (y \o h[n - j - 1]) \o t[n - j]
    OBVIOUS
  <2>2. m - j \in 1 .. Len(s) /\ n - j \in 1 .. Len(t)
    BY <1>0, <1>1
  <2> HIDE DEF m, n
  <2>3. QED
    BY <2>2, <1>8 DEF PartsLast
<1>3. \A j \in 0 .. k - 1 : A(j) => A(j + 1) /\ s[m - j] = t[n - j]
  <2>1. SUFFICES ASSUME NEW j \in 0 .. k - 1, A(j)
                 PROVE  A(j + 1) /\ s[m - j] = t[n - j]
    OBVIOUS
  <2>2. m - j - 1 \in 0 .. m /\ n - j - 1 \in 0 .. n
    BY <1>0, <1>1
  <2>3. x \o g[m - j - 1] \in Seq(S) /\ y \o h[n - j - 1] \in Seq(S)
    BY <1>0, <1>1, <2>2, ConcatProperties
  <2>4. x \o g[m - j - 1] = y \o h[n - j - 1] /\ s[m - j] = t[n - j]
    BY <1>0, <1>2, <2>1, <2>3 DEF TakenOff, Same
  <2>5. m - j - 1 = m - (j + 1) /\ n - j - 1 = n - (j + 1)
    BY <1>0, <1>1
  <2>6. QED
    BY <2>4, <2>5
<1>4. A(0)
  <2>1. m - 0 = m /\ n - 0 = n
    BY <1>0, <1>1
  <2>2. QED
    BY <1>0, <2>1 DEF Same
<1>5. A(k) = Same(x, g[m - k], y, h[n - k])
  BY <1>0 DEF Same
<1> HIDE DEF A
<1>6. \A j \in 0 .. k : A(j)
  <2> DEFINE T == {j \in 0 .. k : ~A(j)}
  <2>1. SUFFICES ASSUME T # {} PROVE FALSE
    OBVIOUS
  <2>2. T \subseteq Nat
    BY <1>0
  <2>3. PICK j \in T : \A i \in T : j <= i
    <3> HIDE DEF T
    <3>1. QED
      BY <2>1, <2>2, FirstNatural
  <2>4. j \in 0 .. k /\ ~A(j) /\ j # 0
    BY <1>0, <1>4
  <2>5. j - 1 \in 0 .. k - 1 /\ j - 1 \in 0 .. k /\ j - 1 < j /\ (j - 1) + 1 = j
    BY <1>0, <2>4
  <2>6. A(j - 1)
    BY <2>3, <2>5
  <2>7. A((j - 1) + 1)
    BY <1>3, <2>5, <2>6
  <2>8. QED
    BY <2>4, <2>5, <2>7
<1>7. k \in 0 .. k /\ \A j \in 0 .. k - 1 : j \in 0 .. k
  BY <1>0
<1>9. QED
  BY <1>3, <1>5, <1>6, <1>7

\* The flattened beginnings of a sequence begin each other.
LEMMA BeginningsBegin ==
  ASSUME NEW S, NEW s \in Seq(Seq(S)), NEW g, Flattens(g, s, S)
  PROVE  \A n \in 0 .. Len(s) :
           /\ Len(g[n]) <= Len(g[Len(s)])
           /\ \A j \in 1 .. Len(g[n]) : g[Len(s)][j] = g[n][j]
<1> DEFINE N == Len(s)
           B(n) == /\ Len(g[n]) <= Len(g[N])
                   /\ \A j \in 1 .. Len(g[n]) : g[N][j] = g[n][j]
<1>1. /\ N \in Nat
      /\ \A n \in 0 .. N : g[n] \in Seq(S) /\ Len(g[n]) \in Nat
      /\ \A n \in 1 .. N : s[n] \in Seq(S) /\ Len(s[n]) \in Nat
  BY LenProperties, ElementOfSeq DEF Flattens
<1>2. ASSUME NEW n \in 1 .. N, B(n)
      PROVE  B(n - 1)
  <2>0. n - 1 \in 0 .. N /\ n \in 0 .. N /\ N \in 0 .. N
    BY <1>1
  <2>1. g[n] = g[n - 1] \o s[n]
    BY DEF Flattens
  <2>2. PICK u : u = g[n - 1]
    OBVIOUS
  <2>3. PICK v : v = s[n]
    OBVIOUS
  <2>4. u \in Seq(S) /\ v \in Seq(S) /\ Len(u) \in Nat /\ Len(v) \in Nat
    BY <1>1, <2>0, <2>2, <2>3
  <2>5. Len(u \o v) = Len(u) + Len(v) /\ \A j \in 1 .. Len(u) : (u \o v)[j] = u[j]
    BY <2>4, ConcatProperties
  <2>6. g[n] = u \o v
    BY <2>1, <2>2, <2>3
  <2>7. Len(u) <= Len(g[n]) /\ \A j \in 1 .. Len(u) : g[n][j] = u[j]
    BY <2>4, <2>5, <2>6
  <2>8. Len(g[n]) \in Nat /\ Len(g[N]) \in Nat
    <3> HIDE DEF N, B
    <3>1. QED
      BY <1>1, <2>0
  <2>9. Len(u) <= Len(g[N]) /\ \A j \in 1 .. Len(u) : g[N][j] = u[j]
    BY <1>2, <2>4, <2>7, <2>8
  <2>10. QED
    BY <2>2, <2>9
<1>3. B(N)
  BY <1>1
<1> HIDE DEF B
<1>4. \A n \in 0 .. N : B(n)
  <2> DEFINE T == {k \in 0 .. N : ~B(N - k)}
  <2>1. SUFFICES ASSUME T # {} PROVE FALSE
    <3>1. \A n \in 0 .. N : N - n \in 0 .. N /\ N - (N - n) = n
      BY <1>1
    <3>2. QED
      BY <3>1
  <2>2. T \subseteq Nat
    BY <1>1
  <2>3. PICK k \in T : \A i \in T : k <= i
    <3> HIDE DEF T
    <3>1. QED
      BY <2>1, <2>2, FirstNatural
  <2>4. k \in 0 .. N /\ ~B(N - k) /\ k # 0
    <3>1. N - 0 = N
      BY <1>1
    <3>2. QED
      BY <1>3, <3>1
  <2>5. k - 1 \in 0 .. N /\ k - 1 < k /\ N - (k - 1) \in 1 .. N /\ (N - (k - 1)) - 1 = N - k
    BY <1>1, <2>4
  <2>6. B(N - (k - 1))
    <3>1. k - 1 \notin T
      <4> HIDE DEF T
      <4>1. QED
        BY <2>3, <2>4, <2>5
    <3>2. QED
      BY <2>5, <3>1
  <2>7. B((N - (k - 1)) - 1)
    BY <1>2, <2>5, <2>6
  <2>8. QED
    BY <2>4, <2>5, <2>7
<1>5. QED
  BY <1>4 DEF B

-----------------------------------------------------------------------------
(* Reading a string.                                                       *)

\* r holds what the reader has after each of the characters of raw.
Reads(r, raw) ==
  r[0] = Begun /\ \A n \in 1 .. Len(raw) : r[n] = Take(r[n - 1], raw[n])

LEMMA ReadExists ==
  ASSUME NEW raw, NEW N \in Nat
  PROVE  \E r : r = [n \in 0 .. N |-> IF n = 0 THEN Begun ELSE Take(r[n - 1], raw[n])]
<1> DEFINE Upto(r, m) == r = [n \in 0 .. m |-> IF n = 0 THEN Begun ELSE Take(r[n - 1], raw[n])]
<1>1. \E r : Upto(r, 0)
  <2>1. Upto([n \in 0 .. 0 |-> Begun], 0)
    OBVIOUS
  <2>2. QED
    BY <2>1
<1>2. ASSUME NEW m \in Nat \ {0}, \E r : Upto(r, m - 1)
      PROVE  \E r : Upto(r, m)
  <2>1. PICK f : Upto(f, m - 1)
    BY <1>2
  <2> DEFINE g == [n \in 0 .. m |-> IF n = 0 THEN Begun ELSE Take(f[n - 1], raw[n])]
  <2>2. \A n \in 0 .. m - 1 : g[n] = f[n]
    <3>1. \A n \in 0 .. m - 1 : f[n] = IF n = 0 THEN Begun ELSE Take(f[n - 1], raw[n])
      BY <2>1
    <3>2. QED
      BY <3>1, <1>2
  <2>3. \A n \in 0 .. m : n # 0 => g[n - 1] = f[n - 1]
    <3> HIDE DEF g
    <3>1. \A n \in 0 .. m : n # 0 => n - 1 \in 0 .. m - 1
      BY <1>2
    <3>2. QED
      BY <2>2, <3>1
  <2>4. g = [n \in 0 .. m |-> IF n = 0 THEN Begun ELSE Take(g[n - 1], raw[n])]
    <3> HIDE DEF g
    <3>1. \A n \in 0 .. m : (IF n = 0 THEN Begun ELSE Take(f[n - 1], raw[n]))
                              = (IF n = 0 THEN Begun ELSE Take(g[n - 1], raw[n]))
      BY <2>3
    <3>2. QED
      BY <3>1 DEF g
  <2>5. QED
    BY <2>4
<1> HIDE DEF Upto
<1> DEFINE T == {m \in Nat : ~ \E r : Upto(r, m)}
<1>3. T = {}
  <2>1. SUFFICES ASSUME T # {} PROVE FALSE
    OBVIOUS
  <2>2. PICK m \in T : \A i \in T : m <= i
    <3>1. T \subseteq Nat
      OBVIOUS
    <3> HIDE DEF T
    <3>2. QED
      BY <2>1, <3>1, FirstNatural
  <2>3. m \in Nat \ {0} /\ m - 1 \in Nat /\ m - 1 < m
    BY <1>1
  <2>4. \E r : Upto(r, m - 1)
    BY <2>2, <2>3
  <2>5. \E r : Upto(r, m)
    BY <1>2, <2>3, <2>4
  <2>6. QED
    BY <2>5
<1>4. \E r : Upto(r, N)
  BY <1>3
<1>5. QED
  BY <1>4 DEF Upto

LEMMA ReadDef ==
  ASSUME NEW raw, Len(raw) \in Nat
  PROVE  \E r : /\ Reads(r, raw)
                /\ ParseString(raw) = IF r[Len(raw)].ok /\ ~r[Len(raw)].escaped
                                        THEN Success(r[Len(raw)].out, 1) ELSE Failure
<1> DEFINE N == Len(raw)
           Is(r) == r = [n \in 0 .. N |-> IF n = 0 THEN Begun ELSE Take(r[n - 1], raw[n])]
           r == CHOOSE h : Is(h)
<1>1. Is(r)
  BY ReadExists
<1>2. ParseString(raw) = IF r[N].ok /\ ~r[N].escaped THEN Success(r[N].out, 1) ELSE Failure
  BY DEF ParseString
<1> HIDE DEF r
<1>3. Reads(r, raw)
  BY <1>1 DEF Reads
<1>4. QED
  BY <1>2, <1>3

\* What the reader has when it has read all of o and is in no escape.
After(o) == [ok |-> TRUE, out |-> o, escaped |-> FALSE]
InEscape(o) == [ok |-> TRUE, out |-> o, escaped |-> TRUE]

LEMMA PairOfSeq ==
  ASSUME NEW S, NEW e \in S, NEW d \in S
  PROVE  <<e, d>> \in Seq(S) /\ Len(<<e, d>>) = 2
OBVIOUS

\* What an escape consists of.
Written == {"quote", "backslash", "n", "u0007"}

\* A character is written as one or two, which the reader takes back for it.
LEMMA CodeType ==
  ASSUME NEW S, Written \subseteq S, NEW ch \in S
  PROVE  Code(ch) \in Seq(S) /\ Len(Code(ch)) \in 1 .. 2
<1>1. DOMAIN Escapes = {"quote", "backslash", "newline", "bell"}
  BY DEF Escapes
<1>2. /\ Escapes["quote"] = "quote" /\ Escapes["backslash"] = "backslash"
      /\ Escapes["newline"] = "n" /\ Escapes["bell"] = "u0007"
  BY DEF Escapes
<1>3. CASE ch \in DOMAIN Escapes
  <2>1. Escapes[ch] \in S /\ "backslash" \in S
    BY <1>1, <1>2, <1>3 DEF Written
  <2>2. Code(ch) = <<"backslash", Escapes[ch]>>
    BY <1>3 DEF Code
  <2>3. QED
    BY <2>1, <2>2, PairOfSeq
<1>4. CASE ch \notin DOMAIN Escapes
  <2>1. Code(ch) = <<ch>>
    BY <1>4 DEF Code
  <2>2. QED
    BY <2>1
<1>5. QED
  BY <1>3, <1>4

LEMMA CodeIsTaken ==
  ASSUME NEW S, NEW o \in Seq(S), NEW ch \in S
  PROVE  \/ /\ Len(Code(ch)) = 1
            /\ Take(After(o), Code(ch)[1]) = After(Append(o, ch))
         \/ /\ Len(Code(ch)) = 2
            /\ Take(Take(After(o), Code(ch)[1]), Code(ch)[2]) = After(Append(o, ch))
<1>1. DOMAIN Escapes = {"quote", "backslash", "newline", "bell"}
  BY DEF Escapes
<1>2. CASE ch \in DOMAIN Escapes
  <2>1. Code(ch) = <<"backslash", Escapes[ch]>>
    BY <1>2 DEF Code
  <2>2. Len(Code(ch)) = 2 /\ Code(ch)[1] = "backslash" /\ Code(ch)[2] = Escapes[ch]
    BY <2>1
  <2>3. Take(After(o), "backslash") = InEscape(o)
    BY DEF Take, After, InEscape
  <2>4. Escapes[ch] \in DOMAIN Unescapes /\ Unescapes[Escapes[ch]] = ch
    BY <1>1, <1>2 DEF Escapes, Unescapes
  <2>5. Take(InEscape(o), Escapes[ch]) = After(Append(o, ch))
    BY <2>4 DEF Take, After, InEscape
  <2>6. QED
    BY <2>2, <2>3, <2>5
<1>3. CASE ch \notin DOMAIN Escapes
  <2>1. Code(ch) = <<ch>>
    BY <1>3 DEF Code
  <2>2. Len(Code(ch)) = 1 /\ Code(ch)[1] = ch
    BY <2>1
  <2>3. Take(After(o), ch) = After(Append(o, ch))
    BY <1>1, <1>3 DEF Take, After
  <2>4. QED
    BY <2>2, <2>3
<1>4. QED
  BY <1>2, <1>3

Codes(v) == [i \in DOMAIN v |-> Code(v[i])]

LEMMA EscapeType ==
  ASSUME NEW S, Written \subseteq S, NEW v \in Seq(S)
  PROVE  /\ Codes(v) \in Seq(Seq(S)) /\ Len(Codes(v)) = Len(v)
         /\ Escape(v) = FlattenSeq(Codes(v))
         /\ Escape(v) \in Seq(S)
<1>1. Len(v) \in Nat /\ DOMAIN v = 1 .. Len(v) /\ \A i \in 1 .. Len(v) : v[i] \in S
  BY LenProperties, ElementOfSeq
<1>2. \A i \in 1 .. Len(v) : Code(v[i]) \in Seq(S)
  BY <1>1, CodeType
<1>3. Codes(v) \in Seq(Seq(S)) /\ Len(Codes(v)) = Len(v)
  BY <1>1, <1>2 DEF Codes
<1>4. Escape(v) = FlattenSeq(Codes(v))
  BY DEF Escape, Codes
<1>5. QED
  BY <1>3, <1>4, FlattenType

\* parse_string reads what escape has written as what it was written from, whatever
\* the content of the string: quotes, backslashes and control characters included.
THEOREM WrittenIsRead ==
  ASSUME NEW S, Written \subseteq S, NEW v \in Seq(S)
  PROVE  ParseString(Escape(v)) = Success(v, 1)
<1> DEFINE N == Len(v)
           s == Codes(v)
           raw == Escape(v)
<1>1. /\ N \in Nat /\ s \in Seq(Seq(S)) /\ Len(s) = N
      /\ raw = FlattenSeq(s) /\ raw \in Seq(S) /\ Len(raw) \in Nat
      /\ DOMAIN v = 1 .. N /\ \A i \in 1 .. N : v[i] \in S /\ s[i] = Code(v[i])
  BY EscapeType, LenProperties, ElementOfSeq DEF Codes
<1> HIDE DEF s, raw
<1>2. PICK g : Flattens(g, s, S) /\ raw = g[N]
  BY <1>1, FlattenDef
<1>3. PICK r : /\ Reads(r, raw)
               /\ ParseString(raw) = IF r[Len(raw)].ok /\ ~r[Len(raw)].escaped
                                       THEN Success(r[Len(raw)].out, 1) ELSE Failure
  BY <1>1, ReadDef
<1> DEFINE Good(n) == r[Len(g[n])] = After(SubSeq(v, 1, n))
<1>4. Good(0)
  <2>1. g[0] = <<>> /\ Len(g[0]) = 0
    BY <1>2 DEF Flattens
  <2>2. SubSeq(v, 1, 0) = <<>>
    BY SubSeqEmpty
  <2>3. r[0] = After(<<>>)
    BY <1>3 DEF Reads, Begun, After
  <2>4. QED
    BY <2>1, <2>2, <2>3
<1>5. ASSUME NEW n \in 1 .. N, Good(n - 1)
      PROVE  Good(n)
  <2> DEFINE L == Len(g[n - 1])
             c == Code(v[n])
             o == SubSeq(v, 1, n - 1)
  <2>1. n - 1 \in 0 .. N /\ n \in 0 .. N /\ n \in 1 .. Len(s)
    BY <1>1
  <2>2. g[n - 1] \in Seq(S) /\ g[n] \in Seq(S) /\ g[n] = g[n - 1] \o c
    BY <1>1, <1>2, <2>1 DEF Flattens
  <2>3. c \in Seq(S) /\ Len(c) \in 1 .. 2
    BY <1>1, CodeType
  <2>4. L \in Nat /\ Len(g[n]) = L + Len(c) /\ \A j \in 1 .. Len(c) : g[n][L + j] = c[j]
    <3>1. PICK x : x = g[n - 1]
      OBVIOUS
    <3>2. x \in Seq(S) /\ Len(x) \in Nat /\ Len(c) \in Nat
      BY <2>2, <2>3, <3>1
    <3> HIDE DEF c
    <3>3. /\ Len(x \o c) = Len(x) + Len(c)
          /\ \A i \in 1 .. Len(x) + Len(c) : (x \o c)[i] = IF i <= Len(x) THEN x[i] ELSE c[i - Len(x)]
      BY <2>3, <3>2, ConcatProperties
    <3>4. \A j \in 1 .. Len(c) : (x \o c)[Len(x) + j] = c[j]
      <4>1. SUFFICES ASSUME NEW j \in 1 .. Len(c)
                     PROVE  (x \o c)[Len(x) + j] = c[j]
        OBVIOUS
      <4>2. Len(x) + j \in 1 .. Len(x) + Len(c) /\ ~(Len(x) + j <= Len(x)) /\ (Len(x) + j) - Len(x) = j
        BY <3>2
      <4>3. QED
        BY <3>3, <4>2
    <3>5. QED
      BY <2>2, <3>1, <3>2, <3>3, <3>4
  <2>5. Len(g[n]) <= Len(raw) /\ \A j \in 1 .. Len(g[n]) : raw[j] = g[n][j]
    BY <1>1, <1>2, <2>1, BeginningsBegin
  <2>6. o \in Seq(S) /\ SubSeq(v, 1, n) = Append(o, v[n])
    <3>1. 1 \in 1 .. Len(v) /\ n \in 1 .. Len(v)
      BY <1>1
    <3>2. o \in Seq(S)
      BY <1>1, SubSeqProperties
    <3>3. SubSeq(v, 1, n) = o \o <<v[n]>>
      BY <3>1, SubSeqRecursiveSecond
    <3>4. QED
      BY <1>1, <3>2, <3>3, AppendIsConcat
  <2>7. v[n] \in S
    BY <1>1
  <2> HIDE DEF c, o, L
  <2>8. r[L] = After(o)
    BY <1>5 DEF L, o
  <2>9. CASE Len(c) = 1 /\ Take(After(o), c[1]) = After(Append(o, v[n]))
    <3>1. L + 1 \in 1 .. Len(raw) /\ (L + 1) - 1 = L /\ Len(g[n]) = L + 1 /\ raw[L + 1] = c[1]
      BY <1>1, <2>4, <2>5, <2>9
    <3>2. r[L + 1] = Take(r[L], c[1])
      BY <1>3, <3>1 DEF Reads
    <3>3. QED
      BY <2>6, <2>8, <2>9, <3>1, <3>2
  <2>10. CASE Len(c) = 2 /\ Take(Take(After(o), c[1]), c[2]) = After(Append(o, v[n]))
    <3>1. Len(g[n]) = L + 2 /\ g[n][L + 1] = c[1] /\ g[n][L + 2] = c[2]
      BY <2>4, <2>10
    <3>2. /\ L + 1 \in 1 .. Len(raw) /\ L + 2 \in 1 .. Len(raw)
          /\ (L + 1) - 1 = L /\ (L + 2) - 1 = L + 1
      BY <1>1, <2>4, <2>5, <3>1
    <3>3. raw[L + 1] = c[1] /\ raw[L + 2] = c[2]
      BY <2>4, <2>5, <3>1
    <3>4. r[L + 1] = Take(r[L], c[1]) /\ r[L + 2] = Take(r[L + 1], c[2])
      BY <1>3, <3>2, <3>3 DEF Reads
    <3>5. QED
      BY <2>6, <2>8, <2>10, <3>1, <3>4
  <2>11. QED
    BY <2>6, <2>7, <2>9, <2>10, CodeIsTaken DEF c
<1> HIDE DEF Good
<1>6. Good(N)
  <2> DEFINE T == {n \in 0 .. N : ~Good(n)}
  <2>1. SUFFICES ASSUME T # {} PROVE FALSE
    BY <1>1
  <2>2. PICK n \in T : \A m \in T : n <= m
    <3>1. T \subseteq Nat
      BY <1>1
    <3> HIDE DEF T
    <3>2. QED
      BY <2>1, <3>1, FirstNatural
  <2>3. n \in 1 .. N /\ n - 1 \in 0 .. N /\ n - 1 < n
    BY <1>1, <1>4
  <2>4. n - 1 \notin T
    <3> HIDE DEF T
    <3>1. QED
      BY <2>2, <2>3
  <2>5. Good(n - 1)
    BY <2>3, <2>4
  <2>6. QED
    BY <1>5, <2>3, <2>5
<1>7. r[Len(raw)] = After(v)
  <2>1. SubSeq(v, 1, N) = v
    BY SubSeqFull
  <2>2. QED
    BY <1>2, <1>6, <2>1 DEF Good
<1>8. ParseString(raw) = Success(v, 1)
  BY <1>3, <1>7 DEF After
<1>9. QED
  BY <1>8 DEF raw

LEMMA WrittenApart ==
  ASSUME NEW S, Written \subseteq S, NEW v \in Seq(S), NEW w \in Seq(S), Escape(v) = Escape(w)
  PROVE  v = w
<1>1. Success(v, 1) = Success(w, 1)
  BY WrittenIsRead
<1>2. QED
  BY <1>1 DEF Success

-----------------------------------------------------------------------------
(* The texts of receipts.                                                  *)

\* a is x followed by p.
Joined(a, x, p) == a = x \o p

\* Two texts that are the same end in a mark e and what follows it, p and q.
Marked(S, e, m, x, y, p, q, a, b) ==
  /\ e \in S /\ m = <<e>> /\ x \in Seq(S) /\ y \in Seq(S)
  /\ p \in Seq(S \ {e}) /\ q \in Seq(S \ {e})
  /\ Joined(a, x, m) /\ Joined(b, y, m) /\ Same(a, p, b, q)

\* The last e in a sequence parts it in one way only.
LEMMA LastMark ==
  ASSUME NEW S, NEW e, NEW m, NEW x, NEW y, NEW p, NEW q, NEW a, NEW b,
         Marked(S, e, m, x, y, p, q, a, b)
  PROVE  x = y /\ p = q
<1> USE DEF Marked
<1> DEFINE t == a \o p
<1>0. /\ e \in S /\ m \in Seq(S) /\ Len(m) = 1 /\ m[1] = e /\ a = x \o m /\ b = y \o m
      /\ x \in Seq(S) /\ y \in Seq(S) /\ p \in Seq(S \ {e}) /\ q \in Seq(S \ {e})
      /\ a \o p = b \o q
  BY DEF Joined, Same
<1> HIDE DEF Marked
<1>1. /\ p \in Seq(S) /\ q \in Seq(S)
      /\ Len(x) \in Nat /\ Len(y) \in Nat /\ Len(p) \in Nat /\ Len(q) \in Nat
      /\ \A i \in 1 .. Len(p) : p[i] # e
      /\ \A i \in 1 .. Len(q) : q[i] # e
  <2>1. p \in Seq(S) /\ q \in Seq(S)
    BY <1>0, SeqMonotonic
  <2>2. /\ \A i \in 1 .. Len(p) : p[i] \in S \ {e}
        /\ \A i \in 1 .. Len(q) : q[i] \in S \ {e}
    BY <1>0, ElementOfSeq
  <2>3. QED
    BY <1>0, <2>1, <2>2, LenProperties
<1>2. /\ a \in Seq(S) /\ Len(a) = Len(x) + 1 /\ a[Len(x) + 1] = e
      /\ b \in Seq(S) /\ Len(b) = Len(y) + 1 /\ b[Len(y) + 1] = e
  <2>1. ASSUME NEW z \in Seq(S), NEW c, c = z \o m
        PROVE  c \in Seq(S) /\ Len(c) = Len(z) + 1 /\ c[Len(z) + 1] = e
    <3>1. /\ z \o m \in Seq(S) /\ Len(z \o m) = Len(z) + Len(m)
          /\ \A i \in 1 .. Len(z) + Len(m) :
               (z \o m)[i] = IF i <= Len(z) THEN z[i] ELSE m[i - Len(z)]
      BY <1>0, ConcatProperties
    <3>2. Len(z) \in Nat
      BY LenProperties
    <3>3. Len(z) + 1 \in 1 .. Len(z) + Len(m) /\ ~(Len(z) + 1 <= Len(z)) /\ (Len(z) + 1) - Len(z) = 1
      BY <1>0, <3>2
    <3>4. (z \o m)[Len(z) + 1] = m[1]
      BY <3>1, <3>3
    <3>5. QED
      BY <1>0, <2>1, <3>1, <3>4
  <2>2. a \in Seq(S) /\ Len(a) = Len(x) + 1 /\ a[Len(x) + 1] = e
    BY <1>0, <2>1
  <2>3. b \in Seq(S) /\ Len(b) = Len(y) + 1 /\ b[Len(y) + 1] = e
    BY <1>0, <2>1
  <2>4. QED
    BY <2>2, <2>3
<1>3. /\ Len(t) = Len(x) + 1 + Len(p) /\ t[Len(x) + 1] = e
      /\ \A i \in 1 .. Len(t) : i > Len(x) + 1 => t[i] = p[i - (Len(x) + 1)]
  <2>1. /\ Len(t) = Len(a) + Len(p)
        /\ \A i \in 1 .. Len(a) + Len(p) : t[i] = IF i <= Len(a) THEN a[i] ELSE p[i - Len(a)]
    BY <1>1, <1>2, ConcatProperties
  <2> HIDE DEF t
  <2>2. QED
    BY <1>1, <1>2, <2>1
<1>4. /\ Len(t) = Len(y) + 1 + Len(q) /\ t[Len(y) + 1] = e
      /\ \A i \in 1 .. Len(t) : i > Len(y) + 1 => t[i] = q[i - (Len(y) + 1)]
  <2>1. t = b \o q
    BY <1>0
  <2> HIDE DEF t
  <2>2. /\ Len(b \o q) = Len(b) + Len(q)
        /\ \A i \in 1 .. Len(b) + Len(q) : (b \o q)[i] = IF i <= Len(b) THEN b[i] ELSE q[i - Len(b)]
    BY <1>1, <1>2, ConcatProperties
  <2>3. QED
    BY <1>1, <1>2, <2>1, <2>2
<1>5. t = a \o p /\ t = b \o q
  BY <1>0
<1> HIDE DEF t
<1>6. ~(Len(x) < Len(y))
  <2>1. SUFFICES ASSUME Len(x) < Len(y) PROVE FALSE
    OBVIOUS
  <2>2. t[Len(y) + 1] = p[Len(y) - Len(x)] /\ Len(y) - Len(x) \in 1 .. Len(p)
    <3>1. Len(y) + 1 \in 1 .. Len(t) /\ Len(y) + 1 > Len(x) + 1
          /\ (Len(y) + 1) - (Len(x) + 1) = Len(y) - Len(x)
          /\ Len(y) - Len(x) \in 1 .. Len(p)
      BY <1>1, <1>3, <1>4, <2>1
    <3>2. t[Len(y) + 1] = p[(Len(y) + 1) - (Len(x) + 1)]
      BY <1>3, <3>1
    <3>3. QED
      BY <3>1, <3>2
  <2>3. QED
    BY <1>1, <1>4, <2>2
<1>7. ~(Len(y) < Len(x))
  <2>1. SUFFICES ASSUME Len(y) < Len(x) PROVE FALSE
    OBVIOUS
  <2>2. t[Len(x) + 1] = q[Len(x) - Len(y)] /\ Len(x) - Len(y) \in 1 .. Len(q)
    <3>1. Len(x) + 1 \in 1 .. Len(t) /\ Len(x) + 1 > Len(y) + 1
          /\ (Len(x) + 1) - (Len(y) + 1) = Len(x) - Len(y)
          /\ Len(x) - Len(y) \in 1 .. Len(q)
      BY <1>1, <1>3, <1>4, <2>1
    <3>2. t[Len(x) + 1] = q[(Len(x) + 1) - (Len(y) + 1)]
      BY <1>4, <3>1
    <3>3. QED
      BY <3>1, <3>2
  <2>3. QED
    BY <1>1, <1>3, <2>2
<1>8. Len(x) = Len(y) /\ Len(p) = Len(q)
  BY <1>1, <1>3, <1>4, <1>6, <1>7
<1>9. p = q
  <2>1. \A i \in 1 .. Len(p) : p[i] = q[i]
    <3>1. SUFFICES ASSUME NEW i \in 1 .. Len(p) PROVE p[i] = q[i]
      OBVIOUS
    <3>2. Len(x) + 1 + i \in 1 .. Len(t) /\ Len(x) + 1 + i > Len(x) + 1
          /\ (Len(x) + 1 + i) - (Len(x) + 1) = i
      BY <1>1, <1>3
    <3>3. t[Len(x) + 1 + i] = p[i] /\ t[Len(x) + 1 + i] = q[i]
      BY <1>3, <1>4, <1>8, <3>2
    <3>4. QED
      BY <3>3
  <2>2. QED
    BY <1>1, <1>8, <2>1, SeqEqual
<1>10. a = b
  BY <1>1, <1>2, <1>5, <1>9, ConcatSimplifications
<1>11. x = y
  BY <1>0, <1>10, ConcatSimplifications
<1>12. QED
  BY <1>9, <1>11

\* What the texts are written in, and the receipts whose values have no equals sign.
Marks == Written \cup {ReceiptFields[i] : i \in DOMAIN ReceiptFields} \cup {"|", "="}

Receipt(S) == [{ReceiptFields[i] : i \in DOMAIN ReceiptFields} -> Seq(S \ {"="})]

\* What stands before the equals sign of a field.
KeyText(i) == (IF i = 1 THEN <<>> ELSE <<"|">>) \o <<ReceiptFields[i]>>

LEMMA KeyType ==
  ASSUME NEW S, Marks \subseteq S, NEW i \in DOMAIN ReceiptFields
  PROVE  KeyText(i) \in Seq(S)
<1>1. ReceiptFields[i] \in S /\ "|" \in S
  BY DEF Marks
<1>2. QED
  BY <1>1 DEF KeyText

LEMMA FieldDef ==
  ASSUME NEW S, Marks \subseteq S, NEW i \in DOMAIN ReceiptFields, NEW v \in Seq(S \ {"="})
  PROVE  /\ FieldText(i, v) = (KeyText(i) \o <<"=">>) \o Escape(v)
         /\ FieldText(i, v) \in Seq(S) /\ FieldText(i, v) # <<>>
         /\ Escape(v) \in Seq(S \ {"="})
<1>1. Written \subseteq S \ {"="} /\ "=" \in S /\ "|" \in S /\ ReceiptFields[i] \in S
  BY DEF Marks, Written
<1>2. Escape(v) \in Seq(S \ {"="})
  BY <1>1, EscapeType
<1>3. Escape(v) \in Seq(S)
  BY <1>2, SeqMonotonic
<1> DEFINE bar == IF i = 1 THEN <<>> ELSE <<"|">>
           key == <<ReceiptFields[i]>>
           eq  == <<"=">>
<1>4. bar \in Seq(S) /\ key \in Seq(S) /\ eq \in Seq(S) /\ Len(eq) = 1
  BY <1>1
<1>5. <<ReceiptFields[i], "=">> = key \o eq
  OBVIOUS
<1>6. FieldText(i, v) = (bar \o (key \o eq)) \o Escape(v) /\ KeyText(i) = bar \o key
  BY <1>5 DEF FieldText, KeyText
<1> HIDE DEF bar, key, eq
<1>7. bar \o (key \o eq) = (bar \o key) \o eq
  <2>1. \A x, y, z \in Seq(S) : x \o (y \o z) = (x \o y) \o z
    BY Associative
  <2>2. QED
    BY <1>4, <2>1
<1>8. (bar \o key) \o eq \in Seq(S) /\ (bar \o key) \o eq # <<>>
  <2>1. bar \o key \in Seq(S)
    BY <1>4, ConcatProperties
  <2>2. eq # <<>>
    BY DEF eq
  <2>3. QED
    BY <1>4, <2>1, <2>2, ConcatProperties, ConcatEqualIffEmpty
<1>9. ((bar \o key) \o eq) \o Escape(v) \in Seq(S) /\ ((bar \o key) \o eq) \o Escape(v) # <<>>
  BY <1>3, <1>8, ConcatProperties, ConcatEqualIffEmpty
<1>10. QED
  BY <1>2, <1>6, <1>7, <1>9 DEF eq

Texts(S, x, k, m, p) == x \in Seq(S) /\ k \in Seq(S) /\ m \in Seq(S) /\ p \in Seq(S)

LEMMA Regrouped ==
  ASSUME NEW S, NEW x, NEW k, NEW m, NEW p, Texts(S, x, k, m, p)
  PROVE  x \o ((k \o m) \o p) = ((x \o k) \o m) \o p
<1>0. x \in Seq(S) /\ k \in Seq(S) /\ m \in Seq(S) /\ p \in Seq(S)
  BY DEF Texts
<1>1. PICK km : km = k \o m
  OBVIOUS
<1>2. km \in Seq(S)
  BY <1>0, <1>1, ConcatProperties
<1>3. x \o (km \o p) = (x \o km) \o p
  BY <1>0, <1>2, Associative
<1>4. x \o (k \o m) = (x \o k) \o m
  BY <1>0, Associative
<1>5. QED
  BY <1>1, <1>3, <1>4

\* c and d are the same mark and what follows it, p and q, after k.
Ends(S, e, m, k, p, q, c, d) ==
  /\ e \in S /\ m = <<e>> /\ k \in Seq(S)
  /\ p \in Seq(S \ {e}) /\ q \in Seq(S \ {e})
  /\ c = (k \o m) \o p /\ d = (k \o m) \o q

LEMMA MarkedTakenOff ==
  ASSUME NEW S, NEW e, NEW m, NEW k, NEW p, NEW q, NEW c, NEW d, Ends(S, e, m, k, p, q, c, d),
         NEW x \in Seq(S), NEW y \in Seq(S), Same(x, c, y, d)
  PROVE  x = y /\ p = q
<1>1. /\ k \in Seq(S) /\ m \in Seq(S) /\ e \in S /\ m = <<e>>
      /\ p \in Seq(S \ {e}) /\ q \in Seq(S \ {e})
      /\ c = (k \o m) \o p /\ d = (k \o m) \o q
  BY DEF Ends
<1>2. p \in Seq(S) /\ q \in Seq(S)
  BY <1>1, SeqMonotonic
<1>3. PICK xk : xk = x \o k
  OBVIOUS
<1>4. PICK yk : yk = y \o k
  OBVIOUS
<1>5. xk \in Seq(S) /\ yk \in Seq(S)
  BY <1>1, <1>3, <1>4, ConcatProperties
<1>6. PICK a : Joined(a, xk, m)
  BY DEF Joined
<1>7. PICK b : Joined(b, yk, m)
  BY DEF Joined
<1>8. x \o c = a \o p
  <2>1. Texts(S, x, k, m, p)
    BY <1>1, <1>2 DEF Texts
  <2>2. x \o ((k \o m) \o p) = ((x \o k) \o m) \o p
    BY <2>1, Regrouped
  <2>3. QED
    BY <1>1, <1>3, <1>6, <2>2 DEF Joined
<1>9. y \o d = b \o q
  <2>1. Texts(S, y, k, m, q)
    BY <1>1, <1>2 DEF Texts
  <2>2. y \o ((k \o m) \o q) = ((y \o k) \o m) \o q
    BY <2>1, Regrouped
  <2>3. QED
    BY <1>1, <1>4, <1>7, <2>2 DEF Joined
<1>10. Marked(S, e, m, xk, yk, p, q, a, b)
  <2>1. Same(a, p, b, q)
    BY <1>8, <1>9 DEF Same
  <2>2. QED
    BY <1>1, <1>5, <1>6, <1>7, <2>1 DEF Marked
<1>11. xk = yk /\ p = q
  BY <1>10, LastMark
<1>12. x = y
  BY <1>1, <1>3, <1>4, <1>11, ConcatSimplifications
<1>13. QED
  BY <1>11, <1>12

\* A field at the end of a text can be taken off it in one way only.
LEMMA FieldTakenOff ==
  ASSUME NEW S, Marks \subseteq S, NEW i \in DOMAIN ReceiptFields,
         NEW v \in Seq(S \ {"="}), NEW w \in Seq(S \ {"="}),
         NEW x \in Seq(S), NEW y \in Seq(S), Same(x, FieldText(i, v), y, FieldText(i, w))
  PROVE  x = y /\ v = w
<1>1. PICK k : k = KeyText(i)
  OBVIOUS
<1>2. PICK p : p = Escape(v)
  OBVIOUS
<1>3. PICK q : q = Escape(w)
  OBVIOUS
<1>4. PICK m : m = <<"=">>
  OBVIOUS
<1>5. k \in Seq(S)
  BY <1>1, KeyType
<1>6. FieldText(i, v) = (k \o m) \o p /\ p \in Seq(S \ {"="})
  BY <1>1, <1>2, <1>4, FieldDef
<1>7. FieldText(i, w) = (k \o m) \o q /\ q \in Seq(S \ {"="})
  BY <1>1, <1>3, <1>4, FieldDef
<1>8. "=" \in S /\ Written \subseteq S
  BY DEF Marks
<1>9. PICK e : e = "="
  OBVIOUS
<1>10. PICK c : c = FieldText(i, v)
  OBVIOUS
<1>11. PICK d : d = FieldText(i, w)
  OBVIOUS
<1>12. Ends(S, e, m, k, p, q, c, d) /\ Same(x, c, y, d)
  BY <1>4, <1>5, <1>6, <1>7, <1>8, <1>9, <1>10, <1>11 DEF Ends
<1>13. x = y /\ p = q
  BY <1>12, MarkedTakenOff
<1>14. v = w
  <2>1. v \in Seq(S) /\ w \in Seq(S)
    BY SeqMonotonic
  <2>2. QED
    BY <1>2, <1>3, <1>8, <1>13, <2>1, WrittenApart
<1>15. QED
  BY <1>13, <1>14

FieldTexts(receipt) == [i \in DOMAIN ReceiptFields |-> FieldText(i, receipt[ReceiptFields[i]])]

LEMMA CanonicalDef ==
  ASSUME NEW S, Marks \subseteq S, NEW r \in Receipt(S)
  PROVE  /\ FieldTexts(r) \in Seq(Seq(S)) /\ Len(FieldTexts(r)) = 14
         /\ Canonical(r) = FlattenSeq(FieldTexts(r))
         /\ Canonical(r) \in Seq(S) /\ Canonical(r) # <<>>
         /\ \A i \in 1 .. 14 : r[ReceiptFields[i]] \in Seq(S \ {"="})
<1>1. DOMAIN ReceiptFields = 1 .. 14
  BY DEF ReceiptFields
<1>2. \A i \in 1 .. 14 : r[ReceiptFields[i]] \in Seq(S \ {"="})
  BY <1>1 DEF Receipt
<1>3. \A i \in 1 .. 14 : /\ FieldText(i, r[ReceiptFields[i]]) \in Seq(S)
                         /\ FieldText(i, r[ReceiptFields[i]]) # <<>>
  BY <1>1, <1>2, FieldDef
<1>4. FieldTexts(r) \in Seq(Seq(S)) /\ Len(FieldTexts(r)) = 14
  BY <1>1, <1>3 DEF FieldTexts
<1>5. Canonical(r) = FlattenSeq(FieldTexts(r))
  BY DEF Canonical, FieldTexts
<1>6. Canonical(r) \in Seq(S)
  BY <1>4, <1>5, FlattenType
<1>7. Canonical(r) # <<>>
  <2> DEFINE s == FieldTexts(r)
  <2>1. PICK g : Flattens(g, s, S) /\ FlattenSeq(s) = g[Len(s)]
    BY <1>4, FlattenDef
  <2>2. 14 \in 1 .. 14 /\ s[14] \in Seq(S) /\ s[14] # <<>>
    BY <1>1, <1>3 DEF FieldTexts
  <2> HIDE DEF s
  <2>3. g[14 - 1] \in Seq(S) /\ g[14] = g[14 - 1] \o s[14]
    <3>1. 14 \in 1 .. Len(s) /\ 14 - 1 \in 0 .. Len(s)
      BY <1>4 DEF s
    <3>2. QED
      BY <2>1, <3>1 DEF Flattens
  <2>4. g[14] # <<>>
    BY <2>2, <2>3, ConcatEqualIffEmpty
  <2>5. QED
    BY <1>4, <1>5, <2>1, <2>4 DEF s
<1>8. QED
  BY <1>2, <1>4, <1>5, <1>6, <1>7

\* And so can a receipt.
LEMMA ReceiptTakenOff ==
  ASSUME NEW S, Marks \subseteq S, NEW r \in Receipt(S), NEW q \in Receipt(S),
         NEW x \in Seq(S), NEW y \in Seq(S), Same(x, Canonical(r), y, Canonical(q))
  PROVE  x = y /\ r = q
<1> DEFINE s == FieldTexts(r)
           t == FieldTexts(q)
<1>1. /\ s \in Seq(Seq(S)) /\ Len(s) = 14 /\ Canonical(r) = FlattenSeq(s)
      /\ t \in Seq(Seq(S)) /\ Len(t) = 14 /\ Canonical(q) = FlattenSeq(t)
  BY CanonicalDef
<1>2. DOMAIN ReceiptFields = 1 .. 14
  BY DEF ReceiptFields
<1>3. \A i \in 1 .. 14 : \A u, v \in Seq(S) :
         Same(u, s[i], v, t[i]) => u = v /\ r[ReceiptFields[i]] = q[ReceiptFields[i]]
  <2>1. SUFFICES ASSUME NEW i \in 1 .. 14, NEW u \in Seq(S), NEW v \in Seq(S),
                        Same(u, s[i], v, t[i])
                 PROVE  u = v /\ r[ReceiptFields[i]] = q[ReceiptFields[i]]
    OBVIOUS
  <2>2. s[i] = FieldText(i, r[ReceiptFields[i]]) /\ t[i] = FieldText(i, q[ReceiptFields[i]])
    BY <1>2 DEF FieldTexts
  <2>3. r[ReceiptFields[i]] \in Seq(S \ {"="}) /\ q[ReceiptFields[i]] \in Seq(S \ {"="})
    BY CanonicalDef
  <2> HIDE DEF s, t
  <2>4. Same(u, FieldText(i, r[ReceiptFields[i]]), v, FieldText(i, q[ReceiptFields[i]]))
    BY <2>1, <2>2
  <2>5. PICK a : a = r[ReceiptFields[i]]
    OBVIOUS
  <2>6. PICK b : b = q[ReceiptFields[i]]
    OBVIOUS
  <2>7. a \in Seq(S \ {"="}) /\ b \in Seq(S \ {"="}) /\ Same(u, FieldText(i, a), v, FieldText(i, b))
    BY <2>3, <2>4, <2>5, <2>6
  <2>8. i \in DOMAIN ReceiptFields
    BY <1>2
  <2>9. u = v /\ a = b
    BY <2>7, <2>8, FieldTakenOff
  <2>10. QED
    BY <2>5, <2>6, <2>9
<1>4. \A i \in 1 .. 14 : r[ReceiptFields[i]] = q[ReceiptFields[i]] => s[i] = t[i]
  BY <1>2 DEF FieldTexts
<1> HIDE DEF s, t
<1>5. PICK g : Flattens(g, s, S) /\ Canonical(r) = g[14]
  BY <1>1, FlattenDef
<1>6. PICK h : Flattens(h, t, S) /\ Canonical(q) = h[14]
  BY <1>1, FlattenDef
<1>7. TakenOff(s, t, 14, S)
  <2>1. SUFFICES ASSUME NEW j \in 0 .. 14 - 1, NEW u \in Seq(S), NEW v \in Seq(S),
                        Same(u, s[Len(s) - j], v, t[Len(t) - j])
                 PROVE  u = v /\ s[Len(s) - j] = t[Len(t) - j]
    BY DEF TakenOff
  <2>2. PICK i : i = Len(s) - j
    OBVIOUS
  <2>3. i \in 1 .. 14 /\ i = Len(t) - j
    BY <1>1, <2>2
  <2>4. Same(u, s[i], v, t[i])
    BY <2>1, <2>2, <2>3
  <2>5. u = v /\ s[i] = t[i]
    BY <1>3, <1>4, <2>3, <2>4
  <2>6. QED
    BY <2>2, <2>3, <2>5
<1>8. /\ Same(x, g[Len(s) - 14], y, h[Len(t) - 14])
      /\ \A j \in 0 .. 14 - 1 : s[Len(s) - j] = t[Len(t) - j]
  <2>1. PICK k : k = 14
    OBVIOUS
  <2>2. Same(x, g[Len(s)], y, h[Len(t)]) /\ k \in Nat /\ k <= Len(s) /\ k <= Len(t)
    BY <1>1, <1>5, <1>6, <2>1
  <2>3. TakenOff(s, t, k, S)
    BY <1>7, <2>1
  <2>4. /\ Same(x, g[Len(s) - k], y, h[Len(t) - k])
        /\ \A j \in 0 .. k - 1 : s[Len(s) - j] = t[Len(t) - j]
    <3>1. Alike(S, s, t, x, y, g, h, k)
      BY <1>1, <1>5, <1>6, <2>2, <2>3 DEF Alike
    <3>2. QED
      BY <3>1, PiecesTakenOff
  <2>5. QED
    BY <2>1, <2>4
<1>9. x = y
  <2>1. g[Len(s) - 14] = <<>> /\ h[Len(t) - 14] = <<>>
    BY <1>1, <1>5, <1>6 DEF Flattens
  <2>2. QED
    BY <1>8, <2>1, ConcatEmptySeq DEF Same
<1>10. \A i \in 1 .. 14 : r[ReceiptFields[i]] = q[ReceiptFields[i]]
  <2>1. SUFFICES ASSUME NEW i \in 1 .. 14 PROVE r[ReceiptFields[i]] = q[ReceiptFields[i]]
    OBVIOUS
  <2>2. 14 - i \in 0 .. 14 - 1 /\ Len(s) - (14 - i) = i /\ Len(t) - (14 - i) = i
    BY <1>1
  <2>3. s[i] = t[i]
    BY <1>8, <2>2
  <2>4. <<>> \in Seq(S) /\ Same(<<>>, s[i], <<>>, t[i])
    BY <2>3 DEF Same
  <2>5. QED
    BY <1>3, <2>4
<1>11. r = q
  <2> DEFINE F == {ReceiptFields[i] : i \in DOMAIN ReceiptFields}
  <2>1. \A f \in F : r[f] = q[f]
    BY <1>2, <1>10
  <2>2. r \in [F -> Seq(S \ {"="})] /\ q \in [F -> Seq(S \ {"="})]
    BY DEF Receipt
  <2> HIDE DEF F
  <2>3. QED
    BY <2>1, <2>2
<1>12. QED
  BY <1>9, <1>11

CanonicalTexts(batch) == [i \in DOMAIN batch |-> Canonical(batch[i])]

LEMMA BatchTextDef ==
  ASSUME NEW S, Marks \subseteq S, NEW b \in Seq(Receipt(S))
  PROVE  /\ CanonicalTexts(b) \in Seq(Seq(S)) /\ Len(CanonicalTexts(b)) = Len(b)
         /\ \A i \in 1 .. Len(b) : b[i] \in Receipt(S) /\ CanonicalTexts(b)[i] = Canonical(b[i])
         /\ BatchText(b) = FlattenSeq(CanonicalTexts(b))
<1>1. Len(b) \in Nat /\ DOMAIN b = 1 .. Len(b) /\ \A i \in 1 .. Len(b) : b[i] \in Receipt(S)
  BY LenProperties, ElementOfSeq
<1>2. \A i \in 1 .. Len(b) : Canonical(b[i]) \in Seq(S)
  BY <1>1, CanonicalDef
<1>3. CanonicalTexts(b) \in Seq(Seq(S)) /\ Len(CanonicalTexts(b)) = Len(b)
  BY <1>1, <1>2 DEF CanonicalTexts
<1>4. BatchText(b) = FlattenSeq(CanonicalTexts(b))
  BY DEF BatchText, CanonicalTexts
<1>5. QED
  BY <1>1, <1>3, <1>4 DEF CanonicalTexts

\* Of two batches with the same text, the shorter one is all of the longer one.
LEMMA ShorterBatch ==
  ASSUME NEW S, Marks \subseteq S, NEW b \in Seq(Receipt(S)), NEW c \in Seq(Receipt(S)),
         BatchText(b) = BatchText(c), Len(b) <= Len(c)
  PROVE  b = c
<1> DEFINE s == CanonicalTexts(b)
           t == CanonicalTexts(c)
           m == Len(b)
           n == Len(c)
<1>1. /\ s \in Seq(Seq(S)) /\ Len(s) = m /\ BatchText(b) = FlattenSeq(s)
      /\ t \in Seq(Seq(S)) /\ Len(t) = n /\ BatchText(c) = FlattenSeq(t)
      /\ m \in Nat /\ n \in Nat /\ m <= n
      /\ \A i \in 1 .. m : b[i] \in Receipt(S) /\ s[i] = Canonical(b[i])
      /\ \A i \in 1 .. n : c[i] \in Receipt(S) /\ t[i] = Canonical(c[i])
  BY BatchTextDef, LenProperties
<1> HIDE DEF s, t
<1>2. \A i \in 1 .. m, j \in 1 .. n : \A u, v \in Seq(S) :
         Same(u, s[i], v, t[j]) => u = v /\ b[i] = c[j]
  <2>1. SUFFICES ASSUME NEW i \in 1 .. m, NEW j \in 1 .. n, NEW u \in Seq(S), NEW v \in Seq(S),
                        Same(u, s[i], v, t[j])
                 PROVE  u = v /\ b[i] = c[j]
    OBVIOUS
  <2>2. PICK r : r = b[i]
    OBVIOUS
  <2>3. PICK q : q = c[j]
    OBVIOUS
  <2>4. r \in Receipt(S) /\ q \in Receipt(S) /\ Same(u, Canonical(r), v, Canonical(q))
    BY <1>1, <2>1, <2>2, <2>3
  <2>5. u = v /\ r = q
    BY <2>4, ReceiptTakenOff
  <2>6. QED
    BY <2>2, <2>3, <2>5
<1>3. PICK g : Flattens(g, s, S) /\ BatchText(b) = g[m]
  BY <1>1, FlattenDef
<1>4. PICK h : Flattens(h, t, S) /\ BatchText(c) = h[n]
  BY <1>1, FlattenDef
<1>5. PICK e : e = <<>>
  OBVIOUS
<1>6. e \in Seq(S) /\ \A z \in Seq(S) : e \o z = z
  BY <1>5, ConcatEmptySeq
<1>7. TakenOff(s, t, m, S)
  <2>1. SUFFICES ASSUME NEW j \in 0 .. m - 1, NEW u \in Seq(S), NEW v \in Seq(S),
                        Same(u, s[Len(s) - j], v, t[Len(t) - j])
                 PROVE  u = v /\ s[Len(s) - j] = t[Len(t) - j]
    BY DEF TakenOff
  <2>2. PICK i : i = Len(s) - j
    OBVIOUS
  <2>3. PICK k : k = Len(t) - j
    OBVIOUS
  <2>4. i \in 1 .. m /\ k \in 1 .. n
    BY <1>1, <2>2, <2>3
  <2>5. Same(u, s[i], v, t[k])
    BY <2>1, <2>2, <2>3
  <2>6. u = v /\ b[i] = c[k]
    BY <1>2, <2>4, <2>5
  <2>7. s[i] = t[k]
    BY <1>1, <2>4, <2>6
  <2>8. QED
    BY <2>2, <2>3, <2>6, <2>7
<1>8. /\ Same(e, g[Len(s) - m], e, h[Len(t) - m])
      /\ \A j \in 0 .. m - 1 : s[Len(s) - j] = t[Len(t) - j]
  <2>1. g[Len(s)] = h[Len(t)]
    BY <1>1, <1>3, <1>4
  <2>2. Same(e, g[Len(s)], e, h[Len(t)])
    BY <2>1 DEF Same
  <2>3. PICK k : k = m
    OBVIOUS
  <2>4. k \in Nat /\ k <= Len(s) /\ k <= Len(t) /\ TakenOff(s, t, k, S)
    BY <1>1, <1>7, <2>3
  <2>5. s \in Seq(Seq(S)) /\ t \in Seq(Seq(S))
    BY <1>1
  <2>6. /\ Same(e, g[Len(s) - k], e, h[Len(t) - k])
        /\ \A j \in 0 .. k - 1 : s[Len(s) - j] = t[Len(t) - j]
    <3>1. Alike(S, s, t, e, e, g, h, k)
      BY <1>3, <1>4, <1>6, <2>2, <2>4, <2>5 DEF Alike
    <3>2. QED
      BY <3>1, PiecesTakenOff
  <2>7. QED
    BY <2>3, <2>6
<1>9. h[n - m] = <<>>
  <2>1. n - m \in 0 .. Len(t) /\ Len(s) - m = 0 /\ Len(t) - m = n - m
    BY <1>1
  <2>2. g[0] = <<>> /\ h[n - m] \in Seq(S)
    BY <1>3, <1>4, <2>1 DEF Flattens
  <2>3. e \o g[0] = e \o h[n - m]
    BY <1>8, <2>1 DEF Same
  <2>4. e \o g[0] = <<>> /\ e \o h[n - m] = h[n - m]
    BY <1>5, <1>6, <2>2
  <2>5. QED
    BY <2>3, <2>4
<1>10. m = n
  <2>1. SUFFICES ASSUME m # n PROVE FALSE
    OBVIOUS
  <2>2. PICK k : k = n - m
    OBVIOUS
  <2>3. k \in 1 .. n /\ k \in 1 .. Len(t) /\ k - 1 \in 0 .. Len(t)
    BY <1>1, <2>1, <2>2
  <2>4. h[k] = h[k - 1] \o t[k] /\ h[k - 1] \in Seq(S)
    BY <1>4, <2>3 DEF Flattens
  <2>5. t[k] \in Seq(S) /\ t[k] # <<>>
    <3>1. PICK r : r = c[k]
      OBVIOUS
    <3>2. r \in Receipt(S) /\ t[k] = Canonical(r)
      BY <1>1, <2>3, <3>1
    <3>3. QED
      BY <3>2, CanonicalDef
  <2>6. h[k] # <<>>
    BY <2>4, <2>5, ConcatEqualIffEmpty
  <2>7. QED
    BY <1>9, <2>2, <2>6
<1>11. \A i \in 1 .. Len(b) : b[i] = c[i]
  <2>1. SUFFICES ASSUME NEW i \in 1 .. Len(b) PROVE b[i] = c[i]
    OBVIOUS
  <2>2. m - i \in 0 .. m - 1 /\ Len(s) - (m - i) = i /\ Len(t) - (m - i) = i /\ i \in 1 .. n
    BY <1>1, <1>10
  <2>3. s[i] = t[i]
    BY <1>8, <2>2
  <2>4. Same(e, s[i], e, t[i])
    BY <2>3 DEF Same
  <2>5. QED
    BY <1>2, <1>6, <2>2, <2>4
<1>12. QED
  BY <1>10, <1>11, SeqEqual

\* Receipts, one or many after each other, have the same text (ReceiptCodec::canonical,
\* batch_fingerprint) only when they are the same receipts, whatever their values
\* hold, quotes, bars and the names of fields included, unless it is an equals sign.
THEOREM BatchesTellApart ==
  ASSUME NEW S, Marks \subseteq S, NEW b \in Seq(Receipt(S)), NEW c \in Seq(Receipt(S)),
         BatchText(b) = BatchText(c)
  PROVE  b = c
<1>1. Len(b) \in Nat /\ Len(c) \in Nat
  BY LenProperties
<1>2. CASE Len(b) <= Len(c)
  BY <1>2, ShorterBatch
<1>3. CASE Len(c) <= Len(b)
  BY <1>3, ShorterBatch
<1>4. QED
  BY <1>1, <1>2, <1>3

\* So the texts tell apart whatever one scenario can lead to, however long its batches
\* are, when none of its receipts has an equals sign: one of the loader's identifiers.
COROLLARY ReceiptsToldApart ==
  ASSUME NEW S, Marks \subseteq S, NEW scenario, ReceiptsOf(scenario) \subseteq Receipt(S)
  PROVE  TextsTellApart(scenario)
<1>1. \A r, q \in Receipt(S) : <<r>> \in Seq(Receipt(S)) /\ <<q, r>> \in Seq(Receipt(S))
  <2> DEFINE R == Receipt(S)
  <2> HIDE DEF R
  <2>1. \A r, q \in R : <<r>> \in Seq(R) /\ <<q, r>> \in Seq(R)
    BY PairOfSeq
  <2>2. QED
    BY <2>1 DEF R
<1>2. \A b \in BatchesOf(scenario) : b \in Seq(Receipt(S))
  <2>1. SUFFICES ASSUME NEW b \in BatchesOf(scenario) PROVE b \in Seq(Receipt(S))
    OBVIOUS
  <2>2. CASE \E r \in ReceiptsOf(scenario) : b = <<r>>
    BY <1>1, <2>2
  <2>3. CASE \E q, r \in ReceiptsOf(scenario) : b = <<q, r>>
    BY <1>1, <2>3
  <2>4. QED
    BY <2>2, <2>3 DEF BatchesOf
<1>3. QED
  BY <1>2, BatchesTellApart DEF TextsTellApart
=============================================================================
