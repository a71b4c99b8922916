---------------------------- MODULE Ledger_proofs ---------------------------
(***************************************************************************)
(* What each ledger call does to the planes when it returns, and that it   *)
(* keeps every entry inside Amount also when it throws; before that, the   *)
(* laws of the sums of module Sums that totals over accounts are taken     *)
(* with: adding or removing one element changes a sum by its weight, and a *)
(* sum can be taken class by class.                                        *)
(***************************************************************************)
EXTENDS Ledger, Sums, FiniteSetTheorems, FunctionTheorems, WellFoundedInduction, TLAPS

(***************************************************************************)
(* Sums and least elements.                                                *)
(***************************************************************************)

\* A set of naturals has a least element: what stands for induction below and in
\* the modules that extend this one.
LEMMA LeastNatural ==
  ASSUME NEW T, T \subseteq Nat, T # {}
  PROVE  \E n \in T : \A m \in T : n <= m
<1> DEFINE R == {ss \in Nat \X Nat : ss[1] < ss[2]}
<1>1. IsWellFoundedOn(R, Nat)
  BY NatLessThanWellFounded DEF OpToRel
<1>2. PICK n \in T : \A m \in T : <<m, n>> \notin R
  <2> HIDE DEF R
  <2>1. QED
    BY <1>1, WFMin
<1>3. \A m \in T : ~(m < n)
  BY <1>2
<1>4. QED
  BY <1>3

\* The units of one element are as many as its weight.
LEMMA UnitsOfCount ==
  ASSUME NEW x, NEW w, w[x] \in Nat
  PROVE  IsFiniteSet(UnitsOf(x, w)) /\ Cardinality(UnitsOf(x, w)) = w[x]
<1>1. IsFiniteSet({x}) /\ Cardinality({x}) = 1
  BY FS_Singleton
<1>2. IsFiniteSet(1 .. w[x]) /\ Cardinality(1 .. w[x]) = w[x]
  BY FS_Interval
<1>3. /\ IsFiniteSet({x} \X (1 .. w[x]))
      /\ Cardinality({x} \X (1 .. w[x])) = 1 * w[x]
  BY <1>1, <1>2, FS_Product, Zenon
<1>4. QED
  BY <1>3 DEF UnitsOf

\* A finite set with natural weights has finitely many units.
LEMMA UnitsFinite ==
  ASSUME NEW S, IsFiniteSet(S), NEW w, \A x \in S : w[x] \in Nat
  PROVE  IsFiniteSet(Units(S, w))
<1> DEFINE U == {UnitsOf(x, w) : x \in S}
           f == [x \in S |-> UnitsOf(x, w)]
<1>1. IsFiniteSet(U)
  <2>1. f \in Surjection(S, U)
    BY Zenon DEF Surjection
  <2>2. QED
    BY <2>1, FS_Surjection, Zenon
<1>2. \A T \in U : IsFiniteSet(T)
  BY UnitsOfCount
<1>3. QED
  BY <1>1, <1>2, FS_UNION DEF Units

\* A sum of natural weights over a finite set is a natural number.
LEMMA TotalType ==
  ASSUME NEW S, IsFiniteSet(S), NEW w, \A x \in S : w[x] \in Nat
  PROVE  Total(S, w) \in Nat
BY UnitsFinite, FS_CardinalityType DEF Total

LEMMA TotalEmpty ==
  ASSUME NEW w
  PROVE  Total({}, w) = 0
<1>1. Units({}, w) = {}
  BY DEF Units
<1>2. QED
  BY <1>1, FS_EmptySet DEF Total

LEMMA TotalZero ==
  ASSUME NEW S, NEW w, \A x \in S : w[x] = 0
  PROVE  Total(S, w) = 0
<1>1. Units(S, w) = {}
  BY DEF Units, UnitsOf
<1>2. QED
  BY <1>1, FS_EmptySet DEF Total

\* A sum only looks at the weights of its own elements.
LEMMA TotalSame ==
  ASSUME NEW S, NEW w, NEW v, \A x \in S : w[x] = v[x]
  PROVE  Total(S, w) = Total(S, v)
<1>1. Units(S, w) = Units(S, v)
  BY DEF Units, UnitsOf
<1>2. QED
  BY <1>1 DEF Total

\* A new element adds its weight.
LEMMA TotalAdd ==
  ASSUME NEW S, IsFiniteSet(S), NEW w, \A y \in S : w[y] \in Nat,
         NEW x, x \notin S, w[x] \in Nat
  PROVE  Total(S \cup {x}, w) = Total(S, w) + w[x]
<1>1. Units(S \cup {x}, w) = Units(S, w) \cup UnitsOf(x, w)
  BY DEF Units
<1>2. Units(S, w) \cap UnitsOf(x, w) = {}
  BY DEF Units, UnitsOf
<1>3. IsFiniteSet(Units(S, w)) /\ Cardinality(Units(S, w)) \in Nat
  BY UnitsFinite, FS_CardinalityType
<1>4. IsFiniteSet(UnitsOf(x, w)) /\ Cardinality(UnitsOf(x, w)) = w[x]
  BY UnitsOfCount
<1>5. Cardinality(Units(S, w) \cup UnitsOf(x, w)) = Cardinality(Units(S, w)) + w[x]
  BY <1>2, <1>3, <1>4, FS_Union, FS_EmptySet
<1>6. QED
  BY <1>1, <1>5 DEF Total

\* Removing an element takes its weight away, so no weight exceeds the sum.
LEMMA TotalRemove ==
  ASSUME NEW S, IsFiniteSet(S), NEW w, \A y \in S : w[y] \in Nat, NEW x \in S
  PROVE  Total(S \ {x}, w) = Total(S, w) - w[x] /\ w[x] <= Total(S, w)
<1> DEFINE R == S \ {x}
<1>1. IsFiniteSet(R) /\ x \notin R /\ S = R \cup {x}
  BY FS_Subset
<1>2. Total(R \cup {x}, w) = Total(R, w) + w[x]
  BY <1>1, TotalAdd
<1>3. Total(R, w) \in Nat /\ w[x] \in Nat
  BY <1>1, TotalType
<1>4. Total(S, w) = Total(R, w) + w[x]
  BY <1>1, <1>2
<1>5. QED
  BY <1>3, <1>4

\* When only x differs between two sets and two weights, the sums differ by
\* what x weighs in each.
LEMMA TotalUpdate ==
  ASSUME NEW S, IsFiniteSet(S), NEW w, \A y \in S : w[y] \in Nat,
         NEW T, IsFiniteSet(T), NEW v, \A y \in T : v[y] \in Nat,
         NEW x, S \ {x} = T \ {x}, \A y \in S \ {x} : w[y] = v[y]
  PROVE  /\ Total(S, w) \in Nat /\ Total(T, v) \in Nat
         /\ Total(T, v) = Total(S, w) + (IF x \in T THEN v[x] ELSE 0)
                                      - (IF x \in S THEN w[x] ELSE 0)
         /\ x \in S => w[x] <= Total(S, w)
<1> DEFINE R == S \ {x}
<1>1. IsFiniteSet(R)
  BY FS_Subset
<1>2. Total(R, w) = Total(R, v) /\ Total(R, w) \in Nat
  BY <1>1, TotalSame, TotalType
<1>3. Total(S, w) = Total(R, w) + (IF x \in S THEN w[x] ELSE 0)
  <2>1. CASE x \in S
    BY <2>1, <1>1, TotalAdd DEF R
  <2>2. CASE x \notin S
    <3>1. Total(S, w) = Total(R, w)
      <4>1. S = R
        BY <2>2
      <4>2. QED
        BY <4>1, Zenon
    <3>2. QED
      BY <2>2, <3>1, <1>2
  <2>3. QED
    BY <2>1, <2>2
<1>4. Total(T, v) = Total(R, v) + (IF x \in T THEN v[x] ELSE 0)
  <2>1. CASE x \in T
    <3>1. T = R \cup {x} /\ x \notin R /\ \A y \in R : v[y] \in Nat
      BY <2>1
    <3>2. Total(R \cup {x}, v) = Total(R, v) + v[x]
      BY <2>1, <3>1, <1>1, TotalAdd
    <3>3. QED
      BY <2>1, <3>1, <3>2
  <2>2. CASE x \notin T
    <3>1. Total(T, v) = Total(R, v)
      <4>1. T = R
        BY <2>2
      <4>2. QED
        BY <4>1, Zenon
    <3>2. QED
      BY <2>2, <3>1, <1>2
  <2>3. QED
    BY <2>1, <2>2
<1>5. x \in S => w[x] \in Nat
  OBVIOUS
<1>6. x \in T => v[x] \in Nat
  OBVIOUS
<1>7. QED
  BY <1>2, <1>3, <1>4, <1>5, <1>6

\* The sum over two sets that share nothing is the sum of their sums.
LEMMA TotalUnion ==
  ASSUME NEW S, IsFiniteSet(S), NEW T, IsFiniteSet(T), S \cap T = {},
         NEW w, \A x \in S \cup T : w[x] \in Nat
  PROVE  Total(S \cup T, w) = Total(S, w) + Total(T, w)
<1>1. /\ Units(S \cup T, w) = Units(S, w) \cup Units(T, w)
      /\ Units(S, w) \cap Units(T, w) = {}
  BY DEF Units, UnitsOf
<1>2. IsFiniteSet(Units(S, w)) /\ IsFiniteSet(Units(T, w))
  BY UnitsFinite
<1>3. Cardinality(Units(S, w)) \in Nat /\ Cardinality(Units(T, w)) \in Nat
  BY <1>2, FS_CardinalityType
<1>4. Cardinality(Units(S, w) \cup Units(T, w))
        = Cardinality(Units(S, w)) + Cardinality(Units(T, w)) - Cardinality({})
  BY <1>1, <1>2, FS_Union
<1>5. Cardinality({}) = 0
  BY FS_EmptySet
<1>6. Cardinality(Units(S \cup T, w)) = Cardinality(Units(S, w) \cup Units(T, w))
  BY <1>1, Zenon
<1>7. QED
  BY <1>3, <1>4, <1>5, <1>6 DEF Total

\* A part sums to no more than the whole.
LEMMA TotalMonotone ==
  ASSUME NEW T, IsFiniteSet(T), NEW S \in SUBSET T, NEW w, \A x \in T : w[x] \in Nat
  PROVE  Total(S, w) <= Total(T, w)
<1>1. IsFiniteSet(S) /\ IsFiniteSet(T \ S) /\ S \cap (T \ S) = {} /\ T = S \cup (T \ S)
  BY FS_Subset
<1>2. Total(S \cup (T \ S), w) = Total(S, w) + Total(T \ S, w)
  BY <1>1, TotalUnion
<1>3. Total(S, w) \in Nat /\ Total(T \ S, w) \in Nat
  BY <1>1, TotalType
<1>4. Total(S \cup (T \ S), w) = Total(T, w)
  BY <1>1, Zenon
<1>5. QED
  BY <1>2, <1>3, <1>4

\* Two weights that are added give the two sums added: the second one's units
\* are numbered behind those of the first.
LEMMA TotalPlus ==
  ASSUME NEW S, IsFiniteSet(S), NEW w, \A x \in S : w[x] \in Nat,
         NEW v, \A x \in S : v[x] \in Nat,
         NEW u, \A x \in S : u[x] = w[x] + v[x]
  PROVE  Total(S, u) = Total(S, w) + Total(S, v)
<1> DEFINE B == Units(S, u) \ Units(S, w)
           f == [b \in B |-> <<b[1], b[2] - w[b[1]]>>]
<1>1. Units(S, w) \subseteq Units(S, u)
  BY DEF Units, UnitsOf
<1>2. \A b : b \in B <=> \E x \in S : \E i \in (w[x] + 1) .. (w[x] + v[x]) : b = <<x, i>>
  BY DEF Units, UnitsOf
<1>3. \A c : c \in Units(S, v) <=> \E x \in S : \E i \in 1 .. v[x] : c = <<x, i>>
  BY DEF Units, UnitsOf
<1>4. f \in Bijection(B, Units(S, v))
  <2>1. \A b \in B : f[b] \in Units(S, v)
    BY <1>2, <1>3
  <2>2. \A a, b \in B : f[a] = f[b] => a = b
    BY <1>2
  <2>3. ASSUME NEW c \in Units(S, v)
        PROVE  \E b \in B : f[b] = c
    <3>0. PICK x \in S : \E i \in 1 .. v[x] : c = <<x, i>>
      BY <1>3
    <3>1. PICK i \in 1 .. v[x] : c = <<x, i>>
      BY <3>0
    <3>2. w[x] + i \in (w[x] + 1) .. (w[x] + v[x])
      OBVIOUS
    <3>3. <<x, w[x] + i>> \in B
      BY <1>2, <3>2
    <3>4. f[<<x, w[x] + i>>] = c
      BY <3>1, <3>3
    <3>5. QED
      BY <3>3, <3>4
  <2>4. QED
    BY <2>1, <2>2, <2>3, Fun_IsBij, Zenon
<1>5. IsFiniteSet(Units(S, u)) /\ IsFiniteSet(Units(S, w)) /\ IsFiniteSet(Units(S, v))
  BY UnitsFinite
<1>6. IsFiniteSet(B) /\ Cardinality(B) = Cardinality(Units(S, v))
  <2>1. ExistsBijection(B, Units(S, v))
    BY <1>4 DEF ExistsBijection
  <2>2. IsFiniteSet(B)
    BY <1>5, FS_Subset
  <2>3. QED
    BY <2>1, <2>2, FS_Bijection
<1>7. Cardinality(Units(S, u)) = Cardinality(Units(S, w)) + Cardinality(B)
  <2>1. Units(S, u) = Units(S, w) \cup B /\ Units(S, w) \cap B = {}
    BY <1>1
  <2>2. Cardinality(Units(S, w) \cup B) = Cardinality(Units(S, w)) + Cardinality(B)
    <3>1. Cardinality(Units(S, w)) \in Nat /\ Cardinality(B) \in Nat
      BY <1>5, <1>6, FS_CardinalityType
    <3>2. Cardinality(Units(S, w) \cup B)
            = Cardinality(Units(S, w)) + Cardinality(B) - Cardinality({})
      BY <2>1, <1>5, <1>6, FS_Union
    <3>3. QED
      BY <3>1, <3>2, FS_EmptySet
  <2>3. QED
    BY <2>1, <2>2
<1>8. QED
  BY <1>6, <1>7 DEF Total

\* The elements of S that the key function k sorts into the class h.
Class(S, k, h) == {x \in S : k[x] = h}

\* A sum may be taken class by class, whatever key sorts the elements into classes.
LEMMA TotalPartition ==
  ASSUME NEW S, IsFiniteSet(S), NEW w, \A x \in S : w[x] \in Nat,
         NEW H, IsFiniteSet(H), NEW k, \A x \in S : k[x] \in H,
         NEW v, \A h \in H : v[h] = Total(Class(S, k, h), w)
  PROVE  Total(H, v) = Total(S, w)
<1> DEFINE C(h) == Class(S, k, h)
           U(h) == Units(C(h), w)
           b    == [h \in H |-> CHOOSE f : f \in Bijection(1 .. v[h], U(h))]
           g    == [u \in Units(H, v) |-> b[u[1]][u[2]]]
<1>1. ASSUME NEW h \in H
      PROVE  IsFiniteSet(U(h)) /\ v[h] = Cardinality(U(h)) /\ v[h] \in Nat
  <2>1. IsFiniteSet(C(h)) /\ \A x \in C(h) : w[x] \in Nat
    BY FS_Subset DEF Class
  <2>2. QED
    BY <2>1, UnitsFinite, FS_CardinalityType DEF Total
<1>2. \A h \in H : b[h] \in Bijection(1 .. v[h], U(h))
  <2>1. \A h \in H : ExistsBijection(1 .. Cardinality(U(h)), U(h))
    BY <1>1, FS_CardinalityType
  <2>2. QED
    BY <1>1, <2>1 DEF ExistsBijection
<1>3. \A c : c \in Units(H, v) <=> \E h \in H : \E i \in 1 .. v[h] : c = <<h, i>>
  BY DEF Units, UnitsOf
<1>4. \A h \in H : \A c : c \in U(h) <=> c \in Units(S, w) /\ k[c[1]] = h
  BY DEF Units, UnitsOf, Class
<1>5. \A c \in Units(S, w) : k[c[1]] \in H
  BY DEF Units, UnitsOf
<1>6. \A h \in H : /\ \A i \in 1 .. v[h] : b[h][i] \in U(h)
                   /\ \A i, j \in 1 .. v[h] : b[h][i] = b[h][j] => i = j
                   /\ \A c \in U(h) : \E i \in 1 .. v[h] : b[h][i] = c
  <2> HIDE DEF b, U
  <2>1. QED
    BY <1>2 DEF Bijection, Injection, Surjection, IsInjective
<1>7. g \in Bijection(Units(H, v), Units(S, w))
  <2> HIDE DEF b, U
  <2>1. \A u \in Units(H, v) : g[u] \in Units(S, w) /\ k[g[u][1]] = u[1]
    BY <1>3, <1>4, <1>6
  <2>2. ASSUME NEW u \in Units(H, v), NEW t \in Units(H, v), g[u] = g[t]
        PROVE  u = t
    <3>1. PICK h \in H : \E i \in 1 .. v[h] : u = <<h, i>>
      BY <1>3
    <3>2. PICK i \in 1 .. v[h] : u = <<h, i>>
      BY <3>1
    <3>3. t[1] = h /\ \E j \in 1 .. v[h] : t = <<h, j>>
      <4>1. t[1] = h
        BY <2>1, <2>2, <3>2
      <4>2. QED
        BY <4>1, <1>3
    <3>a. PICK j \in 1 .. v[h] : t = <<h, j>>
      BY <3>3
    <3>4. g[u] = b[h][i] /\ g[t] = b[h][j]
      BY <3>2, <3>a
    <3>5. i = j
      BY <2>2, <3>4, <1>6
    <3>6. QED
      BY <3>2, <3>a, <3>5
  <2>3. ASSUME NEW c \in Units(S, w)
        PROVE  \E u \in Units(H, v) : g[u] = c
    <3>1. k[c[1]] \in H /\ c \in U(k[c[1]])
      BY <1>4, <1>5
    <3>2. PICK h \in H : c \in U(h)
      BY <3>1
    <3>3. PICK i \in 1 .. v[h] : b[h][i] = c
      BY <3>2, <1>6
    <3>4. <<h, i>> \in Units(H, v)
      BY <1>3
    <3>5. g[<<h, i>>] = c
      BY <3>3, <3>4
    <3>6. QED
      BY <3>4, <3>5
  <2> HIDE DEF g
  <2>4. QED
    <3>1. g \in [Units(H, v) -> Units(S, w)]
      BY <2>1 DEF g
    <3>2. QED
      BY <3>1, <2>2, <2>3, Fun_IsBij
<1>8. IsFiniteSet(Units(H, v))
  BY <1>1, UnitsFinite
<1>9. QED
  BY <1>7, <1>8, FS_Bijection DEF Total, ExistsBijection

(***************************************************************************)
(* The ledger calls.                                                       *)
(***************************************************************************)

\* What adding x to plane f of holder h adds to plane j of holder g.
At(g, j, h, f, x) == IF g = h /\ j = f THEN x ELSE 0

\* c is b with x added to one plane of one holder.
Shift(b, c, h, f, x) ==
  \A g \in Holders, j \in Planes : c[g][j] = b[g][j] + At(g, j, h, f, x)

\* n continues o: it is well formed, an error of o stays, and n has either the
\* error of o or one of errs.
Continues(o, n, errs) ==
  /\ n \in Outcome
  /\ n.error = "none" => o.error = "none"
  /\ n.error \in errs \cup {o.error}

LEMMA BeginProps ==
  ASSUME NEW b \in [Holders -> Balance]
  PROVE  Begin(b) \in Outcome /\ Begin(b).ledger = b /\ Begin(b).error = "none"
BY DEF Begin, Outcome

LEMMA RequireProps ==
  ASSUME NEW o \in Outcome, NEW cond \in BOOLEAN, NEW code \in Errors
  PROVE  LET n == Require(o, cond, code) IN
         /\ Continues(o, n, {code})
         /\ n.ledger = o.ledger
         /\ n.error = "none" => cond
BY DEF Require, Continues, Outcome, Errors

LEMMA MoveProps ==
  ASSUME NEW b \in [Holders -> Balance], NEW h \in Holders, NEW f \in Planes,
         NEW x \in Int, b[h][f] + x \in Amount
  PROVE  Move(b, h, f, x) \in [Holders -> Balance] /\ Shift(b, Move(b, h, f, x), h, f, x)
<1> DEFINE e == [b[h] EXCEPT ![f] = @ + x]
<1>1. b[h] \in [Planes -> Amount]
  BY DEF Balance
<1>2. e \in [Planes -> Amount]
  BY <1>1
<1>3. \A j \in Planes : e[j] = b[h][j] + (IF j = f THEN x ELSE 0)
  BY <1>1, MaxAmountAssumption DEF Amount
<1>4. Move(b, h, f, x) = [b EXCEPT ![h] = e]
  BY DEF Move
<1>5. Move(b, h, f, x) \in [Holders -> Balance]
  BY <1>2, <1>4 DEF Balance
<1>6. ASSUME NEW g \in Holders, NEW j \in Planes
      PROVE  Move(b, h, f, x)[g][j] = b[g][j] + (IF g = h /\ j = f THEN x ELSE 0)
  <2>1. b[g][j] \in Int
    BY MaxAmountAssumption DEF Balance, Amount
  <2>2. CASE g = h
    BY <1>3, <1>4, <2>2
  <2>3. CASE g # h
    BY <1>4, <2>1, <2>3
  <2>4. QED
    BY <2>2, <2>3
<1>7. QED
  BY <1>5, <1>6 DEF Shift, At

LEMMA AddProps ==
  ASSUME NEW o \in Outcome, NEW h \in Holders, NEW f \in Planes, NEW x \in Nat
  PROVE  LET n == Add(o, h, f, x) IN
         /\ Continues(o, n, {"ArithmeticOverflow"})
         /\ n.error = "none" => Shift(o.ledger, n.ledger, h, f, x)
<1> DEFINE n == Add(o, h, f, x)
<1>0. o.ledger \in [Holders -> Balance] /\ o.error \in Errors \cup {"none"}
  BY DEF Outcome
<1>a. o.ledger[h][f] \in Nat
  BY <1>0, MaxAmountAssumption DEF Balance, Amount
<1>1. CASE o.error # "none"
  BY <1>1, <1>0 DEF Add, Continues
<1>2. CASE o.error = "none" /\ AddFits(o.ledger[h][f], x)
  <2>1. o.ledger[h][f] + x \in Amount
    BY <1>2, <1>a, MaxAmountAssumption DEF AddFits, Amount
  <2>2. /\ Move(o.ledger, h, f, x) \in [Holders -> Balance]
        /\ Shift(o.ledger, Move(o.ledger, h, f, x), h, f, x)
    BY <2>1, <1>0, MoveProps
  <2>3. n = [o EXCEPT !.ledger = Move(o.ledger, h, f, x)]
    BY <1>2 DEF Add
  <2>4. n.ledger = Move(o.ledger, h, f, x) /\ n.error = o.error /\ n \in Outcome
    BY <2>2, <2>3 DEF Outcome
  <2>5. QED
    BY <2>2, <2>4 DEF Continues
<1>3. CASE o.error = "none" /\ ~AddFits(o.ledger[h][f], x)
  <2>1. n = [o EXCEPT !.error = "ArithmeticOverflow"]
    BY <1>3 DEF Add
  <2>2. QED
    BY <2>1 DEF Outcome, Continues, Errors
<1>4. QED
  BY <1>1, <1>2, <1>3

\* A subtraction is only made of what the entry holds.
LEMMA SubProps ==
  ASSUME NEW o \in Outcome, NEW h \in Holders, NEW f \in Planes, NEW x \in Nat,
         o.error = "none" => o.ledger[h][f] >= x
  PROVE  LET n == Sub(o, h, f, x) IN
         /\ Continues(o, n, {})
         /\ n.error = o.error
         /\ n.error = "none" => Shift(o.ledger, n.ledger, h, f, -x)
<1> DEFINE n == Sub(o, h, f, x)
<1>0. o.ledger \in [Holders -> Balance]
  BY DEF Outcome
<1>1. CASE o.error # "none"
  BY <1>1 DEF Sub, Continues
<1>2. CASE o.error = "none"
  <2>1. o.ledger[h][f] \in Amount
    BY <1>0 DEF Balance
  <2>2. o.ledger[h][f] + (-x) \in Amount
    BY <2>1, <1>2, MaxAmountAssumption DEF Amount
  <2>3. /\ Move(o.ledger, h, f, -x) \in [Holders -> Balance]
        /\ Shift(o.ledger, Move(o.ledger, h, f, -x), h, f, -x)
    BY <2>2, <1>0, MoveProps
  <2>4. n = [o EXCEPT !.ledger = Move(o.ledger, h, f, -x)]
    BY <1>2 DEF Sub
  <2>5. n.ledger = Move(o.ledger, h, f, -x) /\ n.error = o.error /\ n \in Outcome
    BY <2>3, <2>4 DEF Outcome
  <2>6. QED
    BY <2>3, <2>5 DEF Continues
<1>3. QED
  BY <1>1, <1>2

-----------------------------------------------------------------------------
(* The calls of AccountLedger.                                             *)

\* Every plane of a well-formed ledger is a natural number.
LEMMA PlaneType ==
  ASSUME NEW o \in Outcome, NEW h \in Holders, NEW f \in Planes
  PROVE  o.ledger[h][f] \in Nat
<1>1. o.ledger \in [Holders -> Balance]
  BY DEF Outcome
<1>2. o.ledger[h] \in [Planes -> Amount]
  BY <1>1 DEF Balance
<1>3. QED
  BY <1>2, MaxAmountAssumption DEF Amount

LEMMA HoldsProps ==
  ASSUME NEW o \in Outcome, NEW h \in Holders, NEW f \in Planes, NEW x \in Nat,
         NEW code \in Errors
  PROVE  LET n == Holds(o, h, f, x, code) IN
         /\ Continues(o, n, {code})
         /\ n.ledger = o.ledger
         /\ n.error = "none" => n.ledger[h][f] >= x
         /\ n.error = code => o.error = code \/ o.ledger[h][f] < x
<1>1. o.ledger[h][f] \in Nat
  BY PlaneType
<1>2. (o.ledger[h][f] >= x) \in BOOLEAN /\ o.error \in Errors \cup {"none"}
  BY <1>1 DEF Outcome
<1> DEFINE n == Holds(o, h, f, x, code)
<1>3. /\ Continues(o, n, {code})
      /\ n.ledger = o.ledger
      /\ n.error = "none" => o.ledger[h][f] >= x
  BY <1>2, RequireProps DEF Holds
<1>4. n.error = code => o.error = code \/ o.ledger[h][f] < x
  <2>1. CASE o.ledger[h][f] >= x
    BY <2>1 DEF Holds, Require
  <2>2. CASE o.ledger[h][f] < x
    BY <2>2
  <2>3. QED
    BY <1>1, <2>1, <2>2
<1>5. QED
  BY <1>3, <1>4

\* A reserve moves x from available to observed_locked of one holder.
LEMMA ReserveProps ==
  ASSUME NEW o \in Outcome, NEW h \in Holders, NEW x \in Nat
  PROVE  LET n == ReserveObserved(o, h, x) IN
         /\ Continues(o, n, {"InsufficientLiquidity", "ArithmeticOverflow"})
         /\ n.error = "none" =>
              \A g \in Holders, j \in Planes :
                n.ledger[g][j] = o.ledger[g][j] + At(g, j, h, "available", -x)
                                                + At(g, j, h, "observed_locked", x)
<1> DEFINE held == Holds(o, h, "available", x, "InsufficientLiquidity")
           took == Sub(held, h, "available", x)
           n    == Add(took, h, "observed_locked", x)
<1>0. {"available", "observed_locked"} \subseteq Planes /\ "InsufficientLiquidity" \in Errors
  BY DEF Planes, Errors
<1>1. /\ Continues(o, held, {"InsufficientLiquidity"})
      /\ held.ledger = o.ledger
      /\ held.error = "none" => held.ledger[h]["available"] >= x
  BY <1>0, HoldsProps
<1>2. /\ Continues(held, took, {})
      /\ took.error = "none" => Shift(held.ledger, took.ledger, h, "available", -x)
  BY <1>0, <1>1, SubProps DEF Continues
<1>3. /\ Continues(took, n, {"ArithmeticOverflow"})
      /\ n.error = "none" => Shift(took.ledger, n.ledger, h, "observed_locked", x)
  BY <1>0, <1>2, AddProps DEF Continues
<1>4. Continues(o, n, {"InsufficientLiquidity", "ArithmeticOverflow"})
  BY <1>1, <1>2, <1>3 DEF Continues
<1>5. ASSUME n.error = "none", NEW g \in Holders, NEW j \in Planes
      PROVE  n.ledger[g][j] = o.ledger[g][j] + At(g, j, h, "available", -x)
                                             + At(g, j, h, "observed_locked", x)
  BY <1>5, <1>1, <1>2, <1>3 DEF Continues, Shift
<1>6. QED
  BY <1>4, <1>5 DEF ReserveObserved

\* A release moves x back, and fails on the lock only if less is locked.
LEMMA ReleaseProps ==
  ASSUME NEW o \in Outcome, NEW h \in Holders, NEW x \in Nat,
         o.error = "none" => o.ledger[h]["observed_locked"] >= x
  PROVE  LET n == ReleaseObserved(o, h, x) IN
         /\ Continues(o, n, {"ArithmeticOverflow"})
         /\ n.error = "none" =>
              \A g \in Holders, j \in Planes :
                n.ledger[g][j] = o.ledger[g][j] + At(g, j, h, "observed_locked", -x)
                                                + At(g, j, h, "available", x)
<1> DEFINE held == Holds(o, h, "observed_locked", x, "InvariantViolation")
           took == Sub(held, h, "observed_locked", x)
           n    == Add(took, h, "available", x)
<1>0. {"available", "observed_locked"} \subseteq Planes /\ "InvariantViolation" \in Errors
  BY DEF Planes, Errors
<1>1. Continues(o, held, {}) /\ held.ledger = o.ledger
  <2>1. o.ledger[h]["observed_locked"] \in Nat
    BY <1>0, PlaneType
  <2>2. held = o
    BY <2>1 DEF Holds, Require
  <2>3. QED
    BY <2>2 DEF Continues
<1>2. /\ Continues(held, took, {})
      /\ took.error = "none" => Shift(held.ledger, took.ledger, h, "observed_locked", -x)
  BY <1>0, <1>1, SubProps DEF Continues
<1>3. /\ Continues(took, n, {"ArithmeticOverflow"})
      /\ n.error = "none" => Shift(took.ledger, n.ledger, h, "available", x)
  BY <1>0, <1>2, AddProps DEF Continues
<1>4. Continues(o, n, {"ArithmeticOverflow"})
  BY <1>1, <1>2, <1>3 DEF Continues
<1>5. ASSUME n.error = "none", NEW g \in Holders, NEW j \in Planes
      PROVE  n.ledger[g][j] = o.ledger[g][j] + At(g, j, h, "observed_locked", -x)
                                             + At(g, j, h, "available", x)
  BY <1>5, <1>1, <1>2, <1>3 DEF Continues, Shift
<1>6. QED
  BY <1>4, <1>5 DEF ReleaseObserved

\* A consumption takes x out of observed_locked and gives it to nobody.
LEMMA ConsumeProps ==
  ASSUME NEW o \in Outcome, NEW h \in Holders, NEW x \in Nat,
         o.error = "none" => o.ledger[h]["observed_locked"] >= x
  PROVE  LET n == ConsumeObserved(o, h, x) IN
         /\ Continues(o, n, {})
         /\ n.error = o.error
         /\ n.error = "none" => Shift(o.ledger, n.ledger, h, "observed_locked", -x)
<1> DEFINE held == Holds(o, h, "observed_locked", x, "InvariantViolation")
<1>1. "observed_locked" \in Planes
  BY DEF Planes
<1>2. o.ledger[h]["observed_locked"] \in Nat
  BY <1>1, PlaneType
<1>3. held = o
  BY <1>2 DEF Holds, Require
<1>4. QED
  BY <1>1, <1>3, SubProps DEF ConsumeObserved

\* Attaching adds x to confirmed_locked.
LEMMA AttachProps ==
  ASSUME NEW o \in Outcome, NEW h \in Holders, NEW x \in Nat
  PROVE  LET n == AttachConfirmed(o, h, x) IN
         /\ Continues(o, n, {"ArithmeticOverflow"})
         /\ n.error = "none" => Shift(o.ledger, n.ledger, h, "confirmed_locked", x)
BY AddProps DEF AttachConfirmed, Planes

\* A fee is earned once and becomes spendable.
LEMMA CreditFeeProps ==
  ASSUME NEW o \in Outcome, NEW h \in Holders, NEW x \in Nat
  PROVE  LET n == CreditFee(o, h, x) IN
         /\ Continues(o, n, {"ArithmeticOverflow"})
         /\ n.error = "none" =>
              \A g \in Holders, j \in Planes :
                n.ledger[g][j] = o.ledger[g][j] + At(g, j, h, "fees_earned", x)
                                                + At(g, j, h, "available", x)
<1> DEFINE m == Add(o, h, "fees_earned", x)
           n == Add(m, h, "available", x)
<1>0. {"available", "fees_earned"} \subseteq Planes
  BY DEF Planes
<1>1. /\ Continues(o, m, {"ArithmeticOverflow"})
      /\ m.error = "none" => Shift(o.ledger, m.ledger, h, "fees_earned", x)
  BY <1>0, AddProps
<1>2. /\ Continues(m, n, {"ArithmeticOverflow"})
      /\ n.error = "none" => Shift(m.ledger, n.ledger, h, "available", x)
  BY <1>0, <1>1, AddProps DEF Continues
<1>3. Continues(o, n, {"ArithmeticOverflow"})
  BY <1>1, <1>2 DEF Continues
<1>4. ASSUME n.error = "none", NEW g \in Holders, NEW j \in Planes
      PROVE  n.ledger[g][j] = o.ledger[g][j] + At(g, j, h, "fees_earned", x)
                                             + At(g, j, h, "available", x)
  BY <1>4, <1>1, <1>2 DEF Continues, Shift
<1>5. QED
  BY <1>3, <1>4 DEF CreditFee

\* A payment received becomes spendable.
LEMMA CreditReceivedProps ==
  ASSUME NEW o \in Outcome, NEW h \in Holders, NEW x \in Nat
  PROVE  LET n == CreditReceived(o, h, x) IN
         /\ Continues(o, n, {"ArithmeticOverflow"})
         /\ n.error = "none" =>
              \A g \in Holders, j \in Planes :
                n.ledger[g][j] = o.ledger[g][j] + At(g, j, h, "received", x)
                                                + At(g, j, h, "available", x)
<1> DEFINE m == Add(o, h, "received", x)
           n == Add(m, h, "available", x)
<1>0. {"available", "received"} \subseteq Planes
  BY DEF Planes
<1>1. /\ Continues(o, m, {"ArithmeticOverflow"})
      /\ m.error = "none" => Shift(o.ledger, m.ledger, h, "received", x)
  BY <1>0, AddProps
<1>2. /\ Continues(m, n, {"ArithmeticOverflow"})
      /\ n.error = "none" => Shift(m.ledger, n.ledger, h, "available", x)
  BY <1>0, <1>1, AddProps DEF Continues
<1>3. Continues(o, n, {"ArithmeticOverflow"})
  BY <1>1, <1>2 DEF Continues
<1>4. ASSUME n.error = "none", NEW g \in Holders, NEW j \in Planes
      PROVE  n.ledger[g][j] = o.ledger[g][j] + At(g, j, h, "received", x)
                                             + At(g, j, h, "available", x)
  BY <1>4, <1>1, <1>2 DEF Continues, Shift
<1>5. QED
  BY <1>3, <1>4 DEF CreditReceived

\* A settlement takes the gross out of the source's confirmed reserve, notes
\* the fee it paid and gives the recipient the net.  Source and recipient may
\* be the same account.
LEMMA SettleProps ==
  ASSUME NEW o \in Outcome, NEW src \in Holders, NEW rcp \in Holders,
         NEW net \in Nat, NEW fee \in Nat,
         o.error = "none" => o.ledger[src]["confirmed_locked"] >= net + fee
  PROVE  LET n == SettleConfirmed(o, src, rcp, net, fee) IN
         /\ Continues(o, n, {"ArithmeticOverflow"})
         /\ n.error = "none" =>
              \A g \in Holders, j \in Planes :
                n.ledger[g][j] = o.ledger[g][j]
                                   + At(g, j, src, "confirmed_locked", -(net + fee))
                                   + At(g, j, src, "fees_paid", fee)
                                   + At(g, j, rcp, "received", net)
                                   + At(g, j, rcp, "available", net)
<1> DEFINE summed == Require(o, AddFits(net, fee), "ArithmeticOverflow")
           held   == Holds(summed, src, "confirmed_locked", net + fee, "InvariantViolation")
           took   == Sub(held, src, "confirmed_locked", net + fee)
           paid   == Add(took, src, "fees_paid", fee)
           n      == CreditReceived(paid, rcp, net)
<1>0. /\ {"confirmed_locked", "fees_paid"} \subseteq Planes
      /\ "ArithmeticOverflow" \in Errors
      /\ AddFits(net, fee) \in BOOLEAN
  BY MaxAmountAssumption DEF Planes, Errors, AddFits
<1>1. Continues(o, summed, {"ArithmeticOverflow"}) /\ summed.ledger = o.ledger
  BY <1>0, RequireProps
<1>2. held = summed
  <2>1. summed.ledger[src]["confirmed_locked"] \in Nat
    BY <1>0, <1>1, PlaneType DEF Continues
  <2>2. summed.error = "none" => summed.ledger[src]["confirmed_locked"] >= net + fee
    BY <1>1 DEF Continues
  <2>3. QED
    BY <2>1, <2>2 DEF Holds, Require
<1>3. summed.error = "none" => summed.ledger[src]["confirmed_locked"] >= net + fee
  BY <1>1 DEF Continues
<1>4. /\ Continues(summed, took, {})
      /\ took.error = "none" =>
           Shift(summed.ledger, took.ledger, src, "confirmed_locked", -(net + fee))
  BY <1>0, <1>1, <1>2, <1>3, SubProps DEF Continues
<1>5. /\ Continues(took, paid, {"ArithmeticOverflow"})
      /\ paid.error = "none" => Shift(took.ledger, paid.ledger, src, "fees_paid", fee)
  BY <1>0, <1>4, AddProps DEF Continues
<1>6. /\ Continues(paid, n, {"ArithmeticOverflow"})
      /\ n.error = "none" =>
           \A g \in Holders, j \in Planes :
             n.ledger[g][j] = paid.ledger[g][j] + At(g, j, rcp, "received", net)
                                                + At(g, j, rcp, "available", net)
  BY <1>5, CreditReceivedProps DEF Continues
<1>7. Continues(o, n, {"ArithmeticOverflow"})
  BY <1>1, <1>4, <1>5, <1>6 DEF Continues
<1>8. ASSUME n.error = "none", NEW g \in Holders, NEW j \in Planes
      PROVE  n.ledger[g][j] = o.ledger[g][j]
                                + At(g, j, src, "confirmed_locked", -(net + fee))
                                + At(g, j, src, "fees_paid", fee)
                                + At(g, j, rcp, "received", net)
                                + At(g, j, rcp, "available", net)
  <2>1. took.ledger[g][j] = o.ledger[g][j] + At(g, j, src, "confirmed_locked", -(net + fee))
    BY <1>8, <1>1, <1>4, <1>5, <1>6 DEF Continues, Shift
  <2>2. paid.ledger[g][j] = took.ledger[g][j] + At(g, j, src, "fees_paid", fee)
    BY <1>8, <1>5, <1>6 DEF Continues, Shift
  <2>3. QED
    BY <1>6, <1>8, <2>1, <2>2
<1>9. QED
  BY <1>7, <1>8 DEF SettleConfirmed
=============================================================================
