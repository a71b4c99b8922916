-------------------------- MODULE Refinement_proofs --------------------------
(***************************************************************************)
(* The engine implements Lifecycle: every call that returns is one of the  *)
(* lifecycle's moves or none, every call that throws is its Stop.  What a  *)
(* call did is taken from Effect, and what an asset holds from the sums    *)
(* over the records (BaseConserved) before and after the call.             *)
(***************************************************************************)
EXTENDS Refinement, Reports_proofs

\* The books, and what they say of the base of an asset.
LifeInv == BooksInv /\ BaseConserved

\* The packets of an asset that were paid after their reserve had gone back.
Regained(R, a) ==
  {p \in DOMAIN R : R[p].asset = a /\ IsSettled(R[p]) /\ R[p].observed_status = "cancelled"}

DeclaredOf(S, a) == Total({h \in S : h[2] = a}, Seed)

LEMMA LifeAlways ==
  Spec => []LifeInv
<1>1. BooksInv => LifeInv
  BY AssetPlanes DEF LifeInv, BaseConserved
<1>2. QED
  BY <1>1, BooksAlways, PTL

\* The base of an asset is known from the declarations and the records.
LEMMA BaseIs ==
  ASSUME LifeInv, failure = "none", NEW a \in Assets
  PROVE  LifeBase[a] = DeclaredOf(seeded, a) + Total(Regained(records, a), Grosses(records))
<1>1. BaseOf(a) = OperatingBase(a)
  BY DEF BaseOf, OperatingBase, AssetTotal
<1>2. OperatingBase(a) = DeclaredOf(seeded, a) + GrossOf(InAsset(a) \cap PaidAfterRelease)
  BY DEF LifeInv, BaseConserved, DeclaredOf
<1>3. InAsset(a) \cap PaidAfterRelease = Regained(records, a)
  BY DEF InAsset, PaidAfterRelease, Settled, Regained
<1>4. QED
  BY <1>1, <1>2, <1>3 DEF LifeBase, Alive, GrossOf

LEMMA BaseIsAfter ==
  ASSUME LifeInv', failure' = "none", NEW a \in Assets
  PROVE  LifeBase'[a] = DeclaredOf(seeded', a) + Total(Regained(records', a), Grosses(records'))
<1>1. BaseOf(a)' = OperatingBase(a)'
  BY DEF BaseOf, OperatingBase, AssetTotal
<1>2. OperatingBase(a)' = DeclaredOf(seeded', a) + GrossOf(InAsset(a) \cap PaidAfterRelease)'
  BY DEF LifeInv, BaseConserved, DeclaredOf
<1>3. (InAsset(a) \cap PaidAfterRelease)' = Regained(records', a)
  BY DEF InAsset, PaidAfterRelease, Settled, Regained
<1>4. QED
  BY <1>1, <1>2, <1>3 DEF LifeBase, Alive, GrossOf

LEMMA LifeInit ==
  Init => Life!Init
<1> SUFFICES ASSUME Init PROVE Life!Init
  OBVIOUS
<1>1. Alive /\ DOMAIN records = {}
  BY DEF Init, Alive
<1>2. LifePhase = [p \in Packets |-> "absent"]
  BY <1>1 DEF LifePhase, PhaseOf
<1>3. LifeTerms = [p \in Packets |-> <<>>]
  BY <1>1 DEF LifeTerms
<1>4. LifeTries = [p \in Packets |-> 0]
  BY <1>1 DEF LifeTries
<1>5. ASSUME NEW a \in Assets PROVE LifeBase[a] = 0
  <2> DEFINE held      == {h \in Holders : h[2] = a}
             spendable == [h \in held |-> ledger[h]["available"]]
             locked    == [h \in held |-> ledger[h]["observed_locked"]]
  <2>1. \A h \in held : spendable[h] = 0 /\ locked[h] = 0
    BY DEF Init, EmptyLedger, Planes
  <2>2. BaseOf(a) = Total(held, spendable) + Total(held, locked)
    BY DEF BaseOf
  <2> HIDE DEF held, spendable, locked
  <2>3. Total(held, spendable) = 0 /\ Total(held, locked) = 0
    BY <2>1, TotalZero
  <2>4. QED
    BY <1>1, <2>2, <2>3 DEF LifeBase
<1>6. LifeBase = [a \in Assets |-> 0]
  BY <1>5 DEF LifeBase
<1>7. StageOf \in {"declaring", "running"}
  BY <1>1 DEF StageOf
<1>8. QED
  BY <1>2, <1>3, <1>4, <1>6, <1>7 DEF Life!Init, Life!Unused

-----------------------------------------------------------------------------
(* Calls on packets.                                                       *)

\* Rewriting or adding one record changes what was regained of an asset by what
\* that record contributes after and before.
LEMMA RegainedPut ==
  ASSUME NEW R, DOMAIN R \subseteq Packets, \A q \in DOMAIN R : R[q] \in Record,
         NEW p \in Packets, NEW r \in Record, NEW a
  PROVE  LET Q      == Put(R, p, r)
             after  == p \in Regained(Q, a)
             before == p \in Regained(R, a)
             sum    == Total(Regained(R, a), Grosses(R))
         IN  /\ Total(Regained(Q, a), Grosses(Q))
                  = sum + (IF after THEN r.gross ELSE 0) - (IF before THEN R[p].gross ELSE 0)
             /\ sum \in Nat
<1> DEFINE Q == Put(R, p, r)
           S == Regained(R, a)
           T == Regained(Q, a)
<1>1. /\ DOMAIN Q = DOMAIN R \cup {p} /\ Q[p] = r
      /\ \A x \in DOMAIN R : x # p => Q[x] = R[x]
  BY DEF Put
<1>2. DOMAIN Q \subseteq Packets /\ \A q \in DOMAIN Q : Q[q] \in Record
  BY <1>1
<1>3. /\ IsFiniteSet(S) /\ IsFiniteSet(T)
      /\ \A y \in S : Grosses(R)[y] \in Nat /\ Grosses(R)[y] = R[y].gross
      /\ \A y \in T : Grosses(Q)[y] \in Nat /\ Grosses(Q)[y] = Q[y].gross
  <2>1. S \in SUBSET DOMAIN R /\ T \in SUBSET DOMAIN Q
    BY DEF Regained
  <2>2. QED
    BY <1>2, <2>1, TableProps
<1>4. S \ {p} = T \ {p}
  BY <1>1 DEF Regained
<1>5. \A y \in S \ {p} : Grosses(R)[y] = Grosses(Q)[y]
  BY <1>1, <1>3, <1>4 DEF Regained
<1>6. /\ Total(S, Grosses(R)) \in Nat
      /\ Total(T, Grosses(Q)) = Total(S, Grosses(R))
                                  + (IF p \in T THEN Grosses(Q)[p] ELSE 0)
                                  - (IF p \in S THEN Grosses(R)[p] ELSE 0)
  BY <1>3, <1>4, <1>5, TotalUpdate
<1>7. QED
  BY <1>1, <1>3, <1>6

\* What is declared of an asset is a number.
LEMMA DeclaredType ==
  ASSUME LifeInv, NEW a
  PROVE  DeclaredOf(seeded, a) \in Nat
<1> DEFINE S == {h \in seeded : h[2] = a}
<1>1. IsFiniteSet(S) /\ \A h \in S : Seed[h] \in Nat
  BY SeededProps, FS_Subset DEF LifeInv, BooksInv, IInv, TypeOK
<1>2. QED
  BY <1>1, TotalType DEF DeclaredOf

\* The phases, terms and attempts of the other packets stay, and an asset's base
\* changes by what the one record has regained.
LEMMA OnePacket ==
  ASSUME LifeInv, LifeInv', failure = "none", failure' = "none", Running,
         NEW p \in Packets, NEW r \in Record, PacketEffect(p, r)
  PROVE  /\ LifePhase' = [LifePhase EXCEPT ![p] = PhaseOf(p)']
         /\ LifeTerms' = [LifeTerms EXCEPT ![p] = <<r.asset, r.gross>>]
         /\ LifeTries' = [LifeTries EXCEPT ![p] = r.attempt]
         /\ \A a \in Assets :
              LifeBase'[a] = LifeBase[a]
                + (IF p \in Regained(records', a) THEN r.gross ELSE 0)
                - (IF p \in Regained(records, a) THEN records[p].gross ELSE 0)
         /\ \A a \in Assets : LifeBase[a] \in Nat
         /\ StageOf = "running" /\ StageOf' = "running"
         /\ p \in DOMAIN records' /\ records'[p] = r
<1>1. records' = Put(records, p, r) /\ UNCHANGED <<seeded, lanes>>
  BY DEF PacketEffect, Opens, Reopens, Releases, Repeats, Settles
<1>2. /\ DOMAIN records' = DOMAIN records \cup {p} /\ records'[p] = r
      /\ \A q \in DOMAIN records : q # p => records'[q] = records[q]
  BY <1>1 DEF Put
<1>3. Alive /\ Alive'
  BY DEF Alive
<1>4. \A q \in Packets \ {p} : PhaseOf(q)' = PhaseOf(q)
  BY <1>2 DEF PhaseOf
<1>5. LifePhase' = [LifePhase EXCEPT ![p] = PhaseOf(p)']
  BY <1>3, <1>4 DEF LifePhase
<1>6. LifeTerms' = [LifeTerms EXCEPT ![p] = <<r.asset, r.gross>>]
  BY <1>2, <1>3 DEF LifeTerms
<1>7. LifeTries' = [LifeTries EXCEPT ![p] = r.attempt]
  BY <1>2, <1>3 DEF LifeTries
<1>8. ASSUME NEW a \in Assets
      PROVE  /\ LifeBase'[a] = LifeBase[a]
                  + (IF p \in Regained(records', a) THEN r.gross ELSE 0)
                  - (IF p \in Regained(records, a) THEN records[p].gross ELSE 0)
             /\ LifeBase[a] \in Nat
  <2>1. DOMAIN records \subseteq Packets /\ \A q \in DOMAIN records : records[q] \in Record
    BY DEF LifeInv, BooksInv, IInv, TypeOK
  <2> DEFINE sum == Total(Regained(records, a), Grosses(records))
             new == Total(Regained(records', a), Grosses(records'))
  <2>2. /\ new = sum + (IF p \in Regained(records', a) THEN r.gross ELSE 0)
                     - (IF p \in Regained(records, a) THEN records[p].gross ELSE 0)
        /\ sum \in Nat
    BY <1>1, <2>1, RegainedPut
  <2>3. LifeBase[a] = DeclaredOf(seeded, a) + sum /\ LifeBase'[a] = DeclaredOf(seeded', a) + new
    BY BaseIs, BaseIsAfter
  <2>4. DeclaredOf(seeded', a) = DeclaredOf(seeded, a) /\ DeclaredOf(seeded, a) \in Nat
    BY <1>1, DeclaredType
  <2>5. /\ p \in Regained(records, a) => records[p].gross \in Nat
        /\ r.gross \in Nat
    BY <2>1, AmountTypes DEF Regained, LifeInv, BooksInv, IInv
  <2> HIDE DEF sum, new
  <2>6. QED
    BY <2>2, <2>3, <2>4, <2>5
<1>9. StageOf = "running" /\ StageOf' = "running"
  BY <1>1, <1>3 DEF StageOf, Running
<1>10. QED
  BY <1>2, <1>5, <1>6, <1>7, <1>8, <1>9

\* A function that is rewritten with its own value does not change.
LEMMA Rewritten ==
  ASSUME NEW S, NEW f, f = [y \in S |-> f[y]], NEW x, NEW v, f[x] = v
  PROVE  [f EXCEPT ![x] = v] = f
OBVIOUS

LEMMA BaseStays ==
  ASSUME \A a \in Assets : LifeBase'[a] = LifeBase[a]
  PROVE  UNCHANGED LifeBase
BY DEF LifeBase

LEMMA PacketLife ==
  ASSUME LifeInv, LifeInv', failure = "none", failure' = "none", Running,
         NEW p \in Packets, NEW r \in Record, PacketEffect(p, r)
  PROVE  Life!Next \/ UNCHANGED Life!lifecycle
<1>1. /\ LifePhase' = [LifePhase EXCEPT ![p] = PhaseOf(p)']
      /\ LifeTerms' = [LifeTerms EXCEPT ![p] = <<r.asset, r.gross>>]
      /\ LifeTries' = [LifeTries EXCEPT ![p] = r.attempt]
      /\ \A a \in Assets :
           LifeBase'[a] = LifeBase[a]
             + (IF p \in Regained(records', a) THEN r.gross ELSE 0)
             - (IF p \in Regained(records, a) THEN records[p].gross ELSE 0)
      /\ \A a \in Assets : LifeBase[a] \in Nat
      /\ StageOf = "running" /\ StageOf' = "running"
      /\ p \in DOMAIN records' /\ records'[p] = r
  BY OnePacket
<1>2. /\ LifePhase[p] = PhaseOf(p)
      /\ LifeTerms[p] = IF p \in DOMAIN records THEN <<records[p].asset, records[p].gross>> ELSE <<>>
      /\ LifeTries[p] = IF p \in DOMAIN records THEN records[p].attempt ELSE 0
  BY DEF LifePhase, LifeTerms, LifeTries, Alive
<1>3. r.asset \in Assets /\ r.gross \in Amount /\ r.gross \in Nat
  BY AmountTypes DEF Record, LifeInv, BooksInv, IInv
<1>4. /\ \A a : p \in Regained(records, a) <=>
                  /\ p \in DOMAIN records /\ records[p].asset = a /\ IsSettled(records[p])
                  /\ records[p].observed_status = "cancelled"
      /\ \A a : p \in Regained(records', a) <=>
                  r.asset = a /\ IsSettled(r) /\ r.observed_status = "cancelled"
  BY <1>1 DEF Regained
<1>5. CASE Opens(p, r)
  <2>1. PhaseOf(p) = "absent" /\ PhaseOf(p)' = "held" /\ r.attempt = 0
    BY <1>1, <1>5 DEF Opens, PhaseOf
  <2>2. UNCHANGED LifeBase
    BY <1>1, <1>4, <1>5, BaseStays DEF Opens, IsSettled
  <2>3. UNCHANGED LifeTries
    BY <1>1, <1>2, <1>5, <2>1 DEF Opens, LifeTries
  <2>4. Life!Hold(p)
    BY <1>1, <1>2, <1>3, <2>1, <2>2, <2>3 DEF Life!Hold, Life!Moves, LifeTerms
  <2>5. QED
    BY <2>4 DEF Life!Next
<1>6. ASSUME p \in DOMAIN records, Terms(r) = Terms(records[p])
      PROVE  /\ UNCHANGED LifeTerms /\ r.asset = records[p].asset /\ r.gross = records[p].gross
             /\ r.attempt = records[p].attempt => UNCHANGED LifeTries
  <2>1. r.asset = records[p].asset /\ r.gross = records[p].gross
    BY <1>6, TermsKept
  <2>2. LifeTerms = [q \in Packets |-> LifeTerms[q]] /\ LifeTries = [q \in Packets |-> LifeTries[q]]
    BY DEF LifeTerms, LifeTries
  <2>3. UNCHANGED LifeTerms /\ (r.attempt = records[p].attempt => UNCHANGED LifeTries)
    BY <1>1, <1>2, <1>6, <2>1, <2>2, Rewritten
  <2>4. QED
    BY <2>1, <2>3
<1>7. CASE Reopens(p, r)
  <2>1. /\ PhaseOf(p) = "returned" /\ PhaseOf(p)' = "held"
        /\ p \in DOMAIN records /\ Terms(r) = Terms(records[p])
    BY <1>1, <1>7 DEF Reopens, PhaseOf
  <2>2. UNCHANGED LifeBase /\ UNCHANGED LifeTerms
    BY <1>1, <1>4, <1>6, <1>7, BaseStays DEF Reopens, IsSettled
  <2>3. LifeTries' = [LifeTries EXCEPT ![p] = @ + 1]
    BY <1>1, <1>2, <1>7, <2>1 DEF Reopens
  <2>4. Life!HoldAgain(p)
    BY <1>1, <1>2, <2>1, <2>2, <2>3 DEF Life!HoldAgain, Life!Moves
  <2>5. QED
    BY <2>4 DEF Life!Next
<1>8. CASE Releases(p, r)
  <2>1. PhaseOf(p) = "held" /\ PhaseOf(p)' = "returned"
    BY <1>1, <1>8 DEF Releases, PhaseOf
  <2>2. UNCHANGED LifeBase /\ UNCHANGED LifeTerms /\ UNCHANGED LifeTries
    BY <1>1, <1>4, <1>6, <1>8, BaseStays DEF Releases, IsSettled
  <2>3. Life!Return(p)
    BY <1>1, <1>2, <2>1, <2>2 DEF Life!Return, Life!Moves
  <2>4. QED
    BY <2>3 DEF Life!Next
<1>9. CASE Repeats(p, r)
  <2>1. PhaseOf(p)' = PhaseOf(p) /\ r.asset = records[p].asset /\ r.gross = records[p].gross
    BY <1>1, <1>6, <1>9 DEF Repeats, PhaseOf, IsSettled
  <2>2. LifePhase' = LifePhase
    BY <1>1, <1>2, <2>1 DEF LifePhase
  <2>3. \A a \in Assets : p \in Regained(records', a) <=> p \in Regained(records, a)
    BY <1>4, <1>9, <2>1 DEF Repeats
  <2>4. UNCHANGED LifeBase
    BY <1>1, <1>3, <2>1, <2>3, BaseStays
  <2>5. UNCHANGED LifeTerms /\ UNCHANGED LifeTries
    BY <1>6, <1>9 DEF Repeats
  <2>6. QED
    BY <1>1, <2>2, <2>4, <2>5 DEF Life!lifecycle
<1>10. CASE Settles(p, r) /\ records[p].observed_status = "open"
  <2>1. PhaseOf(p) = "held" /\ PhaseOf(p)' = "paid"
    BY <1>1, <1>10 DEF Settles, PhaseOf, IsSettled
  <2>2. UNCHANGED LifeBase /\ UNCHANGED LifeTerms /\ UNCHANGED LifeTries
    BY <1>1, <1>4, <1>6, <1>10, BaseStays DEF Settles
  <2>3. Life!Pay(p)
    BY <1>1, <1>2, <2>1, <2>2 DEF Life!Pay, Life!Moves
  <2>4. QED
    BY <2>3 DEF Life!Next
<1>11. CASE Settles(p, r) /\ records[p].observed_status = "cancelled"
  <2>1. /\ PhaseOf(p) = "returned" /\ PhaseOf(p)' = "paid_after_return"
        /\ r.asset = records[p].asset /\ r.gross = records[p].gross
    BY <1>1, <1>6, <1>11 DEF Settles, PhaseOf, IsSettled
  <2>2. UNCHANGED LifeTerms /\ UNCHANGED LifeTries
    BY <1>6, <1>11 DEF Settles
  <2>3. LifeTerms[p][1] = r.asset /\ LifeTerms[p][2] = r.gross
    BY <1>2, <1>11, <2>1 DEF Settles
  <2>4. \A a \in Assets : LifeBase'[a] = LifeBase[a] + (IF a = r.asset THEN r.gross ELSE 0)
    BY <1>1, <1>3, <1>4, <1>11 DEF Settles, IsSettled
  <2>5. LifeBase' = [LifeBase EXCEPT ![r.asset] = @ + r.gross]
    <3>1. DOMAIN LifeBase = Assets /\ DOMAIN LifeBase' = Assets
      BY DEF LifeBase
    <3>2. LifeBase' = [a \in Assets |-> LifeBase'[a]]
      BY DEF LifeBase
    <3>3. QED
      BY <1>1, <1>3, <2>4, <3>1, <3>2
  <2>6. Life!PayAfterReturn(p)
    BY <1>1, <1>2, <2>1, <2>2, <2>3, <2>5 DEF Life!PayAfterReturn, Life!Moves
  <2>7. QED
    BY <2>6 DEF Life!Next
<1>12. QED
  BY <1>5, <1>7, <1>8, <1>9, <1>10, <1>11 DEF PacketEffect, Settles

-----------------------------------------------------------------------------
(* Declarations, and calls that throw.                                     *)

\* What depends on the records only stays with them.
LEMMA RecordsKept ==
  ASSUME failure = "none", failure' = "none", UNCHANGED records
  PROVE  UNCHANGED LifePhase /\ UNCHANGED LifeTerms /\ UNCHANGED LifeTries
BY DEF LifePhase, LifeTerms, LifeTries, PhaseOf, Alive

LEMMA QuietLife ==
  ASSUME LifeInv, failure = "none", failure' = "none", Quiet
  PROVE  Life!Next \/ UNCHANGED Life!lifecycle
<1>1. /\ UNCHANGED <<seeded, ledger, records>>
      /\ UNCHANGED lanes \/ (seeded = DOMAIN Seed /\ DOMAIN lanes # DeclaredLanes)
  BY DEF Quiet
<1>2. UNCHANGED LifeBase /\ Alive /\ Alive'
  BY <1>1 DEF LifeBase, BaseOf, Alive
<1>3. UNCHANGED LifePhase /\ UNCHANGED LifeTerms /\ UNCHANGED LifeTries
  BY <1>1, RecordsKept
<1>4. CASE UNCHANGED StageOf
  BY <1>2, <1>3, <1>4 DEF Life!lifecycle
<1>5. CASE ~UNCHANGED StageOf
  <2>1. StageOf = "declaring" /\ StageOf' = "running"
    BY <1>1, <1>2, <1>5 DEF StageOf
  <2>2. Life!Start
    BY <1>2, <1>3, <2>1 DEF Life!Start
  <2>3. QED
    BY <2>2 DEF Life!Next
<1>6. QED
  BY <1>4, <1>5

LEMMA SeedLife ==
  ASSUME LifeInv, LifeInv', failure = "none", failure' = "none",
         NEW h \in DOMAIN Seed, Seeds(h)
  PROVE  Life!Next \/ UNCHANGED Life!lifecycle
<1>1. /\ UNCHANGED <<lanes, records>> /\ seeded # DOMAIN Seed
      /\ seeded' = seeded \cup {h} /\ h \notin seeded
  BY DEF Seeds
<1>2. UNCHANGED LifePhase /\ UNCHANGED LifeTerms /\ UNCHANGED LifeTries /\ Alive /\ Alive'
  BY <1>1, RecordsKept DEF Alive
<1>3. h \in Holders /\ h[2] \in Assets /\ Seed[h] \in Nat
  BY AmountTypes DEF LifeInv, BooksInv, IInv, Holders
<1>4. ASSUME NEW a \in Assets
      PROVE  LifeBase'[a] = LifeBase[a] + (IF a = h[2] THEN Seed[h] ELSE 0) /\ LifeBase[a] \in Nat
  <2> DEFINE S   == {g \in seeded : g[2] = a}
             T   == {g \in seeded \cup {h} : g[2] = a}
             sum == Total(Regained(records, a), Grosses(records))
  <2>1. IsFiniteSet(S) /\ \A g \in S : Seed[g] \in Nat
    BY SeededProps, FS_Subset DEF LifeInv, BooksInv, IInv, TypeOK
  <2>2. T = IF a = h[2] THEN S \cup {h} ELSE S
    OBVIOUS
  <2>3. h \notin S
    BY <1>1
  <2> HIDE DEF S, T
  <2>4. Total(T, Seed) = Total(S, Seed) + (IF a = h[2] THEN Seed[h] ELSE 0) /\ Total(S, Seed) \in Nat
    BY <1>3, <2>1, <2>2, <2>3, TotalAdd, TotalType
  <2>5. sum \in Nat
    <3>1. Regained(records, a) \in SUBSET DOMAIN records
      BY DEF Regained
    <3>2. QED
      BY <3>1, RecordFacts, TotalType DEF LifeInv, BooksInv
  <2>6. LifeBase[a] = Total(S, Seed) + sum /\ LifeBase'[a] = Total(T, Seed) + sum
    BY <1>1, BaseIs, BaseIsAfter DEF DeclaredOf, S, T
  <2> HIDE DEF sum
  <2>7. QED
    BY <1>3, <2>4, <2>5, <2>6
<1>5. LifeBase' = [LifeBase EXCEPT ![h[2]] = LifeBase'[h[2]]] /\ LifeBase'[h[2]] >= LifeBase[h[2]]
  <2>1. LifeBase = [a \in Assets |-> LifeBase[a]] /\ LifeBase' = [a \in Assets |-> LifeBase'[a]]
    BY DEF LifeBase
  <2>2. \A a \in Assets : a # h[2] => LifeBase'[a] = LifeBase[a]
    BY <1>4
  <2>3. LifeBase'[h[2]] >= LifeBase[h[2]]
    BY <1>3, <1>4
  <2>4. QED
    BY <1>3, <2>1, <2>2, <2>3
<1>6. StageOf = "declaring" /\ StageOf' \in {"declaring", "running"}
  BY <1>1, <1>2 DEF StageOf
<1>7. CASE StageOf' = "declaring"
  <2>1. Life!Declare(h[2])
    BY <1>2, <1>5, <1>6, <1>7 DEF Life!Declare
  <2>2. QED
    BY <1>3, <2>1 DEF Life!Next
<1>8. CASE StageOf' = "running"
  <2>1. Life!Start
    BY <1>2, <1>3, <1>5, <1>6, <1>8 DEF Life!Start
  <2>2. QED
    BY <2>1 DEF Life!Next
<1>9. QED
  BY <1>6, <1>7, <1>8

\* A call that throws ends the run, and the report of it has nothing left.
LEMMA ThrowLife ==
  ASSUME failure = "none", failure' # "none"
  PROVE  Life!Stop
<1>1. Alive /\ ~Alive'
  BY DEF Alive
<1>2. StageOf # "stopped" /\ StageOf' = "stopped"
  BY <1>1 DEF StageOf
<1>3. /\ LifePhase' = [p \in Packets |-> "absent"]
      /\ LifeTerms' = [p \in Packets |-> <<>>]
      /\ LifeTries' = [p \in Packets |-> 0]
      /\ LifeBase' = [a \in Assets |-> 0]
  BY <1>1 DEF LifePhase, LifeTerms, LifeTries, LifeBase
<1>4. QED
  BY <1>2, <1>3 DEF Life!Stop, Life!Unused

LEMMA LifeStep ==
  ASSUME LifeInv, LifeInv', [Next]_vars
  PROVE  Life!Next \/ UNCHANGED Life!lifecycle
<1>1. CASE Next /\ failure' # "none"
  <2>1. failure = "none"
    BY <1>1, NextCompletes DEF Completes, LifeInv, BooksInv
  <2>2. QED
    BY <1>1, <2>1, ThrowLife DEF Life!Next
<1>2. CASE Next /\ failure' = "none"
  <2>1. Effect /\ failure = "none"
    BY <1>2, NextCompletes DEF Completes, LifeInv, BooksInv
  <2>2. QED
    BY <1>2, <2>1, QuietLife, SeedLife, PacketLife DEF Effect
<1>3. CASE UNCHANGED vars
  BY <1>3 DEF vars, Life!lifecycle, LifePhase, LifeTerms, LifeTries, LifeBase, StageOf,
     PhaseOf, BaseOf, Alive
<1>4. QED
  BY <1>1, <1>2, <1>3

\* The engine implements the lifecycle: a packet is held, given back, held again
\* and paid along the lifecycle's arrows only, each call moves at most one, and an
\* asset's base grows by the gross of what is paid after its return, no other way.
THEOREM RefinementCorrect ==
  Spec => ImplementsLifecycle
<1>1. LifeInv /\ LifeInv' /\ [Next]_vars => [Life!Next]_(Life!lifecycle)
  BY LifeStep
<1>2. QED
  BY LifeAlways, LifeInit, <1>1, PTL DEF Spec, ImplementsLifecycle, Life!Spec
=============================================================================
