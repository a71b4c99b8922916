--------------------------- MODULE Reports_proofs ---------------------------
(***************************************************************************)
(* The queue and the blocks of the report agree with the ledger, for any   *)
(* scenario.  Nothing here is inductive: each property follows from the    *)
(* books of the engine (BooksInv), by taking the sums of the records apart *)
(* into buckets and together again over the holders of one asset; and the  *)
(* action properties follow from what a call that returns has done.        *)
(***************************************************************************)
EXTENDS ReportBuild, Engine_proofs

\* What every property below is taken from while the engine has not failed.
LEMMA RecordFacts ==
  ASSUME IInv, failure = "none"
  PROVE  /\ DOMAIN records \subseteq Packets
         /\ \A S \in SUBSET DOMAIN records :
              IsFiniteSet(S) /\ \A p \in S : Grosses(records)[p] \in Nat
         /\ \A p \in DOMAIN records :
              LET r == records[p] IN
              /\ r \in Record /\ PlanesOf(r, epoch) /\ Holder(r) \in Holders
              /\ r.confirmed_status \in {"prepared", "settled"}
              /\ r.observed_status \in {"open", "cancelled", "consumed"}
              /\ r.observed_epoch \in Int /\ r.timeout_epoch \in Int
              /\ r.observed_epoch <= epoch
         /\ epoch \in Nat
<1>1. DOMAIN records \subseteq Packets /\ \A p \in DOMAIN records : records[p] \in Record
  BY DEF IInv, TypeOK
<1>2. \A S \in SUBSET DOMAIN records :
        IsFiniteSet(S) /\ \A p \in S : Grosses(records)[p] \in Nat
  BY <1>1, TableProps
<1>3. epoch \in Nat
  BY EngineAssumption DEF IInv, TypeOK, Epochs
<1>4. ASSUME NEW p \in DOMAIN records
      PROVE  LET r == records[p] IN
             /\ r \in Record /\ PlanesOf(r, epoch) /\ Holder(r) \in Holders
             /\ r.confirmed_status \in {"prepared", "settled"}
             /\ r.observed_status \in {"open", "cancelled", "consumed"}
             /\ r.observed_epoch \in Int /\ r.timeout_epoch \in Int
             /\ r.observed_epoch <= epoch
  <2>1. records[p] \in Record /\ PlanesOf(records[p], epoch)
    BY <1>1 DEF IInv, PlanesAgree
  <2>2. Holder(records[p]) \in Holders
    BY <1>1, <2>1, AmountTypes DEF IInv
  <2>3. /\ records[p].observed_epoch \in Int /\ records[p].last_update_epoch \in Int
        /\ records[p].timeout_epoch \in Int
        /\ records[p].observed_status \in {"open", "cancelled", "consumed"}
    BY <2>1, EpochTypes DEF Record, PlanesOf, ObservedStatus
  <2>4. QED
    BY <1>3, <2>1, <2>2, <2>3 DEF PlanesOf
<1>5. QED
  BY <1>1, <1>2, <1>3, <1>4

-----------------------------------------------------------------------------
(* Reserves over many holders.                                             *)

Open     == {p \in DOMAIN records : records[p].observed_status = "open"}
Prepared == {p \in DOMAIN records : records[p].confirmed_status = "prepared"}
Debited  == {p \in DOMAIN records : records[p].observed_status \in {"open", "consumed"}}
Of(H)    == {p \in DOMAIN records : Holder(records[p]) \in H}

\* Over any holders, the reserves of a plane are the gross of the packets that
\* these holders have on it.
LEMMA ReservesOf ==
  ASSUME IInv, failure = "none", NEW H \in SUBSET Holders
  PROVE  /\ Total(H, [h \in H |-> ledger[h]["observed_locked"]])
              = Total(Open \cap Of(H), Grosses(records))
         /\ Total(H, [h \in H |-> ledger[h]["confirmed_locked"]])
              = Total(Prepared \cap Of(H), Grosses(records))
<1> DEFINE w == Grosses(records)
           k == [p \in DOMAIN records |-> Holder(records[p])]
<1>1. IsFiniteSet(H)
  BY SeededProps, FS_Subset DEF IInv
<1>2. ASSUME NEW S \in SUBSET Of(H), NEW v,
             \A h \in H : v[h] = Total(Class(S, k, h), w)
      PROVE  Total(H, v) = Total(S, w)
  <2>1. /\ IsFiniteSet(S) /\ \A p \in S : w[p] \in Nat
        /\ \A p \in S : k[p] \in H
    BY RecordFacts DEF Of
  <2> HIDE DEF k, w
  <2>2. QED
    BY <1>1, <1>2, <2>1, TotalPartition
<1>3. \A h \in H : /\ ledger[h]["observed_locked"] = Total(Class(Open \cap Of(H), k, h), w)
                  /\ ledger[h]["confirmed_locked"]
                       = Total(Class(Prepared \cap Of(H), k, h), w)
  <2>1. \A h \in H : /\ Class(Open \cap Of(H), k, h) = OpenFrom(records, h)
                     /\ Class(Prepared \cap Of(H), k, h) = PreparedFrom(records, h)
    BY DEF Class, Open, Prepared, Of, OpenFrom, PreparedFrom
  <2>2. \A h \in H : /\ ledger[h]["observed_locked"] = Total(OpenFrom(records, h), w)
                     /\ ledger[h]["confirmed_locked"] = Total(PreparedFrom(records, h), w)
    BY DEF IInv, ReservesMatch
  <2>3. QED
    BY <2>1, <2>2
<1>4. Open \cap Of(H) \in SUBSET Of(H) /\ Prepared \cap Of(H) \in SUBSET Of(H)
  OBVIOUS
<1> HIDE DEF k, w
<1>5. QED
  BY <1>2, <1>3, <1>4 DEF w

-----------------------------------------------------------------------------
(* The buckets of the queue.                                               *)

\* What each bucket holds, in terms of the two planes and the timeout alone.
LEMMA BucketMeans ==
  ASSUME IInv, failure = "none", NEW p \in DOMAIN records
  PROVE  LET r == records[p] IN
         /\ BucketOf(p) = "closed" <=> r.confirmed_status = "settled"
         /\ BucketOf(p) = "timed_out" <=>
              /\ r.confirmed_status = "prepared"
              /\ r.observed_status = "cancelled" \/ epoch >= r.timeout_epoch
         /\ BucketOf(p) = "ready" <=> r.observed_status = "open" /\ epoch < r.timeout_epoch
         /\ BucketOf(p) # "waiting"
         /\ r.observed_status = "open" => r.confirmed_status = "prepared"
         /\ r.confirmed_status = "prepared" => r.observed_status \in {"open", "cancelled"}
<1>1. LET r == records[p] IN
        /\ PlanesOf(r, epoch) /\ r.confirmed_status \in {"prepared", "settled"}
        /\ r.observed_status \in {"open", "cancelled", "consumed"}
        /\ r.timeout_epoch \in Int /\ epoch \in Int
  BY RecordFacts
<1>2. QED
  BY <1>1 DEF BucketOf, Bucket, PlanesOf, IsSettled

LEMMA QueueMatches ==
  ASSUME IInv
  PROVE  QueueMatchesLedger
<1> SUFFICES ASSUME failure = "none"
             PROVE  /\ Gross("ready") + Gross("waiting") + Gross("timed_out")
                         = Total(Holders, [h \in Holders |-> ledger[h]["confirmed_locked"]])
                    /\ Gross("ready") + Total(OpenPast, Grosses(records))
                         = Total(Holders, [h \in Holders |-> ledger[h]["observed_locked"]])
  BY DEF QueueMatchesLedger
<1> DEFINE w == Grosses(records)
<1>1. Of(Holders) = DOMAIN records
  BY RecordFacts DEF Of
<1>2. /\ Open \cap Of(Holders) = Open /\ Prepared \cap Of(Holders) = Prepared
  BY <1>1 DEF Open, Prepared
<1>3. /\ Total(Holders, [h \in Holders |-> ledger[h]["observed_locked"]]) = Total(Open, w)
      /\ Total(Holders, [h \in Holders |-> ledger[h]["confirmed_locked"]]) = Total(Prepared, w)
  <2>1. Holders \in SUBSET Holders
    OBVIOUS
  <2>2. QED
    BY <1>2, <2>1, ReservesOf
<1>4. /\ InBucket("waiting") = {}
      /\ Prepared = InBucket("ready") \cup InBucket("timed_out")
      /\ InBucket("ready") \cap InBucket("timed_out") = {}
      /\ Open = InBucket("ready") \cup OpenPast
      /\ InBucket("ready") \cap OpenPast = {}
  BY BucketMeans, RecordFacts DEF InBucket, Open, Prepared, OpenPast, CancellationWindowOpen
<1>5. \A S \in {InBucket("ready"), InBucket("timed_out"), OpenPast} :
        IsFiniteSet(S) /\ \A p \in S : w[p] \in Nat
  <2>1. \A S \in {InBucket("ready"), InBucket("timed_out"), OpenPast} :
          S \in SUBSET DOMAIN records
    BY DEF InBucket, OpenPast
  <2>2. QED
    BY <2>1, RecordFacts
<1> HIDE DEF w
<1>6. /\ Total(Prepared, w) = Total(InBucket("ready"), w) + Total(InBucket("timed_out"), w)
      /\ Total(Open, w) = Total(InBucket("ready"), w) + Total(OpenPast, w)
  BY <1>4, <1>5, TotalUnion
<1>7. /\ Total(InBucket("waiting"), w) = 0
      /\ Total(InBucket("ready"), w) \in Nat /\ Total(InBucket("timed_out"), w) \in Nat
  BY <1>4, <1>5, TotalEmpty, TotalType
<1>8. QED
  BY <1>3, <1>6, <1>7 DEF Gross, w

\* The queue accounts for the whole reserve of both planes, over all accounts.
THEOREM QueueMatchesCorrect ==
  Spec => []QueueMatchesLedger
BY InvAlways, QueueMatches, PTL

\* For every epoch to come the engine, the timeline and the queue agree on
\* whether a packet has expired, and an open one can be confirmed or cancelled.
LEMMA TimeoutViews ==
  ASSUME IInv
  PROVE  TimeoutViewsAgree
<1> SUFFICES ASSUME failure = "none", NEW p \in DOMAIN records
             PROVE  /\ \A e \in epoch .. MaxEpoch :
                         CancelError(p, e, FALSE) = "none"
                           <=> /\ lanes[records[p].lane].allow_manual_cancel
                               /\ CancellationWindowOpen(records[p], e)
                    /\ \A e \in epoch .. MaxEpoch :
                         records[p].observed_status = "open" =>
                           \/ ConfirmationWindowOpen(records[p], e, 1)
                           \/ CancellationWindowOpen(records[p], e)
                    /\ BucketOf(p) = "ready"
                         <=> /\ records[p].observed_status = "open"
                             /\ Delivery(records[p], epoch, 1) = "on_time"
                    /\ records[p].observed_status = "open" =>
                         (BucketOf(p) = "timed_out" <=>
                            Delivery(records[p], epoch, 1) \in {"grace", "late", "expired"})
  BY DEF TimeoutViewsAgree
<1>1. /\ records[p].observed_epoch \in Int /\ records[p].timeout_epoch \in Int
      /\ records[p].observed_epoch <= epoch /\ epoch \in Nat /\ MaxEpoch \in Nat
  BY RecordFacts, EngineAssumption
<1>2. ASSUME NEW e \in epoch .. MaxEpoch
      PROVE  /\ e \in Nat /\ ~(e < epoch)
             /\ e < records[p].timeout_epoch => Delivery(records[p], e, 1) = "on_time"
             /\ ~(e < records[p].timeout_epoch) =>
                  Delivery(records[p], e, 1) \in {"grace", "late", "expired"}
  <2>1. e \in Nat /\ ~(e < epoch) /\ ~(e < records[p].observed_epoch)
    BY <1>1
  <2>2. QED
    BY <2>1 DEF Delivery
<1>3. ASSUME NEW e \in epoch .. MaxEpoch
      PROVE  CancelError(p, e, FALSE) = "none"
               <=> /\ lanes[records[p].lane].allow_manual_cancel
                   /\ CancellationWindowOpen(records[p], e)
  <2>1. CancelError(p, e, FALSE) = "none"
          <=> /\ lanes[records[p].lane].allow_manual_cancel
              /\ records[p].observed_status = "open" /\ ~(e < records[p].timeout_epoch)
    BY <1>2 DEF CancelError
  <2>2. CancellationWindowOpen(records[p], e)
          <=> records[p].observed_status = "open" /\ ~(e < records[p].timeout_epoch)
    BY <1>1, <1>2 DEF CancellationWindowOpen
  <2>3. QED
    BY <2>1, <2>2, Zenon
<1>4. ASSUME NEW e \in epoch .. MaxEpoch, records[p].observed_status = "open"
      PROVE  \/ ConfirmationWindowOpen(records[p], e, 1)
             \/ CancellationWindowOpen(records[p], e)
  <2>1. e \in Nat
    BY <1>2
  <2>2. CASE e < records[p].timeout_epoch
    BY <1>2, <2>2 DEF ConfirmationWindowOpen
  <2>3. CASE ~(e < records[p].timeout_epoch)
    BY <1>1, <1>4, <2>1, <2>3 DEF CancellationWindowOpen
  <2>4. QED
    BY <2>2, <2>3
<1>5. /\ BucketOf(p) = "ready"
           <=> records[p].observed_status = "open" /\ Delivery(records[p], epoch, 1) = "on_time"
      /\ records[p].observed_status = "open" =>
           (BucketOf(p) = "timed_out" <=>
              Delivery(records[p], epoch, 1) \in {"grace", "late", "expired"})
  <2>1. epoch \in epoch .. MaxEpoch
    BY EngineAssumption DEF IInv, TypeOK, Epochs
  <2>2. /\ epoch < records[p].timeout_epoch <=> Delivery(records[p], epoch, 1) = "on_time"
        /\ ~(epoch < records[p].timeout_epoch) <=>
             Delivery(records[p], epoch, 1) \in {"grace", "late", "expired"}
    BY <1>2, <2>1
  <2>3. QED
    BY <1>1, <2>2, BucketMeans
<1>6. QED
  BY <1>3, <1>4, <1>5

THEOREM TimeoutViewsCorrect ==
  Spec => []TimeoutViewsAgree
BY InvAlways, TimeoutViews, PTL

\* Between two states of a run a packet's record either stays or was rewritten
\* by the one effect the call had.
LEMMA MovesAreEffects ==
  ASSUME IInv, Next, failure' = "none", NEW p \in DOMAIN records,
         records'[p] # records[p]
  PROVE  \E r \in Record : r = records'[p] /\ PacketEffect(p, r)
<1>1. Effect
  BY NextCompletes DEF Completes
<1>2. ~Quiet /\ \A h \in DOMAIN Seed : ~Seeds(h)
  BY DEF Quiet, Seeds
<1>3. PICK q \in Packets, r \in Record : PacketEffect(q, r)
  BY <1>1, <1>2 DEF Effect
<1>4. records' = Put(records, q, r)
  BY <1>3 DEF PacketEffect, Opens, Reopens, Releases, Repeats, Settles
<1>5. q = p /\ records'[p] = r
  BY <1>4 DEF Put
<1>6. QED
  BY <1>3, <1>5

LEMMA BucketStep ==
  ASSUME IInv, Next, failure' = "none", NEW p \in DOMAIN records
  PROVE  LET before == Bucket(records[p], epoch)
             after  == Bucket(records'[p], epoch')
         IN  /\ before = "closed" => after = "closed"
             /\ after # "waiting"
             /\ before = "timed_out" /\ after = "ready" =>
                  records'[p].attempt = records[p].attempt + 1
<1> DEFINE old == records[p]
           new == records'[p]
<1>1. /\ failure = "none" /\ epoch <= epoch' /\ IInv'
      /\ p \in DOMAIN records' /\ Continued(old, new, epoch')
  BY NextCompletes, InvStep DEF Completes, Lasts
<1>2. /\ PlanesOf(old, epoch) /\ PlanesOf(new, epoch')
      /\ old.timeout_epoch \in Int /\ new.timeout_epoch \in Int
      /\ epoch \in Int /\ epoch' \in Int
      /\ old.observed_status \in {"open", "cancelled", "consumed"}
      /\ new.observed_status \in {"open", "cancelled", "consumed"}
  <2>1. /\ PlanesOf(old, epoch) /\ old.timeout_epoch \in Int /\ epoch \in Int
        /\ old.observed_status \in {"open", "cancelled", "consumed"}
    BY <1>1, RecordFacts
  <2>2. /\ PlanesOf(new, epoch') /\ new \in Record /\ epoch' \in Epochs
    BY <1>1 DEF IInv, TypeOK, PlanesAgree
  <2>3. epoch' \in Int
    BY <2>2, EngineAssumption DEF Epochs
  <2>4. /\ new.timeout_epoch \in Int
        /\ new.observed_status \in {"open", "cancelled", "consumed"}
    BY <2>2 DEF Record, ObservedStatus, PlanesOf
  <2>5. QED
    BY <2>1, <2>2, <2>3, <2>4
<1>3. IsSettled(old) => IsSettled(new)
  <2>1. ASSUME IsSettled(old) PROVE IsSettled(new)
    <3>1. WithoutAcks(new) = WithoutAcks(old)
      BY <1>1, <2>1 DEF Continued
    <3>2. old \in Record /\ new \in Record
      BY <1>1 DEF IInv, TypeOK
    <3>3. /\ WithoutAcks(new).confirmed_status = new.confirmed_status
          /\ WithoutAcks(old).confirmed_status = old.confirmed_status
      BY <3>2 DEF WithoutAcks, Record
    <3>4. QED
      BY <2>1, <3>1, <3>3 DEF IsSettled
  <2>2. QED
    BY <2>1
<1>4. /\ Bucket(old, epoch) = "closed" <=> IsSettled(old)
      /\ Bucket(new, epoch') = "closed" <=> IsSettled(new)
      /\ Bucket(new, epoch') # "waiting"
      /\ Bucket(old, epoch) = "timed_out" =>
           old.observed_status = "cancelled" \/ old.timeout_epoch <= epoch
      /\ Bucket(new, epoch') = "ready" =>
           /\ new.observed_status = "open" /\ new.confirmed_status = "prepared"
           /\ epoch' < new.timeout_epoch
  BY <1>2 DEF Bucket, PlanesOf, IsSettled
<1>5. ASSUME Bucket(old, epoch) = "timed_out", Bucket(new, epoch') = "ready"
      PROVE  new.attempt = old.attempt + 1
  <2>1. CASE old.observed_status = "cancelled"
    BY <1>1, <1>4, <1>5, <2>1 DEF Continued
  <2>2. CASE old.observed_status # "cancelled"
    <3>1. new # old
      BY <1>1, <1>2, <1>4, <1>5, <2>2
    <3>2. \E r \in Record : r = new /\ PacketEffect(p, r)
      BY <3>1, MovesAreEffects
    <3>3. FALSE
      BY <1>4, <1>5, <2>2, <3>2
         DEF PacketEffect, Opens, Reopens, Releases, Repeats, Settles, IsSettled
    <3>4. QED
      BY <3>3
  <2>3. QED
    BY <2>1, <2>2
<1>6. QED
  BY <1>3, <1>4, <1>5

\* No call moves a packet out of the closed bucket or into the waiting one, and
\* from the timed-out bucket it becomes ready only by a counted retry.
THEOREM BucketMovesCorrect ==
  Spec => BucketMoves
<1>1. IInv /\ [Next]_vars =>
        [failure' = "none" =>
           \A p \in DOMAIN records :
             LET before == Bucket(records[p], epoch)
                 after  == Bucket(records'[p], epoch')
             IN  /\ before = "closed" => after = "closed"
                 /\ after # "waiting"
                 /\ before = "timed_out" /\ after = "ready" =>
                      records'[p].attempt = records[p].attempt + 1]_vars
  BY BucketStep
<1>2. QED
  BY <1>1, InvAlways, PTL DEF Spec, BucketMoves

\* A packet that is pending is prepared, so its confirmation settles it, and
\* there only a sum that is too large can fail.
LEMMA PendingStep ==
  ASSUME IInv, Next, NEW p \in Packets, NEW k \in Acks,
         failure = "none", p \in Pending, Confirm(p, k, epoch')
  PROVE  failure' \in {"none", "ArithmeticOverflow"}
<1>1. p \in DOMAIN records /\ ~IsSettled(records[p]) /\ records[p].acknowledgements = {}
  <2>1. p \in DOMAIN records /\ BucketOf(p) # "closed"
    BY DEF Pending, InBucket
  <2>2. ~IsSettled(records[p])
    BY <2>1, BucketMeans DEF IsSettled
  <2>3. QED
    BY <2>1, <2>2, RecordFacts DEF PlanesOf
<1>2. TypeOK'
  BY NextCompletes DEF Completes
<1>3. epoch' \in Epochs
  BY <1>2 DEF TypeOK
<1>4. epoch \in Int /\ epoch' \in Int
  BY <1>3, EngineAssumption DEF Epochs, IInv, TypeOK
<1>5. epoch <= epoch'
  <2>1. CASE ConfirmError(p, k, epoch') # "none"
    BY <1>1, <1>4, <2>1 DEF Confirm, Refuse, ConfirmError
  <2>2. CASE ConfirmError(p, k, epoch') = "none"
    BY <1>4, <2>2 DEF ConfirmError
  <2>3. QED
    BY <2>1, <2>2
<1>6. Running /\ Settle(p, k, epoch')
  BY <1>1, <1>4, <1>5 DEF Confirm, ConfirmError, RepeatedAck, IsSettled
<1>7. QED
  BY <1>1, <1>3, <1>5, <1>6, SettleCompletes DEF IsSettled

\* A packet the queue lists as pending is refused by no guard of confirm.
THEOREM PendingConfirmsCorrect ==
  Spec => PendingConfirms
<1>1. IInv /\ [Next]_vars =>
        [\A p \in Packets, k \in Acks :
           failure = "none" /\ p \in Pending /\ Confirm(p, k, epoch')
             => failure' \in {"none", "ArithmeticOverflow"}]_vars
  BY PendingStep
<1>2. QED
  BY <1>1, InvAlways, PTL DEF Spec, PendingConfirms

\* A lexicographic comparison of four integers, spelled out.
LEMMA LessOfFour ==
  ASSUME NEW a1, NEW a2, NEW a3, NEW a4, NEW b1, NEW b2, NEW b3, NEW b4
  PROVE  Less(<<a1, a2, a3, a4>>, <<b1, b2, b3, b4>>) <=>
           \/ a1 < b1
           \/ a1 = b1 /\ a2 < b2
           \/ a1 = b1 /\ a2 = b2 /\ a3 < b3
           \/ a1 = b1 /\ a2 = b2 /\ a3 = b3 /\ a4 < b4
<1> DEFINE a == <<a1, a2, a3, a4>>
           b == <<b1, b2, b3, b4>>
           First(i) == a[i] < b[i] /\ \A j \in 1 .. i - 1 : a[j] = b[j]
<1>1. DOMAIN a = 1 .. 4
  OBVIOUS
<1>2. Less(a, b) <=> First(1) \/ First(2) \/ First(3) \/ First(4)
  <2>1. \A i : i \in 1 .. 4 <=> i = 1 \/ i = 2 \/ i = 3 \/ i = 4
    OBVIOUS
  <2>2. Less(a, b) <=> \E i \in DOMAIN a : First(i)
    BY DEF Less
  <2> HIDE DEF First, a
  <2>3. QED
    BY <1>1, <2>1, <2>2
<1>3. First(1) <=> a1 < b1
  OBVIOUS
<1>4. First(2) <=> a1 = b1 /\ a2 < b2
  <2>1. \A j : j \in 1 .. 2 - 1 <=> j = 1
    OBVIOUS
  <2>2. QED
    BY <2>1
<1>5. First(3) <=> a1 = b1 /\ a2 = b2 /\ a3 < b3
  <2>1. \A j : j \in 1 .. 3 - 1 <=> j = 1 \/ j = 2
    OBVIOUS
  <2>2. QED
    BY <2>1
<1>6. First(4) <=> a1 = b1 /\ a2 = b2 /\ a3 = b3 /\ a4 < b4
  <2>1. \A j : j \in 1 .. 4 - 1 <=> j = 1 \/ j = 2 \/ j = 3
    OBVIOUS
  <2>2. QED
    BY <2>1
<1> HIDE DEF First, a, b
<1>7. QED
  BY <1>2, <1>3, <1>4, <1>5, <1>6 DEF a, b

LEMMA KeyTypes ==
  ASSUME IInv, failure = "none", NEW p \in DOMAIN records
  PROVE  /\ BucketRank[BucketOf(p)] \in Int /\ ScoreOf(p) \in Int /\ -ScoreOf(p) \in Int
         /\ records[p].timeout_epoch \in Int /\ PacketOrder[p] \in Int
<1> DEFINE r == records[p]
<1>1. /\ p \in Packets /\ r \in Record
      /\ r.observed_epoch \in Int /\ r.timeout_epoch \in Int /\ epoch \in Int
  BY RecordFacts
<1>2. BucketRank[BucketOf(p)] \in Int
  BY DEF BucketOf, Bucket, BucketRank
<1>3. \A x \in Int : Wrapped(x) \in Int
  BY EngineAssumption DEF Wrapped
<1>4. PriorityWeight[r.priority] \in Int
  <2>1. r.priority \in DOMAIN PriorityWeight
    BY <1>1, QueueAssumption DEF Record
  <2>2. QED
    BY <2>1 DEF PriorityWeight
<1>5. AgeWeight(r, epoch) \in Int /\ TimeoutWeight(r, epoch) \in Int
  <2>1. 2 * (epoch - r.observed_epoch) \in Int /\ epoch - r.timeout_epoch \in Int
    BY <1>1
  <2>2. 25 + Wrapped(epoch - r.timeout_epoch) \in Int
    BY <1>3, <2>1
  <2>3. QED
    BY <1>3, <2>1, <2>2 DEF AgeWeight, TimeoutWeight
<1> HIDE DEF r
<1>6. ScoreOf(p) \in Int
  <2>1. PriorityWeight[r.priority] + AgeWeight(r, epoch) \in Int
    BY <1>4, <1>5
  <2>2. Wrapped(PriorityWeight[r.priority] + AgeWeight(r, epoch)) + TimeoutWeight(r, epoch) \in Int
    BY <1>3, <1>5, <2>1
  <2>3. QED
    BY <1>3, <2>2 DEF ScoreOf, Score, r
<1>7. QED
  BY <1>1, <1>2, <1>6, QueueAssumption DEF r

\* The keys of ordered() put the packets of the queue into one line.
QueueIsLine ==
  failure = "none" =>
    \A p, q \in DOMAIN records :
      /\ p # q => (Before(p, q) <=> ~Before(q, p))
      /\ ~Before(p, p)
      /\ \A s \in DOMAIN records : Before(p, q) /\ Before(q, s) => Before(p, s)

LEMMA QueueIsLineHolds ==
  ASSUME IInv, failure = "none"
  PROVE  QueueIsLine
<1> DEFINE k1(p) == BucketRank[BucketOf(p)]
           k2(p) == -ScoreOf(p)
           k3(p) == records[p].timeout_epoch
           k4(p) == PacketOrder[p]
<1>1. \A p \in DOMAIN records :
        k1(p) \in Int /\ k2(p) \in Int /\ k3(p) \in Int /\ k4(p) \in Int
  BY KeyTypes
<1>2. \A p, q \in DOMAIN records : k4(p) = k4(q) => p = q
  BY RecordFacts, QueueAssumption
<1>3. \A p, q : Before(p, q) <=>
        \/ k1(p) < k1(q)
        \/ k1(p) = k1(q) /\ k2(p) < k2(q)
        \/ k1(p) = k1(q) /\ k2(p) = k2(q) /\ k3(p) < k3(q)
        \/ k1(p) = k1(q) /\ k2(p) = k2(q) /\ k3(p) = k3(q) /\ k4(p) < k4(q)
  BY LessOfFour DEF Before, SortKey
<1> HIDE DEF k1, k2, k3, k4
<1>4. QED
  BY <1>1, <1>2, <1>3 DEF QueueIsLine

\* Of any two packets exactly one is ordered before the other, without circles and
\* whatever their scores wrap to, so no sort has equal elements to choose among:
\* the queue of a report is a function of the records.
THEOREM QueueIsLineCorrect ==
  Spec => []QueueIsLine
<1>1. IInv => QueueIsLine
  BY QueueIsLineHolds DEF QueueIsLine
<1>2. QED
  BY <1>1, InvAlways, PTL

\* R puts the elements of the finite set D into one line.
IsLine(D, R) ==
  /\ IsFiniteSet(D)
  /\ \A p, q \in D :
       /\ p # q => (<<p, q>> \in R <=> <<q, p>> \notin R)
       /\ <<p, p>> \notin R
       /\ \A s \in D : <<p, q>> \in R /\ <<q, s>> \in R => <<p, s>> \in R

\* The sequence s has every element of D once.
Lists(s, D) == s \in [1 .. Cardinality(D) -> D] /\ \A i, j \in 1 .. Cardinality(D) : i # j => s[i] # s[j]

Follows(s, R) == \A i, j \in DOMAIN s : i < j => <<s[j], s[i]>> \notin R

\* A sequence that has as many different elements as D misses none.
LEMMA ListsAll ==
  ASSUME NEW D, IsFiniteSet(D), NEW s, Lists(s, D), NEW x \in D
  PROVE  \E i \in 1 .. Cardinality(D) : s[i] = x
<1> DEFINE I == 1 .. Cardinality(D)
<1>1. Cardinality(D) \in Nat
  BY FS_CardinalityType
<1>2. Cardinality(I) = Cardinality(D)
  <2>1. Cardinality(I) = IF 1 > Cardinality(D) THEN 0 ELSE Cardinality(D) - 1 + 1
    BY <1>1, FS_Interval
  <2>2. QED
    BY <1>1, <2>1
<1>3. s \in Injection(I, D)
  BY DEF Lists, Injection, IsInjective
<1> HIDE DEF I
<1>4. s \in Surjection(I, D)
  BY <1>2, <1>3, FS_Injection
<1>5. QED
  BY <1>4 DEF Surjection, I

\* Where each element of a line comes: after the elements before it.
LEMMA LineRanks ==
  ASSUME NEW D, NEW R, IsLine(D, R)
  PROVE  \E rank \in [D -> 1 .. Cardinality(D)] :
            \A p, q \in D : /\ <<p, q>> \in R <=> rank[p] < rank[q]
                            /\ rank[p] = rank[q] => p = q
<1> DEFINE Below(p) == {q \in D : <<q, p>> \in R}
           n        == Cardinality(D)
           rank     == [p \in D |-> Cardinality(Below(p)) + 1]
<1>1. IsFiniteSet(D) /\ n \in Nat
  BY FS_CardinalityType DEF IsLine
<1>2. ASSUME NEW p \in D
      PROVE  IsFiniteSet(Below(p)) /\ Cardinality(Below(p)) \in Nat /\ Cardinality(Below(p)) < n
  <2>1. Below(p) \subseteq D /\ Below(p) # D
    BY DEF IsLine
  <2> HIDE DEF Below
  <2>2. IsFiniteSet(Below(p)) /\ Cardinality(Below(p)) <= n /\ Cardinality(Below(p)) # n
    BY <1>1, <2>1, FS_Subset
  <2>3. QED
    BY <1>1, <2>2, FS_CardinalityType
<1>3. ASSUME NEW p \in D, NEW q \in D, <<p, q>> \in R
      PROVE  Cardinality(Below(p)) < Cardinality(Below(q))
  <2>1. Below(p) \subseteq Below(q) /\ p \in Below(q) /\ p \notin Below(p)
    BY <1>3 DEF IsLine
  <2>2. Below(p) # Below(q)
    BY <2>1
  <2>3. /\ IsFiniteSet(Below(q))
        /\ Cardinality(Below(p)) \in Nat /\ Cardinality(Below(q)) \in Nat
    BY <1>2
  <2> HIDE DEF Below
  <2>4. Cardinality(Below(p)) <= Cardinality(Below(q)) /\ Cardinality(Below(p)) # Cardinality(Below(q))
    BY <2>1, <2>2, <2>3, FS_Subset
  <2>5. QED
    BY <2>3, <2>4
<1> HIDE DEF Below
<1>4. /\ rank \in [D -> 1 .. n]
      /\ \A p \in D : rank[p] = Cardinality(Below(p)) + 1 /\ rank[p] \in Nat
  <2>1. \A p \in D : Cardinality(Below(p)) + 1 \in 1 .. n
    BY <1>1, <1>2
  <2>2. QED
    BY <1>2, <2>1
<1>5. \A p, q \in D : <<p, q>> \in R => rank[p] < rank[q]
  BY <1>2, <1>3, <1>4
<1> HIDE DEF rank
<1>6. \A p, q \in D : p = q \/ <<p, q>> \in R \/ <<q, p>> \in R
  BY DEF IsLine
<1>7. ASSUME NEW p \in D, NEW q \in D
      PROVE  /\ <<p, q>> \in R <=> rank[p] < rank[q]
             /\ rank[p] = rank[q] => p = q
  <2>1. rank[p] \in Nat /\ rank[q] \in Nat
    BY <1>4
  <2>2. /\ <<p, q>> \in R => rank[p] < rank[q]
        /\ <<q, p>> \in R => rank[q] < rank[p]
        /\ p = q \/ <<p, q>> \in R \/ <<q, p>> \in R
    BY <1>5, <1>6
  <2>3. QED
    BY <2>1, <2>2
<1>8. QED
  BY <1>4, <1>7

\* A line can be listed in its order,
LEMMA LineListed ==
  ASSUME NEW D, NEW R, IsLine(D, R)
  PROVE  \E s : /\ Lists(s, D) /\ Follows(s, R)
                /\ \A i, j \in DOMAIN s : i < j <=> <<s[i], s[j]>> \in R
<1> DEFINE n == Cardinality(D)
           I == 1 .. Cardinality(D)
<1>1. IsFiniteSet(D) /\ n \in Nat
  BY FS_CardinalityType DEF IsLine
<1>2. PICK rank \in [D -> I] : \A p, q \in D : /\ <<p, q>> \in R <=> rank[p] < rank[q]
                                               /\ rank[p] = rank[q] => p = q
  BY LineRanks
<1>3. \A i \in I : \E p \in D : rank[p] = i
  <2>1. IsFiniteSet(I) /\ Cardinality(I) = n
    <3>1. IsFiniteSet(I) /\ Cardinality(I) = IF 1 > n THEN 0 ELSE n - 1 + 1
      BY <1>1, FS_Interval
    <3>2. QED
      BY <1>1, <3>1
  <2>2. rank \in Injection(D, I)
    BY <1>2 DEF Injection, IsInjective
  <2> HIDE DEF I
  <2>3. rank \in Surjection(D, I)
    BY <2>1, <2>2, FS_Injection
  <2>4. QED
    BY <2>3 DEF Surjection
<1> DEFINE s == [i \in I |-> CHOOSE p \in D : rank[p] = i]
<1>4. \A i \in I : s[i] \in D /\ rank[s[i]] = i
  BY <1>3
<1>5. s \in [I -> D]
  BY <1>3
<1> HIDE DEF s
<1>6. Lists(s, D)
  BY <1>4, <1>5 DEF Lists
<1>7. \A i, j \in I : i < j <=> <<s[i], s[j]>> \in R
  BY <1>2, <1>4
<1>8. \A i, j \in I : i < j => <<s[j], s[i]>> \notin R
  <2>1. \A i, j \in I : i < j => ~(j < i)
    BY <1>1
  <2>2. QED
    BY <1>7, <2>1
<1>9. DOMAIN s = I
  BY <1>5
<1>10. QED
  BY <1>6, <1>7, <1>8, <1>9 DEF Follows

\* and in no other.
LEMMA LineListedOnce ==
  ASSUME NEW D, NEW R, IsLine(D, R), NEW s, Lists(s, D), Follows(s, R),
         NEW t, Lists(t, D), Follows(t, R)
  PROVE  s = t
<1> DEFINE I == 1 .. Cardinality(D)
           T == {i \in I : s[i] # t[i]}
<1>1. IsFiniteSet(D) /\ Cardinality(D) \in Nat
  BY FS_CardinalityType DEF IsLine
<1>2. s \in [I -> D] /\ t \in [I -> D]
  BY DEF Lists
<1>3. SUFFICES ASSUME T # {} PROVE FALSE
  <2>1. (\A i \in I : s[i] = t[i]) => s = t
    <3> HIDE DEF I
    <3>1. s = [i \in I |-> s[i]] /\ t = [i \in I |-> t[i]]
      BY <1>2
    <3>2. QED
      BY <3>1, Zenon
  <2>2. QED
    BY <2>1
<1>4. T \subseteq Nat
  BY <1>1
<1>5. PICK i \in T : \A m \in T : i <= m
  <2> HIDE DEF T
  <2>1. QED
    BY <1>3, <1>4, LeastNatural
<1>6. i \in I /\ s[i] # t[i] /\ s[i] \in D /\ t[i] \in D /\ I \subseteq Nat
  BY <1>1, <1>2
<1>7. \A m \in I : m < i => s[m] = t[m]
  <2>1. \A m \in I : m < i => ~(i <= m)
    BY <1>6
  <2>2. QED
    BY <1>5, <2>1
<1>8. PICK k \in I : t[k] = s[i]
  BY <1>1, <1>6, ListsAll
<1>9. PICK m \in I : s[m] = t[i]
  BY <1>1, <1>6, ListsAll
<1>10. k # i /\ m # i
  BY <1>6, <1>8, <1>9
<1>11. ~(k < i) /\ ~(m < i)
  BY <1>6, <1>7, <1>8, <1>9, <1>10 DEF Lists
<1>12. i < k /\ i < m
  BY <1>6, <1>10, <1>11
<1>13. <<t[k], t[i]>> \notin R /\ <<s[m], s[i]>> \notin R
  BY <1>2, <1>12 DEF Follows
<1>14. QED
  BY <1>6, <1>8, <1>9, <1>13 DEF IsLine

\* The first of a line that is not empty.
LEMMA LineHead ==
  ASSUME NEW D, NEW R, IsLine(D, R), D # {}
  PROVE  \E p : {x \in D : \A q \in D \ {x} : <<x, q>> \in R} = {p}
<1>1. PICK s : /\ Lists(s, D)
               /\ \A i, j \in DOMAIN s : i < j <=> <<s[i], s[j]>> \in R
  BY LineListed
<1>2. IsFiniteSet(D) /\ Cardinality(D) \in Nat /\ Cardinality(D) # 0
  BY FS_CardinalityType, FS_EmptySet DEF IsLine
<1>3. 1 \in 1 .. Cardinality(D) /\ s[1] \in D
  BY <1>1, <1>2 DEF Lists
<1>4. ASSUME NEW q \in D \ {s[1]}
      PROVE  <<s[1], q>> \in R
  <2>1. PICK i \in 1 .. Cardinality(D) : s[i] = q
    BY <1>1, <1>2, ListsAll
  <2>2. 1 < i
    BY <1>2, <2>1
  <2>3. QED
    BY <1>1, <1>3, <2>1, <2>2 DEF Lists
<1>5. \A x \in D : (\A q \in D \ {x} : <<x, q>> \in R) => x = s[1]
  BY <1>3, <1>4 DEF IsLine
<1>6. QED
  BY <1>3, <1>4, <1>5

\* A lexicographic comparison of three integers, spelled out.
LEMMA LessOfThree ==
  ASSUME NEW a1, NEW a2, NEW a3, NEW b1, NEW b2, NEW b3
  PROVE  Less(<<a1, a2, a3>>, <<b1, b2, b3>>) <=>
           \/ a1 < b1
           \/ a1 = b1 /\ a2 < b2
           \/ a1 = b1 /\ a2 = b2 /\ a3 < b3
<1> DEFINE a == <<a1, a2, a3>>
           b == <<b1, b2, b3>>
           First(i) == a[i] < b[i] /\ \A j \in 1 .. i - 1 : a[j] = b[j]
<1>1. DOMAIN a = 1 .. 3
  OBVIOUS
<1>2. Less(a, b) <=> First(1) \/ First(2) \/ First(3)
  <2>1. \A i : i \in 1 .. 3 <=> i = 1 \/ i = 2 \/ i = 3
    OBVIOUS
  <2>2. Less(a, b) <=> \E i \in DOMAIN a : First(i)
    BY DEF Less
  <2> HIDE DEF First, a
  <2>3. QED
    BY <1>1, <2>1, <2>2
<1>3. First(1) <=> a1 < b1
  OBVIOUS
<1>4. First(2) <=> a1 = b1 /\ a2 < b2
  <2>1. \A j : j \in 1 .. 2 - 1 <=> j = 1
    OBVIOUS
  <2>2. QED
    BY <2>1
<1>5. First(3) <=> a1 = b1 /\ a2 = b2 /\ a3 < b3
  <2>1. \A j : j \in 1 .. 3 - 1 <=> j = 1 \/ j = 2
    OBVIOUS
  <2>2. QED
    BY <2>1
<1> HIDE DEF First, a, b
<1>6. QED
  BY <1>2, <1>3, <1>4, <1>5 DEF a, b

\* The two orders of the queue, as relations.
Firsts   == {pq \in (DOMAIN records) \X (DOMAIN records) : Before(pq[1], pq[2])}
Urgents  == {pq \in InBucket("ready") \X InBucket("ready") : Less(ReadyKey(pq[1]), ReadyKey(pq[2]))}

LEMMA RecordsFinite ==
  ASSUME IInv
  PROVE  DOMAIN records \subseteq Packets /\ IsFiniteSet(DOMAIN records)
<1>1. DOMAIN records \subseteq Packets
  BY DEF IInv, TypeOK
<1>2. QED
  BY <1>1, EngineAssumption, FS_Subset

LEMMA QueueLine ==
  ASSUME IInv, failure = "none"
  PROVE  IsLine(DOMAIN records, Firsts)
<1>1. \A p, q \in DOMAIN records : <<p, q>> \in Firsts <=> Before(p, q)
  BY DEF Firsts
<1>2. QED
  BY <1>1, RecordsFinite, QueueIsLineHolds DEF IsLine, QueueIsLine

LEMMA ReadyLine ==
  ASSUME IInv, failure = "none"
  PROVE  IsLine(InBucket("ready"), Urgents)
<1> DEFINE D     == InBucket("ready")
           k1(p) == -ScoreOf(p)
           k2(p) == records[p].observed_epoch
           k3(p) == PacketOrder[p]
<1>1. D \subseteq DOMAIN records /\ IsFiniteSet(D)
  <2>1. D \subseteq DOMAIN records
    BY DEF InBucket
  <2>2. QED
    BY <2>1, RecordsFinite, FS_Subset
<1>2. \A p \in D : k1(p) \in Int /\ k2(p) \in Int /\ k3(p) \in Int
  BY <1>1, KeyTypes, RecordFacts
<1>3. \A p, q \in D : k3(p) = k3(q) => p = q
  BY <1>1, RecordFacts, QueueAssumption
<1>4. \A p, q \in D : <<p, q>> \in Urgents <=>
        \/ k1(p) < k1(q)
        \/ k1(p) = k1(q) /\ k2(p) < k2(q)
        \/ k1(p) = k1(q) /\ k2(p) = k2(q) /\ k3(p) < k3(q)
  <2>1. \A p, q \in D : <<p, q>> \in Urgents <=> Less(ReadyKey(p), ReadyKey(q))
    BY DEF Urgents
  <2>2. \A p, q : Less(ReadyKey(p), ReadyKey(q)) <=>
        \/ k1(p) < k1(q)
        \/ k1(p) = k1(q) /\ k2(p) < k2(q)
        \/ k1(p) = k1(q) /\ k2(p) = k2(q) /\ k3(p) < k3(q)
    BY LessOfThree DEF ReadyKey
  <2>3. QED
    BY <2>1, <2>2
<1> HIDE DEF k1, k2, k3, D
<1>5. \A p, q \in D : p # q => (<<p, q>> \in Urgents <=> <<q, p>> \notin Urgents)
  BY <1>2, <1>3, <1>4
<1>6. \A p \in D : <<p, p>> \notin Urgents
  BY <1>2, <1>4
<1>7. ASSUME NEW p \in D, NEW q \in D, NEW s \in D, <<p, q>> \in Urgents, <<q, s>> \in Urgents
      PROVE  <<p, s>> \in Urgents
  BY <1>2, <1>4, <1>7
<1>8. QED
  BY <1>1, <1>5, <1>6, <1>7 DEF IsLine, D

\* There is one order for the queue,
LEMMA OrderSettled ==
  ASSUME IInv, failure = "none"
  PROVE  /\ Orders = {Ordered}
         /\ Lists(Ordered, DOMAIN records)
         /\ \A i, j \in DOMAIN Ordered : i < j <=> Before(Ordered[i], Ordered[j])
<1> DEFINE D == DOMAIN records
<1>1. IsLine(D, Firsts)
  BY QueueLine
<1>2. \A s : s \in Orders <=> Lists(s, D) /\ Follows(s, Firsts)
  <2>1. \A s : s \in SetToSeqs(D) <=> Lists(s, D)
    BY DEF SetToSeqs, Lists
  <2>2. ASSUME NEW s, Lists(s, D)
        PROVE  Follows(s, Firsts) <=> \A i, j \in DOMAIN s : i < j => ~Before(s[j], s[i])
    <3>1. \A i \in DOMAIN s : s[i] \in D
      BY <2>2 DEF Lists
    <3>2. \A p, q \in D : <<p, q>> \in Firsts <=> Before(p, q)
      BY DEF Firsts
    <3> HIDE DEF D
    <3>3. QED
      BY <3>1, <3>2 DEF Follows
  <2>3. QED
    BY <2>1, <2>2 DEF Orders
<1>3. PICK s : /\ Lists(s, D) /\ Follows(s, Firsts)
               /\ \A i, j \in DOMAIN s : i < j <=> <<s[i], s[j]>> \in Firsts
  BY <1>1, LineListed
<1>4. Orders = {s}
  BY <1>1, <1>2, <1>3, LineListedOnce
<1>5. Ordered = s
  BY <1>4 DEF Ordered
<1>6. \A i, j \in DOMAIN s : <<s[i], s[j]>> \in Firsts <=> Before(s[i], s[j])
  <2>1. \A i \in DOMAIN s : s[i] \in D
    BY <1>3 DEF Lists
  <2>2. \A p, q \in D : <<p, q>> \in Firsts <=> Before(p, q)
    BY DEF Firsts
  <2> HIDE DEF D
  <2>3. QED
    BY <2>1, <2>2
<1>7. QED
  BY <1>3, <1>4, <1>5, <1>6

\* and its head is as urgent as the packet that is ready next.
LEMMA HeadIsUrgent ==
  ASSUME IInv, failure = "none", InBucket("ready") # {}
  PROVE  /\ Cardinality(NextReady) = 1
         /\ \A p \in NextReady : ScoreOf(p) = ScoreOf(Ordered[1])
<1> DEFINE D == DOMAIN records
           G == InBucket("ready")
           h == Ordered[1]
<1>1. PICK p : NextReady = {p}
  <2>1. PICK p : {x \in G : \A q \in G \ {x} : <<x, q>> \in Urgents} = {p}
    BY ReadyLine, LineHead
  <2>2. NextReady = {x \in G : \A q \in G \ {x} : <<x, q>> \in Urgents}
    BY DEF NextReady, Urgents
  <2>3. QED
    BY <2>1, <2>2
<1>2. p \in G /\ p \in D /\ \A q \in G \ {p} : Less(ReadyKey(p), ReadyKey(q))
  BY <1>1 DEF NextReady, InBucket
<1>3. IsFiniteSet(D) /\ Cardinality(D) \in Nat /\ Cardinality(D) # 0
  BY <1>2, RecordsFinite, FS_CardinalityType, FS_EmptySet
<1>4. DOMAIN Ordered = 1 .. Cardinality(D) /\ 1 \in DOMAIN Ordered /\ h \in D
  BY <1>3, OrderSettled DEF Lists
<1>5. p # h => Before(h, p)
  <2>1. PICK i \in 1 .. Cardinality(D) : Ordered[i] = p
    BY <1>2, <1>3, OrderSettled, ListsAll
  <2>2. p # h => 1 < i
    BY <1>3, <2>1
  <2>3. QED
    BY <1>4, <2>1, <2>2, OrderSettled
<1>6. /\ BucketRank[BucketOf(h)] \in Int /\ ScoreOf(h) \in Int /\ -ScoreOf(h) \in Int
      /\ BucketRank[BucketOf(p)] \in Int /\ ScoreOf(p) \in Int /\ -ScoreOf(p) \in Int
  BY <1>2, <1>4, KeyTypes
<1>7. BucketOf(p) = "ready" /\ BucketRank[BucketOf(p)] = 0
  BY <1>2 DEF InBucket, BucketRank
<1>8. p # h => \/ BucketRank[BucketOf(h)] < 0
               \/ BucketRank[BucketOf(h)] = 0 /\ -ScoreOf(h) <= -ScoreOf(p)
  <2>1. p # h =>
          \/ BucketRank[BucketOf(h)] < BucketRank[BucketOf(p)]
          \/ /\ BucketRank[BucketOf(h)] = BucketRank[BucketOf(p)]
             /\ -ScoreOf(h) < -ScoreOf(p) \/ -ScoreOf(h) = -ScoreOf(p)
    BY <1>5, LessOfFour DEF Before, SortKey
  <2>2. QED
    BY <1>6, <1>7, <2>1
<1>9. /\ BucketOf(h) \in {"ready", "waiting", "timed_out", "closed"}
      /\ BucketRank[BucketOf(h)] >= 0
      /\ BucketRank[BucketOf(h)] = 0 => BucketOf(h) = "ready"
  BY DEF BucketOf, Bucket, BucketRank
<1>10. p # h => h \in G /\ -ScoreOf(h) <= -ScoreOf(p)
  BY <1>4, <1>6, <1>8, <1>9 DEF InBucket
<1>11. p # h => -ScoreOf(p) <= -ScoreOf(h)
  <2>1. p # h => Less(ReadyKey(p), ReadyKey(h))
    BY <1>2, <1>10
  <2>2. p # h => -ScoreOf(p) < -ScoreOf(h) \/ -ScoreOf(p) = -ScoreOf(h)
    BY <2>1, LessOfThree DEF ReadyKey
  <2>3. QED
    BY <1>6, <2>2
<1>12. ScoreOf(p) = ScoreOf(h)
  BY <1>6, <1>10, <1>11
<1>13. Cardinality(NextReady) = 1
  BY <1>1, FS_Singleton
<1>14. QED
  BY <1>1, <1>12, <1>13

\* In every report the queue has the one order that its keys settle, whatever
\* the sort does with equal elements, and the packet named next is as urgent as
\* the head, although it is found by keys of its own.
THEOREM OrderIsDeterministicCorrect ==
  Spec => []OrderIsDeterministic
<1>1. ASSUME IInv, failure = "none" PROVE OrderIsDeterministic
  BY <1>1, OrderSettled, HeadIsUrgent DEF OrderIsDeterministic
<1>2. IInv => OrderIsDeterministic
  BY <1>1 DEF OrderIsDeterministic
<1>3. QED
  BY <1>2, InvAlways, PTL

\* How far the epochs of a scenario may lie apart before a score can wrap: the
\* weight of the most urgent priority, what a timeout adds, and three times the span.
ScoresFit == 105 + 3 * (MaxEpoch - StartEpoch) <= EpochLimit

\* The two weights of a packet whose deadline has not wrapped, and their score.
LEMMA ScoreValue ==
  ASSUME IInv, failure = "none", ScoresFit, NEW p \in DOMAIN records,
         0 <= records[p].timeout_epoch
  PROVE  LET r      == records[p]
             age    == 2 * (epoch - r.observed_epoch)
             urgent == IF epoch >= r.timeout_epoch THEN 25 + (epoch - r.timeout_epoch)
                       ELSE IF r.timeout_epoch - epoch <= 2 THEN 10 ELSE 0
         IN  /\ ScoreOf(p) = PriorityWeight[r.priority] + age + urgent
             /\ PriorityWeight[r.priority] \in {10, 20, 40, 80}
             /\ r.observed_epoch \in Int /\ r.timeout_epoch \in Int /\ epoch \in Int
<1> DEFINE r      == records[p]
           w      == PriorityWeight[r.priority]
           age    == 2 * (epoch - r.observed_epoch)
           past   == 25 + (epoch - r.timeout_epoch)
           urgent == IF epoch >= r.timeout_epoch THEN past
                     ELSE IF r.timeout_epoch - epoch <= 2 THEN 10 ELSE 0
<1>1. /\ r \in Record /\ PlanesOf(r, epoch) /\ r.observed_epoch <= epoch
      /\ r.observed_epoch \in Int /\ r.timeout_epoch \in Int /\ epoch \in Nat
  BY RecordFacts
<1>2. w \in {10, 20, 40, 80}
  <2>1. r.priority \in DOMAIN PriorityWeight
    BY <1>1, QueueAssumption DEF Record
  <2>2. QED
    BY <2>1 DEF PriorityWeight
<1>3. StartEpoch <= r.observed_epoch /\ epoch <= MaxEpoch
  BY <1>1, EpochTypes DEF IInv, TypeOK
<1>4. r.observed_epoch < r.timeout_epoch
  BY <1>1 DEF PlanesOf, DeadlineAfter
<1>5. StartEpoch \in Nat /\ MaxEpoch \in Nat /\ EpochLimit \in Nat
      /\ 105 + 3 * (MaxEpoch - StartEpoch) <= EpochLimit
  BY EngineAssumption DEF ScoresFit
<1>6. AgeWeight(r, epoch) = age
  BY <1>1, <1>3, <1>5 DEF AgeWeight, Wrapped
<1> HIDE DEF r, w
<1>7. TimeoutWeight(r, epoch) = urgent
  <2>1. CASE epoch >= r.timeout_epoch
    <3>1. /\ epoch - r.timeout_epoch <= EpochLimit /\ past <= EpochLimit
          /\ past \in Int /\ epoch - r.timeout_epoch \in Int
      BY <1>1, <1>3, <1>4, <1>5, <2>1
    <3>2. Wrapped(epoch - r.timeout_epoch) = epoch - r.timeout_epoch
      BY <1>5, <3>1 DEF Wrapped
    <3>3. Wrapped(past) = past
      BY <1>5, <3>1 DEF Wrapped
    <3>4. QED
      BY <2>1, <3>2, <3>3 DEF TimeoutWeight
  <2>2. CASE ~(epoch >= r.timeout_epoch)
    BY <2>2 DEF TimeoutWeight
  <2>3. QED
    BY <2>1, <2>2
<1>8. /\ age \in Nat /\ age <= 2 * (MaxEpoch - StartEpoch)
      /\ urgent \in Nat /\ urgent <= 25 + (MaxEpoch - StartEpoch)
  BY <1>1, <1>3, <1>4, <1>5
<1> HIDE DEF age, urgent
<1>9. Wrapped(w + age) = w + age /\ Wrapped((w + age) + urgent) = (w + age) + urgent
  BY <1>2, <1>5, <1>8 DEF Wrapped
<1>10. ScoreOf(p) = w + age + urgent
  BY <1>6, <1>7, <1>9 DEF ScoreOf, Score, w, r
<1>11. QED
  BY <1>1, <1>2, <1>10 DEF age, urgent, w, r

LEMMA OlderFirst ==
  ASSUME IInv, ScoresFit
  PROVE  OlderGoesFirst
<1> SUFFICES ASSUME failure = "none", NEW p \in DOMAIN records, NEW q \in DOMAIN records,
                    BucketOf(p) = BucketOf(q), records[p].priority = records[q].priority,
                    records[p].observed_epoch < records[q].observed_epoch,
                    0 <= records[p].timeout_epoch,
                    records[p].timeout_epoch <= records[q].timeout_epoch,
                    epoch >= records[q].observed_epoch
             PROVE  Before(p, q)
  BY DEF OlderGoesFirst
<1> DEFINE Urgent(r) == IF epoch >= r.timeout_epoch THEN 25 + (epoch - r.timeout_epoch)
                        ELSE IF r.timeout_epoch - epoch <= 2 THEN 10 ELSE 0
<1>1. /\ records[p].observed_epoch \in Int /\ records[p].timeout_epoch \in Int
      /\ records[q].observed_epoch \in Int /\ records[q].timeout_epoch \in Int
      /\ epoch \in Int /\ 0 <= records[q].timeout_epoch
  BY RecordFacts
<1>2. /\ ScoreOf(p) = PriorityWeight[records[p].priority]
                        + 2 * (epoch - records[p].observed_epoch) + Urgent(records[p])
      /\ ScoreOf(q) = PriorityWeight[records[q].priority]
                        + 2 * (epoch - records[q].observed_epoch) + Urgent(records[q])
      /\ PriorityWeight[records[p].priority] \in Int
  BY <1>1, ScoreValue
<1>3. Urgent(records[q]) <= Urgent(records[p])
      /\ Urgent(records[p]) \in Int /\ Urgent(records[q]) \in Int
  BY <1>1
<1> HIDE DEF Urgent
<1>4. ScoreOf(q) < ScoreOf(p) /\ ScoreOf(p) \in Int /\ ScoreOf(q) \in Int
  BY <1>1, <1>2, <1>3
<1>5. /\ 2 \in DOMAIN SortKey(p) /\ SortKey(p)[2] < SortKey(q)[2]
      /\ \A j \in 1 .. 2 - 1 : SortKey(p)[j] = SortKey(q)[j]
  <2>1. SortKey(p)[2] = -ScoreOf(p) /\ SortKey(q)[2] = -ScoreOf(q)
    BY DEF SortKey
  <2>2. SortKey(p)[1] = SortKey(q)[1] /\ 2 \in DOMAIN SortKey(p)
    BY DEF SortKey
  <2>3. QED
    BY <1>4, <2>1, <2>2
<1>6. QED
  BY <1>5 DEF Before, Less

\* Of two packets of one priority in one bucket, the one that has waited longer
\* and expires no later comes first, as long as no score can wrap.
THEOREM OlderFirstCorrect ==
  ASSUME ScoresFit
  PROVE  Spec => []OlderGoesFirst
<1>1. IInv => OlderGoesFirst
  BY OlderFirst
<1>2. QED
  BY <1>1, InvAlways, PTL

-----------------------------------------------------------------------------
(* The log follows the receipts.                                           *)

\* A call that returns appends one event, of the packet whose record it wrote.
LEMMA TracedStep ==
  ASSUME IInv, Next, failure' = "none"
  PROVE  /\ IsPrefix(events, events')
         /\ \A p \in DOMAIN records' :
              (p \in DOMAIN records => ReceiptOf(records'[p]) # ReceiptOf(records[p])) =>
                Len(events') = Len(events) + 1 /\ Last(events').packet = p
<1>1. Effect
  BY NextCompletes DEF Completes
<1>2. events \in Seq(EventType)
  BY DEF IInv, TypeOK, EventType
<1>3. ASSUME NEW kind, NEW packet, Logs(kind, packet)
      PROVE  /\ IsPrefix(events, events') /\ Len(events') = Len(events) + 1
             /\ Last(events').packet = packet
  <2>1. PICK ev \in EventType : ev.packet = packet /\ events' = Append(events, ev)
    BY <1>3 DEF Logs
  <2>2. /\ Len(events') = Len(events) + 1 /\ events'[Len(events) + 1] = ev
        /\ \A n \in 1 .. Len(events) : events'[n] = events[n]
        /\ events' \in Seq(EventType)
    BY <1>2, <2>1
  <2>3. SubSeq(events, 1, Len(events)) = SubSeq(events', 1, Len(events))
    BY <1>2, <2>2
  <2>4. QED
    BY <1>2, <2>1, <2>2, <2>3 DEF IsPrefix, Last
<1>4. CASE Quiet
  <2>1. PICK kind \in {"lane_registered", "epoch_advanced", "snapshot"} : Logs(kind, "system")
    BY <1>4 DEF Quiet
  <2>2. records' = records
    BY <1>4 DEF Quiet
  <2>3. QED
    BY <1>3, <2>1, <2>2
<1>5. ASSUME NEW h \in DOMAIN Seed, Seeds(h)
      PROVE  IsPrefix(events, events') /\ records' = records
  BY <1>3, <1>5 DEF Seeds
<1>6. ASSUME NEW q \in Packets, NEW r \in Record, PacketEffect(q, r)
      PROVE  /\ IsPrefix(events, events') /\ Len(events') = Len(events) + 1
             /\ Last(events').packet = q /\ records' = Put(records, q, r)
  <2>1. records' = Put(records, q, r) /\ \E kind \in EventKinds : Logs(kind, q)
    BY <1>6 DEF PacketEffect, Opens, Reopens, Releases, Repeats, Settles, EventKinds
  <2>2. QED
    BY <1>3, <2>1
<1>7. ASSUME NEW q \in Packets, NEW r \in Record, PacketEffect(q, r),
             NEW p \in DOMAIN records',
             p \in DOMAIN records => ReceiptOf(records'[p]) # ReceiptOf(records[p])
      PROVE  p = q
  <2>1. records' = Put(records, q, r)
    BY <1>6, <1>7
  <2>2. QED
    BY <1>7, <2>1 DEF Put
<1>8. QED
  BY <1>1, <1>4, <1>5, <1>6, <1>7 DEF Effect

\* Whatever changes a receipt leaves an event of that packet at the end of the
\* log, and no call rewrites an event.
THEOREM ChangesTracedCorrect ==
  Spec => ChangesAreTraced
<1>1. IInv /\ [Next]_vars =>
        [failure' = "none" =>
           /\ IsPrefix(events, events')
           /\ \A p \in DOMAIN records' :
                (p \in DOMAIN records => ReceiptOf(records'[p]) # ReceiptOf(records[p])) =>
                  Len(events') = Len(events) + 1 /\ Last(events').packet = p]_vars
  BY TracedStep
<1>2. QED
  BY <1>1, InvAlways, PTL DEF Spec, ChangesAreTraced

-----------------------------------------------------------------------------
(* The counters of the blocks.                                             *)

LEMMA CountsEqual ==
  ASSUME IInv
  PROVE  CountsAgree
<1> SUFFICES ASSUME failure = "none"
             PROVE  /\ Audit.open_observed = Summary.packets_open
                    /\ Audit.closed_records = Cardinality(InBucket("closed"))
                    /\ Audit.open_confirmed = Cardinality(Pending)
                    /\ Summary.packets_open + Summary.packets_cancelled
                          + Summary.packets_settled
                         = Cardinality(DOMAIN records) + Cardinality(PaidAfterRelease)
                    /\ \A found \in Audit.findings : found[1] = "zero_net_settlement"
  BY DEF CountsAgree
<1> DEFINE O == {p \in DOMAIN records : records[p].observed_status = "open"}
           C == {p \in DOMAIN records : records[p].observed_status = "cancelled"}
           S == Settled(records)
<1>1. /\ S = InBucket("closed")
      /\ {p \in DOMAIN records : records[p].confirmed_status = "prepared"} = Pending
  BY BucketMeans, RecordFacts DEF Settled, IsSettled, InBucket, Pending
<1>2. /\ O \cap C = {} /\ (O \cup C) \cup S = DOMAIN records
      /\ (O \cup C) \cap S = PaidAfterRelease
  <2>1. \A p \in DOMAIN records :
          /\ records[p].observed_status \in {"open", "cancelled", "consumed"}
          /\ IsSettled(records[p]) => records[p].observed_status # "open"
          /\ records[p].observed_status = "consumed" => IsSettled(records[p])
    BY RecordFacts DEF PlanesOf
  <2>2. QED
    BY <2>1 DEF Settled, PaidAfterRelease
<1>3. IsFiniteSet(O) /\ IsFiniteSet(C) /\ IsFiniteSet(S)
  BY RecordFacts DEF Settled
<1> HIDE DEF O, C, S
<1>4. Cardinality(O) + Cardinality(C) + Cardinality(S)
        = Cardinality(DOMAIN records) + Cardinality(PaidAfterRelease)
  <2>1. /\ Cardinality(O \cup C) = Cardinality(O) + Cardinality(C) - Cardinality(O \cap C)
        /\ IsFiniteSet(O \cup C)
    BY <1>3, FS_Union
  <2>2. Cardinality((O \cup C) \cup S)
          = Cardinality(O \cup C) + Cardinality(S) - Cardinality((O \cup C) \cap S)
    BY <1>3, <2>1, FS_Union
  <2>3. IsFiniteSet(PaidAfterRelease) /\ IsFiniteSet(DOMAIN records)
    BY RecordFacts DEF PaidAfterRelease, Settled
  <2>4. /\ Cardinality(O) \in Nat /\ Cardinality(C) \in Nat /\ Cardinality(S) \in Nat
        /\ Cardinality(O \cup C) \in Nat /\ Cardinality(DOMAIN records) \in Nat
        /\ Cardinality(PaidAfterRelease) \in Nat
    BY <1>3, <2>1, <2>3, FS_CardinalityType
  <2>5. Cardinality(O \cap C) = 0
    BY <1>2, FS_EmptySet
  <2>6. /\ Cardinality((O \cup C) \cup S) = Cardinality(DOMAIN records)
        /\ Cardinality((O \cup C) \cap S) = Cardinality(PaidAfterRelease)
    BY <1>2
  <2>7. QED
    BY <2>1, <2>2, <2>4, <2>5, <2>6
<1>5. ASSUME NEW found \in Audit.findings
      PROVE  found[1] = "zero_net_settlement"
  <2>1. \A h \in Holders : \A f \in {"available", "observed_locked", "confirmed_locked"} :
          ~(ledger[h][f] < 0)
    <3>1. \A h \in Holders, f \in Planes : ledger[h][f] \in Nat
      BY AmountTypes DEF IInv
    <3>2. \A h \in Holders : \A f \in {"available", "observed_locked", "confirmed_locked"} :
            ledger[h][f] \in Nat
      BY <3>1 DEF Planes
    <3>3. QED
      BY <3>2
  <2>2. \A p \in Settled(records) : records[p].observed_status # "open"
    BY RecordFacts DEF Settled, PlanesOf
  <2>3. QED
    BY <2>1, <2>2 DEF Audit
<1>6. QED
  BY <1>1, <1>4, <1>5 DEF Audit, Summary, O, C, S

\* Summary, audit and queue, which count apart, agree at any moment.
THEOREM CountsCorrect ==
  Spec => []CountsAgree
BY InvAlways, CountsEqual, PTL

-----------------------------------------------------------------------------
(* One asset over all accounts.                                            *)

HoldersOf(a) == {h \in Holders : h[2] = a}

\* Whatever holder a record names for its asset is one of that asset.
LEMMA AssetKeys ==
  ASSUME IInv, failure = "none", NEW a
  PROVE  /\ IsFiniteSet(HoldersOf(a)) /\ HoldersOf(a) \in SUBSET Holders
         /\ \A p \in InAsset(a) :
              /\ Holder(records[p]) \in HoldersOf(a)
              /\ <<records[p].recipient, records[p].asset>> \in HoldersOf(a)
              /\ <<records[p].operator_account, records[p].asset>> \in HoldersOf(a)
         /\ \A p \in DOMAIN records :
              /\ Holder(records[p]) \in HoldersOf(a) => p \in InAsset(a)
              /\ <<records[p].recipient, records[p].asset>> \in HoldersOf(a)
                   => p \in InAsset(a)
              /\ <<records[p].operator_account, records[p].asset>> \in HoldersOf(a)
                   => p \in InAsset(a)
<1>1. IsFiniteSet(HoldersOf(a)) /\ HoldersOf(a) \in SUBSET Holders
  BY SeededProps, FS_Subset DEF IInv, HoldersOf
<1>2. \A p \in DOMAIN records : records[p] \in Record
  BY RecordFacts
<1>3. QED
  BY <1>1, <1>2 DEF Record, Holder, Holders, HoldersOf, InAsset

\* An asset's reserves are the gross of its open and of its prepared packets.
LEMMA AssetReserves ==
  ASSUME IInv, failure = "none", NEW a
  PROVE  /\ AssetTotal(a, "observed_locked") = GrossOf(Open \cap InAsset(a))
         /\ AssetTotal(a, "confirmed_locked") = GrossOf(Prepared \cap InAsset(a))
         /\ AssetTotal(a, "available") \in Nat
<1>1. HoldersOf(a) \in SUBSET Holders /\ IsFiniteSet(HoldersOf(a))
  BY AssetKeys
<1>2. Of(HoldersOf(a)) = InAsset(a)
  BY AssetKeys DEF Of, InAsset
<1>3. \A h \in HoldersOf(a) : [x \in HoldersOf(a) |-> ledger[x]["available"]][h] \in Nat
  BY <1>1, AmountTypes DEF IInv, Planes
<1>4. Total(HoldersOf(a), [x \in HoldersOf(a) |-> ledger[x]["available"]]) \in Nat
  BY <1>1, <1>3, TotalType
<1>5. \A f : AssetTotal(a, f) = Total(HoldersOf(a), [x \in HoldersOf(a) |-> ledger[x][f]])
  BY DEF AssetTotal, HoldersOf
<1>6. QED
  BY <1>1, <1>2, <1>4, <1>5, ReservesOf DEF GrossOf

\* The gross of packets that are told apart adds up.
LEMMA GrossSplit ==
  ASSUME IInv, failure = "none", NEW S \in SUBSET DOMAIN records,
         NEW T \in SUBSET DOMAIN records, S \cap T = {}
  PROVE  /\ GrossOf(S \cup T) = GrossOf(S) + GrossOf(T)
         /\ GrossOf(S) \in Nat /\ GrossOf(T) \in Nat
<1>1. /\ IsFiniteSet(S) /\ \A p \in S : Grosses(records)[p] \in Nat
      /\ IsFiniteSet(T) /\ \A p \in T : Grosses(records)[p] \in Nat
  BY RecordFacts
<1>2. \A p \in S \cup T : Grosses(records)[p] \in Nat
  BY <1>1
<1>3. QED
  BY <1>1, <1>2, TotalUnion, TotalType DEF GrossOf

LEMMA ExposureEqual ==
  ASSUME IInv
  PROVE  ExposureExplained
<1> SUFFICES ASSUME failure = "none", NEW a \in Assets
             PROVE  /\ TimeoutExposure(a) = GrossOf(InAsset(a) \cap InBucket("timed_out"))
                                              + GrossOf(InAsset(a) \cap PaidAfterRelease)
                    /\ TimeoutExposure(a) - GrossOf(InAsset(a) \cap PaidAfterRelease)
                         <= AssetTotal(a, "confirmed_locked")
  BY DEF ExposureExplained
<1> DEFINE late == InAsset(a) \cap InBucket("timed_out")
           past == InAsset(a) \cap PaidAfterRelease
           held == Prepared \cap InAsset(a)
<1>1. \A p \in DOMAIN records :
        /\ BucketOf(p) = "timed_out" <=>
             /\ records[p].confirmed_status = "prepared"
             /\ records[p].observed_status = "cancelled" \/ epoch >= records[p].timeout_epoch
        /\ IsSettled(records[p]) <=> ~(records[p].confirmed_status = "prepared")
        /\ records[p].observed_status = "open" => records[p].confirmed_status = "prepared"
        /\ records[p].confirmed_status = "prepared" =>
             records[p].observed_status \in {"open", "cancelled"}
  BY BucketMeans, RecordFacts DEF IsSettled
<1>2. /\ {p \in InAsset(a) : Exposed(p)} = late \cup past
      /\ late \cap past = {} /\ late \subseteq held
  BY <1>1 DEF Exposed, InAsset, InBucket, PaidAfterRelease, Settled, Prepared
<1>3. late \in SUBSET DOMAIN records /\ past \in SUBSET DOMAIN records
      /\ held \in SUBSET DOMAIN records
  BY DEF InAsset
<1> HIDE DEF late, past, held
<1>4. /\ GrossOf(late \cup past) = GrossOf(late) + GrossOf(past)
      /\ GrossOf(late) \in Nat /\ GrossOf(past) \in Nat
  BY <1>2, <1>3, GrossSplit
<1>5. GrossOf(late) <= GrossOf(held)
  <2>1. IsFiniteSet(held) /\ \A p \in held : Grosses(records)[p] \in Nat
    BY <1>3, RecordFacts
  <2>2. late \in SUBSET held
    BY <1>2
  <2>3. QED
    BY <2>1, <2>2, TotalMonotone DEF GrossOf
<1>6. AssetTotal(a, "confirmed_locked") = GrossOf(held)
  BY AssetReserves DEF held
<1>7. TimeoutExposure(a) = GrossOf(late) + GrossOf(past)
  BY <1>2, <1>4 DEF TimeoutExposure, GrossOf
<1>8. QED
  BY <1>4, <1>5, <1>6, <1>7, <1>3 DEF late, past

\* The exposure of the capital model is the queue's timed-out amount and what was
\* settled after a cancellation, and only the latter is not backed by a commitment.
THEOREM ExposureCorrect ==
  Spec => []ExposureExplained
BY InvAlways, ExposureEqual, PTL

\* The accounts of one asset together: what is spendable, and what was debited,
\* declared, paid and served, each summed over the records instead.
LEMMA AssetBooks ==
  ASSUME BooksInv, failure = "none", NEW a
  PROVE  AssetTotal(a, "available") + GrossOf(InAsset(a) \cap Debited)
           = Total({h \in seeded : h[2] = a}, Seed)
               + Total(InAsset(a) \cap Settled(records), Nets(records))
               + Total(InAsset(a) \cap Settled(records), Fees(records))
<1> DEFINE H    == HoldersOf(a)
           D    == InAsset(a) \cap Debited
           S    == InAsset(a) \cap Settled(records)
           from == [p \in DOMAIN records |-> Holder(records[p])]
           to   == [p \in DOMAIN records |-> <<records[p].recipient, records[p].asset>>]
           by   == [p \in DOMAIN records |-> <<records[p].operator_account, records[p].asset>>]
           avail == [h \in H |-> ledger[h]["available"]]
           deb   == [h \in H |-> Total(DebitedFrom(records, h), Grosses(records))]
           paid  == [h \in H |-> Total(PaidTo(records, h), Nets(records))]
           serve == [h \in H |-> Total(ServedBy(records, h), Fees(records))]
           decl  == [h \in H |-> SeedOf(h)]
           left  == [h \in H |-> avail[h] + deb[h]]
           in    == [h \in H |-> decl[h] + paid[h]]
<1>1. /\ IInv /\ IsFiniteSet(H) /\ H \in SUBSET Holders
      /\ \A p \in DOMAIN records :
           /\ from[p] \in H <=> p \in InAsset(a)
           /\ to[p] \in H <=> p \in InAsset(a)
           /\ by[p] \in H <=> p \in InAsset(a)
  BY AssetKeys DEF BooksInv
<1>2. /\ IsFiniteSet(D) /\ \A p \in D : Grosses(records)[p] \in Nat
      /\ IsFiniteSet(S) /\ \A p \in S : Nets(records)[p] \in Nat /\ Fees(records)[p] \in Nat
  <2>1. D \in SUBSET DOMAIN records /\ S \in SUBSET DOMAIN records
    BY DEF InAsset
  <2>2. QED
    BY <1>1, <2>1, TableProps DEF IInv, TypeOK
<1>3. /\ \A h \in H : DebitedFrom(records, h) = Class(D, from, h)
      /\ \A h \in H : PaidTo(records, h) = Class(S, to, h)
      /\ \A h \in H : ServedBy(records, h) = Class(S, by, h)
  BY <1>1 DEF DebitedFrom, PaidTo, ServedBy, Class, Debited, Settled, InAsset
<1>4. /\ \A p \in D : from[p] \in H
      /\ \A p \in S : to[p] \in H /\ by[p] \in H
  BY <1>1 DEF InAsset
<1>5. /\ \A h \in H : deb[h] = Total(Class(D, from, h), Grosses(records))
      /\ \A h \in H : paid[h] = Total(Class(S, to, h), Nets(records))
      /\ \A h \in H : serve[h] = Total(Class(S, by, h), Fees(records))
  BY <1>3
<1>6. \A h \in H : /\ avail[h] \in Nat /\ deb[h] \in Nat /\ paid[h] \in Nat
                   /\ serve[h] \in Nat /\ decl[h] \in Nat
  <2>1. \A h \in H : avail[h] \in Nat /\ decl[h] \in Nat
    BY <1>1, AmountTypes DEF IInv, TypeOK, Planes, SeedOf
  <2>2. ASSUME NEW h \in H
        PROVE  deb[h] \in Nat /\ paid[h] \in Nat /\ serve[h] \in Nat
    <3>1. /\ Class(D, from, h) \in SUBSET D /\ Class(S, to, h) \in SUBSET S
          /\ Class(S, by, h) \in SUBSET S
      BY DEF Class
    <3> HIDE DEF deb, paid, serve, D, S, from, to, by
    <3>2. /\ IsFiniteSet(Class(D, from, h)) /\ IsFiniteSet(Class(S, to, h))
          /\ IsFiniteSet(Class(S, by, h))
      BY <1>2, <3>1, FS_Subset
    <3>3. QED
      BY <1>2, <1>5, <3>1, <3>2, TotalType
  <2>3. QED
    BY <2>1, <2>2
<1>7. \A h \in H : left[h] = in[h] + serve[h]
  BY <1>1 DEF BooksInv, AvailableReconciles
<1>8. /\ \A h \in H : left[h] = avail[h] + deb[h]
      /\ \A h \in H : in[h] = decl[h] + paid[h]
      /\ \A h \in H : in[h] \in Nat
  BY <1>6
<1> HIDE DEF deb, paid, serve, decl, left, in, avail, H, D, S, from, to, by
<1>9. /\ Total(H, left) = Total(H, avail) + Total(H, deb)
      /\ Total(H, in) = Total(H, decl) + Total(H, paid)
      /\ Total(H, left) = Total(H, in) + Total(H, serve)
  <2>1. Total(H, left) = Total(H, avail) + Total(H, deb)
    BY <1>1, <1>6, <1>8, TotalPlus
  <2>2. Total(H, in) = Total(H, decl) + Total(H, paid)
    BY <1>1, <1>6, <1>8, TotalPlus
  <2>3. Total(H, left) = Total(H, in) + Total(H, serve)
    BY <1>1, <1>6, <1>7, <1>8, TotalPlus
  <2>4. QED
    BY <2>1, <2>2, <2>3
<1>10. /\ Total(H, deb) = Total(D, Grosses(records))
       /\ Total(H, paid) = Total(S, Nets(records))
       /\ Total(H, serve) = Total(S, Fees(records))
  <2>1. Total(H, deb) = Total(D, Grosses(records))
    BY <1>1, <1>2, <1>4, <1>5, TotalPartition
  <2>2. Total(H, paid) = Total(S, Nets(records))
    BY <1>1, <1>2, <1>4, <1>5, TotalPartition
  <2>3. Total(H, serve) = Total(S, Fees(records))
    BY <1>1, <1>2, <1>4, <1>5, TotalPartition
  <2>4. QED
    BY <2>1, <2>2, <2>3
<1>11. Total(H, decl) = Total({h \in seeded : h[2] = a}, Seed)
  <2> DEFINE Q == {h \in seeded : h[2] = a}
             R == H \ Q
  <2>1. H = Q \cup R /\ Q \cap R = {} /\ Q \subseteq H
    BY <1>1, SeededProps DEF IInv, H, HoldersOf
  <2>2. IsFiniteSet(Q) /\ IsFiniteSet(R) /\ \A h \in Q \cup R : decl[h] \in Nat
    BY <1>1, <1>6, <2>1, FS_Subset
  <2>3. (\A h \in Q : decl[h] = Seed[h]) /\ (\A h \in R : decl[h] = 0)
    BY <2>1 DEF decl, SeedOf, H, HoldersOf
  <2> HIDE DEF Q, R
  <2>4. Total(Q \cup R, decl) = Total(Q, decl) + Total(R, decl)
    BY <2>1, <2>2, TotalUnion
  <2>5. Total(Q, decl) = Total(Q, Seed) /\ Total(R, decl) = 0
    BY <2>3, TotalSame, TotalZero
  <2>6. Total(Q, Seed) \in Nat
    BY <2>2, <2>5, TotalType
  <2>7. QED
    BY <2>1, <2>4, <2>5, <2>6 DEF Q
<1>12. AssetTotal(a, "available") = Total(H, avail)
  BY DEF AssetTotal, H, HoldersOf, avail
<1>13. QED
  BY <1>9, <1>10, <1>11, <1>12 DEF GrossOf, D, S

\* The planes told apart: what was debited and not consumed is open, what was
\* settled was consumed or had gone back, and what is prepared is open or waits.
Released(a) == {p \in InAsset(a) : /\ records[p].observed_status = "cancelled"
                                   /\ records[p].confirmed_status = "prepared"}

LEMMA AssetPlanes ==
  ASSUME BooksInv, failure = "none", NEW a
  PROVE  /\ OperatingBase(a) = Total({h \in seeded : h[2] = a}, Seed)
                                  + GrossOf(InAsset(a) \cap PaidAfterRelease)
         /\ AssetTotal(a, "observed_locked") + GrossOf(Released(a))
              = AssetTotal(a, "confirmed_locked")
         /\ AssetTotal(a, "available") \in Nat /\ AssetTotal(a, "observed_locked") \in Nat
         /\ AssetTotal(a, "confirmed_locked") \in Nat /\ GrossOf(Released(a)) \in Nat
         /\ OperatingBase(a) = AssetTotal(a, "available") + AssetTotal(a, "observed_locked")
<1> DEFINE O == Open \cap InAsset(a)
           C == {p \in InAsset(a) : records[p].observed_status = "consumed"}
           P == InAsset(a) \cap PaidAfterRelease
           S == InAsset(a) \cap Settled(records)
           R == Released(a)
<1>1. IInv
  BY DEF BooksInv
<1>2. /\ InAsset(a) \cap Debited = O \cup C /\ O \cap C = {}
      /\ S = C \cup P /\ C \cap P = {}
      /\ Prepared \cap InAsset(a) = O \cup R /\ O \cap R = {}
  <2>1. \A p \in DOMAIN records :
          /\ records[p].observed_status \in {"open", "cancelled", "consumed"}
          /\ IsSettled(records[p]) <=> ~(records[p].confirmed_status = "prepared")
          /\ IsSettled(records[p]) => records[p].observed_status # "open"
          /\ records[p].observed_status = "consumed" => IsSettled(records[p])
    BY <1>1, RecordFacts DEF PlanesOf, IsSettled
  <2>2. QED
    BY <2>1 DEF Open, Debited, Prepared, InAsset, PaidAfterRelease, Settled, Released
<1>3. /\ O \in SUBSET DOMAIN records /\ C \in SUBSET DOMAIN records
      /\ P \in SUBSET DOMAIN records /\ S \in SUBSET DOMAIN records
      /\ R \in SUBSET DOMAIN records
  BY DEF InAsset, Released
<1>4. GrossOf(S) = Total(S, Nets(records)) + Total(S, Fees(records))
  <2>1. \A p \in DOMAIN records :
          /\ Grosses(records)[p] = Nets(records)[p] + Fees(records)[p]
          /\ Nets(records)[p] \in Nat /\ Fees(records)[p] \in Nat
    BY <1>1, TableProps DEF IInv, TypeOK, AmountsSplit
  <2>2. IsFiniteSet(S)
    BY <1>1, <1>3, RecordFacts
  <2>3. /\ \A p \in S : Nets(records)[p] \in Nat
        /\ \A p \in S : Fees(records)[p] \in Nat
        /\ \A p \in S : Grosses(records)[p] = Nets(records)[p] + Fees(records)[p]
    BY <1>3, <2>1
  <2> HIDE DEF S
  <2>4. QED
    BY <2>2, <2>3, TotalPlus DEF GrossOf
<1> HIDE DEF O, C, P, S, R
<1>5. /\ GrossOf(O \cup C) = GrossOf(O) + GrossOf(C)
      /\ GrossOf(C \cup P) = GrossOf(C) + GrossOf(P)
      /\ GrossOf(O \cup R) = GrossOf(O) + GrossOf(R)
      /\ GrossOf(O) \in Nat /\ GrossOf(C) \in Nat /\ GrossOf(P) \in Nat /\ GrossOf(R) \in Nat
  BY <1>1, <1>2, <1>3, GrossSplit
<1>6. /\ AssetTotal(a, "observed_locked") = GrossOf(O)
      /\ AssetTotal(a, "confirmed_locked") = GrossOf(O) + GrossOf(R)
      /\ AssetTotal(a, "available") \in Nat
  BY <1>1, <1>2, <1>5, AssetReserves DEF O
<1>7. AssetTotal(a, "available") + (GrossOf(O) + GrossOf(C))
        = Total({h \in seeded : h[2] = a}, Seed) + (GrossOf(C) + GrossOf(P))
  <2>1. AssetTotal(a, "available") + GrossOf(O \cup C)
          = Total({h \in seeded : h[2] = a}, Seed)
              + Total(S, Nets(records)) + Total(S, Fees(records))
    BY <1>2, AssetBooks DEF S
  <2>2. GrossOf(S) = GrossOf(C) + GrossOf(P)
    BY <1>2, <1>5
  <2>3. /\ Total({h \in seeded : h[2] = a}, Seed) \in Nat
        /\ Total(S, Nets(records)) \in Nat /\ Total(S, Fees(records)) \in Nat
    <3>1. IsFiniteSet({h \in seeded : h[2] = a})
      BY <1>1, SeededProps, FS_Subset DEF IInv
    <3>2. \A h \in {g \in seeded : g[2] = a} : Seed[h] \in Nat
      BY <1>1, AmountTypes DEF IInv, TypeOK
    <3>3. IsFiniteSet(S) /\ \A p \in S : Nets(records)[p] \in Nat /\ Fees(records)[p] \in Nat
      BY <1>1, <1>3, TableProps DEF IInv, TypeOK
    <3>4. QED
      BY <3>1, <3>2, <3>3, TotalType
  <2>4. QED
    BY <1>4, <1>5, <2>1, <2>2, <2>3
<1>8. Total({h \in seeded : h[2] = a}, Seed) \in Nat
  <2>1. IsFiniteSet({h \in seeded : h[2] = a})
    BY <1>1, SeededProps, FS_Subset DEF IInv
  <2>2. \A h \in {g \in seeded : g[2] = a} : Seed[h] \in Nat
    BY <1>1, AmountTypes DEF IInv, TypeOK
  <2>3. QED
    BY <2>1, <2>2, TotalType
<1>9. QED
  BY <1>5, <1>6, <1>7, <1>8 DEF OperatingBase, P, R

\* An asset's liquidity and observed reserves, over all accounts, are what was
\* declared of it plus the gross of what was settled after a cancellation.
THEOREM BaseCorrect ==
  Spec => []BaseConserved
<1>1. BooksInv => BaseConserved
  BY AssetPlanes DEF BaseConserved
<1>2. QED
  BY <1>1, BooksAlways, PTL

-----------------------------------------------------------------------------
(* Rounding.                                                               *)

LEMMA MinMaxOfTwo ==
  ASSUME NEW x \in Int, NEW y \in Int
  PROVE  /\ Min({x, y}) = IF x <= y THEN x ELSE y
         /\ Max({x, y}) = IF x <= y THEN y ELSE x
<1>1. \E m \in {x, y} : \A z \in {x, y} : m <= z
  OBVIOUS
<1>2. \E m \in {x, y} : \A z \in {x, y} : m >= z
  OBVIOUS
<1>3. Min({x, y}) \in {x, y} /\ \A z \in {x, y} : Min({x, y}) <= z
  BY <1>1 DEF Min
<1>4. Max({x, y}) \in {x, y} /\ \A z \in {x, y} : Max({x, y}) >= z
  BY <1>2 DEF Max
<1>5. QED
  BY <1>3, <1>4

\* A quotient against a bound is a product against a bound.
LEMMA QuotientBelow ==
  ASSUME NEW n \in Nat, NEW d \in Nat \ {0}, NEW b \in Nat
  PROVE  n \div d \in Nat /\ (n \div d < b <=> n < b * d)
<1> DEFINE q == n \div d
<1>1. q \in Int /\ d * q <= n /\ n < d * q + d
  OBVIOUS
<1> HIDE DEF q
<1>2. 0 <= q
  <2>1. ASSUME q <= -1 PROVE FALSE
    <3>1. d * q <= d * (-1)
      BY <1>1, <2>1
    <3>2. QED
      BY <1>1, <3>1
  <2>2. QED
    BY <1>1, <2>1
<1>3. ASSUME q < b PROVE n < b * d
  <2>1. d * (q + 1) <= d * b
    BY <1>1, <1>3
  <2>2. QED
    BY <1>1, <2>1
<1>4. ASSUME b <= q PROVE b * d <= n
  <2>1. d * b <= d * q
    BY <1>1, <1>4
  <2>2. QED
    BY <1>1, <2>1
<1>5. QED
  BY <1>1, <1>2, <1>3, <1>4 DEF q

\* A mantissa, as the assumption has it.
IsMantissa(M) == M \in Nat /\ M > 10000 /\ PowerOfTwo(M)

UnitsIn(M) == Format(M).units

LEMMA Mantissas ==
  IsMantissa(LongMantissa) /\ IsMantissa(DoubleMantissa)
BY MantissaAssumption DEF IsMantissa

\* The quotient and the remainder are the only numbers that make up a dividend.
LEMMA DivMod ==
  ASSUME NEW n \in Nat, NEW d \in Nat \ {0}
  PROVE  /\ n \div d \in Nat /\ n % d \in Nat
         /\ n % d < d /\ n = d * (n \div d) + (n % d)
<1>1. n \div d \in Nat
  BY QuotientBelow
<1>2. QED
  BY <1>1

LEMMA DivUnique ==
  ASSUME NEW d \in Nat \ {0}, NEW q \in Nat, NEW r \in Nat, r < d
  PROVE  (d * q + r) \div d = q /\ (d * q + r) % d = r
<1> DEFINE n == d * q + r
           q2 == n \div d
           r2 == n % d
<1>1. d * q \in Nat /\ n \in Nat
  OBVIOUS
<1>2. q2 \in Nat /\ r2 \in Nat /\ r2 < d /\ n = d * q2 + r2
  BY <1>1, DivMod
<1> HIDE DEF q2, r2
<1>3. ASSUME q2 < q PROVE FALSE
  <2>1. d * (q2 + 1) <= d * q
    BY <1>2, <1>3
  <2>2. d * (q2 + 1) = d * q2 + d
    BY <1>2
  <2>3. d * q2 \in Nat
    BY <1>2
  <2>4. QED
    BY <1>1, <1>2, <2>1, <2>2, <2>3
<1>4. ASSUME q < q2 PROVE FALSE
  <2>1. d * (q + 1) <= d * q2
    BY <1>2, <1>4
  <2>2. d * (q + 1) = d * q + d
    OBVIOUS
  <2>3. d * q2 \in Nat
    BY <1>2
  <2>4. QED
    BY <1>1, <1>2, <2>1, <2>2, <2>3
<1>5. q2 = q
  BY <1>2, <1>3, <1>4
<1>6. r2 = r
  BY <1>1, <1>2, <1>5
<1>7. QED
  BY <1>5, <1>6 DEF q2, r2

\* A unit divides the mantissa, and unless it is one its half is a unit as well.
LEMMA UnitProps ==
  ASSUME NEW M, IsMantissa(M), NEW u \in UnitsIn(M)
  PROVE  /\ u \in Nat \ {0} /\ u <= M
         /\ M \div u \in Nat \ {0} /\ M = u * (M \div u)
         /\ u # 1 => u \div 2 \in UnitsIn(M) /\ u = 2 * (u \div 2)
<1>1. u \in Nat \ {0} /\ u <= M /\ M % u = 0 /\ M \in Nat \ {0}
  BY DEF UnitsIn, Format, IsMantissa
<1> DEFINE k == M \div u
<1>2. k \in Nat /\ M = u * k
  BY <1>1, DivMod
<1> HIDE DEF k
<1>3. k # 0
  BY <1>1, <1>2
<1>4. ASSUME u # 1 PROVE u \div 2 \in UnitsIn(M) /\ u = 2 * (u \div 2)
  <2>1. u % 2 = 0
    <3>1. u \in 2 .. M
      BY <1>1, <1>4
    <3>2. QED
      BY <1>1, <3>1 DEF IsMantissa, PowerOfTwo
  <2> DEFINE h == u \div 2
  <2>2. h \in Nat \ {0} /\ u = 2 * h
    BY <1>1, <2>1
  <2> HIDE DEF h
  <2>3. M = h * (2 * k)
    BY <1>2, <2>2
  <2>4. M % h = 0
    <3>1. 2 * k \in Nat /\ M = h * (2 * k) + 0
      BY <1>1, <1>2, <2>3
    <3>2. QED
      BY <2>2, <3>1, DivUnique
  <2>5. h \in 1 .. M
    BY <1>1, <2>2
  <2>6. QED
    BY <2>2, <2>4, <2>5 DEF UnitsIn, Format, h
<1>5. QED
  BY <1>1, <1>2, <1>3, <1>4 DEF k

\* There is a least unit that divides n to less than m, when the mantissa does.
LEMMA ScaleProps ==
  ASSUME NEW M, IsMantissa(M), NEW n \in Nat, NEW m \in Nat \ {0}, n < m * M
  PROVE  LET s == Scale(n, m, Format(M))
         IN  /\ s \in UnitsIn(M) /\ n < m * s
             /\ s = 1 \/ m * (s \div 2) <= n
<1> DEFINE Few == {u \in UnitsIn(M) : n \div u < m}
<1>1. Few \subseteq Nat
  BY UnitProps
<1>2. M \in Few
  <2>1. M \in Nat \ {0}
    BY DEF IsMantissa
  <2>2. M % M = 0
    <3>1. M = M * 1 + 0
      BY <2>1
    <3>2. QED
      BY <2>1, <3>1, DivUnique
  <2>3. n \div M < m
    BY <2>1, QuotientBelow
  <2>4. QED
    BY <2>1, <2>2, <2>3 DEF UnitsIn, Format
<1>3. PICK u \in Few : \A x \in Few : u <= x
  <2>1. Few # {}
    BY <1>2
  <2> HIDE DEF Few
  <2>2. QED
    BY <1>1, <2>1, LeastNatural
<1>4. u = 1 \/ n \div (u \div 2) >= m
  <2>1. ASSUME u # 1 PROVE ~(n \div (u \div 2) < m)
    <3> DEFINE h == u \div 2
    <3>1. h \in UnitsIn(M) /\ u = 2 * h /\ u \in Nat \ {0}
      BY <2>1, UnitProps
    <3>2. h < u
      <4>1. h \in Nat \ {0}
        BY <3>1, UnitProps
      <4>2. QED
        BY <3>1, <4>1
    <3>3. h \in Nat
      BY <3>1, UnitProps
    <3>4. h \notin Few
      BY <1>1, <1>3, <3>1, <3>2, <3>3
    <3>5. QED
      BY <3>1, <3>4
  <2>2. u # 1 => n \div (u \div 2) \in Nat
    <3>1. SUFFICES ASSUME u # 1 PROVE n \div (u \div 2) \in Nat
      OBVIOUS
    <3>2. u \div 2 \in Nat \ {0}
      BY <3>1, UnitProps
    <3>3. QED
      BY <3>2, QuotientBelow
  <2>3. QED
    BY <2>1, <2>2
<1> DEFINE s == Scale(n, m, Format(M))
<1>5. s \in UnitsIn(M) /\ n \div s < m /\ (s = 1 \/ n \div (s \div 2) >= m)
  <2>1. \E x \in UnitsIn(M) : n \div x < m /\ (x = 1 \/ n \div (x \div 2) >= m)
    BY <1>3, <1>4
  <2>2. s = CHOOSE x \in UnitsIn(M) : n \div x < m /\ (x = 1 \/ n \div (x \div 2) >= m)
    BY DEF Scale, UnitsIn
  <2> HIDE DEF s
  <2>3. QED
    BY <2>1, <2>2
<1> HIDE DEF s
<1>6. n < m * s
  <2>1. s \in Nat \ {0}
    BY <1>5, UnitProps
  <2>2. QED
    BY <1>5, <2>1, QuotientBelow
<1>7. ASSUME s # 1 PROVE m * (s \div 2) <= n
  <2> DEFINE h == s \div 2
  <2>1. h \in Nat \ {0}
    BY <1>5, <1>7, UnitProps
  <2>2. ~(n \div h < m)
    BY <1>5, <1>7, <2>1, QuotientBelow
  <2> HIDE DEF h
  <2>3. ~(n < m * h)
    BY <2>1, <2>2, QuotientBelow
  <2>4. m * h \in Nat
    BY <2>1
  <2>5. QED
    BY <2>3, <2>4 DEF h
<1>8. QED
  BY <1>5, <1>6, <1>7 DEF s

\* What is less already is not divided.
LEMMA ScaleOfLess ==
  ASSUME NEW M, IsMantissa(M), NEW n \in Nat, NEW m \in Nat \ {0}, n < m
  PROVE  Scale(n, m, Format(M)) = 1
<1> DEFINE s == Scale(n, m, Format(M))
<1>1. M \in Nat /\ m * 1 <= m * M
  BY DEF IsMantissa
<1>2. s \in UnitsIn(M) /\ (s = 1 \/ m * (s \div 2) <= n)
  BY <1>1, ScaleProps
<1> HIDE DEF s
<1>3. ASSUME s # 1 PROVE FALSE
  <2> DEFINE h == s \div 2
  <2>1. h \in Nat \ {0}
    BY <1>2, <1>3, UnitProps
  <2>2. m * h <= n
    BY <1>2, <1>3
  <2> HIDE DEF h
  <2>3. m * 1 <= m * h
    BY <2>1
  <2>4. m * h \in Nat
    BY <2>1
  <2>5. QED
    BY <2>2, <2>3, <2>4
<1>4. QED
  BY <1>3 DEF s

\* The nearest integer is off by a half at most.
LEMMA NearestProps ==
  ASSUME NEW x \in Nat, NEW b \in Nat \ {0}
  PROVE  /\ Nearest(x, b) \in Nat
         /\ 2 * (b * Nearest(x, b)) <= 2 * x + b
         /\ 2 * x <= 2 * (b * Nearest(x, b)) + b
         /\ x \div b <= Nearest(x, b)
         /\ x % b = 0 => Nearest(x, b) = x \div b
<1> DEFINE q == x \div b
           r == x % b
<1>1. q \in Nat /\ r \in Nat /\ r < b /\ x = b * q + r
  BY DivMod
<1>2. Nearest(x, b) = IF 2 * r < b \/ (2 * r = b /\ q % 2 = 0) THEN q ELSE q + 1
  BY DEF Nearest
<1> HIDE DEF q, r
<1>3. CASE Nearest(x, b) = q /\ 2 * r <= b
  BY <1>1, <1>3 DEF q
<1>4. CASE Nearest(x, b) = q + 1 /\ b <= 2 * r
  <2>1. b * (q + 1) = b * q + b /\ b * q \in Nat
    BY <1>1
  <2> DEFINE bq == b * q
  <2> HIDE DEF bq
  <2>2. b * Nearest(x, b) = bq + b /\ x = bq + r /\ bq \in Nat
    BY <1>1, <1>4, <2>1 DEF bq
  <2>3. Nearest(x, b) \in Nat /\ q <= Nearest(x, b) /\ r # 0
    BY <1>1, <1>4
  <2>4. QED
    BY <1>1, <1>4, <2>2, <2>3 DEF q, r
<1>5. QED
  BY <1>1, <1>2, <1>3, <1>4


\* An amount up to the mantissa is a number of the format, and no other is rounded
\* by more than its part in the mantissa.
LEMMA RoundedProps ==
  ASSUME NEW M, IsMantissa(M), NEW n \in Nat, n < M * M
  PROVE  LET R == Rounded(n, Format(M))
         IN  /\ R \in Nat
             /\ n <= M => R = n
             /\ M * R <= M * n + n /\ M * n <= M * R + n
<1> DEFINE F == Format(M)
           u == Scale(n, M, F)
           R == Rounded(n, F)
<1>1. M \in Nat \ {0}
  BY DEF IsMantissa
<1>2. u \in UnitsIn(M) /\ (u = 1 \/ M * (u \div 2) <= n)
  BY <1>1, ScaleProps
<1>3. R = u * Nearest(n, u)
  BY DEF Rounded, Unit, Format
<1>4. u \in Nat \ {0} /\ M = u * (M \div u) /\ (u # 1 => u \div 2 \in UnitsIn(M) /\ u = 2 * (u \div 2))
  BY <1>2, UnitProps
<1> HIDE DEF F, u, R
<1>5. CASE u = 1
  <2>1. n \div 1 = n /\ n % 1 = 0
    OBVIOUS
  <2>2. Nearest(n, 1) = n
    BY <2>1, NearestProps
  <2>3. R = n
    BY <1>3, <1>5, <2>2
  <2>4. QED
    BY <1>1, <2>3 DEF F, R
<1>6. CASE u # 1
  <2> DEFINE h == u \div 2
             k == Nearest(n, u)
  <2>1. h \in Nat \ {0} /\ u = 2 * h /\ M * h <= n
    <3>1. u \div 2 \in Nat \ {0}
      BY <1>4, <1>6, UnitProps
    <3>2. QED
      BY <1>2, <1>4, <1>6, <3>1
  <2>2. /\ k \in Nat /\ 2 * (u * k) <= 2 * n + u /\ 2 * n <= 2 * (u * k) + u
        /\ n % u = 0 => k = n \div u
    BY <1>4, NearestProps
  <2> HIDE DEF h, k
  <2>3. R = u * k /\ R \in Nat
    BY <1>3, <1>4, <2>2 DEF k
  <2>4. R <= n + h /\ n <= R + h
    BY <2>1, <2>2, <2>3
  <2>5. M * R <= M * n + n /\ M * n <= M * R + n
    <3>1. M * R <= M * (n + h) /\ M * n <= M * (R + h)
      BY <1>1, <2>1, <2>3, <2>4
    <3>2. M * (n + h) = M * n + M * h /\ M * (R + h) = M * R + M * h
      BY <1>1, <2>1, <2>3
    <3>3. M * h \in Nat /\ M * n \in Nat /\ M * R \in Nat
      BY <1>1, <2>1, <2>3
    <3>4. QED
      BY <2>1, <3>1, <3>2, <3>3
  <2>6. ASSUME n <= M PROVE R = n
    <3>1. h = 1
      <4>1. ASSUME 2 <= h PROVE FALSE
        <5>1. M * 2 <= M * h
          BY <1>1, <2>1, <4>1
        <5>2. M * h \in Nat
          BY <1>1, <2>1
        <5>3. QED
          BY <1>1, <2>1, <2>6, <5>1, <5>2
      <4>2. QED
        BY <2>1, <4>1
    <3>2. n = M /\ u = 2
      BY <1>1, <2>1, <2>6, <3>1
    <3>3. M % u = 0
      BY <1>2 DEF UnitsIn, Format
    <3>4. k = M \div u
      BY <2>2, <3>2, <3>3
    <3>5. QED
      BY <1>4, <2>3, <3>2, <3>4
  <2>7. QED
    BY <2>3, <2>5, <2>6 DEF F, R
<1>7. QED
  BY <1>5, <1>6

\* A quotient f of a by b below the mantissa: a rounded number k of 1 \div w, rounded
\* down, where w leaves the mantissa no more room than a quotient needs.
Divides(f, a, b, M, w, k) ==
  /\ f = k \div w
  /\ 2 * (b * k) <= 2 * (a * w) + b
  /\ (a * w) \div b <= k
  /\ w = M \/ \E h \in Nat \ {0} : M = 2 * (h * w) /\ h * b <= a

LEMMA SmallQuotient ==
  ASSUME NEW M, IsMantissa(M), NEW a \in Nat, NEW b \in Nat \ {0}, a < M * b
  PROVE  LET f == FlooredQuotient(a, b, Format(M))
         IN  /\ f \in Nat /\ a \div b <= f
             /\ \E w \in Nat \ {0}, k \in Nat : Divides(f, a, b, M, w, k)
<1> DEFINE F == Format(M)
           q == a \div b
           v == Scale(q, 1, F)
           w == M \div v
           k == Nearest(a * w, b)
           f == FlooredQuotient(a, b, F)
<1>1. M \in Nat \ {0}
  BY DEF IsMantissa
<1>2. q \in Nat /\ q < M
  BY <1>1, QuotientBelow
<1>3. Scale(q, M, F) = 1
  BY <1>1, <1>2, ScaleOfLess
<1>4. F.mantissa = M /\ 1 * b = b
  BY DEF Format
<1>5. f = k \div w
  <2>1. Unit(q, F) = 1
    BY <1>3, <1>4 DEF Unit
  <2>2. f = 1 * (Nearest(a * (M \div Scale(a \div (1 * b), 1, F)), 1 * b)
                   \div (M \div Scale(a \div (1 * b), 1, F)))
    BY <1>4, <2>1 DEF FlooredQuotient
  <2>3. f = 1 * (k \div w)
    BY <1>4, <2>2
  <2>4. w \in Nat \ {0}
    BY <1>1, <1>2, ScaleProps, UnitProps
  <2>5. a * w \in Nat
    BY <2>4
  <2>6. k \in Nat
    BY <2>5, NearestProps
  <2> HIDE DEF k, w
  <2>7. k \div w \in Nat
    BY <2>4, <2>6, QuotientBelow
  <2>8. QED
    BY <2>3, <2>7
<1>6. /\ v \in UnitsIn(M)
      /\ v = 1 \/ v \div 2 <= q
  <2>1. q < 1 * M
    BY <1>1, <1>2
  <2>2. v \in UnitsIn(M) /\ (v = 1 \/ 1 * (v \div 2) <= q)
    BY <1>2, <2>1, ScaleProps
  <2> HIDE DEF v
  <2>3. QED
    BY <2>2, UnitProps
<1> HIDE DEF v, f, F
<1>7. /\ v \in Nat \ {0} /\ w \in Nat \ {0} /\ M = v * w
      /\ v # 1 => v = 2 * (v \div 2) /\ v \div 2 \in UnitsIn(M)
  BY <1>6, UnitProps
<1> HIDE DEF w
<1>8. /\ k \in Nat
      /\ 2 * (b * k) <= 2 * (a * w) + b
      /\ (a * w) \div b <= k
  <2>1. a * w \in Nat
    BY <1>7
  <2>2. QED
    BY <2>1, NearestProps
<1> HIDE DEF k
<1>9. w = M \/ \E h \in Nat \ {0} : M = 2 * (h * w) /\ h * b <= a
  <2>1. CASE v = 1
    BY <1>7, <2>1
  <2>2. CASE v # 1
    <3> DEFINE h == v \div 2
    <3>1. h \in Nat \ {0} /\ v = 2 * h /\ h <= q
      <4>1. v \div 2 \in Nat \ {0}
        BY <1>7, <2>2, UnitProps
      <4>2. QED
        BY <1>6, <1>7, <2>2, <4>1
    <3> HIDE DEF h
    <3>2. M = 2 * (h * w)
      BY <1>7, <3>1
    <3>3. h * b <= a
      <4>1. ~(q < h)
        BY <1>2, <3>1
      <4>2. ~(a < h * b)
        BY <3>1, <4>1, QuotientBelow
      <4>3. h * b \in Nat
        BY <3>1
      <4>4. QED
        BY <4>2, <4>3
    <3>4. QED
      BY <3>1, <3>2, <3>3
  <2>3. QED
    BY <2>1, <2>2
<1>10. f \in Nat /\ q <= f
  <2>1. a * w \in Nat /\ q * w \in Nat
    BY <1>2, <1>7
  <2>2. (q * w) * b <= a * w
    <3>1. b * q <= a
      BY DivMod
    <3>2. b * q \in Nat /\ (b * q) * w <= a * w
      BY <1>2, <1>7, <3>1
    <3>3. QED
      BY <1>2, <1>7, <3>2
  <2>3. q * w <= k
    <3>1. (a * w) \div b \in Nat /\ ((a * w) \div b < q * w <=> a * w < (q * w) * b)
      BY <2>1, QuotientBelow
    <3>2. (q * w) * b \in Nat
      BY <2>1
    <3>3. QED
      BY <1>8, <2>1, <2>2, <3>1, <3>2
  <2>4. f \in Nat /\ (f < q <=> k < q * w)
    BY <1>2, <1>5, <1>7, <1>8, QuotientBelow
  <2>5. QED
    BY <1>2, <1>8, <2>1, <2>3, <2>4
<1>11. Divides(f, a, b, M, w, k)
  BY <1>5, <1>8, <1>9 DEF Divides
<1>12. QED
  BY <1>7, <1>8, <1>10, <1>11 DEF q, f, F

\* A quotient that is not below the mantissa is not rounded below it.
LEMMA LargeQuotient ==
  ASSUME NEW M, IsMantissa(M), NEW a \in Nat, NEW b \in Nat \ {0}, M * b <= a, a < (M * M) * b
  PROVE  LET f == FlooredQuotient(a, b, Format(M)) IN f \in Nat /\ M <= f
<1> DEFINE F == Format(M)
           q == a \div b
           u == Scale(q, M, F)
           d == u * b
           v == Scale(a \div d, 1, F)
           w == M \div v
           k == Nearest(a * w, d)
           f == FlooredQuotient(a, b, F)
           g == M \div 2
<1>1. M \in Nat \ {0} /\ M * M \in Nat /\ M * b \in Nat
  BY DEF IsMantissa
<1>2. q \in Nat /\ M <= q /\ q < M * M
  <2>1. q \in Nat /\ (q < M <=> a < M * b) /\ (q < M * M <=> a < (M * M) * b)
    BY <1>1, QuotientBelow
  <2>2. QED
    BY <1>1, <2>1
<1>3. u \in UnitsIn(M) /\ q < M * u /\ (u = 1 \/ M * (u \div 2) <= q)
  BY <1>1, <1>2, ScaleProps
<1>4. F.mantissa = M
  BY DEF Format
<1>5. f = u * (k \div w)
  BY <1>4 DEF FlooredQuotient, Unit
<1> HIDE DEF f, u
<1>6. u # 1
  BY <1>1, <1>2, <1>3
<1> DEFINE h == u \div 2
<1>7. h \in Nat \ {0} /\ u = 2 * h /\ u \in Nat \ {0} /\ M * h <= q
  <2>1. u \in Nat \ {0} /\ u \div 2 \in UnitsIn(M) /\ u = 2 * (u \div 2)
    BY <1>3, <1>6, UnitProps
  <2>2. u \div 2 \in Nat \ {0}
    BY <2>1, UnitProps
  <2>3. QED
    BY <1>3, <1>6, <2>1, <2>2
<1> HIDE DEF h
<1>8. g \in Nat /\ M = 2 * g
  <2>1. M % 2 = 0
    <3>1. M = M * 1 + 0 /\ M \in 2 .. M
      BY <1>1 DEF IsMantissa
    <3>2. M % M = 0
      BY <1>1, <3>1, DivUnique
    <3>3. QED
      BY <3>1, <3>2 DEF IsMantissa, PowerOfTwo
  <2>2. QED
    BY <1>1, <2>1
<1> HIDE DEF g
<1>9. d \in Nat \ {0}
  BY <1>7
<1>10. w \in Nat \ {0}
  <2> DEFINE e == a \div d
  <2>1. e \in Nat /\ (e < M <=> a < M * d)
    BY <1>1, <1>9, QuotientBelow
  <2>2. a < M * d
    <3>1. q < M * u /\ M * u \in Nat
      BY <1>1, <1>3, <1>7
    <3>2. a < (M * u) * b
      BY <3>1, QuotientBelow
    <3>3. (M * u) * b = M * d
      BY <1>1, <1>7
    <3>4. QED
      BY <3>2, <3>3
  <2>3. v = Scale(e, 1, F) /\ e < 1 * M
    BY <1>1, <2>1, <2>2
  <2> HIDE DEF e, v
  <2>4. v \in UnitsIn(M)
    BY <2>1, <2>3, ScaleProps
  <2>5. QED
    BY <2>4, UnitProps
<1> HIDE DEF w, d
<1>11. k \in Nat /\ (a * w) \div d <= k
  <2>1. a * w \in Nat
    BY <1>10
  <2>2. QED
    BY <1>9, <2>1, NearestProps
<1> HIDE DEF k
<1>12. (g * w) * d <= a * w
  <2>1. (M * h) * b <= a
    <3>1. M * h \in Nat /\ ~(q < M * h)
      BY <1>1, <1>2, <1>7
    <3>2. ~(a < (M * h) * b)
      BY <3>1, QuotientBelow
    <3>3. (M * h) * b \in Nat
      BY <3>1
    <3>4. QED
      BY <3>2, <3>3
  <2>2. g * d = (M * h) * b
    <3>1. g * d = (g * (2 * h)) * b
      BY <1>7, <1>8 DEF d
    <3>2. g * (2 * h) = M * h
      BY <1>7, <1>8
    <3>3. QED
      BY <3>1, <3>2
  <2>3. g * d \in Nat /\ g * d <= a
    BY <1>8, <1>9, <2>1, <2>2
  <2>4. (g * d) * w <= a * w
    BY <1>10, <2>3
  <2>5. (g * d) * w = (g * w) * d
    BY <1>8, <1>9, <1>10
  <2>6. QED
    BY <2>4, <2>5
<1>13. k \div w \in Nat /\ g <= k \div w
  <2>1. g * w \in Nat /\ a * w \in Nat
    BY <1>8, <1>10
  <2>2. (a * w) \div d \in Nat /\ ((a * w) \div d < g * w <=> a * w < (g * w) * d)
    BY <1>9, <2>1, QuotientBelow
  <2>3. (g * w) * d \in Nat
    BY <1>9, <2>1
  <2>4. g * w <= k
    BY <1>11, <1>12, <2>1, <2>2, <2>3
  <2>5. k \div w \in Nat /\ (k \div w < g <=> k < g * w)
    BY <1>8, <1>10, <1>11, QuotientBelow
  <2>6. QED
    BY <1>8, <1>11, <2>1, <2>4, <2>5
<1>14. f \in Nat /\ M <= f
  <2> DEFINE t == k \div w
  <2>1. t \in Nat /\ g <= t /\ f = u * t
    BY <1>5, <1>13
  <2> HIDE DEF t
  <2>2. 2 * t <= u * t
    <3>1. 2 <= u
      BY <1>7
    <3>2. QED
      BY <1>7, <2>1, <3>1
  <2>3. QED
    BY <1>7, <1>8, <2>1, <2>2
<1>15. QED
  BY <1>14 DEF f, F

\* No quotient is rounded below an integer up to the mantissa that it reaches.
LEMMA QuotientAtLeast ==
  ASSUME NEW M, IsMantissa(M), NEW a \in Nat, NEW b \in Nat \ {0}, a < (M * M) * b,
         NEW j \in Nat, j <= M, j * b <= a
  PROVE  LET f == FlooredQuotient(a, b, Format(M)) IN f \in Nat /\ j <= f
<1> DEFINE f == FlooredQuotient(a, b, Format(M))
<1>1. M \in Nat /\ M * b \in Nat
  BY DEF IsMantissa
<1>2. CASE a < M * b
  <2>1. f \in Nat /\ a \div b <= f
    BY <1>2, SmallQuotient
  <2>2. a \div b \in Nat /\ (a \div b < j <=> a < j * b)
    BY QuotientBelow
  <2>3. j * b \in Nat
    OBVIOUS
  <2> HIDE DEF f
  <2>4. f \in Nat /\ j <= f
    BY <2>1, <2>2, <2>3
  <2>5. QED
    BY <2>4 DEF f
<1>3. CASE M * b <= a
  <2>1. f \in Nat /\ M <= f
    BY <1>3, LargeQuotient
  <2> HIDE DEF f
  <2>2. f \in Nat /\ j <= f
    BY <1>1, <2>1
  <2>3. QED
    BY <2>2 DEF f
<1>4. QED
  BY <1>1, <1>2, <1>3

\* None that stays a half below the next integer is rounded up to it, while the
\* format has room for quarters.
LEMMA QuotientAtMost ==
  ASSUME NEW M, IsMantissa(M), NEW a \in Nat, NEW b \in Nat \ {0},
         NEW j \in Nat, 4 * (j + 1) <= M, 2 * a <= (2 * j + 1) * b
  PROVE  LET f == FlooredQuotient(a, b, Format(M)) IN f \in Nat /\ f <= j
<1> DEFINE f == FlooredQuotient(a, b, Format(M))
<1>1. M \in Nat /\ j + 1 <= M /\ (j + 1) * b <= M * b
  BY DEF IsMantissa
<1>2. j * b \in Nat /\ (2 * j + 1) * b = 2 * (j * b) + b /\ (j + 1) * b = j * b + b
  OBVIOUS
<1>3. a < M * b
  <2> DEFINE jb == j * b
             mb == M * b
  <2>1. jb \in Nat /\ mb \in Nat /\ jb + b <= mb /\ 2 * a <= 2 * jb + b
    BY <1>1, <1>2
  <2> HIDE DEF jb, mb
  <2>2. a < mb
    BY <2>1
  <2>3. QED
    BY <2>2 DEF mb
<1>4. f \in Nat /\ \E w \in Nat \ {0}, k \in Nat : Divides(f, a, b, M, w, k)
  BY <1>3, SmallQuotient
<1> HIDE DEF f
<1>5. PICK w \in Nat \ {0}, k \in Nat : Divides(f, a, b, M, w, k)
  BY <1>4
<1>6. 2 <= w
  <2>1. CASE w = M
    BY <2>1 DEF IsMantissa
  <2>2. ASSUME NEW h \in Nat \ {0}, M = 2 * (h * w), h * b <= a PROVE 2 <= w
    <3>1. h <= j
      <4>1. ASSUME j + 1 <= h PROVE FALSE
        <5>1. (j + 1) * b <= h * b /\ h * b \in Nat
          BY <4>1
        <5> DEFINE jb == j * b
                   hb == h * b
        <5>2. jb \in Nat /\ hb \in Nat /\ jb + b <= hb /\ hb <= a /\ 2 * a <= 2 * jb + b
          BY <1>2, <2>2, <5>1
        <5> HIDE DEF jb, hb
        <5>3. QED
          BY <5>2
      <4>2. QED
        BY <4>1
    <3>2. ASSUME w = 1 PROVE FALSE
      BY <1>1, <2>2, <3>1, <3>2
    <3>3. QED
      BY <3>2
  <2>3. QED
    BY <1>5, <2>1, <2>2 DEF Divides
<1>7. k < (j + 1) * w
  <2>1. ASSUME (j + 1) * w <= k PROVE FALSE
    <3>1. b * ((j + 1) * w) <= b * k
      BY <2>1
    <3>2. (2 * a) * w <= ((2 * j + 1) * b) * w
      <4> DEFINE y == (2 * j + 1) * b
      <4>1. y \in Nat /\ 2 * a <= y
        OBVIOUS
      <4> HIDE DEF y
      <4>2. (2 * a) * w <= y * w
        BY <4>1
      <4>3. QED
        BY <4>2 DEF y
    <3> DEFINE bw  == b * w
               jbw == (j * b) * w
    <3>3. /\ b * ((j + 1) * w) = jbw + bw
          /\ ((2 * j + 1) * b) * w = 2 * jbw + bw
          /\ (2 * a) * w = 2 * (a * w)
          /\ bw \in Nat /\ jbw \in Nat /\ a * w \in Nat /\ b * k \in Nat
      OBVIOUS
    <3>4. 2 * b <= bw
      BY <1>6
    <3>5. 2 * (b * k) <= 2 * (a * w) + b
      BY <1>5 DEF Divides
    <3> HIDE DEF bw, jbw
    <3> DEFINE bk == b * k
               aw == a * w
    <3>6. /\ jbw + bw <= bk /\ 2 * aw <= 2 * jbw + bw /\ 2 * bk <= 2 * aw + b
          /\ bk \in Nat /\ aw \in Nat
      BY <3>1, <3>2, <3>3, <3>5
    <3> HIDE DEF bk, aw
    <3>7. QED
      BY <3>3, <3>4, <3>6
  <2>2. (j + 1) * w \in Nat
    OBVIOUS
  <2>3. QED
    BY <2>1, <2>2
<1>8. f < j + 1
  <2>1. f = k \div w
    BY <1>5 DEF Divides
  <2>2. QED
    BY <1>7, <2>1, QuotientBelow
<1>9. f \in Nat /\ f <= j
  BY <1>4, <1>8
<1>10. QED
  BY <1>9 DEF f

\* A quotient below the mantissa is rounded up by a half at most.
LEMMA QuotientNear ==
  ASSUME NEW M, IsMantissa(M), NEW a \in Nat, NEW b \in Nat \ {0}, a < M * b
  PROVE  LET f == FlooredQuotient(a, b, Format(M))
         IN  f \in Nat /\ 2 * (b * f) <= 2 * a + b /\ a < b * (f + 1)
<1> DEFINE f == FlooredQuotient(a, b, Format(M))
<1>1. /\ f \in Nat /\ a \div b <= f
      /\ \E w \in Nat \ {0}, k \in Nat : Divides(f, a, b, M, w, k)
  BY SmallQuotient
<1> HIDE DEF f
<1>2. PICK w \in Nat \ {0}, k \in Nat : Divides(f, a, b, M, w, k)
  BY <1>1
<1>3. f * w <= k
  <2>1. f = k \div w
    BY <1>2 DEF Divides
  <2>2. k = w * f + (k % w) /\ k % w \in Nat
    BY <2>1, DivMod
  <2>3. w * f \in Nat /\ w * f = f * w
    BY <1>1
  <2>4. QED
    BY <2>2, <2>3
<1>4. 2 * (b * f) <= 2 * a + b
  <2>1. b * (f * w) <= b * k
    BY <1>1, <1>3
  <2>2. 2 * (b * k) <= 2 * (a * w) + b
    BY <1>2 DEF Divides
  <2> DEFINE x == 2 * (b * f)
             y == 2 * a + b
  <2>3. x * w = 2 * (b * (f * w)) /\ y * w = 2 * (a * w) + b * w /\ b <= b * w
    BY <1>1
  <2>4. x \in Nat /\ y \in Nat
    BY <1>1
  <2>5. b * (f * w) \in Nat /\ b * k \in Nat /\ a * w \in Nat /\ b * w \in Nat
    BY <1>1
  <2> HIDE DEF x, y
  <2>6. x * w <= y * w
    BY <2>1, <2>2, <2>3, <2>5
  <2>7. ASSUME y + 1 <= x PROVE FALSE
    <3>1. (y + 1) * w <= x * w /\ (y + 1) * w = y * w + w
      BY <2>4, <2>7
    <3>2. y * w \in Nat /\ x * w \in Nat
      BY <2>4
    <3>3. QED
      BY <2>6, <3>1, <3>2
  <2>8. x <= y
    BY <2>4, <2>7
  <2>9. QED
    BY <2>8 DEF x, y
<1>5. a < b * (f + 1)
  <2>1. a \div b < f + 1
    <3>1. a \div b \in Nat
      BY QuotientBelow
    <3>2. QED
      BY <1>1, <3>1
  <2>2. f + 1 \in Nat
    BY <1>1
  <2>3. a < (f + 1) * b
    BY <2>1, <2>2, QuotientBelow
  <2>4. QED
    BY <1>1, <2>3
<1>6. QED
  BY <1>1, <1>4, <1>5 DEF f

\* The quotient of two amounts below the mantissa is exact.
LEMMA QuotientExact ==
  ASSUME NEW M, IsMantissa(M), NEW a \in Nat, NEW b \in Nat \ {0}, a < M, b < M
  PROVE  FlooredQuotient(a, b, Format(M)) = a \div b
<1> DEFINE f == FlooredQuotient(a, b, Format(M))
           q == a \div b
           r == a % b
<1>1. a < M * b
  <2>1. M \in Nat /\ M * 1 <= M * b /\ M * b \in Nat
    BY DEF IsMantissa
  <2>2. QED
    BY <2>1
<1>2. /\ f \in Nat /\ q <= f
      /\ \E w \in Nat \ {0}, k \in Nat : Divides(f, a, b, M, w, k)
  BY <1>1, SmallQuotient
<1>3. q \in Nat /\ r \in Nat /\ r < b /\ a = b * q + r
  BY DivMod
<1> HIDE DEF f, q, r
<1>4. PICK w \in Nat \ {0}, k \in Nat : Divides(f, a, b, M, w, k)
  BY <1>2
<1>5. b < 2 * w
  <2>1. CASE w = M
    BY <2>1
  <2>2. ASSUME NEW h \in Nat \ {0}, M = 2 * (h * w), h * b <= a PROVE b < 2 * w
    <3>1. ASSUME 2 * w <= b PROVE FALSE
      <4>1. h * (2 * w) <= h * b
        BY <3>1
      <4>2. h * (2 * w) = M
        BY <2>2
      <4>3. h * b \in Nat /\ M \in Nat
        BY DEF IsMantissa
      <4>4. QED
        BY <2>2, <4>1, <4>2, <4>3
    <3>2. QED
      BY <3>1
  <2>3. QED
    BY <1>4, <2>1, <2>2 DEF Divides
<1>6. k < (q + 1) * w
  <2>1. ASSUME (q + 1) * w <= k PROVE FALSE
    <3>1. b * ((q + 1) * w) <= b * k
      BY <1>3, <2>1
    <3>2. 2 * (b * k) <= 2 * (a * w) + b
      BY <1>4 DEF Divides
    <3> DEFINE bw  == b * w
               qbw == (b * q) * w
               rw  == r * w
    <3>3. /\ b * ((q + 1) * w) = qbw + bw
          /\ a * w = qbw + rw
          /\ bw \in Nat /\ qbw \in Nat /\ rw \in Nat /\ b * k \in Nat
      BY <1>3
    <3>4. rw + w <= bw
      <4>1. (r + 1) * w <= b * w /\ (r + 1) * w = r * w + w
        BY <1>3
      <4>2. QED
        BY <4>1
    <3> HIDE DEF bw, qbw, rw
    <3> DEFINE bk == b * k
    <3>5. bk \in Nat /\ qbw + bw <= bk /\ 2 * bk <= 2 * (qbw + rw) + b
      BY <3>1, <3>2, <3>3
    <3> HIDE DEF bk
    <3>6. QED
      BY <1>5, <3>3, <3>4, <3>5
  <2>2. (q + 1) * w \in Nat
    BY <1>3
  <2>3. QED
    BY <2>1, <2>2
<1>7. f < q + 1
  <2>1. f = k \div w
    BY <1>4 DEF Divides
  <2>2. q + 1 \in Nat
    BY <1>3
  <2>3. QED
    BY <1>6, <2>1, <2>2, QuotientBelow
<1>8. f = q
  BY <1>2, <1>3, <1>7
<1>9. QED
  BY <1>8 DEF f, q

-----------------------------------------------------------------------------
(* The ratios and the headroom.                                            *)

\* The cap of a ratio leaves room for the whole of a ratio and more.
LEMMA CapProps ==
  RatioCap \in Nat /\ 10001 <= RatioCap
BY SMT DEF RatioCap

\* Rounding over the numbers that a report rounds.
LEMMA ReportMantissas ==
  ASSUME NEW M \in {LongMantissa, DoubleMantissa}
  PROVE  /\ IsMantissa(M) /\ M \in Nat \ {0} /\ 10000 < M /\ M * M \in Nat /\ 10000 * M <= M * M
         /\ \A x \in Nat : x <= MaxAmount => 40000 * x < M * M
<1>1. IsMantissa(M)
  BY Mantissas
<1>2. M \in Nat \ {0} /\ 10000 < M
  BY <1>1 DEF IsMantissa
<1>3. M * M \in Nat /\ 10000 * M <= M * M
  BY <1>2
<1>4. 40000 * MaxAmount < M * M
  <2>1. (4 * MaxAmount * BpsScale) \div M < M
    BY ReportsAssumption
  <2>2. 4 * MaxAmount * BpsScale \in Nat /\ 4 * MaxAmount * BpsScale = 40000 * MaxAmount
    BY MaxAmountAssumption DEF BpsScale
  <2>3. QED
    BY <1>2, <2>1, <2>2, QuotientBelow
<1>5. \A x \in Nat : x <= MaxAmount => 40000 * x < M * M
  BY <1>3, <1>4, MaxAmountAssumption
<1>6. QED
  BY <1>1, <1>2, <1>3, <1>5

LEMMA CancelFactor ==
  ASSUME NEW z \in Nat \ {0}, NEW x \in Nat, NEW y \in Nat, z * x <= z * y
  PROVE  x <= y
<1>1. ASSUME y + 1 <= x PROVE FALSE
  <2>1. z * (y + 1) <= z * x /\ z * (y + 1) = z * y + z
    BY <1>1
  <2>2. z * x \in Nat /\ z * y \in Nat
    OBVIOUS
  <2>3. QED
    BY <2>1, <2>2
<1>2. QED
  BY <1>1

\* m is n, rounded: off by a part in M at most.
Off(n, m, M) == M * m <= M * n + n /\ M * n <= M * m + n

\* Two roundings one after the other, with the scale between them: what is left of
\* it all, in parts of the square of the mantissa.
LEMMA OffTwice ==
  ASSUME NEW M \in Nat \ {0}, NEW n \in Nat, NEW k \in Nat, NEW p \in Nat,
         Off(n, k, M) /\ Off(k * 10000, p, M)
  PROVE  /\ (M * M) * p <= 10000 * (M * (M * n)) + 20000 * (M * n) + 10000 * n
         /\ 10000 * (M * (M * n)) <= (M * M) * p + 20000 * (M * n) + 10000 * n
<1> DEFINE x == M * k
           y == M * n
           s == M * p
<1>1. /\ x \in Nat /\ y \in Nat /\ s \in Nat
      /\ x <= y + n /\ y <= x + n
  BY DEF Off
<1>2. s <= 10000 * x + k * 10000 /\ 10000 * x <= s + k * 10000
  <2>1. M * (k * 10000) = 10000 * x
    OBVIOUS
  <2>2. QED
    BY <2>1 DEF Off
<1>3. /\ M * s = (M * M) * p
      /\ M * (10000 * x + k * 10000) = 10000 * (M * x) + 10000 * x
      /\ M * (s + k * 10000) = M * s + 10000 * x
      /\ M * (10000 * x) = 10000 * (M * x)
  BY <1>1
<1> HIDE DEF x, y, s
<1>4. /\ M * s <= M * (10000 * x + k * 10000)
      /\ M * (10000 * x) <= M * (s + k * 10000)
      /\ M * x <= M * (y + n) /\ M * y <= M * (x + n)
  BY <1>1, <1>2
<1>5. M * (y + n) = M * y + y /\ M * (x + n) = M * x + y
  BY <1>1 DEF y
<1> DEFINE mx == M * x
           my == M * y
           ms == M * s
<1>6. mx \in Nat /\ my \in Nat /\ ms \in Nat
  BY <1>1
<1>7. /\ ms <= 10000 * mx + 10000 * x /\ 10000 * mx <= ms + 10000 * x
      /\ mx <= my + y /\ my <= mx + y
  BY <1>3, <1>4, <1>5
<1> HIDE DEF mx, my, ms
<1>8. ms <= 10000 * my + 20000 * y + 10000 * n /\ 10000 * my <= ms + 20000 * y + 10000 * n
  BY <1>1, <1>6, <1>7
<1>9. QED
  BY <1>3, <1>8 DEF my, ms, y

\* A ratio of printed amounts is rounded by less than it takes to pass par, or to
\* fall a basis point short of it.
LEMMA RatioNearPar ==
  ASSUME NEW n \in Nat \ {0}, NEW d \in Nat \ {0}, n <= MaxAmount, d <= MaxAmount
  PROVE  /\ RatioBps(n, d) \in Nat
         /\ n <= d => RatioBps(n, d) <= 10000
         /\ d <= n => 9999 <= RatioBps(n, d)
<1> DEFINE L == LongMantissa
           F == Format(L)
           k == Rounded(n, F)
           p == Rounded(k * 10000, F)
           e == Rounded(d, F)
           f == FlooredQuotient(p, e, F)
<1>1. RatioBps(n, d) = Min({f, RatioCap})
  BY DEF RatioBps, LongDouble, BpsScale
<1>2. /\ IsMantissa(L) /\ L \in Nat \ {0} /\ 70000 < L /\ L * L \in Nat
      /\ 40000 * n < L * L /\ 40000 * d < L * L
  BY ReportMantissas, MantissaAssumption
<1> HIDE DEF L, f, p, e, k
<1>3. k \in Nat /\ Off(n, k, L) /\ k <= 2 * n
  <2>1. n < L * L
    BY <1>2
  <2>2. k \in Nat /\ Off(n, k, L)
    BY <1>2, <2>1, RoundedProps DEF Off, k
  <2>3. L * k <= L * (2 * n)
    <3>1. L * (2 * n) = 2 * (L * n) /\ n <= L * n /\ L * n \in Nat /\ L * k \in Nat
      BY <1>2, <2>2
    <3>2. QED
      BY <2>2, <3>1 DEF Off
  <2>4. QED
    BY <1>2, <2>2, <2>3, CancelFactor
<1>4. p \in Nat /\ Off(k * 10000, p, L) /\ p < L * L
  <2>1. k * 10000 \in Nat /\ k * 10000 < L * L
    BY <1>2, <1>3
  <2> DEFINE m == k * 10000
  <2> HIDE DEF m
  <2>2. m \in Nat /\ m < L * L /\ p = Rounded(m, F)
    BY <2>1 DEF m, p
  <2>3. p \in Nat /\ Off(m, p, L)
    BY <1>2, <2>2, RoundedProps DEF Off
  <2>4. L * p <= L * (2 * m)
    <3>1. L * (2 * m) = 2 * (L * m) /\ m <= L * m /\ L * m \in Nat /\ L * p \in Nat
      BY <1>2, <2>2, <2>3
    <3>2. QED
      BY <2>2, <2>3, <3>1 DEF Off
  <2>5. p <= 2 * m
    BY <1>2, <2>2, <2>3, <2>4, CancelFactor
  <2>6. m <= 20000 * n
    BY <1>3 DEF m
  <2>7. QED
    BY <1>2, <2>2, <2>3, <2>5, <2>6 DEF m
<1>5. e \in Nat \ {0} /\ Off(d, e, L)
  <2>1. d < L * L
    BY <1>2
  <2>2. e \in Nat /\ Off(d, e, L)
    BY <1>2, <2>1, RoundedProps DEF Off, e
  <2>3. ASSUME e = 0 PROVE FALSE
    <3>1. L * d <= d
      BY <1>2, <2>2, <2>3 DEF Off
    <3>2. 2 * d <= L * d
      BY <1>2
    <3>3. QED
      BY <1>2, <3>1, <3>2
  <2>4. QED
    BY <2>2, <2>3
<1> DEFINE n1 == L * n
           n2 == L * n1
           d1 == L * d
           d2 == L * d1
           p2 == (L * L) * p
           e2 == (L * L) * e
<1>6. n1 \in Nat /\ n2 \in Nat /\ d1 \in Nat /\ d2 \in Nat /\ p2 \in Nat /\ e2 \in Nat
  BY <1>2, <1>4, <1>5
<1>7. 70000 * n <= n1 /\ 70000 * n1 <= n2 /\ 70000 * d <= d1 /\ 70000 * d1 <= d2
  BY <1>2, <1>6
<1>8. /\ p2 <= 10000 * n2 + 20000 * n1 + 10000 * n
      /\ 10000 * n2 <= p2 + 20000 * n1 + 10000 * n
  BY <1>2, <1>3, <1>4, OffTwice
<1>9. e2 <= d2 + d1 /\ d2 <= e2 + d1
  <2>1. L * e <= d1 + d /\ d1 <= L * e + d /\ L * e \in Nat
    BY <1>2, <1>5 DEF Off
  <2>2. L * (L * e) <= L * (d1 + d) /\ L * d1 <= L * (L * e + d)
    BY <1>2, <1>6, <2>1
  <2>3. L * (L * e) = e2 /\ L * (d1 + d) = d2 + d1 /\ L * (L * e + d) = e2 + d1
    BY <1>2, <1>5, <1>6
  <2>4. QED
    BY <2>2, <2>3
<1>10. (n <= d => n1 <= d1 /\ n2 <= d2) /\ (d <= n => d1 <= n1 /\ d2 <= n2)
  BY <1>2, <1>6
<1> HIDE DEF n1, n2, d1, d2, p2, e2
<1>11. ASSUME n <= d PROVE 2 * p <= 20001 * e
  <2>1. 2 * p2 <= 20001 * e2
    BY <1>6, <1>7, <1>8, <1>9, <1>10, <1>11
  <2>2. (L * L) * (2 * p) = 2 * p2 /\ (L * L) * (20001 * e) = 20001 * e2 /\ L * L \in Nat \ {0}
    BY <1>2, <1>4, <1>5 DEF p2, e2
  <2>3. 2 * p \in Nat /\ 20001 * e \in Nat
    BY <1>4, <1>5
  <2>4. QED
    BY <2>1, <2>2, <2>3, CancelFactor
<1>12. ASSUME d <= n PROVE 9999 * e <= p
  <2>1. 9999 * e2 <= p2
    BY <1>6, <1>7, <1>8, <1>9, <1>10, <1>12
  <2>2. (L * L) * (9999 * e) = 9999 * e2 /\ L * L \in Nat \ {0}
    BY <1>2, <1>4, <1>5 DEF p2, e2
  <2>3. 9999 * e \in Nat
    BY <1>5
  <2>4. QED
    BY <1>4, <2>1, <2>2, <2>3, CancelFactor DEF p2
<1>13. /\ f \in Nat
       /\ n <= d => f <= 10000
       /\ d <= n => 9999 <= f
  <2>1. p < (L * L) * e
    <3>1. (L * L) * 1 <= (L * L) * e /\ (L * L) * e \in Nat
      BY <1>2, <1>5
    <3>2. QED
      BY <1>2, <1>4, <3>1
  <2>2. ASSUME n <= d PROVE f \in Nat /\ f <= 10000
    <3>1. 4 * (10000 + 1) <= L /\ 2 * p <= (2 * 10000 + 1) * e
      BY <1>2, <1>11, <2>2
    <3>2. QED
      BY <1>2, <1>4, <1>5, <3>1, QuotientAtMost DEF f
  <2>3. ASSUME d <= n PROVE f \in Nat /\ 9999 <= f
    <3>1. 9999 \in Nat /\ 9999 <= L /\ 9999 * e <= p
      BY <1>2, <1>12, <2>3
    <3>2. QED
      BY <1>2, <1>4, <1>5, <2>1, <3>1, QuotientAtLeast DEF f
  <2>4. QED
    BY <2>2, <2>3
<1>14. Min({f, RatioCap}) = IF f <= RatioCap THEN f ELSE RatioCap
  BY <1>13, MinMaxOfTwo, CapProps
<1>15. QED
  BY <1>1, <1>13, <1>14, CapProps

\* The ratio of amounts that are exact in basis points is exact: below a bound when
\* the amounts say so.
LEMMA RatioBelow ==
  ASSUME NEW n \in Nat, NEW d \in Nat, NEW b \in 1 .. RatioCap,
         ExactIn(LongMantissa, n), ExactIn(LongMantissa, d)
  PROVE  /\ RatioBps(n, d) \in Nat
         /\ RatioBps(n, d) < b <=> n = 0 \/ d = 0 \/ n * BpsScale < b * d
<1>1. CASE n = 0 \/ d = 0
  BY <1>1 DEF RatioBps
<1>2. CASE n # 0 /\ d # 0
  <2> DEFINE L == LongMantissa
             m == n * 10000
             q == m \div d
  <2>1. /\ IsMantissa(L) /\ L \in Nat \ {0} /\ L * L \in Nat /\ 10000 * L <= L * L
        /\ m \in Nat /\ m < L /\ d * 10000 < L
    BY <1>2, ReportMantissas DEF ExactIn, BpsScale
  <2>2. n < L /\ d < L /\ L <= L * L
    BY <2>1
  <2>3. Rounded(n, Format(L)) = n /\ Rounded(d, Format(L)) = d
    BY <2>1, <2>2, RoundedProps
  <2>4. Rounded(m, Format(L)) = m
    <3> HIDE DEF m
    <3>1. m < L * L /\ m <= L
      BY <2>1, <2>2
    <3>2. QED
      BY <2>1, <3>1, RoundedProps
  <2>5. RatioBps(n, d) = Min({FlooredQuotient(m, d, Format(L)), RatioCap})
    BY <1>2, <2>3, <2>4 DEF RatioBps, LongDouble, BpsScale
  <2> HIDE DEF m
  <2>6. FlooredQuotient(m, d, Format(L)) = q
    BY <1>2, <2>1, <2>2, QuotientExact
  <2>7. q \in Nat /\ (q < b <=> m < b * d)
    BY <1>2, <2>1, QuotientBelow
  <2> HIDE DEF q
  <2>8. Min({q, RatioCap}) = IF q <= RatioCap THEN q ELSE RatioCap
    BY <2>7, MinMaxOfTwo, CapProps
  <2>9. QED
    BY <1>2, <2>5, <2>6, <2>7, <2>8, CapProps DEF m, BpsScale
<1>3. QED
  BY <1>1, <1>2

LEMMA RatiosTell ==
  ASSUME BooksInv
  PROVE  RatiosTellReleased
<1> SUFFICES ASSUME failure = "none", NEW a \in Assets
             PROVE  LET owed  == GrossOf(Released(a))
                        short == AssetTotal(a, "available") < owed
                    IN  /\ AssetTotal(a, "observed_locked") + owed
                             = AssetTotal(a, "confirmed_locked")
                        /\ Printable(a) =>
                             IF short THEN Coverage(a) <= BpsScale /\ CapitalBand(a) # "ample"
                             ELSE Coverage(a) >= BpsScale - 1
                        /\ /\ ExactIn(LongMantissa, OperatingBase(a))
                           /\ ExactIn(LongMantissa, AssetTotal(a, "confirmed_locked"))
                           => /\ Overlap(a) = BpsScale <=>
                                   AssetTotal(a, "observed_locked") > 0 /\ owed = 0
                              /\ Coverage(a) < BpsScale <=> short
                              /\ short => CapitalBand(a) = "constrained"
  BY DEF RatiosTellReleased, Released
<1> DEFINE o == AssetTotal(a, "observed_locked")
           c == AssetTotal(a, "confirmed_locked")
           f == AssetTotal(a, "available")
           w == GrossOf(Released(a))
           n == OperatingBase(a)
<1>1. /\ o \in Nat /\ c \in Nat /\ f \in Nat /\ w \in Nat
      /\ o + w = c /\ n = f + o
  BY AssetPlanes
<1>2. Overlap(a) = RatioBps(Min({o, c}), Max({o, c}))
  BY DEF Overlap
<1>3. Coverage(a) = IF c = 0 THEN BpsScale ELSE RatioBps(n, c)
  BY DEF Coverage
<1> HIDE DEF o, c, f, w, n
<1>4. ASSUME Printable(a)
      PROVE  IF f < w THEN Coverage(a) <= BpsScale /\ CapitalBand(a) # "ample"
             ELSE Coverage(a) >= BpsScale - 1
  <2>1. n <= MaxAmount /\ c <= MaxAmount
    BY <1>4 DEF Printable, n, c
  <2>2. /\ Coverage(a) \in Nat
        /\ f < w => Coverage(a) <= 10000
        /\ w <= f => 9999 <= Coverage(a)
    <3>1. CASE c = 0
      BY <1>1, <1>3, <3>1 DEF BpsScale
    <3>2. CASE c # 0 /\ n = 0
      BY <1>1, <1>3, <3>2 DEF RatioBps
    <3>3. CASE c # 0 /\ n # 0
      BY <1>1, <1>3, <2>1, <3>3, RatioNearPar
    <3>4. QED
      BY <3>1, <3>2, <3>3
  <2>3. Coverage(a) <= 10000 => CapitalBand(a) # "ample"
    BY <2>2 DEF CapitalBand
  <2>4. QED
    BY <1>1, <2>2, <2>3 DEF BpsScale
<1>5. ASSUME ExactIn(LongMantissa, n), ExactIn(LongMantissa, c)
      PROVE  /\ Overlap(a) = BpsScale <=> o > 0 /\ w = 0
             /\ Coverage(a) < BpsScale <=> f < w
             /\ f < w => CapitalBand(a) = "constrained"
  <2>1. Overlap(a) = BpsScale <=> o > 0 /\ w = 0
    <3>1. ExactIn(LongMantissa, o)
      BY <1>1, <1>5, MantissaAssumption DEF ExactIn, BpsScale
    <3>2. /\ RatioBps(o, c) \in Nat
          /\ RatioBps(o, c) < 10000 <=> o = 0 \/ c = 0 \/ o * 10000 < 10000 * c
          /\ RatioBps(o, c) < 10001 <=> o = 0 \/ c = 0 \/ o * 10000 < 10001 * c
      BY <1>1, <1>5, <3>1, RatioBelow, CapProps DEF BpsScale
    <3>3. Overlap(a) = RatioBps(o, c)
      <4>1. Min({o, c}) = o /\ Max({o, c}) = c
        BY <1>1, MinMaxOfTwo
      <4>2. QED
        BY <1>2, <4>1
    <3>4. QED
      BY <1>1, <3>2, <3>3 DEF BpsScale
  <2>2. /\ RatioBps(n, c) \in Nat
        /\ RatioBps(n, c) < 10000 <=> n = 0 \/ c = 0 \/ n * 10000 < 10000 * c
    BY <1>1, <1>5, RatioBelow, CapProps DEF BpsScale
  <2>3. Coverage(a) < BpsScale <=> f < w
    BY <1>1, <1>3, <2>2 DEF BpsScale
  <2>4. Coverage(a) < BpsScale => CapitalBand(a) = "constrained"
    <3>1. Coverage(a) \in Int
      BY <1>3, <2>2 DEF BpsScale
    <3>2. QED
      BY <3>1 DEF CapitalBand, BpsScale
  <2>5. QED
    BY <2>1, <2>3, <2>4
<1>6. QED
  BY <1>1, <1>4, <1>5 DEF o, c, f, w, n

\* The coverage of an asset tells whether its liquidity could hold again what waits
\* for a retry, up to a basis point of rounding; of amounts that are exact in basis
\* points coverage, band and overlap tell it, and what waits, exactly.
THEOREM RatiosCorrect ==
  Spec => []RatiosTellReleased
BY BooksAlways, RatiosTell, PTL

LEMMA DoubleExact ==
  ASSUME NEW x \in Nat, x <= DoubleMantissa
  PROVE  Rounded(x, Double) = x
<1> DEFINE M == DoubleMantissa
<1>1. IsMantissa(M) /\ M \in Nat \ {0} /\ 10000 < M /\ M * M \in Nat /\ 10000 * M <= M * M
  BY ReportMantissas
<1>2. x < M * M
  BY <1>1
<1>3. QED
  BY <1>1, <1>2, RoundedProps DEF Double

LEMMA TargetProduct ==
  ASSUME NEW base \in Nat, NEW target \in Nat, 1 <= target, target <= 10000
  PROVE  base * target \in Nat /\ base <= base * target /\ base * target <= 10000 * base
<1>1. base * 1 <= base * target /\ base * target <= base * 10000
  OBVIOUS
<1>2. QED
  BY <1>1

\* The target commitments of the SDK, of a base that is a safe integer.
Commitments(base, target) ==
  FlooredQuotient(Rounded(base * target, Double), BpsScale, Double)

LEMMA CommitmentsNear ==
  ASSUME NEW base \in Nat, base < DoubleMantissa,
         NEW target \in Nat, 1 <= target, target <= 10000
  PROVE  LET t == Commitments(base, target)
         IN  /\ t \in Nat /\ t <= base + 1
             /\ 2 * (10000 * t) < 2 * (base * target) + 30000
             /\ base * target < 10000 * (t + 2)
             /\ base * target < DoubleMantissa =>
                  10000 * t <= base * target /\ base * target < 10000 * (t + 1)
<1> DEFINE M == DoubleMantissa
           m == base * target
           p == Rounded(m, Double)
           t == Commitments(base, target)
<1>1. IsMantissa(M) /\ M \in Nat \ {0} /\ 10000 < M /\ M * M \in Nat /\ 10000 * M <= M * M
  BY ReportMantissas
<1>2. m \in Nat /\ m <= 10000 * base /\ m < M * M
  <2>1. m \in Nat /\ m <= 10000 * base
    BY TargetProduct
  <2> HIDE DEF m
  <2>2. 10000 * base <= 10000 * M
    BY <1>1
  <2>3. m < M * M
    <3>1. base < M
      OBVIOUS
    <3> HIDE DEF M
    <3>2. QED
      BY <1>1, <2>1, <3>1
  <2>4. QED
    BY <2>1, <2>3
<1>3. t = FlooredQuotient(p, 10000, Format(M))
  BY DEF Commitments, BpsScale, Double
<1> HIDE DEF m, t
<1>4. p \in Nat /\ Off(m, p, M) /\ (m <= M => p = m)
  BY <1>1, <1>2, RoundedProps DEF Off, Double
<1> HIDE DEF p
<1>5. p < m + 10000 /\ m < p + 10000
  <2>1. M * p <= M * m + m /\ M * m <= M * p + m /\ M * p \in Nat /\ M * m \in Nat
    BY <1>1, <1>2, <1>4 DEF Off
  <2>2. m < 10000 * M
    BY <1>1, <1>2
  <2>3. M * (m + 10000) = M * m + 10000 * M /\ M * (p + 10000) = M * p + 10000 * M
    BY <1>1, <1>2, <1>4
  <2>4. ASSUME m + 10000 <= p PROVE FALSE
    <3>1. M * (m + 10000) <= M * p
      BY <1>1, <1>2, <1>4, <2>4
    <3>2. QED
      BY <1>1, <1>2, <2>1, <2>2, <2>3, <3>1
  <2>5. ASSUME p + 10000 <= m PROVE FALSE
    <3>1. M * (p + 10000) <= M * m
      BY <1>1, <1>2, <1>4, <2>5
    <3>2. QED
      BY <1>1, <1>2, <2>1, <2>2, <2>3, <3>1
  <2>6. QED
    BY <1>2, <1>4, <2>4, <2>5
<1>6. p < M * 10000
  <2>1. ASSUME M * 10000 <= p PROVE FALSE
    <3>1. m + 10000 <= M * 10000
      BY <1>1, <1>2
    <3>2. QED
      BY <1>1, <1>2, <1>4, <1>5, <2>1, <3>1
  <2>2. QED
    BY <1>1, <1>4, <2>1
<1>7. t \in Nat /\ 2 * (10000 * t) <= 2 * p + 10000 /\ p < 10000 * (t + 1)
  BY <1>1, <1>3, <1>4, <1>6, QuotientNear
<1>8. ASSUME m < M PROVE 10000 * t <= m /\ m < 10000 * (t + 1)
  <2>1. p = m
    BY <1>1, <1>2, <1>4, <1>8
  <2>2. t = m \div 10000
    BY <1>1, <1>2, <1>3, <1>8, <2>1, QuotientExact
  <2>3. QED
    BY <1>2, <2>2
<1>9. t <= base + 1
  BY <1>2, <1>4, <1>5, <1>7
<1>10. 2 * (10000 * t) < 2 * m + 30000 /\ m < 10000 * (t + 2)
  BY <1>2, <1>4, <1>5, <1>7
<1>11. QED
  BY <1>1, <1>2, <1>7, <1>8, <1>9, <1>10 DEF m, t

LEMMA HeadroomFits ==
  ASSUME BooksInv
  PROVE  HeadroomIsTight
<1> SUFFICES ASSUME failure = "none", NEW a \in Assets, NEW target \in Targets
             PROVE  LET free   == AssetTotal(a, "available")
                        locked == AssetTotal(a, "observed_locked")
                        room   == Headroom(a, target)
                        limit  == OperatingBase(a) * target
                    IN  /\ limit < DoubleMantissa =>
                             /\ room <= free
                             /\ room > 0 => (locked + room) * BpsScale <= limit
                             /\ (locked + room + 1) * BpsScale > limit
                        /\ OperatingBase(a) < DoubleMantissa =>
                             /\ room <= free + 1
                             /\ room > 0 => (locked + room - 2) * BpsScale < limit
                             /\ (locked + room + 2) * BpsScale > limit
  BY DEF HeadroomIsTight
<1> DEFINE locked == AssetTotal(a, "observed_locked")
           f      == AssetTotal(a, "available")
           base   == OperatingBase(a)
           room   == Headroom(a, target)
           n      == base * target
           t      == Commitments(base, target)
<1>1. locked \in Nat /\ f \in Nat /\ base \in Nat /\ base = f + locked
  <2>1. locked \in Nat /\ f \in Nat /\ base = f + locked
    BY AssetPlanes
  <2> HIDE DEF locked, f, base
  <2>2. QED
    BY <2>1
<1> HIDE DEF locked, f, base, room
<1>2. target \in Nat /\ 1 <= target /\ target <= 10000
  BY DEF Targets, BpsScale
<1>3. n \in Nat /\ base <= n /\ n <= 10000 * base
  BY <1>1, <1>2, TargetProduct
<1>4. DoubleMantissa \in Nat /\ 10000 < DoubleMantissa
  BY MantissaAssumption
<1>5. ASSUME base < DoubleMantissa
      PROVE  room = (IF locked <= t THEN t - locked ELSE 0) /\ t \in Nat /\ t <= base + 1
  <2>1. t \in Nat /\ t <= base + 1
    BY <1>1, <1>2, <1>5, CommitmentsNear
  <2>2. AsDouble(f) = f /\ AsDouble(locked) = locked /\ Rounded(f + locked, Double) = base
    <3>1. f <= DoubleMantissa /\ locked <= DoubleMantissa /\ base <= DoubleMantissa
      BY <1>1, <1>4, <1>5
    <3>2. QED
      BY <1>1, <3>1, DoubleExact DEF AsDouble
  <2>3. room = Rounded(Max({0, t - locked}), Double)
    <3>1. SdkBase(a) = base
      BY <2>2 DEF SdkBase, f, locked
    <3>2. room = Rounded(Max({0, Commitments(SdkBase(a), target) - AsDouble(locked)}), Double)
      BY DEF Headroom, Commitments, room, locked
    <3>3. QED
      BY <2>2, <3>1, <3>2
  <2> HIDE DEF t
  <2> DEFINE rest == t - locked
             most == Max({0, rest})
  <2>4. rest \in Int /\ rest <= DoubleMantissa
    BY <1>1, <1>4, <1>5, <2>1
  <2> HIDE DEF rest
  <2>5. most = IF 0 <= rest THEN rest ELSE 0
    BY <2>4, MinMaxOfTwo
  <2> HIDE DEF most
  <2>6. most \in Nat /\ most <= DoubleMantissa
    BY <1>4, <2>4, <2>5
  <2>7. room = most
    BY <2>3, <2>6, DoubleExact DEF most, rest
  <2>8. QED
    BY <1>1, <2>1, <2>5, <2>7 DEF rest
<1>6. ASSUME base < DoubleMantissa
      PROVE  /\ 2 * (10000 * t) < 2 * n + 30000 /\ n < 10000 * (t + 2)
             /\ n < DoubleMantissa => 10000 * t <= n /\ n < 10000 * (t + 1)
  BY <1>1, <1>2, <1>6, CommitmentsNear
<1> HIDE DEF n, t
<1>7. ASSUME base < DoubleMantissa
      PROVE  /\ room <= f + 1
             /\ room > 0 => (locked + room - 2) * 10000 < n
             /\ (locked + room + 2) * 10000 > n
  BY <1>1, <1>3, <1>5, <1>6, <1>7
<1>8. ASSUME n < DoubleMantissa
      PROVE  /\ room <= f
             /\ room > 0 => (locked + room) * 10000 <= n
             /\ (locked + room + 1) * 10000 > n
  <2>1. base < DoubleMantissa
    BY <1>1, <1>3, <1>4, <1>8
  <2>2. 10000 * t <= n /\ n < 10000 * (t + 1) /\ t \in Nat
    BY <1>5, <1>6, <1>8, <2>1
  <2>3. t <= base
    BY <1>1, <1>3, <2>2
  <2>4. QED
    BY <1>1, <1>3, <1>5, <2>1, <2>2, <2>3
<1>9. QED
  BY <1>7, <1>8 DEF locked, f, base, room, n, BpsScale

\* The headroom of the SDK can be reserved, keeps to the target and is the largest
\* amount that does, while the product of base and target is a safe integer; while
\* only the base is, it may take one unit too many, and be two off the target.
THEOREM HeadroomCorrect ==
  Spec => []HeadroomIsTight
BY BooksAlways, HeadroomFits, PTL

-----------------------------------------------------------------------------
(* The whole ledger, and what building a report sums of it.                *)

\* A plane summed over all holders may be summed asset by asset, and no part of it
\* is larger.
LEMMA PlaneByAsset ==
  ASSUME TypeOK, NEW f \in Planes
  PROVE  /\ LedgerTotal(f) \in Nat
         /\ LedgerTotal(f) = Total(Assets, [a \in Assets |-> AssetTotal(a, f)])
         /\ \A a \in Assets : AssetTotal(a, f) \in Nat /\ AssetTotal(a, f) <= LedgerTotal(f)
         /\ \A h \in Holders : ledger[h][f] \in Nat /\ ledger[h][f] <= LedgerTotal(f)
<1> DEFINE w == [h \in Holders |-> ledger[h][f]]
           k == [h \in Holders |-> h[2]]
           v == [a \in Assets |-> AssetTotal(a, f)]
<1>1. /\ IsFiniteSet(Holders) /\ IsFiniteSet(Assets)
      /\ \A h \in Holders : w[h] \in Nat /\ k[h] \in Assets /\ w[h] = ledger[h][f]
  BY SeededProps, AmountTypes, LedgerAssumption DEF Holders
<1>2. ASSUME NEW a \in Assets
      PROVE  v[a] = Total(Class(Holders, k, a), w) /\ Class(Holders, k, a) \in SUBSET Holders
  <2> DEFINE C == Class(Holders, k, a)
             u == [h \in C |-> ledger[h][f]]
  <2>1. C = {h \in Holders : h[2] = a} /\ C \in SUBSET Holders
    BY DEF Class
  <2>2. v[a] = Total(C, u)
    BY <2>1 DEF AssetTotal
  <2>3. \A h \in C : u[h] = w[h]
    BY <2>1
  <2> HIDE DEF C, u, v
  <2>4. Total(C, u) = Total(C, w)
    BY <2>3, TotalSame
  <2>5. QED
    BY <2>1, <2>2, <2>4 DEF C
<1>3. LedgerTotal(f) = Total(Holders, w) /\ \A a \in Assets : v[a] = AssetTotal(a, f)
  BY DEF LedgerTotal
<1> HIDE DEF w, k, v
<1>4. Total(Assets, v) = Total(Holders, w)
  BY <1>1, <1>2, TotalPartition
<1>5. Total(Holders, w) \in Nat
  BY <1>1, TotalType
<1>6. ASSUME NEW a \in Assets
      PROVE  AssetTotal(a, f) \in Nat /\ AssetTotal(a, f) <= LedgerTotal(f)
  <2> DEFINE C == Class(Holders, k, a)
  <2>1. C \in SUBSET Holders /\ AssetTotal(a, f) = Total(C, w)
    BY <1>2, <1>3
  <2>2. IsFiniteSet(C) /\ \A h \in C : w[h] \in Nat
    BY <1>1, <2>1, FS_Subset
  <2> HIDE DEF C
  <2>3. Total(C, w) <= Total(Holders, w)
    BY <1>1, <2>1, TotalMonotone
  <2>4. Total(C, w) \in Nat
    BY <2>2, TotalType
  <2>5. QED
    BY <1>3, <2>1, <2>3, <2>4
<1>7. ASSUME NEW h \in Holders
      PROVE  ledger[h][f] \in Nat /\ ledger[h][f] <= LedgerTotal(f)
  BY <1>1, <1>3, TotalRemove
<1>8. QED
  BY <1>3, <1>4, <1>5, <1>6, <1>7 DEF v

\* What the ledger holds in all, plane by plane, is known from the records.
LEMMA WholeLedger ==
  ASSUME BooksInv, failure = "none"
  PROVE  /\ LedgerTotal("available") + LedgerTotal("observed_locked")
              = total_seeded + GrossOf(PaidAfterRelease)
         /\ LedgerTotal("observed_locked") = GrossOf(Open)
         /\ LedgerTotal("confirmed_locked") = GrossOf(Prepared)
         /\ LedgerTotal("received") = total_settled
         /\ LedgerTotal("fees_paid") = total_fees /\ LedgerTotal("fees_earned") = total_fees
<1>1. IInv /\ TypeOK /\ CreditsReconcile
  BY DEF BooksInv, IInv
<1>2. /\ LedgerTotal("observed_locked") = GrossOf(Open)
      /\ LedgerTotal("confirmed_locked") = GrossOf(Prepared)
  <2>1. Of(Holders) = DOMAIN records
    BY <1>1, RecordFacts DEF Of
  <2>2. Open \cap Of(Holders) = Open /\ Prepared \cap Of(Holders) = Prepared
    BY <2>1 DEF Open, Prepared
  <2>3. Holders \in SUBSET Holders
    OBVIOUS
  <2>4. QED
    BY <1>1, <2>2, <2>3, ReservesOf DEF LedgerTotal, GrossOf
<1>3. ASSUME NEW f, NEW w, NEW k,
             \A p \in Settled(records) : w[p] \in Nat /\ k[p] \in Holders,
             \A h \in Holders : ledger[h][f] = Total(Class(Settled(records), k, h), w)
      PROVE  LedgerTotal(f) = Total(Settled(records), w)
  <2> DEFINE S == Settled(records)
             v == [h \in Holders |-> ledger[h][f]]
  <2>1. IsFiniteSet(S) /\ IsFiniteSet(Holders)
    BY <1>1, RecordFacts, SeededProps DEF Settled
  <2>2. \A h \in Holders : v[h] = Total(Class(S, k, h), w)
    BY <1>3
  <2> HIDE DEF S, v
  <2>3. Total(Holders, v) = Total(S, w)
    BY <1>3, <2>1, <2>2, TotalPartition DEF S
  <2>4. QED
    BY <2>3 DEF LedgerTotal, S, v
<1>4. /\ LedgerTotal("received") = total_settled
      /\ LedgerTotal("fees_paid") = total_fees /\ LedgerTotal("fees_earned") = total_fees
  <2> DEFINE from == [p \in DOMAIN records |-> Holder(records[p])]
             to   == [p \in DOMAIN records |-> <<records[p].recipient, records[p].asset>>]
             by   == [p \in DOMAIN records |-> <<records[p].operator_account, records[p].asset>>]
             n    == Nets(records)
             f    == Fees(records)
             S    == Settled(records)
  <2>1. \A p \in S : /\ n[p] \in Nat /\ f[p] \in Nat
                     /\ from[p] \in Holders /\ to[p] \in Holders /\ by[p] \in Holders
    <3>1. \A p \in S : p \in DOMAIN records /\ records[p] \in Record
      BY <1>1, RecordFacts DEF Settled
    <3>2. QED
      BY <1>1, <3>1, TableProps, AmountTypes, RecordFacts
  <2>2. \A h \in Holders : /\ SettledFrom(records, h) = Class(S, from, h)
                           /\ PaidTo(records, h) = Class(S, to, h)
                           /\ ServedBy(records, h) = Class(S, by, h)
    BY DEF SettledFrom, PaidTo, ServedBy, Class, Settled
  <2>3. \A h \in Holders : /\ ledger[h]["received"] = Total(Class(S, to, h), n)
                           /\ ledger[h]["fees_paid"] = Total(Class(S, from, h), f)
                           /\ ledger[h]["fees_earned"] = Total(Class(S, by, h), f)
    BY <1>1, <2>2 DEF CreditsReconcile
  <2> HIDE DEF from, to, by, n, f
  <2>4. LedgerTotal("received") = Total(S, n)
    BY <1>3, <2>1, <2>3
  <2>5. LedgerTotal("fees_paid") = Total(S, f) /\ LedgerTotal("fees_earned") = Total(S, f)
    BY <1>3, <2>1, <2>3
  <2>6. QED
    BY <1>1, <2>4, <2>5 DEF CreditsReconcile, n, f
<1>5. LedgerTotal("available") + LedgerTotal("observed_locked")
        = total_seeded + GrossOf(PaidAfterRelease)
  <2> DEFINE P      == PaidAfterRelease
             second == [h \in seeded |-> h[2]]
             asset  == [p \in P |-> records[p].asset]
             free   == [a \in Assets |-> AssetTotal(a, "available")]
             locked == [a \in Assets |-> AssetTotal(a, "observed_locked")]
             funds  == [a \in Assets |-> Total(Class(seeded, second, a), Seed)]
             again  == [a \in Assets |-> Total(Class(P, asset, a), Grosses(records))]
             base   == [a \in Assets |-> OperatingBase(a)]
  <2>1. /\ IsFiniteSet(Assets) /\ IsFiniteSet(seeded) /\ IsFiniteSet(P)
        /\ \A h \in seeded : Seed[h] \in Nat /\ second[h] \in Assets
        /\ \A p \in P : Grosses(records)[p] \in Nat /\ asset[p] \in Assets
    <3>1. P \in SUBSET DOMAIN records
      BY DEF PaidAfterRelease, Settled
    <3>2. \A h \in seeded : h \in DOMAIN Seed /\ h \in Holders
      BY <1>1, SeededProps DEF TypeOK
    <3>3. \A p \in P : records[p] \in Record
      BY <1>1, <3>1, RecordFacts
    <3>4. QED
      BY <1>1, <3>1, <3>2, <3>3, RecordFacts, SeededProps, LedgerAssumption DEF Holders, Record
  <2>2. \A a \in Assets : /\ Class(seeded, second, a) = {h \in seeded : h[2] = a}
                          /\ Class(P, asset, a) = InAsset(a) \cap P
    BY DEF Class, InAsset, PaidAfterRelease, Settled
  <2>3. \A a \in Assets : /\ base[a] = free[a] + locked[a] /\ base[a] = funds[a] + again[a]
                          /\ free[a] \in Nat /\ locked[a] \in Nat
    BY <2>2, AssetPlanes DEF GrossOf
  <2>4. \A a \in Assets : funds[a] \in Nat /\ again[a] \in Nat
    <3> SUFFICES ASSUME NEW a \in Assets PROVE funds[a] \in Nat /\ again[a] \in Nat
      OBVIOUS
    <3>1. Class(seeded, second, a) \in SUBSET seeded /\ Class(P, asset, a) \in SUBSET P
      BY DEF Class
    <3> HIDE DEF P, second, asset
    <3>2. IsFiniteSet(Class(seeded, second, a)) /\ IsFiniteSet(Class(P, asset, a))
      BY <2>1, <3>1, FS_Subset
    <3>3. QED
      BY <2>1, <3>1, <3>2, TotalType
  <2>5. /\ \A a \in Assets : funds[a] = Total(Class(seeded, second, a), Seed)
        /\ \A a \in Assets : again[a] = Total(Class(P, asset, a), Grosses(records))
    OBVIOUS
  <2>6. /\ LedgerTotal("available") = Total(Assets, free)
        /\ LedgerTotal("observed_locked") = Total(Assets, locked)
    BY <1>1, PlaneByAsset DEF Planes
  <2> HIDE DEF P, second, asset, free, locked, funds, again, base
  <2>7. Total(Assets, base) = Total(Assets, free) + Total(Assets, locked)
    BY <2>1, <2>3, TotalPlus
  <2>8. Total(Assets, base) = Total(Assets, funds) + Total(Assets, again)
    BY <2>1, <2>3, <2>4, TotalPlus
  <2>9. Total(Assets, funds) = Total(seeded, Seed)
    BY <2>1, <2>5, TotalPartition
  <2>10. Total(Assets, again) = Total(P, Grosses(records))
    BY <2>1, <2>5, TotalPartition
  <2>11. QED
    BY <1>1, <2>6, <2>7, <2>8, <2>9, <2>10 DEF CreditsReconcile, GrossOf, P
<1>6. QED
  BY <1>2, <1>4, <1>5

\* The exposures of all assets together are what waits and is late, and what was
\* paid after its return.
LEMMA WholeExposure ==
  ASSUME IInv, failure = "none"
  PROVE  /\ Total(Assets, [a \in Assets |-> TimeoutExposure(a)])
              \in 0 .. GrossOf(Prepared) + GrossOf(PaidAfterRelease)
         /\ \A a \in Assets :
              TimeoutExposure(a) \in 0 .. GrossOf(Prepared) + GrossOf(PaidAfterRelease)
         /\ GrossOf(Prepared) \in Nat /\ GrossOf(PaidAfterRelease) \in Nat /\ GrossOf(Open) \in Nat
<1> DEFINE E     == {p \in DOMAIN records : Exposed(p)}
           P     == Prepared
           Q     == PaidAfterRelease
           w     == Grosses(records)
           asset == [p \in E |-> records[p].asset]
           v     == [a \in Assets |-> TimeoutExposure(a)]
<1>1. \A p \in DOMAIN records :
        /\ IsSettled(records[p]) <=> ~(records[p].confirmed_status = "prepared")
        /\ IsSettled(records[p]) => records[p].observed_status # "open"
  BY RecordFacts DEF IsSettled, PlanesOf
<1>2. E \subseteq P \cup Q /\ P \cap Q = {} /\ Open \in SUBSET DOMAIN records
      /\ P \in SUBSET DOMAIN records /\ Q \in SUBSET DOMAIN records /\ E \in SUBSET DOMAIN records
  BY <1>1 DEF Exposed, Prepared, PaidAfterRelease, Settled, Open
<1>3. /\ GrossOf(P \cup Q) = GrossOf(P) + GrossOf(Q)
      /\ GrossOf(P) \in Nat /\ GrossOf(Q) \in Nat
  BY <1>2, GrossSplit
<1>a. GrossOf(Open) \in Nat
  <2>1. {} \in SUBSET DOMAIN records /\ Open \cap {} = {}
    OBVIOUS
  <2>2. QED
    BY <1>2, <2>1, GrossSplit
<1>4. /\ IsFiniteSet(E) /\ IsFiniteSet(P \cup Q) /\ IsFiniteSet(Assets)
      /\ \A p \in P \cup Q : w[p] \in Nat
      /\ \A p \in E : w[p] \in Nat /\ asset[p] \in Assets
  <2>1. \A p \in E : records[p].asset \in Assets
    <3>1. \A p \in E : records[p] \in Record
      BY <1>2, RecordFacts
    <3>2. QED
      BY <3>1 DEF Record
  <2>2. P \cup Q \in SUBSET DOMAIN records
    BY <1>2
  <2>3. QED
    BY <1>2, <2>1, <2>2, RecordFacts, LedgerAssumption
<1>5. \A a \in Assets : v[a] = Total(Class(E, asset, a), w) /\ Class(E, asset, a) \in SUBSET E
  <2>1. \A a \in Assets : Class(E, asset, a) = {p \in InAsset(a) : Exposed(p)}
    BY DEF Class, InAsset
  <2>2. \A a \in Assets : Class(E, asset, a) \in SUBSET E
    BY DEF Class
  <2>3. QED
    BY <2>1, <2>2 DEF TimeoutExposure
<1>b. \A a \in Assets : v[a] = TimeoutExposure(a)
  OBVIOUS
<1> HIDE DEF E, P, Q, w, asset, v
<1>6. Total(Assets, v) = Total(E, w)
  BY <1>4, <1>5, TotalPartition
<1>7. Total(E, w) <= Total(P \cup Q, w) /\ Total(E, w) \in Nat
  BY <1>2, <1>4, TotalMonotone, TotalType
<1>8. ASSUME NEW a \in Assets
      PROVE  TimeoutExposure(a) <= Total(P \cup Q, w) /\ TimeoutExposure(a) \in Nat
  <2> DEFINE C == Class(E, asset, a)
  <2>1. C \in SUBSET (P \cup Q) /\ TimeoutExposure(a) = Total(C, w)
    BY <1>2, <1>5, <1>b
  <2> HIDE DEF C
  <2>2. IsFiniteSet(C) /\ \A p \in C : w[p] \in Nat
    BY <1>4, <2>1, FS_Subset
  <2>3. QED
    BY <1>4, <2>1, <2>2, TotalMonotone, TotalType
<1>9. Total(P \cup Q, w) = GrossOf(P) + GrossOf(Q)
  BY <1>3 DEF GrossOf, w
<1>10. ASSUME NEW a \in Assets PROVE TimeoutExposure(a) \in 0 .. GrossOf(P) + GrossOf(Q)
  <2> DEFINE t == TimeoutExposure(a)
             n == GrossOf(P) + GrossOf(Q)
  <2>1. t <= n /\ t \in Nat
    BY <1>8, <1>9
  <2>2. n \in Nat
    BY <1>3
  <2> HIDE DEF t, n
  <2>3. t \in 0 .. n
    BY <2>1, <2>2
  <2>4. QED
    BY <2>3 DEF t, n
<1>11. Total(Assets, v) \in 0 .. GrossOf(P) + GrossOf(Q)
  BY <1>3, <1>6, <1>7, <1>9
<1>12. QED
  BY <1>3, <1>a, <1>10, <1>11 DEF P, Q, v

\* Every bucket of the queue is a part of the commitments.
LEMMA BucketsBelow ==
  ASSUME IInv, failure = "none"
  PROVE  /\ Pending = Prepared
         /\ \A b \in {"ready", "waiting", "timed_out"} : Gross(b) <= GrossOf(Prepared)
<1>1. \A p \in DOMAIN records :
        p \in Pending <=> records[p].confirmed_status = "prepared"
  BY BucketMeans, RecordFacts DEF Pending, InBucket
<1>2. Pending = Prepared
  BY <1>1 DEF Pending, InBucket, Prepared
<1>3. ASSUME NEW b \in {"ready", "waiting", "timed_out"} PROVE Gross(b) <= GrossOf(Prepared)
  <2>1. InBucket(b) \in SUBSET Prepared
    BY <1>2 DEF Pending
  <2>2. Prepared \in SUBSET DOMAIN records
    BY DEF Prepared
  <2>3. IsFiniteSet(Prepared) /\ \A p \in Prepared : Grosses(records)[p] \in Nat
    BY <2>2, RecordFacts
  <2>4. QED
    BY <2>1, <2>3, TotalMonotone DEF Gross, GrossOf
<1>4. QED
  BY <1>2, <1>3

LEMMA ReportsFit ==
  ASSUME BooksInv
  PROVE  ReportsWithinLimits
<1> DEFINE again == GrossOf(PaidAfterRelease)
           open  == GrossOf(Open)
           kept  == GrossOf(Prepared)
<1> SUFFICES ASSUME failure = "none",
                    Fits(total_seeded + again + total_settled + total_fees),
                    Fits(open + kept), Fits(kept + again)
             PROVE  /\ Exit("json") = 0
                    /\ Fits(total_seeded + again + kept) => Exit("plain") = 0
  <2>1. failure = "none" =>
          /\ Total({p \in DOMAIN records : records[p].observed_status = "open"},
                   Grosses(records)) = open
          /\ GrossOf(Pending) = kept
    BY BucketsBelow DEF BooksInv, GrossOf, Open
  <2> HIDE DEF again, open, kept
  <2>2. QED
    BY <2>1 DEF ReportsWithinLimits, again
<1>1. IInv /\ TypeOK
  BY DEF BooksInv, IInv
<1>2. /\ again \in Nat /\ open \in Nat /\ kept \in Nat
      /\ total_seeded \in Nat /\ total_settled \in Nat /\ total_fees \in Nat /\ MaxAmount \in Nat
  BY <1>1, WholeExposure, AmountTypes, MaxAmountAssumption
<1> DEFINE free == LedgerTotal("available")
<1>3. /\ free + open = total_seeded + again /\ free \in Nat
      /\ LedgerTotal("observed_locked") = open /\ LedgerTotal("confirmed_locked") = kept
      /\ LedgerTotal("received") = total_settled
      /\ LedgerTotal("fees_paid") = total_fees /\ LedgerTotal("fees_earned") = total_fees
  BY <1>1, WholeLedger, PlaneByAsset DEF Planes
<1>4. ASSUME NEW a \in Assets, NEW f \in Planes
      PROVE  AssetTotal(a, f) \in Nat /\ AssetTotal(a, f) <= LedgerTotal(f)
  BY <1>1, PlaneByAsset
<1>5. /\ Total(Assets, [a \in Assets |-> TimeoutExposure(a)]) \in 0 .. kept + again
      /\ \A a \in Assets : TimeoutExposure(a) \in 0 .. kept + again
  BY <1>1, WholeExposure
<1>6. \A b \in {"ready", "waiting", "timed_out"} : Gross(b) <= kept
  BY <1>1, BucketsBelow
<1>7. /\ Summary.observed_locked = LedgerTotal("observed_locked")
      /\ Summary.confirmed_locked = LedgerTotal("confirmed_locked")
  BY DEF Summary, LedgerTotal
<1> HIDE DEF again, open, kept, free
<1>9. /\ total_seeded + again + total_settled + total_fees <= MaxAmount
      /\ open + kept <= MaxAmount /\ kept + again <= MaxAmount
  BY DEF Fits
<1>10. SummaryFits
  BY <1>2, <1>3, <1>7, <1>9 DEF SummaryFits, Fits
<1>11. \A f \in Planes : Fits(LedgerTotal(f))
  BY <1>2, <1>3, <1>9 DEF Planes, Fits, free
<1>12. AuditFits
  BY <1>11 DEF AuditFits, Planes
<1>13. ASSUME NEW a \in Assets
       PROVE  /\ \A f \in Planes : Fits(AssetTotal(a, f))
              /\ Fits(AssetTotal(a, "available") + AssetTotal(a, "received"))
              /\ Fits(AssetTotal(a, "observed_locked") + AssetTotal(a, "confirmed_locked"))
              /\ Fits(OperatingBase(a))
  <2>1. \A f \in Planes : AssetTotal(a, f) \in Nat /\ AssetTotal(a, f) <= LedgerTotal(f)
                          /\ LedgerTotal(f) \in Nat
    BY <1>1, <1>4, PlaneByAsset
  <2>2. \A f \in Planes : Fits(AssetTotal(a, f))
    BY <1>2, <1>11, <2>1 DEF Fits
  <2>3. /\ AssetTotal(a, "available") \in Nat /\ AssetTotal(a, "available") <= free
        /\ AssetTotal(a, "received") \in Nat /\ AssetTotal(a, "received") <= total_settled
        /\ AssetTotal(a, "observed_locked") \in Nat /\ AssetTotal(a, "observed_locked") <= open
        /\ AssetTotal(a, "confirmed_locked") \in Nat /\ AssetTotal(a, "confirmed_locked") <= kept
    BY <1>3, <2>1 DEF Planes, free
  <2>4. QED
    BY <1>2, <1>3, <1>9, <2>2, <2>3 DEF Fits, OperatingBase
<1>14. ReconciliationFits
  BY <1>13 DEF ReconciliationFits
<1>15. QueueFits
  <2> SUFFICES ASSUME NEW b \in {"ready", "waiting", "timed_out"} PROVE Gross(b) <= MaxAmount
    BY DEF QueueFits, Fits
  <2>1. InBucket(b) \in SUBSET DOMAIN records
    BY DEF InBucket
  <2>2. IsFiniteSet(InBucket(b)) /\ \A p \in InBucket(b) : Grosses(records)[p] \in Nat
    BY <1>1, <2>1, RecordFacts
  <2>3. Gross(b) \in Nat
    BY <2>2, TotalType DEF Gross
  <2>4. QED
    BY <1>2, <1>6, <1>9, <2>3
<1>16. CapitalFits
  BY <1>2, <1>3, <1>5, <1>9, <1>13 DEF CapitalFits, Fits, free
<1>17. JsonFits
  BY <1>10, <1>12, <1>14, <1>15, <1>16 DEF JsonFits
<1>18. ASSUME total_seeded + again + kept <= MaxAmount PROVE ExposuresFit
  <2> SUFFICES ASSUME NEW h \in Holders
               PROVE  ledger[h]["available"] + ledger[h]["observed_locked"]
                        + ledger[h]["confirmed_locked"] <= MaxAmount
    BY DEF ExposuresFit, Fits
  <2>1. /\ ledger[h]["available"] \in Nat /\ ledger[h]["available"] <= free
        /\ ledger[h]["observed_locked"] \in Nat /\ ledger[h]["observed_locked"] <= open
        /\ ledger[h]["confirmed_locked"] \in Nat /\ ledger[h]["confirmed_locked"] <= kept
    BY <1>1, <1>3, PlaneByAsset DEF Planes, free
  <2>2. QED
    BY <1>2, <1>3, <1>18, <2>1
<1>19. QED
  BY <1>10, <1>17, <1>18 DEF Exit, PlainFits, Commands, Fits

\* The JSON report is built whenever three sums of the records' figures fit, the
\* plain one whenever a fourth does too: no other sum that a block takes, over any
\* accounts, assets and packets, is larger than these.
THEOREM ReportsCorrect ==
  Spec => []ReportsWithinLimits
BY BooksAlways, ReportsFit, PTL
=============================================================================
