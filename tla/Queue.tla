------------------------------- MODULE Queue --------------------------------
(***************************************************************************)
(* SettlementQueue (settlement/queue.cpp), the scores it sorts by          *)
(* (domain/priority.cpp) and the windows of Timeline                       *)
(* (settlement/timeline.cpp).  A queue is built from the records for one   *)
(* report and thrown away, so it is a set of operators over the engine's   *)
(* state and has none of its own.                                          *)
(***************************************************************************)
EXTENDS EngineProperties, SequencesExt

CONSTANT PacketOrder  \* the place of a packet id in the order of its text

PriorityWeight == [low |-> 10, normal |-> 20, high |-> 40, critical |-> 80]

ASSUME QueueAssumption ==
  /\ PacketOrder \in [Packets -> Int]
  /\ \A p, q \in Packets : PacketOrder[p] = PacketOrder[q] => p = q
  /\ Priorities \subseteq DOMAIN PriorityWeight

-----------------------------------------------------------------------------
(* Scores, windows and buckets of one record r at epoch now.               *)

\* Faulty variant: age is forgotten.
AgeWeightNone(r, now) == 0

AgeWeight(r, now) ==
  IF now > r.observed_epoch THEN Wrapped(2 * (now - r.observed_epoch)) ELSE 0

TimeoutWeight(r, now) ==
  IF now >= r.timeout_epoch THEN Wrapped(25 + Wrapped(now - r.timeout_epoch))
  ELSE IF r.timeout_epoch - now <= 2 THEN 10
  ELSE 0

\* score_priority
Score(r, now) ==
  Wrapped(Wrapped(PriorityWeight[r.priority] + AgeWeight(r, now)) + TimeoutWeight(r, now))

\* Timeline::classify
Delivery(r, now, grace) ==
  IF now < r.observed_epoch THEN "early"
  ELSE IF now < r.timeout_epoch THEN "on_time"
  ELSE IF now <= Wrapped(r.timeout_epoch + grace) THEN "grace"
  ELSE IF now <= Wrapped(r.timeout_epoch + grace + 1) THEN "late"
  ELSE "expired"

ConfirmationWindowOpen(r, now, grace) == Delivery(r, now, grace) \in {"on_time", "grace", "late"}

\* Faulty variant: the window opens one epoch after the timeout.
CancellationWindowLate(r, now) == r.observed_status = "open" /\ now > r.timeout_epoch

CancellationWindowOpen(r, now) == r.observed_status = "open" /\ now >= r.timeout_epoch

\* Faulty variant: expiry is looked at before settlement.
BucketExpiryFirst(r, now) ==
  IF r.observed_status = "cancelled" \/ now >= r.timeout_epoch THEN "timed_out"
  ELSE IF r.confirmed_status \in {"settled", "released"} THEN "closed"
  ELSE "ready"

\* Faulty variant: a cancelled packet only leaves with its timeout.
BucketCancelledWaits(r, now) ==
  IF r.confirmed_status \in {"settled", "released"} THEN "closed"
  ELSE IF now >= r.timeout_epoch THEN "timed_out"
  ELSE IF r.observed_status = "open" /\ r.confirmed_status = "prepared" THEN "ready"
  ELSE "waiting"

\* SettlementQueue::classify
Bucket(r, now) ==
  IF r.confirmed_status \in {"settled", "released"} THEN "closed"
  ELSE IF r.observed_status = "cancelled" \/ now >= r.timeout_epoch THEN "timed_out"
  ELSE IF r.observed_status = "open" /\ r.confirmed_status = "prepared" THEN "ready"
  ELSE "waiting"

BucketRank == [ready |-> 0, waiting |-> 1, timed_out |-> 2, closed |-> 3]

-----------------------------------------------------------------------------
(* The queue of the current state.                                         *)

BucketOf(p) == Bucket(records[p], epoch)
ScoreOf(p)  == Score(records[p], epoch)
InBucket(b) == {p \in DOMAIN records : BucketOf(p) = b}

\* Keys of integers compared by their first difference.
Less(a, b) == \E i \in DOMAIN a : a[i] < b[i] /\ \A j \in 1 .. i - 1 : a[j] = b[j]

\* Faulty variant: the comparison of ordered() without its last key.
SortKeyNoId(p) == <<BucketRank[BucketOf(p)], -ScoreOf(p), records[p].timeout_epoch>>

SortKey(p) ==
  <<BucketRank[BucketOf(p)], -ScoreOf(p), records[p].timeout_epoch, PacketOrder[p]>>

Before(p, q) == Less(SortKey(p), SortKey(q))

\* What a sort by that comparison may return, in whatever order it leaves equals.
Orders ==
  {s \in SetToSeqs(DOMAIN records) : \A i, j \in DOMAIN s : i < j => ~Before(s[j], s[i])}

Ordered == CHOOSE s \in Orders : TRUE

\* next_ready is a stable sort of its own: ties keep the order of the record map.
ReadyKey(p) == <<-ScoreOf(p), records[p].observed_epoch, PacketOrder[p]>>

NextReady == {p \in InBucket("ready") :
                \A q \in InBucket("ready") \ {p} : Less(ReadyKey(p), ReadyKey(q))}

\* stats()
Gross(b) == Total(InBucket(b), Grosses(records))

-----------------------------------------------------------------------------
(* What the queue must say.                                                *)

Pending == InBucket("ready") \cup InBucket("waiting") \cup InBucket("timed_out")
OpenPast == {p \in DOMAIN records : CancellationWindowOpen(records[p], epoch)}

\* The queue accounts for the ledger's commitments: what is ready, waiting and
\* timed out is the whole confirmed reserve, and what is ready or expired while
\* open is the whole observed one.
QueueMatchesLedger ==
  failure = "none" =>
    /\ Gross("ready") + Gross("waiting") + Gross("timed_out")
         = Total(Holders, [h \in Holders |-> ledger[h]["confirmed_locked"]])
    /\ Gross("ready") + Total(OpenPast, Grosses(records))
         = Total(Holders, [h \in Holders |-> ledger[h]["observed_locked"]])

\* The queue's order is settled by its keys alone: there is one way to sort the
\* packets, in which of any two exactly one comes first, so a report of the same
\* scenario lists them the same way whatever the sort does with equal elements.
\* The one next ready packet, found by keys of its own, is as urgent as the head.
OrderIsDeterministic ==
  failure = "none" =>
    /\ Orders = {Ordered}
    /\ \A i, j \in DOMAIN Ordered : i < j <=> Before(Ordered[i], Ordered[j])
    /\ InBucket("ready") # {} =>
         /\ Cardinality(NextReady) = 1
         /\ \A p \in NextReady : ScoreOf(p) = ScoreOf(Ordered[1])

\* Among packets of one priority in one bucket, the one that has waited longer
\* and does not expire later goes first, however their lanes and retries differ:
\* unless its deadline has wrapped, after which its score may wrap as well.
OlderGoesFirst ==
  failure = "none" =>
    \A p, q \in DOMAIN records :
      /\ BucketOf(p) = BucketOf(q) /\ records[p].priority = records[q].priority
      /\ records[p].observed_epoch < records[q].observed_epoch
      /\ 0 <= records[p].timeout_epoch /\ records[p].timeout_epoch <= records[q].timeout_epoch
      /\ epoch >= records[q].observed_epoch
      => Before(p, q)

\* The engine, the timeline and the queue each decide on their own that a
\* packet has expired; a plain cancellation succeeds exactly for the packets
\* that the others call expired, a ready packet is one delivered in time, and an
\* open one has, at every epoch to come, a window for confirming or cancelling.
TimeoutViewsAgree ==
  failure = "none" =>
    \A p \in DOMAIN records :
      LET r == records[p] IN
      /\ \A e \in epoch .. MaxEpoch :
           CancelError(p, e, FALSE) = "none"
             <=> lanes[r.lane].allow_manual_cancel /\ CancellationWindowOpen(r, e)
      /\ \A e \in epoch .. MaxEpoch :
           r.observed_status = "open" =>
             ConfirmationWindowOpen(r, e, 1) \/ CancellationWindowOpen(r, e)
      /\ BucketOf(p) = "ready"
           <=> r.observed_status = "open" /\ Delivery(r, epoch, 1) = "on_time"
      /\ r.observed_status = "open" =>
           (BucketOf(p) = "timed_out" <=> Delivery(r, epoch, 1) \in {"grace", "late", "expired"})

\* A packet leaves the closed bucket never, and the timed-out bucket only by
\* settling or by a retry that counts as a new attempt; nobody ever waits.
BucketMoves ==
  [][failure' = "none" =>
       \A p \in DOMAIN records :
         LET before == Bucket(records[p], epoch)
             after  == Bucket(records'[p], epoch')
         IN  /\ before = "closed" => after = "closed"
             /\ after # "waiting"
             /\ before = "timed_out" /\ after = "ready" =>
                  records'[p].attempt = records[p].attempt + 1]_vars

\* A packet the queue still lists as pending can always be confirmed: only an
\* amount too large for the ledger makes its confirmation fail.
PendingConfirms ==
  [][\A p \in Packets, k \in Acks :
       failure = "none" /\ p \in Pending /\ Confirm(p, k, epoch')
         => failure' \in {"none", "ArithmeticOverflow"}]_vars
=============================================================================
