-------------------------- MODULE EngineProperties --------------------------
(***************************************************************************)
(* What SettlementEngine must keep true.  A run that has failed has thrown *)
(* its engine away (main.cpp reports the error and exits), so accounts are *)
(* only required to balance while failure is "none": that is what a report *)
(* is built from.                                                          *)
(***************************************************************************)
EXTENDS Engine, Sums

\* The state every handler works on is well formed, also after a throw.
TypeOK ==
  /\ epoch \in Epochs
  /\ seeded \subseteq DOMAIN Seed
  /\ DOMAIN lanes \subseteq DeclaredLanes
  /\ \A l \in DOMAIN lanes : lanes[l] \in LaneConfigs /\ lanes[l].id = l /\ ValidLane(lanes[l])
  /\ ledger \in [Holders -> Balance]
  /\ DOMAIN records \subseteq Packets
  /\ \A p \in DOMAIN records : records[p] \in Record
  /\ events \in Seq([kind : EventKinds, epoch : Epochs, packet : Packets \cup {"system"},
                     lane : LaneIds \cup {"system"}, amount : Amount])
  /\ {total_seeded, total_settled, total_fees} \subseteq Amount
  /\ duplicate_confirmations \in 0 .. MaxDuplicates
  /\ failure \in Errors \cup {"none"}

-----------------------------------------------------------------------------
(* The ledger against the records.                                         *)

\* The weights and the selections are taken of a record table R, so that they
\* can be asked of the table before and after a step alike.
Grosses(R) == [p \in DOMAIN R |-> R[p].gross]
Nets(R)    == [p \in DOMAIN R |-> R[p].net]
Fees(R)    == [p \in DOMAIN R |-> R[p].fee]

IsSettled(r) == r.confirmed_status = "settled"

Settled(R)         == {p \in DOMAIN R : IsSettled(R[p])}
OpenFrom(R, h)     == {p \in DOMAIN R : Holder(R[p]) = h /\ R[p].observed_status = "open"}
PreparedFrom(R, h) == {p \in DOMAIN R : Holder(R[p]) = h /\ R[p].confirmed_status = "prepared"}
DebitedFrom(R, h)  == {p \in DOMAIN R : /\ Holder(R[p]) = h
                                        /\ R[p].observed_status \in {"open", "consumed"}}
SettledFrom(R, h)  == {p \in Settled(R) : Holder(R[p]) = h}
PaidTo(R, h)       == {p \in Settled(R) : <<R[p].recipient, R[p].asset>> = h}
ServedBy(R, h)     == {p \in Settled(R) : <<R[p].operator_account, R[p].asset>> = h}

\* Every holder's observed reserve is exactly the gross of its open packets
\* and its confirmed reserve that of its packets awaiting confirmation,
\* whatever submits, cancellations, retries and confirmations came before.
ReservesMatch ==
  failure = "none" =>
    \A h \in Holders :
      /\ ledger[h]["observed_locked"] = Total(OpenFrom(records, h), Grosses(records))
      /\ ledger[h]["confirmed_locked"] = Total(PreparedFrom(records, h), Grosses(records))

SeedOf(h) == IF h \in seeded THEN Seed[h] ELSE 0

\* Spendable funds are the declared funds, less what open or consumed packets
\* took, plus what settled packets paid in: nothing is credited twice, and a
\* cancellation gives back exactly what the packet had reserved.
AvailableReconciles ==
  failure = "none" =>
    \A h \in Holders :
      ledger[h]["available"] + Total(DebitedFrom(records, h), Grosses(records))
        = SeedOf(h) + Total(PaidTo(records, h), Nets(records)) + Total(ServedBy(records, h), Fees(records))

\* The informative planes and the totals of the report count every settled
\* packet once, and source, recipient, operator and totals agree on it.
CreditsReconcile ==
  failure = "none" =>
    /\ \A h \in Holders :
         /\ ledger[h]["received"] = Total(PaidTo(records, h), Nets(records))
         /\ ledger[h]["fees_paid"] = Total(SettledFrom(records, h), Fees(records))
         /\ ledger[h]["fees_earned"] = Total(ServedBy(records, h), Fees(records))
    /\ total_settled = Total(Settled(records), Nets(records))
    /\ total_fees = Total(Settled(records), Fees(records))
    /\ total_seeded = Total(seeded, Seed)

\* The ledger's own guards against releasing, consuming or settling more than
\* is locked (InvariantViolation) never fire, whatever the caller asks for.
NoInternalFault == failure # "InvariantViolation"

\* A deadline lies ahead, or its sum was too large and it has wrapped.
DeadlineAfter(deadline, e) == e < deadline \/ deadline < 0

\* What must hold of one record r while the engine is at epoch now.
PlanesOf(r, now) ==
  /\ r.observed_status # "missing"
  /\ r.confirmed_status \in {"prepared", "settled"}
  /\ IsSettled(r) => r.observed_status # "open"
  /\ r.observed_status = "consumed" => IsSettled(r)
  /\ r.observed_sequence = (IF r.observed_status = "consumed" THEN 1 ELSE 0)
  /\ r.confirmed_sequence = (IF IsSettled(r) THEN 1 ELSE 0)
  /\ r.acknowledgements # {} <=> IsSettled(r)
  /\ r.observed_epoch <= r.last_update_epoch /\ r.last_update_epoch <= now
  /\ DeadlineAfter(r.timeout_epoch, r.observed_epoch)

\* The two planes of one packet: a settled packet has no open observed plane,
\* the observed plane is consumed only by settling, a packet settles at most
\* once, only a settled packet holds acknowledgements, and no deadline has passed
\* before its packet opened but one that an overflow has made negative.
PlanesAgree == failure = "none" => \A p \in DOMAIN records : PlanesOf(records[p], epoch)

-----------------------------------------------------------------------------
(* What a step may never do.                                               *)

\* What a retry keeps: the amounts, the accounts and the channel.
Terms(r) == <<r.source, r.recipient, r.asset, r.operator_account, r.lane, r.gross, r.net, r.fee>>

\* A record without the acknowledgements it holds.
WithoutAcks(r) == [r EXCEPT !.acknowledgements = {}]

\* What a call that ends at epoch now may make of the record old.
Continued(old, new, now) ==
  /\ Terms(new) = Terms(old)
  /\ IsSettled(old) => WithoutAcks(new) = WithoutAcks(old)
  /\ new.attempt # old.attempt =>
       /\ new.attempt = old.attempt + 1
       /\ old.observed_status = "cancelled" /\ new.observed_status = "open"
       /\ DeadlineAfter(new.timeout_epoch, now)
  /\ old.observed_status = "cancelled" /\ new.observed_status = "open" =>
       new.attempt # old.attempt

\* No later call changes the terms a packet was opened with, reopens a settled
\* packet or forgets a packet; an attempt is added only by turning a cancelled
\* packet open again, with a deadline that is still ahead unless it has wrapped.
PacketHistory ==
  [][\A p \in DOMAIN records :
       p \in DOMAIN records' /\ Continued(records[p], records'[p], epoch')]_vars
=============================================================================
