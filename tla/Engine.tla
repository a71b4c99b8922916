------------------------------- MODULE Engine -------------------------------
(***************************************************************************)
(* SettlementEngine (settlement/engine.cpp), with the policy checks of     *)
(* settlement/policy.cpp, driven in the order of ScenarioRunner::run:      *)
(* accounts, then lanes, then actions.                                     *)
(*                                                                         *)
(* A handler that throws a DriftError ends the run: main reports the error *)
(* and exits.  The model keeps what the handler had already changed and    *)
(* records the error in failure, after which no action is enabled.         *)
(* Memos, notes and event messages are left out, and so are the checks for *)
(* empty identifiers, which the parsers have already refused.              *)
(***************************************************************************)
EXTENDS Ledger, Sequences

CONSTANTS
  LaneIds, Packets, Acks, Priorities,
  DeclaredLanes,  \* the lanes the scenario declares; templates may name others
  Seed,           \* the declared balances, a function on some of the holders
  LaneConfigs,    \* the configurations a declared lane may have
  Templates,      \* the packet templates that submit and retry may receive
  StartEpoch,
  MaxEpoch,       \* bound: the last epoch an action may carry
  EpochLimit,     \* the largest Epoch, an int64
  MaxEvents,      \* bound: the length of the event log
  MaxDuplicates   \* bound: how many repeated confirmations are counted

Int64 == -(EpochLimit + 1) .. EpochLimit

\* Faulty variant: the sign bit is lost.
WrappedUnsigned(x) == IF x > EpochLimit THEN x - (EpochLimit + 1) ELSE x

\* The sum of two numbers of Int64 as the machine has it; nothing checks it.
Wrapped(x) == IF x > EpochLimit THEN x - 2 * (EpochLimit + 1) ELSE x

\* What the loader makes of a lane and its policy: amounts that are negative have
\* been refused, the other limits can be any integer.
LaneConfig ==
  [id : DeclaredLanes, asset : Assets, operator_account : Accounts,
   timeout_epochs : Int64, fee_bps : Int, max_retries : Int,
   min_packet_amount : Amount, max_packet_amount : Amount,
   allow_manual_cancel : BOOLEAN, require_unique_ack : BOOLEAN]

PacketTemplate ==
  [packet : Packets, lane : LaneIds, source : Accounts, recipient : Accounts,
   amount : Amount, priority : Priorities]

\* The declared balances: an account has at most one of each asset.
BalanceConfig(seed) ==
  DOMAIN seed \subseteq Holders /\ \A h \in DOMAIN seed : seed[h] \in Amount

ASSUME EngineAssumption ==
  /\ StartEpoch \in Nat /\ MaxEpoch \in Nat /\ StartEpoch <= MaxEpoch
  /\ EpochLimit \in Nat /\ MaxEpoch <= EpochLimit
  /\ MaxEvents \in Nat /\ MaxDuplicates \in Nat
  /\ IsFiniteSet(Packets)
  /\ DeclaredLanes \subseteq LaneIds
  /\ BalanceConfig(Seed)
  /\ LaneConfigs \subseteq LaneConfig
  /\ Templates \subseteq PacketTemplate

VARIABLES
  epoch,
  seeded,         \* the holders whose balance register_account has seeded
  lanes,
  ledger,
  records,
  events,
  total_seeded, total_settled, total_fees,
  duplicate_confirmations,
  failure         \* "none", or the error that ended the run

totals == <<total_seeded, total_settled, total_fees, duplicate_confirmations>>
vars == <<epoch, seeded, lanes, ledger, records, events, totals, failure>>

Epochs == StartEpoch .. MaxEpoch

ObservedStatus  == {"missing", "open", "cancelled", "consumed"}
ConfirmedStatus == {"missing", "prepared", "settled", "released"}

Record ==
  [lane : LaneIds, asset : Assets, source : Accounts, recipient : Accounts,
   operator_account : Accounts, priority : Priorities,
   gross : Amount, net : Amount, fee : Amount,
   observed_epoch : Epochs, last_update_epoch : Epochs, timeout_epoch : Int,
   observed_sequence : Nat, confirmed_sequence : Nat, attempt : Nat,
   observed_status : ObservedStatus, confirmed_status : ConfirmedStatus,
   acknowledgements : SUBSET Acks]

EventKinds == {"account_seeded", "lane_registered", "packet_submitted",
               "packet_retried", "packet_confirmed", "packet_cancelled",
               "duplicate_confirmation", "epoch_advanced", "snapshot"}

Event(kind, e, packet, lane, amount) ==
  [kind |-> kind, epoch |-> e, packet |-> packet, lane |-> lane, amount |-> amount]

Init ==
  /\ epoch = StartEpoch
  /\ seeded = {}
  /\ lanes = << >>
  /\ ledger = EmptyLedger
  /\ records = << >>
  /\ events = << >>
  /\ total_seeded = 0 /\ total_settled = 0 /\ total_fees = 0
  /\ duplicate_confirmations = 0
  /\ failure = "none"

\* std::map::emplace of a new key, or the assignment of an existing one.
Put(f, k, v) == [x \in DOMAIN f \cup {k} |-> IF x = k THEN v ELSE f[x]]

\* Faulty variant: a log that keeps equal events once.
EmitOnce(error, event) ==
  events' = IF error = "none" /\ \A i \in DOMAIN events : events[i] # event
            THEN Append(events, event) ELSE events

\* append_event as the last statement of a handler: a throw never reaches it.
Emit(error, event) == events' = IF error = "none" THEN Append(events, event) ELSE events

-----------------------------------------------------------------------------
(* Registration: the accounts, then the lanes, as ScenarioRunner::run does. *)

Loading == failure = "none" /\ Len(events) < MaxEvents

\* register_account for one declared balance.
RegisterAccount(h) ==
  LET o      == SeedBalance(Begin(ledger), h, Seed[h])
      summed == Require(o, AddFits(total_seeded, Seed[h]), "ArithmeticOverflow")
  IN  /\ Loading /\ h \notin seeded
      /\ ledger' = summed.ledger
      /\ failure' = summed.error
      /\ total_seeded' = IF summed.error = "none" THEN total_seeded + Seed[h] ELSE total_seeded
      /\ seeded' = seeded \cup {h}
      /\ Emit(summed.error, Event("account_seeded", epoch, "system", "system", Seed[h]))
      /\ UNCHANGED <<epoch, lanes, records, total_settled, total_fees, duplicate_confirmations>>

ValidLane(c) ==
  /\ c.timeout_epochs > 0
  /\ c.fee_bps \in 0 .. 2000
  /\ c.max_retries \in 0 .. 20
  /\ c.min_packet_amount <= c.max_packet_amount

\* register_lane; a lane that is already there is refused and kept.
RegisterLane(c) ==
  LET error == IF ValidLane(c) /\ c.id \notin DOMAIN lanes THEN "none" ELSE "PolicyViolation"
  IN  /\ Loading /\ seeded = DOMAIN Seed /\ DOMAIN lanes # DeclaredLanes
      /\ failure' = error
      /\ lanes' = IF error = "none" THEN Put(lanes, c.id, c) ELSE lanes
      /\ Emit(error, Event("lane_registered", epoch, "system", c.id, 0))
      /\ UNCHANGED <<epoch, seeded, ledger, records, totals>>

-----------------------------------------------------------------------------
(* The actions of a scenario. *)

Running == Loading /\ seeded = DOMAIN Seed /\ DOMAIN lanes = DeclaredLanes

\* A throw before the handler changed anything but the epoch (ensure_epoch).
Refuse(error, e) ==
  /\ failure' = error
  /\ epoch' = IF e < epoch THEN epoch ELSE e
  /\ UNCHANGED <<seeded, lanes, ledger, records, events, totals>>

Holder(r) == <<r.source, r.asset>>

AmountAllowed(t) ==
  t.amount \in lanes[t.lane].min_packet_amount .. lanes[t.lane].max_packet_amount

TimeoutFor(l, e) == Wrapped(e + lanes[l].timeout_epochs)

BuildRecord(t, e) ==
  LET c == lanes[t.lane] IN
  [lane |-> t.lane, asset |-> c.asset, source |-> t.source, recipient |-> t.recipient,
   operator_account |-> c.operator_account, priority |-> t.priority,
   gross |-> t.amount, net |-> NetOf(t.amount, c.fee_bps), fee |-> FeeOf(t.amount, c.fee_bps),
   observed_epoch |-> e, last_update_epoch |-> e, timeout_epoch |-> TimeoutFor(t.lane, e),
   observed_sequence |-> 0, confirmed_sequence |-> 0, attempt |-> 0,
   observed_status |-> "open", confirmed_status |-> "prepared",
   acknowledgements |-> {}]

\* build_record, the two reserves and the new record, shared by submit and retry.
OpenFirst(t, e, kind) ==
  \E quoted \in QuoteResults(t.amount, lanes[t.lane].fee_bps) :
    LET r == BuildRecord(t, e)
        q == Require(Begin(ledger), quoted = "none", quoted)
        o == AttachConfirmed(ReserveObserved(q, Holder(r), r.gross), Holder(r), r.gross)
    IN  /\ epoch' = e
        /\ ledger' = o.ledger
        /\ failure' = o.error
        /\ records' = IF o.error = "none" THEN Put(records, t.packet, r) ELSE records
        /\ Emit(o.error, Event(kind, e, t.packet, t.lane, r.gross))
        /\ UNCHANGED <<seeded, lanes, totals>>

\* Faulty variant: submit without the test for an existing packet.
SubmitErrorNoUnique(t, e) ==
  IF e < epoch THEN "InvalidArgument"
  ELSE IF t.lane \notin DOMAIN lanes THEN "UnknownLane"
  ELSE IF ~AmountAllowed(t) THEN "PolicyViolation"
  ELSE "none"

SubmitError(t, e) ==
  IF e < epoch THEN "InvalidArgument"
  ELSE IF t.packet \in DOMAIN records THEN "DuplicatePacket"
  ELSE IF t.lane \notin DOMAIN lanes THEN "UnknownLane"
  ELSE IF ~AmountAllowed(t) THEN "PolicyViolation"
  ELSE "none"

Submit(t, e) ==
  /\ Running
  /\ \/ SubmitError(t, e) # "none" /\ Refuse(SubmitError(t, e), e)
     \/ SubmitError(t, e) = "none" /\ OpenFirst(t, e, "packet_submitted")

\* Faulty variant: retry without the test for a settled packet.
RetryErrorNoClosed(t, e) ==
  IF e < epoch THEN "InvalidArgument"
  ELSE IF t.lane \notin DOMAIN lanes THEN "UnknownLane"
  ELSE IF ~AmountAllowed(t) THEN "PolicyViolation"
  ELSE IF t.packet \notin DOMAIN records THEN "none"
  ELSE IF records[t.packet].observed_status = "open" THEN "PacketNotReady"
  ELSE IF records[t.packet].attempt >= lanes[t.lane].max_retries THEN "RetryLimitExceeded"
  ELSE "none"

RetryError(t, e) ==
  IF e < epoch THEN "InvalidArgument"
  ELSE IF t.lane \notin DOMAIN lanes THEN "UnknownLane"
  ELSE IF ~AmountAllowed(t) THEN "PolicyViolation"
  ELSE IF t.packet \notin DOMAIN records THEN "none"
  ELSE IF records[t.packet].confirmed_status = "settled" THEN "PacketAlreadyClosed"
  ELSE IF records[t.packet].observed_status = "open" THEN "PacketNotReady"
  ELSE IF records[t.packet].attempt >= lanes[t.lane].max_retries THEN "RetryLimitExceeded"
  ELSE "none"

\* The retry limit and the new timeout are those of the template's lane; the
\* record keeps its own.  It is rewritten before the reserve that may fail.
Reopen(t, e) ==
  LET old     == records[t.packet]
      prepare == old.confirmed_status \in {"missing", "released"}
      new     == [old EXCEPT !.attempt = @ + 1,
                             !.observed_epoch = e,
                             !.last_update_epoch = e,
                             !.timeout_epoch = TimeoutFor(t.lane, e),
                             !.observed_status = "open"]
      held    == ReserveObserved(Begin(ledger), Holder(old), old.gross)
      o       == IF prepare THEN AttachConfirmed(held, Holder(old), old.gross) ELSE held
  IN  /\ epoch' = e
      /\ ledger' = o.ledger
      /\ failure' = o.error
      /\ records' = Put(records, t.packet,
                        IF prepare /\ held.error = "none"
                        THEN [new EXCEPT !.confirmed_status = "prepared"] ELSE new)
      /\ Emit(o.error, Event("packet_retried", e, t.packet, t.lane, old.gross))
      /\ UNCHANGED <<seeded, lanes, totals>>

\* The quote of the template, compared with the amount the record holds.
ReopenError(t, quoted) ==
  IF quoted # "none" THEN quoted
  ELSE IF t.amount # records[t.packet].gross THEN "PolicyViolation"
  ELSE "none"

Retry(t, e) ==
  /\ Running
  /\ \/ RetryError(t, e) # "none" /\ Refuse(RetryError(t, e), e)
     \/ /\ RetryError(t, e) = "none"
        /\ t.packet \notin DOMAIN records
        /\ OpenFirst(t, e, "packet_retried")
     \/ /\ RetryError(t, e) = "none"
        /\ t.packet \in DOMAIN records
        /\ \E quoted \in QuoteResults(t.amount, lanes[t.lane].fee_bps) :
             \/ ReopenError(t, quoted) # "none" /\ Refuse(ReopenError(t, quoted), e)
             \/ ReopenError(t, quoted) = "none" /\ Reopen(t, e)

\* A confirmation that only counts as repeated; ack is kept if it is new.
CountDuplicate(p, k, e) ==
  /\ duplicate_confirmations < MaxDuplicates
  /\ epoch' = e
  /\ records' = Put(records, p, [records[p] EXCEPT !.acknowledgements = @ \cup {k}])
  /\ duplicate_confirmations' = duplicate_confirmations + 1
  /\ Emit("none", Event("duplicate_confirmation", e, p, records[p].lane, 0))
  /\ UNCHANGED <<seeded, lanes, ledger, total_seeded, total_settled, total_fees, failure>>

\* The ack is kept, a packet that is not prepared is refused, and then come
\* consume_observed_if_open, settle_confirmed and the closing of the record.
Settle(p, k, e) ==
  LET old      == [records[p] EXCEPT !.acknowledgements = @ \cup {k}]
      open     == old.observed_status = "open"
      ready    == Require(Begin(ledger), old.confirmed_status = "prepared", "PacketNotReady")
      taken    == IF open THEN ConsumeObserved(ready, Holder(old), old.gross) ELSE ready
      consumed == IF open /\ taken.error = "none"
                  THEN [old EXCEPT !.observed_status = "consumed", !.observed_sequence = @ + 1]
                  ELSE old
      paid     == SettleConfirmed(taken, Holder(old), <<old.recipient, old.asset>>,
                                  old.net, old.fee)
      credited == IF old.fee = 0 THEN paid
                  ELSE CreditFee(paid, <<old.operator_account, old.asset>>, old.fee)
      settled  == Require(credited, AddFits(total_settled, old.net), "ArithmeticOverflow")
      o        == Require(settled, AddFits(total_fees, old.fee), "ArithmeticOverflow")
  IN  /\ epoch' = e
      /\ ledger' = o.ledger
      /\ failure' = o.error
      /\ total_settled' = IF settled.error = "none" THEN total_settled + old.net ELSE total_settled
      /\ total_fees' = IF o.error = "none" THEN total_fees + old.fee ELSE total_fees
      /\ records' = Put(records, p,
                        IF o.error = "none"
                        THEN [consumed EXCEPT !.confirmed_status = "settled",
                                              !.confirmed_sequence = @ + 1,
                                              !.last_update_epoch = e]
                        ELSE consumed)
      /\ Emit(o.error, Event("packet_confirmed", e, p, old.lane, old.net))
      /\ UNCHANGED <<seeded, lanes, total_seeded, duplicate_confirmations>>

\* Faulty variant: any acknowledgement of a lane that wants them unique.
RepeatedAckAny(p, k) == lanes[records[p].lane].require_unique_ack

RepeatedAck(p, k) ==
  lanes[records[p].lane].require_unique_ack /\ k \in records[p].acknowledgements

ConfirmError(p, k, e) ==
  IF e < epoch THEN "InvalidArgument"
  ELSE IF p \notin DOMAIN records THEN "UnknownPacket"
  ELSE "none"

Confirm(p, k, e) ==
  /\ Running
  /\ \/ /\ ConfirmError(p, k, e) # "none"
        /\ Refuse(ConfirmError(p, k, e), e)
     \/ /\ ConfirmError(p, k, e) = "none"
        /\ RepeatedAck(p, k) \/ records[p].confirmed_status = "settled"
        /\ CountDuplicate(p, k, e)
     \/ /\ ConfirmError(p, k, e) = "none"
        /\ ~RepeatedAck(p, k) /\ records[p].confirmed_status # "settled"
        /\ Settle(p, k, e)

\* Faulty variant: cancel without the test that the packet is still open.
CancelErrorNoOpen(p, e, force) ==
  IF e < epoch THEN "InvalidArgument"
  ELSE IF p \notin DOMAIN records THEN "UnknownPacket"
  ELSE IF ~lanes[records[p].lane].allow_manual_cancel /\ ~force THEN "PolicyViolation"
  ELSE IF ~force /\ e < records[p].timeout_epoch THEN "PacketNotExpired"
  ELSE "none"

CancelError(p, e, force) ==
  IF e < epoch THEN "InvalidArgument"
  ELSE IF p \notin DOMAIN records THEN "UnknownPacket"
  ELSE IF ~lanes[records[p].lane].allow_manual_cancel /\ ~force THEN "PolicyViolation"
  ELSE IF records[p].observed_status # "open" THEN "PacketAlreadyClosed"
  ELSE IF ~force /\ e < records[p].timeout_epoch THEN "PacketNotExpired"
  ELSE "none"

\* Only the observed plane is released: the confirmed reserve stays attached.
Release(p, e) ==
  LET old == records[p]
      o   == ReleaseObserved(Begin(ledger), Holder(old), old.gross)
  IN  /\ epoch' = e
      /\ ledger' = o.ledger
      /\ failure' = o.error
      /\ records' = IF o.error = "none"
                    THEN Put(records, p, [old EXCEPT !.observed_status = "cancelled",
                                                     !.last_update_epoch = e])
                    ELSE records
      /\ Emit(o.error, Event("packet_cancelled", e, p, old.lane, old.gross))
      /\ UNCHANGED <<seeded, lanes, totals>>

Cancel(p, e, force) ==
  /\ Running
  /\ \/ CancelError(p, e, force) # "none" /\ Refuse(CancelError(p, e, force), e)
     \/ CancelError(p, e, force) = "none" /\ Release(p, e)

\* advance and snapshot: ensure_epoch and one system event.
Tick(kind, e) ==
  /\ Running
  /\ \/ e < epoch /\ Refuse("InvalidArgument", e)
     \/ /\ e >= epoch
        /\ epoch' = e
        /\ Emit("none", Event(kind, e, "system", "system", 0))
        /\ UNCHANGED <<seeded, lanes, ledger, records, totals, failure>>

Advance(e)  == Tick("epoch_advanced", e)
Snapshot(e) == Tick("snapshot", e)

Next ==
  \/ \E h \in DOMAIN Seed : RegisterAccount(h)
  \/ \E c \in LaneConfigs : RegisterLane(c)
  \/ \E t \in Templates, e \in Epochs : Submit(t, e) \/ Retry(t, e)
  \/ \E p \in Packets, k \in Acks, e \in Epochs : Confirm(p, k, e)
  \/ \E p \in Packets, e \in Epochs, force \in BOOLEAN : Cancel(p, e, force)
  \/ \E e \in Epochs : Advance(e) \/ Snapshot(e)

Spec == Init /\ [][Next]_vars
=============================================================================
