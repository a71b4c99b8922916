---------------------------- MODULE Engine_proofs ---------------------------
(***************************************************************************)
(* The engine's accounting, for any scenario.  The inductive invariant     *)
(* joins the type, the reserves and the coupling of the two planes: that a *)
(* cancellation or a settlement finds its amount locked (NoInternalFault)  *)
(* follows from the reserves, and the reserves are only kept because a     *)
(* packet is never open on the observed plane once it is settled.          *)
(***************************************************************************)
EXTENDS EngineProperties, Ledger_proofs

\* The quote of every record splits its gross: SECURITY.md states it of the fees.
AmountsSplit == \A p \in DOMAIN records : records[p].gross = records[p].net + records[p].fee

IInv ==
  /\ TypeOK
  /\ NoInternalFault
  /\ AmountsSplit
  /\ ReservesMatch
  /\ PlanesAgree

USE DEF LaneConfig, PacketTemplate, BalanceConfig

-----------------------------------------------------------------------------
(* Quotes and tables.                                                      *)

\* A fee inside the policy's range never exceeds the gross, so that neither
\* the fee nor the net of a quote leaves the range of Amount.
LEMMA FeeBounds ==
  ASSUME NEW gross \in Nat, gross <= MaxAmount, NEW bps \in Nat, bps <= 2000
  PROVE  /\ FeeOf(gross, bps) \in 0 .. MaxAmount
         /\ NetOf(gross, bps) \in 0 .. MaxAmount
         /\ gross = NetOf(gross, bps) + FeeOf(gross, bps)
<1>1. gross * bps \in Nat /\ gross * bps <= gross * 10000
  OBVIOUS
<1>2. (gross * bps) \div 10000 \in Nat /\ (gross * bps) \div 10000 <= gross
  BY <1>1
<1>3. QED
  BY <1>2, MaxAmountAssumption DEF FeeOf, NetOf, BpsScale

LEMMA PutProps ==
  ASSUME NEW R, NEW k, NEW v
  PROVE  /\ DOMAIN Put(R, k, v) = DOMAIN R \cup {k}
         /\ Put(R, k, v)[k] = v
         /\ \A x \in DOMAIN R : x # k => Put(R, k, v)[x] = R[x]
BY DEF Put

\* Every selection of a table of records is finite and has natural weights.
LEMMA TableProps ==
  ASSUME NEW R, DOMAIN R \subseteq Packets, \A p \in DOMAIN R : R[p] \in Record
  PROVE  /\ \A S \in SUBSET DOMAIN R : IsFiniteSet(S)
         /\ \A p \in DOMAIN R : /\ Grosses(R)[p] \in Nat /\ Nets(R)[p] \in Nat
                                /\ Fees(R)[p] \in Nat /\ Grosses(R)[p] = R[p].gross
                                /\ Nets(R)[p] = R[p].net /\ Fees(R)[p] = R[p].fee
<1>1. \A S \in SUBSET DOMAIN R : IsFiniteSet(S)
  BY EngineAssumption, FS_Subset
<1>2. \A p \in DOMAIN R : /\ R[p].gross \in Nat /\ R[p].net \in Nat /\ R[p].fee \in Nat
  BY MaxAmountAssumption DEF Record, Amount
<1>3. QED
  BY <1>1, <1>2 DEF Grosses, Nets, Fees

\* Rewriting or adding one record changes the sum of the open packets of a
\* holder by what that record contributes after and before.
LEMMA OpenPut ==
  ASSUME NEW R, DOMAIN R \subseteq Packets, \A q \in DOMAIN R : R[q] \in Record,
         NEW p \in Packets, NEW r \in Record, NEW h
  PROVE  LET Q      == Put(R, p, r)
             after  == Holder(r) = h /\ r.observed_status = "open"
             before == p \in DOMAIN R /\ Holder(R[p]) = h /\ R[p].observed_status = "open"
             sum    == Total(OpenFrom(R, h), Grosses(R))
         IN  /\ Total(OpenFrom(Q, h), Grosses(Q))
                  = sum + (IF after THEN r.gross ELSE 0) - (IF before THEN R[p].gross ELSE 0)
             /\ sum \in Nat
             /\ before => R[p].gross <= sum
<1> DEFINE Q      == Put(R, p, r)
           S      == OpenFrom(R, h)
           T      == OpenFrom(Q, h)
           after  == Holder(r) = h /\ r.observed_status = "open"
           before == p \in DOMAIN R /\ Holder(R[p]) = h /\ R[p].observed_status = "open"
<1>1. /\ DOMAIN Q = DOMAIN R \cup {p} /\ Q[p] = r
      /\ \A x \in DOMAIN R : x # p => Q[x] = R[x]
  BY DEF Put
<1>2. DOMAIN Q \subseteq Packets /\ \A q \in DOMAIN Q : Q[q] \in Record
  BY <1>1
<1>3. /\ IsFiniteSet(S) /\ IsFiniteSet(T)
      /\ \A y \in S : Grosses(R)[y] \in Nat /\ Grosses(R)[y] = R[y].gross
      /\ \A y \in T : Grosses(Q)[y] \in Nat /\ Grosses(Q)[y] = Q[y].gross
  <2>1. S \in SUBSET DOMAIN R /\ T \in SUBSET DOMAIN Q
    BY DEF OpenFrom
  <2>2. QED
    BY <1>2, <2>1, TableProps
<1>4. S \ {p} = T \ {p} /\ (p \in T <=> after) /\ (p \in S <=> before)
  BY <1>1 DEF OpenFrom
<1>5. \A y \in S \ {p} : Grosses(R)[y] = Grosses(Q)[y]
  BY <1>1, <1>3, <1>4 DEF OpenFrom
<1>6. /\ Total(S, Grosses(R)) \in Nat
      /\ Total(T, Grosses(Q)) = Total(S, Grosses(R))
                                  + (IF p \in T THEN Grosses(Q)[p] ELSE 0)
                                  - (IF p \in S THEN Grosses(R)[p] ELSE 0)
      /\ p \in S => Grosses(R)[p] <= Total(S, Grosses(R))
  BY <1>3, <1>4, <1>5, TotalUpdate
<1>7. QED
  BY <1>1, <1>3, <1>4, <1>6

\* Rewriting or adding one record changes the sum of the prepared packets
\* of a holder by what that record contributes after and before.
LEMMA PreparedPut ==
  ASSUME NEW R, DOMAIN R \subseteq Packets, \A q \in DOMAIN R : R[q] \in Record,
         NEW p \in Packets, NEW r \in Record, NEW h
  PROVE  LET Q      == Put(R, p, r)
             after  == Holder(r) = h /\ r.confirmed_status = "prepared"
             before == p \in DOMAIN R /\ Holder(R[p]) = h /\ R[p].confirmed_status = "prepared"
             sum    == Total(PreparedFrom(R, h), Grosses(R))
         IN  /\ Total(PreparedFrom(Q, h), Grosses(Q))
                  = sum + (IF after THEN r.gross ELSE 0) - (IF before THEN R[p].gross ELSE 0)
             /\ sum \in Nat
             /\ before => R[p].gross <= sum
<1> DEFINE Q      == Put(R, p, r)
           S      == PreparedFrom(R, h)
           T      == PreparedFrom(Q, h)
           after  == Holder(r) = h /\ r.confirmed_status = "prepared"
           before == p \in DOMAIN R /\ Holder(R[p]) = h /\ R[p].confirmed_status = "prepared"
<1>1. /\ DOMAIN Q = DOMAIN R \cup {p} /\ Q[p] = r
      /\ \A x \in DOMAIN R : x # p => Q[x] = R[x]
  BY DEF Put
<1>2. DOMAIN Q \subseteq Packets /\ \A q \in DOMAIN Q : Q[q] \in Record
  BY <1>1
<1>3. /\ IsFiniteSet(S) /\ IsFiniteSet(T)
      /\ \A y \in S : Grosses(R)[y] \in Nat /\ Grosses(R)[y] = R[y].gross
      /\ \A y \in T : Grosses(Q)[y] \in Nat /\ Grosses(Q)[y] = Q[y].gross
  <2>1. S \in SUBSET DOMAIN R /\ T \in SUBSET DOMAIN Q
    BY DEF PreparedFrom
  <2>2. QED
    BY <1>2, <2>1, TableProps
<1>4. S \ {p} = T \ {p} /\ (p \in T <=> after) /\ (p \in S <=> before)
  BY <1>1 DEF PreparedFrom
<1>5. \A y \in S \ {p} : Grosses(R)[y] = Grosses(Q)[y]
  BY <1>1, <1>3, <1>4 DEF PreparedFrom
<1>6. /\ Total(S, Grosses(R)) \in Nat
      /\ Total(T, Grosses(Q)) = Total(S, Grosses(R))
                                  + (IF p \in T THEN Grosses(Q)[p] ELSE 0)
                                  - (IF p \in S THEN Grosses(R)[p] ELSE 0)
      /\ p \in S => Grosses(R)[p] <= Total(S, Grosses(R))
  BY <1>3, <1>4, <1>5, TotalUpdate
<1>7. QED
  BY <1>1, <1>3, <1>4, <1>6

-----------------------------------------------------------------------------
(* What a call that returns has done to the records, the ledger and the    *)
(* totals.  The lemmas on the handlers below come down to one of these, and *)
(* what is proved of the accounting is proved from these alone.            *)

EventType == [kind : EventKinds, epoch : Epochs, packet : Packets \cup {"system"},
              lane : LaneIds \cup {"system"}, amount : Amount]

\* The log ends with an event of this kind about this packet.
Logs(kind, packet) ==
  \E ev \in EventType : ev.kind = kind /\ ev.packet = packet /\ events' = Append(events, ev)

\* Packet p is new, and its gross is reserved on both planes.
Opens(p, r) ==
  /\ p \in Packets \ DOMAIN records /\ r \in Record /\ r.gross = r.net + r.fee
  /\ r.observed_status = "open" /\ r.confirmed_status = "prepared" /\ r.attempt = 0
  /\ records' = Put(records, p, r)
  /\ \A g \in Holders, j \in Planes :
       ledger'[g][j] = ledger[g][j] + At(g, j, Holder(r), "available", -r.gross)
                                    + At(g, j, Holder(r), "observed_locked", r.gross)
                                    + At(g, j, Holder(r), "confirmed_locked", r.gross)
  /\ Logs("packet_submitted", p) \/ Logs("packet_retried", p)
  /\ UNCHANGED <<seeded, lanes, totals>>

\* A cancelled packet is open again, on the observed plane only.
Reopens(p, r) ==
  /\ p \in DOMAIN records /\ r \in Record /\ Terms(r) = Terms(records[p])
  /\ records[p].observed_status = "cancelled" /\ records[p].confirmed_status = "prepared"
  /\ r.observed_status = "open" /\ r.confirmed_status = "prepared"
  /\ r.attempt = records[p].attempt + 1
  /\ records' = Put(records, p, r)
  /\ \A g \in Holders, j \in Planes :
       ledger'[g][j] = ledger[g][j] + At(g, j, Holder(r), "available", -r.gross)
                                    + At(g, j, Holder(r), "observed_locked", r.gross)
  /\ Logs("packet_retried", p)
  /\ UNCHANGED <<seeded, lanes, totals>>

\* An open packet is cancelled, on the observed plane only.
Releases(p, r) ==
  /\ p \in DOMAIN records /\ r \in Record /\ Terms(r) = Terms(records[p])
  /\ records[p].observed_status = "open" /\ records[p].confirmed_status = "prepared"
  /\ r.observed_status = "cancelled" /\ r.confirmed_status = "prepared"
  /\ r.attempt = records[p].attempt
  /\ records' = Put(records, p, r)
  /\ \A g \in Holders, j \in Planes :
       ledger'[g][j] = ledger[g][j] + At(g, j, Holder(r), "observed_locked", -r.gross)
                                    + At(g, j, Holder(r), "available", r.gross)
  /\ Logs("packet_cancelled", p)
  /\ UNCHANGED <<seeded, lanes, totals>>

\* A settled packet may get another acknowledgement.
Repeats(p, r) ==
  /\ p \in DOMAIN records /\ r \in Record /\ Terms(r) = Terms(records[p])
  /\ IsSettled(records[p]) /\ IsSettled(r)
  /\ r.observed_status = records[p].observed_status /\ r.attempt = records[p].attempt
  /\ records' = Put(records, p, r)
  /\ Logs("duplicate_confirmation", p)
  /\ UNCHANGED <<seeded, lanes, ledger, total_seeded, total_settled, total_fees>>

\* A prepared packet settles: what is still reserved of it goes to the recipient
\* and the operator, who may be one account.
Settles(p, r) ==
  /\ p \in DOMAIN records /\ r \in Record /\ Terms(r) = Terms(records[p])
  /\ records[p].confirmed_status = "prepared" /\ IsSettled(r)
  /\ records[p].observed_status \in {"open", "cancelled"}
  /\ r.observed_status = IF records[p].observed_status = "open" THEN "consumed" ELSE "cancelled"
  /\ r.attempt = records[p].attempt
  /\ records' = Put(records, p, r)
  /\ \A g \in Holders, j \in Planes :
       ledger'[g][j] = ledger[g][j]
         + (IF records[p].observed_status = "open"
            THEN At(g, j, Holder(r), "observed_locked", -r.gross) ELSE 0)
         + At(g, j, Holder(r), "confirmed_locked", -r.gross)
         + At(g, j, Holder(r), "fees_paid", r.fee)
         + At(g, j, <<r.recipient, r.asset>>, "received", r.net)
         + At(g, j, <<r.recipient, r.asset>>, "available", r.net)
         + At(g, j, <<r.operator_account, r.asset>>, "fees_earned", r.fee)
         + At(g, j, <<r.operator_account, r.asset>>, "available", r.fee)
  /\ total_settled' = total_settled + r.net
  /\ total_fees' = total_fees + r.fee
  /\ Logs("packet_confirmed", p)
  /\ UNCHANGED <<seeded, lanes, total_seeded>>

\* The balance that holder h declares becomes available.
Seeds(h) ==
  /\ h \in DOMAIN Seed \ seeded /\ seeded # DOMAIN Seed
  /\ seeded' = seeded \cup {h} /\ total_seeded' = total_seeded + Seed[h]
  /\ \A g \in Holders, j \in Planes :
       ledger'[g][j] = ledger[g][j] + At(g, j, h, "available", Seed[h])
  /\ Logs("account_seeded", "system")
  /\ UNCHANGED <<lanes, records, total_settled, total_fees>>

\* The epoch moves on, or a lane that was still missing is registered.
Quiet ==
  /\ \E kind \in {"lane_registered", "epoch_advanced", "snapshot"} : Logs(kind, "system")
  /\ UNCHANGED lanes \/ (seeded = DOMAIN Seed /\ DOMAIN lanes # DeclaredLanes)
  /\ UNCHANGED <<seeded, ledger, records, totals>>

PacketEffect(p, r) ==
  Opens(p, r) \/ Reopens(p, r) \/ Releases(p, r) \/ Repeats(p, r) \/ Settles(p, r)

Effect ==
  \/ Quiet
  \/ \E h \in DOMAIN Seed : Seeds(h)
  \/ Running /\ \E p \in Packets, r \in Record : PacketEffect(p, r)

\* No record is lost, and each goes on as Continued allows.
Lasts ==
  \A p \in DOMAIN records : p \in DOMAIN records' /\ Continued(records[p], records'[p], epoch')

\* What is shown of every call, whether it returns or throws.
Completes ==
  /\ TypeOK' /\ NoInternalFault' /\ AmountsSplit' /\ Lasts
  /\ failure = "none"
  /\ failure' = "none" => PlanesAgree' /\ Effect /\ epoch <= epoch'
  /\ failure' # "none" => events' = events

-----------------------------------------------------------------------------
(* One lemma per way a handler can end.                                    *)

LEMMA EmitType ==
  ASSUME events \in Seq(EventType), NEW error, NEW ev \in EventType, Emit(error, ev)
  PROVE  events' \in Seq(EventType)
<1>1. Append(events, ev) \in Seq(EventType)
  OBVIOUS
<1>2. QED
  BY <1>1 DEF Emit

\* What Emit has added when the handler returns.
LEMMA EmitLogs ==
  ASSUME NEW ev \in EventType, NEW kind, NEW packet, ev.kind = kind, ev.packet = packet,
         NEW error, Emit(error, ev)
  PROVE  /\ error = "none" => Logs(kind, packet)
         /\ error # "none" => events' = events
BY DEF Emit, Logs

LEMMA ContinuedSame ==
  ASSUME NEW r, NEW e
  PROVE  Continued(r, r, e)
BY DEF Continued

LEMMA LastsSame ==
  ASSUME UNCHANGED records
  PROVE  Lasts
<1>1. \A p \in DOMAIN records : Continued(records[p], records[p], epoch')
  BY ContinuedSame
<1>2. records' = records
  OBVIOUS
<1>3. QED
  BY <1>1, <1>2, Zenon DEF Lasts

LEMMA LastsPut ==
  ASSUME NEW p, NEW r, records' = Put(records, p, r),
         p \in DOMAIN records => Continued(records[p], r, epoch')
  PROVE  Lasts
<1>1. /\ DOMAIN records' = DOMAIN records \cup {p} /\ records'[p] = r
      /\ \A x \in DOMAIN records : x # p => records'[x] = records[x]
  BY DEF Put
<1>2. QED
  BY <1>1, ContinuedSame DEF Lasts

\* Epochs are integers, so those of a record can be compared.
LEMMA EpochTypes ==
  /\ \A e \in Epochs : e \in Int /\ StartEpoch <= e /\ e <= MaxEpoch
  /\ \A r \in Record : /\ r.observed_epoch \in Int /\ r.last_update_epoch \in Int
                       /\ r.timeout_epoch \in Int /\ StartEpoch <= r.observed_epoch
<1>1. \A e \in Epochs : e \in Int /\ StartEpoch <= e /\ e <= MaxEpoch
  BY EngineAssumption DEF Epochs
<1>2. \A r \in Record : /\ r.observed_epoch \in Epochs /\ r.last_update_epoch \in Epochs
                         /\ r.timeout_epoch \in Int
  BY DEF Record
<1>3. QED
  BY <1>1, <1>2

\* A record put in the table keeps the table's type and the agreement of the
\* planes of every record, as time only moves forward.
LEMMA PutRecord ==
  ASSUME TypeOK, failure = "none", PlanesAgree, AmountsSplit,
         NEW p \in Packets, NEW r \in Record, NEW e \in Epochs, epoch <= e,
         r.gross = r.net + r.fee, PlanesOf(r, e), NEW R, R = Put(records, p, r)
  PROVE  /\ DOMAIN R \subseteq Packets
         /\ \A q \in DOMAIN R : /\ R[q] \in Record
                                /\ R[q].gross = R[q].net + R[q].fee
                                /\ PlanesOf(R[q], e)
<1>1. /\ DOMAIN R = DOMAIN records \cup {p} /\ R[p] = r
      /\ \A x \in DOMAIN records : x # p => R[x] = records[x]
  BY DEF Put
<1>2. \A q \in DOMAIN records :
         /\ records[q] \in Record /\ records[q].gross = records[q].net + records[q].fee
         /\ PlanesOf(records[q], epoch)
  BY DEF TypeOK, PlanesAgree, AmountsSplit
<1>3. \A q \in DOMAIN records : PlanesOf(records[q], e)
  <2>1. epoch \in Int /\ e \in Int
    BY EngineAssumption DEF TypeOK, Epochs
  <2>2. \A q \in DOMAIN records : records[q].last_update_epoch \in Int
    BY <1>2, EpochTypes
  <2>3. QED
    BY <1>2, <2>1, <2>2 DEF PlanesOf
<1>4. QED
  BY <1>1, <1>2, <1>3 DEF TypeOK

LEMMA RefuseCompletes ==
  ASSUME IInv, failure = "none", NEW error \in Errors \ {"InvariantViolation"},
         NEW e \in Epochs, Refuse(error, e)
  PROVE  Completes
<1>1. failure' = error /\ error # "none"
  BY DEF Refuse, Errors
<1>2. TypeOK'
  BY DEF IInv, TypeOK, Refuse, ValidLane, totals
<1>3. NoInternalFault' /\ AmountsSplit'
  BY <1>1 DEF IInv, NoInternalFault, AmountsSplit, Refuse
<1>4. Lasts /\ events' = events
  BY LastsSame DEF Refuse
<1>5. QED
  BY <1>1, <1>2, <1>3, <1>4 DEF Completes

\* What build_record makes is a record whose quote splits the gross.
LEMMA BuildRecordProps ==
  ASSUME TypeOK, NEW t \in Templates, NEW e \in Epochs, t.lane \in DOMAIN lanes
  PROVE  LET r == BuildRecord(t, e) IN
         /\ r \in Record
         /\ r.gross = r.net + r.fee
         /\ Holder(r) \in Holders
         /\ r.gross = t.amount
         /\ r.observed_epoch = e /\ r.last_update_epoch = e /\ DeadlineAfter(r.timeout_epoch, e)
         /\ r.observed_status = "open" /\ r.confirmed_status = "prepared"
         /\ r.observed_sequence = 0 /\ r.confirmed_sequence = 0
         /\ r.acknowledgements = {} /\ r.attempt = 0
<1> DEFINE c == lanes[t.lane]
           r == BuildRecord(t, e)
<1>1. /\ c \in [id : DeclaredLanes, asset : Assets, operator_account : Accounts,
                 timeout_epochs : Int64, fee_bps : Int, max_retries : Int,
                 min_packet_amount : Amount, max_packet_amount : Amount,
                 allow_manual_cancel : BOOLEAN, require_unique_ack : BOOLEAN]
      /\ ValidLane(c)
  BY EngineAssumption DEF TypeOK
<1>2. t \in [packet : Packets, lane : LaneIds, source : Accounts, recipient : Accounts,
             amount : Amount, priority : Priorities]
  BY EngineAssumption
<1>3. /\ FeeOf(t.amount, c.fee_bps) \in Amount
      /\ NetOf(t.amount, c.fee_bps) \in Amount
      /\ t.amount = NetOf(t.amount, c.fee_bps) + FeeOf(t.amount, c.fee_bps)
  <2>1. t.amount \in Nat /\ t.amount <= MaxAmount /\ c.fee_bps \in Nat /\ c.fee_bps <= 2000
    BY <1>1, <1>2, MaxAmountAssumption DEF ValidLane, Amount
  <2>2. QED
    BY <2>1, FeeBounds DEF Amount
<1>4. e \in Int /\ TimeoutFor(t.lane, e) \in Int /\ DeadlineAfter(TimeoutFor(t.lane, e), e)
  BY <1>1, EngineAssumption DEF TimeoutFor, ValidLane, Epochs, Wrapped, Int64, DeadlineAfter
<1>5. r \in Record
  BY <1>1, <1>2, <1>3, <1>4 DEF BuildRecord, Record, ObservedStatus, ConfirmedStatus
<1>6. /\ r.gross = t.amount /\ r.net = NetOf(t.amount, c.fee_bps)
      /\ r.fee = FeeOf(t.amount, c.fee_bps) /\ r.source = t.source /\ r.asset = c.asset
      /\ r.observed_epoch = e /\ r.last_update_epoch = e
      /\ r.timeout_epoch = TimeoutFor(t.lane, e)
      /\ r.observed_status = "open" /\ r.confirmed_status = "prepared"
      /\ r.observed_sequence = 0 /\ r.confirmed_sequence = 0
      /\ r.acknowledgements = {} /\ r.attempt = 0
  BY DEF BuildRecord
<1>7. QED
  BY <1>1, <1>2, <1>3, <1>4, <1>5, <1>6 DEF Holder, Holders

-----------------------------------------------------------------------------
(* One lemma per handler, under the conditions the handler has checked.    *)

LEMMA OpenFirstCompletes ==
  ASSUME IInv, failure = "none", NEW t \in Templates, NEW e \in Epochs, epoch <= e,
         t.lane \in DOMAIN lanes, t.packet \notin DOMAIN records,
         Running, NEW kind \in {"packet_submitted", "packet_retried"}, OpenFirst(t, e, kind)
  PROVE  Completes
<1> DEFINE r == BuildRecord(t, e)
           h == Holder(r)
<1>1. PICK quoted \in QuoteResults(t.amount, lanes[t.lane].fee_bps) :
        LET q == Require(Begin(ledger), quoted = "none", quoted)
            o == AttachConfirmed(ReserveObserved(q, h, r.gross), h, r.gross)
        IN  /\ epoch' = e
            /\ ledger' = o.ledger
            /\ failure' = o.error
            /\ records' = IF o.error = "none" THEN Put(records, t.packet, r) ELSE records
            /\ Emit(o.error, Event(kind, e, t.packet, t.lane, r.gross))
            /\ UNCHANGED <<seeded, lanes, totals>>
  BY DEF OpenFirst
<1> DEFINE q == Require(Begin(ledger), quoted = "none", quoted)
           m == ReserveObserved(q, h, r.gross)
           o == AttachConfirmed(m, h, r.gross)
<1>2. /\ r \in Record /\ r.gross = r.net + r.fee /\ h \in Holders
      /\ r.gross = t.amount /\ r.gross \in Nat /\ PlanesOf(r, e)
      /\ r.observed_status = "open" /\ r.confirmed_status = "prepared" /\ r.attempt = 0
  <2>1. /\ r \in Record /\ r.gross = r.net + r.fee /\ h \in Holders
        /\ r.gross = t.amount /\ r.attempt = 0
        /\ r.observed_epoch = e /\ r.last_update_epoch = e /\ DeadlineAfter(r.timeout_epoch, e)
        /\ r.observed_status = "open" /\ r.confirmed_status = "prepared"
        /\ r.observed_sequence = 0 /\ r.confirmed_sequence = 0
        /\ r.acknowledgements = {}
    BY BuildRecordProps DEF IInv
  <2>2. r.gross \in Nat
    BY <2>1, MaxAmountAssumption DEF Record, Amount
  <2>3. e \in Int
    BY EngineAssumption DEF Epochs
  <2>4. PlanesOf(r, e)
    BY <2>1, <2>3 DEF PlanesOf, IsSettled
  <2>5. QED
    BY <2>1, <2>2, <2>4
<1>3. ledger \in [Holders -> Balance] /\ Begin(ledger) \in Outcome
  BY BeginProps DEF IInv, TypeOK
<1>4. quoted \in (Errors \ {"InvariantViolation"}) \cup {"none"}
  BY <1>1 DEF QuoteResults, Errors
<1>5. Continues(Begin(ledger), q, {quoted}) /\ q.ledger = ledger
  BY <1>3, <1>4 DEF Require, Continues, Begin, Outcome
<1>6. /\ Continues(q, m, {"InsufficientLiquidity", "ArithmeticOverflow"})
      /\ m.error = "none" =>
           \A g \in Holders, j \in Planes :
             m.ledger[g][j] = q.ledger[g][j] + At(g, j, h, "available", -r.gross)
                                             + At(g, j, h, "observed_locked", r.gross)
  BY <1>2, <1>5, ReserveProps DEF Continues
<1>7. /\ Continues(m, o, {"ArithmeticOverflow"})
      /\ o.error = "none" => Shift(m.ledger, o.ledger, h, "confirmed_locked", r.gross)
  BY <1>2, <1>6, AttachProps DEF Continues
<1>8. /\ o \in Outcome /\ o.error # "InvariantViolation"
      /\ o.error \in Errors \cup {"none"}
  BY <1>4, <1>5, <1>6, <1>7 DEF Continues, Begin, Errors, Outcome
<1>9. t.packet \in Packets /\ t.lane \in LaneIds /\ t.amount \in Amount
  BY EngineAssumption
<1>10. /\ events' \in Seq(EventType)
       /\ o.error = "none" => Logs(kind, t.packet)
       /\ o.error # "none" => events' = events
  <2>1. LET ev == Event(kind, e, t.packet, t.lane, r.gross)
        IN  ev \in EventType /\ ev.kind = kind /\ ev.packet = t.packet
    BY <1>2, <1>9 DEF Event, EventType, EventKinds
  <2>2. events \in Seq(EventType)
    BY DEF IInv, TypeOK, EventType
  <2>3. QED
    BY <1>1, <2>1, <2>2, EmitType, EmitLogs
<1>11. /\ DOMAIN records' \subseteq Packets
       /\ \A p \in DOMAIN records' : /\ records'[p] \in Record
                                     /\ records'[p].gross = records'[p].net + records'[p].fee
                                     /\ o.error = "none" => PlanesOf(records'[p], e)
  <2>1. CASE o.error = "none"
    BY <1>1, <1>2, <1>9, <2>1, PutRecord DEF IInv
  <2>2. CASE o.error # "none"
    BY <1>1, <2>2 DEF IInv, TypeOK, AmountsSplit
  <2>3. QED
    BY <2>1, <2>2
<1>12. TypeOK'
  BY <1>1, <1>8, <1>10, <1>11 DEF TypeOK, IInv, Outcome, EventType, totals
<1>13. NoInternalFault' /\ AmountsSplit'
  BY <1>1, <1>8, <1>11 DEF NoInternalFault, AmountsSplit
<1>14. CASE o.error # "none"
  BY <1>1, <1>10, <1>12, <1>13, <1>14, LastsSame DEF Completes
<1>15. CASE o.error = "none"
  <2>1. records' = Put(records, t.packet, r) /\ m.error = "none"
    BY <1>1, <1>7, <1>15 DEF Continues
  <2>2. PlanesAgree'
    BY <1>1, <1>11, <1>15 DEF PlanesAgree
  <2>3. \A g \in Holders, j \in Planes :
          ledger'[g][j] = ledger[g][j] + At(g, j, h, "available", -r.gross)
                                       + At(g, j, h, "observed_locked", r.gross)
                                       + At(g, j, h, "confirmed_locked", r.gross)
    BY <1>1, <1>5, <1>6, <1>7, <1>15, <2>1 DEF Shift
  <2>4. Opens(t.packet, r)
    BY <1>1, <1>2, <1>9, <1>10, <1>15, <2>1, <2>3 DEF Opens
  <2>5. Lasts
    BY <2>1, LastsPut
  <2>6. Effect
    BY <1>2, <1>9, <2>4 DEF Effect, PacketEffect
  <2>7. QED
    BY <1>1, <1>12, <1>13, <1>15, <2>2, <2>5, <2>6 DEF Completes
<1>16. QED
  BY <1>14, <1>15

LEMMA ReleaseCompletes ==
  ASSUME IInv, failure = "none", NEW p \in DOMAIN records, NEW e \in Epochs, epoch <= e,
         Running, records[p].observed_status = "open", Release(p, e)
  PROVE  Completes
<1> DEFINE old == records[p]
           h   == Holder(old)
           o   == ReleaseObserved(Begin(ledger), h, old.gross)
           r   == [old EXCEPT !.observed_status = "cancelled", !.last_update_epoch = e]
<1>1. /\ epoch' = e /\ ledger' = o.ledger /\ failure' = o.error
      /\ records' = IF o.error = "none" THEN Put(records, p, r) ELSE records
      /\ Emit(o.error, Event("packet_cancelled", e, p, old.lane, old.gross))
      /\ UNCHANGED <<seeded, lanes, totals>>
  BY DEF Release
<1>2. /\ p \in Packets /\ old \in Record /\ old.gross = old.net + old.fee
      /\ PlanesOf(old, epoch) /\ old.observed_status = "open"
  BY DEF IInv, TypeOK, AmountsSplit, PlanesAgree
<1>3. /\ r \in Record /\ r.gross = old.gross /\ Holder(r) = h /\ h \in Holders
      /\ r.confirmed_status = old.confirmed_status /\ r.observed_status = "cancelled"
      /\ r.gross = r.net + r.fee /\ old.gross \in Nat
      /\ Terms(r) = Terms(old) /\ r.attempt = old.attempt
  <2>1. e \in Int
    BY EngineAssumption DEF Epochs
  <2>2. old.gross \in Nat
    BY <1>2, MaxAmountAssumption DEF Record, Amount
  <2>3. QED
    BY <1>2, <2>1, <2>2 DEF Record, ObservedStatus, Holder, Holders, Terms
<1>4. PlanesOf(r, e)
  <2>1. /\ e \in Int /\ epoch \in Int /\ old.observed_epoch \in Int
        /\ old.last_update_epoch \in Int
    BY <1>2, EngineAssumption DEF Epochs, IInv, TypeOK, Record
  <2>2. QED
    BY <1>2, <2>1 DEF PlanesOf, IsSettled, Record
<1> HIDE DEF r
<1>5. ledger \in [Holders -> Balance] /\ Begin(ledger) \in Outcome
  BY BeginProps DEF IInv, TypeOK
<1>6. \A g \in Holders :
        /\ ledger[g]["observed_locked"] = Total(OpenFrom(records, g), Grosses(records))
        /\ ledger[g]["confirmed_locked"] = Total(PreparedFrom(records, g), Grosses(records))
  BY DEF IInv, ReservesMatch
<1>7. ledger[h]["observed_locked"] >= old.gross
  BY <1>2, <1>3, <1>6, OpenPut DEF IInv, TypeOK
<1>8. /\ Continues(Begin(ledger), o, {"ArithmeticOverflow"})
      /\ o.error = "none" =>
           \A g \in Holders, j \in Planes :
             o.ledger[g][j] = ledger[g][j] + At(g, j, h, "observed_locked", -old.gross)
                                           + At(g, j, h, "available", old.gross)
  BY <1>3, <1>5, <1>7, ReleaseProps, BeginProps
<1>9. /\ o \in Outcome /\ o.error # "InvariantViolation" /\ o.error \in Errors \cup {"none"}
  BY <1>8 DEF Continues, Begin, Errors
<1>10. /\ events' \in Seq(EventType)
       /\ o.error = "none" => Logs("packet_cancelled", p)
       /\ o.error # "none" => events' = events
  <2>1. LET ev == Event("packet_cancelled", e, p, old.lane, old.gross)
        IN  ev \in EventType /\ ev.kind = "packet_cancelled" /\ ev.packet = p
    BY <1>2 DEF Event, EventType, EventKinds, Record
  <2>2. events \in Seq(EventType)
    BY DEF IInv, TypeOK, EventType
  <2>3. QED
    BY <1>1, <2>1, <2>2, EmitType, EmitLogs
<1>11. /\ DOMAIN records' \subseteq Packets
       /\ \A x \in DOMAIN records' : /\ records'[x] \in Record
                                     /\ records'[x].gross = records'[x].net + records'[x].fee
                                     /\ o.error = "none" => PlanesOf(records'[x], e)
  <2>1. CASE o.error = "none"
    BY <1>1, <1>2, <1>3, <1>4, <2>1, PutRecord DEF IInv
  <2>2. CASE o.error # "none"
    BY <1>1, <2>2 DEF IInv, TypeOK, AmountsSplit
  <2>3. QED
    BY <2>1, <2>2
<1>12. TypeOK'
  BY <1>1, <1>9, <1>10, <1>11 DEF TypeOK, IInv, Outcome, EventType, totals
<1>13. NoInternalFault' /\ AmountsSplit'
  BY <1>1, <1>9, <1>11 DEF NoInternalFault, AmountsSplit
<1>14. old.confirmed_status = "prepared"
  BY <1>2 DEF PlanesOf, IsSettled
<1>15. CASE o.error # "none"
  BY <1>1, <1>10, <1>12, <1>13, <1>15, LastsSame DEF Completes
<1>16. CASE o.error = "none"
  <2>1. records' = Put(records, p, r)
    BY <1>1, <1>16
  <2>2. PlanesAgree'
    BY <1>1, <1>11, <1>16 DEF PlanesAgree
  <2>3. Releases(p, r)
    BY <1>1, <1>2, <1>3, <1>8, <1>10, <1>14, <1>16, <2>1 DEF Releases
  <2>4. Continued(old, r, e)
    BY <1>2, <1>3, <1>14 DEF Continued, IsSettled
  <2>5. Lasts
    BY <1>1, <2>1, <2>4, LastsPut
  <2>6. Effect
    BY <1>2, <1>3, <2>3 DEF Effect, PacketEffect
  <2>7. QED
    BY <1>1, <1>12, <1>13, <1>16, <2>2, <2>5, <2>6 DEF Completes
<1>17. QED
  BY <1>15, <1>16

LEMMA ReopenedType ==
  ASSUME NEW old \in Record, NEW n \in Nat, NEW x \in Epochs, NEW y \in Epochs,
         NEW z \in Int, NEW s \in ObservedStatus
  PROVE  [old EXCEPT !.attempt = n, !.observed_epoch = x, !.last_update_epoch = y,
                     !.timeout_epoch = z, !.observed_status = s] \in Record
<1>1. [old EXCEPT !.attempt = n] \in Record
  BY DEF Record
<1>2. \A r \in Record : [r EXCEPT !.observed_epoch = x] \in Record
  BY DEF Record
<1>3. \A r \in Record : [r EXCEPT !.last_update_epoch = y] \in Record
  BY DEF Record
<1>4. \A r \in Record : [r EXCEPT !.timeout_epoch = z] \in Record
  BY DEF Record
<1>5. \A r \in Record : [r EXCEPT !.observed_status = s] \in Record
  BY DEF Record
<1>6. QED
  BY <1>1, <1>2, <1>3, <1>4, <1>5

\* The record is rewritten before the reserve that may fail.  A packet that is
\* neither settled nor open was cancelled, and kept its confirmed reserve.
LEMMA ReopenCompletes ==
  ASSUME IInv, failure = "none", NEW t \in Templates, NEW e \in Epochs, epoch <= e,
         t.lane \in DOMAIN lanes, t.packet \in DOMAIN records,
         records[t.packet].confirmed_status # "settled",
         Running, records[t.packet].observed_status # "open", Reopen(t, e)
  PROVE  Completes
<1> DEFINE p   == t.packet
           old == records[p]
           h   == Holder(old)
           o   == ReserveObserved(Begin(ledger), h, old.gross)
           r   == [old EXCEPT !.attempt = @ + 1,
                              !.observed_epoch = e,
                              !.last_update_epoch = e,
                              !.timeout_epoch = TimeoutFor(t.lane, e),
                              !.observed_status = "open"]
<1>1. /\ p \in Packets /\ old \in Record /\ old.gross = old.net + old.fee
      /\ PlanesOf(old, epoch) /\ old.observed_status = "cancelled"
      /\ old.confirmed_status = "prepared" /\ t.lane \in LaneIds
  <2>1. /\ p \in Packets /\ old \in Record /\ old.gross = old.net + old.fee
        /\ PlanesOf(old, epoch) /\ t.lane \in LaneIds
    BY EngineAssumption DEF IInv, TypeOK, AmountsSplit, PlanesAgree
  <2>2. QED
    BY <2>1 DEF PlanesOf, IsSettled, Record, ObservedStatus
<1>2. /\ epoch' = e /\ ledger' = o.ledger /\ failure' = o.error
      /\ records' = Put(records, p, r)
      /\ Emit(o.error, Event("packet_retried", e, p, t.lane, old.gross))
      /\ UNCHANGED <<seeded, lanes, totals>>
  BY <1>1 DEF Reopen
<1>3. e \in Int /\ TimeoutFor(t.lane, e) \in Int /\ DeadlineAfter(TimeoutFor(t.lane, e), e)
  BY EngineAssumption DEF TimeoutFor, ValidLane, Epochs, IInv, TypeOK, Wrapped, Int64, DeadlineAfter
<1>4. /\ r \in Record /\ r.gross = old.gross /\ Holder(r) = h /\ h \in Holders
      /\ r.confirmed_status = "prepared" /\ r.observed_status = "open"
      /\ r.gross = r.net + r.fee /\ old.gross \in Nat
      /\ Terms(r) = Terms(old) /\ r.attempt = old.attempt + 1 /\ old.attempt \in Nat
      /\ r.timeout_epoch = TimeoutFor(t.lane, e)
  <2>1. old.gross \in Nat /\ old.attempt \in Nat
    BY <1>1, MaxAmountAssumption DEF Record, Amount
  <2>2. r \in Record
    <3>1. "open" \in ObservedStatus /\ old.attempt + 1 \in Nat
      BY <2>1 DEF ObservedStatus
    <3>2. QED
      BY <1>1, <1>3, <3>1, ReopenedType
  <2>3. /\ r.gross = old.gross /\ r.net = old.net /\ r.fee = old.fee
        /\ r.source = old.source /\ r.asset = old.asset
        /\ r.confirmed_status = "prepared" /\ r.observed_status = "open"
        /\ Terms(r) = Terms(old) /\ r.attempt = old.attempt + 1
        /\ r.timeout_epoch = TimeoutFor(t.lane, e)
    BY <1>1 DEF Record, Terms
  <2>4. QED
    BY <1>1, <2>1, <2>2, <2>3 DEF Record, Holder, Holders
<1>5. PlanesOf(r, e)
  BY <1>1, <1>3 DEF PlanesOf, IsSettled, Record
<1> HIDE DEF r
<1>6. ledger \in [Holders -> Balance] /\ Begin(ledger) \in Outcome
  BY BeginProps DEF IInv, TypeOK
<1>7. /\ Continues(Begin(ledger), o, {"InsufficientLiquidity", "ArithmeticOverflow"})
      /\ o.error = "none" =>
           \A g \in Holders, j \in Planes :
             o.ledger[g][j] = ledger[g][j] + At(g, j, h, "available", -old.gross)
                                           + At(g, j, h, "observed_locked", old.gross)
  BY <1>4, <1>6, ReserveProps, BeginProps
<1>8. /\ o \in Outcome /\ o.error # "InvariantViolation" /\ o.error \in Errors \cup {"none"}
  BY <1>7 DEF Continues, Begin, Errors
<1>9. /\ events' \in Seq(EventType)
      /\ o.error = "none" => Logs("packet_retried", p)
      /\ o.error # "none" => events' = events
  <2>1. LET ev == Event("packet_retried", e, p, t.lane, old.gross)
        IN  ev \in EventType /\ ev.kind = "packet_retried" /\ ev.packet = p
    BY <1>1 DEF Event, EventType, EventKinds, Record
  <2>2. events \in Seq(EventType)
    BY DEF IInv, TypeOK, EventType
  <2>3. QED
    BY <1>2, <2>1, <2>2, EmitType, EmitLogs
<1>10. /\ DOMAIN records' \subseteq Packets
       /\ \A x \in DOMAIN records' : /\ records'[x] \in Record
                                     /\ records'[x].gross = records'[x].net + records'[x].fee
                                     /\ PlanesOf(records'[x], e)
  BY <1>1, <1>2, <1>4, <1>5, PutRecord DEF IInv
<1>11. TypeOK'
  BY <1>2, <1>8, <1>9, <1>10 DEF TypeOK, IInv, Outcome, EventType, totals
<1>12. NoInternalFault' /\ AmountsSplit'
  BY <1>2, <1>8, <1>10 DEF NoInternalFault, AmountsSplit
<1>13. Continued(old, r, e)
  BY <1>1, <1>3, <1>4 DEF Continued, IsSettled
<1>14. PlanesAgree'
  BY <1>2, <1>10 DEF PlanesAgree
<1>15. o.error = "none" => Reopens(p, r)
  BY <1>1, <1>2, <1>4, <1>7, <1>9 DEF Reopens
<1>16. Lasts
  BY <1>2, <1>13, LastsPut
<1>17. o.error = "none" => Effect
  BY <1>1, <1>4, <1>15 DEF Effect, PacketEffect
<1>18. QED
  BY <1>2, <1>9, <1>11, <1>12, <1>14, <1>16, <1>17 DEF Completes

\* A step that leaves the ledger, the records and the failure alone.
LEMMA QuietCompletes ==
  ASSUME IInv, failure = "none", TypeOK', epoch <= epoch', Quiet, UNCHANGED failure
  PROVE  Completes
<1>1. NoInternalFault' /\ AmountsSplit' /\ Lasts
  BY LastsSame DEF IInv, NoInternalFault, AmountsSplit, Quiet
<1>2. PlanesAgree'
  <2>1. epoch \in Int /\ epoch' \in Int
    BY EngineAssumption DEF IInv, TypeOK, Epochs
  <2>2. \A p \in DOMAIN records : records[p].last_update_epoch \in Int
    BY EpochTypes DEF IInv, TypeOK
  <2>3. QED
    BY <2>1, <2>2 DEF IInv, PlanesAgree, PlanesOf, Quiet
<1>3. QED
  BY <1>1, <1>2 DEF Completes, Effect

LEMMA TickCompletes ==
  ASSUME IInv, NEW kind \in {"epoch_advanced", "snapshot"}, NEW e \in Epochs, Tick(kind, e)
  PROVE  Completes
<1>1. failure = "none"
  BY DEF Tick, Running, Loading
<1>2. CASE e < epoch
  <2>1. e \in Int /\ epoch \in Int
    BY EngineAssumption DEF IInv, TypeOK, Epochs
  <2>2. Refuse("InvalidArgument", e)
    BY <1>2, <2>1 DEF Tick
  <2>3. "InvalidArgument" \in Errors \ {"InvariantViolation"}
    BY DEF Errors
  <2>4. QED
    BY <1>1, <2>2, <2>3, RefuseCompletes
<1>3. CASE ~(e < epoch)
  <2>1. /\ epoch' = e /\ Emit("none", Event(kind, e, "system", "system", 0))
        /\ UNCHANGED <<seeded, lanes, ledger, records, totals, failure>>
    BY <1>3 DEF Tick
  <2>2. epoch <= e
    BY <1>3, EngineAssumption DEF IInv, TypeOK, Epochs
  <2>3. events' \in Seq(EventType) /\ Logs(kind, "system")
    <3>1. LET ev == Event(kind, e, "system", "system", 0)
          IN  ev \in EventType /\ ev.kind = kind /\ ev.packet = "system"
      BY MaxAmountAssumption DEF Event, EventType, EventKinds, Amount
    <3>2. events \in Seq(EventType)
      BY DEF IInv, TypeOK, EventType
    <3>3. QED
      BY <2>1, <3>1, <3>2, EmitType, EmitLogs
  <2>4. TypeOK'
    BY <2>1, <2>3 DEF IInv, TypeOK, totals, EventType
  <2>5. Quiet
    BY <2>1, <2>3 DEF Quiet
  <2>6. QED
    BY <1>1, <2>1, <2>2, <2>4, <2>5, QuietCompletes
<1>4. QED
  BY <1>2, <1>3

LEMMA RegisterLaneCompletes ==
  ASSUME IInv, NEW c \in LaneConfigs, RegisterLane(c)
  PROVE  Completes
<1> DEFINE error == IF ValidLane(c) /\ c.id \notin DOMAIN lanes THEN "none"
                    ELSE "PolicyViolation"
<1>1. /\ failure = "none" /\ failure' = error
      /\ lanes' = IF error = "none" THEN Put(lanes, c.id, c) ELSE lanes
      /\ Emit(error, Event("lane_registered", epoch, "system", c.id, 0))
      /\ seeded = DOMAIN Seed /\ DOMAIN lanes # DeclaredLanes
      /\ UNCHANGED <<epoch, seeded, ledger, records, totals>>
  BY DEF RegisterLane, Loading
<1>2. c.id \in DeclaredLanes /\ c.id \in LaneIds
  BY EngineAssumption
<1>3. /\ events' \in Seq(EventType)
      /\ error = "none" => Logs("lane_registered", "system")
      /\ error # "none" => events' = events
  <2>1. LET ev == Event("lane_registered", epoch, "system", c.id, 0)
        IN  ev \in EventType /\ ev.kind = "lane_registered" /\ ev.packet = "system"
    BY <1>2, MaxAmountAssumption DEF Event, EventType, EventKinds, IInv, TypeOK, Amount
  <2>2. events \in Seq(EventType)
    BY DEF IInv, TypeOK, EventType
  <2>3. QED
    BY <1>1, <2>1, <2>2, EmitType, EmitLogs
<1>4. /\ DOMAIN lanes' \subseteq DeclaredLanes
      /\ \A l \in DOMAIN lanes' :
           lanes'[l] \in LaneConfigs /\ lanes'[l].id = l /\ ValidLane(lanes'[l])
  <2>1. CASE error = "none"
    <3>1. ValidLane(c)
      BY <2>1
    <3>2. DOMAIN lanes' = DOMAIN lanes \cup {c.id}
          /\ \A l \in DOMAIN lanes' : lanes'[l] = IF l = c.id THEN c ELSE lanes[l]
      BY <1>1, <2>1 DEF Put
    <3>3. QED
      BY <1>2, <3>1, <3>2 DEF IInv, TypeOK
  <2>2. CASE error # "none"
    BY <1>1, <2>2 DEF IInv, TypeOK
  <2>3. QED
    BY <2>1, <2>2
<1>5. TypeOK'
  BY <1>1, <1>3, <1>4 DEF IInv, TypeOK, totals, EventType, Errors
<1>6. CASE error = "none"
  <2>1. epoch <= epoch'
    BY <1>1, EngineAssumption DEF IInv, TypeOK, Epochs
  <2>2. Quiet
    BY <1>1, <1>3, <1>6 DEF Quiet
  <2>3. QED
    BY <1>1, <1>5, <1>6, <2>1, <2>2, QuietCompletes
<1>7. CASE error # "none"
  BY <1>1, <1>3, <1>5, <1>7, LastsSame DEF IInv, NoInternalFault, AmountsSplit, Completes
<1>8. QED
  BY <1>6, <1>7

LEMMA RegisterAccountCompletes ==
  ASSUME IInv, NEW h \in DOMAIN Seed, RegisterAccount(h)
  PROVE  Completes
<1> DEFINE o == SeedBalance(Begin(ledger), h, Seed[h])
           n == Require(o, AddFits(total_seeded, Seed[h]), "ArithmeticOverflow")
<1>1. /\ failure = "none" /\ ledger' = n.ledger /\ failure' = n.error
      /\ total_seeded' = IF n.error = "none" THEN total_seeded + Seed[h] ELSE total_seeded
      /\ seeded' = seeded \cup {h}
      /\ Emit(n.error, Event("account_seeded", epoch, "system", "system", Seed[h]))
      /\ h \notin seeded
      /\ UNCHANGED <<epoch, lanes, records, total_settled, total_fees, duplicate_confirmations>>
  BY DEF RegisterAccount, Loading
<1>2. h \in Holders /\ Seed[h] \in Amount /\ Seed[h] \in Nat
  BY EngineAssumption, MaxAmountAssumption DEF Amount
<1>3. ledger \in [Holders -> Balance] /\ Begin(ledger) \in Outcome
  BY BeginProps DEF IInv, TypeOK
<1>4. /\ Continues(Begin(ledger), o, {"ArithmeticOverflow"})
      /\ o.error = "none" => Shift(ledger, o.ledger, h, "available", Seed[h])
  BY <1>2, <1>3, AddProps, BeginProps DEF SeedBalance, Planes
<1>5. /\ Continues(o, n, {"ArithmeticOverflow"}) /\ n.ledger = o.ledger
      /\ n.error = "none" => AddFits(total_seeded, Seed[h])
  BY <1>4 DEF Require, Continues, Outcome, Errors
<1>6. /\ n \in Outcome /\ n.error # "InvariantViolation" /\ n.error \in Errors \cup {"none"}
  BY <1>4, <1>5 DEF Continues, Begin, Errors
<1>7. /\ events' \in Seq(EventType)
      /\ n.error = "none" => Logs("account_seeded", "system")
      /\ n.error # "none" => events' = events
  <2>1. LET ev == Event("account_seeded", epoch, "system", "system", Seed[h])
        IN  ev \in EventType /\ ev.kind = "account_seeded" /\ ev.packet = "system"
    BY <1>2 DEF Event, EventType, EventKinds, IInv, TypeOK
  <2>2. events \in Seq(EventType)
    BY DEF IInv, TypeOK, EventType
  <2>3. QED
    BY <1>1, <2>1, <2>2, EmitType, EmitLogs
<1>8. total_seeded' \in Amount
  BY <1>1, <1>2, <1>5, MaxAmountAssumption DEF IInv, TypeOK, Amount, AddFits
<1>9. TypeOK'
  BY <1>1, <1>6, <1>7, <1>8 DEF IInv, TypeOK, EventType, Outcome
<1>10. NoInternalFault' /\ AmountsSplit'
  BY <1>1, <1>6 DEF IInv, NoInternalFault, AmountsSplit
<1>11. PlanesAgree'
  BY <1>1 DEF IInv, PlanesAgree
<1>12. n.error = "none" => Shift(ledger, ledger', h, "available", Seed[h])
  BY <1>1, <1>4, <1>5 DEF Continues
<1>13. seeded # DOMAIN Seed
  BY <1>1
<1>14. n.error = "none" => Seeds(h)
  BY <1>1, <1>7, <1>12, <1>13 DEF Seeds, Shift
<1>15. Lasts /\ epoch <= epoch'
  BY <1>1, EngineAssumption, LastsSame DEF IInv, TypeOK, Epochs
<1>16. QED
  BY <1>1, <1>7, <1>9, <1>10, <1>11, <1>14, <1>15 DEF Completes, Effect

\* A repeated acknowledgement is one a settled packet already holds.
LEMMA CountDuplicateCompletes ==
  ASSUME IInv, failure = "none", NEW p \in DOMAIN records, NEW k \in Acks,
         NEW e \in Epochs, epoch <= e, Running,
         RepeatedAck(p, k) \/ records[p].confirmed_status = "settled",
         CountDuplicate(p, k, e)
  PROVE  Completes
<1> DEFINE old == records[p]
           r   == [old EXCEPT !.acknowledgements = @ \cup {k}]
<1>1. /\ p \in Packets /\ old \in Record /\ old.gross = old.net + old.fee
      /\ PlanesOf(old, epoch)
  BY DEF IInv, TypeOK, AmountsSplit, PlanesAgree
<1>2. IsSettled(old)
  BY <1>1 DEF PlanesOf, RepeatedAck, IsSettled
<1>3. /\ epoch' = e /\ records' = Put(records, p, r)
      /\ duplicate_confirmations < MaxDuplicates
      /\ duplicate_confirmations' = duplicate_confirmations + 1
      /\ Emit("none", Event("duplicate_confirmation", e, p, old.lane, 0))
      /\ UNCHANGED <<seeded, lanes, ledger, total_seeded, total_settled, total_fees, failure>>
  BY DEF CountDuplicate
<1>4. /\ r \in Record /\ r.gross = old.gross /\ Holder(r) = Holder(old)
      /\ r.confirmed_status = old.confirmed_status
      /\ r.observed_status = old.observed_status
      /\ r.gross = r.net + r.fee /\ old.gross \in Nat
      /\ Terms(r) = Terms(old) /\ r.attempt = old.attempt /\ WithoutAcks(r) = WithoutAcks(old)
  <2>1. old.gross \in Nat
    BY <1>1, MaxAmountAssumption DEF Record, Amount
  <2>2. QED
    BY <1>1, <2>1 DEF Record, Holder, Terms, WithoutAcks
<1>5. PlanesOf(r, e)
  <2>1. /\ e \in Int /\ epoch \in Int /\ old.last_update_epoch \in Int
    BY <1>1, EngineAssumption DEF Epochs, IInv, TypeOK, Record
  <2>2. QED
    BY <1>1, <1>2, <2>1 DEF PlanesOf, IsSettled, Record
<1> HIDE DEF r
<1>6. events' \in Seq(EventType) /\ Logs("duplicate_confirmation", p)
  <2>1. LET ev == Event("duplicate_confirmation", e, p, old.lane, 0)
        IN  ev \in EventType /\ ev.kind = "duplicate_confirmation" /\ ev.packet = p
    BY <1>1, MaxAmountAssumption DEF Event, EventType, EventKinds, Record, Amount
  <2>2. events \in Seq(EventType)
    BY DEF IInv, TypeOK, EventType
  <2>3. QED
    BY <1>3, <2>1, <2>2, EmitType, EmitLogs
<1>7. /\ DOMAIN records' \subseteq Packets
      /\ \A x \in DOMAIN records' : /\ records'[x] \in Record
                                    /\ records'[x].gross = records'[x].net + records'[x].fee
                                    /\ PlanesOf(records'[x], e)
  BY <1>1, <1>3, <1>4, <1>5, PutRecord DEF IInv
<1>8. duplicate_confirmations' \in 0 .. MaxDuplicates
  BY <1>3, EngineAssumption DEF IInv, TypeOK
<1>9. TypeOK'
  BY <1>3, <1>6, <1>7, <1>8 DEF TypeOK, IInv, EventType
<1>10. NoInternalFault' /\ AmountsSplit' /\ PlanesAgree'
  BY <1>3, <1>7 DEF IInv, NoInternalFault, AmountsSplit, PlanesAgree
<1>11. Repeats(p, r)
  BY <1>2, <1>3, <1>4, <1>6 DEF Repeats, IsSettled
<1>12. Continued(old, r, e)
  BY <1>2, <1>4 DEF Continued, IsSettled
<1>13. Lasts
  BY <1>3, <1>12, LastsPut
<1>14. Effect
  BY <1>1, <1>4, <1>11 DEF Effect, PacketEffect
<1>15. QED
  BY <1>3, <1>9, <1>10, <1>13, <1>14 DEF Completes

\* The three rewrites of a record that confirm makes, field by field.
LEMMA AcknowledgedRecord ==
  ASSUME NEW x \in Record, NEW k \in Acks
  PROVE  LET y == [x EXCEPT !.acknowledgements = @ \cup {k}]
         IN  /\ y \in Record /\ Terms(y) = Terms(x)
             /\ y.observed_status = x.observed_status
             /\ y.confirmed_status = x.confirmed_status
             /\ y.observed_sequence = x.observed_sequence
             /\ y.confirmed_sequence = x.confirmed_sequence
             /\ y.observed_epoch = x.observed_epoch /\ y.timeout_epoch = x.timeout_epoch
             /\ y.acknowledgements = x.acknowledgements \cup {k} /\ y.attempt = x.attempt
BY DEF Record, Terms

LEMMA ConsumedRecord ==
  ASSUME NEW x \in Record
  PROVE  LET y == [x EXCEPT !.observed_status = "consumed", !.observed_sequence = @ + 1]
         IN  /\ y \in Record /\ Terms(y) = Terms(x)
             /\ y.observed_status = "consumed"
             /\ y.confirmed_status = x.confirmed_status
             /\ y.observed_sequence = x.observed_sequence + 1
             /\ y.confirmed_sequence = x.confirmed_sequence
             /\ y.observed_epoch = x.observed_epoch /\ y.timeout_epoch = x.timeout_epoch
             /\ y.acknowledgements = x.acknowledgements /\ y.attempt = x.attempt
<1>1. x.observed_sequence + 1 \in Nat /\ "consumed" \in ObservedStatus
  BY DEF Record, ObservedStatus
<1>2. QED
  BY <1>1 DEF Record, Terms

LEMMA SettledRecord ==
  ASSUME NEW x \in Record, NEW e \in Epochs
  PROVE  LET y == [x EXCEPT !.confirmed_status = "settled", !.confirmed_sequence = @ + 1,
                            !.last_update_epoch = e]
         IN  /\ y \in Record /\ Terms(y) = Terms(x)
             /\ y.observed_status = x.observed_status
             /\ y.confirmed_status = "settled" /\ y.last_update_epoch = e
             /\ y.observed_sequence = x.observed_sequence
             /\ y.confirmed_sequence = x.confirmed_sequence + 1
             /\ y.observed_epoch = x.observed_epoch /\ y.timeout_epoch = x.timeout_epoch
             /\ y.acknowledgements = x.acknowledgements /\ y.attempt = x.attempt
<1>1. x.confirmed_sequence + 1 \in Nat /\ "settled" \in ConfirmedStatus
  BY DEF Record, ConfirmedStatus
<1>2. QED
  BY <1>1 DEF Record, Terms

\* The first confirmation of a prepared packet: its confirmed reserve, and its
\* observed reserve unless it was cancelled, are there to be taken.
LEMMA SettleCompletes ==
  ASSUME IInv, failure = "none", NEW p \in DOMAIN records, NEW k \in Acks,
         NEW e \in Epochs, epoch <= e, Running,
         records[p].confirmed_status # "settled", Settle(p, k, e)
  PROVE  Completes /\ failure' \in {"none", "ArithmeticOverflow"}
<1> DEFINE rec      == records[p]
           old      == [rec EXCEPT !.acknowledgements = @ \cup {k}]
           open     == old.observed_status = "open"
           h        == Holder(old)
           payee    == <<old.recipient, old.asset>>
           operator == <<old.operator_account, old.asset>>
           ready    == Require(Begin(ledger), old.confirmed_status = "prepared", "PacketNotReady")
           taken    == IF open THEN ConsumeObserved(ready, h, old.gross) ELSE ready
           consumed == IF open /\ taken.error = "none"
                       THEN [old EXCEPT !.observed_status = "consumed",
                                        !.observed_sequence = @ + 1]
                       ELSE old
           paid     == SettleConfirmed(taken, h, payee, old.net, old.fee)
           credited == IF old.fee = 0 THEN paid ELSE CreditFee(paid, operator, old.fee)
           settled  == Require(credited, AddFits(total_settled, old.net), "ArithmeticOverflow")
           o        == Require(settled, AddFits(total_fees, old.fee), "ArithmeticOverflow")
           r        == [consumed EXCEPT !.confirmed_status = "settled",
                                        !.confirmed_sequence = @ + 1,
                                        !.last_update_epoch = e]
<1>1. /\ epoch' = e /\ ledger' = o.ledger /\ failure' = o.error
      /\ total_settled' = IF settled.error = "none" THEN total_settled + old.net ELSE total_settled
      /\ total_fees' = IF o.error = "none" THEN total_fees + old.fee ELSE total_fees
      /\ records' = Put(records, p, IF o.error = "none" THEN r ELSE consumed)
      /\ Emit(o.error, Event("packet_confirmed", e, p, old.lane, old.net))
      /\ UNCHANGED <<seeded, lanes, total_seeded, duplicate_confirmations>>
  BY DEF Settle
<1>2. /\ p \in Packets /\ rec \in Record /\ rec.gross = rec.net + rec.fee
      /\ PlanesOf(rec, epoch) /\ rec.confirmed_status = "prepared"
  BY DEF IInv, TypeOK, AmountsSplit, PlanesAgree, PlanesOf
<1>3. e \in Int /\ epoch \in Int
  BY EngineAssumption DEF Epochs, IInv, TypeOK
<1>4. /\ old \in Record /\ Terms(old) = Terms(rec)
      /\ old.observed_status = rec.observed_status
      /\ old.confirmed_status = "prepared"
      /\ old.observed_sequence = rec.observed_sequence
      /\ old.confirmed_sequence = rec.confirmed_sequence
      /\ old.observed_epoch = rec.observed_epoch /\ old.timeout_epoch = rec.timeout_epoch
      /\ old.acknowledgements = rec.acknowledgements \cup {k} /\ old.attempt = rec.attempt
  BY <1>2, AcknowledgedRecord
<1>5. ready = Begin(ledger)
  BY <1>4 DEF Require
<1> HIDE DEF old, ready
<1>6. /\ old.gross \in Nat /\ old.net \in Nat /\ old.fee \in Nat
      /\ old.net \in Amount /\ old.lane \in LaneIds /\ old.gross = old.net + old.fee
      /\ old.gross = rec.gross /\ h = Holder(rec)
      /\ h \in Holders /\ payee \in Holders /\ operator \in Holders
  BY <1>2, <1>4, MaxAmountAssumption DEF Record, Amount, Holder, Holders, Terms
<1>7. ledger \in [Holders -> Balance] /\ ready \in Outcome
      /\ ready.ledger = ledger /\ ready.error = "none"
  BY <1>5, BeginProps DEF IInv, TypeOK
<1>8. \A g \in Holders :
        /\ ledger[g]["observed_locked"] = Total(OpenFrom(records, g), Grosses(records))
        /\ ledger[g]["confirmed_locked"] = Total(PreparedFrom(records, g), Grosses(records))
        /\ \A j \in Planes : ledger[g][j] \in Nat
  BY <1>7, PlaneType DEF IInv, ReservesMatch
<1>9. /\ open => ledger[h]["observed_locked"] >= old.gross
      /\ ledger[h]["confirmed_locked"] >= old.net + old.fee
  <2>1. /\ open => rec.gross <= Total(OpenFrom(records, h), Grosses(records))
        /\ rec.gross <= Total(PreparedFrom(records, h), Grosses(records))
    BY <1>2, <1>4, <1>6, OpenPut, PreparedPut DEF IInv, TypeOK
  <2>2. QED
    BY <1>2, <1>6, <1>8, <2>1
<1>10. /\ taken \in Outcome /\ taken.error = "none"
       /\ \A g \in Holders, j \in Planes :
            taken.ledger[g][j] = ledger[g][j]
                                   + (IF open THEN At(g, j, h, "observed_locked", -old.gross) ELSE 0)
  <2>1. CASE open
    <3>1. taken = ConsumeObserved(ready, h, old.gross)
      BY <2>1
    <3>2. /\ Continues(ready, ConsumeObserved(ready, h, old.gross), {})
          /\ ConsumeObserved(ready, h, old.gross).error = ready.error
          /\ ConsumeObserved(ready, h, old.gross).error = "none" =>
               Shift(ready.ledger, ConsumeObserved(ready, h, old.gross).ledger,
                     h, "observed_locked", -old.gross)
      BY <1>6, <1>7, <1>9, <2>1, ConsumeProps
    <3>3. taken \in Outcome /\ taken.error = "none"
      BY <1>7, <3>1, <3>2 DEF Continues
    <3>4. Shift(ledger, taken.ledger, h, "observed_locked", -old.gross)
      BY <1>7, <3>1, <3>2, <3>3
    <3>5. QED
      BY <2>1, <3>3, <3>4 DEF Shift
  <2>2. CASE ~open
    BY <1>7, <1>8, <2>2
  <2>3. QED
    BY <2>1, <2>2
<1> HIDE DEF h, payee, operator
<1>11. taken.ledger[h]["confirmed_locked"] >= old.net + old.fee
  BY <1>6, <1>8, <1>9, <1>10 DEF At, Planes
<1>12. /\ consumed \in Record /\ Terms(consumed) = Terms(old)
       /\ consumed.observed_status = (IF open THEN "consumed" ELSE old.observed_status)
       /\ consumed.confirmed_status = "prepared"
       /\ consumed.observed_sequence = (IF open THEN old.observed_sequence + 1
                                        ELSE old.observed_sequence)
       /\ consumed.confirmed_sequence = old.confirmed_sequence
       /\ consumed.observed_epoch = old.observed_epoch
       /\ consumed.timeout_epoch = old.timeout_epoch
       /\ consumed.acknowledgements = old.acknowledgements
       /\ consumed.attempt = old.attempt
  <2>1. CASE open
    BY <1>4, <1>10, <2>1, ConsumedRecord
  <2>2. CASE ~open
    BY <1>4, <2>2
  <2>3. QED
    BY <2>1, <2>2
<1> HIDE DEF taken, consumed
<1>13. /\ r \in Record /\ Terms(r) = Terms(old)
       /\ r.observed_status = consumed.observed_status
       /\ r.confirmed_status = "settled"
       /\ r.observed_sequence = consumed.observed_sequence
       /\ r.confirmed_sequence = old.confirmed_sequence + 1
       /\ r.observed_epoch = old.observed_epoch /\ r.timeout_epoch = old.timeout_epoch
       /\ r.acknowledgements = old.acknowledgements /\ r.last_update_epoch = e
       /\ r.attempt = old.attempt
  <2>1. /\ r \in Record /\ Terms(r) = Terms(consumed)
        /\ r.observed_status = consumed.observed_status
        /\ r.confirmed_status = "settled"
        /\ r.observed_sequence = consumed.observed_sequence
        /\ r.confirmed_sequence = consumed.confirmed_sequence + 1
        /\ r.observed_epoch = consumed.observed_epoch
        /\ r.timeout_epoch = consumed.timeout_epoch
        /\ r.acknowledgements = consumed.acknowledgements /\ r.last_update_epoch = e
        /\ r.attempt = consumed.attempt
    BY <1>3, <1>12, SettledRecord
  <2>2. QED
    BY <1>12, <2>1
<1> HIDE DEF r
<1>14. /\ consumed.gross = consumed.net + consumed.fee
       /\ r.gross = r.net + r.fee /\ r.gross = old.gross /\ Holder(r) = h
       /\ r.confirmed_status # "prepared" /\ r.observed_status # "open"
  BY <1>4, <1>6, <1>12, <1>13 DEF Terms, Holder, h
<1>15. PlanesOf(r, e)
  <2>1. rec.observed_epoch \in Int /\ rec.last_update_epoch \in Int /\ rec.timeout_epoch \in Int
    BY <1>2, EpochTypes
  <2>2. QED
    BY <1>2, <1>3, <1>4, <1>12, <1>13, <2>1 DEF PlanesOf, IsSettled
<1>16. /\ Continues(taken, paid, {"ArithmeticOverflow"})
       /\ paid.error = "none" =>
            \A g \in Holders, j \in Planes :
              paid.ledger[g][j] = taken.ledger[g][j]
                                    + At(g, j, h, "confirmed_locked", -(old.net + old.fee))
                                    + At(g, j, h, "fees_paid", old.fee)
                                    + At(g, j, payee, "received", old.net)
                                    + At(g, j, payee, "available", old.net)
  BY <1>6, <1>10, <1>11, SettleProps
<1> HIDE DEF paid
<1>17. /\ Continues(paid, credited, {"ArithmeticOverflow"})
       /\ credited.error = "none" =>
            \A g \in Holders, j \in Planes :
              credited.ledger[g][j] = paid.ledger[g][j] + At(g, j, operator, "fees_earned", old.fee)
                                                        + At(g, j, operator, "available", old.fee)
  <2>1. paid \in Outcome
    BY <1>16 DEF Continues
  <2>2. CASE old.fee = 0
    <3>1. \A g \in Holders, j \in Planes : paid.ledger[g][j] \in Nat
      BY <2>1, PlaneType
    <3>2. QED
      BY <2>1, <2>2, <3>1 DEF Continues, At
  <2>3. CASE old.fee # 0
    BY <1>6, <2>1, <2>3, CreditFeeProps
  <2>4. QED
    BY <2>2, <2>3
<1> HIDE DEF credited
<1>18. /\ Continues(credited, settled, {"ArithmeticOverflow"})
       /\ settled.ledger = credited.ledger
       /\ settled.error = "none" => AddFits(total_settled, old.net)
  BY <1>17 DEF Require, Continues, Outcome, Errors
<1> HIDE DEF settled
<1>19. /\ Continues(settled, o, {"ArithmeticOverflow"})
       /\ o.ledger = settled.ledger
       /\ o.error = "none" => AddFits(total_fees, old.fee)
  BY <1>18 DEF Require, Continues, Outcome, Errors
<1> HIDE DEF o
<1>20. /\ o \in Outcome /\ o.error # "InvariantViolation" /\ o.error \in Errors \cup {"none"}
       /\ o.error = "none" => /\ settled.error = "none" /\ credited.error = "none"
                              /\ paid.error = "none"
  BY <1>10, <1>16, <1>17, <1>18, <1>19 DEF Continues, Errors
<1>21. /\ events' \in Seq(EventType)
       /\ o.error = "none" => Logs("packet_confirmed", p)
       /\ o.error # "none" => events' = events
  <2>1. LET ev == Event("packet_confirmed", e, p, old.lane, old.net)
        IN  ev \in EventType /\ ev.kind = "packet_confirmed" /\ ev.packet = p
    BY <1>2, <1>6 DEF Event, EventType, EventKinds
  <2>2. events \in Seq(EventType)
    BY DEF IInv, TypeOK, EventType
  <2>3. QED
    BY <1>1, <2>1, <2>2, EmitType, EmitLogs
<1>22. /\ DOMAIN records' \subseteq Packets
       /\ \A x \in DOMAIN records' : /\ records'[x] \in Record
                                     /\ records'[x].gross = records'[x].net + records'[x].fee
                                     /\ o.error = "none" => PlanesOf(records'[x], e)
  <2>1. CASE o.error = "none"
    BY <1>1, <1>2, <1>13, <1>14, <1>15, <2>1, PutRecord DEF IInv
  <2>2. CASE o.error # "none"
    BY <1>1, <1>2, <1>12, <1>14, <2>2 DEF IInv, TypeOK, AmountsSplit, Put
  <2>3. QED
    BY <2>1, <2>2
<1>23. total_settled' \in Amount /\ total_fees' \in Amount
  BY <1>1, <1>6, <1>18, <1>19, MaxAmountAssumption DEF IInv, TypeOK, Amount, AddFits
<1>24. TypeOK'
  BY <1>1, <1>20, <1>21, <1>22, <1>23 DEF TypeOK, IInv, Outcome, EventType
<1>25. NoInternalFault' /\ AmountsSplit'
  BY <1>1, <1>20, <1>22 DEF NoInternalFault, AmountsSplit
<1>26. /\ Continued(rec, consumed, e) /\ Continued(rec, r, e)
       /\ IsSettled(r)
  <2>1. rec.observed_status # "missing" /\ rec.observed_status \in ObservedStatus
    BY <1>2 DEF PlanesOf, Record
  <2>2. QED
    BY <1>2, <1>4, <1>12, <1>13, <2>1 DEF Continued, IsSettled
<1>27. ASSUME o.error # "none" PROVE Completes
  <2>1. records' = Put(records, p, consumed)
    BY <1>1, <1>27
  <2>2. Lasts
    BY <1>1, <1>26, <2>1, LastsPut
  <2>3. QED
    BY <1>1, <1>21, <1>24, <1>25, <1>27, <2>2 DEF Completes
<1>28. ASSUME o.error = "none" PROVE Completes
  <2>1. records' = Put(records, p, r)
    BY <1>1, <1>28
  <2>2. PlanesAgree'
    BY <1>1, <1>22, <1>28 DEF PlanesAgree
  <2>3. /\ Terms(r) = Terms(rec) /\ r.attempt = rec.attempt
        /\ Holder(r) = h /\ r.gross = old.gross /\ r.net = old.net /\ r.fee = old.fee
        /\ <<r.recipient, r.asset>> = payee /\ <<r.operator_account, r.asset>> = operator
    BY <1>4, <1>12, <1>13, <1>14 DEF Terms, payee, operator
  <2>4. /\ rec.observed_status \in {"open", "cancelled"}
        /\ r.observed_status = IF rec.observed_status = "open" THEN "consumed" ELSE "cancelled"
    <3>1. ~open => rec.observed_status = "cancelled"
      BY <1>2, <1>4 DEF PlanesOf, IsSettled, Record, ObservedStatus
    <3>2. QED
      BY <1>4, <1>12, <1>13, <3>1
  <2>5. total_settled' = total_settled + r.net /\ total_fees' = total_fees + r.fee
    BY <1>1, <1>20, <1>28, <2>3
  <2>6. \A g \in Holders, j \in Planes :
          ledger'[g][j] = ledger[g][j]
            + (IF rec.observed_status = "open"
               THEN At(g, j, Holder(r), "observed_locked", -r.gross) ELSE 0)
            + At(g, j, Holder(r), "confirmed_locked", -r.gross)
            + At(g, j, Holder(r), "fees_paid", r.fee)
            + At(g, j, <<r.recipient, r.asset>>, "received", r.net)
            + At(g, j, <<r.recipient, r.asset>>, "available", r.net)
            + At(g, j, <<r.operator_account, r.asset>>, "fees_earned", r.fee)
            + At(g, j, <<r.operator_account, r.asset>>, "available", r.fee)
    <3>1. ledger' = credited.ledger
      BY <1>1, <1>18, <1>19
    <3>2. -(old.net + old.fee) = -old.gross /\ (open <=> rec.observed_status = "open")
      BY <1>4, <1>6
    <3>3. QED
      BY <1>10, <1>16, <1>17, <1>20, <1>28, <2>3, <3>1, <3>2
  <2>7. Settles(p, r)
    BY <1>1, <1>2, <1>13, <1>21, <1>26, <1>28, <2>1, <2>3, <2>4, <2>5, <2>6 DEF Settles
  <2>8. Lasts
    BY <1>1, <1>26, <2>1, LastsPut
  <2>9. Effect
    BY <1>2, <1>13, <2>7 DEF Effect, PacketEffect
  <2>10. QED
    BY <1>1, <1>24, <1>25, <1>28, <2>2, <2>8, <2>9 DEF Completes
<1>29. o.error \in {"none", "ArithmeticOverflow"}
  BY <1>10, <1>16, <1>17, <1>18, <1>19 DEF Continues
<1>30. Completes
  BY <1>27, <1>28
<1>31. QED
  BY <1>1, <1>29, <1>30

-----------------------------------------------------------------------------
(* Initially, and by every step.                                           *)

LEMMA EmptyTotals ==
  ASSUME DOMAIN records = {}, NEW g
  PROVE  /\ Total(OpenFrom(records, g), Grosses(records)) = 0
         /\ Total(PreparedFrom(records, g), Grosses(records)) = 0
<1>1. OpenFrom(records, g) = {} /\ PreparedFrom(records, g) = {}
  BY DEF OpenFrom, PreparedFrom
<1>2. QED
  BY <1>1, TotalEmpty

LEMMA InvInit ==
  Init => IInv
<1> SUFFICES ASSUME Init PROVE IInv
  OBVIOUS
<1>1. DOMAIN records = {} /\ DOMAIN lanes = {} /\ events = << >>
  BY DEF Init
<1>2. \A g \in Holders, j \in Planes : ledger[g][j] = 0
  BY DEF Init, EmptyLedger
<1>3. 0 \in Amount
  BY MaxAmountAssumption DEF Amount
<1>4. TypeOK
  <2>1. ledger \in [Holders -> Balance]
    BY <1>3 DEF Init, EmptyLedger, Balance
  <2>2. events \in Seq(EventType)
    BY <1>1
  <2>3. epoch \in Epochs
    BY EngineAssumption DEF Init, Epochs
  <2>4. 0 \in 0 .. MaxDuplicates
    BY EngineAssumption
  <2>5. QED
    BY <1>1, <1>3, <2>1, <2>2, <2>3, <2>4 DEF TypeOK, Init, EventType
<1>5. NoInternalFault /\ AmountsSplit /\ PlanesAgree
  BY <1>1 DEF Init, NoInternalFault, AmountsSplit, PlanesAgree
<1>6. ReservesMatch
  BY <1>1, <1>2, EmptyTotals DEF ReservesMatch, Planes
<1>7. QED
  BY <1>4, <1>5, <1>6 DEF IInv

\* What Running gives every action of a scenario.
LEMMA RunningProps ==
  ASSUME IInv, Running, NEW e \in Epochs
  PROVE  failure = "none" /\ (e < epoch \/ epoch <= e)
<1>1. e \in Int /\ epoch \in Int
  BY EngineAssumption DEF IInv, TypeOK, Epochs
<1>2. QED
  BY <1>1 DEF Running, Loading

LEMMA SubmitCompletes ==
  ASSUME IInv, NEW t \in Templates, NEW e \in Epochs, Submit(t, e)
  PROVE  Completes
<1>1. Running /\ failure = "none" /\ (e < epoch \/ epoch <= e)
  BY RunningProps DEF Submit
<1>2. CASE SubmitError(t, e) # "none"
  <2>1. SubmitError(t, e) \in Errors \ {"InvariantViolation"}
    BY <1>2 DEF SubmitError, Errors
  <2>2. Refuse(SubmitError(t, e), e)
    BY <1>2 DEF Submit
  <2>3. QED
    BY <1>1, <2>1, <2>2, RefuseCompletes
<1>3. CASE SubmitError(t, e) = "none"
  <2>1. OpenFirst(t, e, "packet_submitted")
    BY <1>3 DEF Submit
  <2>2. epoch <= e /\ t.packet \notin DOMAIN records /\ t.lane \in DOMAIN lanes
    BY <1>1, <1>3 DEF SubmitError
  <2>3. QED
    BY <1>1, <2>1, <2>2, OpenFirstCompletes
<1>4. QED
  BY <1>2, <1>3

LEMMA RetryCompletes ==
  ASSUME IInv, NEW t \in Templates, NEW e \in Epochs, Retry(t, e)
  PROVE  Completes
<1>1. Running /\ failure = "none" /\ (e < epoch \/ epoch <= e)
  BY RunningProps DEF Retry
<1>2. CASE RetryError(t, e) # "none"
  <2>1. RetryError(t, e) \in Errors \ {"InvariantViolation"}
    BY <1>2 DEF RetryError, Errors
  <2>2. Refuse(RetryError(t, e), e)
    BY <1>2 DEF Retry
  <2>3. QED
    BY <1>1, <2>1, <2>2, RefuseCompletes
<1>3. CASE RetryError(t, e) = "none" /\ t.packet \notin DOMAIN records
  <2>1. OpenFirst(t, e, "packet_retried")
    BY <1>3 DEF Retry
  <2>2. epoch <= e /\ t.lane \in DOMAIN lanes
    BY <1>1, <1>3 DEF RetryError
  <2>3. QED
    BY <1>1, <1>3, <2>1, <2>2, OpenFirstCompletes
<1>4. CASE RetryError(t, e) = "none" /\ t.packet \in DOMAIN records
  <2>1. PICK quoted \in QuoteResults(t.amount, lanes[t.lane].fee_bps) :
          \/ ReopenError(t, quoted) # "none" /\ Refuse(ReopenError(t, quoted), e)
          \/ ReopenError(t, quoted) = "none" /\ Reopen(t, e)
    BY <1>4 DEF Retry
  <2>2. /\ epoch <= e /\ t.lane \in DOMAIN lanes
        /\ records[t.packet].confirmed_status # "settled"
        /\ records[t.packet].observed_status # "open"
    BY <1>1, <1>4 DEF RetryError
  <2>3. ReopenError(t, quoted) \in (Errors \ {"InvariantViolation"}) \cup {"none"}
    BY <2>1 DEF ReopenError, QuoteResults, Errors
  <2>4. CASE ReopenError(t, quoted) # "none"
    BY <1>1, <2>1, <2>3, <2>4, RefuseCompletes
  <2>5. CASE ReopenError(t, quoted) = "none"
    BY <1>1, <1>4, <2>1, <2>2, <2>5, ReopenCompletes
  <2>6. QED
    BY <2>4, <2>5
<1>5. QED
  BY <1>2, <1>3, <1>4

LEMMA ConfirmCompletes ==
  ASSUME IInv, NEW p \in Packets, NEW k \in Acks, NEW e \in Epochs, Confirm(p, k, e)
  PROVE  Completes
<1>1. Running /\ failure = "none" /\ (e < epoch \/ epoch <= e)
  BY RunningProps DEF Confirm
<1>2. CASE ConfirmError(p, k, e) # "none"
  <2>1. ConfirmError(p, k, e) \in Errors \ {"InvariantViolation"}
    BY <1>2 DEF ConfirmError, Errors
  <2>2. Refuse(ConfirmError(p, k, e), e)
    BY <1>2 DEF Confirm
  <2>3. QED
    BY <1>1, <2>1, <2>2, RefuseCompletes
<1>3. CASE ConfirmError(p, k, e) = "none"
  <2>1. epoch <= e /\ p \in DOMAIN records
    BY <1>1, <1>3 DEF ConfirmError
  <2>2. CASE RepeatedAck(p, k) \/ records[p].confirmed_status = "settled"
    BY <1>1, <1>3, <2>1, <2>2, CountDuplicateCompletes DEF Confirm
  <2>3. CASE ~RepeatedAck(p, k) /\ records[p].confirmed_status # "settled"
    BY <1>1, <1>3, <2>1, <2>3, SettleCompletes DEF Confirm
  <2>4. QED
    BY <2>2, <2>3
<1>4. QED
  BY <1>2, <1>3

LEMMA CancelCompletes ==
  ASSUME IInv, NEW p \in Packets, NEW e \in Epochs, NEW force \in BOOLEAN,
         Cancel(p, e, force)
  PROVE  Completes
<1>1. Running /\ failure = "none" /\ (e < epoch \/ epoch <= e)
  BY RunningProps DEF Cancel
<1>2. CASE CancelError(p, e, force) # "none"
  <2>1. CancelError(p, e, force) \in Errors \ {"InvariantViolation"}
    BY <1>2 DEF CancelError, Errors
  <2>2. Refuse(CancelError(p, e, force), e)
    BY <1>2 DEF Cancel
  <2>3. QED
    BY <1>1, <2>1, <2>2, RefuseCompletes
<1>3. CASE CancelError(p, e, force) = "none"
  <2>1. epoch <= e /\ p \in DOMAIN records /\ records[p].observed_status = "open"
    BY <1>1, <1>3 DEF CancelError
  <2>2. Release(p, e)
    BY <1>3 DEF Cancel
  <2>3. QED
    BY <1>1, <2>1, <2>2, ReleaseCompletes
<1>4. QED
  BY <1>2, <1>3

\* Every call completes in one of these ways.
LEMMA NextCompletes ==
  ASSUME IInv, Next
  PROVE  Completes
<1>1. ASSUME NEW h \in DOMAIN Seed, RegisterAccount(h) PROVE Completes
  BY <1>1, RegisterAccountCompletes
<1>2. ASSUME NEW c \in LaneConfigs, RegisterLane(c) PROVE Completes
  BY <1>2, RegisterLaneCompletes
<1>3. ASSUME NEW t \in Templates, NEW e \in Epochs, Submit(t, e) PROVE Completes
  BY <1>3, SubmitCompletes
<1>4. ASSUME NEW t \in Templates, NEW e \in Epochs, Retry(t, e) PROVE Completes
  BY <1>4, RetryCompletes
<1>5. ASSUME NEW p \in Packets, NEW k \in Acks, NEW e \in Epochs, Confirm(p, k, e)
      PROVE  Completes
  BY <1>5, ConfirmCompletes
<1>6. ASSUME NEW p \in Packets, NEW e \in Epochs, NEW force \in BOOLEAN, Cancel(p, e, force)
      PROVE  Completes
  BY <1>6, CancelCompletes
<1>7. ASSUME NEW e \in Epochs, Advance(e) \/ Snapshot(e) PROVE Completes
  BY <1>7, TickCompletes DEF Advance, Snapshot
<1>8. QED
  BY <1>1, <1>2, <1>3, <1>4, <1>5, <1>6, <1>7 DEF Next

-----------------------------------------------------------------------------
(* The reserves follow the records.                                        *)

\* The reserves still match when they have moved with the one record put.
LEMMA ReservesPut ==
  ASSUME IInv, failure = "none", NEW p \in Packets, NEW r \in Record,
         records' = Put(records, p, r),
         \A g \in Holders :
           /\ ledger'[g]["observed_locked"]
                = ledger[g]["observed_locked"]
                    + (IF Holder(r) = g /\ r.observed_status = "open" THEN r.gross ELSE 0)
                    - (IF /\ p \in DOMAIN records /\ Holder(records[p]) = g
                          /\ records[p].observed_status = "open"
                       THEN records[p].gross ELSE 0)
           /\ ledger'[g]["confirmed_locked"]
                = ledger[g]["confirmed_locked"]
                    + (IF Holder(r) = g /\ r.confirmed_status = "prepared" THEN r.gross ELSE 0)
                    - (IF /\ p \in DOMAIN records /\ Holder(records[p]) = g
                          /\ records[p].confirmed_status = "prepared"
                       THEN records[p].gross ELSE 0)
  PROVE  ReservesMatch'
<1>1. DOMAIN records \subseteq Packets /\ \A q \in DOMAIN records : records[q] \in Record
  BY DEF IInv, TypeOK
<1>2. ASSUME NEW g \in Holders
      PROVE  /\ ledger'[g]["observed_locked"] = Total(OpenFrom(records', g), Grosses(records'))
             /\ ledger'[g]["confirmed_locked"] = Total(PreparedFrom(records', g), Grosses(records'))
  <2>1. /\ ledger[g]["observed_locked"] = Total(OpenFrom(records, g), Grosses(records))
        /\ ledger[g]["confirmed_locked"] = Total(PreparedFrom(records, g), Grosses(records))
    BY DEF IInv, ReservesMatch
  <2>2. ledger'[g]["observed_locked"] = Total(OpenFrom(records', g), Grosses(records'))
    BY <1>1, <2>1, OpenPut
  <2>3. ledger'[g]["confirmed_locked"] = Total(PreparedFrom(records', g), Grosses(records'))
    BY <1>1, <2>1, PreparedPut
  <2>4. QED
    BY <2>2, <2>3
<1>3. QED
  BY <1>2 DEF ReservesMatch

\* Amounts in the ledger and in the records are natural numbers.
LEMMA AmountTypes ==
  ASSUME TypeOK
  PROVE  /\ \A g \in Holders, j \in Planes : ledger[g][j] \in Nat
         /\ \A r \in Record : /\ r.gross \in Nat /\ r.net \in Nat /\ r.fee \in Nat
                              /\ Holder(r) \in Holders
                              /\ <<r.recipient, r.asset>> \in Holders
                              /\ <<r.operator_account, r.asset>> \in Holders
         /\ total_seeded \in Nat /\ total_settled \in Nat /\ total_fees \in Nat
         /\ \A h \in DOMAIN Seed : h \in Holders /\ Seed[h] \in Nat
<1>1. Amount \subseteq Nat
  BY MaxAmountAssumption DEF Amount
<1>2. ledger \in [Holders -> Balance]
  BY DEF TypeOK
<1>3. \A g \in Holders, j \in Planes : ledger[g][j] \in Nat
  BY <1>1, <1>2 DEF Balance
<1>4. QED
  BY <1>1, <1>3, EngineAssumption DEF TypeOK, Record, Holder, Holders

\* The same record, seen by what a settlement or a cancellation keeps of it.
LEMMA TermsKept ==
  ASSUME NEW old, NEW new, Terms(new) = Terms(old)
  PROVE  /\ Holder(new) = Holder(old)
         /\ new.gross = old.gross /\ new.net = old.net /\ new.fee = old.fee
         /\ new.source = old.source /\ new.asset = old.asset /\ new.recipient = old.recipient
         /\ new.operator_account = old.operator_account
         /\ new.lane = old.lane
BY DEF Terms, Holder

LEMMA EffectKeepsReserves ==
  ASSUME IInv, failure = "none", Effect
  PROVE  ReservesMatch'
<1>1. /\ \A g \in Holders, j \in Planes : ledger[g][j] \in Nat
      /\ \A r \in Record : r.gross \in Nat
      /\ \A p \in DOMAIN records : p \in Packets /\ records[p] \in Record
      /\ \A h \in DOMAIN Seed : Seed[h] \in Nat
  BY AmountTypes DEF IInv, TypeOK
<1>2. CASE Quiet
  BY <1>2 DEF Quiet, IInv, ReservesMatch
<1>3. ASSUME NEW h \in DOMAIN Seed, Seeds(h) PROVE ReservesMatch'
  <2>1. \A g \in Holders :
          /\ ledger'[g]["observed_locked"] = ledger[g]["observed_locked"]
          /\ ledger'[g]["confirmed_locked"] = ledger[g]["confirmed_locked"]
    BY <1>1, <1>3 DEF Seeds, At, Planes
  <2>2. QED
    BY <1>3, <2>1 DEF Seeds, IInv, ReservesMatch
<1>4. ASSUME NEW p \in Packets, NEW r \in Record, Opens(p, r) PROVE ReservesMatch'
  <2>1. \A g \in Holders :
          /\ ledger'[g]["observed_locked"]
               = ledger[g]["observed_locked"] + (IF Holder(r) = g THEN r.gross ELSE 0)
          /\ ledger'[g]["confirmed_locked"]
               = ledger[g]["confirmed_locked"] + (IF Holder(r) = g THEN r.gross ELSE 0)
    BY <1>1, <1>4 DEF Opens, At, Planes
  <2>2. QED
    BY <1>1, <1>4, <2>1, ReservesPut DEF Opens
<1>5. ASSUME NEW p \in Packets, NEW r \in Record, Reopens(p, r) PROVE ReservesMatch'
  <2>1. \A g \in Holders :
          /\ ledger'[g]["observed_locked"]
               = ledger[g]["observed_locked"] + (IF Holder(r) = g THEN r.gross ELSE 0)
          /\ ledger'[g]["confirmed_locked"] = ledger[g]["confirmed_locked"]
    BY <1>1, <1>5 DEF Reopens, At, Planes
  <2>2. /\ p \in DOMAIN records /\ records' = Put(records, p, r)
        /\ records[p].gross = r.gross /\ Holder(records[p]) = Holder(r)
    BY <1>5, TermsKept DEF Reopens
  <2>3. ASSUME NEW g \in Holders
        PROVE  /\ ledger'[g]["observed_locked"]
                    = ledger[g]["observed_locked"]
                        + (IF Holder(r) = g /\ r.observed_status = "open" THEN r.gross ELSE 0)
                        - (IF /\ p \in DOMAIN records /\ Holder(records[p]) = g
                              /\ records[p].observed_status = "open"
                           THEN records[p].gross ELSE 0)
               /\ ledger'[g]["confirmed_locked"]
                    = ledger[g]["confirmed_locked"]
                        + (IF Holder(r) = g /\ r.confirmed_status = "prepared" THEN r.gross ELSE 0)
                        - (IF /\ p \in DOMAIN records /\ Holder(records[p]) = g
                              /\ records[p].confirmed_status = "prepared"
                           THEN records[p].gross ELSE 0)
    <3>1. ledger[g]["observed_locked"] \in Nat /\ ledger[g]["confirmed_locked"] \in Nat
      BY <1>1 DEF Planes
    <3>2. QED
      BY <1>1, <1>5, <2>1, <2>2, <3>1 DEF Reopens
  <2>4. QED
    BY <2>2, <2>3, ReservesPut
<1>6. ASSUME NEW p \in Packets, NEW r \in Record, Releases(p, r) PROVE ReservesMatch'
  <2>1. \A g \in Holders :
          /\ ledger'[g]["observed_locked"]
               = ledger[g]["observed_locked"] - (IF Holder(r) = g THEN r.gross ELSE 0)
          /\ ledger'[g]["confirmed_locked"] = ledger[g]["confirmed_locked"]
    BY <1>1, <1>6 DEF Releases, At, Planes
  <2>2. /\ p \in DOMAIN records /\ records' = Put(records, p, r)
        /\ records[p].gross = r.gross /\ Holder(records[p]) = Holder(r)
    BY <1>6, TermsKept DEF Releases
  <2>3. ASSUME NEW g \in Holders
        PROVE  /\ ledger'[g]["observed_locked"]
                    = ledger[g]["observed_locked"]
                        + (IF Holder(r) = g /\ r.observed_status = "open" THEN r.gross ELSE 0)
                        - (IF /\ p \in DOMAIN records /\ Holder(records[p]) = g
                              /\ records[p].observed_status = "open"
                           THEN records[p].gross ELSE 0)
               /\ ledger'[g]["confirmed_locked"]
                    = ledger[g]["confirmed_locked"]
                        + (IF Holder(r) = g /\ r.confirmed_status = "prepared" THEN r.gross ELSE 0)
                        - (IF /\ p \in DOMAIN records /\ Holder(records[p]) = g
                              /\ records[p].confirmed_status = "prepared"
                           THEN records[p].gross ELSE 0)
    <3>1. ledger[g]["observed_locked"] \in Nat /\ ledger[g]["confirmed_locked"] \in Nat
      BY <1>1 DEF Planes
    <3>2. QED
      BY <1>1, <1>6, <2>1, <2>2, <3>1 DEF Releases
  <2>4. QED
    BY <2>2, <2>3, ReservesPut
<1>7. ASSUME NEW p \in Packets, NEW r \in Record, Repeats(p, r) PROVE ReservesMatch'
  BY <1>1, <1>7, ReservesPut, TermsKept DEF Repeats, IsSettled, Planes
<1>8. ASSUME NEW p \in Packets, NEW r \in Record, Settles(p, r) PROVE ReservesMatch'
  <2>1. \A g \in Holders :
          /\ ledger'[g]["observed_locked"]
               = ledger[g]["observed_locked"]
                   - (IF Holder(r) = g /\ records[p].observed_status = "open" THEN r.gross ELSE 0)
          /\ ledger'[g]["confirmed_locked"]
               = ledger[g]["confirmed_locked"] - (IF Holder(r) = g THEN r.gross ELSE 0)
    BY <1>1, <1>8 DEF Settles, At, Planes
  <2>2. /\ p \in DOMAIN records /\ records' = Put(records, p, r)
        /\ records[p].gross = r.gross /\ Holder(records[p]) = Holder(r)
    BY <1>8, TermsKept DEF Settles
  <2>3. ASSUME NEW g \in Holders
        PROVE  /\ ledger'[g]["observed_locked"]
                    = ledger[g]["observed_locked"]
                        + (IF Holder(r) = g /\ r.observed_status = "open" THEN r.gross ELSE 0)
                        - (IF /\ p \in DOMAIN records /\ Holder(records[p]) = g
                              /\ records[p].observed_status = "open"
                           THEN records[p].gross ELSE 0)
               /\ ledger'[g]["confirmed_locked"]
                    = ledger[g]["confirmed_locked"]
                        + (IF Holder(r) = g /\ r.confirmed_status = "prepared" THEN r.gross ELSE 0)
                        - (IF /\ p \in DOMAIN records /\ Holder(records[p]) = g
                              /\ records[p].confirmed_status = "prepared"
                           THEN records[p].gross ELSE 0)
    <3>1. ledger[g]["observed_locked"] \in Nat /\ ledger[g]["confirmed_locked"] \in Nat
      BY <1>1 DEF Planes
    <3>2. QED
      BY <1>1, <1>8, <2>1, <2>2, <3>1 DEF Settles, IsSettled
  <2>4. QED
    BY <2>2, <2>3, ReservesPut
<1>9. QED
  BY <1>2, <1>3, <1>4, <1>5, <1>6, <1>7, <1>8 DEF Effect, PacketEffect

LEMMA InvStep ==
  IInv /\ [Next]_vars => IInv'
<1> SUFFICES ASSUME IInv, [Next]_vars PROVE IInv'
  OBVIOUS
<1>1. CASE Next
  <2>1. Completes
    BY <1>1, NextCompletes
  <2>2. CASE failure' # "none"
    BY <2>1, <2>2 DEF Completes, IInv, ReservesMatch, PlanesAgree
  <2>3. CASE failure' = "none"
    BY <2>1, <2>3, EffectKeepsReserves DEF Completes, IInv
  <2>4. QED
    BY <2>2, <2>3
<1>2. CASE UNCHANGED vars
  BY <1>2 DEF vars, totals, IInv, TypeOK, NoInternalFault, AmountsSplit, ReservesMatch,
              PlanesAgree, ValidLane
<1>3. QED
  BY <1>1, <1>2

LEMMA InvAlways ==
  Spec => []IInv
<1>1. QED
  BY InvInit, InvStep, PTL DEF Spec

\* Type correctness: every handler, also one that throws halfway, leaves every
\* amount inside Amount, every record well formed and every lane valid.
THEOREM TypeCorrect ==
  Spec => []TypeOK
<1>1. IInv => TypeOK
  BY DEF IInv
<1>2. QED
  BY <1>1, InvAlways, PTL

\* At any moment of any scenario a holder's observed_locked is the sum of its
\* open packets and its confirmed_locked that of its prepared packets.
THEOREM ReservesCorrect ==
  Spec => []ReservesMatch
<1>1. IInv => ReservesMatch
  BY DEF IInv
<1>2. QED
  BY <1>1, InvAlways, PTL

\* The InvariantViolation guards of release_observed, consume_observed and
\* settle_confirmed are never the ones that end a run.
THEOREM NoInternalFaultCorrect ==
  Spec => []NoInternalFault
<1>1. IInv => NoInternalFault
  BY DEF IInv
<1>2. QED
  BY <1>1, InvAlways, PTL

\* The observed and the confirmed plane of a packet never contradict each
\* other, for any lanes, templates, acknowledgements and order of actions.
THEOREM PlanesCorrect ==
  Spec => []PlanesAgree
<1>1. IInv => PlanesAgree
  BY DEF IInv
<1>2. QED
  BY <1>1, InvAlways, PTL

LEMMA HistoryStep ==
  IInv /\ [Next]_vars =>
    [\A p \in DOMAIN records :
       p \in DOMAIN records' /\ Continued(records[p], records'[p], epoch')]_vars
BY NextCompletes DEF Completes, Lasts

\* Whatever is called, and also by a call that throws halfway, no record is lost,
\* no settled record changes but in its acknowledgements, and an attempt is added
\* exactly by turning a cancelled packet open again.
THEOREM PacketHistoryCorrect ==
  Spec => PacketHistory
<1>1. QED
  BY InvAlways, HistoryStep, PTL DEF Spec, PacketHistory

-----------------------------------------------------------------------------
(* The books.  What the ledger says of every account is what the records   *)
(* explain: the spendable funds and the informative planes of each holder, *)
(* and the totals of the report.  Each call that returns has put at most   *)
(* one record, so a sum over the records changes by what that record       *)
(* contributes after and before.                                           *)

\* The books of the engine, inductive together with IInv.
BooksInv == IInv /\ AvailableReconciles /\ CreditsReconcile

When(cond, x) == IF cond THEN x ELSE 0

-----------------------------------------------------------------------------
(* Sums over selections of the records.                                    *)

\* A selection that gains or loses p at most changes each of its sums by what
\* p weighs after and before.
LEMMA SelectionPut ==
  ASSUME NEW R, DOMAIN R \subseteq Packets, \A q \in DOMAIN R : R[q] \in Record,
         NEW p \in Packets, NEW r \in Record, NEW Q, Q = Put(R, p, r),
         NEW S, S \subseteq DOMAIN R, NEW T, T \subseteq DOMAIN Q, S \ {p} = T \ {p}
  PROVE  /\ Total(S, Grosses(R)) \in Nat /\ Total(S, Nets(R)) \in Nat /\ Total(S, Fees(R)) \in Nat
         /\ Total(T, Grosses(Q)) = Total(S, Grosses(R)) + When(p \in T, r.gross)
                                                        - When(p \in S, R[p].gross)
         /\ Total(T, Nets(Q)) = Total(S, Nets(R)) + When(p \in T, r.net) - When(p \in S, R[p].net)
         /\ Total(T, Fees(Q)) = Total(S, Fees(R)) + When(p \in T, r.fee) - When(p \in S, R[p].fee)
<1>1. /\ DOMAIN Q = DOMAIN R \cup {p} /\ Q[p] = r
      /\ \A x \in DOMAIN R : x # p => Q[x] = R[x]
  BY DEF Put
<1>2. DOMAIN Q \subseteq Packets /\ \A q \in DOMAIN Q : Q[q] \in Record
  BY <1>1
<1>3. /\ IsFiniteSet(S) /\ IsFiniteSet(T)
      /\ \A y \in S : /\ Grosses(R)[y] \in Nat /\ Grosses(R)[y] = R[y].gross
                      /\ Nets(R)[y] \in Nat /\ Nets(R)[y] = R[y].net
                      /\ Fees(R)[y] \in Nat /\ Fees(R)[y] = R[y].fee
      /\ \A y \in T : /\ Grosses(Q)[y] \in Nat /\ Grosses(Q)[y] = Q[y].gross
                      /\ Nets(Q)[y] \in Nat /\ Nets(Q)[y] = Q[y].net
                      /\ Fees(Q)[y] \in Nat /\ Fees(Q)[y] = Q[y].fee
  <2>1. S \in SUBSET DOMAIN R /\ T \in SUBSET DOMAIN Q
    OBVIOUS
  <2>2. QED
    BY <1>2, <2>1, TableProps
<1>4. \A y \in S \ {p} : R[y] = Q[y]
  BY <1>1
<1>5. /\ Total(S, Grosses(R)) \in Nat
      /\ Total(T, Grosses(Q)) = Total(S, Grosses(R)) + (IF p \in T THEN Grosses(Q)[p] ELSE 0)
                                                     - (IF p \in S THEN Grosses(R)[p] ELSE 0)
  <2>1. \A y \in S \ {p} : Grosses(R)[y] = Grosses(Q)[y]
    BY <1>3, <1>4
  <2>2. QED
    BY <1>3, <2>1, TotalUpdate
<1>6. /\ Total(S, Nets(R)) \in Nat
      /\ Total(T, Nets(Q)) = Total(S, Nets(R)) + (IF p \in T THEN Nets(Q)[p] ELSE 0)
                                               - (IF p \in S THEN Nets(R)[p] ELSE 0)
  <2>1. \A y \in S \ {p} : Nets(R)[y] = Nets(Q)[y]
    BY <1>3, <1>4
  <2>2. QED
    BY <1>3, <2>1, TotalUpdate
<1>7. /\ Total(S, Fees(R)) \in Nat
      /\ Total(T, Fees(Q)) = Total(S, Fees(R)) + (IF p \in T THEN Fees(Q)[p] ELSE 0)
                                               - (IF p \in S THEN Fees(R)[p] ELSE 0)
  <2>1. \A y \in S \ {p} : Fees(R)[y] = Fees(Q)[y]
    BY <1>3, <1>4
  <2>2. QED
    BY <1>3, <2>1, TotalUpdate
<1>8. QED
  BY <1>1, <1>3, <1>5, <1>6, <1>7 DEF When

\* What a record counts for in the books of holder g.
Debit(r, g)   == When(Holder(r) = g /\ r.observed_status \in {"open", "consumed"}, r.gross)
Payment(r, g) == When(IsSettled(r) /\ <<r.recipient, r.asset>> = g, r.net)
Service(r, g) == When(IsSettled(r) /\ <<r.operator_account, r.asset>> = g, r.fee)
Charge(r, g)  == When(IsSettled(r) /\ Holder(r) = g, r.fee)

Previously(p, x) == When(p \in DOMAIN records, x)

\* The books of one holder after a record was put.
LEMMA HolderPut ==
  ASSUME TypeOK, NEW p \in Packets, NEW r \in Record, records' = Put(records, p, r), NEW g
  PROVE  /\ Total(DebitedFrom(records, g), Grosses(records)) \in Nat
         /\ Total(DebitedFrom(records', g), Grosses(records'))
              = Total(DebitedFrom(records, g), Grosses(records))
                  + Debit(r, g) - Previously(p, Debit(records[p], g))
         /\ Total(PaidTo(records, g), Nets(records)) \in Nat
         /\ Total(PaidTo(records', g), Nets(records'))
              = Total(PaidTo(records, g), Nets(records))
                  + Payment(r, g) - Previously(p, Payment(records[p], g))
         /\ Total(ServedBy(records, g), Fees(records)) \in Nat
         /\ Total(ServedBy(records', g), Fees(records'))
              = Total(ServedBy(records, g), Fees(records))
                  + Service(r, g) - Previously(p, Service(records[p], g))
         /\ Total(SettledFrom(records, g), Fees(records)) \in Nat
         /\ Total(SettledFrom(records', g), Fees(records'))
              = Total(SettledFrom(records, g), Fees(records))
                  + Charge(r, g) - Previously(p, Charge(records[p], g))
<1> DEFINE R == records
           Q == Put(R, p, r)
<1>1. DOMAIN R \subseteq Packets /\ \A q \in DOMAIN R : R[q] \in Record
  BY DEF TypeOK
<1>2. /\ DOMAIN Q = DOMAIN R \cup {p} /\ Q[p] = r
      /\ \A x \in DOMAIN R : x # p => Q[x] = R[x]
  BY DEF Put
<1> HIDE DEF Q
<1>3. Q = Put(R, p, r)
  BY DEF Q
<1>4. /\ Total(DebitedFrom(R, g), Grosses(R)) \in Nat
      /\ Total(DebitedFrom(Q, g), Grosses(Q))
           = Total(DebitedFrom(R, g), Grosses(R)) + Debit(r, g) - Previously(p, Debit(R[p], g))
  <2> DEFINE S == DebitedFrom(R, g)
             T == DebitedFrom(Q, g)
  <2>1. S \subseteq DOMAIN R /\ T \subseteq DOMAIN Q /\ S \ {p} = T \ {p}
    BY <1>2 DEF DebitedFrom
  <2>2. /\ p \in T <=> Holder(r) = g /\ r.observed_status \in {"open", "consumed"}
        /\ p \in S <=> /\ p \in DOMAIN R /\ Holder(R[p]) = g
                       /\ R[p].observed_status \in {"open", "consumed"}
    BY <1>2 DEF DebitedFrom
  <2> HIDE DEF S, T
  <2>3. /\ Total(S, Grosses(R)) \in Nat
        /\ Total(T, Grosses(Q)) = Total(S, Grosses(R)) + When(p \in T, r.gross)
                                                       - When(p \in S, R[p].gross)
    BY <1>1, <1>3, <2>1, SelectionPut
  <2>4. When(p \in T, r.gross) = Debit(r, g)
        /\ When(p \in S, R[p].gross) = Previously(p, Debit(R[p], g))
    BY <2>2 DEF When, Debit, Previously
  <2>5. QED
    BY <2>3, <2>4 DEF S, T
<1>5. /\ Total(PaidTo(R, g), Nets(R)) \in Nat
      /\ Total(PaidTo(Q, g), Nets(Q))
           = Total(PaidTo(R, g), Nets(R)) + Payment(r, g) - Previously(p, Payment(R[p], g))
  <2> DEFINE S == PaidTo(R, g)
             T == PaidTo(Q, g)
  <2>1. S \subseteq DOMAIN R /\ T \subseteq DOMAIN Q /\ S \ {p} = T \ {p}
    BY <1>2 DEF PaidTo, Settled
  <2>2. /\ p \in T <=> IsSettled(r) /\ <<r.recipient, r.asset>> = g
        /\ p \in S <=> p \in DOMAIN R /\ IsSettled(R[p]) /\ <<R[p].recipient, R[p].asset>> = g
    BY <1>2 DEF PaidTo, Settled
  <2> HIDE DEF S, T
  <2>3. /\ Total(S, Nets(R)) \in Nat
        /\ Total(T, Nets(Q)) = Total(S, Nets(R)) + When(p \in T, r.net) - When(p \in S, R[p].net)
    BY <1>1, <1>3, <2>1, SelectionPut
  <2>4. When(p \in T, r.net) = Payment(r, g)
        /\ When(p \in S, R[p].net) = Previously(p, Payment(R[p], g))
    BY <2>2 DEF When, Payment, Previously
  <2>5. QED
    BY <2>3, <2>4 DEF S, T
<1>6. /\ Total(ServedBy(R, g), Fees(R)) \in Nat
      /\ Total(ServedBy(Q, g), Fees(Q))
           = Total(ServedBy(R, g), Fees(R)) + Service(r, g) - Previously(p, Service(R[p], g))
  <2> DEFINE S == ServedBy(R, g)
             T == ServedBy(Q, g)
  <2>1. S \subseteq DOMAIN R /\ T \subseteq DOMAIN Q /\ S \ {p} = T \ {p}
    BY <1>2 DEF ServedBy, Settled
  <2>2. /\ p \in T <=> IsSettled(r) /\ <<r.operator_account, r.asset>> = g
        /\ p \in S <=> /\ p \in DOMAIN R /\ IsSettled(R[p])
                       /\ <<R[p].operator_account, R[p].asset>> = g
    BY <1>2 DEF ServedBy, Settled
  <2> HIDE DEF S, T
  <2>3. /\ Total(S, Fees(R)) \in Nat
        /\ Total(T, Fees(Q)) = Total(S, Fees(R)) + When(p \in T, r.fee) - When(p \in S, R[p].fee)
    BY <1>1, <1>3, <2>1, SelectionPut
  <2>4. When(p \in T, r.fee) = Service(r, g)
        /\ When(p \in S, R[p].fee) = Previously(p, Service(R[p], g))
    BY <2>2 DEF When, Service, Previously
  <2>5. QED
    BY <2>3, <2>4 DEF S, T
<1>7. /\ Total(SettledFrom(R, g), Fees(R)) \in Nat
      /\ Total(SettledFrom(Q, g), Fees(Q))
           = Total(SettledFrom(R, g), Fees(R)) + Charge(r, g) - Previously(p, Charge(R[p], g))
  <2> DEFINE S == SettledFrom(R, g)
             T == SettledFrom(Q, g)
  <2>1. S \subseteq DOMAIN R /\ T \subseteq DOMAIN Q /\ S \ {p} = T \ {p}
    BY <1>2 DEF SettledFrom, Settled
  <2>2. /\ p \in T <=> IsSettled(r) /\ Holder(r) = g
        /\ p \in S <=> p \in DOMAIN R /\ IsSettled(R[p]) /\ Holder(R[p]) = g
    BY <1>2 DEF SettledFrom, Settled
  <2> HIDE DEF S, T
  <2>3. /\ Total(S, Fees(R)) \in Nat
        /\ Total(T, Fees(Q)) = Total(S, Fees(R)) + When(p \in T, r.fee) - When(p \in S, R[p].fee)
    BY <1>1, <1>3, <2>1, SelectionPut
  <2>4. When(p \in T, r.fee) = Charge(r, g)
        /\ When(p \in S, R[p].fee) = Previously(p, Charge(R[p], g))
    BY <2>2 DEF When, Charge, Previously
  <2>5. QED
    BY <2>3, <2>4 DEF S, T
<1>8. records' = Q
  BY <1>3
<1>9. QED
  BY <1>4, <1>5, <1>6, <1>7, <1>8

\* The totals over all settled packets after a record was put.
LEMMA SettledPut ==
  ASSUME TypeOK, NEW p \in Packets, NEW r \in Record, records' = Put(records, p, r)
  PROVE  /\ Total(Settled(records), Nets(records)) \in Nat
         /\ Total(Settled(records'), Nets(records'))
              = Total(Settled(records), Nets(records))
                  + When(IsSettled(r), r.net) - Previously(p, When(IsSettled(records[p]), records[p].net))
         /\ Total(Settled(records), Fees(records)) \in Nat
         /\ Total(Settled(records'), Fees(records'))
              = Total(Settled(records), Fees(records))
                  + When(IsSettled(r), r.fee) - Previously(p, When(IsSettled(records[p]), records[p].fee))
<1> DEFINE R == records
           Q == Put(R, p, r)
           S == Settled(R)
           T == Settled(Q)
<1>1. DOMAIN R \subseteq Packets /\ \A q \in DOMAIN R : R[q] \in Record
  BY DEF TypeOK
<1>2. /\ DOMAIN Q = DOMAIN R \cup {p} /\ Q[p] = r
      /\ \A x \in DOMAIN R : x # p => Q[x] = R[x]
  BY DEF Put
<1> HIDE DEF Q
<1>3. S \subseteq DOMAIN R /\ T \subseteq DOMAIN Q /\ S \ {p} = T \ {p}
  BY <1>2 DEF Settled
<1>4. (p \in T <=> IsSettled(r)) /\ (p \in S <=> p \in DOMAIN R /\ IsSettled(R[p]))
  BY <1>2 DEF Settled
<1> HIDE DEF S, T
<1>5. /\ Total(S, Nets(R)) \in Nat /\ Total(S, Fees(R)) \in Nat
      /\ Total(T, Nets(Q)) = Total(S, Nets(R)) + When(p \in T, r.net) - When(p \in S, R[p].net)
      /\ Total(T, Fees(Q)) = Total(S, Fees(R)) + When(p \in T, r.fee) - When(p \in S, R[p].fee)
  <2>1. Q = Put(R, p, r)
    BY DEF Q
  <2>2. QED
    BY <1>1, <1>3, <2>1, SelectionPut
<1>6. /\ When(p \in T, r.net) = When(IsSettled(r), r.net)
      /\ When(p \in T, r.fee) = When(IsSettled(r), r.fee)
      /\ When(p \in S, R[p].net) = Previously(p, When(IsSettled(R[p]), R[p].net))
      /\ When(p \in S, R[p].fee) = Previously(p, When(IsSettled(R[p]), R[p].fee))
  BY <1>4 DEF When, Previously
<1>7. records' = Q
  BY DEF Q
<1>8. QED
  BY <1>5, <1>6, <1>7 DEF S, T

-----------------------------------------------------------------------------
(* What a call on one packet does to the books.                            *)

\* Every plane moves by the difference of what the record counts for.
Booked(p, r) ==
  /\ \A g \in Holders :
       /\ ledger'[g]["available"]
            = ledger[g]["available"]
                - (Debit(r, g) - Previously(p, Debit(records[p], g)))
                + (Payment(r, g) - Previously(p, Payment(records[p], g)))
                + (Service(r, g) - Previously(p, Service(records[p], g)))
       /\ ledger'[g]["received"]
            = ledger[g]["received"] + (Payment(r, g) - Previously(p, Payment(records[p], g)))
       /\ ledger'[g]["fees_paid"]
            = ledger[g]["fees_paid"] + (Charge(r, g) - Previously(p, Charge(records[p], g)))
       /\ ledger'[g]["fees_earned"]
            = ledger[g]["fees_earned"] + (Service(r, g) - Previously(p, Service(records[p], g)))
  /\ total_settled' = total_settled + (When(IsSettled(r), r.net)
                                         - Previously(p, When(IsSettled(records[p]), records[p].net)))
  /\ total_fees' = total_fees + (When(IsSettled(r), r.fee)
                                   - Previously(p, When(IsSettled(records[p]), records[p].fee)))
  /\ UNCHANGED <<seeded, total_seeded>>

LEMMA OpensBooked ==
  ASSUME TypeOK, NEW p \in Packets, NEW r \in Record, Opens(p, r)
  PROVE  Booked(p, r)
<1>1. /\ \A g \in Holders, j \in Planes : ledger[g][j] \in Nat
      /\ r.gross \in Nat /\ total_settled \in Nat /\ total_fees \in Nat
  BY AmountTypes
<1>2. p \notin DOMAIN records /\ r.observed_status = "open" /\ ~IsSettled(r)
  BY DEF Opens, IsSettled
<1>3. /\ \A x : Previously(p, x) = 0
      /\ When(IsSettled(r), r.net) = 0 /\ When(IsSettled(r), r.fee) = 0
      /\ \A g : /\ Payment(r, g) = 0 /\ Service(r, g) = 0 /\ Charge(r, g) = 0
                /\ Debit(r, g) = IF Holder(r) = g THEN r.gross ELSE 0
  BY <1>2 DEF Previously, When, Payment, Service, Charge, Debit
<1>4. \A g \in Holders :
        /\ ledger'[g]["available"] = ledger[g]["available"] - Debit(r, g)
        /\ \A j \in {"received", "fees_paid", "fees_earned"} : ledger'[g][j] = ledger[g][j]
  BY <1>1, <1>3 DEF Opens, At, Planes
<1>5. UNCHANGED <<seeded, totals>>
  BY DEF Opens
<1>6. \A g \in Holders : /\ Debit(r, g) \in Nat /\ ledger[g]["available"] \in Nat
                         /\ ledger[g]["received"] \in Nat /\ ledger[g]["fees_paid"] \in Nat
                         /\ ledger[g]["fees_earned"] \in Nat
  BY <1>1, <1>3 DEF Planes
<1>7. QED
  BY <1>1, <1>3, <1>4, <1>5, <1>6 DEF Booked, totals

LEMMA ReopensBooked ==
  ASSUME TypeOK, NEW p \in Packets, NEW r \in Record, Reopens(p, r)
  PROVE  Booked(p, r)
<1>1. /\ \A g \in Holders, j \in Planes : ledger[g][j] \in Nat
      /\ r.gross \in Nat /\ total_settled \in Nat /\ total_fees \in Nat
  BY AmountTypes
<1>2. /\ p \in DOMAIN records /\ r.observed_status = "open" /\ ~IsSettled(r)
      /\ records[p].observed_status = "cancelled" /\ ~IsSettled(records[p])
  BY DEF Reopens, IsSettled
<1>3. /\ \A x : Previously(p, x) = x
      /\ When(IsSettled(r), r.net) = 0 /\ When(IsSettled(r), r.fee) = 0
      /\ When(IsSettled(records[p]), records[p].net) = 0
      /\ When(IsSettled(records[p]), records[p].fee) = 0
      /\ \A g : /\ Payment(r, g) = 0 /\ Service(r, g) = 0 /\ Charge(r, g) = 0
                /\ Payment(records[p], g) = 0 /\ Service(records[p], g) = 0
                /\ Charge(records[p], g) = 0 /\ Debit(records[p], g) = 0
                /\ Debit(r, g) = IF Holder(r) = g THEN r.gross ELSE 0
  BY <1>2 DEF Previously, When, Payment, Service, Charge, Debit
<1>4. \A g \in Holders :
        /\ ledger'[g]["available"] = ledger[g]["available"] - Debit(r, g)
        /\ \A j \in {"received", "fees_paid", "fees_earned"} : ledger'[g][j] = ledger[g][j]
  BY <1>1, <1>3 DEF Reopens, At, Planes
<1>5. UNCHANGED <<seeded, totals>>
  BY DEF Reopens
<1>6. \A g \in Holders : /\ Debit(r, g) \in Nat /\ ledger[g]["available"] \in Nat
                         /\ ledger[g]["received"] \in Nat /\ ledger[g]["fees_paid"] \in Nat
                         /\ ledger[g]["fees_earned"] \in Nat
  BY <1>1, <1>3 DEF Planes
<1>7. QED
  BY <1>1, <1>3, <1>4, <1>5, <1>6 DEF Booked, totals

LEMMA ReleasesBooked ==
  ASSUME TypeOK, NEW p \in Packets, NEW r \in Record, Releases(p, r)
  PROVE  Booked(p, r)
<1>1. /\ \A g \in Holders, j \in Planes : ledger[g][j] \in Nat
      /\ r.gross \in Nat /\ total_settled \in Nat /\ total_fees \in Nat
  BY AmountTypes
<1>2. /\ p \in DOMAIN records /\ r.observed_status = "cancelled" /\ ~IsSettled(r)
      /\ records[p].observed_status = "open" /\ ~IsSettled(records[p])
      /\ Holder(records[p]) = Holder(r) /\ records[p].gross = r.gross
  BY TermsKept DEF Releases, IsSettled
<1>3. /\ \A x : Previously(p, x) = x
      /\ When(IsSettled(r), r.net) = 0 /\ When(IsSettled(r), r.fee) = 0
      /\ When(IsSettled(records[p]), records[p].net) = 0
      /\ When(IsSettled(records[p]), records[p].fee) = 0
      /\ \A g : /\ Payment(r, g) = 0 /\ Service(r, g) = 0 /\ Charge(r, g) = 0
                /\ Payment(records[p], g) = 0 /\ Service(records[p], g) = 0
                /\ Charge(records[p], g) = 0 /\ Debit(r, g) = 0
                /\ Debit(records[p], g) = IF Holder(r) = g THEN r.gross ELSE 0
  BY <1>2 DEF Previously, When, Payment, Service, Charge, Debit
<1>4. \A g \in Holders :
        /\ ledger'[g]["available"] = ledger[g]["available"] + Debit(records[p], g)
        /\ \A j \in {"received", "fees_paid", "fees_earned"} : ledger'[g][j] = ledger[g][j]
  BY <1>1, <1>3 DEF Releases, At, Planes
<1>5. UNCHANGED <<seeded, totals>>
  BY DEF Releases
<1>6. \A g \in Holders : /\ Debit(records[p], g) \in Nat /\ ledger[g]["available"] \in Nat
                         /\ ledger[g]["received"] \in Nat /\ ledger[g]["fees_paid"] \in Nat
                         /\ ledger[g]["fees_earned"] \in Nat
  BY <1>1, <1>3 DEF Planes
<1>7. QED
  BY <1>1, <1>3, <1>4, <1>5, <1>6 DEF Booked, totals

\* What each record counts for is an amount.
LEMMA CountsAreAmounts ==
  ASSUME TypeOK, NEW r \in Record, NEW g
  PROVE  /\ Debit(r, g) \in Nat /\ Payment(r, g) \in Nat
         /\ Service(r, g) \in Nat /\ Charge(r, g) \in Nat
BY AmountTypes DEF Debit, Payment, Service, Charge, When

LEMMA RepeatsBooked ==
  ASSUME TypeOK, NEW p \in Packets, NEW r \in Record, Repeats(p, r)
  PROVE  Booked(p, r)
<1> DEFINE old == records[p]
<1>1. /\ \A g \in Holders, j \in Planes : ledger[g][j] \in Nat
      /\ total_settled \in Nat /\ total_fees \in Nat /\ r.net \in Nat /\ r.fee \in Nat
  BY AmountTypes
<1>2. /\ p \in DOMAIN records /\ r.observed_status = old.observed_status
      /\ IsSettled(r) /\ IsSettled(old) /\ Holder(old) = Holder(r)
      /\ old.gross = r.gross /\ old.net = r.net /\ old.fee = r.fee
      /\ old.recipient = r.recipient /\ old.asset = r.asset
      /\ old.operator_account = r.operator_account
  BY TermsKept DEF Repeats
<1>3. /\ \A x : Previously(p, x) = x
      /\ When(IsSettled(old), old.net) = When(IsSettled(r), r.net)
      /\ When(IsSettled(old), old.fee) = When(IsSettled(r), r.fee)
      /\ When(IsSettled(r), r.net) \in Nat /\ When(IsSettled(r), r.fee) \in Nat
      /\ \A g : /\ Payment(r, g) = Payment(old, g) /\ Service(r, g) = Service(old, g)
                /\ Charge(r, g) = Charge(old, g) /\ Debit(r, g) = Debit(old, g)
  BY <1>1, <1>2 DEF Previously, When, Payment, Service, Charge, Debit
<1>4. \A g \in Holders :
        /\ Debit(r, g) \in Nat /\ Payment(r, g) \in Nat
        /\ Service(r, g) \in Nat /\ Charge(r, g) \in Nat
        /\ ledger[g]["available"] \in Nat
        /\ ledger[g]["received"] \in Nat /\ ledger[g]["fees_paid"] \in Nat
        /\ ledger[g]["fees_earned"] \in Nat
  BY <1>1, CountsAreAmounts DEF Planes
<1>5. UNCHANGED <<seeded, ledger, total_seeded, total_settled, total_fees>>
  BY DEF Repeats
<1>6. QED
  BY <1>1, <1>3, <1>4, <1>5 DEF Booked

LEMMA SettlesBooked ==
  ASSUME TypeOK, NEW p \in Packets, NEW r \in Record, Settles(p, r)
  PROVE  Booked(p, r)
<1> DEFINE old == records[p]
<1>1. /\ \A g \in Holders, j \in Planes : ledger[g][j] \in Nat
      /\ total_settled \in Nat /\ total_fees \in Nat
      /\ r.net \in Nat /\ r.fee \in Nat /\ r.gross \in Nat
  BY AmountTypes
<1>2. /\ p \in DOMAIN records /\ IsSettled(r) /\ ~IsSettled(old) /\ Holder(old) = Holder(r)
      /\ old.gross = r.gross
      /\ r.observed_status = IF old.observed_status = "open" THEN "consumed" ELSE "cancelled"
      /\ old.observed_status # "consumed"
  BY TermsKept DEF Settles, IsSettled
<1>3. /\ \A x : Previously(p, x) = x
      /\ When(IsSettled(r), r.net) = r.net /\ When(IsSettled(r), r.fee) = r.fee
      /\ When(IsSettled(old), old.net) = 0 /\ When(IsSettled(old), old.fee) = 0
      /\ \A g : /\ Payment(old, g) = 0 /\ Service(old, g) = 0 /\ Charge(old, g) = 0
                /\ Debit(old, g) = Debit(r, g)
                /\ Payment(r, g) = IF g = <<r.recipient, r.asset>> THEN r.net ELSE 0
                /\ Service(r, g) = IF g = <<r.operator_account, r.asset>> THEN r.fee ELSE 0
                /\ Charge(r, g) = IF g = Holder(r) THEN r.fee ELSE 0
  BY <1>2 DEF Previously, When, Payment, Service, Charge, Debit
<1>4. \A g \in Holders :
        /\ ledger'[g]["available"] = ledger[g]["available"] + Payment(r, g) + Service(r, g)
        /\ ledger'[g]["received"] = ledger[g]["received"] + Payment(r, g)
        /\ ledger'[g]["fees_paid"] = ledger[g]["fees_paid"] + Charge(r, g)
        /\ ledger'[g]["fees_earned"] = ledger[g]["fees_earned"] + Service(r, g)
  BY <1>1, <1>3 DEF Settles, At, Planes
<1>5. \A g \in Holders :
        /\ Debit(r, g) \in Nat /\ Payment(r, g) \in Nat
        /\ Service(r, g) \in Nat /\ Charge(r, g) \in Nat
        /\ ledger[g]["available"] \in Nat
        /\ ledger[g]["received"] \in Nat /\ ledger[g]["fees_paid"] \in Nat
        /\ ledger[g]["fees_earned"] \in Nat
  BY <1>1, CountsAreAmounts DEF Planes
<1>6. /\ total_settled' = total_settled + r.net /\ total_fees' = total_fees + r.fee
      /\ UNCHANGED <<seeded, total_seeded>>
  BY DEF Settles
<1>7. QED
  BY <1>1, <1>3, <1>4, <1>5, <1>6 DEF Booked

LEMMA PacketBooked ==
  ASSUME TypeOK, NEW p \in Packets, NEW r \in Record, PacketEffect(p, r)
  PROVE  Booked(p, r) /\ records' = Put(records, p, r)
<1>1. Booked(p, r)
  BY OpensBooked, ReopensBooked, ReleasesBooked, RepeatsBooked, SettlesBooked DEF PacketEffect
<1>2. records' = Put(records, p, r)
  BY DEF PacketEffect, Opens, Reopens, Releases, Repeats, Settles
<1>3. QED
  BY <1>1, <1>2

-----------------------------------------------------------------------------
(* The books always explain the ledger.                                    *)

\* The accounts registered so far are finitely many and declare natural numbers.
LEMMA SeededProps ==
  ASSUME TypeOK
  PROVE  /\ IsFiniteSet(Holders) /\ IsFiniteSet(seeded) /\ seeded \subseteq Holders
         /\ \A h \in DOMAIN Seed : Seed[h] \in Nat
<1>1. IsFiniteSet(Holders)
  BY LedgerAssumption, FS_Product DEF Holders
<1>2. seeded \subseteq Holders
  BY EngineAssumption DEF TypeOK, BalanceConfig
<1>3. QED
  BY <1>1, <1>2, FS_Subset, AmountTypes

LEMMA BooksSeed ==
  ASSUME BooksInv, failure = "none", NEW h \in DOMAIN Seed, Seeds(h)
  PROVE  AvailableReconciles' /\ CreditsReconcile'
<1>1. /\ \A g \in Holders, j \in Planes : ledger[g][j] \in Nat
      /\ Seed[h] \in Nat /\ h \in Holders /\ total_seeded \in Nat
  BY AmountTypes DEF BooksInv, IInv
<1>2. \A g \in Holders :
        /\ ledger'[g]["available"] = ledger[g]["available"] + (IF g = h THEN Seed[h] ELSE 0)
        /\ \A j \in {"received", "fees_paid", "fees_earned"} : ledger'[g][j] = ledger[g][j]
  BY <1>1 DEF Seeds, At, Planes
<1>3. /\ seeded' = seeded \cup {h} /\ h \notin seeded /\ total_seeded' = total_seeded + Seed[h]
      /\ UNCHANGED <<records, total_settled, total_fees>>
  BY DEF Seeds
<1>4. Total(seeded', Seed) = Total(seeded, Seed) + Seed[h]
  <2>1. /\ IsFiniteSet(seeded) /\ \A x \in seeded : Seed[x] \in Nat
    BY SeededProps DEF BooksInv, IInv, TypeOK
  <2>2. QED
    BY <1>1, <1>3, <2>1, TotalAdd
<1>5. \A g \in Holders : /\ SeedOf(g)' = SeedOf(g) + (IF g = h THEN Seed[h] ELSE 0)
                         /\ SeedOf(g) \in Nat
  BY <1>1, <1>3, AmountTypes DEF SeedOf, BooksInv, IInv, TypeOK
<1>6. AvailableReconciles'
  <2>1. ASSUME NEW g \in Holders
        PROVE  ledger'[g]["available"] + Total(DebitedFrom(records', g), Grosses(records'))
                 = SeedOf(g)' + Total(PaidTo(records', g), Nets(records'))
                              + Total(ServedBy(records', g), Fees(records'))
    <3> DEFINE d == Total(DebitedFrom(records, g), Grosses(records))
               n == Total(PaidTo(records, g), Nets(records))
               f == Total(ServedBy(records, g), Fees(records))
    <3>1. ledger[g]["available"] + d = SeedOf(g) + n + f
      BY DEF BooksInv, AvailableReconciles
    <3>2. d \in Nat /\ n \in Nat /\ f \in Nat
      <4>1. /\ DOMAIN records \subseteq Packets
            /\ \A q \in DOMAIN records : records[q] \in Record
        BY DEF BooksInv, IInv, TypeOK
      <4>2. /\ DebitedFrom(records, g) \in SUBSET DOMAIN records
            /\ PaidTo(records, g) \in SUBSET DOMAIN records
            /\ ServedBy(records, g) \in SUBSET DOMAIN records
        BY DEF DebitedFrom, PaidTo, ServedBy, Settled
      <4>3. QED
        BY <4>1, <4>2, TableProps, TotalType
    <3>3. ledger[g]["available"] \in Nat
      BY <1>1 DEF Planes
    <3> HIDE DEF d, n, f
    <3>4. ledger'[g]["available"] + d = SeedOf(g)' + n + f
      BY <1>1, <1>2, <1>5, <3>1, <3>2, <3>3
    <3>5. QED
      BY <1>3, <3>4 DEF d, n, f
  <2>2. QED
    BY <2>1 DEF AvailableReconciles
<1>7. CreditsReconcile'
  BY <1>2, <1>3, <1>4 DEF BooksInv, CreditsReconcile
<1>8. QED
  BY <1>6, <1>7

LEMMA BooksPut ==
  ASSUME BooksInv, failure = "none", NEW p \in Packets, NEW r \in Record,
         PacketEffect(p, r)
  PROVE  AvailableReconciles' /\ CreditsReconcile'
<1>1. /\ TypeOK /\ Booked(p, r) /\ records' = Put(records, p, r)
      /\ p \in DOMAIN records => records[p] \in Record
  BY PacketBooked DEF BooksInv, IInv, TypeOK
<1>2. ASSUME NEW g \in Holders
      PROVE  /\ ledger'[g]["available"] + Total(DebitedFrom(records', g), Grosses(records'))
                  = SeedOf(g)' + Total(PaidTo(records', g), Nets(records'))
                               + Total(ServedBy(records', g), Fees(records'))
             /\ ledger'[g]["received"] = Total(PaidTo(records', g), Nets(records'))
             /\ ledger'[g]["fees_paid"] = Total(SettledFrom(records', g), Fees(records'))
             /\ ledger'[g]["fees_earned"] = Total(ServedBy(records', g), Fees(records'))
  <2> DEFINE d  == Total(DebitedFrom(records, g), Grosses(records))
             n  == Total(PaidTo(records, g), Nets(records))
             f  == Total(ServedBy(records, g), Fees(records))
             c  == Total(SettledFrom(records, g), Fees(records))
             dd == Debit(r, g) - Previously(p, Debit(records[p], g))
             dn == Payment(r, g) - Previously(p, Payment(records[p], g))
             df == Service(r, g) - Previously(p, Service(records[p], g))
             dc == Charge(r, g) - Previously(p, Charge(records[p], g))
  <2>1. /\ ledger[g]["available"] + d = SeedOf(g) + n + f
        /\ ledger[g]["received"] = n /\ ledger[g]["fees_paid"] = c /\ ledger[g]["fees_earned"] = f
    BY DEF BooksInv, AvailableReconciles, CreditsReconcile
  <2>2. /\ dd \in Int /\ dn \in Int /\ df \in Int /\ dc \in Int
    <3>1. \A x \in Nat : Previously(p, x) \in Nat
      BY DEF Previously, When
    <3>2. p \notin DOMAIN records => \A x : Previously(p, x) = 0
      BY DEF Previously, When
    <3>3. QED
      BY <1>1, <3>1, <3>2, CountsAreAmounts
  <2>3. /\ d \in Nat /\ n \in Nat /\ f \in Nat /\ c \in Nat
        /\ Total(DebitedFrom(records', g), Grosses(records')) = d + dd
        /\ Total(PaidTo(records', g), Nets(records')) = n + dn
        /\ Total(ServedBy(records', g), Fees(records')) = f + df
        /\ Total(SettledFrom(records', g), Fees(records')) = c + dc
    <3>1. /\ d \in Nat /\ n \in Nat /\ f \in Nat /\ c \in Nat
          /\ Total(DebitedFrom(records', g), Grosses(records'))
               = d + Debit(r, g) - Previously(p, Debit(records[p], g))
          /\ Total(PaidTo(records', g), Nets(records'))
               = n + Payment(r, g) - Previously(p, Payment(records[p], g))
          /\ Total(ServedBy(records', g), Fees(records'))
               = f + Service(r, g) - Previously(p, Service(records[p], g))
          /\ Total(SettledFrom(records', g), Fees(records'))
               = c + Charge(r, g) - Previously(p, Charge(records[p], g))
      BY <1>1, HolderPut
    <3>2. /\ Debit(r, g) \in Nat /\ Payment(r, g) \in Nat
          /\ Service(r, g) \in Nat /\ Charge(r, g) \in Nat
      BY <1>1, CountsAreAmounts
    <3>3. /\ Previously(p, Debit(records[p], g)) \in Nat /\ Previously(p, Payment(records[p], g)) \in Nat
          /\ Previously(p, Service(records[p], g)) \in Nat /\ Previously(p, Charge(records[p], g)) \in Nat
      BY <1>1, CountsAreAmounts DEF Previously, When
    <3>4. QED
      BY <3>1, <3>2, <3>3
  <2>4. /\ ledger'[g]["available"] = ledger[g]["available"] - dd + dn + df
        /\ ledger'[g]["received"] = ledger[g]["received"] + dn
        /\ ledger'[g]["fees_paid"] = ledger[g]["fees_paid"] + dc
        /\ ledger'[g]["fees_earned"] = ledger[g]["fees_earned"] + df
        /\ SeedOf(g)' = SeedOf(g)
    BY <1>1 DEF Booked, SeedOf
  <2>5. ledger[g]["available"] \in Nat /\ SeedOf(g) \in Nat
    BY <1>1, AmountTypes DEF SeedOf, Planes, TypeOK
  <2> HIDE DEF d, n, f, c, dd, dn, df, dc
  <2>6. QED
    BY <2>1, <2>2, <2>3, <2>4, <2>5
<1>3. /\ total_settled' = Total(Settled(records'), Nets(records'))
      /\ total_fees' = Total(Settled(records'), Fees(records'))
      /\ total_seeded' = Total(seeded', Seed)
  <2> DEFINE n  == Total(Settled(records), Nets(records))
             f  == Total(Settled(records), Fees(records))
             an == When(IsSettled(r), r.net)
             bn == Previously(p, When(IsSettled(records[p]), records[p].net))
             af == When(IsSettled(r), r.fee)
             bf == Previously(p, When(IsSettled(records[p]), records[p].fee))
  <2>1. total_settled = n /\ total_fees = f /\ total_seeded = Total(seeded, Seed)
    BY DEF BooksInv, CreditsReconcile
  <2>2. /\ an \in Nat /\ af \in Nat /\ bn \in Nat /\ bf \in Nat
    BY <1>1, AmountTypes DEF When, Previously
  <2>3. /\ n \in Nat /\ f \in Nat
        /\ Total(Settled(records'), Nets(records')) = n + an - bn
        /\ Total(Settled(records'), Fees(records')) = f + af - bf
    BY <1>1, SettledPut
  <2>4. /\ total_settled' = total_settled + (an - bn) /\ total_fees' = total_fees + (af - bf)
        /\ total_seeded' = total_seeded /\ seeded' = seeded
    BY <1>1 DEF Booked
  <2> HIDE DEF n, f, an, bn, af, bf
  <2>5. QED
    BY <2>1, <2>2, <2>3, <2>4
<1>4. QED
  BY <1>2, <1>3 DEF AvailableReconciles, CreditsReconcile

\* Initially there is nothing to explain.
LEMMA BooksInit ==
  Init => BooksInv
<1> SUFFICES ASSUME Init PROVE BooksInv
  OBVIOUS
<1>1. DOMAIN records = {} /\ seeded = {}
  BY DEF Init
<1>2. \A g \in Holders, j \in Planes : ledger[g][j] = 0
  BY DEF Init, EmptyLedger
<1>3. \A g : /\ DebitedFrom(records, g) = {} /\ PaidTo(records, g) = {}
             /\ ServedBy(records, g) = {} /\ SettledFrom(records, g) = {}
             /\ Settled(records) = {} /\ SeedOf(g) = 0
  BY <1>1 DEF DebitedFrom, PaidTo, ServedBy, SettledFrom, Settled, SeedOf
<1>4. AvailableReconciles
  BY <1>2, <1>3, TotalEmpty DEF AvailableReconciles, Planes
<1>5. CreditsReconcile
  BY <1>1, <1>2, <1>3, TotalEmpty DEF CreditsReconcile, Planes, Init
<1>6. QED
  BY <1>4, <1>5, InvInit DEF BooksInv

LEMMA BooksStep ==
  BooksInv /\ [Next]_vars => BooksInv'
<1> SUFFICES ASSUME BooksInv, [Next]_vars PROVE BooksInv'
  OBVIOUS
<1>1. IInv /\ IInv'
  BY InvStep DEF BooksInv
<1>2. CASE failure' # "none"
  BY <1>1, <1>2 DEF BooksInv, AvailableReconciles, CreditsReconcile
<1>3. CASE Next /\ failure' = "none"
  <2>1. Effect /\ failure = "none"
    BY <1>1, <1>3, NextCompletes DEF Completes
  <2>2. CASE Quiet
    BY <1>1, <2>1, <2>2 DEF Quiet, totals, BooksInv, AvailableReconciles, CreditsReconcile,
                            SeedOf
  <2>3. ASSUME NEW h \in DOMAIN Seed, Seeds(h) PROVE BooksInv'
    BY <1>1, <2>1, <2>3, BooksSeed DEF BooksInv
  <2>4. ASSUME NEW p \in Packets, NEW r \in Record, PacketEffect(p, r) PROVE BooksInv'
    BY <1>1, <2>1, <2>4, BooksPut DEF BooksInv
  <2>5. QED
    BY <2>1, <2>2, <2>3, <2>4 DEF Effect
<1>4. CASE UNCHANGED vars
  BY <1>1, <1>4 DEF vars, totals, BooksInv, AvailableReconciles, CreditsReconcile, SeedOf
<1>5. QED
  BY <1>2, <1>3, <1>4

LEMMA BooksAlways ==
  Spec => []BooksInv
BY BooksInit, BooksStep, PTL DEF Spec

\* Spendable funds are the declared funds less what open or consumed packets
\* took, plus what settled packets paid in, for any accounts, lanes and calls.
THEOREM AvailableCorrect ==
  Spec => []AvailableReconciles
<1>1. BooksInv => AvailableReconciles
  BY DEF BooksInv
<1>2. QED
  BY <1>1, BooksAlways, PTL

\* The informative planes of every holder and the totals of the report count
\* every settled packet once.
THEOREM CreditsCorrect ==
  Spec => []CreditsReconcile
<1>1. BooksInv => CreditsReconcile
  BY DEF BooksInv
<1>2. QED
  BY <1>1, BooksAlways, PTL
=============================================================================
