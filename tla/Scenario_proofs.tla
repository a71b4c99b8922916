--------------------------- MODULE Scenario_proofs ---------------------------
(***************************************************************************)
(* What the schema's acceptance is worth to the engine, for any scenario.  *)
(* Each accepted step is a step of the engine, so the engine's invariant   *)
(* holds of scenarios too; it is joined with what the schema's own state   *)
(* says of the records, the log and the accounts.                          *)
(***************************************************************************)
EXTENDS Scenario, Replay_proofs

\* What a submit has named is known to the engine, and what else it knows was
\* opened by a retry, with no submit of it in the log.
SeenMatches ==
  failure = "none" =>
    /\ seen \subseteq DOMAIN records
    /\ \A p \in DOMAIN records \ seen :
         \E i \in DOMAIN events : events[i].packet = p /\ events[i].kind = "packet_retried"
    /\ \A i \in DOMAIN events :
         events[i].kind = "packet_submitted" => events[i].packet \in seen

Parties(r) == {r.source, r.recipient, r.operator_account}

\* Whoever a lane or a record may make the ledger touch is declared.
PartiesDeclared ==
  /\ \A l \in DOMAIN lanes : lanes[l].operator_account \in DeclaredAccounts
  /\ \A p \in DOMAIN records : Parties(records[p]) \subseteq DeclaredAccounts

ScenarioInv ==
  /\ IInv
  /\ SeenMatches
  /\ PartiesDeclared
  /\ ReferencesHold
  /\ DuplicatesComeFromRetries
  /\ OnlyDeclaredHold
  /\ RetryFirstStaysOpen

-----------------------------------------------------------------------------
(* Accepted steps are steps of the engine.                                 *)

LEMMA ActionTypes ==
  ASSUME NEW a \in Action
  PROVE  /\ a.epoch \in Epochs
         /\ a.type \in {"submit", "retry"} => a.packet_template \in Templates
         /\ a.type = "confirm" => a.packet \in Packets /\ a.ack \in Acks
         /\ a.type = "cancel" => a.packet \in Packets /\ a.force \in BOOLEAN
         /\ a.type = "advance" => a.target_epoch \in Epochs
BY DEF Action

LEMMA AcceptedSteps ==
  ScenarioNext => Next
<1>1. ASSUME NEW h \in DOMAIN Seed, RegisterAccount(h) PROVE Next
  BY <1>1 DEF Next
<1>2. ASSUME NEW c \in LaneConfigs, RegisterLane(c) PROVE Next
  BY <1>2 DEF Next
<1>3. ASSUME NEW a \in Action, ApplySubmit(a) PROVE Next
  BY <1>3, ActionTypes DEF ApplySubmit, Next
<1>4. ASSUME NEW a \in Action, ApplyRetry(a) PROVE Next
  BY <1>4, ActionTypes DEF ApplyRetry, Next
<1>5. ASSUME NEW a \in Action, ApplyConfirm(a) PROVE Next
  BY <1>5, ActionTypes DEF ApplyConfirm, Next
<1>6. ASSUME NEW a \in Action, ApplyCancel(a) PROVE Next
  BY <1>6, ActionTypes DEF ApplyCancel, Next
<1>7. ASSUME NEW a \in Action, ApplyAdvance(a) PROVE Next
  BY <1>7, ActionTypes DEF ApplyAdvance, Next
<1>8. ASSUME NEW a \in Action, ApplySnapshot(a) PROVE Next
  BY <1>8, ActionTypes DEF ApplySnapshot, Next
<1>9. QED
  BY <1>1, <1>2, <1>3, <1>4, <1>5, <1>6, <1>7, <1>8 DEF ScenarioNext, Declare

-----------------------------------------------------------------------------
(* What a chain of ledger calls can have touched, also when it threw.      *)

\* Errors that say nothing of what an action refers to.
Internal == (Errors \cup {"none"}) \ {"UnknownLane", "UnknownPacket", "DuplicatePacket"}

\* Starting from the ledger b, only entries of H have changed so far.
Touches(b, o, H) ==
  \E l, code : /\ o = [ledger |-> l, error |-> code]
               /\ DOMAIN l = Holders /\ code \in Internal
               /\ \A g \in Holders \ H : l[g] = b[g]

LEMMA TouchesRequire ==
  ASSUME NEW b, NEW H, NEW o, Touches(b, o, H), NEW cond, NEW code \in Internal
  PROVE  Touches(b, Require(o, cond, code), H)
<1>1. PICK l, old : /\ o = [ledger |-> l, error |-> old]
                    /\ DOMAIN l = Holders /\ old \in Internal
                    /\ \A g \in Holders \ H : l[g] = b[g]
  BY DEF Touches
<1>2. [o EXCEPT !.error = code] = [ledger |-> l, error |-> code]
  BY <1>1
<1>3. Require(o, cond, code) \in {o, [o EXCEPT !.error = code]}
  BY DEF Require
<1>4. QED
  BY <1>1, <1>2, <1>3 DEF Touches

LEMMA TouchesAdd ==
  ASSUME NEW b, NEW H, NEW o, Touches(b, o, H), NEW h \in H, NEW f, NEW x
  PROVE  Touches(b, Add(o, h, f, x), H)
<1>1. PICK l, code : /\ o = [ledger |-> l, error |-> code]
                     /\ DOMAIN l = Holders /\ code \in Internal
                     /\ \A g \in Holders \ H : l[g] = b[g]
  BY DEF Touches
<1>2. DOMAIN Move(l, h, f, x) = Holders /\ \A g \in Holders \ H : Move(l, h, f, x)[g] = b[g]
  BY <1>1 DEF Move
<1>3. [o EXCEPT !.ledger = Move(@, h, f, x)] = [ledger |-> Move(l, h, f, x), error |-> code]
  BY <1>1
<1>4. [o EXCEPT !.error = "ArithmeticOverflow"] = [ledger |-> l, error |-> "ArithmeticOverflow"]
  BY <1>1
<1>5. "ArithmeticOverflow" \in Internal
  BY DEF Internal, Errors
<1>6. QED
  BY <1>1, <1>2, <1>3, <1>4, <1>5 DEF Add, Touches

LEMMA TouchesSub ==
  ASSUME NEW b, NEW H, NEW o, Touches(b, o, H), NEW h \in H, NEW f, NEW x
  PROVE  Touches(b, Sub(o, h, f, x), H)
<1>1. PICK l, code : /\ o = [ledger |-> l, error |-> code]
                     /\ DOMAIN l = Holders /\ code \in Internal
                     /\ \A g \in Holders \ H : l[g] = b[g]
  BY DEF Touches
<1>2. DOMAIN Move(l, h, f, -x) = Holders /\ \A g \in Holders \ H : Move(l, h, f, -x)[g] = b[g]
  BY <1>1 DEF Move
<1>3. [o EXCEPT !.ledger = Move(@, h, f, -x)] = [ledger |-> Move(l, h, f, -x), error |-> code]
  BY <1>1
<1>4. QED
  BY <1>1, <1>2, <1>3 DEF Sub, Touches

\* Each ledger call touches the holders it is given.
LEMMA TouchesCalls ==
  ASSUME NEW b, NEW H, NEW o, Touches(b, o, H), NEW h \in H, NEW x
  PROVE  /\ Touches(b, ReserveObserved(o, h, x), H)
         /\ Touches(b, ReleaseObserved(o, h, x), H)
         /\ Touches(b, ConsumeObserved(o, h, x), H)
         /\ Touches(b, AttachConfirmed(o, h, x), H)
         /\ Touches(b, CreditFee(o, h, x), H)
         /\ Touches(b, SeedBalance(o, h, x), H)
         /\ \A to \in H : \A fee : Touches(b, SettleConfirmed(o, h, to, x, fee), H)
<1>1. {"InsufficientLiquidity", "InvariantViolation", "ArithmeticOverflow"} \subseteq Internal
  BY DEF Internal, Errors
<1>2. Touches(b, ReserveObserved(o, h, x), H)
  BY <1>1, TouchesRequire, TouchesAdd, TouchesSub DEF ReserveObserved, Holds
<1>3. Touches(b, ReleaseObserved(o, h, x), H)
  BY <1>1, TouchesRequire, TouchesAdd, TouchesSub DEF ReleaseObserved, Holds
<1>4. Touches(b, ConsumeObserved(o, h, x), H)
  BY <1>1, TouchesRequire, TouchesSub DEF ConsumeObserved, Holds
<1>5. /\ Touches(b, AttachConfirmed(o, h, x), H)
      /\ Touches(b, CreditFee(o, h, x), H)
      /\ Touches(b, SeedBalance(o, h, x), H)
  BY TouchesAdd DEF AttachConfirmed, CreditFee, SeedBalance
<1>6. ASSUME NEW to \in H, NEW fee PROVE Touches(b, SettleConfirmed(o, h, to, x, fee), H)
  BY <1>1, TouchesRequire, TouchesAdd, TouchesSub DEF SettleConfirmed, Holds, CreditReceived
<1>7. QED
  BY <1>2, <1>3, <1>4, <1>5, <1>6

LEMMA TouchesBegin ==
  ASSUME TypeOK, NEW H
  PROVE  Touches(ledger, Begin(ledger), H)
<1>1. DOMAIN ledger = Holders /\ "none" \in Internal
  BY DEF TypeOK, Internal
<1>2. QED
  BY <1>1 DEF Touches, Begin

\* A handler that ends with such a chain leaves the other holders alone.
LEMMA TouchesEnd ==
  ASSUME NEW o, NEW H, Touches(ledger, o, H), ledger' = o.ledger, failure' = o.error
  PROVE  /\ \A g \in Holders : ledger'[g] # ledger[g] => g \in H
         /\ failure' \in Internal
BY DEF Touches

-----------------------------------------------------------------------------
(* What an accepted step can do, whether the engine's call returns or throws. *)

Accepted ==
  /\ seen \subseteq seen'
  /\ \A g \in Holders : ledger'[g] # ledger[g] => g[1] \in DeclaredAccounts
  /\ failure' \notin {"UnknownLane", "UnknownPacket"}
  /\ failure' = "DuplicatePacket" => \E p \in DOMAIN records \ seen : p \in seen'
  /\ \A l \in DOMAIN lanes' : lanes'[l].operator_account \in DeclaredAccounts
  /\ \A p \in DOMAIN records' \ DOMAIN records :
       /\ Parties(records'[p]) \subseteq DeclaredAccounts
       /\ records'[p].observed_status = "open" /\ records'[p].confirmed_status = "prepared"
       /\ p \in seen' \/ Logs("packet_retried", p)
  /\ \A p \in DOMAIN records \ seen' : records'[p] = records[p]
  /\ failure' = "none" =>
       /\ seen' \subseteq DOMAIN records'
       /\ \A kind, p : Logs(kind, p) /\ kind = "packet_submitted" => p \in seen'

\* Only submitting or retrying a new packet logs a submit.
LEMMA LogOfKnown ==
  ASSUME IInv, Next, failure' = "none", DOMAIN records' = DOMAIN records,
         NEW kind, NEW p, Logs(kind, p)
  PROVE  kind # "packet_submitted"
<1>1. Effect /\ TypeOK
  BY NextCompletes DEF Completes, IInv
<1>2. ASSUME NEW k, NEW q, Logs(k, q) PROVE k = kind
  BY <1>1, <1>2, LogsProps
<1>3. CASE Quiet
  BY <1>2, <1>3 DEF Quiet
<1>4. ASSUME NEW h \in DOMAIN Seed, Seeds(h) PROVE kind # "packet_submitted"
  BY <1>2, <1>4 DEF Seeds
<1>5. ASSUME NEW q \in Packets, NEW r \in Record, PacketEffect(q, r)
      PROVE  kind # "packet_submitted"
  <2>1. ~Opens(q, r)
    BY DEF Opens, Put
  <2>2. QED
    BY <1>2, <1>5, <2>1 DEF PacketEffect, Reopens, Releases, Repeats, Settles
<1>6. QED
  BY <1>1, <1>3, <1>4, <1>5 DEF Effect

\* A call that is refused leaves all but the epoch alone.
LEMMA RefuseAccepted ==
  ASSUME ScenarioInv, NEW error, error # "none", NEW e, Refuse(error, e), seen \subseteq seen',
         error \notin {"UnknownLane", "UnknownPacket"},
         error = "DuplicatePacket" => \E p \in DOMAIN records \ seen : p \in seen'
  PROVE  Accepted
BY DEF Refuse, Accepted, ScenarioInv, PartiesDeclared

\* A call on what is known rewrites the record of a packet that has been seen.
LEMMA RewriteAccepted ==
  ASSUME ScenarioInv, Next, seen' = seen, NEW p \in DOMAIN records, NEW r,
         p \in seen \/ records[p].observed_status # "open",
         records' \in {records, Put(records, p, r)}, UNCHANGED lanes,
         failure' \in Internal,
         \A g \in Holders : ledger'[g] # ledger[g] => g[1] \in DeclaredAccounts
  PROVE  Accepted
<1>1. p \in seen
  BY DEF ScenarioInv, RetryFirstStaysOpen
<1>2. DOMAIN records' = DOMAIN records /\ \A q \in DOMAIN records : q # p => records'[q] = records[q]
  BY DEF Put
<1>3. failure = "none"
  BY NextCompletes DEF Completes, ScenarioInv
<1>4. \A kind, q : failure' = "none" /\ Logs(kind, q) => kind # "packet_submitted"
  BY <1>2, LogOfKnown DEF ScenarioInv
<1>5. seen \subseteq DOMAIN records /\ failure' \notin {"UnknownLane", "UnknownPacket", "DuplicatePacket"}
  BY <1>3 DEF ScenarioInv, SeenMatches, Internal
<1>6. QED
  BY <1>1, <1>2, <1>4, <1>5 DEF Accepted, ScenarioInv, PartiesDeclared

\* The record a template opens names declared accounts only.
LEMMA OpenFirstTouches ==
  ASSUME ScenarioInv, failure = "none", NEW t \in Templates, NEW e \in Epochs, Declared(t),
         t.lane \in DOMAIN lanes, NEW kind \in {"packet_submitted", "packet_retried"},
         OpenFirst(t, e, kind)
  PROVE  /\ \A g \in Holders : ledger'[g] # ledger[g] => g[1] \in DeclaredAccounts
         /\ failure' \in Internal
         /\ failure' # "none" => records' = records
         /\ failure' = "none" => /\ records' = Put(records, t.packet, BuildRecord(t, e))
                                 /\ Logs(kind, t.packet)
         /\ Parties(BuildRecord(t, e)) \subseteq DeclaredAccounts
         /\ UNCHANGED lanes
<1> DEFINE r == BuildRecord(t, e)
           H == {Holder(r)}
<1>1. PICK quoted \in QuoteResults(t.amount, lanes[t.lane].fee_bps) :
        LET q == Require(Begin(ledger), quoted = "none", quoted)
            o == AttachConfirmed(ReserveObserved(q, Holder(r), r.gross), Holder(r), r.gross)
        IN  /\ ledger' = o.ledger
            /\ failure' = o.error
            /\ records' = IF o.error = "none" THEN Put(records, t.packet, r) ELSE records
            /\ Emit(o.error, Event(kind, e, t.packet, t.lane, r.gross))
            /\ UNCHANGED lanes
  BY DEF OpenFirst
<1> DEFINE q == Require(Begin(ledger), quoted = "none", quoted)
           o == AttachConfirmed(ReserveObserved(q, Holder(r), r.gross), Holder(r), r.gross)
<1>2. r.source = t.source /\ r.recipient = t.recipient /\ Holder(r)[1] = t.source
      /\ r.operator_account = lanes[t.lane].operator_account /\ r.gross = t.amount
  BY DEF BuildRecord, Holder
<1>3. Parties(r) \subseteq DeclaredAccounts /\ Holder(r)[1] \in DeclaredAccounts
  BY <1>2 DEF Parties, Declared, ScenarioInv, PartiesDeclared
<1>4. quoted \in Internal
  BY DEF QuoteResults, Internal, Errors
<1> HIDE DEF r
<1>5. Touches(ledger, o, H)
  BY <1>4, TouchesBegin, TouchesRequire, TouchesCalls DEF ScenarioInv, IInv
<1>6. /\ \A g \in Holders : ledger'[g] # ledger[g] => g \in H
      /\ failure' \in Internal
  BY <1>1, <1>5, TouchesEnd
<1>7. Event(kind, e, t.packet, t.lane, r.gross) \in EventType
  BY <1>2, EngineAssumption DEF Event, EventType, EventKinds, PacketTemplate
<1>8. failure' = "none" => Logs(kind, t.packet)
  BY <1>1, <1>7, EmitLogs DEF Event
<1>9. QED
  BY <1>1, <1>3, <1>6, <1>8 DEF r

LEMMA OpenFirstAccepted ==
  ASSUME ScenarioInv, Next, failure = "none", NEW t \in Templates, NEW e \in Epochs, Declared(t),
         t.lane \in DOMAIN lanes, t.packet \notin DOMAIN records,
         NEW kind \in {"packet_submitted", "packet_retried"}, OpenFirst(t, e, kind),
         \/ kind = "packet_retried" /\ seen' = seen
         \/ seen' = seen \cup {t.packet}
  PROVE  Accepted
<1> DEFINE r == BuildRecord(t, e)
<1>1. /\ \A g \in Holders : ledger'[g] # ledger[g] => g[1] \in DeclaredAccounts
      /\ failure' \in Internal
      /\ failure' # "none" => records' = records
      /\ failure' = "none" => records' = Put(records, t.packet, r) /\ Logs(kind, t.packet)
      /\ Parties(r) \subseteq DeclaredAccounts
      /\ UNCHANGED lanes
  BY OpenFirstTouches
<1>2. r.observed_status = "open" /\ r.confirmed_status = "prepared"
  BY DEF BuildRecord
<1> HIDE DEF r
<1>3. \A k, p : Logs(k, p) /\ failure' = "none" => k = kind /\ p = t.packet
  BY <1>1, LogsProps DEF ScenarioInv, IInv
<1>4. seen \subseteq DOMAIN records
  BY DEF ScenarioInv, SeenMatches
<1>5. failure' \notin {"UnknownLane", "UnknownPacket", "DuplicatePacket"}
  BY <1>1 DEF Internal
<1>6. CASE failure' = "none"
  <2>1. /\ DOMAIN records' = DOMAIN records \cup {t.packet} /\ records'[t.packet] = r
        /\ \A p \in DOMAIN records : p # t.packet => records'[p] = records[p]
    BY <1>1, <1>6 DEF Put
  <2>2. QED
    BY <1>1, <1>2, <1>3, <1>4, <1>5, <1>6, <2>1 DEF Accepted, ScenarioInv, PartiesDeclared
<1>7. CASE failure' # "none"
  BY <1>1, <1>5, <1>7 DEF Accepted, ScenarioInv, PartiesDeclared
<1>8. QED
  BY <1>6, <1>7

LEMMA SubmitAccepted ==
  ASSUME ScenarioInv, Next, NEW a \in Action, ApplySubmit(a)
  PROVE  Accepted
<1> DEFINE t == a.packet_template
           e == a.epoch
<1>1. /\ t \in Templates /\ e \in Epochs /\ Declared(t) /\ t.packet \notin seen
      /\ seen' = seen \cup {t.packet} /\ Submit(t, e)
  BY ActionTypes DEF ApplySubmit, Fresh
<1> HIDE DEF t, e
<1>2. Running /\ failure = "none" /\ t.lane \in DOMAIN lanes
  BY <1>1, RunningProps DEF Submit, Running, Declared, ScenarioInv
<1>3. CASE SubmitError(t, e) # "none"
  <2>1. SubmitError(t, e) \notin {"UnknownLane", "UnknownPacket"}
    BY <1>2 DEF SubmitError
  <2>2. SubmitError(t, e) = "DuplicatePacket" => t.packet \in DOMAIN records \ seen
    BY <1>1 DEF SubmitError
  <2>3. Refuse(SubmitError(t, e), e)
    BY <1>1, <1>3 DEF Submit
  <2>4. QED
    BY <1>1, <1>3, <2>1, <2>2, <2>3, RefuseAccepted
<1>4. CASE SubmitError(t, e) = "none"
  <2>1. OpenFirst(t, e, "packet_submitted") /\ t.packet \notin DOMAIN records
    BY <1>1, <1>4 DEF Submit, SubmitError
  <2>2. QED
    BY <1>1, <1>2, <2>1, OpenFirstAccepted
<1>5. QED
  BY <1>3, <1>4

\* A holder that a record keeps reserves for is declared, and so is whoever its
\* settlement pays.
LEMMA HoldersDeclared ==
  ASSUME PartiesDeclared, NEW p \in DOMAIN records
  PROVE  LET r == records[p] IN
         \A h \in {Holder(r), <<r.recipient, r.asset>>, <<r.operator_account, r.asset>>} :
           h[1] \in DeclaredAccounts
BY DEF PartiesDeclared, Parties, Holder

LEMMA RetryAccepted ==
  ASSUME ScenarioInv, Next, NEW a \in Action, ApplyRetry(a)
  PROVE  Accepted
<1> DEFINE t == a.packet_template
           e == a.epoch
<1>1. t \in Templates /\ e \in Epochs /\ Declared(t) /\ seen' = seen /\ Retry(t, e)
  BY ActionTypes DEF ApplyRetry
<1> HIDE DEF t, e
<1>2. /\ Running /\ failure = "none" /\ t.lane \in DOMAIN lanes /\ TypeOK
      /\ PartiesDeclared
  BY <1>1, RunningProps DEF Retry, Running, Declared, ScenarioInv, IInv
<1>3. CASE RetryError(t, e) # "none"
  <2>1. RetryError(t, e) \notin {"UnknownLane", "UnknownPacket", "DuplicatePacket"}
    BY <1>2 DEF RetryError
  <2>2. Refuse(RetryError(t, e), e)
    BY <1>1, <1>3 DEF Retry
  <2>3. QED
    BY <1>1, <1>3, <2>1, <2>2, RefuseAccepted
<1>4. CASE RetryError(t, e) = "none" /\ t.packet \notin DOMAIN records
  <2>1. OpenFirst(t, e, "packet_retried")
    BY <1>1, <1>4 DEF Retry
  <2>2. QED
    BY <1>1, <1>2, <1>4, <2>1, OpenFirstAccepted
<1>5. CASE RetryError(t, e) = "none" /\ t.packet \in DOMAIN records
  <2>1. PICK quoted \in QuoteResults(t.amount, lanes[t.lane].fee_bps) :
          \/ ReopenError(t, quoted) # "none" /\ Refuse(ReopenError(t, quoted), e)
          \/ ReopenError(t, quoted) = "none" /\ Reopen(t, e)
    BY <1>1, <1>5 DEF Retry
  <2>2. CASE ReopenError(t, quoted) # "none"
    <3>1. ReopenError(t, quoted) \notin {"UnknownLane", "UnknownPacket", "DuplicatePacket"}
      BY <2>1 DEF ReopenError, QuoteResults
    <3>2. QED
      BY <1>1, <2>1, <2>2, <3>1, RefuseAccepted
  <2>3. CASE ReopenError(t, quoted) = "none"
    <3> DEFINE old     == records[t.packet]
               h       == Holder(old)
               prepare == old.confirmed_status \in {"missing", "released"}
               held    == ReserveObserved(Begin(ledger), h, old.gross)
               o       == IF prepare THEN AttachConfirmed(held, h, old.gross) ELSE held
    <3>1. PICK r : /\ records' = Put(records, t.packet, r)
                   /\ ledger' = o.ledger /\ failure' = o.error /\ UNCHANGED lanes
      BY <2>1, <2>3 DEF Reopen
    <3>2. Touches(ledger, o, {h})
      BY <1>2, TouchesBegin, TouchesCalls
    <3>3. h[1] \in DeclaredAccounts
      BY <1>2, <1>5, HoldersDeclared
    <3> HIDE DEF o, h
    <3>4. failure' \in Internal /\ \A g \in Holders : ledger'[g] # ledger[g] => g[1] \in DeclaredAccounts
      BY <3>1, <3>2, <3>3, TouchesEnd
    <3>5. records[t.packet].observed_status # "open"
      BY <1>5 DEF RetryError
    <3>6. QED
      BY <1>1, <1>5, <3>1, <3>4, <3>5, RewriteAccepted
  <2>4. QED
    BY <2>2, <2>3
<1>6. QED
  BY <1>3, <1>4, <1>5

LEMMA ConfirmAccepted ==
  ASSUME ScenarioInv, Next, NEW a \in Action, ApplyConfirm(a)
  PROVE  Accepted
<1> DEFINE p == a.packet
           k == a.ack
           e == a.epoch
<1>1. e \in Epochs /\ p \in seen /\ seen' = seen /\ Confirm(p, k, e)
  BY ActionTypes DEF ApplyConfirm, Known
<1> HIDE DEF p, k, e
<1>2. Running /\ failure = "none" /\ TypeOK /\ PartiesDeclared
  BY <1>1, RunningProps DEF Confirm, ScenarioInv, IInv
<1>3. p \in DOMAIN records
  BY <1>1, <1>2 DEF ScenarioInv, SeenMatches
<1>4. CASE ConfirmError(p, k, e) # "none"
  <2>1. ConfirmError(p, k, e) = "InvalidArgument"
    BY <1>3, <1>4 DEF ConfirmError
  <2>2. Refuse(ConfirmError(p, k, e), e)
    BY <1>1, <1>4 DEF Confirm
  <2>3. QED
    BY <1>1, <2>1, <2>2, RefuseAccepted
<1>5. CASE CountDuplicate(p, k, e)
  <2>1. PICK r : /\ records' = Put(records, p, r)
                 /\ UNCHANGED <<lanes, ledger, failure>>
    BY <1>5 DEF CountDuplicate
  <2>2. "none" \in Internal
    BY DEF Internal
  <2>3. QED
    BY <1>1, <1>2, <1>3, <2>1, <2>2, RewriteAccepted
<1>6. CASE Settle(p, k, e)
  <2> DEFINE rec      == records[p]
             old      == [rec EXCEPT !.acknowledgements = @ \cup {k}]
             open     == old.observed_status = "open"
             h        == Holder(old)
             payee    == <<old.recipient, old.asset>>
             operator == <<old.operator_account, old.asset>>
             H        == {h, payee, operator}
             ready    == Require(Begin(ledger), old.confirmed_status = "prepared", "PacketNotReady")
             taken    == IF open THEN ConsumeObserved(ready, h, old.gross) ELSE ready
             paid     == SettleConfirmed(taken, h, payee, old.net, old.fee)
             credited == IF old.fee = 0 THEN paid ELSE CreditFee(paid, operator, old.fee)
             settled  == Require(credited, AddFits(total_settled, old.net), "ArithmeticOverflow")
             o        == Require(settled, AddFits(total_fees, old.fee), "ArithmeticOverflow")
  <2>1. PICK r : /\ records' = Put(records, p, r)
                 /\ ledger' = o.ledger /\ failure' = o.error /\ UNCHANGED lanes
    BY <1>6 DEF Settle
  <2>2. \A g \in H : g[1] \in DeclaredAccounts
    <3>1. rec \in Record
      BY <1>2, <1>3 DEF TypeOK
    <3>2. /\ Holder(old) = Holder(rec) /\ old.recipient = rec.recipient
          /\ old.asset = rec.asset /\ old.operator_account = rec.operator_account
      BY <3>1 DEF Record, Holder
    <3>3. QED
      BY <1>2, <1>3, <3>2, HoldersDeclared
  <2>3. {"PacketNotReady", "ArithmeticOverflow"} \subseteq Internal /\ h \in H /\ payee \in H /\ operator \in H
    BY DEF Internal, Errors
  <2> HIDE DEF old, h, payee, operator, H
  <2>4. Touches(ledger, taken, H)
    BY <1>2, <2>3, TouchesBegin, TouchesRequire, TouchesCalls
  <2> HIDE DEF taken
  <2>5. Touches(ledger, credited, H)
    BY <2>3, <2>4, TouchesCalls
  <2> HIDE DEF credited
  <2>6. Touches(ledger, o, H)
    BY <2>3, <2>5, TouchesRequire
  <2> HIDE DEF o
  <2>7. failure' \in Internal /\ \A g \in Holders : ledger'[g] # ledger[g] => g[1] \in DeclaredAccounts
    BY <2>1, <2>2, <2>6, TouchesEnd
  <2>8. QED
    BY <1>1, <1>3, <2>1, <2>7, RewriteAccepted
<1>7. QED
  BY <1>1, <1>4, <1>5, <1>6 DEF Confirm

LEMMA CancelAccepted ==
  ASSUME ScenarioInv, Next, NEW a \in Action, ApplyCancel(a)
  PROVE  Accepted
<1> DEFINE p == a.packet
           e == a.epoch
<1>1. e \in Epochs /\ p \in seen /\ seen' = seen /\ Cancel(p, e, a.force)
  BY ActionTypes DEF ApplyCancel, Known
<1> HIDE DEF p, e
<1>2. Running /\ failure = "none" /\ TypeOK /\ PartiesDeclared
  BY <1>1, RunningProps DEF Cancel, ScenarioInv, IInv
<1>3. p \in DOMAIN records
  BY <1>1, <1>2 DEF ScenarioInv, SeenMatches
<1>4. CASE CancelError(p, e, a.force) # "none"
  <2>1. CancelError(p, e, a.force) \notin {"UnknownLane", "UnknownPacket", "DuplicatePacket"}
    BY <1>3 DEF CancelError
  <2>2. Refuse(CancelError(p, e, a.force), e)
    BY <1>1, <1>4 DEF Cancel
  <2>3. QED
    BY <1>1, <1>4, <2>1, <2>2, RefuseAccepted
<1>5. CASE Release(p, e)
  <2> DEFINE old == records[p]
             h   == Holder(old)
             o   == ReleaseObserved(Begin(ledger), h, old.gross)
  <2>1. PICK r : /\ records' \in {records, Put(records, p, r)}
                 /\ ledger' = o.ledger /\ failure' = o.error /\ UNCHANGED lanes
    BY <1>5 DEF Release
  <2>2. Touches(ledger, o, {h})
    BY <1>2, TouchesBegin, TouchesCalls
  <2>3. h[1] \in DeclaredAccounts
    BY <1>2, <1>3, HoldersDeclared
  <2> HIDE DEF o, h
  <2>4. failure' \in Internal /\ \A g \in Holders : ledger'[g] # ledger[g] => g[1] \in DeclaredAccounts
    BY <2>1, <2>2, <2>3, TouchesEnd
  <2>5. QED
    BY <1>1, <1>3, <2>1, <2>4, RewriteAccepted
<1>6. QED
  BY <1>1, <1>4, <1>5 DEF Cancel

\* What touches no record: declarations, advances and snapshots.
LEMMA SystemAccepted ==
  ASSUME ScenarioInv, Next, seen' = seen, UNCHANGED records, failure' \in Internal,
         \A g \in Holders : ledger'[g] # ledger[g] => g[1] \in DeclaredAccounts,
         \A l \in DOMAIN lanes' : lanes'[l].operator_account \in DeclaredAccounts
  PROVE  Accepted
<1>1. failure = "none"
  BY NextCompletes DEF Completes, ScenarioInv
<1>2. \A kind, q : failure' = "none" /\ Logs(kind, q) => kind # "packet_submitted"
  BY LogOfKnown DEF ScenarioInv
<1>3. QED
  BY <1>1, <1>2 DEF Accepted, ScenarioInv, SeenMatches, Internal

LEMMA TickAccepted ==
  ASSUME ScenarioInv, Next, NEW kind, NEW e, Tick(kind, e), seen' = seen
  PROVE  Accepted
<1>1. CASE Refuse("InvalidArgument", e)
  BY <1>1, RefuseAccepted
<1>2. CASE ~Refuse("InvalidArgument", e)
  <2>1. UNCHANGED <<records, ledger, lanes, failure>> /\ failure = "none"
    BY <1>2 DEF Tick, Running, Loading
  <2>2. "none" \in Internal
    BY DEF Internal
  <2>3. QED
    BY <2>1, <2>2, SystemAccepted DEF ScenarioInv, PartiesDeclared
<1>3. QED
  BY <1>1, <1>2

LEMMA DeclareAccepted ==
  ASSUME ScenarioInv, Next, Declare
  PROVE  Accepted
<1>1. TypeOK /\ PartiesDeclared /\ seen' = seen
  BY DEF ScenarioInv, IInv, Declare, schema
<1>2. ASSUME NEW h \in DOMAIN Seed, h[1] \in DeclaredAccounts, RegisterAccount(h)
      PROVE  Accepted
  <2> DEFINE o      == SeedBalance(Begin(ledger), h, Seed[h])
             summed == Require(o, AddFits(total_seeded, Seed[h]), "ArithmeticOverflow")
  <2>1. ledger' = summed.ledger /\ failure' = summed.error /\ UNCHANGED <<records, lanes>>
    BY <1>2 DEF RegisterAccount
  <2>2. "ArithmeticOverflow" \in Internal
    BY DEF Internal, Errors
  <2>3. Touches(ledger, summed, {h})
    BY <1>1, <2>2, TouchesBegin, TouchesCalls, TouchesRequire
  <2> HIDE DEF summed
  <2>4. failure' \in Internal /\ \A g \in Holders : ledger'[g] # ledger[g] => g = h
    BY <2>1, <2>3, TouchesEnd
  <2>5. QED
    BY <1>1, <1>2, <2>1, <2>4, SystemAccepted DEF PartiesDeclared
<1>3. ASSUME NEW c \in LaneConfigs, c.operator_account \in DeclaredAccounts, RegisterLane(c)
      PROVE  Accepted
  <2>1. /\ failure' \in {"none", "PolicyViolation"} /\ UNCHANGED <<records, ledger>>
        /\ lanes' \in {lanes, Put(lanes, c.id, c)}
    BY <1>3 DEF RegisterLane
  <2>2. failure' \in Internal
    BY <2>1 DEF Internal, Errors
  <2>3. \A l \in DOMAIN lanes' : lanes'[l].operator_account \in DeclaredAccounts
    BY <1>1, <1>3, <2>1 DEF PartiesDeclared, Put
  <2>4. QED
    BY <1>1, <2>1, <2>2, <2>3, SystemAccepted
<1>4. QED
  BY <1>2, <1>3 DEF Declare

LEMMA StepAccepted ==
  ASSUME ScenarioInv, ScenarioNext
  PROVE  Accepted
<1>1. Next
  BY AcceptedSteps
<1>2. ASSUME NEW a \in Action, ApplyAdvance(a) PROVE Accepted
  BY <1>1, <1>2, TickAccepted DEF ApplyAdvance, Advance
<1>3. ASSUME NEW a \in Action, ApplySnapshot(a) PROVE Accepted
  BY <1>1, <1>3, TickAccepted DEF ApplySnapshot, Snapshot
<1>4. QED
  BY <1>1, <1>2, <1>3, DeclareAccepted, SubmitAccepted, RetryAccepted, ConfirmAccepted,
     CancelAccepted DEF ScenarioNext

-----------------------------------------------------------------------------
(* The invariant.                                                          *)

LEMMA SeenStep ==
  ASSUME ScenarioInv, Next, Accepted
  PROVE  SeenMatches'
<1> SUFFICES ASSUME failure' = "none"
             PROVE  /\ seen' \subseteq DOMAIN records'
                    /\ \A p \in DOMAIN records' \ seen' :
                         \E i \in DOMAIN events' :
                           events'[i].packet = p /\ events'[i].kind = "packet_retried"
                    /\ \A i \in DOMAIN events' :
                         events'[i].kind = "packet_submitted" => events'[i].packet \in seen'
  BY DEF SeenMatches
<1>1. TypeOK /\ failure = "none" /\ Effect
  BY NextCompletes DEF Completes, ScenarioInv, IInv
<1>2. PICK kind, packet : Logs(kind, packet)
  <2>1. CASE Quiet
    BY <2>1 DEF Quiet
  <2>2. ASSUME NEW h \in DOMAIN Seed, Seeds(h) PROVE \E kind, packet : Logs(kind, packet)
    BY <2>2 DEF Seeds
  <2>3. ASSUME NEW p \in Packets, NEW r \in Record, PacketEffect(p, r)
        PROVE  \E kind, packet : Logs(kind, packet)
    BY <2>3 DEF PacketEffect, Opens, Reopens, Releases, Repeats, Settles
  <2>4. QED
    BY <1>1, <2>1, <2>2, <2>3 DEF Effect
<1> DEFINE n == Len(events) + 1
<1>3. /\ DOMAIN events = 1 .. n - 1 /\ DOMAIN events' = 1 .. n /\ n \in Nat
      /\ \A i \in DOMAIN events : i \in DOMAIN events' /\ events'[i] = events[i] /\ i \in 1 .. n - 1
      /\ events'[n].kind = kind /\ events'[n].packet = packet
  BY <1>1, <1>2, LogsProps
<1>a. n # 0
  BY <1>1 DEF TypeOK
<1> HIDE DEF n
<1>4. n \in DOMAIN events' /\ \A i \in DOMAIN events' : i = n \/ i \in DOMAIN events
  BY <1>3, <1>a
<1>5. /\ seen \subseteq seen' /\ seen' \subseteq DOMAIN records'
      /\ kind = "packet_submitted" => packet \in seen'
  BY <1>2 DEF Accepted
<1>6. \A i \in DOMAIN events' :
        events'[i].kind = "packet_submitted" => events'[i].packet \in seen'
  BY <1>1, <1>3, <1>4, <1>5 DEF ScenarioInv, SeenMatches
<1>7. ASSUME NEW p \in DOMAIN records' \ seen'
      PROVE  \E i \in DOMAIN events' :
               events'[i].packet = p /\ events'[i].kind = "packet_retried"
  <2>1. CASE p \in DOMAIN records
    BY <1>1, <1>3, <1>5, <1>7, <2>1 DEF ScenarioInv, SeenMatches
  <2>2. CASE p \notin DOMAIN records
    <3>1. Logs("packet_retried", p)
      BY <1>7, <2>2 DEF Accepted
    <3>2. events'[n].kind = "packet_retried" /\ events'[n].packet = p
      BY <1>1, <3>1, LogsProps DEF n
    <3>3. QED
      BY <1>4, <3>2
  <2>3. QED
    BY <2>1, <2>2
<1>8. QED
  BY <1>5, <1>6, <1>7

LEMMA PartiesStep ==
  ASSUME ScenarioInv, Next, Accepted
  PROVE  PartiesDeclared'
<1>1. ASSUME NEW p \in DOMAIN records' PROVE Parties(records'[p]) \subseteq DeclaredAccounts
  <2>1. CASE p \in DOMAIN records
    <3>1. Terms(records'[p]) = Terms(records[p])
      BY <2>1, NextCompletes DEF Completes, Lasts, Continued, ScenarioInv
    <3>2. QED
      BY <2>1, <3>1, TermsKept DEF Parties, ScenarioInv, PartiesDeclared
  <2>2. CASE p \notin DOMAIN records
    BY <1>1, <2>2 DEF Accepted
  <2>3. QED
    BY <2>1, <2>2
<1>2. QED
  BY <1>1 DEF PartiesDeclared, Accepted

\* The packet that was refused as repeated was opened by a retry.
LEMMA DuplicatesStep ==
  ASSUME ScenarioInv, Next, Accepted
  PROVE  DuplicatesComeFromRetries'
<1> SUFFICES ASSUME failure' = "DuplicatePacket" PROVE \E p \in seen' : OpenedByRetry(p)'
  BY DEF DuplicatesComeFromRetries
<1>1. events' = events /\ failure = "none" /\ TypeOK
  BY NextCompletes DEF Completes, ScenarioInv, IInv
<1>2. PICK p \in DOMAIN records \ seen : p \in seen'
  BY DEF Accepted
<1>3. PICK i \in DOMAIN events : events[i].packet = p /\ events[i].kind = "packet_retried"
  BY <1>1, <1>2 DEF ScenarioInv, SeenMatches
<1>4. \A j \in 1 .. i : ~(events[j].packet = p /\ events[j].kind = "packet_submitted")
  <2>1. DOMAIN events = 1 .. Len(events) /\ Len(events) \in Nat
    BY <1>1 DEF TypeOK
  <2>2. 1 .. i \subseteq DOMAIN events
    BY <1>3, <2>1
  <2>3. QED
    BY <1>1, <1>2, <2>2 DEF ScenarioInv, SeenMatches
<1>5. QED
  BY <1>1, <1>2, <1>3, <1>4 DEF OpenedByRetry

LEMMA ScenarioStep ==
  ScenarioInv /\ [ScenarioNext]_<<vars, schema>> => ScenarioInv'
<1> SUFFICES ASSUME ScenarioInv, [ScenarioNext]_<<vars, schema>> PROVE ScenarioInv'
  OBVIOUS
<1>1. CASE ScenarioNext
  <2>1. Next /\ Accepted
    BY <1>1, AcceptedSteps, StepAccepted
  <2>2. IInv'
    BY <2>1, InvStep DEF ScenarioInv
  <2>3. SeenMatches' /\ PartiesDeclared' /\ DuplicatesComeFromRetries'
    BY <2>1, SeenStep, PartiesStep, DuplicatesStep
  <2>4. ReferencesHold'
    BY <2>1 DEF ReferencesHold, Accepted
  <2>5. OnlyDeclaredHold'
    BY <2>1 DEF OnlyDeclaredHold, Accepted, ScenarioInv
  <2>6. RetryFirstStaysOpen'
    <3> SUFFICES ASSUME NEW p \in DOMAIN records' \ seen'
                 PROVE  /\ records'[p].observed_status = "open"
                        /\ records'[p].confirmed_status = "prepared"
      BY DEF RetryFirstStaysOpen
    <3>1. CASE p \in DOMAIN records
      BY <2>1, <3>1 DEF Accepted, ScenarioInv, RetryFirstStaysOpen
    <3>2. CASE p \notin DOMAIN records
      BY <2>1, <3>2 DEF Accepted
    <3>3. QED
      BY <3>1, <3>2
  <2>7. QED
    BY <2>2, <2>3, <2>4, <2>5, <2>6 DEF ScenarioInv
<1>2. CASE UNCHANGED <<vars, schema>>
  <2>1. UNCHANGED vars /\ UNCHANGED <<seen, lanes, ledger, records, events, failure>>
    BY <1>2 DEF schema, vars
  <2>2. IInv'
    BY <2>1, InvStep DEF ScenarioInv
  <2>3. QED
    BY <2>1, <2>2 DEF ScenarioInv, SeenMatches, PartiesDeclared, ReferencesHold,
       DuplicatesComeFromRetries, OpenedByRetry, OnlyDeclaredHold, RetryFirstStaysOpen
<1>3. QED
  BY <1>1, <1>2

LEMMA ScenarioAlways ==
  ScenarioSpec => []ScenarioInv
<1>1. ScenarioInit => ScenarioInv
  <2> SUFFICES ASSUME ScenarioInit PROVE ScenarioInv
    OBVIOUS
  <2>1. IInv
    BY InvInit DEF ScenarioInit
  <2>2. /\ seen = {} /\ DOMAIN records = {} /\ DOMAIN lanes = {} /\ DOMAIN events = {}
        /\ ledger = EmptyLedger /\ failure = "none"
    BY DEF ScenarioInit, Init
  <2>3. QED
    BY <2>1, <2>2 DEF ScenarioInv, SeenMatches, PartiesDeclared, ReferencesHold,
       DuplicatesComeFromRetries, OnlyDeclaredHold, RetryFirstStaysOpen
<1>2. QED
  BY <1>1, ScenarioStep, PTL DEF ScenarioSpec

\* A scenario that the schema accepts never fails on a lane or a packet that the
\* engine does not know, however its actions are ordered.
THEOREM ReferencesCorrect ==
  ScenarioSpec => []ReferencesHold
<1>1. ScenarioInv => ReferencesHold
  BY DEF ScenarioInv
<1>2. QED
  BY <1>1, ScenarioAlways, PTL

\* The schema's test for repeated packets only misses those that a retry opened.
THEOREM DuplicatesCorrect ==
  ScenarioSpec => []DuplicatesComeFromRetries
<1>1. ScenarioInv => DuplicatesComeFromRetries
  BY DEF ScenarioInv
<1>2. QED
  BY <1>1, ScenarioAlways, PTL

\* No call, also none that throws halfway, puts money into an account that the
\* scenario does not declare.
THEOREM OnlyDeclaredCorrect ==
  ScenarioSpec => []OnlyDeclaredHold
<1>1. ScenarioInv => OnlyDeclaredHold
  BY DEF ScenarioInv
<1>2. QED
  BY <1>1, ScenarioAlways, PTL

\* What a retry opened under a packet that no submit has named is never moved.
THEOREM RetryFirstCorrect ==
  ScenarioSpec => []RetryFirstStaysOpen
<1>1. ScenarioInv => RetryFirstStaysOpen
  BY DEF ScenarioInv
<1>2. QED
  BY <1>1, ScenarioAlways, PTL
=============================================================================
