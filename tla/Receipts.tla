------------------------------ MODULE Receipts ------------------------------
(***************************************************************************)
(* The text that a receipt's fingerprint is the hash of                    *)
(* (settlement/receipt.cpp): its fields as key=value, with bars between.   *)
(* Values are escaped as JSON strings are, which leaves "|" and "=" alone, *)
(* and the receipts of a batch follow each other with nothing between.     *)
(* The hash itself is left out: texts that differ are taken to hash apart. *)
(***************************************************************************)
EXTENDS Strings

ReceiptFields ==
  <<"packet", "lane", "asset", "source", "recipient", "gross", "net", "fee", "observedEpoch",
    "timeoutEpoch", "attempt", "ackCount", "observedStatus", "confirmedStatus">>

Digits(n) == <<ToString(n)>>

\* append_field, whose text is empty only before the first field.
FieldText(i, value) ==
  (IF i = 1 THEN <<>> ELSE <<"|">>) \o <<ReceiptFields[i], "=">> \o Escape(value)

\* ReceiptCodec::canonical
Canonical(receipt) ==
  FlattenSeq([i \in DOMAIN ReceiptFields |-> FieldText(i, receipt[ReceiptFields[i]])])

\* batch_fingerprint, which goes on hashing where the receipt before it ended.
BatchText(batch) == FlattenSeq([i \in DOMAIN batch |-> Canonical(batch[i])])

\* ReceiptCodec::view of the record that a template opens at epoch e, before and
\* after it is settled by its first confirmation.
LaneNamed(s, id) == CHOOSE l \in ToSet(s.lanes) : l.id = id

View(s, t, e, settled) ==
  LET lane == LaneNamed(s, t.lane)
      fee  == (t.amount * lane.policy.fee_bps) \div 10000
  IN  [packet |-> t.id, lane |-> t.lane, asset |-> lane.asset, source |-> t.source,
       recipient |-> t.recipient, gross |-> Digits(t.amount), net |-> Digits(t.amount - fee),
       fee |-> Digits(fee), observedEpoch |-> Digits(e),
       timeoutEpoch |-> Digits(e + lane.policy.timeout_epochs), attempt |-> Digits(0),
       ackCount |-> Digits(IF settled THEN 1 ELSE 0),
       observedStatus |-> <<IF settled THEN "consumed" ELSE "open">>,
       confirmedStatus |-> <<IF settled THEN "settled" ELSE "prepared">>]

\* The receipts that the submissions of a scenario can lead to without a retry.
ReceiptsOf(s) ==
  {View(s, s.actions[i].packet_template, s.actions[i].epoch, settled) :
     i \in {j \in DOMAIN s.actions : s.actions[j].type = "submit"}, settled \in BOOLEAN}

\* One receipt, or two one after the other.
BatchesOf(s) == {<<r>> : r \in ReceiptsOf(s)} \cup {<<q, r>> : q, r \in ReceiptsOf(s)}

-----------------------------------------------------------------------------
\* No two receipts, or batches of them, have the same text, so that a fingerprint
\* never stands for another packet, lane or status: the bars and equals signs
\* cannot come from the identifiers that the loader lets through.
TextsTellApart(s) == \A b, c \in BatchesOf(s) : BatchText(b) = BatchText(c) => b = c
=============================================================================
