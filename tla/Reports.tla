------------------------------ MODULE Reports -------------------------------
(***************************************************************************)
(* The blocks of the report: the summary of the engine, the per-asset      *)
(* reconciliation (ledger/reconcile.cpp), the capital model                *)
(* (economics/capital_model.cpp), the audit (audit/invariants.cpp), the    *)
(* receipts (settlement/receipt.cpp) and the bands of the SDK              *)
(* (client/src/risk.ts).  Each block is computed on its own from the same  *)
(* engine; none keeps state.  The sums here are not bounded: that one of   *)
(* them may overflow while the report is built is left to ReportBuild.     *)
(***************************************************************************)
EXTENDS Queue, Floats

\* Both formats reach far enough for the product of an amount and basis points.
ASSUME ReportsAssumption ==
  \A M \in {LongMantissa, DoubleMantissa} : (4 * MaxAmount * BpsScale) \div M < M

InAsset(a) == {p \in DOMAIN records : records[p].asset = a}

\* LedgerReconciler::by_asset
AssetTotal(a, f) ==
  LET held == {h \in Holders : h[2] = a}
  IN  Total(held, [h \in held |-> ledger[h][f]])

\* EngineSummary, from SettlementEngine::summary.
Summary ==
  [observed_locked   |-> Total(Holders, [h \in Holders |-> ledger[h]["observed_locked"]]),
   confirmed_locked  |-> Total(Holders, [h \in Holders |-> ledger[h]["confirmed_locked"]]),
   packets_open      |-> Cardinality({p \in DOMAIN records : records[p].observed_status = "open"}),
   packets_cancelled |-> Cardinality({p \in DOMAIN records :
                                        records[p].observed_status = "cancelled"}),
   packets_settled   |-> Cardinality(Settled(records))]

\* InvariantAuditor::inspect: the counters of the records and the findings that
\* a record or a balance can raise.
Audit ==
  [open_observed  |-> Cardinality({p \in DOMAIN records : records[p].observed_status = "open"}),
   open_confirmed |-> Cardinality({p \in DOMAIN records : records[p].confirmed_status = "prepared"}),
   closed_records |-> Cardinality(Settled(records)),
   findings |->
     {<<"negative_balance", h>> : h \in {x \in Holders :
        \E f \in {"available", "observed_locked", "confirmed_locked"} : ledger[x][f] < 0}}
     \cup {<<"zero_net_settlement", p>> : p \in {q \in Settled(records) : records[q].net = 0}}
     \cup {<<"open_plane_after_close", p>> :
             p \in {q \in Settled(records) : records[q].observed_status = "open"}}]

\* ReceiptView: what a receipt and its fingerprint are computed from.
ReceiptOf(r) ==
  <<r.lane, r.asset, r.source, r.recipient, r.gross, r.net, r.fee, r.observed_epoch,
    r.timeout_epoch, r.attempt, Cardinality(r.acknowledgements),
    r.observed_status, r.confirmed_status>>

-----------------------------------------------------------------------------
(* The capital model.                                                      *)

RatioCap == 1000000

\* ratio_bps: the amounts, their product with the scale and the quotient are each
\* rounded to a long double; the quotient is capped and then rounded down.
RatioBps(n, d) ==
  IF n = 0 \/ d = 0 THEN 0
  ELSE LET scaled == Rounded(Rounded(n, LongDouble) * BpsScale, LongDouble)
       IN  Min({FlooredQuotient(scaled, Rounded(d, LongDouble), LongDouble), RatioCap})

Exposed(p) ==
  \/ records[p].observed_status = "cancelled"
  \/ records[p].observed_status = "open" /\ epoch >= records[p].timeout_epoch

TimeoutExposure(a) == Total({p \in InAsset(a) : Exposed(p)}, Grosses(records))

OperatingBase(a) == AssetTotal(a, "available") + AssetTotal(a, "observed_locked")

Utilization(a) == RatioBps(AssetTotal(a, "observed_locked"), OperatingBase(a))

\* Faulty variant: what is reserved already does not count as cover.
CoverageOfLiquid(a) ==
  IF AssetTotal(a, "confirmed_locked") = 0 THEN BpsScale
  ELSE RatioBps(AssetTotal(a, "available"), AssetTotal(a, "confirmed_locked"))

Coverage(a) ==
  IF AssetTotal(a, "confirmed_locked") = 0 THEN BpsScale
  ELSE RatioBps(OperatingBase(a), AssetTotal(a, "confirmed_locked"))

Overlap(a) ==
  LET both == {AssetTotal(a, "observed_locked"), AssetTotal(a, "confirmed_locked")}
  IN  RatioBps(Min(both), Max(both))

\* capitalBand of the SDK.
CapitalBand(a) ==
  IF Coverage(a) >= 15000 /\ Utilization(a) <= 6000 THEN "ample"
  ELSE IF Coverage(a) >= 10000 /\ Utilization(a) <= 8000 THEN "monitored"
  ELSE "constrained"

\* An amount of the report as JSON.parse reads it.
AsDouble(n) == Rounded(n, Double)

\* Faulty variant: the base is taken for the liquidity that is left of it.
SdkBaseOfLiquid(a) == AsDouble(AssetTotal(a, "available"))

SdkBase(a) ==
  Rounded(AsDouble(AssetTotal(a, "available")) + AsDouble(AssetTotal(a, "observed_locked")), Double)

\* headroom of the SDK, for a target utilization in basis points: sum, product,
\* quotient and difference are numbers of JavaScript.
Headroom(a, target) ==
  LET commitments == FlooredQuotient(Rounded(SdkBase(a) * target, Double), BpsScale, Double)
  IN  Rounded(Max({0, commitments - AsDouble(AssetTotal(a, "observed_locked"))}), Double)

\* reserved_ratio_bps multiplies in int64 before it divides.
RatioFits(h) ==
  (ledger[h]["observed_locked"] + ledger[h]["confirmed_locked"]) * BpsScale <= MaxAmount

-----------------------------------------------------------------------------
(* What the blocks must say of each other.                                 *)

\* Packets that were settled although their observed reserve had gone back.
PaidAfterRelease == {p \in Settled(records) : records[p].observed_status = "cancelled"}

GrossOf(S) == Total(S, Grosses(records))

\* Capital and queue count expired packets by rules of their own: the exposure
\* is the queue's timed-out amount plus what was settled after a cancellation,
\* and all of it but that is backed by confirmed commitments.
ExposureExplained ==
  failure = "none" =>
    \A a \in Assets :
      /\ TimeoutExposure(a) = GrossOf(InAsset(a) \cap InBucket("timed_out"))
                                + GrossOf(InAsset(a) \cap PaidAfterRelease)
      /\ TimeoutExposure(a) - GrossOf(InAsset(a) \cap PaidAfterRelease)
           <= AssetTotal(a, "confirmed_locked")

\* Money is neither lost nor made: an asset's liquidity and observed reserves,
\* over all accounts, are what was declared of it plus the gross of the packets
\* that were settled after their source had been given its reserve back.
BaseConserved ==
  failure = "none" =>
    \A a \in Assets :
      OperatingBase(a) = Total({h \in seeded : h[2] = a}, Seed)
                           + GrossOf(InAsset(a) \cap PaidAfterRelease)

\* Packets that a confirmation has met after their reserve had gone back, that of
\* a settlement which threw half way included.
MetAfterRelease == {p \in DOMAIN records : records[p].observed_status = "cancelled"
                                            /\ records[p].acknowledgements # {}}

\* No handler makes money by throwing half way: whatever a reserve, a release or a
\* settlement leaves undone, an asset's liquidity and observed reserves stay within
\* what was declared of it and the gross of the packets so confirmed.
ThrowsMakeNothing ==
  \A a \in Assets :
    OperatingBase(a) <= Total({h \in seeded : h[2] = a}, Seed)
                          + GrossOf(InAsset(a) \cap MetAfterRelease)

\* The sums of an asset fit, so that its figures are printed.
Printable(a) == OperatingBase(a) <= MaxAmount /\ AssetTotal(a, "confirmed_locked") <= MaxAmount

\* Below this, an amount in basis points is a number of the format.
ExactIn(M, x) == x * BpsScale < M

\* The ratios of an asset tell what waits for a retry.  When the asset's liquidity
\* could not hold all of it again, the coverage is at most par and the band not
\* "ample"; when it could, the coverage is at most a basis point below.  Rounding
\* leaves no more to say of large amounts.  Of amounts that are exact in basis
\* points, the coverage is below par, and the band "constrained", exactly in the
\* first case, and the planes overlap wholly exactly when nothing waits.
RatiosTellReleased ==
  failure = "none" =>
    \A a \in Assets :
      LET released == {p \in InAsset(a) : records[p].observed_status = "cancelled"
                                            /\ records[p].confirmed_status = "prepared"}
          owed     == GrossOf(released)
          short    == AssetTotal(a, "available") < owed
      IN  /\ AssetTotal(a, "observed_locked") + owed = AssetTotal(a, "confirmed_locked")
          /\ Printable(a) =>
               IF short THEN Coverage(a) <= BpsScale /\ CapitalBand(a) # "ample"
               ELSE Coverage(a) >= BpsScale - 1
          /\ /\ ExactIn(LongMantissa, OperatingBase(a))
             /\ ExactIn(LongMantissa, AssetTotal(a, "confirmed_locked"))
             => /\ Overlap(a) = BpsScale <=> AssetTotal(a, "observed_locked") > 0 /\ owed = 0
                /\ Coverage(a) < BpsScale <=> short
                /\ short => CapitalBand(a) = "constrained"

Targets == {1, 2500, 7500, 9999, BpsScale}

\* Reserving the headroom of the SDK is always possible, never passes the target
\* utilization, and one more unit would, while the base times the target is an
\* integer that JavaScript calls safe.  While only the base is, both hold but for
\* a unit: the reserve may take one unit more than there is, and stays within two
\* units of the target on either side.
HeadroomIsTight ==
  failure = "none" =>
    \A a \in Assets, target \in Targets :
      LET free   == AssetTotal(a, "available")
          locked == AssetTotal(a, "observed_locked")
          room   == Headroom(a, target)
          limit  == OperatingBase(a) * target
      IN  /\ limit < DoubleMantissa =>
               /\ room <= free
               /\ room > 0 => (locked + room) * BpsScale <= limit
               /\ (locked + room + 1) * BpsScale > limit
          /\ OperatingBase(a) < DoubleMantissa =>
               /\ room <= free + 1
               /\ room > 0 => (locked + room - 2) * BpsScale < limit
               /\ (locked + room + 2) * BpsScale > limit

\* Summary, audit and queue count packets apart and agree, and the auditor, who
\* looks for settled packets with an open plane, has nothing to find.
CountsAgree ==
  failure = "none" =>
    /\ Audit.open_observed = Summary.packets_open
    /\ Audit.closed_records = Cardinality(InBucket("closed"))
    /\ Audit.open_confirmed = Cardinality(Pending)
    /\ Summary.packets_open + Summary.packets_cancelled + Summary.packets_settled
         = Cardinality(DOMAIN records) + Cardinality(PaidAfterRelease)
    /\ \A found \in Audit.findings : found[1] = "zero_net_settlement"

\* Whatever changes a packet's receipt, its first appearance included, leaves an
\* event of that packet at the end of the log, and no event is ever rewritten.
ChangesAreTraced ==
  [][failure' = "none" =>
       /\ IsPrefix(events, events')
       /\ \A p \in DOMAIN records' :
            (p \in DOMAIN records => ReceiptOf(records'[p]) # ReceiptOf(records[p])) =>
              Len(events') = Len(events) + 1 /\ Last(events').packet = p]_vars
=============================================================================
