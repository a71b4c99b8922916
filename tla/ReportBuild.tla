---------------------------- MODULE ReportBuild -----------------------------
(***************************************************************************)
(* Building the report of a run that ended well (report/json_report.cpp,   *)
(* report/plain_report.cpp) and the status the program leaves with         *)
(* (main.cpp).  The figures are those of Reports and Queue; what is added  *)
(* here is that each block sums them with checked additions, across        *)
(* accounts and sometimes across assets, so that building may still throw. *)
(* A sum of non-negative amounts, taken one by one, throws exactly when    *)
(* its total does not fit.                                                 *)
(***************************************************************************)
EXTENDS Reports

Fits(x) == x <= MaxAmount

LedgerTotal(f) == Total(Holders, [h \in Holders |-> ledger[h][f]])

\* summary() adds the locks of all accounts, whatever their asset.
SummaryFits == Fits(Summary.observed_locked) /\ Fits(Summary.confirmed_locked)

\* inspect_balances() adds every plane but the fees paid, whatever the asset.
AuditFits ==
  \A f \in {"available", "observed_locked", "confirmed_locked", "received", "fees_earned"} :
    Fits(LedgerTotal(f))

\* by_asset(), visible_total() and reserved_total()
ReconciliationFits ==
  \A a \in Assets :
    /\ \A f \in Planes : Fits(AssetTotal(a, f))
    /\ Fits(AssetTotal(a, "available") + AssetTotal(a, "received"))
    /\ Fits(AssetTotal(a, "observed_locked") + AssetTotal(a, "confirmed_locked"))

\* stats() adds the gross amounts of each bucket but the closed one.
QueueFits == \A b \in {"ready", "waiting", "timed_out"} : Fits(Gross(b))

\* Faulty variant: liquidity and commitments are aggregated in one sum.
CapitalFitsOneSum ==
  Fits(LedgerTotal("available") + LedgerTotal("observed_locked") + LedgerTotal("confirmed_locked"))

\* evaluate(): the exposure and base of each asset, and the aggregates of all.
CapitalFits ==
  /\ \A a \in Assets : Fits(TimeoutExposure(a)) /\ Fits(OperatingBase(a))
  /\ Fits(LedgerTotal("available"))
  /\ Fits(LedgerTotal("observed_locked") + LedgerTotal("confirmed_locked"))
  /\ Fits(Total(Assets, [a \in Assets |-> TimeoutExposure(a)]))

\* The other blocks copy amounts and count.
JsonFits == SummaryFits /\ AuditFits /\ ReconciliationFits /\ QueueFits /\ CapitalFits

\* exposures(), whose ratio adds all the planes of one balance.
ExposuresFit ==
  \A h \in Holders :
    Fits(ledger[h]["available"] + ledger[h]["observed_locked"] + ledger[h]["confirmed_locked"])

PlainFits == SummaryFits /\ ExposuresFit

\* "validate", and "run" with and without "--json"
Commands == {"validate", "json", "plain"}

\* The exit status, or -1 for a process that a signal ends.  The scenario runs first,
\* whatever the command; a failed run never gets as far as its report, nor an
\* unknown command to one.
Exit(command) ==
  IF failure = "Trap" THEN -1
  ELSE IF \/ failure # "none" \/ command \notin Commands
          \/ command = "json" /\ ~JsonFits
          \/ command = "plain" /\ ~PlainFits
  THEN 1 ELSE 0

-----------------------------------------------------------------------------
\* A scenario that "validate" accepts is reported whenever three figures fit
\* together: its funds with what was paid from given-back reserves and what was
\* received or is committed besides, its commitments on both planes, and the
\* exposure.  All three are known from the records alone, so no other sum of
\* the report's blocks, over any mix of accounts and assets, is larger.
ReportsWithinLimits ==
  failure = "none" =>
    LET open   == Total({p \in DOMAIN records : records[p].observed_status = "open"},
                        Grosses(records))
        locked == GrossOf(Pending)
        again  == GrossOf(PaidAfterRelease)
    IN  /\ Fits(total_seeded + again + total_settled + total_fees)
        /\ Fits(open + locked) /\ Fits(locked + again)
        => /\ Exit("json") = 0
           /\ Fits(total_seeded + again + locked) => Exit("plain") = 0
=============================================================================
