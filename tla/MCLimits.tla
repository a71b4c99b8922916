------------------------------ MODULE MCLimits ------------------------------
(***************************************************************************)
(* The engine at the limits of its amounts: units up to MaxAmount only, a  *)
(* payer and a payee that hold nearly all of them and pay each other or    *)
(* themselves in two assets, a lane without a fee and one whose fee rounds *)
(* down to zero.  When the payer's packets are cancelled one after the     *)
(* other, what stays committed of them is more than fits.  A deadline of   *)
(* the lane without a fee is the last epoch, and one epoch later it wraps. *)
(***************************************************************************)
EXTENDS ReportBuild

MCSeed == [h \in {<<"payer", "usd">>, <<"payee", "eur">>} |-> 5]

Lane(id, asset, timeout, bps) ==
  [id |-> id, asset |-> asset, operator_account |-> "payee",
   timeout_epochs |-> timeout, fee_bps |-> bps, max_retries |-> 1,
   min_packet_amount |-> 0, max_packet_amount |-> MaxAmount,
   allow_manual_cancel |-> TRUE, require_unique_ack |-> TRUE]

MCLaneConfigs ==
  {Lane("free", "eur", EpochLimit, 0),
   Lane("cheap", "usd", 1, 1), Lane("cheap", "usd", 1, 3)}

Template(p, l, from, to, x) ==
  [packet |-> p, lane |-> l, source |-> from, recipient |-> to, amount |-> x,
   priority |-> "normal"]

MCTemplates ==
  {Template("p1", "cheap", "payer", "payee", 5), Template("p2", "cheap", "payer", "payee", 4),
   Template("p2", "free", "payee", "payer", 5), Template("p3", "free", "payee", "payee", 3),
   Template("p3", "cheap", "payee", "payer", 0), Template("p3", "cheap", "payer", "payer", 5)}

MCPacketOrder == [p1 |-> 1, p2 |-> 2, p3 |-> 3]

\* Nothing reads the log, nor the epoch of a failed run.
WithoutLog ==
  <<IF failure = "none" THEN epoch ELSE StartEpoch,
    seeded, lanes, ledger, records, totals, failure>>
=============================================================================
