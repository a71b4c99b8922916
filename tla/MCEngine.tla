------------------------------ MODULE MCEngine ------------------------------
(***************************************************************************)
(* A small instance of the engine: one asset, a payer, a payee and an      *)
(* operator, a fast lane and a slow one with different policies, a lane no *)
(* one declared, and two packets.  The templates let a retry arrive through *)
(* the other lane or with another amount.                                  *)
(***************************************************************************)
EXTENDS EngineProperties, TLC

MCSeed == [h \in {"payer", "payee"} \X Assets |-> IF h[1] = "payer" THEN 9 ELSE 0]

Lane(id, timeout, bps, retries, manual, unique) ==
  [id |-> id, asset |-> "usd", operator_account |-> "operator",
   timeout_epochs |-> timeout, fee_bps |-> bps, max_retries |-> retries,
   min_packet_amount |-> 4, max_packet_amount |-> 6,
   allow_manual_cancel |-> manual, require_unique_ack |-> unique]

MCLaneConfigs ==
  {Lane("fast", 1, 2000, 1, TRUE, TRUE), Lane("slow", 2, 2000, 2, FALSE, FALSE),
   Lane("slow", 0, 2000, 2, FALSE, FALSE)}

Template(p, l, from, to, x) ==
  [packet |-> p, lane |-> l, source |-> from, recipient |-> to, amount |-> x,
   priority |-> "normal"]

MCTemplates ==
  {Template("p1", "fast", "payer", "payee", 5), Template("p1", "slow", "payer", "payee", 5),
   Template("p1", "fast", "payer", "payee", 4), Template("p2", "slow", "payer", "payee", 5),
   Template("p2", "fast", "payer", "payee", 7), Template("p2", "lost", "payer", "payee", 5)}

\* The log grows with every step and no action reads it, and nothing reads the
\* epoch of a failed run: states that only differ in these are explored once.
WithoutLog ==
  <<IF failure = "none" THEN epoch ELSE StartEpoch,
    seeded, lanes, ledger, records, totals, failure>>

AckSymmetry == Permutations(Acks)
=============================================================================
