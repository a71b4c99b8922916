----------------------------- MODULE MCScenario -----------------------------
(***************************************************************************)
(* Scenarios of a few actions over two declared accounts and an operator,  *)
(* with a template for a lane and one for an account nobody declared.      *)
(***************************************************************************)
EXTENDS Scenario, TLC

MCSeed == [h \in {"payer"} \X Assets |-> 9]

Lane(id, timeout, operator) ==
  [id |-> id, asset |-> "usd", operator_account |-> operator,
   timeout_epochs |-> timeout, fee_bps |-> 2000, max_retries |-> 1,
   min_packet_amount |-> 4, max_packet_amount |-> 6,
   allow_manual_cancel |-> TRUE, require_unique_ack |-> TRUE]

MCLaneConfigs == {Lane("fast", 1, "operator"), Lane("fast", 1, "stranger"), Lane("slow", 2, "operator")}

Template(p, l, to) ==
  [packet |-> p, lane |-> l, source |-> "payer", recipient |-> to, amount |-> 4,
   priority |-> "normal"]

MCTemplates ==
  {Template("p1", "fast", "payee"), Template("p2", "slow", "payee"),
   Template("p2", "fast", "payee"), Template("p1", "lost", "payee"),
   Template("p1", "fast", "stranger")}
=============================================================================
