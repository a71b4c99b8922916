----------------------------- MODULE Refinement -----------------------------
(***************************************************************************)
(* The engine implements Lifecycle: what its two planes say of a packet is *)
(* one phase, what its ledger holds of an asset is one base, and a failed  *)
(* run, which main.cpp reports without its engine, has neither.            *)
(***************************************************************************)
EXTENDS EngineProperties

PhaseOf(p) ==
  IF p \notin DOMAIN records THEN "absent"
  ELSE LET r == records[p] IN
       IF r.confirmed_status = "settled"
       THEN IF r.observed_status = "consumed" THEN "paid" ELSE "paid_after_return"
       ELSE IF r.observed_status = "open" THEN "held" ELSE "returned"

BaseOf(a) ==
  LET held == {h \in Holders : h[2] = a}
  IN  Total(held, [h \in held |-> ledger[h]["available"]])
        + Total(held, [h \in held |-> ledger[h]["observed_locked"]])

Alive == failure = "none"

StageOf ==
  IF ~Alive THEN "stopped"
  ELSE IF seeded = DOMAIN Seed /\ DOMAIN lanes = DeclaredLanes THEN "running"
  ELSE "declaring"

LifePhase == [p \in Packets |-> IF Alive THEN PhaseOf(p) ELSE "absent"]

LifeTerms ==
  [p \in Packets |-> IF Alive /\ p \in DOMAIN records
                     THEN <<records[p].asset, records[p].gross>> ELSE <<>>]

LifeTries == [p \in Packets |-> IF Alive /\ p \in DOMAIN records THEN records[p].attempt ELSE 0]

LifeBase == [a \in Assets |-> IF Alive THEN BaseOf(a) ELSE 0]

Life == INSTANCE Lifecycle WITH
  NoTerms <- <<>>, phase <- LifePhase, terms <- LifeTerms, tries <- LifeTries,
  base <- LifeBase, stage <- StageOf

\* Every run of the engine, its planes, ledger and totals set aside, is a run of
\* the lifecycle: one call moves at most one packet, only along the lifecycle's
\* arrows, counts an attempt exactly when the packet is held again, and changes
\* what an asset holds only by a settlement after a cancellation.
ImplementsLifecycle == Life!Spec
=============================================================================
