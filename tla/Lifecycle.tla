----------------------------- MODULE Lifecycle ------------------------------
(***************************************************************************)
(* What the engine promises of a packet and of an asset, whatever planes,  *)
(* records and lanes it keeps for it.  A packet is held, may go back to    *)
(* its source and be held again, and is paid once.  The base of an asset,  *)
(* the funds that are spendable or held, is fixed once it is declared: it  *)
(* grows only when a packet is paid that was not held at the time, and by  *)
(* the amount of that packet.                                              *)
(***************************************************************************)
EXTENDS Integers

CONSTANTS Packets, Assets, Amount, NoTerms

VARIABLES
  phase,   \* of each packet
  terms,   \* of each packet, its asset and amount once it is held
  tries,   \* of each packet, how often it was held again
  base,    \* of each asset
  stage    \* "declaring", "running" or, when an action failed, "stopped"

lifecycle == <<phase, terms, tries, base, stage>>

Unused ==
  /\ phase = [p \in Packets |-> "absent"]
  /\ terms = [p \in Packets |-> NoTerms]
  /\ tries = [p \in Packets |-> 0]
  /\ base = [a \in Assets |-> 0]

\* A scenario that declares nothing runs from the start.
Init == Unused /\ stage \in {"declaring", "running"}

Moves(p, from, to) ==
  /\ stage = "running" /\ phase[p] = from
  /\ phase' = [phase EXCEPT ![p] = to]
  /\ UNCHANGED stage

\* Funds of one asset are declared.
Declare(a) ==
  /\ stage = "declaring"
  /\ base'[a] >= base[a] /\ base' = [base EXCEPT ![a] = base'[a]]
  /\ UNCHANGED <<phase, terms, tries, stage>>

Start ==
  /\ stage = "declaring" /\ stage' = "running"
  /\ UNCHANGED <<phase, terms, tries>>
  /\ base' = base \/ \E a \in Assets : base' = [base EXCEPT ![a] = base'[a]]

Hold(p) ==
  /\ Moves(p, "absent", "held")
  /\ terms'[p] \in Assets \X Amount /\ terms' = [terms EXCEPT ![p] = terms'[p]]
  /\ UNCHANGED <<tries, base>>

Return(p) == Moves(p, "held", "returned") /\ UNCHANGED <<terms, tries, base>>

HoldAgain(p) ==
  /\ Moves(p, "returned", "held")
  /\ tries' = [tries EXCEPT ![p] = @ + 1]
  /\ UNCHANGED <<terms, base>>

Pay(p) == Moves(p, "held", "paid") /\ UNCHANGED <<terms, tries, base>>

PayAfterReturn(p) ==
  /\ Moves(p, "returned", "paid_after_return")
  /\ base' = [base EXCEPT ![terms[p][1]] = @ + terms[p][2]]
  /\ UNCHANGED <<terms, tries>>

\* An action that fails ends the run, and what was held or paid goes with it.
Stop == stage # "stopped" /\ stage' = "stopped" /\ Unused'

Next ==
  \/ \E a \in Assets : Declare(a)
  \/ Start
  \/ \E p \in Packets : Hold(p) \/ Return(p) \/ HoldAgain(p) \/ Pay(p) \/ PayAfterReturn(p)
  \/ Stop

Spec == Init /\ [][Next]_lifecycle
=============================================================================
