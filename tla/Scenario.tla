------------------------------ MODULE Scenario ------------------------------
(***************************************************************************)
(* A scenario as ScenarioSchema (scenario/schema.cpp) accepts it and       *)
(* ScenarioRunner (scenario/runner.cpp) applies it.  The schema inspects   *)
(* the whole scenario before the engine exists, but what it says of an     *)
(* action depends on the declarations and on the actions before it only.   *)
(* So the two are run in lock step here: each step picks an action that    *)
(* the schema lets pass in its own state and applies it to the engine.     *)
(***************************************************************************)
EXTENDS EngineProperties

CONSTANT DeclaredAccounts  \* the ids of the accounts the scenario declares

ASSUME ScenarioAssumption == DeclaredAccounts \subseteq Accounts

VARIABLES
  seen,         \* SeenState::packets, the packets that a submit has named
  last_epoch    \* the epoch of the last inspected action

schema == <<seen, last_epoch>>

ScenarioInit == Init /\ seen = {} /\ last_epoch = StartEpoch

-----------------------------------------------------------------------------
\* The actions that the loader reads.  An epoch left out reads as 0 and a target
\* epoch left out as the action's own; the sets hold both.
Action ==
  [type : {"submit", "retry"}, epoch : Epochs, packet_template : Templates]
  \cup [type : {"confirm"}, epoch : Epochs, packet : Packets, ack : Acks]
  \cup [type : {"cancel"}, epoch : Epochs, packet : Packets, force : BOOLEAN]
  \cup [type : {"advance"}, epoch : Epochs, target_epoch : Epochs]
  \cup [type : {"snapshot"}, epoch : Epochs]

(* What the schema asks of each declaration and of each action.            *)

\* Faulty variant: the accounts of a template are not looked up.
DeclaredLaneOnly(t) == t.lane \in DeclaredLanes

Declared(t) ==
  /\ t.lane \in DeclaredLanes
  /\ {t.source, t.recipient} \subseteq DeclaredAccounts

\* An action that does not move the epoch back.
Inspect(a) == a.epoch >= last_epoch /\ last_epoch' = a.epoch

\* Faulty variant: repeated packets are let pass.
FreshAny(p) == TRUE

Fresh(p) == p \notin seen

ApplySubmit(a) ==
  /\ a.type = "submit" /\ Inspect(a)
  /\ Declared(a.packet_template) /\ Fresh(a.packet_template.packet)
  /\ seen' = seen \cup {a.packet_template.packet}
  /\ Submit(a.packet_template, a.epoch)

\* A retry is not remembered: it only has to name what is declared.
ApplyRetry(a) ==
  /\ a.type = "retry" /\ Inspect(a) /\ Declared(a.packet_template)
  /\ seen' = seen
  /\ Retry(a.packet_template, a.epoch)

\* Faulty variant: an action on a packet that no submit has named.
KnownAny(p) == TRUE

Known(p) == p \in seen

ApplyConfirm(a) ==
  /\ a.type = "confirm" /\ Inspect(a) /\ Known(a.packet)
  /\ seen' = seen
  /\ Confirm(a.packet, a.ack, a.epoch)

ApplyCancel(a) ==
  /\ a.type = "cancel" /\ Inspect(a) /\ Known(a.packet)
  /\ seen' = seen
  /\ Cancel(a.packet, a.epoch, a.force)

\* The engine advances to targetEpoch, which the schema has not looked at.
ApplyAdvance(a) ==
  /\ a.type = "advance" /\ Inspect(a)
  /\ seen' = seen
  /\ Advance(a.target_epoch)

ApplySnapshot(a) ==
  /\ a.type = "snapshot" /\ Inspect(a)
  /\ seen' = seen
  /\ Snapshot(a.epoch)

\* The declarations, in the order in which the runner registers them.
Declare ==
  /\ \/ \E h \in DOMAIN Seed : h[1] \in DeclaredAccounts /\ RegisterAccount(h)
     \/ \E c \in LaneConfigs : c.operator_account \in DeclaredAccounts /\ RegisterLane(c)
  /\ UNCHANGED schema

ScenarioNext ==
  \/ Declare
  \/ \E a \in Action :
       \/ ApplySubmit(a) \/ ApplyRetry(a) \/ ApplyConfirm(a) \/ ApplyCancel(a)
       \/ ApplyAdvance(a) \/ ApplySnapshot(a)

ScenarioSpec == ScenarioInit /\ [][ScenarioNext]_<<vars, schema>>

-----------------------------------------------------------------------------
(* What the schema's acceptance is worth to the engine.                    *)

\* An accepted scenario never fails on a reference: the engine knows every lane
\* and every packet that its actions name.
ReferencesHold == failure \notin {"UnknownLane", "UnknownPacket"}

OpenedByRetry(p) ==
  \E i \in DOMAIN events :
    /\ events[i].packet = p /\ events[i].kind = "packet_retried"
    /\ \A j \in 1 .. i : ~(events[j].packet = p /\ events[j].kind = "packet_submitted")

\* The schema's own test for repeated packets is enough, but for packets that a
\* retry opened: those are unknown to it, and only submitting them again fails.
DuplicatesComeFromRetries ==
  failure = "DuplicatePacket" => \E p \in seen : OpenedByRetry(p)

\* Money only ever lies in accounts that the scenario declares, although the
\* ledger creates a balance for whatever account it is asked about.
OnlyDeclaredHold ==
  \A h \in Holders : ledger[h] # EmptyLedger[h] => h[1] \in DeclaredAccounts

\* A packet opened by a retry can be neither confirmed nor cancelled later on,
\* as the schema refuses to let an action name it: what it reserved stays put.
RetryFirstStaysOpen ==
  \A p \in DOMAIN records \ seen :
    records[p].observed_status = "open" /\ records[p].confirmed_status = "prepared"

\* architecture.md promises of an accepted scenario that its epochs are coherent,
\* so that no action of it is refused by the engine for moving back.
EpochsAreCoherent == failure # "InvalidArgument"
=============================================================================
