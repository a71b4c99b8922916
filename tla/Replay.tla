------------------------------- MODULE Replay -------------------------------
(***************************************************************************)
(* ReplayInspector (audit/replay.cpp) over the engine's event log, and     *)
(* what the log must say of the engine: the reports publish both, and an   *)
(* integration that only keeps the events has to reach the same state.     *)
(***************************************************************************)
EXTENDS EngineProperties, FiniteSetsExt

\* for_packet: the places in the log of the events of packet p.
ForPacket(log, p) == {i \in DOMAIN log : log[i].packet = p}

OfKinds(log, kinds) == {i \in DOMAIN log : log[i].kind \in kinds}

\* count_event: the events of one kind.
Counter(log, kind) == Cardinality(OfKinds(log, {kind}))

\* summarize: the epochs are the least and the greatest of the log.
Stats(log) ==
  LET epochs == {log[i].epoch : i \in DOMAIN log}
  IN  [first_epoch   |-> IF log = << >> THEN 0 ELSE Min(epochs),
       last_epoch    |-> IF log = << >> THEN 0 ELSE Max(epochs),
       total_events  |-> Len(log),
       system_events |-> Cardinality(ForPacket(log, "system")),
       packet_events |-> Cardinality(DOMAIN log \ ForPacket(log, "system"))]

AmountOf(log, kind) == Total(OfKinds(log, {kind}), [i \in DOMAIN log |-> log[i].amount])

-----------------------------------------------------------------------------
(* Replaying the events of one packet.                                     *)

Unseen == [observed |-> "missing", confirmed |-> "missing", attempt |-> 0, lane |-> "system",
           gross |-> 0, opened |-> 0, updated |-> 0, timeout |-> 0]

\* What one event tells of its packet, given the lanes of the scenario: the lane
\* of the first event is the packet's own, while a later retry only takes the
\* timeout of its lane.
Applied(table, view, ev) ==
  CASE ev.kind \in {"packet_submitted", "packet_retried"} ->
         [view EXCEPT !.observed = "open",
                      !.confirmed = "prepared",
                      !.attempt = IF view = Unseen THEN 0 ELSE @ + 1,
                      !.lane = IF view = Unseen THEN ev.lane ELSE @,
                      !.gross = ev.amount,
                      !.opened = ev.epoch,
                      !.updated = ev.epoch,
                      !.timeout = Wrapped(ev.epoch + table[ev.lane].timeout_epochs)]
    [] ev.kind = "packet_cancelled" ->
         [view EXCEPT !.observed = "cancelled", !.updated = ev.epoch]
    [] ev.kind = "packet_confirmed" ->
         [view EXCEPT !.observed = IF @ = "open" THEN "consumed" ELSE @,
                      !.confirmed = "settled",
                      !.updated = ev.epoch]
    [] OTHER -> view

\* What the log tells of packet p, read from its start to its end.
Replayed(table, log, p) ==
  LET view[n \in 0 .. Len(log)] ==
        IF n = 0 THEN Unseen
        ELSE IF log[n].packet = p THEN Applied(table, view[n - 1], log[n])
        ELSE view[n - 1]
  IN  view[Len(log)]

Seen(r) ==
  [observed |-> r.observed_status, confirmed |-> r.confirmed_status, attempt |-> r.attempt,
   lane |-> r.lane, gross |-> r.gross, opened |-> r.observed_epoch,
   updated |-> r.last_update_epoch, timeout |-> r.timeout_epoch]

\* The log alone explains every record: replaying a packet's events gives its
\* statuses, attempt, amount and epochs, its timeout included, and no event
\* speaks of a packet that is not there.
LogReplays ==
  failure = "none" =>
    \A p \in Packets :
      Replayed(lanes, events, p) = IF p \in DOMAIN records THEN Seen(records[p]) ELSE Unseen

SystemKinds == {"account_seeded", "lane_registered", "epoch_advanced", "snapshot"}

\* The counters of the log and the totals of the engine tell the same story:
\* the report prints both, from sources that are updated apart.  The events are
\* split by the name of their packet, which tells the system's own events from
\* those of packets exactly as long as no packet is itself called "system".  The
\* log starts at the first epoch there is, unless a scenario declares nothing and
\* its first action comes later.
LogReconciles ==
  failure = "none" =>
    /\ Counter(events, "packet_confirmed") = Cardinality(Settled(records))
    /\ Counter(events, "duplicate_confirmation") = duplicate_confirmations
    /\ AmountOf(events, "packet_confirmed") = total_settled
    /\ AmountOf(events, "account_seeded") = total_seeded
    /\ events # << >> =>
         /\ Stats(events).last_epoch = epoch
         /\ DOMAIN Seed # {} \/ DeclaredLanes # {} => Stats(events).first_epoch = StartEpoch
         /\ Stats(events).packet_events + Stats(events).system_events = Len(events)
         /\ Stats(events).system_events = Cardinality(OfKinds(events, SystemKinds))
              <=> "system" \notin DOMAIN records

\* A confirmation is counted as repeated only after the packet has settled,
\* so that an acknowledgement is never swallowed before its credit was made.
DuplicatesFollowSettlement ==
  \A j \in DOMAIN events :
    events[j].kind = "duplicate_confirmation" =>
      \E i \in 1 .. j - 1 : /\ events[i].kind = "packet_confirmed"
                            /\ events[i].packet = events[j].packet
=============================================================================
