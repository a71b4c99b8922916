---------------------------- MODULE Replay_proofs ---------------------------
(***************************************************************************)
(* The log against the records.  Three things are proved of every log: a   *)
(* repeated confirmation follows the one that paid, the log alone explains *)
(* every record, and its counters are the engine's totals.  The first      *)
(* rests on LogInv, where every settlement is in the log; the others on    *)
(* StoryInv, that each call that returns tells one event of what it did.   *)
(***************************************************************************)
EXTENDS Replay, Engine_proofs

-----------------------------------------------------------------------------
(* A repeated confirmation follows the one that paid.                      *)

Confirmed(log, p) == \E i \in DOMAIN log : log[i].kind = "packet_confirmed" /\ log[i].packet = p

\* Every settled packet has its confirmation in the log.
SettlementsLogged ==
  failure = "none" =>
    \A p \in DOMAIN records : IsSettled(records[p]) => Confirmed(events, p)

LogInv == IInv /\ SettlementsLogged /\ DuplicatesFollowSettlement

\* What is in the log stays there, in its place, and comes before what is new.
LEMMA LogsProps ==
  ASSUME TypeOK, NEW kind, NEW packet, Logs(kind, packet)
  PROVE  LET n == Len(events) + 1 IN
         /\ DOMAIN events = 1 .. n - 1 /\ DOMAIN events' = 1 .. n /\ n \in Nat
         /\ \A i \in DOMAIN events : i \in DOMAIN events' /\ events'[i] = events[i] /\ i \in 1 .. n - 1
         /\ events'[n].kind = kind /\ events'[n].packet = packet
<1>1. events \in Seq(EventType)
  BY DEF TypeOK, EventType
<1>2. PICK ev \in EventType : ev.kind = kind /\ ev.packet = packet /\ events' = Append(events, ev)
  BY DEF Logs
<1>3. QED
  BY <1>1, <1>2

\* A confirmation in the log is not forgotten.
LEMMA ConfirmedStays ==
  ASSUME TypeOK, NEW kind, NEW packet, Logs(kind, packet), NEW p, Confirmed(events, p)
  PROVE  Confirmed(events', p)
BY LogsProps DEF Confirmed

\* A new event keeps the order of the log, unless it is a repeated confirmation
\* of a packet whose confirmation is missing.
LEMMA OrderKept ==
  ASSUME TypeOK, DuplicatesFollowSettlement, NEW kind, NEW packet, Logs(kind, packet),
         kind = "duplicate_confirmation" => Confirmed(events, packet)
  PROVE  DuplicatesFollowSettlement'
<1> DEFINE n == Len(events) + 1
<1>1. /\ DOMAIN events = 1 .. n - 1 /\ DOMAIN events' = 1 .. n /\ n \in Nat
      /\ \A i \in DOMAIN events : i \in DOMAIN events' /\ events'[i] = events[i] /\ i \in 1 .. n - 1
      /\ events'[n].kind = kind /\ events'[n].packet = packet
  BY LogsProps
<1> HIDE DEF n
<1>2. SUFFICES ASSUME NEW j \in DOMAIN events', events'[j].kind = "duplicate_confirmation"
               PROVE  \E i \in 1 .. j - 1 : /\ events'[i].kind = "packet_confirmed"
                                            /\ events'[i].packet = events'[j].packet
  BY DEF DuplicatesFollowSettlement
<1>3. CASE j = n
  BY <1>1, <1>2, <1>3 DEF Confirmed
<1>4. CASE j # n
  <2>1. j \in DOMAIN events /\ j \in Nat /\ events'[j] = events[j]
    BY <1>1, <1>4
  <2>2. PICK i \in 1 .. j - 1 : /\ events[i].kind = "packet_confirmed"
                                /\ events[i].packet = events[j].packet
    BY <1>2, <2>1 DEF DuplicatesFollowSettlement
  <2>3. i \in DOMAIN events
    BY <1>1, <2>1
  <2>4. QED
    BY <1>1, <2>1, <2>2, <2>3
<1>5. QED
  BY <1>3, <1>4

LEMMA LogPacketStep ==
  ASSUME LogInv, failure = "none", NEW p \in Packets, NEW r \in Record, PacketEffect(p, r)
  PROVE  SettlementsLogged' /\ DuplicatesFollowSettlement'
<1>1. /\ TypeOK /\ DuplicatesFollowSettlement
      /\ \A q \in DOMAIN records : IsSettled(records[q]) => Confirmed(events, q)
  BY DEF LogInv, IInv, SettlementsLogged
<1>2. records' = Put(records, p, r)
  BY DEF PacketEffect, Opens, Reopens, Releases, Repeats, Settles
<1>3. PICK kind : /\ Logs(kind, p)
                  /\ kind = "duplicate_confirmation" => p \in DOMAIN records /\ IsSettled(records[p])
                  /\ IsSettled(r) => \/ kind = "packet_confirmed"
                                     \/ p \in DOMAIN records /\ IsSettled(records[p])
  <2>1. CASE Opens(p, r) \/ Reopens(p, r) \/ Releases(p, r)
    BY <2>1 DEF Opens, Reopens, Releases, IsSettled
  <2>2. CASE Repeats(p, r)
    BY <2>2 DEF Repeats
  <2>3. CASE Settles(p, r)
    BY <2>3 DEF Settles
  <2>4. QED
    BY <2>1, <2>2, <2>3 DEF PacketEffect
<1>4. kind = "packet_confirmed" => Confirmed(events', p)
  BY <1>1, <1>3, LogsProps DEF Confirmed
<1>5. \A q \in DOMAIN records' : IsSettled(records'[q]) => Confirmed(events', q)
  BY <1>1, <1>2, <1>3, <1>4, ConfirmedStays DEF Put
<1>6. DuplicatesFollowSettlement'
  BY <1>1, <1>3, OrderKept
<1>7. QED
  BY <1>5, <1>6 DEF SettlementsLogged

LEMMA LogStep ==
  LogInv /\ [Next]_vars => LogInv'
<1> SUFFICES ASSUME LogInv, [Next]_vars PROVE LogInv'
  OBVIOUS
<1>1. IInv /\ IInv' /\ TypeOK
  BY InvStep DEF LogInv, IInv
<1>2. CASE Next /\ failure' # "none"
  <2>1. events' = events
    BY <1>1, <1>2, NextCompletes DEF Completes
  <2>2. QED
    BY <1>1, <1>2, <2>1 DEF LogInv, SettlementsLogged, DuplicatesFollowSettlement
<1>3. CASE Next /\ failure' = "none"
  <2>1. Effect /\ failure = "none"
    BY <1>1, <1>3, NextCompletes DEF Completes
  <2>2. ASSUME NEW kind, kind # "duplicate_confirmation", Logs(kind, "system"), UNCHANGED records
        PROVE  LogInv'
    <3>1. DuplicatesFollowSettlement'
      BY <1>1, <2>2, OrderKept DEF LogInv
    <3>2. SettlementsLogged'
      BY <1>1, <2>1, <2>2, ConfirmedStays DEF LogInv, SettlementsLogged
    <3>3. QED
      BY <1>1, <3>1, <3>2 DEF LogInv
  <2>3. CASE Quiet
    BY <2>2, <2>3 DEF Quiet
  <2>4. ASSUME NEW h \in DOMAIN Seed, Seeds(h) PROVE LogInv'
    BY <2>2, <2>4 DEF Seeds
  <2>5. ASSUME NEW p \in Packets, NEW r \in Record, PacketEffect(p, r) PROVE LogInv'
    BY <1>1, <2>1, <2>5, LogPacketStep DEF LogInv
  <2>6. QED
    BY <2>1, <2>3, <2>4, <2>5 DEF Effect
<1>4. CASE UNCHANGED vars
  BY <1>1, <1>4 DEF vars, LogInv, SettlementsLogged, DuplicatesFollowSettlement
<1>5. QED
  BY <1>2, <1>3, <1>4

LEMMA LogAlways ==
  Spec => []LogInv
<1>1. Init => LogInv
  BY InvInit DEF Init, LogInv, SettlementsLogged, DuplicatesFollowSettlement
<1>2. QED
  BY <1>1, LogStep, PTL DEF Spec

\* In every log a repeated confirmation comes after the confirmation that paid
\* the packet, so an acknowledgement is never swallowed before its credit.
THEOREM DuplicatesFollow ==
  Spec => []DuplicatesFollowSettlement
<1>1. LogInv => DuplicatesFollowSettlement
  BY DEF LogInv
<1>2. QED
  BY <1>1, LogAlways, PTL

-----------------------------------------------------------------------------
(* Replaying a log that grows at its end: the least place where two replays *)
(* differ stands for an induction over the log.                             *)

\* The replay of a log, place by place.
IsReplay(view, table, log, p) ==
  view = [n \in 0 .. Len(log) |->
            IF n = 0 THEN Unseen
            ELSE IF log[n].packet = p THEN Applied(table, view[n - 1], log[n])
            ELSE view[n - 1]]

\* The replays of two logs agree as far as the logs do.
LEMMA ReplaysAgree ==
  ASSUME NEW table, NEW p, NEW log, NEW long,
         Len(log) \in Nat, Len(long) \in Nat, Len(log) <= Len(long),
         \A n \in 1 .. Len(log) : long[n] = log[n],
         NEW f, IsReplay(f, table, log, p), NEW g, IsReplay(g, table, long, p)
  PROVE  \A n \in 0 .. Len(log) : f[n] = g[n]
<1> DEFINE T == {n \in 0 .. Len(log) : f[n] # g[n]}
<1>1. SUFFICES ASSUME T # {} PROVE FALSE
  OBVIOUS
<1>2. T \subseteq Nat
  OBVIOUS
<1>3. PICK n \in T : \A m \in T : n <= m
  <2> HIDE DEF T
  <2>1. QED
    BY <1>1, <1>2, LeastNatural
<1>4. n \in 0 .. Len(log) /\ f[n] # g[n]
  OBVIOUS
<1>5. /\ f[n] = IF n = 0 THEN Unseen
                ELSE IF log[n].packet = p THEN Applied(table, f[n - 1], log[n]) ELSE f[n - 1]
      /\ g[n] = IF n = 0 THEN Unseen
                ELSE IF long[n].packet = p THEN Applied(table, g[n - 1], long[n]) ELSE g[n - 1]
  <2>1. n \in 0 .. Len(long)
    BY <1>4
  <2>2. QED
    BY <1>4, <2>1 DEF IsReplay
<1>6. n # 0
  BY <1>4, <1>5
<1>7. n - 1 \in 0 .. Len(log) /\ n - 1 \notin T
  BY <1>3, <1>4, <1>6
<1>8. f[n - 1] = g[n - 1] /\ log[n] = long[n]
  BY <1>4, <1>6, <1>7
<1>9. QED
  BY <1>4, <1>5, <1>6, <1>8

\* A log can be replayed as far as it goes.
LEMMA ReplayExists ==
  ASSUME NEW table, NEW p, NEW S, NEW log \in Seq(S)
  PROVE  \E view : IsReplay(view, table, log, p)
<1> DEFINE Upto(f, n) == f = [m \in 0 .. n |->
                                IF m = 0 THEN Unseen
                                ELSE IF log[m].packet = p THEN Applied(table, f[m - 1], log[m])
                                ELSE f[m - 1]]
           T == {n \in 0 .. Len(log) : ~ \E f : Upto(f, n)}
<1>1. SUFFICES T = {}
  BY DEF IsReplay
<1>2. SUFFICES ASSUME T # {} PROVE FALSE
  OBVIOUS
<1>3. T \subseteq Nat
  OBVIOUS
<1>4. PICK n \in T : \A m \in T : n <= m
  <2> HIDE DEF T
  <2>1. QED
    BY <1>2, <1>3, LeastNatural
<1>5. n \in 0 .. Len(log) /\ ~ \E f : Upto(f, n)
  OBVIOUS
<1>6. CASE n = 0
  <2>1. Upto([m \in 0 .. 0 |-> Unseen], 0)
    OBVIOUS
  <2>2. QED
    BY <1>5, <1>6, <2>1
<1>7. CASE n # 0
  <2>1. n - 1 \in 0 .. Len(log) /\ n - 1 \notin T
    BY <1>4, <1>5, <1>7
  <2>2. PICK f : Upto(f, n - 1)
    BY <2>1
  <2> DEFINE g == [m \in 0 .. n |->
                     IF m = 0 THEN Unseen
                     ELSE IF log[m].packet = p THEN Applied(table, f[m - 1], log[m])
                     ELSE f[m - 1]]
  <2>3. \A m \in 0 .. n - 1 : g[m] = f[m]
    <3>1. \A m \in 0 .. n - 1 : f[m] = IF m = 0 THEN Unseen
                     ELSE IF log[m].packet = p THEN Applied(table, f[m - 1], log[m])
                     ELSE f[m - 1]
      BY <2>2, <1>5
    <3>2. QED
      BY <3>1, <1>5
  <2>4. \A m \in 0 .. n : m # 0 => g[m - 1] = f[m - 1]
    <3> HIDE DEF g
    <3>1. \A m \in 0 .. n : m # 0 => m - 1 \in 0 .. n - 1
      BY <1>5
    <3>2. QED
      BY <2>3, <3>1
  <2>5. g = [m \in 0 .. n |->
                     IF m = 0 THEN Unseen
                     ELSE IF log[m].packet = p THEN Applied(table, g[m - 1], log[m])
                     ELSE g[m - 1]]
    <3> HIDE DEF g
    <3>1. \A m \in 0 .. n :
              (IF m = 0 THEN Unseen
                     ELSE IF log[m].packet = p THEN Applied(table, f[m - 1], log[m])
                     ELSE f[m - 1]) = (IF m = 0 THEN Unseen
                     ELSE IF log[m].packet = p THEN Applied(table, g[m - 1], log[m])
                     ELSE g[m - 1])
      BY <2>4
    <3>2. QED
      BY <3>1 DEF g
  <2>6. QED
    BY <2>5, <1>5
<1>8. QED
  BY <1>6, <1>7

LEMMA ReplayedDef ==
  ASSUME NEW table, NEW p, NEW S, NEW log \in Seq(S)
  PROVE  \E view : IsReplay(view, table, log, p) /\ Replayed(table, log, p) = view[Len(log)]
<1> DEFINE view == CHOOSE f : IsReplay(f, table, log, p)
<1>1. IsReplay(view, table, log, p)
  BY ReplayExists
<1>2. Replayed(table, log, p) = view[Len(log)]
  BY DEF Replayed, IsReplay
<1>3. QED
  BY <1>1, <1>2
-----------------------------------------------------------------------------
(* What an event says of the call that has logged it.                      *)

\* Everything declared is registered, so that actions follow.
Loaded == seeded = DOMAIN Seed /\ DOMAIN lanes = DeclaredLanes

\* What the log must have told of packet p so far.
Told(p) == IF p \in DOMAIN records THEN Seen(records[p]) ELSE Unseen

\* An event of the system's own: no packet has changed.
Announces(ev) ==
  /\ ev.kind \in SystemKinds /\ ev.packet = "system"
  /\ UNCHANGED <<records, total_settled, duplicate_confirmations>>
  /\ total_seeded' = total_seeded + (IF ev.kind = "account_seeded" THEN ev.amount ELSE 0)
  /\ \/ ~Loaded /\ UNCHANGED epoch
     \/ Loaded /\ UNCHANGED <<seeded, lanes>>

\* An event about a packet: its record has become what the event tells of it.
Speaks(ev) ==
  /\ ev.kind \in EventKinds \ SystemKinds /\ ev.packet \in Packets
  /\ Loaded /\ UNCHANGED <<seeded, lanes, total_seeded>>
  /\ total_settled' = total_settled + (IF ev.kind = "packet_confirmed" THEN ev.amount ELSE 0)
  /\ duplicate_confirmations' = duplicate_confirmations
                                  + (IF ev.kind = "duplicate_confirmation" THEN 1 ELSE 0)
  /\ \E r \in Record :
       /\ records' = Put(records, ev.packet, r)
       /\ Seen(r) = Applied(lanes, Told(ev.packet), ev)
       /\ IF ev.kind = "packet_confirmed"
          THEN IsSettled(r) /\ ev.packet \in DOMAIN records /\ ~IsSettled(records[ev.packet])
          ELSE IsSettled(r) <=> ev.packet \in DOMAIN records /\ IsSettled(records[ev.packet])

Tells(ev) ==
  /\ events' = Append(events, ev) /\ ev \in EventType
  /\ ev.epoch = epoch' /\ epoch <= epoch'
  /\ Announces(ev) \/ Speaks(ev)

Returns == IInv /\ Completes /\ failure' = "none"

\* What a handler logs when it returns is an event.
LEMMA Logged ==
  ASSUME Returns, NEW ev, Emit(failure', ev)
  PROVE  /\ events' = Append(events, ev) /\ ev \in EventType
         /\ epoch <= epoch'
<1>1. events \in Seq(EventType) /\ events' \in Seq(EventType)
  BY DEF Returns, IInv, Completes, TypeOK, EventType
<1>2. events' = Append(events, ev)
  BY DEF Returns, Emit
<1>3. Len(events) + 1 \in DOMAIN events' /\ events'[Len(events) + 1] = ev
  BY <1>1, <1>2
<1>4. QED
  BY <1>1, <1>2, <1>3 DEF Returns, Completes

LEMMA AccountTells ==
  ASSUME Returns, NEW h \in DOMAIN Seed, RegisterAccount(h)
  PROVE  \E ev : Tells(ev)
<1> DEFINE ev == Event("account_seeded", epoch, "system", "system", Seed[h])
<1>1. /\ seeded # DOMAIN Seed /\ total_seeded' = total_seeded + Seed[h]
      /\ Emit(failure', ev)
      /\ UNCHANGED <<epoch, lanes, records, total_settled, duplicate_confirmations>>
  BY DEF RegisterAccount, Returns
<1>2. /\ ev.kind = "account_seeded" /\ ev.packet = "system" /\ ev.epoch = epoch /\ ev.amount = Seed[h]
  BY DEF Event
<1> HIDE DEF ev
<1>3. Announces(ev)
  BY <1>1, <1>2 DEF Announces, SystemKinds, Loaded
<1>4. QED
  BY <1>1, <1>2, <1>3, Logged DEF Tells

LEMMA LaneTells ==
  ASSUME Returns, NEW c \in LaneConfigs, RegisterLane(c)
  PROVE  \E ev : Tells(ev)
<1> DEFINE ev == Event("lane_registered", epoch, "system", c.id, 0)
<1>1. /\ DOMAIN lanes # DeclaredLanes /\ Emit(failure', ev)
      /\ UNCHANGED <<epoch, seeded, records, totals>>
  BY DEF RegisterLane, Returns
<1>2. /\ ev.kind = "lane_registered" /\ ev.packet = "system" /\ ev.epoch = epoch
      /\ total_seeded \in Nat
  BY AmountTypes DEF Event, Returns, IInv
<1> HIDE DEF ev
<1>3. Announces(ev)
  BY <1>1, <1>2 DEF Announces, SystemKinds, Loaded, totals
<1>4. QED
  BY <1>1, <1>2, <1>3, Logged DEF Tells

LEMMA TickTells ==
  ASSUME Returns, NEW kind \in {"epoch_advanced", "snapshot"}, NEW e \in Epochs, Tick(kind, e)
  PROVE  \E ev : Tells(ev)
<1> DEFINE ev == Event(kind, e, "system", "system", 0)
<1>1. /\ Loaded /\ epoch' = e /\ Emit(failure', ev)
      /\ UNCHANGED <<seeded, lanes, records, totals>>
  BY DEF Tick, Refuse, Returns, Running, Loaded, Emit
<1>2. /\ ev.kind \in {"epoch_advanced", "snapshot"} /\ ev.packet = "system" /\ ev.epoch = e
      /\ total_seeded \in Nat
  BY AmountTypes DEF Event, Returns, IInv
<1> HIDE DEF ev
<1>3. Announces(ev)
  BY <1>1, <1>2 DEF Announces, SystemKinds, totals
<1>4. QED
  BY <1>1, <1>2, <1>3, Logged DEF Tells

LEMMA OpenFirstTells ==
  ASSUME Returns, NEW t \in Templates, NEW e \in Epochs, t.packet \notin DOMAIN records,
         Running, NEW kind \in {"packet_submitted", "packet_retried"}, OpenFirst(t, e, kind)
  PROVE  \E ev : Tells(ev)
<1> DEFINE r  == BuildRecord(t, e)
           ev == Event(kind, e, t.packet, t.lane, r.gross)
<1>1. /\ Loaded /\ epoch' = e /\ records' = Put(records, t.packet, r) /\ Emit(failure', ev)
      /\ UNCHANGED <<seeded, lanes, totals>>
  BY DEF OpenFirst, Returns, Running, Loaded
<1>2. /\ ev.kind = kind /\ ev.packet = t.packet /\ ev.epoch = e /\ ev.lane = t.lane
      /\ ev.amount = r.gross
      /\ r.lane = t.lane /\ r.attempt = 0 /\ r.timeout_epoch = TimeoutFor(t.lane, e)
      /\ r.observed_epoch = e /\ r.last_update_epoch = e
      /\ r.observed_status = "open" /\ r.confirmed_status = "prepared"
  BY DEF Event, BuildRecord
<1>3. r \in Record /\ t.packet \in Packets
  <2> HIDE DEF r
  <2>1. records'[t.packet] = r /\ t.packet \in DOMAIN records'
    BY <1>1 DEF Put
  <2>2. QED
    BY <2>1 DEF Returns, Completes, TypeOK
<1>4. total_settled \in Nat /\ duplicate_confirmations \in Nat
  BY AmountTypes, EngineAssumption DEF Returns, IInv, TypeOK
<1> HIDE DEF r, ev
<1>5. Seen(r) = Applied(lanes, Told(ev.packet), ev)
  BY <1>2 DEF Seen, Applied, Told, Unseen, TimeoutFor
<1>6. Speaks(ev)
  BY <1>1, <1>2, <1>3, <1>4, <1>5 DEF Speaks, SystemKinds, EventKinds, totals, IsSettled
<1>7. QED
  BY <1>1, <1>2, <1>6, Logged DEF Tells

LEMMA ReopenTells ==
  ASSUME Returns, NEW t \in Templates, NEW e \in Epochs, t.packet \in DOMAIN records,
         Running, RetryError(t, e) = "none", Reopen(t, e)
  PROVE  \E ev : Tells(ev)
<1> DEFINE p   == t.packet
           old == records[p]
           new == [old EXCEPT !.attempt = @ + 1,
                              !.observed_epoch = e,
                              !.last_update_epoch = e,
                              !.timeout_epoch = TimeoutFor(t.lane, e),
                              !.observed_status = "open"]
           ev  == Event("packet_retried", e, p, t.lane, old.gross)
<1>1. p \in Packets /\ old \in Record /\ old.confirmed_status = "prepared" /\ old.observed_status # "missing"
  BY DEF Returns, Completes, IInv, TypeOK, PlanesAgree, PlanesOf, RetryError
<1>2. /\ Loaded /\ epoch' = e /\ records' = Put(records, p, new) /\ Emit(failure', ev)
      /\ UNCHANGED <<seeded, lanes, totals>>
  BY <1>1 DEF Reopen, Returns, Running, Loaded
<1>3. /\ ev.kind = "packet_retried" /\ ev.packet = p /\ ev.epoch = e /\ ev.lane = t.lane
      /\ ev.amount = old.gross
  BY DEF Event
<1>4. /\ new.lane = old.lane /\ new.attempt = old.attempt + 1 /\ new.gross = old.gross
      /\ new.timeout_epoch = TimeoutFor(t.lane, e)
      /\ new.observed_epoch = e /\ new.last_update_epoch = e
      /\ new.observed_status = "open" /\ new.confirmed_status = "prepared"
  BY <1>1 DEF Record
<1>5. new \in Record
  <2> HIDE DEF new
  <2>1. records'[p] = new /\ p \in DOMAIN records'
    BY <1>2 DEF Put
  <2>2. QED
    BY <2>1 DEF Returns, Completes, TypeOK
<1>6. total_settled \in Nat /\ duplicate_confirmations \in Nat
  BY AmountTypes, EngineAssumption DEF Returns, IInv, TypeOK
<1> HIDE DEF new, ev
<1>7. Seen(new) = Applied(lanes, Told(ev.packet), ev)
  BY <1>1, <1>3, <1>4 DEF Seen, Applied, Told, Unseen, TimeoutFor
<1>8. Speaks(ev)
  BY <1>1, <1>2, <1>3, <1>4, <1>5, <1>6, <1>7 DEF Speaks, SystemKinds, EventKinds, totals, IsSettled
<1>9. QED
  BY <1>2, <1>3, <1>8, Logged DEF Tells

LEMMA ReleaseTells ==
  ASSUME Returns, NEW p \in DOMAIN records, NEW e \in Epochs, Running,
         records[p].observed_status = "open", Release(p, e)
  PROVE  \E ev : Tells(ev)
<1> DEFINE old == records[p]
           new == [old EXCEPT !.observed_status = "cancelled", !.last_update_epoch = e]
           ev  == Event("packet_cancelled", e, p, old.lane, old.gross)
<1>1. p \in Packets /\ old \in Record
  BY DEF Returns, IInv, TypeOK
<1>2. /\ Loaded /\ epoch' = e /\ records' = Put(records, p, new) /\ Emit(failure', ev)
      /\ UNCHANGED <<seeded, lanes, totals>>
  BY DEF Release, Returns, Running, Loaded
<1>3. /\ ev.kind = "packet_cancelled" /\ ev.packet = p /\ ev.epoch = e
  BY DEF Event
<1>4. /\ new.lane = old.lane /\ new.attempt = old.attempt /\ new.gross = old.gross
      /\ new.timeout_epoch = old.timeout_epoch
      /\ new.observed_epoch = old.observed_epoch /\ new.last_update_epoch = e
      /\ new.observed_status = "cancelled" /\ new.confirmed_status = old.confirmed_status
  BY <1>1 DEF Record
<1>5. new \in Record
  <2> HIDE DEF new
  <2>1. records'[p] = new /\ p \in DOMAIN records'
    BY <1>2 DEF Put
  <2>2. QED
    BY <2>1 DEF Returns, Completes, TypeOK
<1>6. total_settled \in Nat /\ duplicate_confirmations \in Nat
  BY AmountTypes, EngineAssumption DEF Returns, IInv, TypeOK
<1> HIDE DEF new, ev
<1>7. Seen(new) = Applied(lanes, Told(ev.packet), ev)
  BY <1>1, <1>3, <1>4 DEF Seen, Applied, Told
<1>8. Speaks(ev)
  BY <1>1, <1>2, <1>3, <1>4, <1>5, <1>6, <1>7 DEF Speaks, SystemKinds, EventKinds, totals, IsSettled
<1>9. QED
  BY <1>2, <1>3, <1>8, Logged DEF Tells

LEMMA CountDuplicateTells ==
  ASSUME Returns, NEW p \in DOMAIN records, NEW k \in Acks, NEW e \in Epochs, Running,
         CountDuplicate(p, k, e)
  PROVE  \E ev : Tells(ev)
<1> DEFINE old == records[p]
           new == [old EXCEPT !.acknowledgements = @ \cup {k}]
           ev  == Event("duplicate_confirmation", e, p, old.lane, 0)
<1>1. p \in Packets /\ old \in Record
  BY DEF Returns, IInv, TypeOK
<1>2. /\ Loaded /\ epoch' = e /\ records' = Put(records, p, new) /\ Emit(failure', ev)
      /\ duplicate_confirmations' = duplicate_confirmations + 1
      /\ UNCHANGED <<seeded, lanes, total_seeded, total_settled>>
  BY DEF CountDuplicate, Returns, Running, Loaded, Emit
<1>3. /\ ev.kind = "duplicate_confirmation" /\ ev.packet = p /\ ev.epoch = e
  BY DEF Event
<1>4. /\ new.lane = old.lane /\ new.attempt = old.attempt /\ new.gross = old.gross
      /\ new.timeout_epoch = old.timeout_epoch
      /\ new.observed_epoch = old.observed_epoch /\ new.last_update_epoch = old.last_update_epoch
      /\ new.observed_status = old.observed_status /\ new.confirmed_status = old.confirmed_status
  BY <1>1 DEF Record
<1>5. new \in Record
  <2> HIDE DEF new
  <2>1. records'[p] = new /\ p \in DOMAIN records'
    BY <1>2 DEF Put
  <2>2. QED
    BY <2>1 DEF Returns, Completes, TypeOK
<1>6. total_settled \in Nat
  BY AmountTypes DEF Returns, IInv
<1> HIDE DEF new, ev
<1>7. Seen(new) = Applied(lanes, Told(ev.packet), ev)
  BY <1>1, <1>3, <1>4 DEF Seen, Applied, Told
<1>8. Speaks(ev)
  BY <1>1, <1>2, <1>3, <1>4, <1>5, <1>6, <1>7 DEF Speaks, SystemKinds, EventKinds, IsSettled
<1>9. QED
  BY <1>2, <1>3, <1>8, Logged DEF Tells

\* That an open plane was consumed follows from the planes after the call.
LEMMA SettleTells ==
  ASSUME Returns, NEW p \in DOMAIN records, NEW k \in Acks, NEW e \in Epochs, Running,
         records[p].confirmed_status # "settled", Settle(p, k, e)
  PROVE  \E ev : Tells(ev)
<1> DEFINE old == records[p]
           ev  == Event("packet_confirmed", e, p, old.lane, old.net)
           new == records'[p]
           ack == [old EXCEPT !.acknowledgements = @ \cup {k}]
           taken == [ack EXCEPT !.observed_status = "consumed", !.observed_sequence = @ + 1]
           closed(r) == [r EXCEPT !.confirmed_status = "settled",
                                  !.confirmed_sequence = @ + 1,
                                  !.last_update_epoch = e]
<1>1. p \in Packets /\ old \in Record
  BY DEF Returns, IInv, TypeOK
<1>2. /\ Loaded /\ epoch' = e /\ Emit(failure', ev)
      /\ total_settled' = total_settled + old.net
      /\ UNCHANGED <<seeded, lanes, total_seeded, duplicate_confirmations>>
  BY <1>1 DEF Settle, Returns, Running, Loaded, Require, Record
<1>3. \/ records' = Put(records, p, closed(ack))
      \/ ack.observed_status = "open" /\ records' = Put(records, p, closed(taken))
  BY DEF Settle, Returns
<1>4. \/ records' = Put(records, p, new) /\ new = closed(ack)
      \/ ack.observed_status = "open" /\ records' = Put(records, p, new) /\ new = closed(taken)
  <2> HIDE DEF ack, taken, closed
  <2>1. QED
    BY <1>3 DEF Put
<1>5. p \in DOMAIN records' /\ records' = Put(records, p, new)
  <2> HIDE DEF ack, taken, closed
  <2>1. QED
    BY <1>4 DEF Put
<1>6. /\ new.lane = old.lane /\ new.attempt = old.attempt /\ new.gross = old.gross
      /\ new.timeout_epoch = old.timeout_epoch
      /\ new.observed_epoch = old.observed_epoch /\ new.last_update_epoch = e
      /\ new.confirmed_status = "settled"
      /\ \/ new.observed_status = old.observed_status
         \/ new.observed_status = "consumed" /\ old.observed_status = "open"
  <2>1. new = closed(ack) \/ (new = closed(taken) /\ ack.observed_status = "open")
    <3> HIDE DEF ack, taken, closed, new
    <3>1. QED
      BY <1>4
  <2>2. QED
    BY <1>1, <2>1 DEF Record
<1>7. new \in Record /\ new.observed_status # "open"
  BY <1>5, <1>6 DEF Returns, Completes, TypeOK, PlanesAgree, PlanesOf, IsSettled
<1>8. new.observed_status = IF old.observed_status = "open" THEN "consumed" ELSE old.observed_status
  BY <1>6, <1>7
<1>9. /\ ev.kind = "packet_confirmed" /\ ev.packet = p /\ ev.epoch = e /\ ev.amount = old.net
      /\ duplicate_confirmations \in Nat
  BY EngineAssumption DEF Event, Returns, IInv, TypeOK
<1> HIDE DEF new, ev
<1>10. Seen(new) = Applied(lanes, Told(ev.packet), ev)
  BY <1>1, <1>6, <1>8, <1>9 DEF Seen, Applied, Told
<1>11. Speaks(ev)
  BY <1>1, <1>2, <1>5, <1>6, <1>7, <1>9, <1>10 DEF Speaks, SystemKinds, EventKinds, IsSettled
<1>12. QED
  BY <1>2, <1>9, <1>11, Logged DEF Tells

\* Whatever returns has logged one event, and this tells what it has done.
LEMMA NextTells ==
  ASSUME IInv, Next, failure' = "none"
  PROVE  failure = "none" /\ \E ev : Tells(ev)
<1>1. Returns /\ failure = "none"
  BY NextCompletes DEF Returns, Completes
<1>2. ASSUME NEW h \in DOMAIN Seed, RegisterAccount(h) PROVE \E ev : Tells(ev)
  BY <1>1, <1>2, AccountTells
<1>3. ASSUME NEW c \in LaneConfigs, RegisterLane(c) PROVE \E ev : Tells(ev)
  BY <1>1, <1>3, LaneTells
<1>4. ASSUME NEW t \in Templates, NEW e \in Epochs, Submit(t, e) PROVE \E ev : Tells(ev)
  <2>1. Running /\ t.packet \notin DOMAIN records /\ OpenFirst(t, e, "packet_submitted")
    BY <1>1, <1>4 DEF Submit, Refuse, SubmitError, Returns
  <2>2. QED
    BY <1>1, <2>1, OpenFirstTells
<1>5. ASSUME NEW t \in Templates, NEW e \in Epochs, Retry(t, e) PROVE \E ev : Tells(ev)
  <2>1. /\ Running /\ RetryError(t, e) = "none"
        /\ \/ t.packet \notin DOMAIN records /\ OpenFirst(t, e, "packet_retried")
           \/ t.packet \in DOMAIN records /\ Reopen(t, e)
    BY <1>1, <1>5 DEF Retry, Refuse, Returns
  <2>2. QED
    BY <1>1, <2>1, OpenFirstTells, ReopenTells
<1>6. ASSUME NEW p \in Packets, NEW k \in Acks, NEW e \in Epochs, Confirm(p, k, e)
      PROVE  \E ev : Tells(ev)
  <2>1. /\ Running /\ p \in DOMAIN records
        /\ \/ CountDuplicate(p, k, e)
           \/ records[p].confirmed_status # "settled" /\ Settle(p, k, e)
    BY <1>1, <1>6 DEF Confirm, Refuse, ConfirmError, Returns
  <2>2. QED
    BY <1>1, <2>1, CountDuplicateTells, SettleTells
<1>7. ASSUME NEW p \in Packets, NEW e \in Epochs, NEW force \in BOOLEAN, Cancel(p, e, force)
      PROVE  \E ev : Tells(ev)
  <2>1. /\ Running /\ p \in DOMAIN records /\ records[p].observed_status = "open"
        /\ Release(p, e)
    BY <1>1, <1>7 DEF Cancel, Refuse, CancelError, Returns
  <2>2. QED
    BY <1>1, <2>1, ReleaseTells
<1>8. ASSUME NEW e \in Epochs, Advance(e) \/ Snapshot(e) PROVE \E ev : Tells(ev)
  BY <1>1, <1>8, TickTells DEF Advance, Snapshot
<1>9. QED
  BY <1>1, <1>2, <1>3, <1>4, <1>5, <1>6, <1>7, <1>8 DEF Next

-----------------------------------------------------------------------------
(* The replay.                                                             *)

LEMMA ReplayedEmpty ==
  ASSUME NEW table, NEW p
  PROVE  Replayed(table, << >>, p) = Unseen
<1>1. << >> \in Seq({}) /\ Len(<< >>) = 0
  OBVIOUS
<1>2. PICK view : IsReplay(view, table, << >>, p) /\ Replayed(table, << >>, p) = view[0]
  BY <1>1, ReplayedDef
<1>3. QED
  BY <1>1, <1>2 DEF IsReplay

\* One more event: it is applied when it is about the packet, and only then.
LEMMA ReplayedAppend ==
  ASSUME NEW table, NEW p, NEW S, NEW log \in Seq(S), NEW ev \in S
  PROVE  Replayed(table, Append(log, ev), p)
           = IF ev.packet = p THEN Applied(table, Replayed(table, log, p), ev)
             ELSE Replayed(table, log, p)
<1> DEFINE long == Append(log, ev)
           n    == Len(log)
<1>1. /\ n \in Nat /\ long \in Seq(S) /\ Len(long) = n + 1 /\ long[n + 1] = ev
      /\ \A m \in 1 .. n : long[m] = log[m]
  OBVIOUS
<1> HIDE DEF long, n
<1>2. PICK f : IsReplay(f, table, log, p) /\ Replayed(table, log, p) = f[n]
  BY ReplayedDef DEF n
<1>3. PICK g : IsReplay(g, table, long, p) /\ Replayed(table, long, p) = g[n + 1]
  BY <1>1, ReplayedDef
<1>4. f[n] = g[n]
  <2>1. Len(log) = n
    BY DEF n
  <2>2. \A m \in 0 .. Len(log) : f[m] = g[m]
    <3>1. Len(log) \in Nat /\ Len(long) \in Nat /\ Len(log) <= Len(long) /\ \A m \in 1 .. Len(log) : long[m] = log[m]
      BY <1>1, <2>1
    <3>2. QED
      BY <1>2, <1>3, <3>1, ReplaysAgree
  <2>3. QED
    BY <1>1, <2>1, <2>2
<1>5. n + 1 \in 0 .. n + 1 /\ n + 1 # 0 /\ (n + 1) - 1 = n
  BY <1>1
<1>6. g[n + 1] = IF ev.packet = p THEN Applied(table, g[n], ev) ELSE g[n]
  BY <1>1, <1>3, <1>5 DEF IsReplay
<1>7. QED
  BY <1>2, <1>3, <1>4, <1>6 DEF long

\* The system's own events tell nothing of any packet.
LEMMA ReplayedQuiet ==
  ASSUME NEW table, NEW p, NEW S, NEW log \in Seq(S),
         \A i \in DOMAIN log : log[i].kind \in SystemKinds
  PROVE  Replayed(table, log, p) = Unseen
<1>1. PICK view : IsReplay(view, table, log, p) /\ Replayed(table, log, p) = view[Len(log)]
  BY ReplayedDef
<1> DEFINE T == {n \in 0 .. Len(log) : view[n] # Unseen}
<1>2. SUFFICES ASSUME T # {} PROVE FALSE
  <2>1. Len(log) \in 0 .. Len(log)
    OBVIOUS
  <2>2. QED
    BY <1>1, <2>1
<1>3. T \subseteq Nat
  OBVIOUS
<1>4. PICK n \in T : \A m \in T : n <= m
  <2> HIDE DEF T
  <2>1. QED
    BY <1>2, <1>3, LeastNatural
<1>5. n \in 0 .. Len(log) /\ view[n] # Unseen
  OBVIOUS
<1>6. view[n] = IF n = 0 THEN Unseen
                ELSE IF log[n].packet = p THEN Applied(table, view[n - 1], log[n])
                ELSE view[n - 1]
  BY <1>1, <1>5 DEF IsReplay
<1>7. n # 0 /\ n - 1 \in 0 .. Len(log) /\ n - 1 \notin T /\ n \in DOMAIN log
  BY <1>4, <1>5, <1>6
<1>8. view[n - 1] = Unseen
  BY <1>7
<1>9. Applied(table, Unseen, log[n]) = Unseen
  BY <1>7 DEF Applied, SystemKinds
<1>10. QED
  BY <1>5, <1>6, <1>7, <1>8, <1>9

-----------------------------------------------------------------------------
(* The counters.                                                           *)

\* The places of some kinds in a log with one more event.
LEMMA OfKindsAppend ==
  ASSUME NEW log \in Seq(EventType), NEW ev \in EventType, NEW kinds
  PROVE  LET n == Len(log) + 1 IN
         /\ OfKinds(Append(log, ev), kinds)
              = IF ev.kind \in kinds THEN OfKinds(log, kinds) \cup {n} ELSE OfKinds(log, kinds)
         /\ n \notin OfKinds(log, kinds)
         /\ IsFiniteSet(OfKinds(log, kinds)) /\ OfKinds(log, kinds) \subseteq DOMAIN log
<1> DEFINE n    == Len(log) + 1
           long == Append(log, ev)
<1>1. /\ DOMAIN log = 1 .. n - 1 /\ DOMAIN long = DOMAIN log \cup {n} /\ n \in Nat
      /\ \A i \in DOMAIN log : long[i] = log[i]
      /\ long[n] = ev
  OBVIOUS
<1>2. IsFiniteSet(DOMAIN log)
  BY <1>1, FS_Interval
<1>3. OfKinds(log, kinds) \subseteq DOMAIN log /\ IsFiniteSet(OfKinds(log, kinds))
  BY <1>2, FS_Subset DEF OfKinds
<1> HIDE DEF long, n
<1>4. OfKinds(long, kinds)
        = IF ev.kind \in kinds THEN OfKinds(log, kinds) \cup {n} ELSE OfKinds(log, kinds)
  BY <1>1 DEF OfKinds
<1>5. n \notin DOMAIN log
  BY <1>1
<1>6. QED
  BY <1>3, <1>4, <1>5 DEF long, n

LEMMA CounterAppend ==
  ASSUME NEW log \in Seq(EventType), NEW ev \in EventType, NEW kind
  PROVE  /\ Counter(Append(log, ev), kind)
              = Counter(log, kind) + (IF ev.kind = kind THEN 1 ELSE 0)
         /\ Counter(log, kind) \in Nat
<1> DEFINE n == Len(log) + 1
           C == OfKinds(log, {kind})
           D == OfKinds(Append(log, ev), {kind})
<1>1. /\ D = IF ev.kind = kind THEN C \cup {n} ELSE C
      /\ n \notin C /\ IsFiniteSet(C)
  BY OfKindsAppend
<1> HIDE DEF n, C, D
<1>2. Cardinality(C) \in Nat /\ Cardinality(C \cup {n}) = Cardinality(C) + 1
  BY <1>1, FS_CardinalityType, FS_AddElement
<1>3. Counter(log, kind) = Cardinality(C) /\ Counter(Append(log, ev), kind) = Cardinality(D)
  BY DEF Counter, C, D
<1>4. QED
  BY <1>1, <1>2, <1>3

LEMMA AmountAppend ==
  ASSUME NEW log \in Seq(EventType), NEW ev \in EventType, NEW kind
  PROVE  /\ AmountOf(Append(log, ev), kind)
              = AmountOf(log, kind) + (IF ev.kind = kind THEN ev.amount ELSE 0)
         /\ AmountOf(log, kind) \in Nat
<1> DEFINE n    == Len(log) + 1
           long == Append(log, ev)
           C    == OfKinds(log, {kind})
           D    == OfKinds(long, {kind})
           w    == [i \in DOMAIN log |-> log[i].amount]
           v    == [i \in DOMAIN long |-> long[i].amount]
<1>1. /\ D = IF ev.kind = kind THEN C \cup {n} ELSE C
      /\ n \notin C /\ IsFiniteSet(C) /\ C \subseteq DOMAIN log
  BY OfKindsAppend
<1>2. \A e \in EventType : e.amount \in Nat
  BY MaxAmountAssumption DEF EventType, Amount
<1>3. /\ \A i \in DOMAIN log : w[i] \in Nat /\ v[i] = w[i]
      /\ v[n] = ev.amount /\ v[n] \in Nat
  <2>1. /\ DOMAIN long = DOMAIN log \cup {n}
        /\ \A i \in DOMAIN log : long[i] = log[i] /\ log[i] \in EventType
        /\ long[n] = ev
    OBVIOUS
  <2> HIDE DEF long, n
  <2>2. QED
    BY <1>2, <2>1
<1>4. AmountOf(log, kind) = Total(C, w) /\ AmountOf(long, kind) = Total(D, v)
  BY DEF AmountOf
<1> HIDE DEF n, long, C, D, w, v
<1>5. Total(C, v) = Total(C, w) /\ Total(C, w) \in Nat
  BY <1>1, <1>3, TotalSame, TotalType
<1>6. Total(C \cup {n}, v) = Total(C, v) + v[n]
  BY <1>1, <1>3, TotalAdd
<1>7. QED
  BY <1>1, <1>3, <1>4, <1>5, <1>6 DEF long

\* Putting a record adds it to the settled ones, or leaves these as they are.
LEMMA SettledAfterPut ==
  ASSUME NEW R, DOMAIN R \subseteq Packets, NEW p \in Packets, NEW r
  PROVE  LET Q == Put(R, p, r) IN
         /\ Cardinality(Settled(R)) \in Nat
         /\ IsSettled(r) /\ p \in DOMAIN R /\ ~IsSettled(R[p]) =>
              Cardinality(Settled(Q)) = Cardinality(Settled(R)) + 1
         /\ (IsSettled(r) <=> p \in DOMAIN R /\ IsSettled(R[p])) =>
              Cardinality(Settled(Q)) = Cardinality(Settled(R))
<1> DEFINE Q == Put(R, p, r)
<1>1. IsFiniteSet(Settled(R)) /\ Cardinality(Settled(R)) \in Nat
  <2>1. Settled(R) \subseteq Packets
    BY DEF Settled
  <2>2. QED
    BY <2>1, EngineAssumption, FS_Subset, FS_CardinalityType
<1>2. /\ DOMAIN Q = DOMAIN R \cup {p} /\ Q[p] = r
      /\ \A x \in DOMAIN R : x # p => Q[x] = R[x]
  BY DEF Put
<1> HIDE DEF Q
<1>3. CASE IsSettled(r) /\ p \in DOMAIN R /\ ~IsSettled(R[p])
  <2>1. Settled(Q) = Settled(R) \cup {p} /\ p \notin Settled(R)
    BY <1>2, <1>3 DEF Settled
  <2>2. QED
    BY <1>1, <1>3, <2>1, FS_AddElement DEF Q
<1>4. CASE IsSettled(r) <=> p \in DOMAIN R /\ IsSettled(R[p])
  <2>1. Settled(Q) = Settled(R)
    BY <1>2, <1>4 DEF Settled
  <2>2. QED
    BY <1>1, <1>4, <2>1 DEF Q
<1>5. QED
  BY <1>1, <1>3, <1>4 DEF Q

-----------------------------------------------------------------------------
(* The log as a story.                                                     *)

\* What the counters of the log are equal to.
LogCounts ==
  failure = "none" =>
    /\ Counter(events, "packet_confirmed") = Cardinality(Settled(records))
    /\ Counter(events, "duplicate_confirmation") = duplicate_confirmations
    /\ AmountOf(events, "packet_confirmed") = total_settled
    /\ AmountOf(events, "account_seeded") = total_seeded

\* The system's own events are named for it, the others for a packet that is
\* there; every packet has one, and none before everything is registered.
LogNames ==
  failure = "none" =>
    /\ \A i \in DOMAIN events :
         IF events[i].kind \in SystemKinds THEN events[i].packet = "system"
         ELSE events[i].packet \in DOMAIN records /\ Loaded
    /\ \A p \in DOMAIN records :
         \E i \in DOMAIN events : events[i].packet = p /\ events[i].kind \notin SystemKinds

\* No event is later than the last one, which has the engine's epoch, and the
\* epochs only start to move when everything is registered.
LogEpochs ==
  failure = "none" =>
    /\ ~Loaded => epoch = StartEpoch
    /\ \A i \in DOMAIN events : events[i].epoch <= epoch
    /\ events = << >> => seeded = {} /\ DOMAIN lanes = {}
    /\ events # << >> =>
         /\ events[Len(events)].epoch = epoch
         /\ DOMAIN Seed # {} \/ DeclaredLanes # {} => events[1].epoch = StartEpoch

StoryInv == IInv /\ LogCounts /\ LogNames /\ LogEpochs /\ LogReplays

LEMMA CountsStep ==
  ASSUME StoryInv, failure = "none", NEW ev, Tells(ev)
  PROVE  LogCounts'
<1>1. /\ events \in Seq(EventType) /\ events' = Append(events, ev) /\ ev \in EventType
      /\ DOMAIN records \subseteq Packets /\ total_settled \in Nat /\ total_seeded \in Nat
      /\ duplicate_confirmations \in Nat
  BY AmountTypes, EngineAssumption DEF StoryInv, IInv, TypeOK, EventType, Tells
<1>2. /\ Counter(events, "packet_confirmed") = Cardinality(Settled(records))
      /\ Counter(events, "duplicate_confirmation") = duplicate_confirmations
      /\ AmountOf(events, "packet_confirmed") = total_settled
      /\ AmountOf(events, "account_seeded") = total_seeded
  BY DEF StoryInv, LogCounts
<1>3. \A kind :
        /\ Counter(events', kind) = Counter(events, kind) + (IF ev.kind = kind THEN 1 ELSE 0)
        /\ AmountOf(events', kind) = AmountOf(events, kind)
                                       + (IF ev.kind = kind THEN ev.amount ELSE 0)
  BY <1>1, CounterAppend, AmountAppend
<1>4. CASE Announces(ev)
  <2>1. ev.kind # "packet_confirmed" /\ ev.kind # "duplicate_confirmation"
    BY <1>4 DEF Announces, SystemKinds
  <2>2. /\ records' = records /\ total_settled' = total_settled
        /\ duplicate_confirmations' = duplicate_confirmations
        /\ total_seeded' = total_seeded + (IF ev.kind = "account_seeded" THEN ev.amount ELSE 0)
    BY <1>4 DEF Announces
  <2>3. Cardinality(Settled(records)) \in Nat
    BY <1>1, <1>2, CounterAppend
  <2>4. QED
    BY <1>1, <1>2, <1>3, <2>1, <2>2, <2>3 DEF LogCounts
<1>5. CASE Speaks(ev)
  <2>1. PICK r \in Record :
          /\ records' = Put(records, ev.packet, r)
          /\ IF ev.kind = "packet_confirmed"
             THEN IsSettled(r) /\ ev.packet \in DOMAIN records /\ ~IsSettled(records[ev.packet])
             ELSE IsSettled(r) <=> ev.packet \in DOMAIN records /\ IsSettled(records[ev.packet])
    BY <1>5 DEF Speaks
  <2>2. ev.packet \in Packets /\ ev.kind # "account_seeded" /\ total_seeded' = total_seeded
        /\ total_settled' = total_settled + (IF ev.kind = "packet_confirmed" THEN ev.amount ELSE 0)
        /\ duplicate_confirmations' = duplicate_confirmations
                                        + (IF ev.kind = "duplicate_confirmation" THEN 1 ELSE 0)
    BY <1>5 DEF Speaks, SystemKinds
  <2>3. Cardinality(Settled(records'))
          = Cardinality(Settled(records)) + (IF ev.kind = "packet_confirmed" THEN 1 ELSE 0)
    BY <1>1, <2>1, <2>2, SettledAfterPut
  <2>4. QED
    BY <1>1, <1>2, <1>3, <2>2, <2>3 DEF LogCounts
<1>6. QED
  BY <1>4, <1>5 DEF Tells

\* The places of a log with one more event.
LEMMA AppendProps ==
  ASSUME NEW log \in Seq(EventType), NEW ev \in EventType
  PROVE  LET n == Len(log) + 1 IN
         /\ n \in Nat /\ Len(Append(log, ev)) = n /\ Append(log, ev) # << >>
         /\ DOMAIN Append(log, ev) = DOMAIN log \cup {n} /\ Append(log, ev)[n] = ev
         /\ \A i \in DOMAIN log : Append(log, ev)[i] = log[i]
         /\ IF log = << >> THEN n = 1 ELSE 1 \in DOMAIN log
<1> DEFINE n    == Len(log) + 1
           long == Append(log, ev)
<1>1. n \in Nat /\ Len(long) = n /\ DOMAIN log = 1 .. Len(log) /\ DOMAIN long = 1 .. n
  OBVIOUS
<1>2. long[n] = ev /\ \A i \in DOMAIN log : long[i] = log[i]
  OBVIOUS
<1>3. long # << >>
  BY <1>1
<1>4. DOMAIN long = DOMAIN log \cup {n}
  BY <1>1
<1>5. IF log = << >> THEN n = 1 ELSE 1 \in DOMAIN log
  OBVIOUS
<1>6. QED
  BY <1>1, <1>2, <1>3, <1>4, <1>5

LEMMA NamesStep ==
  ASSUME StoryInv, failure = "none", NEW ev, Tells(ev)
  PROVE  LogNames'
<1> DEFINE n == Len(events) + 1
<1>1. events \in Seq(EventType) /\ events' = Append(events, ev) /\ ev \in EventType
  BY DEF StoryInv, IInv, TypeOK, EventType, Tells
<1>2. /\ DOMAIN events' = DOMAIN events \cup {n} /\ events'[n] = ev
      /\ \A i \in DOMAIN events : events'[i] = events[i]
  BY <1>1, AppendProps
<1> HIDE DEF n
<1>3. /\ \A i \in DOMAIN events :
           IF events[i].kind \in SystemKinds THEN events[i].packet = "system"
           ELSE events[i].packet \in DOMAIN records /\ Loaded
      /\ \A p \in DOMAIN records :
           \E i \in DOMAIN events : events[i].packet = p /\ events[i].kind \notin SystemKinds
  BY DEF StoryInv, LogNames
<1>4. CASE Announces(ev)
  <2>1. ev.kind \in SystemKinds /\ ev.packet = "system" /\ records' = records /\ (Loaded => Loaded')
    BY <1>4 DEF Announces, Loaded
  <2>2. QED
    BY <1>2, <1>3, <2>1 DEF LogNames
<1>5. CASE Speaks(ev)
  <2>1. /\ ev.kind \notin SystemKinds /\ Loaded /\ Loaded'
        /\ \E r : records' = Put(records, ev.packet, r)
    BY <1>5 DEF Speaks, Loaded
  <2>2. DOMAIN records' = DOMAIN records \cup {ev.packet}
    BY <2>1 DEF Put
  <2>3. QED
    BY <1>2, <1>3, <2>1, <2>2 DEF LogNames
<1>6. QED
  BY <1>4, <1>5 DEF Tells

LEMMA EpochsStep ==
  ASSUME StoryInv, failure = "none", NEW ev, Tells(ev)
  PROVE  LogEpochs'
<1> DEFINE n == Len(events) + 1
<1>1. /\ events \in Seq(EventType) /\ events' = Append(events, ev) /\ ev \in EventType
      /\ epoch \in Epochs /\ ev.epoch \in Epochs
  BY DEF StoryInv, IInv, TypeOK, EventType, Tells
<1>2. /\ DOMAIN events' = DOMAIN events \cup {n} /\ events'[n] = ev /\ Len(events') = n
      /\ \A i \in DOMAIN events : events'[i] = events[i] /\ events[i].epoch \in Epochs
      /\ events' # << >>
      /\ IF events = << >> THEN n = 1 ELSE 1 \in DOMAIN events
  <2>1. \A i \in DOMAIN events : events[i].epoch \in Epochs
    <3>1. \A i \in DOMAIN events : events[i] \in EventType
      BY <1>1
    <3>2. QED
      BY <3>1 DEF EventType
  <2>2. QED
    BY <1>1, <2>1, AppendProps
<1> HIDE DEF n
<1>3. Epochs \subseteq Int /\ epoch' \in Int
  BY <1>1, EpochTypes DEF Tells
<1>4. /\ ~Loaded => epoch = StartEpoch
      /\ \A i \in DOMAIN events : events[i].epoch <= epoch
      /\ events = << >> => seeded = {} /\ DOMAIN lanes = {}
      /\ events # << >> =>
           (DOMAIN Seed # {} \/ DeclaredLanes # {} => events[1].epoch = StartEpoch)
  BY DEF StoryInv, LogEpochs
<1>5. /\ ev.epoch = epoch' /\ epoch <= epoch'
      /\ \/ ~Loaded /\ epoch' = epoch
         \/ Loaded /\ Loaded'
  BY DEF Tells, Announces, Speaks, Loaded
<1>6. \A i \in DOMAIN events' : events'[i].epoch <= epoch'
  <2>1. ASSUME NEW i \in DOMAIN events
        PROVE  events'[i].epoch <= epoch'
    <3>1. events'[i].epoch = events[i].epoch /\ events[i].epoch \in Int /\ epoch \in Int
      BY <1>1, <1>2, <1>3
    <3>2. events[i].epoch <= epoch /\ epoch <= epoch'
      BY <1>4, <1>5
    <3>3. QED
      BY <1>3, <3>1, <3>2
  <2>2. events'[n].epoch <= epoch'
    <3>1. events'[n].epoch = epoch'
      BY <1>2, <1>5
    <3>2. QED
      BY <1>3, <3>1
  <2>3. QED
    BY <1>2, <2>1, <2>2
<1>7. DOMAIN Seed # {} \/ DeclaredLanes # {} => events'[1].epoch = StartEpoch
  BY <1>2, <1>4, <1>5 DEF Loaded
<1>8. QED
  BY <1>2, <1>4, <1>5, <1>6, <1>7 DEF LogEpochs

\* While something is still to be registered, the log is the system's own.
LEMMA ReplaysStep ==
  ASSUME StoryInv, failure = "none", NEW ev, Tells(ev)
  PROVE  LogReplays'
<1>1. /\ events \in Seq(EventType) /\ events' = Append(events, ev) /\ ev \in EventType
      /\ events' \in Seq(EventType)
  <2>1. events \in Seq(EventType) /\ events' = Append(events, ev) /\ ev \in EventType
    BY DEF StoryInv, IInv, TypeOK, EventType, Tells
  <2>2. QED
    BY <2>1
<1>2. \A p \in Packets : Replayed(lanes, events, p) = Told(p)
  BY DEF StoryInv, LogReplays, Told
<1>3. \A p \in Packets :
        Replayed(lanes, events', p) = IF ev.packet = p THEN Applied(lanes, Told(p), ev) ELSE Told(p)
  BY <1>1, <1>2, ReplayedAppend
<1>4. CASE Announces(ev) /\ Loaded
  <2>1. records' = records /\ lanes' = lanes /\ ev.kind \in SystemKinds
    BY <1>4 DEF Announces
  <2>2. \A view : Applied(lanes, view, ev) = view
    BY <2>1 DEF Applied, SystemKinds
  <2>3. QED
    BY <1>3, <2>1, <2>2 DEF LogReplays, Told
<1>5. CASE Announces(ev) /\ ~Loaded
  <2>1. \A i \in DOMAIN events : events[i].kind \in SystemKinds
    BY <1>5 DEF StoryInv, LogNames
  <2>2. \A i \in DOMAIN events' : events'[i].kind \in SystemKinds
    BY <1>1, <1>5, <2>1, AppendProps DEF Announces
  <2>3. \A p \in Packets : Replayed(lanes', events', p) = Unseen
    BY <1>1, <2>2, ReplayedQuiet
  <2>4. DOMAIN records' = {}
    BY <1>5, <2>1 DEF Announces, StoryInv, LogNames
  <2>5. QED
    BY <2>3, <2>4 DEF LogReplays
<1>6. CASE Speaks(ev)
  <2>1. PICK r \in Record : /\ records' = Put(records, ev.packet, r)
                            /\ Seen(r) = Applied(lanes, Told(ev.packet), ev)
    BY <1>6 DEF Speaks
  <2>2. /\ DOMAIN records' = DOMAIN records \cup {ev.packet} /\ records'[ev.packet] = r
        /\ \A x \in DOMAIN records : x # ev.packet => records'[x] = records[x]
    BY <2>1 DEF Put
  <2>3. lanes' = lanes
    BY <1>6 DEF Speaks
  <2>4. ASSUME NEW p \in Packets
        PROVE  Replayed(lanes', events', p) = IF p \in DOMAIN records' THEN Seen(records'[p]) ELSE Unseen
    BY <1>3, <2>1, <2>2, <2>3 DEF Told
  <2>5. QED
    BY <2>4 DEF LogReplays
<1>7. QED
  BY <1>4, <1>5, <1>6 DEF Tells

LEMMA StoryStep ==
  StoryInv /\ [Next]_vars => StoryInv'
<1> SUFFICES ASSUME StoryInv, [Next]_vars PROVE StoryInv'
  OBVIOUS
<1>1. IInv /\ IInv'
  BY InvStep DEF StoryInv
<1>2. CASE Next /\ failure' # "none"
  BY <1>1, <1>2 DEF StoryInv, LogCounts, LogNames, LogEpochs, LogReplays
<1>3. CASE Next /\ failure' = "none"
  <2>1. PICK ev : Tells(ev) /\ failure = "none"
    BY <1>1, <1>3, NextTells
  <2>2. QED
    BY <1>1, <2>1, CountsStep, NamesStep, EpochsStep, ReplaysStep DEF StoryInv
<1>4. CASE UNCHANGED vars
  BY <1>1, <1>4 DEF vars, totals, StoryInv, LogCounts, LogNames, LogEpochs, LogReplays, Loaded
<1>5. QED
  BY <1>2, <1>3, <1>4

LEMMA StoryInit ==
  Init => StoryInv
<1> SUFFICES ASSUME Init PROVE StoryInv
  OBVIOUS
<1>1. /\ DOMAIN events = {} /\ DOMAIN records = {} /\ seeded = {} /\ DOMAIN lanes = {}
      /\ epoch = StartEpoch /\ total_seeded = 0 /\ total_settled = 0
      /\ duplicate_confirmations = 0 /\ events = << >>
  BY DEF Init
<1>2. \A kind : Counter(events, kind) = 0 /\ AmountOf(events, kind) = 0
  <2>1. \A kind : OfKinds(events, {kind}) = {}
    BY <1>1 DEF OfKinds
  <2>2. QED
    BY <2>1, FS_EmptySet, TotalEmpty DEF Counter, AmountOf
<1>3. Cardinality(Settled(records)) = 0
  <2>1. Settled(records) = {}
    BY <1>1 DEF Settled
  <2>2. QED
    BY <2>1, FS_EmptySet
<1>4. LogReplays
  BY <1>1, ReplayedEmpty DEF LogReplays
<1>5. IInv
  BY InvInit
<1>6. QED
  BY <1>1, <1>2, <1>3, <1>4, <1>5 DEF StoryInv, LogCounts, LogNames, LogEpochs

LEMMA StoryAlways ==
  Spec => []StoryInv
<1>1. QED
  BY StoryInit, StoryStep, PTL DEF Spec

\* The event log alone explains every record: whoever reads it from the start,
\* with the lanes of the scenario, arrives at each packet's statuses, attempt,
\* lane, amount, epochs and timeout, whatever calls were made.
THEOREM ReplaysCorrect ==
  Spec => []LogReplays
<1>1. StoryInv => LogReplays
  BY DEF StoryInv
<1>2. QED
  BY <1>1, StoryAlways, PTL

\* The epochs of a log are those of its first and of its last event.
LEMMA StatsEpochs ==
  ASSUME StoryInv, failure = "none", events # << >>
  PROVE  /\ Stats(events).last_epoch = epoch
         /\ DOMAIN Seed # {} \/ DeclaredLanes # {} => Stats(events).first_epoch = StartEpoch
<1> DEFINE E == {events[i].epoch : i \in DOMAIN events}
<1>1. events \in Seq(EventType) /\ epoch \in Epochs /\ StartEpoch \in Nat
  BY EngineAssumption DEF StoryInv, IInv, TypeOK, EventType
<1>2. /\ 1 \in DOMAIN events /\ Len(events) \in DOMAIN events
  BY <1>1
<1>3. \A i \in DOMAIN events : events[i].epoch \in Int /\ StartEpoch <= events[i].epoch
  <2>1. \A i \in DOMAIN events : events[i] \in EventType
    BY <1>1
  <2>2. \A i \in DOMAIN events : events[i].epoch \in Epochs
    BY <2>1 DEF EventType
  <2>3. QED
    BY <2>2, EpochTypes
<1>4. /\ \A i \in DOMAIN events : events[i].epoch <= epoch
      /\ events[Len(events)].epoch = epoch
      /\ DOMAIN Seed # {} \/ DeclaredLanes # {} => events[1].epoch = StartEpoch
  BY DEF StoryInv, LogEpochs
<1>5. E \subseteq Int /\ epoch \in E /\ \A x \in E : StartEpoch <= x /\ x <= epoch
  BY <1>2, <1>3, <1>4
<1> HIDE DEF E
<1>6. Max(E) = epoch
  <2>1. epoch \in E /\ \A y \in E : epoch >= y
    BY <1>5
  <2>2. Max(E) \in E /\ \A y \in E : Max(E) >= y
    BY <2>1 DEF Max
  <2>3. Max(E) >= epoch /\ epoch >= Max(E) /\ Max(E) \in Int /\ epoch \in Int
    BY <1>5, <2>2
  <2>4. QED
    BY <2>3
<1>7. StartEpoch \in E => Min(E) = StartEpoch
  <2>1. SUFFICES ASSUME StartEpoch \in E PROVE Min(E) = StartEpoch
    OBVIOUS
  <2>2. Min(E) \in E /\ \A y \in E : Min(E) <= y
    BY <1>5, <2>1 DEF Min
  <2>3. Min(E) <= StartEpoch /\ StartEpoch <= Min(E) /\ Min(E) \in Int /\ StartEpoch \in Int
    BY <1>5, <2>1, <2>2
  <2>4. QED
    BY <2>3
<1>8. DOMAIN Seed # {} \/ DeclaredLanes # {} => StartEpoch \in E
  BY <1>2, <1>4 DEF E
<1>9. Stats(events).last_epoch = Max(E) /\ Stats(events).first_epoch = Min(E)
  BY DEF Stats, E
<1>10. QED
  BY <1>6, <1>7, <1>8, <1>9

\* The events named for the system are its own unless a packet has that name.
LEMMA StatsNames ==
  ASSUME StoryInv, failure = "none"
  PROVE  /\ Stats(events).packet_events + Stats(events).system_events = Len(events)
         /\ Stats(events).system_events = Cardinality(OfKinds(events, SystemKinds))
              <=> "system" \notin DOMAIN records
<1> DEFINE D == DOMAIN events
           F == ForPacket(events, "system")
           O == OfKinds(events, SystemKinds)
<1>1. IsFiniteSet(D) /\ Cardinality(D) = Len(events)
  <2>1. events \in Seq(EventType)
    BY DEF StoryInv, IInv, TypeOK, EventType
  <2>2. D = 1 .. Len(events) /\ Len(events) \in Nat
    BY <2>1
  <2>3. /\ IsFiniteSet(1 .. Len(events))
        /\ Cardinality(1 .. Len(events)) = IF 1 > Len(events) THEN 0 ELSE Len(events) - 1 + 1
    BY <2>2, FS_Interval
  <2>4. QED
    BY <2>2, <2>3
<1>2. F \subseteq D /\ O \subseteq F
  BY DEF StoryInv, LogNames, ForPacket, OfKinds
<1>3. F = O <=> "system" \notin DOMAIN records
  BY DEF StoryInv, LogNames, ForPacket, OfKinds
<1>4. Stats(events).packet_events = Cardinality(D \ F) /\ Stats(events).system_events = Cardinality(F)
  BY DEF Stats
<1> HIDE DEF D, F, O
<1>5. /\ IsFiniteSet(F) /\ IsFiniteSet(O) /\ Cardinality(F) \in Nat
      /\ F # O => Cardinality(O) < Cardinality(F)
  <2>1. IsFiniteSet(F)
    BY <1>1, <1>2, FS_Subset
  <2>2. QED
    BY <1>2, <2>1, FS_Subset, FS_CardinalityType
<1>6. Cardinality(O) \in Nat
  BY <1>5, FS_CardinalityType
<1>7. Cardinality(D \ F) = Cardinality(D) - Cardinality(F)
  <2>1. D \cap F = F
    BY <1>2
  <2>2. QED
    BY <1>1, <2>1, FS_Difference
<1>8. QED
  BY <1>1, <1>3, <1>4, <1>5, <1>6, <1>7 DEF O, D

\* The counters that the replay block prints, and the amounts of the log, are the
\* totals that the engine keeps; its epochs are the first and the last there were,
\* and its split by the name "system" is wrong exactly for a packet of that name.
THEOREM ReconcilesCorrect ==
  Spec => []LogReconciles
<1>1. StoryInv => LogReconciles
  BY StatsEpochs, StatsNames DEF StoryInv, LogCounts, LogReconciles
<1>2. QED
  BY <1>1, StoryAlways, PTL
=============================================================================
