------------------------------- MODULE Loader -------------------------------
(***************************************************************************)
(* The scenario loader (scenario/loader.cpp) on a value that JsonText has  *)
(* read, with the identifiers of domain/ids.cpp and the names that         *)
(* domain/model.cpp knows, and what the schema (scenario/schema.cpp) asks  *)
(* of the loaded scenario as a whole.  Each "...Loads" says whether the    *)
(* reader of that name throws, each "...Of" what it returns if it does     *)
(* not.  Memos and notes, which nothing reads back, are only checked.      *)
(***************************************************************************)
EXTENDS JsonText

CONSTANTS
  Words,        \* the characters, or words of them, that are letters and digits only
  MaxIdLength,  \* bound: stands for the 96 characters an identifier may have
  DefaultMax    \* bound: stands for the 9 000 000 000 units a packet may have by default

ASSUME LoaderAssumption == MaxIdLength \in Nat /\ DefaultMax \in Nat

-----------------------------------------------------------------------------
(* Identifiers and names.                                                  *)

\* Faulty variant: an identifier may hold whatever a string may.
AllowedCharsAny == Words \cup {"-", "_", ".", ":", "|", "=", "quote", "backslash"}

AllowedChars == Words \cup {"-", "_", ".", ":"}

\* validate_identifier
ValidId(chars) == Len(chars) \in 1 .. MaxIdLength /\ ToSet(chars) \subseteq AllowedChars

\* to_lower, of the words that have capitals.
LowerCase == [Submit |-> "submit", CONFIRM |-> "confirm", High |-> "high"]
Lower(chars) == [i \in DOMAIN chars |->
                   IF chars[i] \in DOMAIN LowerCase THEN LowerCase[chars[i]] ELSE chars[i]]

ActionTypes == {<<"submit">>, <<"confirm">>, <<"cancel">>, <<"retry">>, <<"advance">>, <<"snapshot">>}
PriorityNames == {<<"low">>, <<"normal">>, <<"high">>, <<"critical">>}

-----------------------------------------------------------------------------
(* Members of a declared type.                                             *)

RequiresId(v, field) == Requires(v, field, "str") /\ ValidId(Field(v, field)[2])

\* amount_from_i64
RequiresAmount(v, field) == Requires(v, field, "num") /\ Field(v, field)[2] >= 0

AllowsAmount(v, field) ==
  Allows(v, field, "num") /\ (Given(v, field) => Field(v, field)[2] >= 0)

Every(items, Loads(_)) == \A i \in DOMAIN items : Loads(items[i])
Each(items, Of(_)) == [i \in DOMAIN items |-> Of(items[i])]

-----------------------------------------------------------------------------
(* Accounts and lanes.                                                     *)

BalanceLoads(v) == RequiresId(v, "asset") /\ RequiresAmount(v, "available")

BalanceOf(v) == [asset |-> Field(v, "asset")[2], available |-> Field(v, "available")[2]]

\* Without "balances" the account is its own only balance; a null is not "without".
AccountLoads(v) ==
  /\ RequiresId(v, "id")
  /\ IF Has(v, "balances")
     THEN Requires(v, "balances", "arr") /\ Every(Field(v, "balances")[2], BalanceLoads)
     ELSE BalanceLoads(v)

AccountOf(v) ==
  [id |-> Field(v, "id")[2],
   balances |-> IF Has(v, "balances") THEN Each(Field(v, "balances")[2], BalanceOf)
                ELSE <<BalanceOf(v)>>]

\* Whatever a policy does not give has its default, and one that is no object gives nothing.
PolicyLoads(v) ==
  /\ \A f \in {"timeoutEpochs", "feeBps", "maxRetries"} : Allows(v, f, "num")
  /\ AllowsAmount(v, "maxPacketAmount") /\ AllowsAmount(v, "minPacketAmount")
  /\ \A f \in {"allowManualCancel", "requireUniqueAck", "closeOnFirstConfirmation"} :
       Allows(v, f, "bool")

PolicyOf(v) ==
  [timeout_epochs |-> Optional(v, "timeoutEpochs", 3),
   fee_bps |-> Optional(v, "feeBps", 0),
   max_retries |-> Optional(v, "maxRetries", 1),
   max_packet_amount |-> Optional(v, "maxPacketAmount", DefaultMax),
   min_packet_amount |-> Optional(v, "minPacketAmount", 0),
   allow_manual_cancel |-> Optional(v, "allowManualCancel", TRUE),
   require_unique_ack |-> Optional(v, "requireUniqueAck", TRUE)]

LaneLoads(v) ==
  /\ RequiresId(v, "id") /\ RequiresId(v, "asset")
  /\ Allows(v, "operator", "str") /\ ValidId(Optional(v, "operator", <<"operator">>))
  /\ Has(v, "policy") => PolicyLoads(Field(v, "policy"))

LaneOf(v) ==
  [id |-> Field(v, "id")[2], asset |-> Field(v, "asset")[2],
   operator_account |-> Optional(v, "operator", <<"operator">>),
   policy |-> PolicyOf(IF Has(v, "policy") THEN Field(v, "policy") ELSE Null)]

-----------------------------------------------------------------------------
(* Actions.                                                                *)

PriorityOf(v) == Lower(Optional(v, "priority", <<"normal">>))

TemplateLoads(v) ==
  /\ \A f \in {"id", "lane", "source", "recipient"} : RequiresId(v, f)
  /\ RequiresAmount(v, "amount")
  /\ Allows(v, "priority", "str") /\ PriorityOf(v) \in PriorityNames
  /\ Allows(v, "memo", "str")

TemplateOf(v) ==
  [id |-> Field(v, "id")[2], lane |-> Field(v, "lane")[2], source |-> Field(v, "source")[2],
   recipient |-> Field(v, "recipient")[2], amount |-> Field(v, "amount")[2],
   priority |-> PriorityOf(v)]

\* packet_id_from_action: the packet of a confirmation, by its id or as an object with one.
NamesPacket(v) ==
  \/ RequiresId(v, "packet")
  \/ Requires(v, "packet", "obj") /\ RequiresId(Field(v, "packet"), "id")

PacketNamed(v) ==
  IF Requires(v, "packet", "str") THEN Field(v, "packet")[2]
  ELSE Field(Field(v, "packet"), "id")[2]

TypeOf(v) == Lower(Field(v, "type")[2])

ActionLoads(v) ==
  /\ Requires(v, "type", "str") /\ TypeOf(v) \in ActionTypes
  /\ Allows(v, "epoch", "num") /\ Allows(v, "force", "bool") /\ Allows(v, "note", "str")
  /\ TypeOf(v) \in {<<"submit">>, <<"retry">>} =>
       Has(v, "packet") /\ TemplateLoads(Field(v, "packet"))
  /\ TypeOf(v) \in {<<"confirm">>, <<"cancel">>} => NamesPacket(v)
  /\ TypeOf(v) = <<"confirm">> => RequiresId(v, "ack")
  /\ TypeOf(v) = <<"advance">> => Allows(v, "targetEpoch", "num")

\* An action as the Action of Scenario, but for the force of other actions than cancel.
ActionOf(v) ==
  LET e == Optional(v, "epoch", 0)
      a == [type |-> TypeOf(v)[1], epoch |-> e]
  IN  CASE a.type \in {"submit", "retry"} -> a @@ [packet_template |-> TemplateOf(Field(v, "packet"))]
        [] a.type = "confirm" -> a @@ [packet |-> PacketNamed(v), ack |-> Field(v, "ack")[2]]
        [] a.type = "cancel"  -> a @@ [packet |-> PacketNamed(v), force |-> Optional(v, "force", FALSE)]
        [] a.type = "advance" -> a @@ [target_epoch |-> Optional(v, "targetEpoch", e)]
        [] OTHER -> a

-----------------------------------------------------------------------------
(* The scenario.                                                           *)

Items(v, field) == Field(v, field)[2]

ScenarioLoads(v) ==
  /\ Allows(v, "name", "str") /\ Allows(v, "startEpoch", "num")
  /\ \A f \in {"accounts", "lanes", "actions"} : Requires(v, f, "arr")
  /\ Every(Items(v, "accounts"), AccountLoads)
  /\ Every(Items(v, "lanes"), LaneLoads)
  /\ Every(Items(v, "actions"), ActionLoads)

ScenarioOf(v) ==
  [name |-> Optional(v, "name", <<"drift-scenario">>),
   start_epoch |-> Optional(v, "startEpoch", 0),
   accounts |-> Each(Items(v, "accounts"), AccountOf),
   lanes |-> Each(Items(v, "lanes"), LaneOf),
   actions |-> Each(Items(v, "actions"), ActionOf)]

-----------------------------------------------------------------------------
(* ScenarioSchema::inspect, of a whole scenario s.                         *)

Distinct(items, Key(_)) == \A i, j \in DOMAIN items : Key(items[i]) = Key(items[j]) => i = j
IdOf(item) == item.id
IdsOf(items) == {items[i].id : i \in DOMAIN items}

\* collect_accounts and collect_lanes
DeclarationsHold(s) ==
  /\ Distinct(s.accounts, IdOf) /\ Distinct(s.lanes, IdOf)
  /\ \A i \in DOMAIN s.accounts : Distinct(s.accounts[i].balances, LAMBDA b : b.asset)
  /\ \A i \in DOMAIN s.lanes : s.lanes[i].operator_account \in IdsOf(s.accounts)

\* The packets that the actions before the n-th have submitted.
SubmittedBefore(s, n) ==
  {s.actions[i].packet_template.id : i \in {j \in 1 .. n - 1 : s.actions[j].type = "submit"}}

TemplateDeclared(s, t) ==
  t.lane \in IdsOf(s.lanes) /\ {t.source, t.recipient} \subseteq IdsOf(s.accounts)

\* inspect_actions
ActionHolds(s, n) ==
  LET a == s.actions[n] IN
  /\ a.epoch >= (IF n = 1 THEN s.start_epoch ELSE s.actions[n - 1].epoch)
  /\ a.type \in {"submit", "retry"} => TemplateDeclared(s, a.packet_template)
  /\ a.type = "submit" => a.packet_template.id \notin SubmittedBefore(s, n)
  /\ a.type \in {"confirm", "cancel"} => a.packet \in SubmittedBefore(s, n)

SchemaAccepts(s) == DeclarationsHold(s) /\ \A n \in DOMAIN s.actions : ActionHolds(s, n)

\* from_json: what main goes on with.
Accepts(v) == ScenarioLoads(v) /\ SchemaAccepts(ScenarioOf(v))
=============================================================================
