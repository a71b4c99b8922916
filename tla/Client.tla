------------------------------- MODULE Client -------------------------------
(***************************************************************************)
(* The texts of Caller: what DriftClient (client/src/client.ts) writes and *)
(* parses, what the program (main.cpp) loads and prints, and what may have *)
(* happened to a file in between.  A configuration gives them to Caller:   *)
(*   Stringify <- ScenarioText, Loads <- TextLoads, Fits <- FundsFit,      *)
(*   Prints <- ReportText, Decodes <- OutputRead,                          *)
(*   Damages <- FileDamages, FilesOf <- DamagedFiles                       *)
(*                                                                         *)
(* What the engine does with an accepted scenario is the subject of other  *)
(* modules: here it may refuse it or report on it.  Of the report there is *)
(* what the caller can check against the scenario: the funds it declared,  *)
(* and with --events one event for each of them.                           *)
(***************************************************************************)
EXTENDS Caller, Loader, Receipts

CONSTANTS
  DamagedDocs,  \* the scenarios, of Docs, whose file may be damaged before a call
  Mantissa      \* stands for 2^53, up to which a double tells all integers apart

\* Rounding is spelled out for amounts up to twice the mantissa.
ASSUME ClientAssumption ==
  /\ DamagedDocs \subseteq Docs
  /\ Mantissa \in Nat /\ Mantissa % 4 = 0 /\ MaxAmount <= 2 * Mantissa
  /\ MaxBuffer \in Nat

-----------------------------------------------------------------------------
(* JavaScript's side of the texts.                                         *)

NaN  == <<"nan">>
Half == <<"half">>  \* a number that is no integer

\* JSON.stringify: what is not a number is written as null, and a fraction
\* as one, which the program does not read.
RECURSIVE Plain(_)
Plain(v) ==
  CASE v = NaN -> Null
    [] v = Half -> <<"numeral", <<"0", ".", "5">>>>
    [] v[1] = "arr" -> Arr([i \in DOMAIN v[2] |-> Plain(v[2][i])])
    [] v[1] = "obj" -> <<"obj", [k \in DOMAIN v[2] |-> Plain(v[2][k])]>>
    [] OTHER -> v

ScenarioText(doc) == Write(Plain(doc), FALSE)

\* An integer as a double: from Mantissa on to the nearest even one, and
\* from between two of those to the one that a further halving keeps even.
Rounded(n) == IF n <= Mantissa \/ n % 2 = 0 THEN n ELSE IF n % 4 = 1 THEN n - 1 ELSE n + 1

\* JSON.parse of a text of the program.
RECURSIVE AsDoubles(_)
AsDoubles(v) ==
  CASE v[1] = "num" -> Num(Rounded(v[2]))
    [] v[1] = "arr" -> Arr([i \in DOMAIN v[2] |-> AsDoubles(v[2][i])])
    [] v[1] = "obj" -> <<"obj", [k \in DOMAIN v[2] |-> AsDoubles(v[2][k])]>>
    [] OTHER -> v

-----------------------------------------------------------------------------
(* What the program prints.                                                *)

SumOf(items, Of(_)) == FoldLeft(LAMBDA sum, item : sum + Of(item), 0, items)
Declared(s) == SumOf(s.accounts, LAMBDA a : SumOf(a.balances, LAMBDA b : b.available))
Balances(s) == SumOf(s.accounts, LAMBDA a : Len(a.balances))

\* JsonReport::build, of an engine that was given scenario s.
ReportOf(s, events) ==
  LET summary == Obj([totalSeeded |-> Num(Declared(s))])
      seeds   == Arr([i \in 1 .. Balances(s) |-> Str(<<"account_seeded">>)])
  IN  IF events THEN Obj([ok |-> Bool(TRUE), summary |-> summary, events |-> seeds])
      ELSE Obj([ok |-> Bool(TRUE), summary |-> summary])

ScenarioIn(text) == ScenarioOf(Parse(text).value)

\* main up to the loaded scenario.
TextLoads(text) == Parse(text).ok /\ Accepts(Parse(text).value)

FundsFit(text) == AddFits(Declared(ScenarioIn(text)), 0)

ReportText(kind, events, text) ==
  IF kind = "validate" THEN <<Str(<<"ok">>), Blank>>
  ELSE Write(ReportOf(ScenarioIn(text), events), FALSE) \o <<Blank>>

\* String.prototype.trim
Trim(text) == SelectSeq(text, LAMBDA tok : tok # Blank)

\* validate trims the output, run parses it.
OutputRead(kind, text) ==
  LET root == Parse(text)
  IN  IF kind = "validate" THEN [ok |-> TRUE, value |-> Trim(text)]
      ELSE IF root.ok THEN [ok |-> TRUE, value |-> AsDoubles(root.value)] ELSE root

-----------------------------------------------------------------------------
(* The files that callers name.  An editor or a copy may have cut one off, *)
(* lost a piece of it or pasted a piece of it twice: one token, or a whole *)
(* member with its comma.  Digits would join to a number that is longer.   *)

Cuts(t) == {SubSeq(t, 1, n) : n \in 0 .. Len(t) - 1}

Pieces(t) == {<<i, j>> \in (DOMAIN t) \X (DOMAIN t) : j \in {i, i + 3} /\ t[i][1] # "numeral"}
Losses(t) == {SubSeq(t, 1, p[1] - 1) \o SubSeq(t, p[2] + 1, Len(t)) : p \in Pieces(t)}
Pastes(t) == {SubSeq(t, 1, p[2]) \o SubSeq(t, p[1], Len(t)) : p \in Pieces(t)}

DamagedFiles(doc, damage) ==
  LET t == ScenarioText(doc)
  IN  CASE damage = "none"   -> {t}
        [] damage = "pretty" -> {Write(Plain(doc), TRUE)}
        [] damage = "cut"    -> Cuts(t)
        [] damage = "edited" -> Losses(t) \cup Pastes(t)

FileDamages(doc) == {"none", "pretty"} \cup (IF doc \in DamagedDocs THEN {"cut", "edited"} ELSE {})

-----------------------------------------------------------------------------
(* The texts, looked at when a call has just named its file.               *)

Asked == pc = "spawning" /\ file # Missing
Whole == Asked /\ call.damage \in {"none", "pretty"}

Numerals == {Numeral(n) : n \in Int64}

\* A scenario that one side writes, compact or pretty, with whatever quotes,
\* backslashes and line breaks its names and notes hold, is the one that the
\* other side reads; one with a fraction or a number beyond int64 is refused, and
\* no such number ever wraps into one that fits.
TextsMeanOneValue ==
  Whole => LET root == Parse(file)
               fits == \A tok \in ToSet(file) : tok[1] = "numeral" => tok \in Numerals
           IN  IF fits THEN root.ok /\ root.value = Plain(call.doc) ELSE ~root.ok

\* A text that was cut off is never taken for a whole one: not a scenario whose
\* file lost its end, nor a report of which only the first pieces have come.
CutTextsAreRefused ==
  /\ Asked /\ call.damage = "cut" => ~Parse(file).ok
  /\ child = "printing" /\ call.kind # "validate" /\ Parse(output).ok =>
       Trim(output) = Trim(Printed)

\* Everything in an accepted text is in the value it is read as: a damaged file
\* never loads with one of two values that it gives the same member.
NothingIsDropped ==
  Asked /\ call.damage = "edited" =>
    LET root == Parse(file)
    IN  root.ok => LET again == Write(root.value, FALSE)
                   IN  Len(again) = Len(file) /\ ToSet(again) = ToSet(file)

RECURSIVE WithoutNulls(_)
WithoutNulls(v) ==
  CASE v[1] = "arr" -> Arr([i \in DOMAIN v[2] |-> WithoutNulls(v[2][i])])
    [] v[1] = "obj" -> <<"obj", [k \in {j \in DOMAIN v[2] : v[2][j] # Null} |->
                                    WithoutNulls(v[2][k])]>>
    [] OTHER -> v

NullBalances(v) ==
  Requires(v, "accounts", "arr") /\
    \E i \in DOMAIN Items(v, "accounts") :
      LET a == Items(v, "accounts")[i] IN Has(a, "balances") /\ Field(a, "balances") = Null

\* A member that is null, which is also what the SDK makes of a NaN, does what a
\* member left out does, wherever it stands; only null balances of an account,
\* which would then be read in the short form, are refused instead.
NullMeansLeftOut ==
  Whole /\ Parse(file).ok =>
    LET v == Parse(file).value
        w == WithoutNulls(v)
    IN  /\ ScenarioLoads(v) => ScenarioLoads(w) /\ ScenarioOf(w) = ScenarioOf(v)
        /\ ScenarioLoads(w) /\ ~NullBalances(v) => ScenarioLoads(v)

\* The receipts that an accepted scenario leads to are told apart by the text
\* that their fingerprints are made of, one by one and in batches.
ReceiptsTellApart ==
  Whole /\ TextLoads(file) => TextsTellApart(ScenarioIn(file))
=============================================================================
