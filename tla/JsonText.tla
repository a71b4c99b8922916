------------------------------ MODULE JsonText ------------------------------
(***************************************************************************)
(* The JSON reader and writer (core/json.cpp).  A text is a sequence of    *)
(* tokens, as blank space may stand between any two of them: punctuation,  *)
(* strings with their escapes, the literals, numbers with their digits,    *)
(* and "bad" for whatever else the reader meets.  <<"ws">> is a run of     *)
(* blanks.  The content of a string is a sequence of characters; one that  *)
(* needs no escape may stand for a word.                                   *)
(*                                                                         *)
(* A value is tagged with its type.  Reading yields the value and the      *)
(* place after it, or Failure: which error it was, and at which byte, only *)
(* goes into the message.                                                  *)
(***************************************************************************)
EXTENDS Amounts, Strings

Null == <<"null">>
Bool(b) == <<"bool", b>>
Num(n) == <<"num", n>>
Str(chars) == <<"str", chars>>
Arr(items) == <<"arr", items>>
NoMembers == [k \in {} |-> Null]

\* An object with the members of a record.
Obj(r) == <<"obj", [k \in {<<f>> : f \in DOMAIN r} |-> r[k[1]]]>>

Punctuation(c) == <<c>>
Blank == <<"ws">>

-----------------------------------------------------------------------------
(* Numbers: int64, of which MaxAmount is the largest.                      *)

Int64 == -(MaxAmount + 1) .. MaxAmount

Figures == <<"0", "1", "2", "3", "4", "5", "6", "7", "8", "9">>

\* std::to_string, to the base ten.
RECURSIVE Decimal(_)
Decimal(n) ==
  IF n < 0 THEN <<"-">> \o Decimal(-n)
  ELSE (IF n < 10 THEN <<>> ELSE Decimal(n \div 10)) \o <<Figures[(n % 10) + 1]>>

Numeral(n) == <<"numeral", Decimal(n)>>

\* parse_number: a fraction, an exponent, a needless zero or too many digits fail.
ParseNumber(chars) ==
  LET minus  == chars[1] = "-"
      digits == IF minus THEN Tail(chars) ELSE chars
      size   == FoldLeft(LAMBDA sum, c : 10 * sum + IndexFirstSubSeq(<<c>>, Figures) - 1, 0, digits)
      value  == IF minus THEN -size ELSE size
  IN  IF \/ digits = <<>> \/ ~(ToSet(digits) \subseteq ToSet(Figures))
         \/ digits[1] = "0" /\ Len(digits) > 1
         \/ value \notin Int64
      THEN Failure
      ELSE Success(value, 1)

-----------------------------------------------------------------------------
(* The reader: parse_value, parse_array and parse_object.                  *)

Peek(t, i) == IF i \in DOMAIN t THEN t[i] ELSE <<"end">>

SkipBlanks(t, i) ==
  CHOOSE j \in i .. i + Len(t) : Peek(t, j) # Blank /\ \A k \in i .. j - 1 : t[k] = Blank

\* Faulty variant: the end of the text closes what is open.
ClosesAtEnd(t, i, bracket) == Peek(t, i) \in {Punctuation(bracket), <<"end">>}

Closes(t, i, bracket) == Peek(t, i) = Punctuation(bracket)

\* Faulty variant: a key that comes again replaces the value it had.
KnownKeyNever(found, key) == FALSE

KnownKey(found, key) == key \in DOMAIN found

RECURSIVE ParseValue(_, _), ParseItems(_, _, _), ParseMembers(_, _, _)

ParseValue(t, start) ==
  LET i    == SkipBlanks(t, start)
      tok  == Peek(t, i)
      kind == tok[1]
      next == SkipBlanks(t, i + 1)
  IN  CASE kind = "str" -> LET s == ParseString(tok[2])
                           IN  IF s.ok THEN Success(Str(s.value), i + 1) ELSE Failure
        [] kind = "numeral" -> LET n == ParseNumber(tok[2])
                               IN  IF n.ok THEN Success(Num(n.value), i + 1) ELSE Failure
        [] kind \in {"bool", "null"} -> Success(tok, i + 1)
        [] kind = "[" -> IF Closes(t, next, "]") THEN Success(Arr(<<>>), next + 1)
                         ELSE ParseItems(t, i + 1, <<>>)
        [] kind = "{" -> IF Closes(t, next, "}")
                         THEN Success(<<"obj", NoMembers>>, next + 1)
                         ELSE ParseMembers(t, i + 1, NoMembers)
        [] OTHER -> Failure

ParseItems(t, i, found) ==
  LET item == ParseValue(t, i)
      next == SkipBlanks(t, item.at)
      all  == Append(found, item.value)
  IN  IF ~item.ok THEN Failure
      ELSE IF Closes(t, next, "]") THEN Success(Arr(all), next + 1)
      ELSE IF Peek(t, next) = Punctuation(",") THEN ParseItems(t, next + 1, all)
      ELSE Failure

ParseMembers(t, start, found) ==
  LET i     == SkipBlanks(t, start)
      key   == IF Peek(t, i)[1] = "str" THEN ParseString(t[i][2]) ELSE Failure
      colon == SkipBlanks(t, i + 1)
      item  == ParseValue(t, colon + 1)
      next  == SkipBlanks(t, item.at)
      all   == [k \in DOMAIN found \cup {key.value} |->
                  IF k = key.value THEN item.value ELSE found[k]]
  IN  IF ~key.ok THEN Failure
      ELSE IF Peek(t, colon) # Punctuation(":") THEN Failure
      ELSE IF ~item.ok THEN Failure
      ELSE IF KnownKey(found, key.value) THEN Failure
      ELSE IF Closes(t, next, "}") THEN Success(<<"obj", all>>, next + 1)
      ELSE IF Peek(t, next) = Punctuation(",") THEN ParseMembers(t, next + 1, all)
      ELSE Failure

\* parse: one value, and nothing but blanks after it.
Parse(t) ==
  LET root == ParseValue(t, 1)
  IN  IF root.ok /\ SkipBlanks(t, root.at) > Len(t) THEN root ELSE Failure

-----------------------------------------------------------------------------
(* The writer, compact or pretty.                                          *)

Line(pretty) == IF pretty THEN <<Blank>> ELSE <<>>

RECURSIVE WriteValue(_, _), WriteFrom(_, _, _)

\* What stands between two brackets, from the i-th part on: one part to a line,
\* each the tokens of its key, if it has one, and a value.  The members of an object
\* come in some fixed order of their keys.
WriteFrom(parts, i, pretty) ==
  Line(pretty) \o parts[i][1] \o WriteValue(parts[i][2], pretty)
    \o (IF i < Len(parts) THEN <<Punctuation(",")>> \o WriteFrom(parts, i + 1, pretty)
        ELSE Line(pretty))

Enclosed(open, parts, close, pretty) ==
  <<Punctuation(open)>> \o (IF parts = <<>> THEN <<>> ELSE WriteFrom(parts, 1, pretty))
    \o <<Punctuation(close)>>

WriteValue(v, pretty) ==
  CASE v[1] = "str" -> <<Str(Escape(v[2]))>>
    [] v[1] = "num" -> <<Numeral(v[2])>>
    [] v[1] = "arr" -> Enclosed("[", [i \in DOMAIN v[2] |-> <<<<>>, v[2][i]>>], "]", pretty)
    [] v[1] = "obj" ->
         LET keys == FoldSet(LAMBDA k, found : Append(found, k), <<>>, DOMAIN v[2])
             key(k) == <<Str(Escape(k)), Punctuation(":")>> \o Line(pretty)
         IN  Enclosed("{", [i \in DOMAIN keys |-> <<key(keys[i]), v[2][keys[i]]>>], "}", pretty)
    [] OTHER -> <<v>>

Write(v, pretty) == WriteValue(v, pretty) \o Line(pretty)

-----------------------------------------------------------------------------
(* Looking into a value.                                                   *)

Has(v, field) == v[1] = "obj" /\ <<field>> \in DOMAIN v[2]
Field(v, field) == v[2][<<field>>]

\* require_string and the like.
Requires(v, field, type) == Has(v, field) /\ Field(v, field)[1] = type

\* Faulty variant: null is a value of the wrong type.
GivenNull(v, field) == Has(v, field)

\* A member that is null counts as left out.
Given(v, field) == Has(v, field) /\ Field(v, field) # Null

\* optional_string and the like.
Allows(v, field, type) == Given(v, field) => Field(v, field)[1] = type

Optional(v, field, fallback) == IF Given(v, field) THEN Field(v, field)[2] ELSE fallback
=============================================================================
