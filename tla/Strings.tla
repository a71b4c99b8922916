------------------------------ MODULE Strings ------------------------------
(***************************************************************************)
(* How a string is written between quotes and read back (core/json.cpp).   *)
(* The content of a string is a sequence of characters; one that needs no  *)
(* escape may stand for a word.                                            *)
(***************************************************************************)
EXTENDS Integers, SequencesExt

Failure == [ok |-> FALSE]
Success(v, i) == [ok |-> TRUE, value |-> v, at |-> i]

\* Faulty variant: the backslash itself is not escaped.
EscapesNoBackslash == [quote |-> "quote", newline |-> "n", bell |-> "u0007"]

\* The characters that are written as a backslash and another character.
Escapes == [quote |-> "quote", backslash |-> "backslash", newline |-> "n", bell |-> "u0007"]

Code(ch) == IF ch \in DOMAIN Escapes THEN <<"backslash", Escapes[ch]>> ELSE <<ch>>

Escape(chars) == FlattenSeq([i \in DOMAIN chars |-> Code(chars[i])])

\* What a reader takes a character after a backslash for.
Unescapes ==
  [quote |-> "quote", backslash |-> "backslash", slash |-> "slash", n |-> "newline",
   u0007 |-> "bell"]

\* parse_string takes one character: after a backslash for what the pair stands for,
\* and otherwise any but a quote, which would end the string, or a control character.
Begun == [ok |-> TRUE, out |-> <<>>, escaped |-> FALSE]

Take(state, ch) ==
  LET fails == IF state.escaped THEN ch \notin DOMAIN Unescapes
               ELSE ch \in {"quote", "newline", "bell"}
  IN  IF ~state.ok \/ fails THEN [state EXCEPT !.ok = FALSE]
      ELSE IF ~state.escaped /\ ch = "backslash" THEN [state EXCEPT !.escaped = TRUE]
      ELSE [state EXCEPT !.out = Append(@, IF state.escaped THEN Unescapes[ch] ELSE ch),
                         !.escaped = FALSE]

\* parse_string on what stands between two quotes; a lone backslash at the end fails.
ParseString(raw) ==
  LET state[n \in 0 .. Len(raw)] == IF n = 0 THEN Begun ELSE Take(state[n - 1], raw[n])
      end == state[Len(raw)]
  IN  IF end.ok /\ ~end.escaped THEN Success(end.out, 1) ELSE Failure
=============================================================================
