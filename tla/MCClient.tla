------------------------------ MODULE MCClient ------------------------------
(***************************************************************************)
(* An instance for the SDK: one small scenario, and others that differ     *)
(* from it in one place each, in the ways that readers and writers of a    *)
(* text may disagree about.                                                *)
(***************************************************************************)
EXTENDS Client

MCWords ==
  {"payer", "usd", "fast", "operator", "p1", "p2", "k1", "lane", "a", "b", "c", "submit", "Submit",
   "confirm", "CONFIRM", "cancel", "retry", "advance", "snapshot", "steal", "normal", "High", "run"}

\* Not a number, no limit, and the values around the constructor's bounds.
MCTimeouts == {NotANumber, 0, 99, 100, 120001}

Word(w) == Str(<<w>>)

Scenario(accounts, lanes, actions) ==
  [name |-> Word("run"), accounts |-> Arr(accounts), lanes |-> Arr(lanes), actions |-> Arr(actions)]

Funds(x) == Arr(<<Obj([asset |-> Word("usd"), available |-> x])>>)
Account(id, balances) == [id |-> Word(id), balances |-> balances]
Payer == Account("payer", Funds(Num(5)))
Lane == [id |-> Word("fast"), asset |-> Word("usd"), operator |-> Word("payer"),
         policy |-> Obj([feeBps |-> Num(10)])]
Sent == [id |-> Word("p1"), lane |-> Word("fast"), source |-> Word("payer"),
         recipient |-> Word("payer"), amount |-> Num(4)]
Submission == [type |-> Word("submit"), epoch |-> Num(1), packet |-> Obj(Sent)]

Base == Scenario(<<Obj(Payer)>>, <<Obj(Lane)>>, <<Obj(Submission)>>)

With(account, lane, submission) == Obj(Scenario(<<account>>, <<lane>>, <<submission>>))

\* Accounts: large, too large and negative funds, a NaN, a fraction, null and short balances.
Accounts ==
  {Account("payer", Funds(x)) : x \in {Num(12), Num(14), Num(100), Num(-1), NaN, Half}}
  \cup {Payer @@ [asset |-> Word("usd"), available |-> Num(7)],
        [id |-> Word("payer"), asset |-> Word("usd"), available |-> Num(7)],
        [id |-> Word("payer"), balances |-> Null, asset |-> Word("usd"), available |-> Num(7)],
        [id |-> Str(<<>>), balances |-> Arr(<<>>)],
        [id |-> Str(<<"a", "b", "-", "c", ":", "a">>), balances |-> Arr(<<>>)],
        [id |-> Word("payer"), balances |-> Arr(<<>>)]}

Policies == {Obj([feeBps |-> x]) : x \in {Null, NaN, Word("run"), Num(-1)}}
            \cup {Null, Num(1), Obj([minPacketAmount |-> Num(-1)])}

Lanes == {[Lane EXCEPT !.policy = x] : x \in Policies}
         \cup {[Lane EXCEPT !.operator = x] : x \in {Null, Word("usd"), Str(<<"a", "|">>)}}

Noted(chars) == [type |-> Word("snapshot"), epoch |-> Num(1), note |-> Str(chars)]

Actions ==
  {Submission @@ [note |-> Null], [Submission EXCEPT !.type = Word("Submit")],
   [Submission EXCEPT !.type = Word("steal")], [Submission EXCEPT !.epoch = Num(-1)],
   [Submission EXCEPT !.packet = Obj(Sent @@ [priority |-> Word("High"), memo |-> Null])],
   [Submission EXCEPT !.packet = Obj(Sent @@ [priority |-> Word("steal")])],
   [Submission EXCEPT !.packet = Obj([Sent EXCEPT !.recipient = Word("usd")])],
   [Submission EXCEPT !.packet = Word("p1")],
   [type |-> Word("advance"), targetEpoch |-> Null], [type |-> Word("advance"), epoch |-> Num(1)],
   Noted(<<"a", "quote", "newline">>), Noted(<<"backslash">>), Noted(<<"bell", "backslash", "n">>)}

\* Confirmations and cancellations after the submission.
Later ==
  {[type |-> Word("CONFIRM"), epoch |-> Num(1), packet |-> Word("p1"), ack |-> Word("k1")],
   [type |-> Word("confirm"), epoch |-> Num(1), packet |-> Obj(Sent), ack |-> Word("k1")],
   [type |-> Word("confirm"), epoch |-> Num(1), packet |-> Word("p1")],
   [type |-> Word("cancel"), epoch |-> Num(1), packet |-> Word("p2"), force |-> Bool(TRUE)],
   [type |-> Word("cancel"), packet |-> Word("p1"), force |-> Null],
   Submission}

\* Two packets whose receipts would read alike if identifiers could hold bars.
Barred ==
  LET via(packet, lane) ==
        Obj([Submission EXCEPT !.packet = Obj([Sent EXCEPT !.id = Str(packet), !.lane = Str(lane)])])
      lane(id) == Obj([Lane EXCEPT !.id = Str(id)])
      long == <<"b", "|", "lane", "=", "c">>
  IN  Obj(Scenario(<<Obj(Payer)>>, <<lane(<<"c">>), lane(long)>>,
                   <<via(<<"a", "|", "lane", "=", "b">>, <<"c">>), via(<<"a">>, long)>>))

\* The same with identifiers that are allowed.
Plainer ==
  LET via(packet, lane) ==
        Obj([Submission EXCEPT !.packet = Obj([Sent EXCEPT !.id = Str(packet), !.lane = Str(lane)])])
      lane(id) == Obj([Lane EXCEPT !.id = Str(id)])
  IN  Obj(Scenario(<<Obj(Payer)>>, <<lane(<<"c">>), lane(<<"b", ":", "c">>)>>,
                   <<via(<<"a", ":", "b">>, <<"c">>), via(<<"a">>, <<"b", ":", "c">>)>>))

TwoAccounts(x, y) ==
  Obj(Scenario(<<Obj(Payer), Obj(Account("a", Funds(Num(x)))), Obj(Account(y, Arr(<<>>)))>>,
               <<>>, <<>>))

\* Little to read, so that every cut, loss and paste of it can be.
Short ==
  Obj([accounts |-> Arr(<<Obj([id |-> Word("a"), asset |-> Word("b"), available |-> Num(5)])>>),
       lanes |-> Arr(<<>>),
       actions |-> Arr(<<Obj([type |-> Word("snapshot"), note |-> Str(<<"a", "backslash", "quote">>)])>>)])

MCDamagedDocs == {Short, Obj(Base)}

MCDocs ==
  MCDamagedDocs
  \cup {With(Obj(a), Obj(Lane), Obj(Submission)) : a \in Accounts}
  \cup {With(Obj(Payer), Obj(l), Obj(Submission)) : l \in Lanes}
  \cup {With(Obj(Payer), Obj(Lane), Obj(a)) : a \in Actions}
  \cup {Obj(Scenario(<<Obj(Payer)>>, <<Obj(Lane)>>, <<Obj(Submission), Obj(a)>>)) : a \in Later}
  \cup {Barred, Plainer, TwoAccounts(4, "b"), TwoAccounts(6, "b"), TwoAccounts(8, "b"), TwoAccounts(4, "a")}
=============================================================================
