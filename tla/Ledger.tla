------------------------------- MODULE Ledger -------------------------------
(***************************************************************************)
(* AccountLedger (ledger/account.cpp) as operators.  A ledger maps every   *)
(* holder, an account together with an asset, to its balance; an entry the *)
(* code has not created yet reads as the zeros ensure_balance would give   *)
(* it.  The engine chains ledger calls inside one handler, and any of them *)
(* may throw after earlier ones took effect, so each call takes and yields *)
(* an outcome: the ledger reached so far and the error thrown, if any.     *)
(***************************************************************************)
EXTENDS Amounts, FiniteSets

CONSTANTS Accounts, Assets

\* A scenario is a text: it names finitely many of each.
ASSUME LedgerAssumption == IsFiniteSet(Accounts) /\ IsFiniteSet(Assets)

Holders == Accounts \X Assets

Planes == {"available", "observed_locked", "confirmed_locked",
           "received", "fees_paid", "fees_earned"}

Balance == [Planes -> Amount]

EmptyLedger == [h \in Holders |-> [f \in Planes |-> 0]]

\* The error codes a run can end with (core/error.hpp); Trap is a division by zero.
Errors == {"InvalidArgument", "PolicyViolation", "DuplicatePacket", "UnknownLane",
           "UnknownPacket", "PacketAlreadyClosed", "PacketNotReady",
           "PacketNotExpired", "RetryLimitExceeded", "InsufficientLiquidity",
           "InvariantViolation", "ArithmeticOverflow", "Trap"}

Outcome == [ledger : [Holders -> Balance], error : Errors \cup {"none"}]

Begin(b) == [ledger |-> b, error |-> "none"]

\* A check that throws code when cond is false.
Require(o, cond, code) ==
  IF o.error = "none" /\ ~cond THEN [o EXCEPT !.error = code] ELSE o

Move(b, h, f, x) == [b EXCEPT ![h][f] = @ + x]

\* entry.f += x, through checked_add.
Add(o, h, f, x) ==
  IF o.error # "none" THEN o
  ELSE IF AddFits(o.ledger[h][f], x) THEN [o EXCEPT !.ledger = Move(@, h, f, x)]
  ELSE [o EXCEPT !.error = "ArithmeticOverflow"]

\* entry.f -= x; every caller has already required entry.f >= x.
Sub(o, h, f, x) ==
  IF o.error # "none" THEN o ELSE [o EXCEPT !.ledger = Move(@, h, f, -x)]

Holds(o, h, f, x, code) == Require(o, o.ledger[h][f] >= x, code)

SeedBalance(o, h, x) == Add(o, h, "available", x)

\* Faulty variant: a reserve that does not ask for the liquidity.
ReserveObservedNoCheck(o, h, x) ==
  Add(Sub(o, h, "available", x), h, "observed_locked", x)

\* Faulty variant: a reserve that asks for the liquidity when it has locked already.
ReserveObservedLocksFirst(o, h, x) ==
  LET locked == Add(o, h, "observed_locked", x)
  IN  Sub(Holds(locked, h, "available", x, "InsufficientLiquidity"), h, "available", x)

ReserveObserved(o, h, x) ==
  LET held == Holds(o, h, "available", x, "InsufficientLiquidity")
  IN  Add(Sub(held, h, "available", x), h, "observed_locked", x)

\* Faulty variant: a release that gives nothing back.
ReleaseObservedLost(o, h, x) ==
  Sub(Holds(o, h, "observed_locked", x, "InvariantViolation"), h, "observed_locked", x)

ReleaseObserved(o, h, x) ==
  LET held == Holds(o, h, "observed_locked", x, "InvariantViolation")
  IN  Add(Sub(held, h, "observed_locked", x), h, "available", x)

\* Faulty variant: a consumption taken from the wrong plane.
ConsumeObservedWrong(o, h, x) ==
  Sub(Holds(o, h, "observed_locked", x, "InvariantViolation"), h, "confirmed_locked", x)

ConsumeObserved(o, h, x) ==
  Sub(Holds(o, h, "observed_locked", x, "InvariantViolation"),
      h, "observed_locked", x)

\* Faulty variant: a commitment that stops at the largest amount.
AttachConfirmedSaturates(o, h, x) ==
  LET room == MaxAmount - o.ledger[h]["confirmed_locked"]
  IN  Add(o, h, "confirmed_locked", IF x <= room THEN x ELSE room)

AttachConfirmed(o, h, x) == Add(o, h, "confirmed_locked", x)

CreditReceived(o, h, x) == Add(Add(o, h, "received", x), h, "available", x)

\* Faulty variant: a fee that is spendable but never counted as earned.
CreditFeeUncounted(o, h, x) == Add(o, h, "available", x)

CreditFee(o, h, x) == Add(Add(o, h, "fees_earned", x), h, "available", x)

SettleConfirmed(o, source, recipient, net, fee) ==
  LET summed == Require(o, AddFits(net, fee), "ArithmeticOverflow")
      held   == Holds(summed, source, "confirmed_locked", net + fee, "InvariantViolation")
      paid   == Add(Sub(held, source, "confirmed_locked", net + fee),
                    source, "fees_paid", fee)
  IN  CreditReceived(paid, recipient, net)
=============================================================================
