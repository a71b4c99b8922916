# DriftDTL in TLA+

A verification project for DriftDTL, a C++20 settlement engine with deferred
finality. The program reads one scenario (accounts, lanes, actions), checks it
against a schema, applies its actions in order to an in-memory engine and
prints a report. The program has no threads, no messages and no persistence: one
run is one sequence of handler calls, and the first error ends it. A TypeScript
SDK starts it as a child process and waits. What is hard in the engine is the
protocol carried by those calls. Confirmations, cancellations and retries
of a packet arrive in any order and at any epoch, each changes one of two
accounting planes and trusts the other, and several read-only views decide on
their own what has expired or closed. What is hard around it is the text that
crosses between two languages, and a child process that may fail, hang or be cut
off anywhere. The modules model the engine with all its error paths, the reader,
loader and schema before it, the views after it and the SDK around it. TLC
explores every scenario over small sets of packets, lanes and epochs, and TLAPS
proves for every scenario what the engine, the schema, the log and the views keep
true, that the engine implements an abstract lifecycle of a packet, for all texts
what a call of the SDK returns and leaves behind, and for all strings and receipts
that what is written is read back and that no two receipts have one text.

Paths of code below are relative to the repository's `src/` directory.

## Inventory

| Component | State | Operations | What makes it correct |
|---|---|---|---|
| Amount (`core/amount`) | none | checked +, −, ×, basis-point fee, split | no wrap; gross = net + fee |
| AccountLedger (`ledger/account`) | per account and asset: available, observed and confirmed locks, received, fees paid, fees earned | seed, reserve, release, consume, attach, settle, credit fee | no negative plane; its own InvariantViolation guards never fire |
| PolicyEvaluator (`settlement/policy`) | none | validate lane and packet, quote, retry limit, timeout | accepted lanes keep the engine's assumptions |
| SettlementEngine (`settlement/engine`, `state`) | epoch, lanes, records, events, totals, ledger | register account/lane, submit, retry, confirm, cancel, advance, snapshot | planes, ledger, log and totals agree; a packet is paid once |
| ScenarioRunner (`scenario/runner`) | none | dispatches in the order accounts, lanes, actions | stops at the first error |
| ScenarioSchema (`scenario/schema`) | seen ids and packets, last epoch | inspects declarations and actions before the run | accepted references resolve |
| JSON (`core/json`) | none | text to value and back, typed accessors | a text means one value; a part of a text, or a member given twice, means none |
| ScenarioLoader (`scenario/loader`, `domain/ids`, `domain/model`) | none | value to typed scenario | non-negative amounts, known names; null does what leaving out does |
| SettlementQueue, Priority (`settlement/queue`, `domain/priority`) | built per report | buckets, scores, two orders, sums | deterministic order; agrees with engine on expiry |
| Timeline (`settlement/timeline`) | none | delivery classes, windows | agrees with engine on expiry |
| ReplayInspector (`audit/replay`) | none | counters over the event log | the log tells the engine's story |
| InvariantAuditor, LedgerReconciler, CapitalModel (`audit`, `ledger/reconcile`, `economics`) | none | sums, findings, ratios | compatible with summary and queue |
| ReceiptCodec (`settlement/receipt`) | none | receipt fields, fingerprint | every change of a receipt is traced; two receipts never have one text |
| Reports, CLI (`report`, `main.cpp`) | none | build the blocks, render, exit codes | a report fails only for amounts that do not fit |
| SDK client (`client/src/client.ts`) | the time limit; per call a directory and a child process | validate, run, simulate | the caller gets the report of its scenario or an error, always, and nothing stays behind |
| SDK helpers (`client/src/risk.ts`) | none | bands, headroom | headroom is the largest reserve that keeps to the target, as far as doubles can tell |

Interaction: the SDK writes a scenario to a file, starts the program with its
path, waits in `spawnSync` and parses what the program printed. `main` calls loader → schema → runner → engine → ledger/policy, by
plain calls; the report calls queue, auditor, reconciler, capital model and
replay on a finished engine. The engine and its ledger are the only mutable
state. The hard behaviours are listed, line by line, under `hazards` in
`PROJECT.json`: partial mutation before a throw, orders of confirm, cancel and
retry, repeated and late acknowledgements, retries through another lane,
arithmetic at the limits, epochs that wrap, epoch boundaries decided in four
places, the gaps between what the schema looks at and what the engine does, and,
around the program, the time limit that meets a late exit, output that is cut
off, and file operations that fail one after the other.

## Modules

| Module | Models | Notes |
|---|---|---|
| `Amounts` | `core/amount` | `MaxAmount` stands for the largest int64 |
| `Floats` | the arithmetic of long doubles and of JavaScript's numbers | rounds every result to the nearest number of a format of any width |
| `Ledger` | `ledger/account` | each call takes and yields an *outcome*: the ledger reached so far, and the error |
| `Engine` | `settlement/engine`, `policy`, `state`, the order of `runner` | one action per handler |
| `EngineProperties` | – | what the engine must keep true |
| `Lifecycle`, `Refinement` | – | abstract specification of a packet and of an asset's base; the mapping from the engine |
| `Replay` | `audit/replay` | what the log says, and replaying it |
| `Queue` | `settlement/queue`, `domain/priority`, `settlement/timeline` | operators over the engine's state |
| `Reports` | reconciliation, audit, capital, receipts, SDK risk | operators over the engine's state; ratios and headroom in the floating-point arithmetic of the code |
| `ReportBuild` | the checked sums of `report`, the exit status of `main.cpp` | which blocks throw |
| `Scenario` | `scenario/schema`, `scenario/runner`, the actions of `scenario/loader` | schema and engine in lock step |
| `Strings` | `core/json`: `escape`, `parse_string` | a string's content between quotes, character by character |
| `JsonText` | the rest of `core/json` | reader and writer over tokens, and the accessors |
| `Loader` | `scenario/loader`, `domain/ids`, `domain/model`, `scenario/schema` | from a parsed value to an accepted scenario |
| `Receipts` | the texts of `settlement/receipt` | what a fingerprint is the hash of |
| `Caller` | `client/src/client.ts` and `main.cpp` beside it | one action per step of the caller, of the program and of what ends it; the texts are parameters |
| `Client` | what those texts are: `JSON.stringify` and `JSON.parse`, what `main.cpp` loads and prints, damaged files | `MCClient.cfg` gives them for the parameters of `Caller` |
| `Claims` | – | statements of the documents that the code does not keep |
| `Sums` | – | finite sums, as a count of units |
| `Ledger_proofs` | – | laws of sums; what each ledger call leaves |
| `Engine_proofs` | – | the engine's invariant; the books over it |
| `Reports_proofs`, `Replay_proofs`, `Scenario_proofs` | – | the views with the laws of rounding, the log and the schema |
| `Refinement_proofs` | – | the engine implements `Lifecycle` |
| `Caller_proofs` | – | a call of the SDK, for all texts |
| `Receipts_proofs` | – | strings read back, receipts told apart |
| `MC*` | – | instances for TLC |

### From code to actions

`RegisterAccount(h)` is one turn of the loop of `register_account`: the loop
seeds one balance, adds to the total and appends one event, and nothing can come
between its turns that the model would miss. `RegisterLane` is `register_lane`.
`Submit`, `Retry`, `Confirm`, `Cancel`, `Advance` and `Snapshot` are the handlers
of those names. The order of tests in a handler is an `...Error` operator
(`SubmitError`, `RetryError`, ...), whose first matching line is the exception
the code throws; `Refuse` is a throw that changed nothing but the epoch
(`ensure_epoch` runs first in every handler). The body is one operator
(`OpenFirst`, `Reopen`, `Settle`, `CountDuplicate`, `Release`). A handler chains
ledger calls that may throw in the middle, so each chain is an outcome passed
along, and the state after a throw is what the code had changed by then: `Reopen`
keeps the rewritten record of a retry whose reserve failed, `Settle` the totals
added before the one that overflowed.

`failure` holds the error that ended the run. No action is enabled after it, as
`main` reports and exits. That is why the accounting invariants are required
while `failure = "none"` only, the type invariant always.

The zero fee is undefined behaviour: `mul_bps_floor` divides by `bps` before it
tests `bps != 0`. `QuoteResults` therefore is a set of outcomes: a trap, the
right quote, or, when the compiler drops the redundant test, an overflow.

The ratios of the capital model are computed in long doubles and the headroom of
the SDK in doubles. `RatioBps` and `Headroom` take the steps of the code one by one,
and each is rounded to the nearest number of its format (`Rounded`,
`FlooredQuotient`). `LongMantissa` stands for 2^64 on x86-64, for 2^113 or 2^53
elsewhere (`CMakeLists.txt:14` builds with MSVC, whose long double is a double), and
`DoubleMantissa` for 2^53. What the properties say of ratios and headroom therefore
distinguishes amounts that are exact in the format from those that are not.

An epoch has a width: `EpochLimit` stands for the largest int64, and `Wrapped` is
what the machine makes of a sum of two. Signed overflow is undefined in C++; the
sum in `timeout_for` is stored in the record and never compared as a sum, so a
build wraps it. The scores of the queue wrap in the same way.

`Caller` composes two processes. The caller goes through `simulate` or `run` with
its `pc`; the program (`child`) loads, runs, prints one token after the other and
exits. `TimeLimit` may fire at any moment of the wait, also after the exit and
before the caller is told, as the timer and the exit are separate events. What
the texts are and mean comes in as operators (`Stringify`, `Loads`, `Prints`,
`Decodes`, ...), so that the control can be reasoned about without the recursive
reader and writer. `Client` extends `Caller` with the definitions that
`MCClient.cfg` gives for them, and with those they are real: `WriteScenario` stores what `JSON.stringify` writes, `ChildLoad` reads it
with `JsonText` and `Loader`, `Reap` parses what has been printed so far. What the
engine does with an accepted scenario is left to
`Engine`: `ChildRun` may refuse it, and a report has the two figures that a caller
can check, the seeded funds and, with `--events`, an event for each. A file that a
path names may have been cut off, or have lost or doubled a token or a member.

Left out: memos, notes and messages; the checks for empty identifiers and
negative amounts, which the loader has made already; `release_confirmed`,
`close_on_first_confirmation` and the Warning event, which no code reaches. The
schema refuses an account that declares an asset twice, so `Seed` is a function
of account and asset.

A definition whose comment starts with "Faulty variant" is not part of the
model. It is a plausible bug in the definition below it, put in its place to see
that a property notices.

## Runs

The runs of the engine are sequential programs: they end (an error, or no action
left within the bounds), so deadlock is not checked, and no fairness is assumed
and no liveness stated – the engine owes no progress beyond the actions it is
given. The `sdk` run checks for deadlock, and it has fairness: `WF_pc(CallerMoves)`,
since the caller is one thread whose next statement runs when the wait for the
child is over, and `WF_vars(TimeLimit)`, since timers fire. Nothing is asked of
the program, which may hang in any state, nor of anyone to make a call. Under it
`EveryCallEnds`, because the constructor lets no client through that has no time
limit: a NaN, which it does let through, fails each call at once in `spawnSync`.

| Run | Instance | Distinct states | Shows |
|---|---|---|---|
| `engine` | 2 packets, 2 lanes of different policy, 6 templates, 2 acks, epochs 0–3 | 580 535 | the accounting and the two planes under every order of actions |
| `limits` | amounts up to 12, 3 packets, two assets, payer and payee paying each other, zero and rounded fees, a deadline that wraps | 309 334 | the same at the limits of the arithmetic, which reports then overflow, and that a call that throws half way has made no money |
| `replay` | 2 packets, one of them called "system", log of up to 8 events kept in the state | 745 262 | the log rebuilds records and totals |
| `queue` | 2 packets, two priorities, a lane of 1 and one of 3 epochs, the last five epochs an int64 has | 153 881 | queue, timeline and engine agree |
| `reports` | 2 assets, 3 seeded balances, opposite payments | 43 975 | the blocks of the report agree, rounded figures included, and the engine implements `Lifecycle` |
| `scenario` | 2 packets, an undeclared lane and account, scenarios of 8 events | 593 890 | what the schema's acceptance is worth |
| `sdk` | 49 scenarios that differ from one in a place each, two of them in every cut, loss and paste; 5 time limits | 64 436 | texts mean one value, a call returns its report or an error, ends, and cleans up |
| `claim_*` | 2 packets, lanes with retry limits 1 and 2, a lane with no fee | – | one disagreement between a document and the code each |

Bounds. `MaxEpoch` and the sets of templates bound the choices, `MaxEvents` the
log, `MaxDuplicates` the counter of repeated confirmations. `MaxEvents = 40`
never binds in the runs that use it: the log is left out of their view. A packet
goes through open, cancelled, open again and settled within two attempts, and
with retry limits 1 and 2 both the limit and the crossing of lanes are reached;
two packets share one payer, so that one's reserve competes with the other's;
timeouts of 1 to 3 with four or five epochs put an action before, at and after
every timeout. One unit of `MaxAmount` is 30000 where overflow is no matter: the
smallest bound that leaves a fee of 2000 bps on 6 units unhindered, and makes an
account with 4 units locked overflow the unchecked ratio.

`LongMantissa` is 131072 and `DoubleMantissa` 65536 wherever ratios are computed.
With scale 10000, amounts from 14 on are no longer exact in basis points and a base
from 7 on has products past the safe integers at a target of `BpsScale`; the seeds
of the runs lie on both sides. Smaller formats would not do: unless the
mantissa is several times the scale, rounding alone moves a ratio near par by more than a basis
point, which it does in no format of the code (`MantissaAssumption`).

In `limits`, `EpochLimit` is 100, so that a lane with a timeout of 100 has the last
epoch for a deadline at epoch 0 and a negative one at epoch 1. In `queue` it is 200,
which leaves room for every score, and the epochs end with it: a deadline that would
lie after the last epoch, which at smaller epochs never comes, wraps. The other runs
never reach their limit. In `sdk`, `MaxAmount` 12 stands for the largest int64 and
`Mantissa` 8 for 2^53, so that reports have amounts a double keeps, odd ones it
rounds down and up, sums that overflow, and numbers no int64 holds; `MaxIdLength`
5 is met by one identifier and passed by another; `MaxBuffer` 20 takes a report
of up to one event, and not the one of two; `Timeouts` has a NaN, the values
beside both bounds of the constructor and the lower bound. One call at a time is
enough, as nothing of a call is left for the next but the time limit.

Views. No action reads the event log, the state after a failure or the epoch of a
failed run, so the views drop them; properties about the log are checked in
`replay`, whose view keeps it, or as action properties, which TLC evaluates on
every transition. Acknowledgements are symmetric: nothing but equality is asked of
them.

Action properties: `PacketHistory` (terms are never rewritten, a settled packet
never moves, an attempt is counted exactly for a reopening), `BucketMoves`,
`PendingConfirms`, `ChangesAreTraced`. One liveness property: `EveryCallEnds`.

### What the documents say and the code does not

Five `claim_*` runs end in a counterexample; `findings` in `PROJECT.json` quotes
the documents.

- `FeesAreComputed`: a lane without a fee divides by zero (a fault of the code).
- `RatiosAreChecked`: the reserve ratio of the plain report is an unchecked product
  (a fault of the code).
- `RetriesAreBounded`: a retry through another lane is bounded by that lane.
- `EpochsAreCoherent`: the schema never looks at the target epoch of an advance.
- `PaidOnlyWhileHeld`: a packet whose reserve a cancellation has given back can
  still be confirmed without a retry, and is then paid without debiting its source.
  `BaseConserved` and `PayAfterReturn` of `Lifecycle` state exactly how much money
  that makes, and that nothing else does.

Three more disagreements have no run of their own. `docs/settlement-lifecycle.md:73`
says that a retry may update priority and memo; `retry` (`engine.cpp:103-108`) takes
over the memo only, and a packet retried at a higher priority stays in the queue with
the weight it had. `PacketHistory` leaves the priority out of the terms that it
requires to stay. `README.md:77` gives the coverage as a quotient; `ratio_bps`
(`capital_model.cpp:60-68`) rounds product and quotient in long doubles, and
8000000000000000111 over itself comes out as 9999 bps on x86-64. `RatiosTellReleased`
says what remains true. `docs/economic-model.md:72` rounds the base times the target
down; the SDK (`risk.ts:19-21`) rounds the product in doubles first, up as well as
down, so that a base of 10^13 + 1 and a target of 9999 bps give 9999000000001, one
unit past the target, although every input is a safe integer. `HeadroomIsTight` says
up to where the headroom is right, and by how much it may be off beyond.

Smaller things seen while modelling, for a reader of the code: a cancelled packet
whose retries are used up stays pending for ever; `next_ready` sorts by keys that
differ from those of `ordered`; a packet called "system" is counted with the
system's own events in the replay block; a member that is null counts as left out
everywhere but in `balances`; a packet whose deadline has wrapped is
timed out at once, but its score may wrap too and put it behind younger ones; a
policy that is no object is taken for an empty one,
as `find` on it yields nothing; the timeout exposure still counts packets settled
after a cancellation (`ExposureExplained` states by how much); an acknowledgement
that comes late changes the fingerprint of a settled receipt.

## Proofs

Every theorem holds for all sets of accounts, assets, lanes, packets, templates,
amounts and bounds that meet the assumptions below.

| Module | Theorem | Proves | For the reader of the code |
|---|---|---|---|
| `Engine_proofs` | `TypeCorrect` | `Spec => []TypeOK` | no throw half way leaves an amount outside its range |
| | `ReservesCorrect` | `Spec => []ReservesMatch` | each plane reserves exactly its packets |
| | `NoInternalFaultCorrect` | `Spec => []NoInternalFault` | the ledger's own guards never fire |
| | `PlanesCorrect` | `Spec => []PlanesAgree` | paid once, and with no open observed plane |
| | `PacketHistoryCorrect` | `Spec => PacketHistory` | the past of a packet is never rewritten |
| | `AvailableCorrect` | `Spec => []AvailableReconciles` | spendable funds are explained by the records |
| | `CreditsCorrect` | `Spec => []CreditsReconcile` | credits, fees and totals count a packet once |
| `Replay_proofs` | `DuplicatesFollow` | `Spec => []DuplicatesFollowSettlement` | no acknowledgement is swallowed before its credit |
| | `ReplaysCorrect` | `Spec => []LogReplays` | the events of a packet alone give its record, field by field |
| | `ReconcilesCorrect` | `Spec => []LogReconciles` | the log's counters and epochs are the engine's totals and clock |
| `Refinement_proofs` | `RefinementCorrect` | `Spec => ImplementsLifecycle` | the engine implements `Lifecycle` |
| `Reports_proofs` | `QueueMatchesCorrect` | `Spec => []QueueMatchesLedger` | the buckets add up to both reserves |
| | `TimeoutViewsCorrect` | `Spec => []TimeoutViewsAgree` | four places decide expiry alike |
| | `BucketMovesCorrect` | `Spec => BucketMoves` | closed is closed, nobody waits |
| | `PendingConfirmsCorrect` | `Spec => PendingConfirms` | what is pending can be confirmed |
| | `QueueIsLineCorrect` | `Spec => []QueueIsLine` | the queue's comparison is a strict total order, whatever wraps |
| | `OrderIsDeterministicCorrect` | `Spec => []OrderIsDeterministic` | there is one way to sort the queue, and its head is as urgent as the next ready packet |
| | `OlderFirstCorrect` | `ScoresFit` proves `Spec => []OlderGoesFirst` | age decides among equals |
| | `ChangesTracedCorrect` | `Spec => ChangesAreTraced` | a receipt changes only with an event |
| | `CountsCorrect` | `Spec => []CountsAgree` | summary, audit and queue count alike |
| | `ExposureCorrect` | `Spec => []ExposureExplained` | what the exposure counts beyond the queue |
| | `BaseCorrect` | `Spec => []BaseConserved` | money is conserved but for what is paid after its return |
| | `RatiosCorrect` | `Spec => []RatiosTellReleased` | what coverage, band and overlap tell, rounding included |
| | `HeadroomCorrect` | `Spec => []HeadroomIsTight` | the SDK's headroom is right while its product is safe, and within two units while its base is |
| | `ReportsCorrect` | `Spec => []ReportsWithinLimits` | which sums decide whether a report is built |
| `Scenario_proofs` | `ReferencesCorrect` | `ScenarioSpec => []ReferencesHold` | accepted references resolve |
| | `DuplicatesCorrect` | `ScenarioSpec => []DuplicatesComeFromRetries` | what the schema's test for repeats misses |
| | `OnlyDeclaredCorrect` | `ScenarioSpec => []OnlyDeclaredHold` | no money in an account nobody declared |
| | `RetryFirstCorrect` | `ScenarioSpec => []RetryFirstStaysOpen` | a packet first named by a retry stays put |
| `Caller_proofs` | `ReturnsCorrect` | `Spec => []ReturnsItsReport` | a call returns the whole report of its text, or nothing |
| | `NothingLeftCorrect` | `Spec => []NothingIsLeftBehind` | a call cleans up whatever failed, and not under a running program |
| `Receipts_proofs` | `WrittenIsRead` | `ParseString(Escape(v)) = Success(v, 1)` | the parser undoes the escaping, of any string |
| | `BatchesTellApart` | `BatchText(b) = BatchText(c)` proves `b = c` | no two receipts or batches without an equals sign have one text |
| | `ReceiptsToldApart` | `TextsTellApart(scenario)` | nor do those of one scenario |

### How the proofs go

*The engine's invariant.* None of the properties is inductive alone. `IInv` joins
`TypeOK`, `NoInternalFault`, `ReservesMatch` and `PlanesAgree` with `AmountsSplit`
(gross = net + fee in every record). A cancellation releases its gross without a
fault because the holder's lock is the sum of its open packets, of which it is one
(`ReservesMatch`); after a settlement that sum stays right only because a settled
packet has no open plane (`PlanesAgree`); the settlement takes net + fee from a
lock that counts gross (`AmountsSplit`).

*What a call has done.* `Ledger_proofs` gives for each ledger call what an outcome
without and with an error says of the ledger. From it, `Engine_proofs` has one
lemma per way a handler can end, and they all conclude the same, `Completes`: the
state is well formed, no record's past is rewritten, and a call that returned had
one `Effect` – it seeded a holder, was quiet, or did one of five things to one
packet (`Opens`, `Reopens`, `Releases`, `Repeats`, `Settles`), each with the exact
change of every plane and the event it logged. All later proofs are about
`Effect` and never about the handlers again.

*Sums.* They are cardinalities of sets of units, so the laws needed – adding,
removing or rewriting one element, and taking a sum class by class (the first part
of `Ledger_proofs`) – come from the library's theorems on finite sets, with no
induction.

*In place of induction.* The prover cannot instantiate the library's induction
rules, but a set of naturals has a least element (`LeastNatural`), and a fact about
every place of a sequence follows from there being no first place where it fails.
That is how a recursive function over the log is shown to be what its equations
say, and to be the only one.

*The books.* `BooksInv` is `IInv` with `AvailableReconciles` and
`CreditsReconcile`. It is inductive because an effect puts one record, so a sum
over the records changes by what that record contributes after and before, and the
ledger by the same amounts. Payer, payee and operator may be one account, which is
why the contributions are kept apart (`Debit`, `Payment`, `Service`, `Charge`).

*The views.* Nothing in `Reports_proofs` is inductive: queue, summary, audit,
reconciliation, capital model and SDK recompute from the state, so each property
follows from `IInv` or `BooksInv` by taking sums apart into buckets and together
over the holders of an asset, and the action properties from `Effect`. `ReportsCorrect`
bounds every sum that a block of a report takes by one of four.

*The rounding.* A format is its mantissa, a power of two, and the numbers around n
lie `Unit(n)` apart. The laws are that rounding errs by at most half a unit and is
exact below the mantissa (`RoundedProps`), and that a quotient, rounded and then cut
off, is the integer quotient where that is exact, and otherwise lies at most a unit
from it (`QuotientExact`, `QuotientNear`). The coverage then has three rounded steps:
a factor common to numerator and denominator cancels (`CancelFactor`), and the error
left is less than a basis point of par (`RatioNearPar`, `RatioBelow`). For the
headroom, a target is at most `BpsScale`, so that the product is at most half a unit
off and the quotient at most one (`CommitmentsNear`, `HeadroomFits`).

*The log.* `LogInv` adds to `IInv` that every settled packet has its confirmation
in the log (`SettlementsLogged`), without which `DuplicatesFollowSettlement` is not
inductive. For the other two, each way a handler can end without an error is shown
to append exactly one event that tells what happened (`Tells`): `Announces`, when
it declares or moves the clock, or `Speaks`, of its packet and with the very
fields that the replay reads back. `StoryInv` then carries the replay
(`LogReplays`) along with the counters and amounts (`LogCounts`), whose packet
every event names (`LogNames`) and the epochs in the log (`LogEpochs`). The step of the
replay is that reading a log with one more event is reading the log and then that
event (`ReplayedAppend`). A record opened by a retry and one opened by a submit
leave the same trace, which is why a retry's first event counts no attempt.

*The order of the queue.* `QueueIsLine` says that its comparison is a strict total
order. A finite set with such an order has exactly one list that follows it: the
rank of an element, how many come before it, gives the list (`LineListed`), and two
such lists have no first place where they differ (`LineListedOnce`). The head of
that list and the one packet that `next_ready` finds have the same score, as both
orders compare scores within the ready bucket before anything else.

*The schema.* Each step of `ScenarioSpec` is a step of the engine, so `IInv`
carries over. `ScenarioInv` adds what ties the two states together: the schema's
`seen` packets are records, a record that it has not seen was opened by a logged
retry, and a logged submit is seen (`SeenMatches`); whoever a lane or a record may
make the ledger touch is declared (`PartiesDeclared`). The ledger calls are gone
through once more for what they leave alone, so that a throw half way is covered.

*The refinement.* Under the mapping of `Refinement`, `Init` implies `Lifecycle`'s,
and each kind of `Effect` is one of the lifecycle's moves or a stutter: `Opens` is
`Hold`, `Releases` `Return`, `Reopens` `HoldAgain`, `Settles` `Pay` or
`PayAfterReturn`, `Seeds` `Declare`, the last declaration `Start`, `Repeats` and the
clock a stutter, a throw `Stop`. That the base of an asset moves as the lifecycle
says uses `BaseConserved` before and after the step (`LifeInv`). A scenario that
declares nothing runs from the start, which is why `Lifecycle` may begin in
"running".

*The calls.* `CallInv` adds two things to the properties. `ControlHolds`: the
program is alive only while the caller waits, so that nothing it does comes between
two statements of the caller, and from the write to the clean-up there is a directory
to remove. `ProgramHolds`: in that wait, a program that came to print was given a
text that loads, one that exited with status 0 has printed all, and one that was
killed left an error or a status other than 0. That last part is what
`ReturnsItsReport` needs: a time limit that fires after the exit sets an error
beside the full output, a signal from elsewhere sets a status and no error, and
`execute` looks at both. Nothing is assumed of the texts.

*The texts.* `FlattenSeq` is a recursive function; `Flattens` is the sequence of the
beginnings it goes through, whose existence comes from the least place where there
would be none. For `WrittenIsRead`, each character is written as one or two that the
reader takes back for it (`CodeIsTaken`), and after the n-th of them it has the first
n characters of the content. For `BatchesTellApart`, texts are taken apart from their
ends. Escaping adds no equals sign, so the last one in a text is the last field's, and
what follows it is that field's value, escaped (`LastMark`, `FieldTakenOff`); fourteen
fields are a receipt (`ReceiptTakenOff`); and of two batches with one text, the
shorter leaves nothing of the longer (`ShorterBatch`). Bars, quotes and the names of
fields may stand in the values: the equals sign is the one character that the check
of identifiers (`allowed_identifier_char`) has to keep out. The other values are
digits and names of states. Texts are over any set of characters that holds
those the code itself writes (`Marks`).

### Assumptions

- `MaxAmountAssumption`: the largest amount is a natural number.
- `LedgerAssumption`: finitely many accounts and assets. A ledger is a map with an
  entry for each that was ever named.
- `MantissaAssumption`: both mantissas are powers of two, a long double's greater than
  70000, a double's than 10000; `ReportsAssumption`: a format's range of exact units
  takes the product of four amounts and the scale. Both hold of every format named
  above with int64 amounts.
- `EngineAssumption`: epoch bounds that fit their width, finitely many packets,
  seeds and limits that are amounts, lanes and templates of the types the loader
  gives them.
- `QueueAssumption`: packet ids have an order, priorities are those of
  `priority.cpp`. `ScenarioAssumption`: declared accounts are accounts.
- `ScoresFit`, a hypothesis of `OlderFirstCorrect` alone: the epochs of a scenario
  span at most (`EpochLimit` − 105) / 3, about 3·10^18 of them. Beyond it the score
  of an ordinary packet, which has no check, wraps. The `queue` run satisfies it.

TLC evaluates all but the last as assumptions of the runs that use them. A deadline
that has wrapped is excluded nowhere: it is part of `PlanesAgree` that a deadline
either lies ahead of the epoch it was taken at or is negative, and
`OlderGoesFirst` says itself that it is about deadlines that have not wrapped.

### Only model-checked

- The properties of the texts in `Client` (`TextsMeanOneValue`, `CutTextsAreRefused`,
  `NothingIsDropped`, `NullMeansLeftOut`, `ReceiptsTellApart`):
  the reader and the writer of `JsonText` are recursive over nested values, and the
  prover cannot reason in a module that reaches a recursive operator. Proved is what
  lies below them: `WrittenIsRead` for the strings of `TextsMeanOneValue`, and
  `ReceiptsToldApart` for `ReceiptsTellApart`, but for its hypothesis that what the
  loader accepts has no equals sign in an identifier.
- `ThrowsMakeNothing`: what a throw half way through a handler leaves of the money.
  `TypeCorrect` and `PacketHistoryCorrect` are proved of those states, and the other
  invariants hold up to the throw.
- `EveryCallEnds`: liveness under fairness.

## Not modelled

- `core/diagnostics`: version, banner and machine summary, constant text.
- The rendering of the reports beyond the figures that `Reports`, `Queue`, `Replay`
  and `ReportBuild` model, checkpoints and descriptions of the timeline, messages.
- Bytes below a token of JSON: UTF-8, and the unicode escapes of any but one control
  character. The hash of a receipt, which is taken to tell texts apart.
- Options on the command line other than `--json` and `--events`, and usage.
- A caller of the SDK that is itself killed: it leaves its directory behind, and
  nothing looks for it. Types of the SDK (`types.ts`), which exist for the compiler.
- `Amount::parse`, `checked_mul` and others that nothing calls.
- Build scripts and tests, which were read for what they expect.

## Plan

The order was: amounts and ledger, engine, its properties and proofs; then the
views (`Replay`, `Queue`, `Reports`), the schema (`Scenario`), the abstract
`Lifecycle` and the claims, the sums of `ReportBuild`; then the width of epochs, two
assets at the limits, the texts (`Strings`, `JsonText`, `Loader`, `Receipts`) and the SDK
(`Caller` and `Client`). All of these are in place, and with them the proofs of
every safety property of the engine, the schema, the log, the views and the calls
of the SDK, and of the strings and the receipts among the texts. What is left is a
proof about nested values, which needs reader and writer as recursive functions over
a bounded nesting.
