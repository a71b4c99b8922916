------------------------------- MODULE Caller -------------------------------
(***************************************************************************)
(* DriftClient (client/src/client.ts) and the program it starts for each   *)
(* call (main.cpp).  The caller is one thread that waits in spawnSync; the *)
(* program runs beside it, writes what it has to say piece by piece and    *)
(* may be killed, by the time limit, by the limit of the buffer or by      *)
(* someone else.  Every file operation may fail.                           *)
(*                                                                         *)
(* Only the control is here.  What the texts that pass between the two are *)
(* and mean comes in as parameters, whose values module Client defines.    *)
(***************************************************************************)
EXTENDS Integers, Sequences

CONSTANTS
  Docs,            \* the scenarios that callers write
  Timeouts,        \* what a caller may pass as timeoutMs
  MaxBuffer,       \* bound: stands for the 8 MiB that spawnSync takes of an output
  Stringify(_),    \* the text that simulate writes of a scenario
  Damages(_),      \* what may have become of the file of a scenario before a call,
  FilesOf(_, _),   \* and the texts that such a file may then hold
  Loads(_),        \* whether the program loads a text as a scenario it accepts,
  Fits(_),         \* whether the funds of that scenario can be added up,
  Prints(_, _, _), \* and what a call of some kind prints for it, with events or not
  Decodes(_, _)    \* what a call of some kind makes of an output, if it can

VARIABLES
  timeoutMs,
  pc,         \* where the caller is in its call
  call,       \* what is called, on which scenario, with which flag
  file,       \* the text under the path that the program is given
  directory,  \* whether the directory of this call is there
  child, status, output,  \* of the program: its state, its exit status, what it printed
  error,      \* result.error of spawnSync, or what failed around it
  outcome     \* what the call returns or throws

started == <<child, status, output>>
vars == <<timeoutMs, pc, call, file, directory, started, error, outcome>>

Missing   == <<<<"missing">>>>
NoDoc     == <<"none">>
NoCall    == [kind |-> "none", doc |-> NoDoc, events |-> FALSE, damage |-> "none"]
NoOutcome == <<"none">>
Thrown(why)     == <<"thrown", why>>
Returned(value) == <<"returned", value>>

Alive == child \in {"loading", "running", "printing"}

-----------------------------------------------------------------------------
(* The caller: DriftClient's constructor, validate, run and simulate.      *)

NotANumber == -1  \* NaN as a timeout

\* Faulty variant: no lower bound.
ValidTimeoutAny(t) == t = NotANumber \/ t <= 120000

\* The constructor's comparisons are both false for a NaN, which goes through.
ValidTimeout(t) == t = NotANumber \/ ~(t < 100 \/ t > 120000)

Init ==
  /\ timeoutMs \in {t \in Timeouts : ValidTimeout(t)}
  /\ pc = "idle" /\ call = NoCall /\ file = Missing /\ directory = FALSE
  /\ child = "none" /\ status = 0 /\ output = <<>> /\ error = "none" /\ outcome = NoOutcome

\* validate and run on a path; one that does not end in .json is refused at once.
CallPath(kind, doc, events, damage) ==
  /\ pc = "idle"
  /\ call' = [kind |-> kind, doc |-> doc, events |-> events, damage |-> damage]
  /\ \/ file' \in FilesOf(doc, damage) /\ pc' = "spawning" /\ UNCHANGED outcome
     \/ file' = Missing /\ pc' = "done" /\ outcome' = Thrown("path")
     \/ file' = Missing /\ pc' = "spawning" /\ UNCHANGED outcome
  /\ UNCHANGED <<timeoutMs, directory, started, error>>

\* simulate, up to mkdtempSync.
CallSimulate(doc, events) ==
  /\ pc = "idle"
  /\ call' = [NoCall EXCEPT !.kind = "simulate", !.doc = doc, !.events = events]
  /\ \/ directory' = TRUE /\ pc' = "writing" /\ UNCHANGED outcome
     \/ directory' = FALSE /\ pc' = "done" /\ outcome' = Thrown("directory")
  /\ UNCHANGED <<timeoutMs, file, started, error>>

\* Faulty variant: the directory is removed only after a call that went well.
LeaveIfWell(result) ==
  /\ outcome' = result
  /\ pc' = IF call.kind = "simulate" /\ result[1] = "returned" THEN "cleaning" ELSE "done"

\* The finally of simulate stands between a result, or an error, and its caller.
Leave(result) ==
  /\ outcome' = result
  /\ pc' = IF call.kind = "simulate" THEN "cleaning" ELSE "done"

WriteScenario ==
  /\ pc = "writing"
  /\ \/ file' = Stringify(call.doc) /\ pc' = "spawning" /\ UNCHANGED outcome
     \/ file' \in {Missing, <<>>} /\ Leave(Thrown("write"))
  /\ UNCHANGED <<timeoutMs, call, directory, started, error>>

\* spawnSync throws for a timeout that is no integer, and reports a start that failed.
Spawn ==
  /\ pc = "spawning"
  /\ \/ timeoutMs # NotANumber /\ child' = "loading" /\ pc' = "waiting" /\ UNCHANGED outcome
     \/ child' = "none" /\ Leave(Thrown("spawn"))
  /\ UNCHANGED <<timeoutMs, call, file, directory, status, output, error>>

\* Faulty variant: the exit status is not looked at.
ExecutedAnyStatus ==
  IF error # "none" THEN Thrown(error) ELSE Returned(output)

\* execute, once spawnSync has returned.
Executed ==
  IF error # "none" THEN Thrown(error)
  ELSE IF status # 0 THEN Thrown("status")
  ELSE Returned(output)

\* What validate and run make of the output that execute returns.
Decoded(kind, text) ==
  LET root == Decodes(kind, text)
  IN  IF root.ok THEN Returned(root.value) ELSE Thrown("syntax")

Result == IF Executed[1] = "thrown" THEN Executed ELSE Decoded(call.kind, output)

Reap ==
  /\ pc = "waiting" /\ child \in {"exited", "killed"}
  /\ Leave(Result)
  /\ UNCHANGED <<timeoutMs, call, file, directory, started, error>>

\* rmSync; what it throws takes the place of the result.
Clean ==
  /\ pc = "cleaning" /\ pc' = "done"
  /\ \/ directory' = FALSE /\ file' = Missing /\ UNCHANGED outcome
     \/ outcome' = Thrown("remove") /\ UNCHANGED <<directory, file>>
  /\ UNCHANGED <<timeoutMs, call, started, error>>

\* The caller has its outcome.  A directory that stayed is in no later call's way.
Return ==
  /\ pc = "done" /\ pc' = "idle"
  /\ call' = NoCall /\ file' = Missing /\ directory' = FALSE
  /\ child' = "none" /\ status' = 0 /\ output' = <<>> /\ error' = "none" /\ outcome' = NoOutcome
  /\ UNCHANGED timeoutMs

-----------------------------------------------------------------------------
(* The program, and what may end it.                                       *)

CallerWaits == UNCHANGED <<timeoutMs, pc, call, file, directory, outcome>>

Exits(code) == child' = "exited" /\ status' = code

\* main up to the loaded scenario.
ChildLoad ==
  /\ child = "loading"
  /\ IF Loads(file) THEN child' = "running" /\ UNCHANGED status ELSE Exits(1)
  /\ CallerWaits /\ UNCHANGED <<output, error>>

\* The engine and the report may refuse what the schema accepts; the funds that
\* register_account adds up have to fit.
ChildRun ==
  /\ child = "running"
  /\ \/ Exits(1)
     \/ Fits(file) /\ child' = "printing" /\ UNCHANGED status
  /\ CallerWaits /\ UNCHANGED <<output, error>>

Printed == Prints(call.kind, call.events, file)

\* The pipe takes one piece after the other, until there are too many.
ChildPrint ==
  /\ child = "printing" /\ Len(output) < Len(Printed)
  /\ output' = Append(output, Printed[Len(output) + 1])
  /\ IF Len(output') > MaxBuffer THEN child' = "killed" /\ error' = "buffer"
     ELSE UNCHANGED <<child, error>>
  /\ CallerWaits /\ UNCHANGED status

ChildExit ==
  /\ child = "printing" /\ output = Printed /\ Exits(0)
  /\ CallerWaits /\ UNCHANGED <<output, error>>

\* The time limit, which may also come after the exit, before the caller is told.
TimeLimit ==
  /\ pc = "waiting" /\ error = "none" /\ timeoutMs > 0
  /\ error' = "timeout"
  /\ child' = IF Alive THEN "killed" ELSE child
  /\ CallerWaits /\ UNCHANGED <<status, output>>

\* A signal from elsewhere: no error of spawnSync, and no status.
Killed ==
  /\ Alive /\ child' = "killed" /\ status' = -1
  /\ CallerWaits /\ UNCHANGED <<output, error>>

-----------------------------------------------------------------------------
Call ==
  \E doc \in Docs :
    \/ \E damage \in Damages(doc) :
         CallPath("validate", doc, FALSE, damage)
           \/ \E events \in BOOLEAN : CallPath("run", doc, events, damage)
    \/ \E events \in BOOLEAN : CallSimulate(doc, events)

ClientStep == WriteScenario \/ Spawn \/ Reap \/ Clean \/ Return

ChildStep == ChildLoad \/ ChildRun \/ ChildPrint \/ ChildExit \/ Killed

Next == Call \/ ClientStep \/ ChildStep \/ TimeLimit

\* A step of the caller, told by where it stands and comes to: it is enabled when
\* ClientStep is, whose parts would each be evaluated to find that out.
CallerMoves ==
  /\ \/ pc \in {"writing", "spawning", "cleaning", "done"}
     \/ pc = "waiting" /\ child \in {"exited", "killed"}
  /\ pc' \in {"idle", "spawning", "waiting", "cleaning", "done"} \ {pc}

\* The caller's thread goes on when it can, and timers fire.  Nothing is asked of
\* the program, which may hang anywhere, nor has anyone to make a call.
Fairness == WF_pc(CallerMoves) /\ WF_vars(TimeLimit)

Spec == Init /\ [][Next]_vars /\ Fairness
-----------------------------------------------------------------------------
HasReturned == pc \in {"cleaning", "done"} /\ outcome[1] = "returned"

\* The text that the program was given, also when its file is gone.
TextGiven == IF call.kind = "simulate" THEN Stringify(call.doc) ELSE file

\* A call returns the report of the text it was given, whole and decoded, and
\* nothing else: not what a killed or failed program had printed, nor a report that
\* the time limit or the buffer cut off, and no call returns for a text that the
\* program refuses.
ReturnsItsReport ==
  HasReturned =>
    /\ Loads(TextGiven)
    /\ outcome = Decoded(call.kind, Prints(call.kind, call.events, TextGiven))

\* simulate leaves nothing behind, whichever of its steps failed, unless removing
\* itself did; and it never removes the scenario under a program that still runs.
NothingIsLeftBehind ==
  /\ pc = "done" /\ outcome # Thrown("remove") => ~directory
  /\ Alive => pc = "waiting" /\ (call.kind = "simulate" => directory /\ file = Stringify(call.doc))

\* Every call ends, with a result or an error, even if the program hangs: the
\* constructor lets no client through whose calls have no time limit.
EveryCallEnds == (pc # "idle") ~> (pc = "idle")
=============================================================================
