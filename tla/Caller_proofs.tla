---------------------------- MODULE Caller_proofs ----------------------------
(***************************************************************************)
(* What a call of the SDK returns and leaves, whatever the texts are, and  *)
(* whatever fails: the program is alive only in the wait, so that nothing  *)
(* it does comes between the steps of the caller, and in the wait its      *)
(* state tells what can be read from its output.                           *)
(***************************************************************************)
EXTENDS Caller, TLAPS

\* Where the caller is says who else may move, and what there is to remove.
ControlHolds ==
  /\ pc \in {"idle", "writing", "spawning", "waiting", "cleaning", "done"}
  /\ directory \in BOOLEAN
  /\ Alive => pc = "waiting"
  /\ pc \in {"writing", "cleaning"} \/ directory => call.kind = "simulate"
  /\ pc = "writing" => directory
  /\ pc = "idle" => ~directory
  /\ pc \in {"spawning", "waiting"} /\ call.kind = "simulate" =>
       directory /\ file = Stringify(call.doc)
  /\ pc = "done" /\ outcome # Thrown("remove") => ~directory

\* A program that has come to print was given a text that loads, one that ended
\* well has printed all there was, and one that was killed has left a trace of it.
ProgramHolds ==
  pc = "waiting" =>
    /\ child \in {"running", "printing"} => Loads(file)
    /\ child = "exited" /\ status = 0 => Loads(file) /\ output = Printed
    /\ child = "killed" => error # "none" \/ status # 0

CallInv == ControlHolds /\ ProgramHolds /\ ReturnsItsReport

-----------------------------------------------------------------------------

\* What execute returns, at the end of the wait.
LEMMA ResultIsReport ==
  ASSUME CallInv, pc = "waiting", child \in {"exited", "killed"}, Result[1] = "returned"
  PROVE  /\ Loads(file)
         /\ Result = Decoded(call.kind, Prints(call.kind, call.events, file))
<1>1. error = "none" /\ status = 0
  BY DEF Result, Executed, Thrown, Returned
<1>2. child = "exited"
  BY <1>1 DEF CallInv, ProgramHolds
<1>3. Loads(file) /\ output = Printed
  BY <1>1, <1>2 DEF CallInv, ProgramHolds
<1>4. Result = Decoded(call.kind, output)
  BY <1>1 DEF Result, Executed, Returned
<1>5. QED
  BY <1>3, <1>4 DEF Printed

\* While the caller waits, the program and what may end it change nothing of hers.
LEMMA WaitStep ==
  ASSUME CallInv, ChildStep \/ TimeLimit
  PROVE  CallInv'
<1>1. pc = "waiting" /\ CallerWaits
  BY DEF CallInv, ControlHolds, ChildStep, ChildLoad, ChildRun, ChildPrint, ChildExit, Killed,
         TimeLimit, Alive
<1>2. ControlHolds'
  BY <1>1 DEF CallInv, ControlHolds, CallerWaits, Alive
<1>3. ProgramHolds'
  <2>1. Printed' = Printed
    BY <1>1 DEF CallerWaits, Printed
  <2>2. CASE ChildLoad
    BY <1>1, <2>1, <2>2 DEF CallInv, ProgramHolds, ChildLoad, CallerWaits, Exits
  <2>3. CASE ChildRun
    BY <1>1, <2>1, <2>3 DEF CallInv, ProgramHolds, ChildRun, CallerWaits, Exits
  <2>4. CASE ChildPrint
    BY <1>1, <2>1, <2>4 DEF CallInv, ProgramHolds, ChildPrint, CallerWaits
  <2>5. CASE ChildExit
    BY <1>1, <2>1, <2>5 DEF CallInv, ProgramHolds, ChildExit, CallerWaits, Exits
  <2>6. CASE Killed
    BY <1>1, <2>1, <2>6 DEF CallInv, ProgramHolds, Killed, CallerWaits
  <2>7. CASE TimeLimit
    BY <1>1, <2>1, <2>7 DEF CallInv, ProgramHolds, TimeLimit, CallerWaits, Alive
  <2>8. QED
    BY <2>2, <2>3, <2>4, <2>5, <2>6, <2>7 DEF ChildStep
<1>4. ReturnsItsReport'
  BY <1>1 DEF CallerWaits, ReturnsItsReport, HasReturned
<1>5. QED
  BY <1>2, <1>3, <1>4 DEF CallInv

LEMMA CallStep ==
  ASSUME CallInv, Call
  PROVE  CallInv'
<1>1. pc = "idle" /\ ~Alive /\ directory = FALSE
  BY DEF CallInv, ControlHolds, Call, CallPath, CallSimulate
<1>2. ASSUME NEW kind \in {"validate", "run"}, NEW doc, NEW events, NEW damage,
             CallPath(kind, doc, events, damage)
      PROVE  CallInv'
  <2>1. call'.kind = kind /\ pc' \in {"spawning", "done"} /\ UNCHANGED <<directory, child>>
    BY <1>2 DEF CallPath, started
  <2>2. pc' = "done" => outcome' = Thrown("path")
    BY <1>2 DEF CallPath
  <2>3. ControlHolds' /\ ProgramHolds'
    BY <1>1, <2>1 DEF ControlHolds, ProgramHolds, Alive
  <2>4. ReturnsItsReport'
    BY <2>1, <2>2 DEF ReturnsItsReport, HasReturned, Thrown
  <2>5. QED
    BY <2>3, <2>4 DEF CallInv
<1>3. ASSUME NEW doc, NEW events, CallSimulate(doc, events)
      PROVE  CallInv'
  <2>1. call'.kind = "simulate" /\ child' = child
    BY <1>3 DEF CallSimulate, NoCall, started
  <2>2. \/ pc' = "writing" /\ directory' = TRUE
        \/ pc' = "done" /\ directory' = FALSE /\ outcome' = Thrown("directory")
    BY <1>3 DEF CallSimulate
  <2>3. ControlHolds' /\ ProgramHolds'
    BY <1>1, <2>1, <2>2 DEF ControlHolds, ProgramHolds, Alive
  <2>4. ReturnsItsReport'
    BY <2>2 DEF ReturnsItsReport, HasReturned, Thrown
  <2>5. QED
    BY <2>3, <2>4 DEF CallInv
<1>4. QED
  BY <1>2, <1>3 DEF Call

\* However a call comes to its result: what is left to do is to remove a directory.
LEMMA LeaveStep ==
  ASSUME CallInv, ~Alive', NEW result, Leave(result), UNCHANGED <<call, directory>>,
         call.kind # "simulate" => ~directory,
         result[1] = "returned" =>
           /\ UNCHANGED file /\ Loads(TextGiven)
           /\ result = Decoded(call.kind, Prints(call.kind, call.events, TextGiven))
  PROVE  CallInv'
<1>1. ControlHolds' /\ ProgramHolds'
  BY DEF CallInv, ControlHolds, ProgramHolds, Leave
<1>2. ReturnsItsReport'
  BY DEF ReturnsItsReport, HasReturned, TextGiven, Leave
<1>3. QED
  BY <1>1, <1>2 DEF CallInv

LEMMA CallerStep ==
  ASSUME CallInv, ClientStep
  PROVE  CallInv'
<1>1. /\ pc # "waiting" => ~Alive
      /\ call.kind # "simulate" => ~directory
  BY DEF CallInv, ControlHolds
<1>2. CASE WriteScenario
  <2>1. pc = "writing" /\ UNCHANGED <<call, directory, child>>
    BY <1>2 DEF WriteScenario, started
  <2>2. CASE file' = Stringify(call.doc) /\ pc' = "spawning"
    BY <1>1, <2>1, <2>2 DEF CallInv, ControlHolds, ProgramHolds, ReturnsItsReport, HasReturned, Alive
  <2>3. CASE Leave(Thrown("write"))
    BY <1>1, <2>1, <2>3, LeaveStep DEF Thrown, Alive
  <2>4. QED
    BY <1>2, <2>2, <2>3 DEF WriteScenario
<1>3. CASE Spawn
  <2>1. pc = "spawning" /\ UNCHANGED <<call, directory, file>>
    BY <1>3 DEF Spawn
  <2>2. CASE child' = "loading" /\ pc' = "waiting"
    BY <1>1, <2>1, <2>2 DEF CallInv, ControlHolds, ProgramHolds, ReturnsItsReport, HasReturned, Alive
  <2>3. CASE child' = "none" /\ Leave(Thrown("spawn"))
    BY <1>1, <2>1, <2>3, LeaveStep DEF Thrown, Alive
  <2>4. QED
    BY <1>3, <2>2, <2>3 DEF Spawn
<1>4. CASE Reap
  <2>1. /\ pc = "waiting" /\ child \in {"exited", "killed"} /\ Leave(Result)
        /\ UNCHANGED <<call, directory, file, child>>
    BY <1>4 DEF Reap, started
  <2>2. TextGiven = file
    BY <2>1 DEF CallInv, ControlHolds, TextGiven
  <2>3. QED
    BY <1>1, <2>1, <2>2, ResultIsReport, LeaveStep DEF Alive
<1>5. CASE Clean
  <2>1. /\ pc = "cleaning" /\ pc' = "done" /\ UNCHANGED <<call, child>>
        /\ \/ directory' = FALSE /\ UNCHANGED outcome
           \/ outcome' = Thrown("remove") /\ UNCHANGED directory
    BY <1>5 DEF Clean, started
  <2>2. call.kind = "simulate"
    BY <2>1 DEF CallInv, ControlHolds
  <2>3. ControlHolds' /\ ProgramHolds'
    BY <1>1, <2>1, <2>2 DEF CallInv, ControlHolds, ProgramHolds, Alive
  <2>4. ReturnsItsReport'
    BY <2>1, <2>2 DEF CallInv, ReturnsItsReport, HasReturned, TextGiven, Thrown
  <2>5. QED
    BY <2>3, <2>4 DEF CallInv
<1>6. CASE Return
  BY <1>6 DEF Return, CallInv, ControlHolds, ProgramHolds, ReturnsItsReport, HasReturned, Alive
<1>7. QED
  BY <1>2, <1>3, <1>4, <1>5, <1>6 DEF ClientStep

LEMMA CallInvStep ==
  CallInv /\ [Next]_vars => CallInv'
<1> SUFFICES ASSUME CallInv, [Next]_vars PROVE CallInv'
  OBVIOUS
<1>1. CASE UNCHANGED vars
  BY <1>1 DEF vars, started, CallInv, ControlHolds, ProgramHolds, ReturnsItsReport, HasReturned,
              TextGiven, Alive, Printed
<1>2. QED
  BY <1>1, WaitStep, CallStep, CallerStep DEF Next

LEMMA CallInvAlways ==
  Spec => []CallInv
<1>1. Init => CallInv
  BY DEF Init, CallInv, ControlHolds, ProgramHolds, ReturnsItsReport, HasReturned, Alive, NoCall
<1>2. QED
  BY <1>1, CallInvStep, PTL DEF Spec

\* In every call, whatever the texts are and whatever fails, simulate removes its
\* directory unless the removal itself fails, and never under a running program.
THEOREM NothingLeftCorrect ==
  Spec => []NothingIsLeftBehind
<1>1. CallInv => NothingIsLeftBehind
  BY DEF CallInv, ControlHolds, NothingIsLeftBehind
<1>2. QED
  BY <1>1, CallInvAlways, PTL

\* Whatever ends the program, and whenever, a call returns nothing but the whole
\* output of a program that has loaded the text of this call and ended well.
THEOREM ReturnsCorrect ==
  Spec => []ReturnsItsReport
<1>1. CallInv => ReturnsItsReport
  BY DEF CallInv
<1>2. QED
  BY <1>1, CallInvAlways, PTL
==============================================================================
