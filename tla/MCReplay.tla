------------------------------ MODULE MCReplay ------------------------------
(***************************************************************************)
(* The instance of MCEngine with its log kept: fewer templates, a shorter  *)
(* run, and one packet with the name that the log's own events carry.      *)
(* Runs that have failed are told apart by their error only.               *)
(***************************************************************************)
EXTENDS MCEngine, Replay

MCSingleSeed == [h \in {"payer"} \X Assets |-> 9]

MCReplayTemplates ==
  {Template("p1", "fast", "payer", "payee", 5), Template("p1", "slow", "payer", "payee", 5),
   Template("system", "slow", "payer", "payee", 4)}

WithoutFailedRuns == IF failure = "none" THEN vars ELSE <<failure>>
=============================================================================
