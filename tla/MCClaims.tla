------------------------------ MODULE MCClaims ------------------------------
(***************************************************************************)
(* An instance for the claims: the queue's packets over two lanes, the     *)
(* fast one of which may charge no fee.                                    *)
(***************************************************************************)
EXTENDS MCQueue, Claims

MCClaimLanes ==
  {Lane("fast", 1, 2000, 1, TRUE, TRUE), Lane("fast", 1, 0, 1, TRUE, TRUE),
   Lane("slow", 2, 2000, 2, FALSE, FALSE)}

MCClaimTemplates ==
  {Sent("p1", "slow", 4, "normal"), Sent("p1", "fast", 4, "normal"),
   Sent("p2", "fast", 5, "normal")}
=============================================================================
