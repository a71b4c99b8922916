------------------------------ MODULE MCQueue -------------------------------
(***************************************************************************)
(* An instance for the queue: two packets of several priorities that open, *)
(* expire and reopen through a fast and a slow lane, so that equal scores, *)
(* equal timeouts and every pair of buckets come up.  The epochs are the   *)
(* last ones there are: a deadline that is too late for them wraps, where  *)
(* one after the last epoch would just never have come.                    *)
(***************************************************************************)
EXTENDS MCEngine, Queue

MCQueueSeed == [h \in {"payer"} \X Assets |-> 9]

MCQueueLanes == {Lane("fast", 1, 2000, 1, TRUE, TRUE), Lane("slow", 3, 2000, 1, FALSE, FALSE)}

Sent(p, l, x, priority) == [Template(p, l, "payer", "payee", x) EXCEPT !.priority = priority]

MCQueueTemplates ==
  {Sent("p1", "fast", 5, "normal"), Sent("p1", "slow", 5, "critical"),
   Sent("p2", "slow", 4, "normal"), Sent("p2", "fast", 4, "normal")}

\* Of a failed run only its error counts, and of the others all but the log.
LiveWithoutLog ==
  IF failure = "none" THEN <<epoch, seeded, lanes, ledger, records, totals>> ELSE <<failure>>

MCPacketOrder == [p1 |-> 1, p2 |-> 2]
=============================================================================
