------------------------------ MODULE MCReports -----------------------------
(***************************************************************************)
(* An instance for the reports: two assets, a lane for each, and packets   *)
(* whose payer and payee change places, so that the sums by asset and by   *)
(* holder have something to mix up.  Amounts of one asset are small enough *)
(* for exact ratios, those of the other are rounded on their way.          *)
(***************************************************************************)
EXTENDS MCQueue, Reports, Refinement

MCReportSeed ==
  [h \in {<<"payer", "usd">>, <<"payee", "usd">>, <<"payer", "eur">>} |->
     IF h = <<"payer", "usd">> THEN 9 ELSE IF h = <<"payee", "usd">> THEN 1 ELSE 213]

MCReportLanes ==
  {Lane("fast", 1, 2000, 1, TRUE, TRUE),
   [Lane("slow", 2, 10, 1, FALSE, FALSE) EXCEPT !.asset = "eur", !.max_packet_amount = 300]}

MCReportTemplates ==
  {Sent("p1", "fast", 6, "normal"), Sent("p1", "slow", 213, "normal"),
   Template("p2", "fast", "payee", "payer", 4), Sent("p2", "fast", 5, "normal"),
   Sent("p2", "slow", 67, "normal")}
=============================================================================
