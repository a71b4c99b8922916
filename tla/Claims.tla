------------------------------- MODULE Claims -------------------------------
(***************************************************************************)
(* Statements of the repository's documents about the engine and its       *)
(* reports that the code does not keep.  Each is checked by a run of its   *)
(* own that shows how the code departs from it.                            *)
(***************************************************************************)
EXTENDS Reports

\* SECURITY.md gives the fee of any lane as floor(gross * fee_bps / 10000): no
\* quote of a valid lane, a lane without a fee included, dies on its way.
FeesAreComputed == failure # "Trap"

\* SECURITY.md: retries have the configured bound, which is that of the packet's lane.
RetriesAreBounded ==
  failure = "none" =>
    \A p \in DOMAIN records : records[p].attempt <= lanes[records[p].lane].max_retries

\* SECURITY.md: a packet that has timed out is confirmed after a retry only, so
\* that no packet settles while its source has its reserve back.
PaidOnlyWhileHeld == failure = "none" => PaidAfterRelease = {}

\* SECURITY.md: amounts are multiplied with a check, the ratio of an account's
\* reserves included.
RatiosAreChecked == failure = "none" => \A h \in Holders : RatioFits(h)
=============================================================================
