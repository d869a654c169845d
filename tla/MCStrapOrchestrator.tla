------------------------ MODULE MCStrapOrchestrator ------------------------
(***************************************************************************)
(* Values of the constants of StrapOrchestrator for TLC: the four real     *)
(* templates, their durations scaled down in an order-preserving way.      *)
(***************************************************************************)
EXTENDS StrapOrchestrator

Sequence == INSTANCE StrapSequences

(* 20, 100 and 200 ms become 1 tick, 250 ms 2, 500 ms 3, 1000 ms 5. *)
Ticks ==
  [ms \in Sequence!Durations |-> IF ms = 0 THEN 0 ELSE 1 + ms \div 250]

AllTemplates == Sequence!DefaultTemplates(Ticks, None)
=============================================================================
