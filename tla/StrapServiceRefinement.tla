----------------------- MODULE StrapServiceRefinement -----------------------
(***************************************************************************)
(* The orchestrator implements StrapService: a command waits in the local  *)
(* of `run' (held), in pending_commands or in the channel, in that order.  *)
(* Both hypotheses of the mapping are needed: a build with debug           *)
(* assertions (otherwise commands are lost from the middle of the line)    *)
(* and an embedding that does not report the loss of the control link      *)
(* (which empties pending_commands on purpose).                            *)
(***************************************************************************)
EXTENDS StrapOrchestrator

Waiting ==
  (IF held = None THEN <<>> ELSE <<held.id>>) \o Ids(pending) \o Ids(rx)

Serving == IF run = None THEN None ELSE run.cmd.id

Service == INSTANCE StrapService WITH
             Depth <- QueueDepth, Idle <- None,
             waiting <- Waiting, serving <- Serving,
             low <- straps, accepted <- issued

(* Every step of the task, and of what surrounds it, is one the service    *)
(* allows, or changes nothing the service can see.                         *)
ImplementsService == Service!ServiceSpec
=============================================================================
