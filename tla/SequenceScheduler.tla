------------------------- MODULE SequenceScheduler -------------------------
(***************************************************************************)
(* SequenceScheduler of controller-core/src/orchestrator/mod.rs: a request *)
(* is checked against a cooldown per sequence kind and offered to a        *)
(* bounded queue.  Deadlines are kept as the time left until they are      *)
(* reached.  `new' registers a template for every kind and nothing removes *)
(* one, so MissingTemplate is not a verdict.                               *)
(***************************************************************************)
EXTENDS Naturals

\* CooldownTracker::new
NoCooldown(kinds) == [k \in kinds |-> 0]

(* enqueue_with_flags, in the order of its checks. *)
Verdict(nextAllowed, k, room) ==
  IF nextAllowed[k] > 0 THEN "CooldownActive"
  ELSE IF room THEN "ok" ELSE "QueueFull"

(* reserve_with_duration, for a start `ahead' in the future: update_deadline *)
(* only ever moves a deadline later.                                         *)
Reserve(nextAllowed, k, ahead, cooldown) ==
  [nextAllowed EXCEPT ![k] =
     IF @ >= ahead + cooldown THEN @ ELSE ahead + cooldown]

CooldownsTick(nextAllowed) ==
  [k \in DOMAIN nextAllowed |->
     IF nextAllowed[k] = 0 THEN 0 ELSE nextAllowed[k] - 1]
=============================================================================
