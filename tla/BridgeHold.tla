----------------------------- MODULE BridgeHold -----------------------------
(***************************************************************************)
(* The helpers of controller-core/src/orchestrator/mod.rs that time the    *)
(* steps of a run and end a bridge wait after a timeout.  Only their tests *)
(* call them: the firmware times its steps itself (StrapOrchestrator) and  *)
(* has no timeout.  A run is its two fields that they touch; a deadline is *)
(* kept as the time left.                                                  *)
(***************************************************************************)
LOCAL INSTANCE Naturals

CONSTANTS
  NoDeadline,  \* an absent step_deadline
  Timeouts,    \* the timeouts a configuration may have, 0 for none
  Holds,       \* the holds of steps
  MaxStepTime  \* bound on the time a step is watched for

ASSUME HoldAssumption ==
  /\ Timeouts \subseteq Nat /\ Holds \subseteq Nat /\ MaxStepTime \in Nat
  /\ NoDeadline \notin Nat

VARIABLES
  timeout,          \* BridgeHoldConfig
  waitingOnBridge,  \* waiting_on_bridge
  stepDeadline,     \* step_deadline
  step,             \* history: completion and hold of the current step,
  stepTime,         \*   the time since it began,
  heard             \*   and whether there was activity since then

holdVars == <<timeout, waitingOnBridge, stepDeadline, step, stepTime, heard>>

Completions == {"AfterDuration", "OnBridgeActivity", "OnEvent"}

HoldInit ==
  /\ timeout \in Timeouts
  /\ waitingOnBridge = FALSE /\ stepDeadline = NoDeadline
  /\ step = [completion |-> "OnEvent", hold |-> 0]
  /\ stepTime = 0 /\ heard = FALSE

(* begin_bridge_wait *)
BeginBridgeWait ==
  /\ waitingOnBridge' = TRUE
  /\ stepDeadline' = IF timeout > 0 THEN timeout ELSE NoDeadline

(* configure_step_timing, whenever the caller goes on to another step. *)
ConfigureStepTiming ==
  /\ \E completion \in Completions, hold \in Holds :
       /\ step' = [completion |-> completion, hold |-> hold]
       /\ \/ completion = "OnBridgeActivity" /\ BeginBridgeWait
          \/ /\ completion = "AfterDuration"
             /\ waitingOnBridge' = FALSE /\ stepDeadline' = hold
          \/ /\ completion = "OnEvent"
             /\ waitingOnBridge' = FALSE /\ stepDeadline' = NoDeadline
  /\ stepTime' = 0 /\ heard' = FALSE
  /\ UNCHANGED timeout

SatisfiedUnasked ==     \* mutant: whatever the step waits for
  waitingOnBridge' = FALSE /\ stepDeadline' = NoDeadline

Satisfied ==
  \/ waitingOnBridge /\ waitingOnBridge' = FALSE /\ stepDeadline' = NoDeadline
  \/ ~waitingOnBridge /\ UNCHANGED <<waitingOnBridge, stepDeadline>>

(* satisfy_bridge_wait, at any activity. *)
SatisfyBridgeWait ==
  /\ Satisfied
  /\ heard' = TRUE
  /\ UNCHANGED <<timeout, step, stepTime>>

StepTimePasses ==
  /\ stepTime < MaxStepTime
  /\ stepTime' = stepTime + 1
  /\ stepDeadline' = IF stepDeadline \in {NoDeadline, 0} THEN stepDeadline
                     ELSE stepDeadline - 1
  /\ UNCHANGED <<timeout, waitingOnBridge, step, heard>>

HoldNext == ConfigureStepTiming \/ SatisfyBridgeWait \/ StepTimePasses

HoldSpec == HoldInit /\ [][HoldNext]_holdVars

\* bridge_wait_timed_out; a deadline that is reached is 0.
TimedOut == waitingOnBridge /\ stepDeadline = 0

-----------------------------------------------------------------------------
(* The timeout speaks for the step that waits and for no other: it is over *)
(* exactly when the current step waits for the bridge, was not satisfied,  *)
(* and has lasted as long as the configuration, if that sets a limit.      *)
(* Activity never takes the deadline of a step that does not wait, and     *)
(* nothing is left of one step's wait in the next.                         *)
HoldFollowsTheStep ==
  LET waits == step.completion = "OnBridgeActivity" /\ ~heard
  IN /\ waitingOnBridge = waits
     /\ TimedOut = (waits /\ timeout > 0 /\ stepTime >= timeout)
     /\ step.completion = "AfterDuration" =>
          stepDeadline = IF stepTime >= step.hold THEN 0
                         ELSE step.hold - stepTime
     /\ step.completion # "AfterDuration" /\ ~waits => stepDeadline = NoDeadline
=============================================================================
