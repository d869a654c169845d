-------------------------- MODULE CommandExecutor --------------------------
(***************************************************************************)
(* CommandExecutor of controller-core/src/repl/commands.rs, as far as it   *)
(* only looks at the line: what `execute' makes of one, up to the moment a *)
(* sequence is handed to the scheduler or an answer is due.  The firmware  *)
(* and the emulator put different schedulers behind it.                    *)
(***************************************************************************)
EXTENDS Grammar

FaultRecoveryMaxRetries == 3     \* FAULT_RECOVERY_MAX_RETRIES

(* A request for a sequence: start_after in milliseconds (0 for none) and  *)
(* retry_override, a set of at most one number.  `force_recovery' has no   *)
(* reader and is left out.                                                 *)
Request(kind, delay, retries) ==
  [answer |-> "", kind |-> kind, delay |-> delay, retries |-> retries]

\* An answer that needs no scheduler.
AnswerOnly(answer) ==
  [answer |-> answer, kind |-> "", delay |-> 0, retries |-> {}]

RecoveryKinds ==
  [RecoveryEnter |-> "RecoveryEntry", RecoveryExit |-> "NormalReboot",
   RecoveryNow |-> "RecoveryImmediate"]

SupportedAny(retries) == retries \subseteq Nat     \* mutant: no limit

(* The arm of `fault recover' in dispatch. *)
Supported(retries) == retries \subseteq 1..FaultRecoveryMaxRetries

(* dispatch, with handle_reboot, handle_recovery and handle_fault up to    *)
(* their call of the scheduler.  A delay of nothing carries no start_after.*)
Dispatch(command) ==
  CASE command.name = "reboot" ->
         Request("NormalReboot", command.delay, {})
    [] command.name = "recovery" ->
         Request(RecoveryKinds[command.choice], 0, {})
    [] command.name = "fault" ->
         IF Supported(command.retries)
         THEN Request("FaultRecovery", 0, command.retries)
         ELSE AnswerOnly("Unsupported")
    [] command.name = "status" -> AnswerOnly("Status")
    [] command.name = "help" -> AnswerOnly("Unsupported")

(* execute *)
Understood(line) ==
  LET parsed == Parse(line)
  IN IF parsed.error # "" THEN AnswerOnly("Syntax")
     ELSE Dispatch(parsed.command)
=============================================================================
