----------------------------- MODULE Controller -----------------------------
(***************************************************************************)
(* The strap orchestrator with the console in front of it: CommandExecutor *)
(* turns a line into a request to the SequenceScheduler, whose producer is *)
(* the sending end of the orchestrator's channel.  The REPL task runs a    *)
(* line to its reply without an await between the cooldown check and the   *)
(* queue, so a line is one step, taken while the orchestrator task is      *)
(* suspended.                                                              *)
(***************************************************************************)
EXTENDS StrapOrchestrator, SequenceScheduler, CommandExecutor

CONSTANTS
  HostLines,    \* the lines the host sends, as tokens
  Scale         \* the ticks of the delays, in milliseconds, that they carry

\* SequenceScheduler::new registers a template for every kind, and the bounds
\* of the orchestrator's inputs leave room for what the console can ask for.
ASSUME ConsoleAssumption ==
  /\ Kinds = {"NormalReboot", "RecoveryEntry", "RecoveryImmediate",
              "FaultRecovery"}
  /\ Kinds \subseteq Registered
  /\ HostLines \subseteq Seq(Tokens)
  /\ \A line \in HostLines : Scale[Understood(line).delay] \in Delays
  /\ 1..FaultRecoveryMaxRetries \cup {None} \subseteq Overrides

VARIABLES
  nextAllowed,  \* CooldownTracker: time left until each kind is ready
  reply,        \* what the host is told by this step, if anything
  since         \* history: time since a command of each kind was accepted

consoleVars == <<nextAllowed, reply, since>>

Cooldown(k) == Template[k].cooldown

ControllerInit ==
  /\ Init
  /\ nextAllowed = NoCooldown(Kinds)
  /\ reply = "none"
  /\ since = [k \in Kinds |-> Cooldown(k)]

ReservedFirst(kind, verdict) ==     \* mutant: reserved before the queue is tried
  Reserve(nextAllowed, kind, 0, Cooldown(kind))

(* The kind is reserved only for a command that was queued, from the       *)
(* moment of the request whatever delay it carries.                        *)
Reserved(kind, verdict) ==
  IF verdict = "ok" THEN Reserve(nextAllowed, kind, 0, Cooldown(kind))
  ELSE nextAllowed

(* enqueue_sequence *)
EnqueueSequence(kind, delay, retries) ==
  LET verdict == Verdict(nextAllowed, kind, Len(rx) < QueueDepth)
  IN /\ reply' = verdict
     /\ nextAllowed' = Reserved(kind, verdict)
     /\ \/ verdict # "ok" /\ UNCHANGED <<rx, issued, since>>
        \/ /\ verdict = "ok"
           /\ issued' = issued + 1
           /\ rx' = Append(rx, [id |-> issued + 1, kind |-> kind,
                                wait |-> delay, retries |-> retries])
           /\ since' = [since EXCEPT ![kind] = 0]

RetryOverride(retries) ==
  IF retries = {} THEN None ELSE CHOOSE n \in retries : TRUE

(* A line asks for a sequence or is answered on the spot: a line that does *)
(* not parse, `help', which the firmware's executor leaves unsupported,    *)
(* and `status', which only reads.                                         *)
Execute(asked) ==
  \/ /\ asked.answer = ""
     /\ EnqueueSequence(asked.kind, Scale[asked.delay],
                        RetryOverride(asked.retries))
  \/ /\ asked.answer # ""
     /\ reply' = asked.answer
     /\ UNCHANGED <<rx, issued, nextAllowed, since>>

HandleLine ==
  /\ pc \in Suspended
  /\ issued < MaxCommands
  /\ \E asked \in {Understood(line) : line \in HostLines} : Execute(asked)
  /\ UNCHANGED <<taskVars, linkUp, rail>>

TimePasses ==
  /\ Tick
  /\ nextAllowed' = CooldownsTick(nextAllowed)
  /\ since' = [k \in Kinds |-> IF since[k] < Cooldown(k) THEN since[k] + 1
                               ELSE since[k]]
  /\ reply' = "none"

Elsewhere ==
  /\ Task \/ RailChange
  /\ reply' = "none"
  /\ UNCHANGED <<nextAllowed, since>>

ControllerNext == HandleLine \/ TimePasses \/ Elsewhere

controllerVars == <<vars, consoleVars>>

ControllerSpec == ControllerInit /\ [][ControllerNext]_controllerVars

-----------------------------------------------------------------------------
(* The cooldown the host is told of is the one owed to the last command    *)
(* accepted: a request that was refused, because the queue was full or the *)
(* kind was cooling down, never pushes the deadline of its kind out.       *)
CooldownTracksAcceptance ==
  \A k \in Kinds : nextAllowed[k] + since[k] = Cooldown(k)

(* What the console lets through keeps every promise the orchestrator is   *)
(* given: the composed system is a behaviour of StrapOrchestrator, so all  *)
(* that is proved of that module holds here (Submit's inputs in            *)
(* particular: fault retries of 1 to 3 only, delays on reboots only).      *)
ImplementsOrchestrator == Spec
=============================================================================
