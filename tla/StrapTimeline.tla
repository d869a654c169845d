--------------------------- MODULE StrapTimeline ---------------------------
(***************************************************************************)
(* StrapOrchestrator watched by history variables: how long each line has  *)
(* been low or high, and what the power monitor said since.  They observe  *)
(* the task and never constrain it.  The timing requirements of            *)
(* specs/001-build-orin-controller/spec.md are stated over them.           *)
(***************************************************************************)
EXTENDS StrapOrchestrator

Sequence == INSTANCE StrapSequences

CONSTANTS
  Window,     \* ticks of a duration the specification gives in milliseconds
  Horizon     \* where the clocks of the lines saturate; `quiet' does at Holdoff

\* The clocks reach as far as the requirements ask.
ASSUME HorizonAssumption ==
  Horizon \in Nat /\ Window[1000] \in 0..Horizon /\ Holdoff <= Horizon

\* Every template of the registry cools down for a second at least
\* (NORMAL_REBOOT_COOLDOWN, which fault.rs takes over, and RECOVERY_COOLDOWN).
ASSUME CooldownAssumption ==
  \A k \in Registered : Template[k].cooldown >= Window[1000]

\* The registry has the templates of the firmware, their durations in ticks.
ASSUME RegistryAssumption ==
  /\ Window \in [Sequence!Durations -> 0..Horizon]
  /\ Window[100] + Window[20] + Window[500] <= Horizon
  /\ \A k \in Registered :
       /\ k \in Sequence!StrapSequenceKind
       /\ Template[k].phases = Sequence!DefaultTemplates(Window, None)[k].phases

VARIABLES
  low,      \* ticks each line has been low, 0 while it is high
  high,     \* ticks each line has been high, 0 while it is low
  quiet,    \* ticks since the monitor last reported a brown-out
  cut       \* was a run cut short by it, or by the link, since one completed?

history == <<low, high, quiet, cut>>

Later(n) == IF n < Horizon THEN n + 1 ELSE n

TimelineInit ==
  /\ Init
  /\ low = [l \in Lines |-> 0]
  /\ high = [l \in Lines |-> Horizon]
  /\ quiet = Holdoff
  /\ cut = FALSE

TimePasses ==
  /\ Tick
  /\ low' = [l \in Lines |-> IF l \in straps THEN Later(low[l]) ELSE 0]
  /\ high' = [l \in Lines |-> IF l \in straps THEN 0 ELSE Later(high[l])]
  /\ quiet' = IF quiet < Holdoff THEN quiet + 1 ELSE quiet
  /\ UNCHANGED cut

Released == straps \ straps'
Asserted == straps' \ straps

\* The active run has no step left and goes into its cooldown.
RunsOut ==
  /\ pc = "drive" /\ run.state # "Cooldown" /\ run'.state = "Cooldown"

\* The step polls the monitor and is told of a brown-out.
SeesBrownOut == rail = "BrownOut" /\ (Polling \/ pc = "recover")

\* A line that is switched begins its time low or high.
LinesSwitch ==
  /\ low' = [l \in Lines |-> IF l \in straps' THEN low[l] ELSE 0]
  /\ high' = [l \in Lines |-> IF l \in straps' THEN 0 ELSE high[l]]

Observe ==
  /\ LinesSwitch
  /\ quiet' = IF SeesBrownOut THEN 0 ELSE quiet
  /\ cut' = (SeesBrownOut \/ (cut /\ ~RunsOut))

TaskSteps == Task /\ Observe

OthersStep ==
  /\ \/ \E k \in Kinds, d \in Delays, r \in Overrides : Submit(k, d, r)
     \/ RailChange
     \/ ControlLinkLost
     \/ ControlLinkAttached
  /\ LinesSwitch
  /\ cut' = (cut \/ ~linkUp')
  /\ UNCHANGED quiet

TimelineNext == TimePasses \/ TaskSteps \/ OthersStep

TimelineSpec == TimelineInit /\ [][TimelineNext]_<<vars, history>>

-----------------------------------------------------------------------------
Kind == run.cmd.kind

(* BS-001 to BS-003: a line the sequence releases was low for at least its *)
(* window; RESET is pulsed only once PWR has been released for a second or *)
(* REC held for 100 ms; REC is let go only 500 ms after RESET.  Releases   *)
(* that abort a run (brown-out, link loss) are not made by drive_active_run*)
(* and may come at any time.                                               *)
Pulse == [Pwr |-> Window[200], Reset |-> Window[20], Apo |-> Window[250],
          Rec |-> Window[100] + Window[20] + Window[500]]

SpecWindows ==
  [][pc = "drive" =>
       /\ \A l \in Released : low[l] >= Pulse[l]
       /\ "Reset" \in Asserted =>
            IF Kind \in {"RecoveryEntry", "RecoveryImmediate"}
            THEN "Rec" \in straps /\ low["Rec"] >= Window[100]
            ELSE straps = {} /\ high["Pwr"] >= Window[1000]
       /\ "Rec" \in Released => high["Reset"] >= Window[500]]_<<vars, history>>

(* spec.md:32 asks for a cool-down of a second between presses of the      *)
(* power button, and every template has one: the first line a sequence     *)
(* lowers is lowered only when all lines have been high for a second, as   *)
(* long as no brown-out and no loss of the link cut short a run since the  *)
(* last one that ran out.  A retry is what the code exempts: its lines     *)
(* have been high only for the hold-off of the rail.                       *)
SequencesSpaced ==
  [][(straps = {} /\ Asserted # {} /\ run.state = "Arming") =>
       LET owed == IF ~cut THEN Window[1000]
                   ELSE IF run.retry > 0 THEN Holdoff ELSE 0
       IN \A l \in Lines : high[l] >= owed]_<<vars, history>>

(* await_power_recovery lets a retry go ahead only when no sample of the   *)
(* last stable_holdoff was a brown-out.                                    *)
RetryWaitsOutTheHoldoff ==
  [][(recovering /\ ~recovering' /\ linkUp') =>
       quiet >= Holdoff]_<<vars, history>>
=============================================================================
