--------------------------- MODULE StrapSequences ---------------------------
(***************************************************************************)
(* The strap lines and the four sequence templates of                      *)
(* controller-core/src/sequences, with every duration in milliseconds.     *)
(* A template is an ordered list of steps; a step drives one line and is   *)
(* left after its hold has elapsed or on an outside signal.                *)
(***************************************************************************)
EXTENDS Naturals, Sequences

StrapId == {"Reset", "Rec", "Pwr", "Apo"}

StrapSequenceKind ==
  {"NormalReboot", "RecoveryEntry", "RecoveryImmediate", "FaultRecovery"}

Step(line, action, hold, completion) ==
  [line |-> line, action |-> action, hold |-> hold, completion |-> completion]

AssertLow(line, hold)   == Step(line, "AssertLow", hold, "AfterDuration")
ReleaseHigh(line, hold) == Step(line, "ReleaseHigh", hold, "AfterDuration")

NormalRebootSteps ==
  << AssertLow("Pwr", 200), ReleaseHigh("Pwr", 1000),
     AssertLow("Reset", 20), ReleaseHigh("Reset", 0) >>

\* The part both recovery sequences share: REC around the reset pulse.
RecoveryWindow ==
  << AssertLow("Rec", 100),
     AssertLow("Reset", 20), ReleaseHigh("Reset", 0),
     AssertLow("Rec", 500) >>

RecoveryEntrySteps == Append(RecoveryWindow, ReleaseHigh("Rec", 0))

RecoveryImmediateSteps ==
  RecoveryWindow
    \o << Step("Rec", "AssertLow", 0, "OnBridgeActivity"),
          ReleaseHigh("Rec", 0) >>

FaultRecoverySteps ==
  << AssertLow("Apo", 250), ReleaseHigh("Apo", 0) >> \o NormalRebootSteps

FaultRecoveryMaxRetries == 3

(***************************************************************************)
(* The registry the firmware fills before it spawns the tasks.  `scale'    *)
(* maps the holds and cooldowns that occur, in milliseconds, to ticks, and *)
(* `none' is an absent retry limit.                                        *)
(***************************************************************************)
Durations == {0, 20, 100, 200, 250, 500, 1000}

ScaledSteps(steps, scale) ==
  [i \in DOMAIN steps |-> [steps[i] EXCEPT !.hold = scale[@]]]

SequenceTemplate(steps, retries, scale) ==
  [phases |-> ScaledSteps(steps, scale), cooldown |-> scale[1000],
   maxRetries |-> retries]

DefaultTemplates(scale, none) ==
  [NormalReboot      |-> SequenceTemplate(NormalRebootSteps, none, scale),
   RecoveryEntry     |-> SequenceTemplate(RecoveryEntrySteps, none, scale),
   RecoveryImmediate |-> SequenceTemplate(RecoveryImmediateSteps, none, scale),
   FaultRecovery     |-> SequenceTemplate(FaultRecoverySteps,
                                          FaultRecoveryMaxRetries, scale)]
=============================================================================
