---------------------------- MODULE PowerMonitor ----------------------------
(***************************************************************************)
(* VrefintPowerMonitor of controller-core/src/orchestrator/mod.rs: an ADC  *)
(* reading of the internal reference is turned into the millivolts of the  *)
(* rail (the lower the reading, the higher the rail) and classified with   *)
(* hysteresis.  The strap orchestrator polls it before every turn of a run.*)
(***************************************************************************)
EXTENDS Naturals, Sequences

CONSTANTS
  None,         \* the provider has no sample
  Calibration,  \* calibration_raw, 0 or 65535 when it was never programmed
  Reference,    \* reference_mv
  Entry,        \* brownout_entry_mv
  Recovery,     \* recovery_mv
  Readings,     \* the readings the ADC may deliver
  MaxSamples    \* bound on the samples polled

MaxU16 == 65535
MaxU32 == MaxU16 * (MaxU16 + 2)

ASSUME MonitorAssumption ==
  /\ Calibration \in 0..MaxU16
  /\ Reference \in 1..MaxU16
  /\ Entry \in 0..MaxU16 /\ Recovery \in 0..MaxU16 /\ Entry < Recovery
  /\ Readings \subseteq 0..MaxU16
  /\ None \notin Nat
  /\ MaxSamples \in Nat

VARIABLES
  lastState,  \* last_state
  samples     \* history: what the provider delivered, oldest first

VrefintStates == {"Unknown", "Stable", "BrownOut"}
Samples == Readings \cup {None}

TypeOK == lastState \in VrefintStates /\ samples \in Seq(Samples)

Calibrated == Calibration \notin {0, MaxU16}

Lesser(a, b) == IF a <= b THEN a ELSE b

(* In u32, the numerator and the rounding included. *)
Numerator(reading) == Calibration * Reference + reading \div 2

MillivoltsTruncated(reading) ==     \* mutant: rounds down
  Lesser((Calibration * Reference) \div reading, MaxU16)

(* millivolts_from_reading; only asked of readings that are not 0. *)
Millivolts(reading) == Lesser(Numerator(reading) \div reading, MaxU16)

ClassifyAtEntry(millivolts) ==     \* mutant: one threshold
  IF millivolts <= Entry THEN "BrownOut" ELSE "Stable"

(* classification_for *)
Classify(millivolts) ==
  IF IF lastState = "BrownOut" THEN millivolts < Recovery
     ELSE millivolts <= Entry
  THEN "BrownOut" ELSE "Stable"

Valid(sample) == Calibrated /\ sample # None /\ sample # 0

Init == lastState = "Unknown" /\ samples = <<>>

(* poll; an invalid sample forgets what was known. *)
Poll(sample) ==
  /\ Len(samples) < MaxSamples
  /\ samples' = Append(samples, sample)
  /\ \/ Valid(sample) /\ lastState' = Classify(Millivolts(sample))
     \/ ~Valid(sample) /\ lastState' = "Unknown"

Next == \E sample \in Samples : Poll(sample)

vars == <<lastState, samples>>

Spec == Init /\ [][Next]_vars

-----------------------------------------------------------------------------
(* Some sample fell to the entry threshold, and since then every sample    *)
(* was valid and below the recovery threshold.                             *)
Dipped ==
  \E i \in 1..Len(samples) :
    /\ Valid(samples[i]) /\ Millivolts(samples[i]) <= Entry
    /\ \A j \in (i + 1)..Len(samples) :
         Valid(samples[j]) /\ Millivolts(samples[j]) < Recovery

(* The classification is the one hysteresis demands of the whole history   *)
(* of samples, not only of the last two: no sequence of readings between   *)
(* the thresholds makes it chatter.                                        *)
FollowsHistory ==
  lastState = IF samples = <<>> \/ ~Valid(samples[Len(samples)]) THEN "Unknown"
              ELSE IF Dipped THEN "BrownOut" ELSE "Stable"

(* The millivolts are the calibration quotient rounded half up, unless the *)
(* u16 saturates, and a reading above another never shows a higher rail.   *)
ReadingsConvert ==
  \A i, j \in 1..Len(samples) :
    Valid(samples[i]) /\ Valid(samples[j]) =>
      LET r == samples[i] mv == Millivolts(r)
      IN /\ mv < MaxU16 =>
              /\ 2 * mv * r <= 2 * Calibration * Reference + r
              /\ 2 * Calibration * Reference < 2 * mv * r + r + 1
         /\ r <= samples[j] => mv >= Millivolts(samples[j])
=============================================================================
