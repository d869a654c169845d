----------------------- MODULE SequentialParts_proofs -----------------------
(***************************************************************************)
(* The parts that run to their end in the task that calls them, for every  *)
(* value of their constants: the conversion and the classification of the  *)
(* power monitor, the telemetry ring, what the status says of the cells,   *)
(* and the timing of a bridge wait.                                        *)
(***************************************************************************)
EXTENDS PowerMonitor, Telemetry, StatusCells, BridgeHold, TLAPS

(* The configuration in numbers.                                           *)
LEMMA MonitorFacts ==
  /\ MaxU16 \in Nat
  /\ Calibration \in Nat /\ Reference \in Nat
  /\ Calibration <= MaxU16 /\ Reference <= MaxU16
  /\ Entry \in Nat /\ Recovery \in Nat /\ Entry < Recovery
  /\ Readings \subseteq Nat
<1>1. MaxU16 \in Nat
  BY DEF MaxU16
<1> QED BY <1>1, MonitorAssumption

(* What integer division means, in products.                               *)
LEMMA Division ==
  ASSUME NEW a \in Nat, NEW b \in Nat \ {0}
  PROVE  /\ a \div b \in Nat
         /\ b * (a \div b) <= a
         /\ a < b * (a \div b) + b
  BY SMT

LEMMA ProductBounded ==
  ASSUME NEW m \in Nat, NEW a \in 0..m, NEW b \in 0..m
  PROVE  a * b \in 0..(m * m)
<1>1. a * b <= a * m /\ a * m <= m * m
  BY SMT
<1> QED BY <1>1, SMT

(* millivolts_from_reading never overflows u32: the product and the        *)
(* rounding of any 16-bit calibration, reference and reading fit.          *)
THEOREM NumeratorFits ==
  \A reading \in 0..MaxU16 : Numerator(reading) \in 0..MaxU32
<1> SUFFICES ASSUME NEW reading \in 0..MaxU16
             PROVE  Numerator(reading) \in 0..MaxU32
  OBVIOUS
<1>1. MaxU16 \in Nat /\ Calibration \in 0..MaxU16 /\ Reference \in 0..MaxU16
  BY MonitorFacts
<1>2. Calibration * Reference \in 0..(MaxU16 * MaxU16)
  BY <1>1, ProductBounded
<1>3. reading \div 2 \in 0..MaxU16
  <2>1. reading \in Nat /\ 2 \in Nat \ {0}
    BY <1>1, SMT
  <2>2. /\ reading \div 2 \in Nat
        /\ 2 * (reading \div 2) <= reading
    BY <2>1, Division
  <2> QED BY <2>2, <1>1, SMT
<1> DEFINE product == Calibration * Reference
           half    == reading \div 2
<1>4. Numerator(reading) = product + half
  BY DEF Numerator
<1>5. MaxU16 * MaxU16 \in Nat /\ MaxU32 = MaxU16 * MaxU16 + 2 * MaxU16
  BY <1>1, SMT DEF MaxU32
<1>6. product \in 0..(MaxU16 * MaxU16) /\ half \in 0..MaxU16
  BY <1>2, <1>3
<1> HIDE DEF product, half
<1> QED BY <1>1, <1>4, <1>5, <1>6, SMT
-----------------------------------------------------------------------------
(* A valid sample is a reading other than 0.                               *)
LEMMA ValidReading ==
  ASSUME NEW sample \in Samples, Valid(sample)
  PROVE  sample \in Nat \ {0}
BY MonitorFacts, SMT DEF Samples, Valid

(* The quotient before it saturates.                                       *)
Quotient(reading) == Numerator(reading) \div reading

(* Rounding to the nearest, by halves.                                     *)
LEMMA QuotientRounds ==
  ASSUME NEW r \in Nat \ {0}
  PROVE  /\ Quotient(r) \in Nat
         /\ 2 * Quotient(r) * r <= 2 * Calibration * Reference + r
         /\ 2 * Calibration * Reference < 2 * Quotient(r) * r + r + 1
<1> DEFINE product == Calibration * Reference
           half    == r \div 2
           q       == Quotient(r)
<1>1. product \in Nat
  BY MonitorFacts, SMT
<1>2. half \in Nat /\ 2 * half <= r /\ r < 2 * half + 2
  BY Division, SMT
<1>3. q \in Nat /\ r * q <= product + half /\ product + half < r * q + r
  <2>1. product + half \in Nat
    BY <1>1, <1>2, SMT
  <2>2. q = (product + half) \div r
    BY DEF Quotient, Numerator
  <2> HIDE DEF product, half, q
  <2> QED BY <2>1, <2>2, Division
<1>4. 2 * Calibration * Reference = 2 * product /\ 2 * q * r = 2 * (r * q)
  BY <1>3, MonitorFacts, SMT
<1>5. r * q \in Nat
  BY <1>3, SMT
<1> HIDE DEF product, half, q
<1>6. /\ 2 * (r * q) <= 2 * product + r
      /\ 2 * product < 2 * (r * q) + r + 1
  BY <1>1, <1>2, <1>3, <1>5, SMT
<1> QED BY <1>3, <1>4, <1>6 DEF q

(* A lower reading never means a lower rail.                               *)
LEMMA QuotientFalls ==
  ASSUME NEW r \in Nat \ {0}, NEW s \in Nat \ {0}, r <= s
  PROVE  Quotient(s) <= Quotient(r)
<1> DEFINE p == 2 * Calibration * Reference
           q == Quotient(r)
           t == Quotient(s)
<1>1. p \in Nat
  BY MonitorFacts, SMT
<1>2. q \in Nat /\ p < 2 * q * r + r + 1
  BY QuotientRounds
<1>3. t \in Nat /\ 2 * t * s <= p + s
  BY QuotientRounds
<1> HIDE DEF p, q, t
<1> SUFFICES ASSUME t > q PROVE FALSE
  BY <1>2, <1>3, SMT DEF q, t
<1>4. PICK d \in Nat : t = q + 1 + d
  <2>1. t - q - 1 \in Nat /\ t = q + 1 + (t - q - 1)
    BY <1>2, <1>3, SMT
  <2> QED BY <2>1
<1>5. PICK e \in Nat \ {0} : s = r + e
  <2>1. r # s
    BY <1>2 DEF q, t
  <2>2. s - r \in Nat \ {0} /\ s = r + (s - r)
    BY <2>1, SMT
  <2> QED BY <2>2
<1>6. (2 * q + 1) * s <= p
  <2>1. 2 * t * s = (2 * q + 1) * s + s + 2 * (d * s)
    BY <1>2, <1>4, SMT
  <2>2. d * s \in Nat /\ (2 * q + 1) * s \in Nat
    BY <1>2, <1>4, SMT
  <2> QED BY <1>1, <1>3, <2>1, <2>2, SMT
<1>7. (2 * q + 1) * s = 2 * q * r + r + (2 * q + 1) * e
  BY <1>2, <1>5, SMT
<1>8. (2 * q + 1) * e >= 1 /\ (2 * q + 1) * e \in Nat
  <2>1. q * e \in Nat /\ (2 * q + 1) * e = 2 * (q * e) + e
    BY <1>2, <1>5, SMT
  <2> QED BY <2>1, <1>5, SMT
<1>9. 2 * q * r \in Nat
  BY <1>2, SMT
<1> QED
  BY <1>1, <1>2, <1>6, <1>7, <1>8, <1>9, SMT
-----------------------------------------------------------------------------
(* The variables keep their types; the history is a sequence of samples.   *)
THEOREM TypeCorrect == Spec => []TypeOK
<1>1. Init => TypeOK
  BY DEF Init, TypeOK, VrefintStates
<1>2. TypeOK /\ [Next]_vars => TypeOK'
  <2> SUFFICES ASSUME TypeOK, [Next]_vars PROVE TypeOK'
    OBVIOUS
  <2>1. CASE UNCHANGED vars
    BY <2>1 DEF TypeOK, vars
  <2>2. ASSUME NEW sample \in Samples, Poll(sample) PROVE TypeOK'
    BY <2>2 DEF TypeOK, Poll, Classify, VrefintStates
  <2> QED BY <2>1, <2>2 DEF Next
<1> QED BY <1>1, <1>2, PTL DEF Spec

(* With every sample converted by the code's formula, the converted rail   *)
(* is the quotient rounded half up, and falls as readings rise.            *)
THEOREM Converts == Spec => []ReadingsConvert
<1>1. TypeOK => ReadingsConvert
  <2> SUFFICES ASSUME TypeOK,
                      NEW i \in 1..Len(samples), NEW j \in 1..Len(samples),
                      Valid(samples[i]), Valid(samples[j])
               PROVE  LET r == samples[i] mv == Millivolts(r)
                      IN /\ mv < MaxU16 =>
                              /\ 2 * mv * r <= 2 * Calibration * Reference + r
                              /\ 2 * Calibration * Reference
                                   < 2 * mv * r + r + 1
                         /\ r <= samples[j] => mv >= Millivolts(samples[j])
    BY DEF ReadingsConvert
  <2>1. samples[i] \in Samples /\ samples[j] \in Samples
    BY DEF TypeOK
  <2>2. samples[i] \in Nat \ {0} /\ samples[j] \in Nat \ {0}
    BY <2>1, ValidReading
  <2> DEFINE r == samples[i]
             s == samples[j]
  <2>3. /\ Quotient(r) \in Nat
        /\ 2 * Quotient(r) * r <= 2 * Calibration * Reference + r
        /\ 2 * Calibration * Reference < 2 * Quotient(r) * r + r + 1
    BY <2>2, QuotientRounds
  <2>4. Quotient(s) \in Nat
    BY <2>2, QuotientRounds
  <2>5. r <= s => Quotient(s) <= Quotient(r)
    BY <2>2, QuotientFalls
  <2>6. /\ Millivolts(r) = Lesser(Quotient(r), MaxU16)
        /\ Millivolts(s) = Lesser(Quotient(s), MaxU16)
    BY DEF Millivolts, Quotient
  <2>7. MaxU16 \in Nat
    BY MonitorFacts
  <2>8. Millivolts(r) < MaxU16 => Millivolts(r) = Quotient(r)
    BY <2>3, <2>6, <2>7, SMT DEF Lesser
  <2>9. r <= s => Millivolts(r) >= Millivolts(s)
    BY <2>3, <2>4, <2>5, <2>6, <2>7, SMT DEF Lesser
  <2> QED BY <2>3, <2>8, <2>9
<1> QED BY <1>1, TypeCorrect, PTL

(* One more valid sample: a dip is remembered until the rail recovers.     *)
LEMMA DippedStep ==
  ASSUME TypeOK, NEW sample \in Samples, samples' = Append(samples, sample)
  PROVE  Dipped' <=> /\ Valid(sample)
                     /\ \/ Millivolts(sample) <= Entry
                        \/ Dipped /\ Millivolts(sample) < Recovery
<1> DEFINE n == Len(samples)
<1>1. /\ n \in Nat /\ Len(samples') = n + 1
      /\ \A i \in 1..n : samples'[i] = samples[i]
      /\ samples'[n + 1] = sample
  BY DEF TypeOK
<1>2. (n + 1) \in 1..(n + 1) /\ (n + 2)..(n + 1) = {}
  BY <1>1
<1>3. ASSUME Dipped'
      PROVE  /\ Valid(sample)
             /\ \/ Millivolts(sample) <= Entry
                \/ Dipped /\ Millivolts(sample) < Recovery
  <2>1. PICK i \in 1..(n + 1) :
          /\ Valid(samples'[i]) /\ Millivolts(samples'[i]) <= Entry
          /\ \A j \in (i + 1)..(n + 1) :
               Valid(samples'[j]) /\ Millivolts(samples'[j]) < Recovery
    BY <1>1, <1>3 DEF Dipped, Valid, Millivolts, Numerator
  <2>2. CASE i = n + 1
    BY <1>1, <2>1, <2>2
  <2>3. CASE i # n + 1
    <3>1. i \in 1..n /\ (n + 1) \in (i + 1)..(n + 1)
      BY <1>1, <2>3
    <3>2. \A j \in (i + 1)..n : j \in 1..n /\ j \in (i + 1)..(n + 1)
      BY <1>1, <3>1
    <3>3. Valid(samples[i]) /\ Millivolts(samples[i]) <= Entry
      BY <1>1, <2>1, <3>1
    <3>4. \A j \in (i + 1)..n :
            Valid(samples[j]) /\ Millivolts(samples[j]) < Recovery
      BY <1>1, <2>1, <3>2
    <3>5. Dipped
      BY <3>1, <3>3, <3>4 DEF Dipped
    <3> QED BY <1>1, <2>1, <3>1, <3>5
  <2> QED BY <2>2, <2>3
<1>4. ASSUME Valid(sample), Millivolts(sample) <= Entry PROVE Dipped'
  <2>1. \E i \in 1..(n + 1) :
          /\ Valid(samples'[i]) /\ Millivolts(samples'[i]) <= Entry
          /\ \A j \in (i + 1)..(n + 1) :
               Valid(samples'[j]) /\ Millivolts(samples'[j]) < Recovery
    <3> WITNESS n + 1 \in 1..(n + 1)
    <3> QED BY <1>1, <1>2, <1>4
  <2> QED BY <1>1, <2>1 DEF Dipped, Valid, Millivolts, Numerator
<1>5. ASSUME Valid(sample), Dipped, Millivolts(sample) < Recovery
      PROVE  Dipped'
  <2>1. PICK i \in 1..n :
          /\ Valid(samples[i]) /\ Millivolts(samples[i]) <= Entry
          /\ \A j \in (i + 1)..n :
               Valid(samples[j]) /\ Millivolts(samples[j]) < Recovery
    BY <1>5 DEF Dipped
  <2>2. /\ i \in 1..(n + 1)
        /\ \A j \in (i + 1)..(n + 1) :
             \/ j = n + 1
             \/ j \in 1..n /\ j \in (i + 1)..n
    BY <1>1
  <2>3. \A j \in (i + 1)..(n + 1) :
          Valid(samples'[j]) /\ Millivolts(samples'[j]) < Recovery
    BY <1>1, <1>5, <2>1, <2>2
  <2>4. Valid(samples'[i]) /\ Millivolts(samples'[i]) <= Entry
    BY <1>1, <2>1
  <2> QED
    BY <1>1, <2>2, <2>3, <2>4 DEF Dipped, Valid, Millivolts, Numerator
<1> QED BY <1>3, <1>4, <1>5

(* The state kept is the one the whole history of samples demands: the     *)
(* induction carries that a dip is remembered exactly as BrownOut.         *)
THEOREM HysteresisFollows == Spec => []FollowsHistory
<1> DEFINE Remembers == (lastState = "BrownOut") <=> Dipped
           IInv == TypeOK /\ FollowsHistory /\ Remembers
<1>1. Init => IInv
  BY DEF Init, TypeOK, VrefintStates, FollowsHistory, Dipped
<1>2. IInv /\ [Next]_vars => IInv'
  <2> SUFFICES ASSUME IInv, [Next]_vars PROVE IInv'
    OBVIOUS
  <2>1. CASE UNCHANGED vars
    BY <2>1 DEF vars, TypeOK, FollowsHistory, Dipped, Valid, Millivolts,
                Numerator
  <2>2. ASSUME NEW sample \in Samples, Poll(sample) PROVE IInv'
    <3>1. TypeOK'
      BY <2>2 DEF TypeOK, Poll, Classify, VrefintStates
    <3>2. Dipped' <=> /\ Valid(sample)
                      /\ \/ Millivolts(sample) <= Entry
                         \/ Dipped /\ Millivolts(sample) < Recovery
      BY <2>2, DippedStep DEF Poll
    <3>3. samples' # <<>> /\ samples'[Len(samples')] = sample
      BY <2>2 DEF Poll, TypeOK
    <3>4. CASE ~Valid(sample)
      BY <2>2, <3>1, <3>2, <3>3, <3>4 DEF Poll, FollowsHistory, Valid
    <3>5. CASE Valid(sample)
      <4>1. lastState' = Classify(Millivolts(sample))
        BY <2>2, <3>5 DEF Poll
      <4>2. Millivolts(sample) \in Nat
        <5>1. sample \in Nat \ {0} /\ Quotient(sample) \in Nat
          BY <3>5, ValidReading, QuotientRounds
        <5> QED BY <5>1, MonitorFacts DEF Millivolts, Quotient, Lesser
      <4>3. (lastState' = "BrownOut") <=> Dipped'
        BY <3>2, <3>5, <4>1, <4>2, MonitorFacts DEF Classify
      <4>4. lastState' \in {"BrownOut", "Stable"}
        BY <4>1 DEF Classify
      <4> QED BY <3>1, <3>3, <3>5, <4>3, <4>4 DEF FollowsHistory, Valid
    <3> QED BY <3>4, <3>5
  <2> QED BY <2>1, <2>2 DEF Next
<1> QED BY <1>1, <1>2, PTL DEF Spec

-----------------------------------------------------------------------------
(* The timing of a bridge wait.                                            *)

\* What is left of `limit' when the step has lasted `stepTime'.
LeftOf(limit) == IF stepTime >= limit THEN 0 ELSE limit - stepTime

StepWaits == step.completion = "OnBridgeActivity" /\ ~heard

(* The deadline there is follows from the step, the time since it began    *)
(* and whether there was activity.                                         *)
DeadlineOfTheStep ==
  IF step.completion = "AfterDuration" THEN LeftOf(step.hold)
  ELSE IF StepWaits /\ timeout > 0 THEN LeftOf(timeout) ELSE NoDeadline

HoldInv ==
  /\ timeout \in Nat /\ stepTime \in Nat /\ heard \in BOOLEAN
  /\ step.completion \in Completions /\ step.hold \in Nat
  /\ waitingOnBridge \in BOOLEAN /\ (waitingOnBridge <=> StepWaits)
  /\ stepDeadline = DeadlineOfTheStep

LEMMA HoldInvInit == HoldInit => HoldInv
<1> SUFFICES ASSUME HoldInit PROVE HoldInv
  OBVIOUS
<1>1. /\ timeout \in Nat /\ stepTime = 0 /\ heard = FALSE
      /\ waitingOnBridge = FALSE /\ stepDeadline = NoDeadline
      /\ step.completion = "OnEvent" /\ step.hold = 0
  BY HoldAssumption DEF HoldInit
<1>2. ~StepWaits /\ DeadlineOfTheStep = NoDeadline
  BY <1>1 DEF StepWaits, DeadlineOfTheStep
<1>3. step.completion \in Completions
  BY <1>1 DEF Completions
<1>4. /\ waitingOnBridge \in BOOLEAN /\ (waitingOnBridge <=> StepWaits)
      /\ heard \in BOOLEAN
  BY <1>1, <1>2
<1>5. stepTime \in Nat /\ step.hold \in Nat
  BY <1>1
<1> QED BY <1>1, <1>2, <1>3, <1>4, <1>5 DEF HoldInv

LEMMA HoldInvStep == HoldInv /\ [HoldNext]_holdVars => HoldInv'
<1> SUFFICES ASSUME HoldInv, [HoldNext]_holdVars PROVE HoldInv'
  OBVIOUS
<1>0. Holds \subseteq Nat /\ NoDeadline \notin Nat
  BY HoldAssumption
<1>1. CASE ConfigureStepTiming
  <2>1. PICK completion \in Completions, hold \in Holds :
          /\ step' = [completion |-> completion, hold |-> hold]
          /\ \/ completion = "OnBridgeActivity" /\ BeginBridgeWait
             \/ /\ completion = "AfterDuration"
                /\ waitingOnBridge' = FALSE /\ stepDeadline' = hold
             \/ /\ completion = "OnEvent"
                /\ waitingOnBridge' = FALSE /\ stepDeadline' = NoDeadline
    BY <1>1 DEF ConfigureStepTiming
  <2>2. /\ step'.completion = completion /\ step'.hold = hold
        /\ stepTime' = 0 /\ heard' = FALSE /\ timeout' = timeout
        /\ hold \in Nat /\ timeout \in Nat
    BY <1>0, <1>1, <2>1 DEF ConfigureStepTiming, HoldInv
  <2>3. \A limit \in Nat : LeftOf(limit)' = limit
    BY <2>2, SMT DEF LeftOf
  <2>4. CASE completion = "OnBridgeActivity"
    <3>1. /\ waitingOnBridge' = TRUE
          /\ stepDeadline' = IF timeout > 0 THEN timeout ELSE NoDeadline
      BY <2>1, <2>4 DEF BeginBridgeWait
    <3>2. StepWaits'
      BY <2>2, <2>4 DEF StepWaits
    <3>3. DeadlineOfTheStep' = IF timeout > 0 THEN timeout ELSE NoDeadline
      BY <2>2, <2>3, <2>4, <3>2 DEF DeadlineOfTheStep, LeftOf
    <3> QED BY <2>1, <2>2, <3>1, <3>2, <3>3 DEF HoldInv
  <2>5. CASE completion = "AfterDuration"
    <3>1. waitingOnBridge' = FALSE /\ stepDeadline' = hold
      BY <2>1, <2>5
    <3>2. ~StepWaits' /\ DeadlineOfTheStep' = hold
      BY <2>2, <2>3, <2>5 DEF StepWaits, DeadlineOfTheStep, LeftOf
    <3> QED BY <2>1, <2>2, <3>1, <3>2 DEF HoldInv
  <2>6. CASE completion = "OnEvent"
    <3>1. waitingOnBridge' = FALSE /\ stepDeadline' = NoDeadline
      BY <2>1, <2>6
    <3>2. ~StepWaits' /\ DeadlineOfTheStep' = NoDeadline
      BY <2>2, <2>6 DEF StepWaits, DeadlineOfTheStep
    <3> QED BY <2>1, <2>2, <3>1, <3>2 DEF HoldInv
  <2> QED BY <2>4, <2>5, <2>6 DEF Completions
<1>2. CASE SatisfyBridgeWait
  <2>1. /\ heard' = TRUE /\ step' = step /\ stepTime' = stepTime
        /\ timeout' = timeout
    BY <1>2 DEF SatisfyBridgeWait
  <2>2. ~StepWaits' /\ LeftOf(step.hold)' = LeftOf(step.hold)
    BY <2>1 DEF StepWaits, LeftOf
  <2>3. CASE waitingOnBridge
    <3>1. waitingOnBridge' = FALSE /\ stepDeadline' = NoDeadline
      BY <1>2, <2>3 DEF SatisfyBridgeWait, Satisfied
    <3>2. step.completion = "OnBridgeActivity"
      BY <2>3 DEF HoldInv, StepWaits
    <3>3. DeadlineOfTheStep' = NoDeadline
      BY <2>1, <2>2, <3>2 DEF DeadlineOfTheStep
    <3> QED BY <2>1, <2>2, <3>1, <3>3 DEF HoldInv
  <2>4. CASE ~waitingOnBridge
    <3>1. waitingOnBridge' = waitingOnBridge /\ stepDeadline' = stepDeadline
      BY <1>2, <2>4 DEF SatisfyBridgeWait, Satisfied
    <3>2. ~StepWaits
      BY <2>4 DEF HoldInv
    <3>3. DeadlineOfTheStep' = DeadlineOfTheStep
      BY <2>1, <2>2, <3>2 DEF DeadlineOfTheStep
    <3> QED BY <2>1, <2>2, <2>4, <3>1, <3>3 DEF HoldInv
  <2> QED BY <2>3, <2>4
<1>3. CASE StepTimePasses
  <2>1. /\ stepTime' = stepTime + 1 /\ timeout' = timeout /\ step' = step
        /\ waitingOnBridge' = waitingOnBridge /\ heard' = heard
        /\ stepTime \in Nat /\ timeout \in Nat /\ step.hold \in Nat
        /\ stepDeadline' = IF stepDeadline \in {NoDeadline, 0}
                           THEN stepDeadline ELSE stepDeadline - 1
    BY <1>3 DEF StepTimePasses, HoldInv
  <2>2. ASSUME NEW limit \in Nat, stepDeadline = LeftOf(limit)
        PROVE  stepDeadline' = LeftOf(limit)'
    BY <1>0, <2>1, <2>2, SMT DEF LeftOf
  <2>3. StepWaits' = StepWaits
    BY <2>1 DEF StepWaits
  <2>4. CASE step.completion = "AfterDuration"
    <3>1. stepDeadline = LeftOf(step.hold)
      BY <2>4 DEF HoldInv, DeadlineOfTheStep
    <3>2. stepDeadline' = DeadlineOfTheStep'
      BY <2>1, <2>2, <2>4, <3>1 DEF DeadlineOfTheStep, LeftOf
    <3> QED BY <2>1, <2>3, <3>2 DEF HoldInv
  <2>5. CASE step.completion # "AfterDuration" /\ StepWaits /\ timeout > 0
    <3>1. stepDeadline = LeftOf(timeout)
      BY <2>5 DEF HoldInv, DeadlineOfTheStep
    <3>2. stepDeadline' = DeadlineOfTheStep'
      BY <2>1, <2>2, <2>3, <2>5, <3>1 DEF DeadlineOfTheStep, LeftOf
    <3> QED BY <2>1, <2>3, <3>2 DEF HoldInv
  <2>6. CASE step.completion # "AfterDuration" /\ ~(StepWaits /\ timeout > 0)
    <3>1. stepDeadline = NoDeadline
      BY <2>6 DEF HoldInv, DeadlineOfTheStep
    <3>2. stepDeadline' = DeadlineOfTheStep'
      BY <2>1, <2>3, <2>6, <3>1 DEF DeadlineOfTheStep
    <3> QED BY <2>1, <2>3, <3>2 DEF HoldInv
  <2> QED BY <2>4, <2>5, <2>6
<1>4. CASE UNCHANGED holdVars
  BY <1>4 DEF holdVars, HoldInv, DeadlineOfTheStep, StepWaits, LeftOf
<1> QED BY <1>1, <1>2, <1>3, <1>4 DEF HoldNext

(* The timeout speaks for the step that waits and for no other, and        *)
(* activity never takes the deadline of a step that does not wait, for     *)
(* every timeout and every hold.                                           *)
THEOREM TimeoutSpeaksForTheStep == HoldSpec => []HoldFollowsTheStep
<1>1. HoldInv => HoldFollowsTheStep
  <2> SUFFICES ASSUME HoldInv PROVE HoldFollowsTheStep
    OBVIOUS
  <2>1. waitingOnBridge = StepWaits
    <3>1. waitingOnBridge \in BOOLEAN /\ (waitingOnBridge <=> StepWaits)
      BY DEF HoldInv
    <3>2. StepWaits \in BOOLEAN
      BY DEF StepWaits
    <3> QED BY <3>1, <3>2
  <2>2. /\ timeout \in Nat /\ stepTime \in Nat /\ step.hold \in Nat
        /\ stepDeadline = DeadlineOfTheStep /\ NoDeadline \notin Nat
    BY HoldAssumption DEF HoldInv
  <2>3. TimedOut <=> (StepWaits /\ timeout > 0 /\ stepTime >= timeout)
    <3>1. CASE StepWaits
      <4>1. step.completion # "AfterDuration"
        BY <3>1 DEF StepWaits
      <4>2. stepDeadline = IF timeout > 0 THEN LeftOf(timeout) ELSE NoDeadline
        BY <2>2, <3>1, <4>1 DEF DeadlineOfTheStep
      <4>3. stepDeadline = 0 <=> (timeout > 0 /\ stepTime >= timeout)
        BY <2>2, <4>2, SMT DEF LeftOf
      <4> QED BY <2>1, <3>1, <4>3 DEF TimedOut
    <3>2. CASE ~StepWaits
      BY <2>1, <3>2 DEF TimedOut
    <3> QED BY <3>1, <3>2
  <2>4. step.completion = "AfterDuration" =>
          stepDeadline = IF stepTime >= step.hold THEN 0
                         ELSE step.hold - stepTime
    BY <2>2 DEF DeadlineOfTheStep, LeftOf
  <2>5. step.completion # "AfterDuration" /\ ~StepWaits
          => stepDeadline = NoDeadline
    BY <2>2 DEF DeadlineOfTheStep
  <2> QED BY <2>1, <2>3, <2>4, <2>5 DEF HoldFollowsTheStep, StepWaits, TimedOut
<1> QED BY <1>1, HoldInvInit, HoldInvStep, PTL DEF HoldSpec

-----------------------------------------------------------------------------
(* The codes of the telemetry events.                                      *)

IndexedKinds == {"StrapAsserted", "StrapReleased", "CommandPending",
                 "CommandStarted", "SequenceComplete"}

LEMMA NamesOfKinds ==
  /\ DOMAIN Names = IndexedKinds
  /\ \A kind \in IndexedKinds : Names[kind] \in {StrapLines, SequenceKinds}
BY DEF Names, IndexedKinds

LEMMA NamesDiffer ==
  ASSUME NEW names \in {StrapLines, SequenceKinds},
         NEW n \in 1..4, NEW m \in 1..4, names[n] = names[m]
  PROVE  n = m
BY DEF StrapLines, SequenceKinds

LEMMA EventFields ==
  ASSUME NEW kind, NEW of, NEW code
  PROVE  /\ Event(kind, of, code).kind = kind
         /\ Event(kind, of, code).of = of
BY DEF Event

LEMMA IndexOfEvent ==
  ASSUME NEW kind \in IndexedKinds, NEW n \in 1..4
  PROVE  Index(Event(kind, Names[kind][n], 0)) = n - 1
<1> DEFINE event == Event(kind, Names[kind][n], 0)
           found == CHOOSE m \in 1..4 : Names[kind][m] = Names[kind][n]
<1>1. event.kind = kind /\ event.of = Names[kind][n]
  BY EventFields
<1>2. found \in 1..4 /\ Names[kind][found] = Names[kind][n]
  OBVIOUS
<1>3. found = n
  <2> HIDE DEF found
  <2> QED BY <1>2, NamesOfKinds, NamesDiffer
<1>4. Index(event) = found - 1
  BY <1>1 DEF Index
<1> QED BY <1>3, <1>4

LEMMA Bases ==
  /\ Base["StrapAsserted"] = 0 /\ Base["StrapReleased"] = 4
  /\ Base["CommandPending"] = 16 /\ Base["CommandStarted"] = 20
  /\ Base["SequenceComplete"] = 24
  /\ Base["PowerStable"] = 8 /\ Base["RecoveryConsoleActivity"] = 9
  /\ Base["UsbDisconnect"] = 10
BY DEF Base

\* The ranges of codes overlap nowhere.
LEMMA RangesDisjoint ==
  ASSUME NEW kind \in IndexedKinds, NEW n \in 0..3
  PROVE  /\ Base[kind] \in Nat
         /\ Base[kind] + n \notin 8..10
         /\ \A k \in IndexedKinds :
              Base[kind] + n \in Base[k]..(Base[k] + 3) => k = kind
BY Bases, SMT DEF IndexedKinds

PlainKinds == {"PowerStable", "RecoveryConsoleActivity", "UsbDisconnect"}

LEMMA PlainFacts ==
  /\ PlainEvents = {Plain(kind) : kind \in PlainKinds}
  /\ \A kind \in PlainKinds : Plain(kind).kind = kind
  /\ \A kind \in PlainKinds : Base[kind] \in 8..10
  /\ \A k, l \in PlainKinds : Base[k] = Base[l] => k = l
<1>1. PlainEvents = {Plain(kind) : kind \in PlainKinds}
  BY DEF PlainEvents, PlainKinds
<1>2. \A kind \in PlainKinds : Plain(kind).kind = kind
  BY Zenon DEF Plain, Event
<1>3. /\ \A kind \in PlainKinds : Base[kind] \in 8..10
      /\ \A k, l \in PlainKinds : Base[k] = Base[l] => k = l
  BY Bases, SMT DEF PlainKinds
<1> QED BY <1>1, <1>2, <1>3

LEMMA IndexedDecode ==
  ASSUME NEW kind \in IndexedKinds, NEW n \in 1..4
  PROVE  FromRaw(ToRaw(Event(kind, Names[kind][n], 0)))
           = Event(kind, Names[kind][n], 0)
<1> DEFINE event   == Event(kind, Names[kind][n], 0)
           code    == ToRaw(event)
           plain   == {e \in PlainEvents : Base[e.kind] = code}
           indexed == {k \in DOMAIN Names : code \in Base[k]..(Base[k] + 3)}
           chosen  == CHOOSE k \in indexed : TRUE
<1>1. code = Base[kind] + (n - 1)
  <2>1. event.kind = kind /\ kind # "Custom" /\ kind \in DOMAIN Names
    BY EventFields, NamesOfKinds DEF IndexedKinds
  <2> QED BY <2>1, IndexOfEvent DEF ToRaw
<1>2. /\ Base[kind] \in Nat /\ code \notin 8..10
      /\ \A k \in IndexedKinds : code \in Base[k]..(Base[k] + 3) => k = kind
  <2>1. n - 1 \in 0..3
    BY SMT
  <2> HIDE DEF code
  <2> QED BY <1>1, <2>1, RangesDisjoint
<1>3. plain = {}
  <2> SUFFICES ASSUME NEW e \in PlainEvents, Base[e.kind] = code PROVE FALSE
    OBVIOUS
  <2>1. PICK k \in PlainKinds : e = Plain(k)
    BY PlainFacts
  <2>2. Base[k] \in 8..10 /\ Base[k] = code
    BY <2>1, PlainFacts
  <2> QED BY <1>2, <2>2
<1>4. indexed = {kind}
  <2>1. kind \in DOMAIN Names /\ DOMAIN Names = IndexedKinds
    BY NamesOfKinds
  <2>2. code \in Base[kind]..(Base[kind] + 3)
    <3> HIDE DEF code
    <3> QED BY <1>1, <1>2, SMT
  <2> HIDE DEF code
  <2> QED BY <1>2, <2>1, <2>2
<1>5. chosen = kind
  BY <1>4
<1>6. FromRaw(code) = Event(chosen, Names[chosen][code - Base[chosen] + 1], 0)
  <2> HIDE DEF code
  <2> QED BY <1>3, <1>4 DEF FromRaw
<1>7. code - Base[kind] + 1 = n
  <2> HIDE DEF code
  <2> QED BY <1>1, <1>2, SMT
<1> HIDE DEF code, chosen
<1>8. FromRaw(code) = event
  BY <1>5, <1>6, <1>7
<1> QED BY <1>8 DEF code

LEMMA PlainDecode ==
  ASSUME NEW kind \in PlainKinds
  PROVE  FromRaw(ToRaw(Plain(kind))) = Plain(kind)
<1> DEFINE event == Plain(kind)
           code  == ToRaw(event)
           plain == {e \in PlainEvents : Base[e.kind] = code}
<1>1. code = Base[kind]
  <2>1. event.kind = kind /\ kind # "Custom" /\ kind \notin DOMAIN Names
    BY PlainFacts, NamesOfKinds DEF PlainKinds, IndexedKinds
  <2>2. Base[kind] \in 8..10
    BY PlainFacts
  <2> QED BY <2>1, <2>2, SMT DEF ToRaw
<1> HIDE DEF code
<1>2. plain = {event}
  <2>1. event \in PlainEvents /\ event.kind = kind
    BY PlainFacts
  <2>2. \A e \in PlainEvents : Base[e.kind] = code => e = event
    <3> SUFFICES ASSUME NEW e \in PlainEvents, Base[e.kind] = code
                 PROVE  e = event
      OBVIOUS
    <3>1. PICK k \in PlainKinds : e = Plain(k)
      BY PlainFacts
    <3>2. Base[k] = Base[kind]
      BY <1>1, <3>1, PlainFacts
    <3>3. k = kind
      BY <3>2, PlainFacts
    <3> QED BY <3>1, <3>3
  <2> QED BY <1>1, <2>1, <2>2
<1>3. FromRaw(code) = CHOOSE e \in plain : TRUE
  BY <1>2 DEF FromRaw
<1>4. FromRaw(code) = event
  BY <1>2, <1>3
<1> QED BY <1>4 DEF code

(* Every event that is recorded is what its code decodes to.               *)
THEOREM CodesDecode == \A event \in Events : FromRaw(ToRaw(event)) = event
<1> SUFFICES ASSUME NEW event \in Events PROVE FromRaw(ToRaw(event)) = event
  OBVIOUS
<1>1. CASE event \in PlainEvents
  <2>1. PICK kind \in PlainKinds : event = Plain(kind)
    BY <1>1, PlainFacts
  <2> QED BY <2>1, PlainDecode
<1>2. CASE event \in EventsOf(DOMAIN Names)
  <2>1. PICK kind \in IndexedKinds, n \in 1..4 :
          event = Event(kind, Names[kind][n], 0)
    BY <1>2, NamesOfKinds DEF EventsOf
  <2> QED BY <2>1, IndexedDecode
<1> QED BY <1>1, <1>2 DEF Events

-----------------------------------------------------------------------------
(* Remainders: an id that counts on is the count, whatever it wrapped.     *)

LEMMA Remainder ==
  ASSUME NEW a \in Nat, NEW m \in Nat \ {0}
  PROVE  a = m * (a \div m) + (a % m) /\ (a % m) \in 0..(m - 1)
         /\ a \div m \in Nat
BY SMT

LEMMA RemainderIsOne ==
  ASSUME NEW m \in Nat \ {0}, NEW q \in Nat, NEW r \in 0..(m - 1),
         NEW p \in Nat, NEW s \in 0..(m - 1), m * q + r = m * p + s
  PROVE  r = s
<1>1. ASSUME q < p PROVE FALSE
  <2>1. p - q - 1 \in Nat /\ p = q + 1 + (p - q - 1)
    BY <1>1, SMT
  <2>2. m * p = m * q + m + m * (p - q - 1)
    BY <2>1, SMT
  <2>3. m * (p - q - 1) \in Nat /\ m * q \in Nat /\ m * p \in Nat
    BY <2>1, SMT
  <2> QED BY <2>2, <2>3, SMT
<1>2. ASSUME p < q PROVE FALSE
  <2>1. q - p - 1 \in Nat /\ q = p + 1 + (q - p - 1)
    BY <1>2, SMT
  <2>2. m * q = m * p + m + m * (q - p - 1)
    BY <2>1, SMT
  <2>3. m * (q - p - 1) \in Nat /\ m * q \in Nat /\ m * p \in Nat
    BY <2>1, SMT
  <2> QED BY <2>2, <2>3, SMT
<1>3. q = p
  BY <1>1, <1>2, SMT
<1>4. m * q \in Nat /\ m * p = m * q
  BY <1>3, SMT
<1> QED BY <1>4, SMT

LEMMA CountsOn ==
  ASSUME NEW a \in Nat, NEW m \in Nat \ {0}
  PROVE  ((a % m) + 1) % m = (a + 1) % m
<1> DEFINE r == a % m
           q == a \div m
           b == a + 1
           c == r + 1
           u == c \div m
<1>1. a = m * q + r /\ r \in 0..(m - 1) /\ q \in Nat
  BY Remainder
<1>2. /\ b = m * (b \div m) + (b % m) /\ (b % m) \in 0..(m - 1)
      /\ b \div m \in Nat
  <2>1. b \in Nat
    BY SMT
  <2> HIDE DEF b
  <2> QED BY <2>1, Remainder
<1>3. c = m * u + (c % m) /\ (c % m) \in 0..(m - 1) /\ u \in Nat
  <2>1. c \in Nat
    BY <1>1, SMT
  <2> HIDE DEF c
  <2> QED BY <2>1, Remainder
<1>4. b = m * q + c
  <2>1. m * q \in Nat
    BY <1>1, SMT
  <2> HIDE DEF q, r
  <2> QED BY <1>1, <2>1, SMT
<1> HIDE DEF b, c, q, r, u
<1>5. /\ m * q + m * u = m * (q + u) /\ q + u \in Nat
      /\ m * q \in Nat /\ m * u \in Nat
  BY <1>1, <1>3, SMT
<1>6. m * (b \div m) + (b % m) = m * (q + u) + (c % m)
  <2> DEFINE v == m * q
             w == m * u
             x == c % m
  <2>1. /\ b = v + c /\ c = w + x /\ v + w = m * (q + u)
        /\ v \in Nat /\ w \in Nat /\ x \in Nat
    BY <1>3, <1>4, <1>5
  <2>2. b = (v + w) + x
    <3> HIDE DEF v, w, x
    <3> QED BY <2>1, SMT
  <2> QED BY <1>2, <2>1, <2>2
<1>7. b % m = c % m
  <2> DEFINE d == b \div m
             e == q + u
             f == b % m
             g == c % m
  <2>1. /\ d \in Nat /\ e \in Nat /\ f \in 0..(m - 1) /\ g \in 0..(m - 1)
        /\ m * d + f = m * e + g
    BY <1>2, <1>3, <1>5, <1>6
  <2> HIDE DEF d, e, f, g
  <2>2. f = g
    BY <2>1, RemainderIsOne
  <2> QED BY <2>2 DEF f, g
<1> QED BY <1>7 DEF b, c, r

-----------------------------------------------------------------------------
(* The telemetry ring.                                                     *)

LEMMA AppendFacts ==
  ASSUME NEW S, NEW s \in Seq(S), NEW e \in S
  PROVE  /\ Append(s, e) \in Seq(S) /\ Len(Append(s, e)) = Len(s) + 1
         /\ Append(s, e)[Len(s) + 1] = e
         /\ \A n \in 1..Len(s) : Append(s, e)[n] = s[n]
OBVIOUS

LEMMA TailFacts ==
  ASSUME NEW S, NEW s \in Seq(S), Len(s) > 0
  PROVE  /\ Tail(s) \in Seq(S) /\ Len(Tail(s)) = Len(s) - 1
         /\ \A n \in 1..(Len(s) - 1) : Tail(s)[n] = s[n + 1]
OBVIOUS

LEMMA MinOfTwo ==
  ASSUME NEW a \in Nat, NEW b \in Nat
  PROVE  Min({a, b}) = IF a <= b THEN a ELSE b
<1>1. CASE a <= b
  <2>1. \A x \in {a, b} : (\A y \in {a, b} : x <= y) => x = a
    BY <1>1, SMT
  <2>2. a \in {a, b} /\ \A y \in {a, b} : a <= y
    BY <1>1, SMT
  <2> QED BY <1>1, <2>1, <2>2, SMT DEF Min
<1>2. CASE ~(a <= b)
  <2>1. \A x \in {a, b} : (\A y \in {a, b} : x <= y) => x = b
    BY <1>2, SMT
  <2>2. b \in {a, b} /\ \A y \in {a, b} : b <= y
    BY <1>2, SMT
  <2> QED BY <1>2, <2>1, <2>2, SMT DEF Min
<1> QED BY <1>1, <1>2

LEMMA MaxIsOne ==
  ASSUME NEW S \in SUBSET Nat, NEW m \in S, \A n \in S : n <= m
  PROVE  Max(S) = m
<1>1. \A x \in S : (\A y \in S : x >= y) => x = m
  BY SMT
<1>2. m \in S /\ \A y \in S : m >= y
  BY SMT
<1> QED BY <1>1, <1>2 DEF Max

Entries == [event : Events, at : Nat]
Records == [id : Nat, event : Events, elapsed : Int \cup {Unset}, at : Nat]

\* How many records the ring keeps, and how many it forgot.
Kept == IF Capacity <= Len(recorded) THEN Capacity ELSE Len(recorded)
Gone == Len(recorded) - Kept

IsStrap(n) == recorded[n].event \in StrapEvents

\* What the record `n' says of the transition before it, if it is of one.
ElapsedIs(n, elapsed) ==
  \/ elapsed = Unset /\ \A m \in 1..(n - 1) : ~IsStrap(m)
  \/ \E m \in 1..(n - 1) :
       /\ IsStrap(m) /\ elapsed = recorded[n].at - recorded[m].at
       /\ \A k \in (m + 1)..(n - 1) : ~IsStrap(k)

\* The id of the entry `n'.
IdOf(n) == (n - 1) % EventIds

\* The record `n' of the ring, as it was made.
Faithful(n) ==
  /\ ring[n].event = recorded[Gone + n].event
  /\ ring[n].at = recorded[Gone + n].at
  /\ ring[n].id = IdOf(Gone + n)
  /\ IsStrap(Gone + n) => ElapsedIs(Gone + n, ring[n].elapsed)

\* last_transition_at is the time of the last strap record there was.
TransitionInv ==
  \/ lastTransitionAt = Unset /\ \A n \in 1..Len(recorded) : ~IsStrap(n)
  \/ \E m \in 1..Len(recorded) :
       /\ IsStrap(m) /\ lastTransitionAt = recorded[m].at
       /\ \A n \in (m + 1)..Len(recorded) : ~IsStrap(n)

RecorderInv ==
  /\ ring \in Seq(Records) /\ recorded \in Seq(Entries)
  /\ Len(ring) = Kept
  /\ nextEventId = Len(recorded) % EventIds
  /\ lastTransitionAt \in Nat \cup {Unset}
  /\ TransitionInv
  /\ \A n \in 1..Len(ring) : Faithful(n)

LEMMA RecorderFacts ==
  /\ Capacity \in Nat \ {0} /\ EventIds \in Nat \ {0}
  /\ Moments \subseteq Nat /\ Unset \notin Nat
BY RecorderAssumption

LEMMA RecorderInvInit == RecorderInit => RecorderInv
<1> SUFFICES ASSUME RecorderInit PROVE RecorderInv
  OBVIOUS
<1>1. /\ ring = <<>> /\ recorded = <<>> /\ Len(recorded) = 0 /\ Len(ring) = 0
      /\ lastTransitionAt = Unset /\ nextEventId = 0
  BY DEF RecorderInit
<1>2. Kept = 0
  BY <1>1, RecorderFacts, SMT DEF Kept
<1>3. 0 % EventIds = 0
  BY RecorderFacts, SMT
<1>4. TransitionInv
  BY <1>1 DEF TransitionInv
<1>5. ring \in Seq(Records) /\ recorded \in Seq(Entries)
  BY <1>1
<1> QED BY <1>1, <1>2, <1>3, <1>4, <1>5 DEF RecorderInv

LEMMA EntryTyped ==
  ASSUME recorded \in Seq(Entries), NEW n \in 1..Len(recorded)
  PROVE  recorded[n].event \in Events /\ recorded[n].at \in Nat
<1>1. recorded[n] \in Entries
  OBVIOUS
<1> QED BY <1>1 DEF Entries

LEMMA NowTyped ==
  ASSUME recorded \in Seq(Entries)
  PROVE  Now \in Nat
<1>1. CASE recorded = <<>>
  BY <1>1 DEF Now
<1>2. CASE recorded # <<>>
  <2>1. Len(recorded) \in 1..Len(recorded)
    BY <1>2
  <2> QED BY <1>2, <2>1, EntryTyped DEF Now
<1> QED BY <1>1, <1>2

\* The entries there were stay as they were.
Grows ==
  /\ Len(recorded') = Len(recorded) + 1
  /\ \A n \in 1..Len(recorded) : recorded'[n] = recorded[n]

LEMMA ElapsedStays ==
  ASSUME Grows, Len(recorded) \in Nat, NEW n \in 1..Len(recorded),
         NEW elapsed, ElapsedIs(n, elapsed)
  PROVE  \/ elapsed = Unset /\ \A m \in 1..(n - 1) : ~IsStrap(m)'
         \/ \E m \in 1..(n - 1) :
              /\ IsStrap(m)' /\ elapsed = recorded'[n].at - recorded'[m].at
              /\ \A k \in (m + 1)..(n - 1) : ~IsStrap(k)'
<1>1. \A m \in 1..n : recorded'[m] = recorded[m] /\ (IsStrap(m)' <=> IsStrap(m))
  BY DEF Grows, IsStrap
<1>2. CASE elapsed = Unset /\ \A m \in 1..(n - 1) : ~IsStrap(m)
  BY <1>1, <1>2
<1>3. ASSUME NEW m \in 1..(n - 1),
             IsStrap(m), elapsed = recorded[n].at - recorded[m].at,
             \A k \in (m + 1)..(n - 1) : ~IsStrap(k)
      PROVE  /\ IsStrap(m)' /\ elapsed = recorded'[n].at - recorded'[m].at
             /\ \A k \in (m + 1)..(n - 1) : ~IsStrap(k)'
  <2>1. n \in 1..n /\ m \in 1..n /\ \A k \in (m + 1)..(n - 1) : k \in 1..n
    OBVIOUS
  <2> QED BY <1>1, <1>3, <2>1
<1> QED BY <1>2, <1>3 DEF ElapsedIs

\* The transition before a new record is the one last_transition_at tells of.
LEMMA ElapsedOfNew ==
  ASSUME Grows, Len(recorded) \in Nat, TransitionInv,
         NEW last, last = Len(recorded) + 1,
         NEW elapsed,
         elapsed = IF lastTransitionAt = Unset THEN Unset
                   ELSE recorded'[last].at - lastTransitionAt,
         \A n \in 1..Len(recorded) : recorded[n].at # Unset
  PROVE  \/ elapsed = Unset /\ \A m \in 1..(last - 1) : ~IsStrap(m)'
         \/ \E m \in 1..(last - 1) :
              /\ IsStrap(m)' /\ elapsed = recorded'[last].at - recorded'[m].at
              /\ \A k \in (m + 1)..(last - 1) : ~IsStrap(k)'
<1>0. last - 1 = Len(recorded)
  OBVIOUS
<1>1. \A m \in 1..Len(recorded) :
        recorded'[m] = recorded[m] /\ (IsStrap(m)' <=> IsStrap(m))
  BY DEF Grows, IsStrap
<1>2. CASE lastTransitionAt = Unset /\ \A n \in 1..Len(recorded) : ~IsStrap(n)
  BY <1>0, <1>1, <1>2
<1>3. ASSUME NEW m \in 1..Len(recorded),
             IsStrap(m), lastTransitionAt = recorded[m].at,
             \A n \in (m + 1)..Len(recorded) : ~IsStrap(n)
      PROVE  /\ IsStrap(m)' /\ elapsed = recorded'[last].at - recorded'[m].at
             /\ \A k \in (m + 1)..(last - 1) : ~IsStrap(k)'
  <2>1. \A k \in (m + 1)..Len(recorded) : k \in 1..Len(recorded)
    OBVIOUS
  <2>2. elapsed = recorded'[last].at - recorded[m].at
    BY <1>3
  <2> QED BY <1>0, <1>1, <1>3, <2>1, <2>2
<1> QED BY <1>0, <1>2, <1>3 DEF TransitionInv

\* What is recorded as the next entry.
EntryOf(event, at) == [event |-> event, at |-> at]

LEMMA RecordGrows ==
  ASSUME RecorderInv, NEW event \in Events, NEW elapsed, NEW at \in Nat,
         Record(event, elapsed, at)
  PROVE  /\ recorded' \in Seq(Entries) /\ Grows
         /\ recorded'[Len(recorded) + 1].event = event
         /\ recorded'[Len(recorded) + 1].at = at
         /\ nextEventId' = Len(recorded') % EventIds
<1>1. recorded' = Append(recorded, EntryOf(event, at))
  BY DEF Record, EntryOf
<1>2. /\ EntryOf(event, at) \in Entries /\ EntryOf(event, at).event = event
      /\ EntryOf(event, at).at = at
  BY DEF Entries, EntryOf
<1>3. recorded \in Seq(Entries) /\ Len(recorded) \in Nat
  BY DEF RecorderInv
<1>4. /\ recorded' \in Seq(Entries) /\ Grows
      /\ recorded'[Len(recorded) + 1] = EntryOf(event, at)
  BY <1>1, <1>2, <1>3, AppendFacts DEF Grows
<1>5. nextEventId' = Len(recorded') % EventIds
  <2>1. nextEventId' = ((Len(recorded) % EventIds) + 1) % EventIds
    BY DEF Record, RecorderInv
  <2>2. Len(recorded') = Len(recorded) + 1
    BY <1>4 DEF Grows
  <2> QED BY <1>3, <2>1, <2>2, RecorderFacts, CountsOn
<1> QED BY <1>2, <1>4, <1>5

\* What the ring forgets for the new record: nothing, or its oldest one.
Shift == IF Len(ring) < Capacity THEN 0 ELSE 1

LEMMA RingShifts ==
  ASSUME RecorderInv, NEW record \in Records, ring' = Written(record),
         Grows
  PROVE  /\ ring' \in Seq(Records)
         /\ Len(ring') = Kept' /\ Kept' \in Nat \ {0} /\ Gone \in Nat
         /\ Gone' = Gone + Shift /\ Gone' + Kept' = Len(recorded) + 1
         /\ ring'[Kept'] = record
         /\ \A n \in 1..(Kept' - 1) : /\ ring'[n] = ring[n + Shift]
                                      /\ n + Shift \in 1..Len(ring)
<1>0. /\ ring \in Seq(Records) /\ Len(ring) = Kept
      /\ Len(recorded) \in Nat /\ Len(ring) \in Nat
      /\ Capacity \in Nat \ {0}
      /\ Len(recorded') = Len(recorded) + 1
  BY RecorderFacts DEF RecorderInv, Grows
<1>1. CASE Len(ring) < Capacity
  <2>1. ring' = Append(ring, record)
    BY <1>1 DEF Written
  <2>2. /\ Len(ring) = Len(recorded) /\ Kept' = Len(recorded) + 1
        /\ Gone = 0 /\ Gone' = 0 /\ Shift = 0
    BY <1>0, <1>1, SMT DEF Kept, Gone, Shift
  <2>3. /\ ring' \in Seq(Records) /\ Len(ring') = Len(ring) + 1
        /\ ring'[Len(ring) + 1] = record
        /\ \A n \in 1..Len(ring) : ring'[n] = ring[n]
    BY <1>0, <2>1, AppendFacts
  <2>4. ASSUME NEW n \in 1..(Kept' - 1)
        PROVE  ring'[n] = ring[n + Shift] /\ n + Shift \in 1..Len(ring)
    BY <1>0, <2>2, <2>3
  <2> QED BY <1>0, <2>2, <2>3, <2>4
<1>2. CASE ~(Len(ring) < Capacity)
  <2> DEFINE tail == Tail(ring)
  <2>1. ring' = Append(tail, record)
    BY <1>2 DEF Written
  <2>a. Kept = Capacity /\ Len(recorded) >= Capacity /\ Shift = 1
    BY <1>0, <1>2, SMT DEF Kept, Shift
  <2>b. Kept' = Capacity
    BY <1>0, <2>a, SMT DEF Kept
  <2>2. /\ Len(ring) = Capacity /\ Len(recorded) >= Capacity
        /\ Kept' = Capacity /\ Kept = Capacity
        /\ Gone = Len(recorded) - Capacity
        /\ Gone' = (Len(recorded) + 1) - Capacity /\ Shift = 1
    BY <1>0, <2>a, <2>b DEF Gone
  <2>3. /\ tail \in Seq(Records) /\ Len(tail) = Len(ring) - 1
        /\ \A n \in 1..(Len(ring) - 1) : tail[n] = ring[n + 1]
    BY <1>0, <2>2, TailFacts
  <2> HIDE DEF tail
  <2>4. /\ ring' \in Seq(Records) /\ Len(ring') = Len(tail) + 1
        /\ ring'[Len(tail) + 1] = record
        /\ \A n \in 1..Len(tail) : ring'[n] = tail[n]
    BY <2>1, <2>3, AppendFacts
  <2>5. ASSUME NEW n \in 1..(Kept' - 1)
        PROVE  ring'[n] = ring[n + Shift] /\ n + Shift \in 1..Len(ring)
    <3>1. /\ Len(ring) \in Nat /\ Len(tail) = Len(ring) - 1
          /\ Kept' = Len(ring) /\ Shift = 1
      BY <1>0, <2>2, <2>3
    <3>2. /\ n \in 1..Len(tail) /\ n \in 1..(Len(ring) - 1)
          /\ n + Shift = n + 1 /\ n + 1 \in 1..Len(ring)
      BY <3>1
    <3>3. ring'[n] = tail[n] /\ tail[n] = ring[n + 1]
      BY <2>3, <2>4, <3>2
    <3> QED BY <3>2, <3>3
  <2>6. Len(tail) + 1 = Capacity
    BY <1>0, <2>2, <2>3
  <2> QED BY <1>0, <2>2, <2>4, <2>5, <2>6
<1> QED BY <1>1, <1>2

LEMMA RingStaysFaithful ==
  ASSUME RecorderInv, NEW event \in Events, NEW elapsed \in Int \cup {Unset},
         NEW at \in Nat, Record(event, elapsed, at),
         event \in StrapEvents =>
           elapsed = IF lastTransitionAt = Unset THEN Unset
                     ELSE at - lastTransitionAt
  PROVE  /\ ring' \in Seq(Records) /\ Len(ring') = Kept'
         /\ \A n \in 1..Len(ring') : Faithful(n)'
<1> DEFINE record == [id |-> nextEventId, event |-> event,
                      elapsed |-> elapsed, at |-> at]
<1>0. /\ recorded \in Seq(Entries) /\ Len(recorded) \in Nat
      /\ nextEventId = Len(recorded) % EventIds /\ TransitionInv
      /\ \A n \in 1..Len(ring) : Faithful(n)
  BY DEF RecorderInv
<1>1. /\ recorded' \in Seq(Entries) /\ Grows
      /\ recorded'[Len(recorded) + 1].event = event
      /\ recorded'[Len(recorded) + 1].at = at
  BY RecordGrows
<1>2. ring' = Written(record)
  BY DEF Record
<1>3. record \in Records
  <2>1. nextEventId \in Nat
    <3>1. Len(recorded) % EventIds \in Nat
      BY <1>0, RecorderFacts, SMT
    <3> QED BY <1>0, <3>1
  <2> QED BY <2>1 DEF Records
<1>4. /\ record.id = nextEventId /\ record.event = event
      /\ record.elapsed = elapsed /\ record.at = at
  OBVIOUS
<1> HIDE DEF record
<1>5. /\ ring' \in Seq(Records)
      /\ Len(ring') = Kept' /\ Kept' \in Nat \ {0} /\ Gone \in Nat
      /\ Gone' = Gone + Shift /\ Gone' + Kept' = Len(recorded) + 1
      /\ ring'[Kept'] = record
      /\ \A n \in 1..(Kept' - 1) : /\ ring'[n] = ring[n + Shift]
                                   /\ n + Shift \in 1..Len(ring)
  BY <1>1, <1>2, <1>3, RingShifts
<1>6. Shift \in Nat /\ Len(ring) \in Nat /\ Gone + Len(ring) = Len(recorded)
  <2>1. Len(ring) = Kept /\ Len(ring) \in Nat
    BY DEF RecorderInv
  <2> QED BY <1>0, <2>1, SMT DEF Shift, Gone
<1>7. ASSUME NEW n \in 1..(Kept' - 1) PROVE Faithful(n)'
  <2> DEFINE old == Gone + (n + Shift)
  <2>0. /\ Gone' = Gone + Shift /\ Gone \in Nat /\ Kept' \in Nat
        /\ ring'[n] = ring[n + Shift] /\ n + Shift \in 1..Len(ring)
    BY <1>5
  <2>1. /\ ring'[n] = ring[n + Shift] /\ n + Shift \in 1..Len(ring)
        /\ Gone' + n = old /\ old \in 1..Len(recorded)
    <3>1. n \in Nat
      BY <2>0
    <3>2. ASSUME NEW g \in Nat, NEW h \in Nat, NEW l \in Nat,
                 n + h \in 1..l
          PROVE  (g + h) + n = g + (n + h) /\ g + (n + h) \in 1..(g + l)
      BY <3>1, <3>2, SMT
    <3>3. Gone \in Nat /\ Shift \in Nat /\ Len(ring) \in Nat
      BY <2>0, <1>6
    <3>4. /\ (Gone + Shift) + n = Gone + (n + Shift)
          /\ Gone + (n + Shift) \in 1..(Gone + Len(ring))
      BY <3>2, <3>3, <2>0
    <3> QED BY <1>6, <2>0, <3>4
  <2>2. Faithful(n + Shift)
    BY <1>0, <2>1
  <2>3. recorded'[old] = recorded[old]
    BY <1>1, <2>1 DEF Grows
  <2>4. /\ ring'[n].event = recorded'[old].event
        /\ ring'[n].at = recorded'[old].at
        /\ ring'[n].id = IdOf(old)
        /\ IsStrap(old) => ElapsedIs(old, ring'[n].elapsed)
    BY <2>1, <2>2, <2>3 DEF Faithful
  <2> HIDE DEF old
  <2>5. IsStrap(Gone + n)' => ElapsedIs(Gone + n, ring[n].elapsed)'
    <3> SUFFICES ASSUME IsStrap(Gone + n)'
                 PROVE  ElapsedIs(Gone + n, ring[n].elapsed)'
      OBVIOUS
    <3>1. IsStrap(old)
      BY <2>1, <2>3 DEF IsStrap
    <3>2. \/ /\ ring'[n].elapsed = Unset
             /\ \A m \in 1..(old - 1) : ~IsStrap(m)'
          \/ \E m \in 1..(old - 1) :
               /\ IsStrap(m)'
               /\ ring'[n].elapsed = recorded'[old].at - recorded'[m].at
               /\ \A k \in (m + 1)..(old - 1) : ~IsStrap(k)'
      BY <1>0, <1>1, <2>1, <2>4, <3>1, ElapsedStays
    <3> QED BY <2>1, <3>2 DEF ElapsedIs
  <2>6. /\ ring'[n].event = recorded'[Gone' + n].event
        /\ ring'[n].at = recorded'[Gone' + n].at
        /\ ring'[n].id = IdOf(Gone' + n)
    BY <2>1, <2>4
  <2> QED BY <2>5, <2>6 DEF Faithful, IdOf
<1>8. Faithful(Kept)'
  <2> DEFINE last == Len(recorded) + 1
  <2>1. /\ Gone' + Kept' = last /\ ring'[Kept'] = record
        /\ last - 1 = Len(recorded)
    BY <1>0, <1>5
  <2>2. /\ record.event = recorded'[last].event
        /\ record.at = recorded'[last].at
        /\ record.id = IdOf(last)
    BY <1>0, <1>1, <1>4, <2>1 DEF IdOf
  <2>3. IsStrap(Gone + Kept)' => ElapsedIs(Gone + Kept, ring[Kept].elapsed)'
    <3> SUFFICES ASSUME IsStrap(Gone + Kept)'
                 PROVE  ElapsedIs(Gone + Kept, ring[Kept].elapsed)'
      OBVIOUS
    <3>1. event \in StrapEvents
      BY <1>1, <2>1 DEF IsStrap
    <3>2. elapsed = IF lastTransitionAt = Unset THEN Unset
                    ELSE recorded'[last].at - lastTransitionAt
      BY <1>1, <3>1
    <3>3. \A n \in 1..Len(recorded) : recorded[n].at # Unset
      BY <1>0, EntryTyped, RecorderFacts
    <3> HIDE DEF last
    <3>4. last = Len(recorded) + 1
      BY DEF last
    <3>5. \/ elapsed = Unset /\ \A m \in 1..(last - 1) : ~IsStrap(m)'
          \/ \E m \in 1..(last - 1) :
               /\ IsStrap(m)' /\ elapsed = recorded'[last].at - recorded'[m].at
               /\ \A k \in (m + 1)..(last - 1) : ~IsStrap(k)'
      BY <1>0, <1>1, <3>2, <3>3, <3>4, ElapsedOfNew
    <3> QED BY <1>4, <2>1, <3>5 DEF ElapsedIs
  <2> HIDE DEF last
  <2>4. /\ ring'[Kept'].event = recorded'[Gone' + Kept'].event
        /\ ring'[Kept'].at = recorded'[Gone' + Kept'].at
        /\ ring'[Kept'].id = IdOf(Gone' + Kept')
    BY <2>1, <2>2
  <2> QED BY <2>3, <2>4 DEF Faithful, IdOf
<1>9. ASSUME NEW n \in 1..Len(ring') PROVE Faithful(n)'
  <2>1. Len(ring') = Kept' /\ Kept' \in Nat
    BY <1>5
  <2>2. n = Kept' \/ n \in 1..(Kept' - 1)
    <3> DEFINE k == Kept'
    <3>1. n \in 1..k /\ k \in Nat
      BY <2>1
    <3> HIDE DEF k
    <3>2. n = k \/ n \in 1..(k - 1)
      BY <3>1
    <3> QED BY <3>2 DEF k
  <2> QED BY <1>7, <1>8, <2>2
<1> QED BY <1>5, <1>9

\* A strap record is the last transition there was ...
LEMMA TransitionRemembered ==
  ASSUME Grows, Len(recorded) \in Nat,
         NEW last, last = Len(recorded) + 1,
         recorded'[last].event \in StrapEvents,
         lastTransitionAt' = recorded'[last].at
  PROVE  TransitionInv'
<1>1. /\ last \in 1..Len(recorded')
      /\ \A n \in (last + 1)..Len(recorded') : FALSE
  BY SMT DEF Grows
<1>2. /\ IsStrap(last)' /\ lastTransitionAt' = recorded'[last].at
      /\ \A n \in (last + 1)..Len(recorded') : ~(IsStrap(n)')
  BY <1>1 DEF IsStrap
<1> QED BY <1>1, <1>2 DEF TransitionInv

\* ... and any other record leaves it the last.
LEMMA TransitionKeptByOthers ==
  ASSUME TransitionInv, Grows, Len(recorded) \in Nat,
         NEW last, last = Len(recorded) + 1,
         recorded'[last].event \notin StrapEvents,
         UNCHANGED lastTransitionAt
  PROVE  TransitionInv'
<1>1. \A m \in 1..Len(recorded) :
        recorded'[m] = recorded[m] /\ (IsStrap(m)' <=> IsStrap(m))
  BY DEF Grows, IsStrap
<1>2. Len(recorded') = Len(recorded) + 1
  BY DEF Grows
<1>3. CASE lastTransitionAt = Unset /\ \A n \in 1..Len(recorded) : ~IsStrap(n)
  <2>1. ASSUME NEW n \in 1..Len(recorded') PROVE ~(IsStrap(n)')
    <3>1. n \in 1..Len(recorded) \/ n = last
      BY <1>2
    <3>2. CASE n = last
      BY <3>2 DEF IsStrap
    <3>3. CASE n \in 1..Len(recorded)
      BY <1>1, <1>3, <3>3
    <3> QED BY <3>1, <3>2, <3>3
  <2> QED BY <1>3, <2>1 DEF TransitionInv
<1>4. ASSUME NEW m \in 1..Len(recorded),
             IsStrap(m), lastTransitionAt = recorded[m].at,
             \A n \in (m + 1)..Len(recorded) : ~IsStrap(n)
      PROVE  TransitionInv'
  <2>1. m \in 1..Len(recorded') /\ IsStrap(m)'
        /\ lastTransitionAt' = recorded'[m].at
    <3>1. m \in 1..Len(recorded')
      BY <1>2
    <3> QED BY <1>1, <1>4, <3>1
  <2>2. ASSUME NEW n \in (m + 1)..Len(recorded') PROVE ~(IsStrap(n)')
    <3>1. \/ n \in (m + 1)..Len(recorded) /\ n \in 1..Len(recorded)
          \/ n = last
      BY <1>2
    <3>2. CASE n = last
      BY <3>2 DEF IsStrap
    <3>3. CASE n \in (m + 1)..Len(recorded) /\ n \in 1..Len(recorded)
      BY <1>1, <1>4, <3>3
    <3> QED BY <3>1, <3>2, <3>3
  <2> QED BY <2>1, <2>2 DEF TransitionInv
<1> QED BY <1>3, <1>4 DEF TransitionInv

LEMMA RecorderInvStep == RecorderInv /\ [RecorderNext]_recorderVars
                           => RecorderInv'
<1> SUFFICES ASSUME RecorderInv, [RecorderNext]_recorderVars
             PROVE  RecorderInv'
  OBVIOUS
<1>0. /\ recorded \in Seq(Entries) /\ Len(recorded) \in Nat
      /\ lastTransitionAt \in Nat \cup {Unset} /\ TransitionInv
  BY DEF RecorderInv
<1>1. Now \in Nat
  BY <1>0, NowTyped
<1>2. CASE UNCHANGED recorderVars
  <2>1. /\ ring' = ring /\ recorded' = recorded
        /\ nextEventId' = nextEventId
        /\ lastTransitionAt' = lastTransitionAt
    BY <1>2 DEF recorderVars
  <2> QED BY <2>1 DEF RecorderInv, TransitionInv, Faithful, IsStrap,
                      ElapsedIs, Kept, Gone
<1>3. ASSUME NEW passed \in Moments, RecordStrapTransition(Now + passed)
      PROVE  RecorderInv'
  <2> DEFINE at == Now + passed
             elapsed == IF lastTransitionAt = Unset THEN Unset
                        ELSE at - lastTransitionAt
  <2>1. PICK event \in StrapEvents : Record(event, elapsed, at)
    BY <1>3 DEF RecordStrapTransition
  <2>2. at \in Nat
    BY <1>1, RecorderFacts
  <2>3. lastTransitionAt' = at
    BY <1>3 DEF RecordStrapTransition, Transition
  <2>4. elapsed \in Int \cup {Unset}
    BY <1>0, <2>2
  <2>5. event \in Events
    BY DEF Events, StrapEvents, EventsOf, Names
  <2> HIDE DEF at
  <2>6. /\ recorded' \in Seq(Entries) /\ Grows
        /\ recorded'[Len(recorded) + 1].event = event
        /\ recorded'[Len(recorded) + 1].at = at
        /\ nextEventId' = Len(recorded') % EventIds
    BY <2>1, <2>2, <2>5, RecordGrows
  <2>7. /\ ring' \in Seq(Records) /\ Len(ring') = Kept'
        /\ \A n \in 1..Len(ring') : Faithful(n)'
    <3>1. event \in StrapEvents =>
            elapsed = IF lastTransitionAt = Unset THEN Unset
                      ELSE at - lastTransitionAt
      OBVIOUS
    <3> HIDE DEF elapsed
    <3> QED BY <2>1, <2>2, <2>4, <2>5, <3>1, RingStaysFaithful
  <2>8. TransitionInv'
    <3>1. recorded'[Len(recorded) + 1].event \in StrapEvents
      BY <2>6
    <3> QED BY <1>0, <2>3, <2>6, <3>1, TransitionRemembered
  <2> QED BY <2>2, <2>3, <2>6, <2>7, <2>8 DEF RecorderInv
<1>4. ASSUME NEW passed \in Moments, RecordOther(Now + passed)
      PROVE  RecorderInv'
  <2> DEFINE at == Now + passed
  <2>1. PICK event \in Events \ StrapEvents : Record(event, Unset, at)
    BY <1>4 DEF RecordOther
  <2>2. at \in Nat
    BY <1>1, RecorderFacts
  <2>3. lastTransitionAt' = lastTransitionAt
    BY <1>4 DEF RecordOther
  <2> HIDE DEF at
  <2>6. /\ recorded' \in Seq(Entries) /\ Grows
        /\ recorded'[Len(recorded) + 1].event = event
        /\ nextEventId' = Len(recorded') % EventIds
    BY <2>1, <2>2, RecordGrows
  <2>7. /\ ring' \in Seq(Records) /\ Len(ring') = Kept'
        /\ \A n \in 1..Len(ring') : Faithful(n)'
    BY <2>1, <2>2, RingStaysFaithful
  <2>8. TransitionInv'
    <3>1. recorded'[Len(recorded) + 1].event \notin StrapEvents
      BY <2>1, <2>6
    <3> QED BY <1>0, <2>3, <2>6, <3>1, TransitionKeptByOthers
  <2> QED BY <1>0, <2>3, <2>6, <2>7, <2>8 DEF RecorderInv
<1> QED BY <1>2, <1>3, <1>4 DEF RecorderNext

LEMMA RecorderInvHolds == RecorderSpec => []RecorderInv
<1> QED BY RecorderInvInit, RecorderInvStep, PTL DEF RecorderSpec

(* Whatever the capacity of the ring and wherever the ids wrap: the ring   *)
(* holds the newest records, all of them while they fit, in their order    *)
(* and numbered on from one to the next, and from_raw reads back of their  *)
(* codes what was recorded.                                                *)
THEOREM RingIsTheNewest == RecorderSpec => []RingHoldsTheNewest
<1>1. RecorderInv => RingHoldsTheNewest
  <2> SUFFICES ASSUME RecorderInv PROVE RingHoldsTheNewest
    OBVIOUS
  <2>1. /\ recorded \in Seq(Entries) /\ Len(recorded) \in Nat
        /\ Len(ring) = Kept /\ \A n \in 1..Len(ring) : Faithful(n)
    BY DEF RecorderInv
  <2>2. Kept = Min({Capacity, Len(recorded)})
    BY <2>1, RecorderFacts, MinOfTwo DEF Kept
  <2>3. Kept \in Nat /\ Gone \in Nat /\ Gone + Kept = Len(recorded)
    BY <2>1, RecorderFacts, SMT DEF Kept, Gone
  <2>4. ASSUME NEW n \in 1..Kept
        PROVE  /\ FromRaw(ToRaw(ring[n].event)) = recorded[Gone + n].event
               /\ ring[n].at = recorded[Gone + n].at
               /\ ring[n].id = (Gone + n - 1) % EventIds
    <3>1. Faithful(n)
      BY <2>1
    <3>2. Gone + n \in 1..Len(recorded)
      BY <2>3
    <3>3. recorded[Gone + n].event \in Events
      BY <2>1, <3>2, EntryTyped
    <3>4. FromRaw(ToRaw(recorded[Gone + n].event)) = recorded[Gone + n].event
      BY <3>3, CodesDecode
    <3>5. /\ ring[n].event = recorded[Gone + n].event
          /\ ring[n].at = recorded[Gone + n].at
          /\ ring[n].id = (Gone + n - 1) % EventIds
      <4>1. Gone + n - 1 = (Gone + n) - 1
        BY <2>3
      <4>2. ring[n].id = ((Gone + n) - 1) % EventIds
        BY <3>1 DEF Faithful, IdOf
      <4>3. ring[n].id = (Gone + n - 1) % EventIds
        BY <4>1, <4>2
      <4> QED BY <3>1, <4>3 DEF Faithful
    <3>6. FromRaw(ToRaw(ring[n].event)) = recorded[Gone + n].event
      BY <3>4, <3>5, Zenon
    <3> QED BY <3>5, <3>6
  <2>5. Gone = Len(recorded) - Kept
    BY DEF Gone
  <2> QED BY <2>1, <2>2, <2>4, <2>5 DEF RingHoldsTheNewest
<1> QED BY <1>1, RecorderInvHolds, PTL

(* The elapsed time of a strap record in the ring is exactly the time      *)
(* since the strap record before it, also when that one was forgotten.     *)
THEOREM ElapsedIsExact == RecorderSpec => []ElapsedAddsUp
<1>1. RecorderInv => ElapsedAddsUp
  <2> SUFFICES ASSUME RecorderInv, NEW n \in DOMAIN ring,
                      ring[n].event \in StrapEvents
               PROVE  LET last   == (Len(recorded) - Len(ring)) + n
                          before == {m \in 1..(last - 1) :
                                       recorded[m].event \in StrapEvents}
                      IN ring[n].elapsed =
                           IF before = {} THEN Unset
                           ELSE recorded[last].at - recorded[Max(before)].at
    BY DEF ElapsedAddsUp
  <2> DEFINE last   == (Len(recorded) - Len(ring)) + n
             before == {m \in 1..(last - 1) :
                          recorded[m].event \in StrapEvents}
  <2>1. /\ ring \in Seq(Records)
        /\ recorded \in Seq(Entries) /\ Len(recorded) \in Nat
        /\ Len(ring) = Kept /\ \A k \in 1..Len(ring) : Faithful(k)
    BY DEF RecorderInv
  <2>2. n \in 1..Len(ring)
    BY <2>1
  <2>3. Faithful(n)
    BY <2>1, <2>2
  <2>4. last = Gone + n
    BY <2>1 DEF Gone
  <2>5. last \in Nat
    BY <2>1, <2>2, RecorderFacts, SMT DEF Kept
  <2> HIDE DEF last
  <2>6. IsStrap(last) /\ ElapsedIs(last, ring[n].elapsed)
    BY <2>3, <2>4 DEF Faithful, IsStrap
  <2>7. CASE ring[n].elapsed = Unset /\ \A m \in 1..(last - 1) : ~IsStrap(m)
    <3>1. before = {}
      BY <2>7 DEF IsStrap
    <3> QED BY <2>7, <3>1 DEF last
  <2>8. ASSUME NEW m \in 1..(last - 1), IsStrap(m),
               ring[n].elapsed = recorded[last].at - recorded[m].at,
               \A k \in (m + 1)..(last - 1) : ~IsStrap(k)
        PROVE  /\ before # {}
               /\ ring[n].elapsed
                    = recorded[last].at - recorded[Max(before)].at
    <3>1. m \in before
      BY <2>8 DEF IsStrap
    <3>2. \A k \in before : k <= m
      <4> SUFFICES ASSUME NEW k \in before PROVE k <= m
        OBVIOUS
      <4>1. k \in 1..(last - 1) /\ IsStrap(k)
        BY DEF IsStrap
      <4>2. k \notin (m + 1)..(last - 1)
        BY <2>8, <4>1
      <4> QED BY <2>5, <4>1, <4>2
    <3>3. before \in SUBSET Nat
      OBVIOUS
    <3> HIDE DEF before
    <3>4. Max(before) = m
      BY <3>1, <3>2, <3>3, MaxIsOne
    <3> QED BY <2>8, <3>1, <3>4
  <2> QED BY <2>6, <2>7, <2>8 DEF ElapsedIs, last
<1> QED BY <1>1, RecorderInvHolds, PTL

-----------------------------------------------------------------------------
(* The ages of the status.                                                 *)

LEMMA CellsFacts ==
  /\ MaxMicros \in Nat \ {0} /\ Unknown \notin Nat
  /\ Intervals \subseteq Nat /\ Rails \subseteq Nat \ {0}
  /\ MicrosPerMilli \in Nat \ {0} /\ MillisPerTenth \in Nat \ {0}
  /\ TenthsPerSecond \in Nat \ {0}
BY CellsAssumption

\* A cell of a time holds the last one, or 0 while there is none.
HoldsTime(cell, last) ==
  \/ last = Unknown /\ cell = 0
  \/ last \in Nat /\ last <= uptime /\ cell = SaturatedMicros(last) + 1

CellsInv ==
  /\ uptime \in Nat
  /\ HoldsTime(rxCell, lastRx) /\ HoldsTime(txCell, lastTx)
  /\ vddSample \in Rails \cup {Unknown} /\ vddCell = VddStored(vddSample)

LEMMA CellsInvHolds == CellsSpec => []CellsInv
<1>1. CellsInit => CellsInv
  BY CellsFacts DEF CellsInit, CellsInv, HoldsTime, VddStored
<1>2. CellsInv /\ [CellsNext]_cellVars => CellsInv'
  <2> SUFFICES ASSUME CellsInv, [CellsNext]_cellVars PROVE CellsInv'
    OBVIOUS
  <2> USE DEF CellsInv
  <2>1. CASE RecordVddSample
    <3>1. UNCHANGED <<uptime, rxCell, lastRx, txCell, lastTx>>
      BY <2>1 DEF RecordVddSample, bridgeCells
    <3>2. vddSample' \in Rails \cup {Unknown}
          /\ vddCell' = VddStored(vddSample)'
      BY <2>1 DEF RecordVddSample, VddStored
    <3> QED BY <3>1, <3>2 DEF HoldsTime, SaturatedMicros
  <2>2. CASE RecordBridgeRx
    <3>1. UNCHANGED <<uptime, vddCell, vddSample, txCell, lastTx>>
      BY <2>2 DEF RecordBridgeRx
    <3>2. HoldsTime(rxCell, lastRx)'
      BY <2>2 DEF RecordBridgeRx, HoldsTime, Encode, SaturatedMicros
    <3> QED BY <3>1, <3>2 DEF HoldsTime, SaturatedMicros, VddStored
  <2>3. CASE RecordBridgeTx
    <3>1. UNCHANGED <<uptime, vddCell, vddSample, rxCell, lastRx>>
      BY <2>3 DEF RecordBridgeTx
    <3>2. HoldsTime(txCell, lastTx)'
      BY <2>3 DEF RecordBridgeTx, HoldsTime, Encode, SaturatedMicros
    <3> QED BY <3>1, <3>2 DEF HoldsTime, SaturatedMicros, VddStored
  <2>4. CASE UptimeGrows
    <3>1. UNCHANGED <<vddCell, vddSample, rxCell, lastRx, txCell, lastTx>>
      BY <2>4 DEF UptimeGrows, bridgeCells
    <3>2. uptime' \in Nat /\ uptime' >= uptime
      BY <2>4, CellsFacts, SMT DEF UptimeGrows
    <3>3. HoldsTime(rxCell, lastRx)' /\ HoldsTime(txCell, lastTx)'
      BY <3>1, <3>2, SMT DEF HoldsTime, SaturatedMicros
    <3> QED BY <3>1, <3>2, <3>3 DEF VddStored
  <2>5. CASE \/ UNCHANGED cellVars \/ ReleaseAllStraps
             \/ \E line \in StrapIndexes, assert \in BOOLEAN :
                  DriveStrap(line, assert)
    <3>1. UNCHANGED <<uptime, vddCell, vddSample, rxCell, lastRx,
                      txCell, lastTx>>
      BY <2>5 DEF cellVars, bridgeCells, ReleaseAllStraps, DriveStrap
    <3> QED BY <3>1 DEF HoldsTime, SaturatedMicros, VddStored
  <2> QED BY <2>1, <2>2, <2>3, <2>4, <2>5 DEF CellsNext
<1> QED BY <1>1, <1>2, PTL DEF CellsSpec

(* What is written is the age, cut to the unit it is written in.           *)
LEMMA WrittenIsCut ==
  ASSUME NEW age \in Nat
  PROVE  /\ AtLeast(DurationWritten(age)) <= age
         /\ age < LessThan(DurationWritten(age))
         /\ AtLeast(DurationWritten(age)) \in Nat
<1> DEFINE M == MicrosPerMilli
           T == MillisPerTenth
           S == TenthsPerSecond
           K == T * S
           millis == age \div M
           seconds == millis \div K
           subsec == millis % K
           tenths == subsec \div T
<1>1. M \in Nat \ {0} /\ T \in Nat \ {0} /\ S \in Nat \ {0}
  BY CellsFacts
<1>2. K \in Nat \ {0}
  BY <1>1, SMT
<1> HIDE DEF M, T, S
<1>3. /\ age = M * millis + (age % M) /\ (age % M) \in 0..(M - 1)
      /\ millis \in Nat
  BY <1>1, Remainder
<1> HIDE DEF millis
<1> HIDE DEF K
<1>4. /\ millis = K * seconds + subsec /\ subsec \in 0..(K - 1)
      /\ seconds \in Nat
  BY <1>2, <1>3, Remainder
<1>5. /\ subsec = T * tenths + (subsec % T) /\ (subsec % T) \in 0..(T - 1)
      /\ tenths \in Nat
  <2>1. subsec \in Nat
    BY <1>2, <1>4
  <2> HIDE DEF subsec
  <2> QED BY <1>1, <2>1, Remainder
<1> HIDE DEF seconds, subsec, tenths
<1>6. M * millis \in Nat /\ M * millis <= age /\ age < M * millis + M
  <2>1. M * millis \in Nat
    BY <1>1, <1>3, SMT
  <2> DEFINE mm == M * millis
             rr == age % M
  <2>2. age = mm + rr /\ rr \in 0..(M - 1) /\ mm \in Nat
    BY <1>3, <2>1
  <2> HIDE DEF mm, rr
  <2>3. mm <= age /\ age < mm + M
    BY <1>1, <2>2
  <2> QED BY <2>1, <2>3 DEF mm
<1>7. DurationWritten(age)
        = IF seconds >= 1 THEN [unit |-> "s", count |-> seconds * S + tenths]
          ELSE IF millis >= 1 THEN [unit |-> "ms", count |-> millis]
          ELSE [unit |-> "us", count |-> age]
  BY DEF DurationWritten, millis, seconds, subsec, tenths, K, T, S, M
<1>8. CASE seconds >= 1
  <2> DEFINE c == seconds * S + tenths
             n == c * T
  <2>1. c \in Nat /\ n \in Nat
    BY <1>1, <1>4, <1>5, SMT
  <2>2. n <= millis /\ millis + 1 <= n + T
    <3>1. n = K * seconds + T * tenths
      BY <1>1, <1>4, <1>5, SMT DEF K
    <3> DEFINE a == K * seconds
               b == T * tenths
               r == subsec % T
    <3>2. /\ millis = a + subsec /\ subsec = b + r /\ r \in 0..(T - 1)
          /\ a \in Nat /\ b \in Nat /\ n = a + b
      BY <1>1, <1>2, <1>4, <1>5, <3>1, SMT
    <3> HIDE DEF a, b, r, n, c
    <3> QED BY <1>1, <1>3, <3>2
  <2>3. (c + 1) * T = n + T
    BY <1>1, <2>1, SMT
  <2>4. n * M <= M * millis /\ M * millis + M <= (n + T) * M
        /\ n * M \in Nat
    <3> HIDE DEF n, c
    <3>1. PICK d \in Nat : millis = n + d
      BY <1>3, <2>1, <2>2
    <3>2. PICK e \in Nat : n + T = millis + 1 + e
      <4>1. (n + T) - (millis + 1) \in Nat
        BY <1>1, <1>3, <2>1, <2>2
      <4> QED BY <1>1, <1>3, <2>1, <4>1
    <3>3. M * millis = n * M + M * d /\ M * d \in Nat /\ n * M \in Nat
      BY <1>1, <2>1, <3>1, SMT
    <3>4. (n + T) * M = M * millis + M + M * e /\ M * e \in Nat
      BY <1>1, <1>3, <3>2, SMT
    <3> QED BY <1>1, <1>6, <3>3, <3>4, SMT
  <2>5. DurationWritten(age) = [unit |-> "s", count |-> c]
    BY <1>7, <1>8
  <2> HIDE DEF c
  <2>6. /\ AtLeast([unit |-> "s", count |-> c]) = n * M
        /\ LessThan([unit |-> "s", count |-> c]) = (c + 1) * T * M
    <3>1. "s" # "us" /\ "s" # "ms"
      OBVIOUS
    <3> QED BY <3>1 DEF AtLeast, LessThan, T, M
  <2>7. n * M <= age /\ age < (n + T) * M
    <3> DEFINE low == n * M
               mid == M * millis
               top == (n + T) * M
    <3>1. /\ low <= mid /\ mid + M <= top /\ mid <= age /\ age < mid + M
          /\ low \in Nat /\ mid \in Nat /\ top \in Nat
      <4>1. (n + T) * M \in Nat
        BY <1>1, <2>1, SMT
      <4> QED BY <1>6, <2>4, <4>1
    <3> HIDE DEF low, mid, top
    <3>2. low <= age /\ age < top
      BY <1>1, <3>1
    <3> QED BY <3>2 DEF low, top
  <2> HIDE DEF n
  <2> QED BY <2>3, <2>4, <2>5, <2>6, <2>7
<1>9. CASE ~(seconds >= 1) /\ millis >= 1
  <2>1. DurationWritten(age) = [unit |-> "ms", count |-> millis]
    BY <1>7, <1>9
  <2>2. /\ AtLeast([unit |-> "ms", count |-> millis]) = millis * M
        /\ LessThan([unit |-> "ms", count |-> millis]) = (millis + 1) * M
    <3>1. "ms" # "us" /\ "s" # "ms"
      OBVIOUS
    <3> QED BY <3>1 DEF AtLeast, LessThan, M
  <2>3. millis * M = M * millis /\ (millis + 1) * M = M * millis + M
    BY <1>1, <1>3, SMT
  <2> QED BY <1>6, <2>1, <2>2, <2>3
<1>10. CASE ~(seconds >= 1) /\ ~(millis >= 1)
  <2>1. DurationWritten(age) = [unit |-> "us", count |-> age]
    BY <1>7, <1>10
  <2>2. /\ AtLeast([unit |-> "us", count |-> age]) = age
        /\ LessThan([unit |-> "us", count |-> age]) = age + 1
    <3>1. "ms" # "us" /\ "s" # "us"
      OBVIOUS
    <3> QED BY <3>1 DEF AtLeast, LessThan
  <2> QED BY <2>1, <2>2
<1> QED BY <1>8, <1>9, <1>10

\* A short remainder is the number itself.
LEMMA ShortRemainder ==
  ASSUME NEW m \in Nat \ {0}, NEW a \in 0..(m - 1)
  PROVE  a % m = a
BY SMT

LEMMA AgeIsShown ==
  ASSUME uptime \in Nat, NEW cell, NEW last, HoldsTime(cell, last)
  PROVE  AgeShown(cell, last)
<1>1. CASE last = Unknown
  <2>1. cell = 0
    BY <1>1, CellsFacts DEF HoldsTime
  <2>2. Idle(cell) = Unknown
    BY <2>1 DEF Idle, Decode
  <2> QED BY <1>1, <2>2 DEF AgeShown
<1>2. CASE last # Unknown
  <2> DEFINE age == SaturatedMicros(uptime) - SaturatedMicros(last)
  <2>1. last \in Nat /\ last <= uptime /\ cell = SaturatedMicros(last) + 1
    BY <1>2 DEF HoldsTime
  <2>2. /\ SaturatedMicros(last) \in Nat /\ age \in 0..MaxMicros
        /\ age <= uptime - last
        /\ uptime < MaxMicros => age = uptime - last
    BY <2>1, CellsFacts, SMT DEF SaturatedMicros
  <2> HIDE DEF age
  <2>3. cell # 0 /\ cell - 1 = SaturatedMicros(last)
    BY <2>1, <2>2
  <2>4. Decode(cell) = SaturatedMicros(last) /\ Decode(cell) # Unknown
    BY <2>2, <2>3, CellsFacts DEF Decode
  <2>5. Idle(cell) = age
    <3>1. age % (MaxMicros + 1) = age
      BY <2>2, CellsFacts, ShortRemainder
    <3> QED BY <2>4, <3>1 DEF Idle, Elapsed, age
  <2>6. age \in Nat
    BY <2>2, CellsFacts
  <2>7. /\ AtLeast(DurationWritten(age)) <= age
        /\ age < LessThan(DurationWritten(age))
        /\ AtLeast(DurationWritten(age)) \in Nat
    BY <2>6, WrittenIsCut
  <2>8. /\ AtLeast(DurationWritten(age)) <= uptime - last
        /\ uptime < MaxMicros => uptime - last < LessThan(DurationWritten(age))
    BY <2>1, <2>2, <2>6, <2>7
  <2>9. Idle(cell) # Unknown
    BY <2>5, <2>6, CellsFacts
  <2> QED BY <1>2, <2>5, <2>8, <2>9 DEF AgeShown
<1> QED BY <1>1, <1>2

-----------------------------------------------------------------------------
(* The strap mask, bit by bit.                                             *)

LEMMA Bits == Bit(0) = 1 /\ Bit(1) = 2 /\ Bit(2) = 4 /\ Bit(3) = 8
BY DEF Bit

\* A mask is the sum of its bits.
LEMMA MaskOfBits ==
  ASSUME NEW mask \in 0..15
  PROVE  \E a, b, c, d \in 0..1 :
           /\ mask = a + 2 * b + 4 * c + 8 * d
           /\ InMask(mask, 0) <=> a = 1
           /\ InMask(mask, 1) <=> b = 1
           /\ InMask(mask, 2) <=> c = 1
           /\ InMask(mask, 3) <=> d = 1
<1> DEFINE a == mask % 2
           b == (mask \div 2) % 2
           c == (mask \div 4) % 2
           d == (mask \div 8) % 2
<1>1. a \in 0..1 /\ b \in 0..1 /\ c \in 0..1 /\ d \in 0..1
  BY SMT
<1>2. mask = a + 2 * b + 4 * c + 8 * d
  BY SMT
<1>3. mask \div 1 = mask
  BY SMT
<1>4. /\ InMask(mask, 0) <=> a = 1
      /\ InMask(mask, 1) <=> b = 1
      /\ InMask(mask, 2) <=> c = 1
      /\ InMask(mask, 3) <=> d = 1
  BY <1>3, Bits DEF InMask
<1> HIDE DEF a, b, c, d
<1> QED BY <1>1, <1>2, <1>4

\* Bits determine what is in the mask.
LEMMA BitsInMask ==
  ASSUME NEW a \in 0..1, NEW b \in 0..1, NEW c \in 0..1, NEW d \in 0..1,
         NEW mask, mask = a + 2 * b + 4 * c + 8 * d
  PROVE  /\ mask \in 0..15
         /\ InMask(mask, 0) <=> a = 1
         /\ InMask(mask, 1) <=> b = 1
         /\ InMask(mask, 2) <=> c = 1
         /\ InMask(mask, 3) <=> d = 1
<1>1. mask \in 0..15
  BY SMT
<1>2. PICK e, f, g, h \in 0..1 :
        /\ mask = e + 2 * f + 4 * g + 8 * h
        /\ InMask(mask, 0) <=> e = 1
        /\ InMask(mask, 1) <=> f = 1
        /\ InMask(mask, 2) <=> g = 1
        /\ InMask(mask, 3) <=> h = 1
  BY <1>1, MaskOfBits
<1>3. e = a /\ f = b /\ g = c /\ h = d
  BY <1>2, SMT
<1> QED BY <1>1, <1>2, <1>3

\* Setting a bit that is clear, or clearing one that is set, leaves the
\* other bits alone.
LEMMA BitSwitches ==
  ASSUME NEW mask \in 0..15, NEW line \in 0..3, NEW set \in BOOLEAN,
         ~(InMask(mask, line) <=> set), NEW new,
         new = IF set THEN mask + Bit(line) ELSE mask - Bit(line)
  PROVE  /\ new \in 0..15
         /\ InMask(new, line) <=> set
         /\ \A other \in (0..3) \ {line} :
              InMask(new, other) <=> InMask(mask, other)
<1>1. PICK a, b, c, d \in 0..1 :
        /\ mask = a + 2 * b + 4 * c + 8 * d
        /\ InMask(mask, 0) <=> a = 1
        /\ InMask(mask, 1) <=> b = 1
        /\ InMask(mask, 2) <=> c = 1
        /\ InMask(mask, 3) <=> d = 1
  BY MaskOfBits
<1> DEFINE to == IF set THEN 1 ELSE 0
<1>2. to \in 0..1 /\ (to = 1 <=> set)
  OBVIOUS
<1>3. CASE line = 0
  <2>1. new = to + 2 * b + 4 * c + 8 * d
    BY <1>1, <1>3, Bits
  <2> HIDE DEF to
  <2> QED BY <1>1, <1>2, <1>3, <2>1, BitsInMask
<1>4. CASE line = 1
  <2>1. new = a + 2 * to + 4 * c + 8 * d
    BY <1>1, <1>4, Bits
  <2> HIDE DEF to
  <2> QED BY <1>1, <1>2, <1>4, <2>1, BitsInMask
<1>5. CASE line = 2
  <2>1. new = a + 2 * b + 4 * to + 8 * d
    BY <1>1, <1>5, Bits
  <2> HIDE DEF to
  <2> QED BY <1>1, <1>2, <1>5, <2>1, BitsInMask
<1>6. CASE line = 3
  <2>1. new = a + 2 * b + 4 * c + 8 * to
    BY <1>1, <1>6, Bits
  <2> HIDE DEF to
  <2> QED BY <1>1, <1>2, <1>6, <2>1, BitsInMask
<1> QED BY <1>3, <1>4, <1>5, <1>6

\* The bits of the mask are those of the pins that are low.
MaskInv ==
  /\ strapMask \in 0..15 /\ pinsLow \subseteq StrapIndexes
  /\ \A line \in 0..3 : InMask(strapMask, line) <=> line \in pinsLow

LEMMA NothingInMask ==
  0 \in 0..15 /\ \A line \in 0..3 : ~InMask(0, line)
<1>1. 0 = 0 + 2 * 0 + 4 * 0 + 8 * 0 /\ 0 \in 0..1 /\ 0 # 1
  OBVIOUS
<1>2. ~InMask(0, 0) /\ ~InMask(0, 1) /\ ~InMask(0, 2) /\ ~InMask(0, 3)
  BY <1>1, BitsInMask
<1> QED BY <1>2

LEMMA MaskInvHolds == CellsSpec => []MaskInv
<1>1. CellsInit => MaskInv
  BY NothingInMask DEF CellsInit, MaskInv
<1>2. MaskInv /\ [CellsNext]_cellVars => MaskInv'
  <2> SUFFICES ASSUME MaskInv, [CellsNext]_cellVars PROVE MaskInv'
    OBVIOUS
  <2>1. ASSUME NEW line \in StrapIndexes, NEW assert \in BOOLEAN,
               DriveStrap(line, assert)
        PROVE  MaskInv'
    <3>1. line \in 0..3 /\ StrapIndexes \subseteq 0..3
      BY CellsAssumption
    <3>2. pinsLow' = IF assert THEN pinsLow \cup {line} ELSE pinsLow \ {line}
      BY <2>1 DEF DriveStrap
    <3>3. CASE InMask(strapMask, line) = assert
      <4>1. strapMask' = strapMask
        BY <2>1, <3>3 DEF DriveStrap
      <4>2. pinsLow' = pinsLow
        BY <3>1, <3>2, <3>3 DEF MaskInv
      <4> QED BY <4>1, <4>2 DEF MaskInv
    <3>4. CASE ~(InMask(strapMask, line) = assert)
      <4>1. ~(InMask(strapMask, line) <=> assert)
        BY <3>4 DEF InMask
      <4>2. strapMask' = IF assert THEN strapMask + Bit(line)
                         ELSE strapMask - Bit(line)
        BY <2>1, <3>4 DEF DriveStrap
      <4>3. /\ strapMask' \in 0..15
            /\ InMask(strapMask', line) <=> assert
            /\ \A other \in (0..3) \ {line} :
                 InMask(strapMask', other) <=> InMask(strapMask, other)
        BY <3>1, <4>1, <4>2, BitSwitches DEF MaskInv
      <4>4. \A k \in 0..3 : InMask(strapMask', k) <=> k \in pinsLow'
        BY <3>1, <3>2, <4>3 DEF MaskInv
      <4>5. pinsLow' \subseteq StrapIndexes
        BY <3>2 DEF MaskInv
      <4> QED BY <4>3, <4>4, <4>5 DEF MaskInv
    <3> QED BY <3>3, <3>4
  <2>2. CASE ReleaseAllStraps
    BY <2>2, NothingInMask DEF ReleaseAllStraps, MaskInv
  <2>3. ASSUME UNCHANGED strapCells PROVE MaskInv'
    BY <2>3 DEF strapCells, MaskInv
  <2>4. CASE \/ RecordVddSample \/ RecordBridgeRx \/ RecordBridgeTx
             \/ UptimeGrows \/ UNCHANGED cellVars
    BY <2>3, <2>4 DEF RecordVddSample, RecordBridgeRx, RecordBridgeTx,
                      UptimeGrows, cellVars
  <2> QED BY <2>1, <2>2, <2>4 DEF CellsNext
<1> QED BY <1>1, <1>2, PTL DEF CellsSpec

(* The status is true, whatever the width of the cells and the ratios of   *)
(* the units: each direction of the bridge is shown as never used exactly  *)
(* if it never was, and otherwise with its age, never more than it is, cut *)
(* to the unit while the cells can hold the time; the rail is the one      *)
(* sampled last; and the straps shown asserted are those whose pins are    *)
(* low, in whatever order lines were driven one by one or all released.    *)
THEOREM StatusTrue == CellsSpec => []StatusIsTrue
<1>1. CellsInv /\ MaskInv => StatusIsTrue
  <2> SUFFICES ASSUME CellsInv, MaskInv PROVE StatusIsTrue
    OBVIOUS
  <2>1. AgeShown(rxCell, lastRx) /\ AgeShown(txCell, lastTx)
    BY AgeIsShown DEF CellsInv
  <2>2. VddShown = vddSample
    BY CellsFacts DEF CellsInv, VddShown, VddStored
  <2>3. LinesAsserted = pinsLow
    BY CellsAssumption DEF MaskInv, LinesAsserted
  <2> QED BY <2>1, <2>2, <2>3 DEF StatusIsTrue
<1> QED BY <1>1, CellsInvHolds, MaskInvHolds, PTL
=============================================================================
