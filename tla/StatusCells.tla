---------------------------- MODULE StatusCells ----------------------------
(***************************************************************************)
(* The cells behind the `status' command (firmware/src/status.rs): tasks   *)
(* store into them, and a snapshot (StatusAccumulator of controller-core/  *)
(* src/repl/status.rs) reads them back, for StatusFormatter to write down. *)
(* A cell of a time or a voltage is 32 bits wide, with 0 for a value that  *)
(* is not known, so a time is stored as one more than its microseconds,    *)
(* which stop at u32::MAX - 1.  The straps share a mask, kept beside the   *)
(* pins of the strap driver.                                               *)
(***************************************************************************)
LOCAL INSTANCE Integers

CONSTANTS
  Unknown,        \* an absent Option
  MaxMicros,      \* u32::MAX
  Rails,          \* the millivolts a sample may show
  StrapIndexes,   \* as_index of the lines that are driven
  MicrosPerMilli, MillisPerTenth, TenthsPerSecond,     \* 1000, 100 and 10
  Intervals,      \* how much time may pass between two steps
  MaxUptime       \* bound on the clock

ASSUME CellsAssumption ==
  /\ MaxMicros \in Nat \ {0} /\ MaxUptime \in Nat /\ Intervals \subseteq Nat
  /\ Rails \subseteq Nat \ {0} /\ Unknown \notin Nat
  /\ StrapIndexes \subseteq 0..3
  /\ {MicrosPerMilli, MillisPerTenth, TenthsPerSecond} \subseteq Nat \ {0}

VARIABLES
  uptime,   \* the clock, which is 64 bits wide
  vddCell,  \* VDD_MV
  rxCell,   \* BRIDGE_RX_MICROS
  txCell,   \* BRIDGE_TX_MICROS
  strapMask,   \* STRAP_MASK
  pinsLow,     \* the outputs of HardwareStrapDriver that are set low
  vddSample, lastRx, lastTx   \* history: what was stored last

bridgeCells == <<rxCell, txCell, lastRx, lastTx>>
strapCells  == <<strapMask, pinsLow>>
cellVars == <<uptime, vddCell, vddSample, bridgeCells, strapCells>>

CellsInit ==
  /\ uptime = 0
  /\ vddCell = 0 /\ rxCell = 0 /\ txCell = 0
  /\ strapMask = 0 /\ pinsLow = {}
  /\ vddSample = Unknown /\ lastRx = Unknown /\ lastTx = Unknown

\* micros_from_instant
SaturatedMicros(instant) ==
  IF instant >= MaxMicros THEN MaxMicros - 1 ELSE instant

EncodePlainly(micros) == micros     \* mutant: 0 means 0

\* encode_micros and decode_micros
Encode(micros) == micros + 1
Decode(cell)   == IF cell = 0 THEN Unknown ELSE cell - 1

(* duration_since, in u32. *)
Elapsed(now, earlier) == (now - earlier) % (MaxMicros + 1)

(* snapshot: how long a direction of the bridge has been idle. *)
Idle(cell) ==
  IF Decode(cell) = Unknown THEN Unknown
  ELSE Elapsed(SaturatedMicros(uptime), Decode(cell))

VddStored(sample) == IF sample = Unknown THEN 0 ELSE sample

\* vdd_sample
VddShown == IF vddCell = 0 THEN Unknown ELSE vddCell

Bit(line) == << 1, 2, 4, 8 >>[line + 1]     \* strap_bit, 1 << as_index

InMask(mask, line) == (mask \div Bit(line)) % 2 = 1

\* The lines strap_samples_from_mask tells asserted.
LinesAsserted == {line \in StrapIndexes : InMask(strapMask, line)}

(* write_duration, as the unit written and the number before it; seconds   *)
(* are written with one decimal, so they count tenths.                     *)
DurationWritten(age) ==
  LET millis  == age \div MicrosPerMilli
      seconds == millis \div (MillisPerTenth * TenthsPerSecond)
      subsec  == millis % (MillisPerTenth * TenthsPerSecond)
  IN IF seconds >= 1
     THEN [unit |-> "s",
           count |-> seconds * TenthsPerSecond + subsec \div MillisPerTenth]
     ELSE IF millis >= 1 THEN [unit |-> "ms", count |-> millis]
     ELSE [unit |-> "us", count |-> age]

-----------------------------------------------------------------------------
RecordVddSample ==
  /\ \E sample \in Rails \cup {Unknown} :
       vddCell' = VddStored(sample) /\ vddSample' = sample
  /\ UNCHANGED <<uptime, bridgeCells, strapCells>>

(* A frame is recorded with the time of its event, as it is forwarded.     *)
RecordBridgeRx ==
  /\ rxCell' = Encode(SaturatedMicros(uptime))
  /\ lastRx' = uptime
  /\ UNCHANGED <<uptime, vddCell, vddSample, txCell, lastTx, strapCells>>

RecordBridgeTx ==
  /\ txCell' = Encode(SaturatedMicros(uptime))
  /\ lastTx' = uptime
  /\ UNCHANGED <<uptime, vddCell, vddSample, rxCell, lastRx, strapCells>>

(* drive_strap_transition and `apply' of the driver, which both store the  *)
(* bit: fetch_or to assert, fetch_and to release.                          *)
DriveStrap(line, assert) ==
  /\ strapMask' = IF InMask(strapMask, line) = assert THEN strapMask
                  ELSE IF assert THEN strapMask + Bit(line)
                  ELSE strapMask - Bit(line)
  /\ pinsLow' = IF assert THEN pinsLow \cup {line} ELSE pinsLow \ {line}
  /\ UNCHANGED <<uptime, vddCell, vddSample, bridgeCells>>

(* reset_strap_states and release_all *)
ReleaseAllStraps ==
  /\ strapMask' = 0 /\ pinsLow' = {}
  /\ UNCHANGED <<uptime, vddCell, vddSample, bridgeCells>>

UptimeGrows ==
  /\ \E passed \in Intervals :
       uptime + passed <= MaxUptime /\ uptime' = uptime + passed
  /\ UNCHANGED <<vddCell, vddSample, bridgeCells, strapCells>>

CellsNext ==
  \/ RecordVddSample \/ RecordBridgeRx \/ RecordBridgeTx \/ UptimeGrows
  \/ \E line \in StrapIndexes, assert \in BOOLEAN : DriveStrap(line, assert)
  \/ ReleaseAllStraps

CellsSpec == CellsInit /\ [][CellsNext]_cellVars

-----------------------------------------------------------------------------
\* What is written stands for an age of at least this, and less than that.
AtLeast(says) ==
  CASE says.unit = "us" -> says.count
    [] says.unit = "ms" -> says.count * MicrosPerMilli
    [] says.unit = "s"  -> says.count * MillisPerTenth * MicrosPerMilli

LessThan(says) == AtLeast([says EXCEPT !.count = @ + 1])

(* What the status says of a direction: n/a exactly if it never carried a  *)
(* frame, even if it did in the first microsecond; the true age of the     *)
(* last frame during the first 71 minutes, cut to the unit it is written   *)
(* in; after that never more.                                              *)
AgeShown(cell, last) ==
  /\ Idle(cell) = Unknown <=> last = Unknown
  /\ last # Unknown =>
       LET says == DurationWritten(Idle(cell))
       IN /\ AtLeast(says) <= uptime - last
          /\ uptime < MaxMicros => uptime - last < LessThan(says)

(* The status shows the last age of both directions, the last voltage, and *)
(* exactly the straps whose pins are low, driven one by one or all at once.*)
StatusIsTrue ==
  /\ AgeShown(rxCell, lastRx) /\ AgeShown(txCell, lastTx)
  /\ VddShown = vddSample
  /\ LinesAsserted = pinsLow
=============================================================================
