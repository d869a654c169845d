------------------------- MODULE MCSequentialParts -------------------------
(***************************************************************************)
(* The parts of the program that run to their end in the task that calls  *)
(* them and share no state with one another: the power monitor, the        *)
(* console line, the telemetry recorder, the cells of the status, the      *)
(* emulator (a program of its own) and the timing of a bridge wait.  A     *)
(* behaviour is one of a single part; the variables of the others stay as  *)
(* they began, so the states of the parts add up and are not multiplied.   *)
(***************************************************************************)
EXTENDS PowerMonitor, ConsoleLine, Telemetry, StatusCells, Emulator,
        BridgeHold, TLC

\* The letters of the words that are completed.
Spelled ==
  [reboot   |-> <<"r", "e", "b", "o", "o", "t">>,
   recovery |-> <<"r", "e", "c", "o", "v", "e", "r", "y">>,
   fault    |-> <<"f", "a", "u", "l", "t">>,
   status   |-> <<"s", "t", "a", "t", "u", "s">>,
   help     |-> <<"h", "e", "l", "p">>,
   now      |-> <<"n", "o", "w">>,
   delay    |-> <<"d", "e", "l", "a", "y">>,
   enter    |-> <<"e", "n", "t", "e", "r">>,
   exit     |-> <<"e", "x", "i", "t">>,
   recover  |-> <<"r", "e", "c", "o", "v", "e", "r">>,
   retries  |-> <<"r", "e", "t", "r", "i", "e", "s">>]
  @@ ("retries=1" :> <<"r", "e", "t", "r", "i", "e", "s", "=", "1">>)
  @@ ("retries=2" :> <<"r", "e", "t", "r", "i", "e", "s", "=", "2">>)
  @@ ("retries=3" :> <<"r", "e", "t", "r", "i", "e", "s", "=", "3">>)

\* Tokens of every kind, with the numbers on both sides of every bound.
Typed ==
  {Mark(kind) : kind \in {"Flag", "Equals", "Comma", "Error"}}
  \cup {Word("bogus")} \cup {IntegerOf(n) : n \in {0, 255, 256, 301}}
  \cup {DurationOf(n, unit) : n \in {0, 300, 301}, unit \in {1, 1000}}

\* What is entered into the emulator: each sequence, one with a delay, and
\* answers that need none.
Entered ==
  {<<Word("reboot")>>, <<Word("recovery")>>, <<Word("recovery"), Word("now")>>,
   <<Word("reboot"), Word("delay"), DurationOf(2, 1000)>>,
   <<Word("fault"), Word("recover")>>, <<Word("status")>>, <<Word("bogus")>>,
   <<Word("help"), Word("fault")>>}

VARIABLE part     \* the part whose behaviour this is

powerVars == vars
allVars == <<part, powerVars, lineVars, recorderVars, cellVars, emulatorVars,
             holdVars>>

PartsInit ==
  /\ part \in {"power", "line", "telemetry", "status", "emulator", "hold"}
  /\ Init /\ LineInit /\ RecorderInit /\ CellsInit /\ EmulatorInit
  /\ HoldInit /\ (part # "hold" => timeout = 0)

PowerStep ==
  /\ part = "power" /\ Next
  /\ UNCHANGED <<part, lineVars, recorderVars, cellVars,
                 emulatorVars, holdVars>>

LineStep ==
  /\ part = "line" /\ LineNext
  /\ UNCHANGED <<part, powerVars, recorderVars, cellVars,
                 emulatorVars, holdVars>>

RecorderStep ==
  /\ part = "telemetry" /\ RecorderNext
  /\ UNCHANGED <<part, powerVars, lineVars, cellVars,
                 emulatorVars, holdVars>>

CellsStep ==
  /\ part = "status" /\ CellsNext
  /\ UNCHANGED <<part, powerVars, lineVars, recorderVars,
                 emulatorVars, holdVars>>

EmulatorStep ==
  /\ part = "emulator" /\ EmulatorNext
  /\ UNCHANGED <<part, powerVars, lineVars, recorderVars, cellVars, holdVars>>

HoldStep ==
  /\ part = "hold" /\ HoldNext
  /\ UNCHANGED <<part, powerVars, lineVars, recorderVars, cellVars,
                 emulatorVars>>

PartsNext ==
  PowerStep \/ LineStep \/ RecorderStep \/ CellsStep
    \/ EmulatorStep \/ HoldStep

PartsSpec == PartsInit /\ [][PartsNext]_allVars
=============================================================================
