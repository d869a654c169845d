------------------------ MODULE StrapTimeline_proofs ------------------------
(***************************************************************************)
(* The timing of the strap orchestrator: proofs that a retry waits out the *)
(* hold-off of the rail, that sequences are spaced, and that the pulses of *)
(* the four sequences keep their windows, for every hold-off and every     *)
(* scale of the clock.  The invariant of StrapOrchestrator holds here as   *)
(* well, because the history variables only watch the task.                *)
(***************************************************************************)
EXTENDS StrapTimeline, StrapOrchestrator_proofs, QueueLemmas

timelineVars == <<vars, history>>

ClocksOK ==
  /\ low \in [Lines -> Nat] /\ high \in [Lines -> Nat]
  /\ quiet \in Nat

-----------------------------------------------------------------------------
(* The history watches.                                                    *)

LEMMA StepIsOfTheTask == [TimelineNext]_timelineVars => [Next]_vars
BY DEF TimelineNext, TimePasses, TaskSteps, OthersStep, Next, Environment,
       timelineVars

(* Whatever is watched, it is the orchestrator: all that is proved of it   *)
(* holds of the task with its clocks.                                      *)
THEOREM TimelineWatches == TimelineSpec => Spec
<1>1. TimelineInit => Init
  BY DEF TimelineInit
<1> QED BY <1>1, StepIsOfTheTask, PTL DEF TimelineSpec, Spec, timelineVars

LEMMA TimelineIInv == TimelineSpec => []IInv
BY TimelineWatches, IInvHolds, PTL

LEMMA LaterBounds ==
  ASSUME NEW n \in Nat
  PROVE  /\ Later(n) \in Nat /\ Later(n) >= n
         /\ \A m \in 0..Horizon : n + 1 >= m => Later(n) >= m
BY HorizonAssumption DEF Later

LEMMA ClocksStep ==
  ClocksOK /\ [TimelineNext]_timelineVars => ClocksOK'
<1> SUFFICES ASSUME ClocksOK, [TimelineNext]_timelineVars PROVE ClocksOK'
  OBVIOUS
<1> USE DEF ClocksOK
<1>1. ASSUME LinesSwitch
      PROVE  low' \in [Lines -> Nat] /\ high' \in [Lines -> Nat]
  BY <1>1 DEF LinesSwitch
<1>2. CASE TimePasses
  <2>1. \A l \in Lines : Later(low[l]) \in Nat /\ Later(high[l]) \in Nat
    BY LaterBounds
  <2>2. low' \in [Lines -> Nat] /\ high' \in [Lines -> Nat]
    BY <1>2, <2>1 DEF TimePasses
  <2>3. quiet' \in Nat
    BY <1>2 DEF TimePasses
  <2> QED BY <2>2, <2>3
<1>3. CASE TaskSteps
  <2>1. quiet' \in Nat
    BY <1>3 DEF TaskSteps, Observe
  <2> QED BY <1>1, <1>3, <2>1 DEF TaskSteps, Observe
<1>4. CASE OthersStep
  BY <1>1, <1>4 DEF OthersStep
<1>5. CASE UNCHANGED timelineVars
  BY <1>5 DEF timelineVars, history
<1> QED BY <1>2, <1>3, <1>4, <1>5 DEF TimelineNext

LEMMA ClocksInit == TimelineInit => ClocksOK
BY HorizonAssumption, ConstantsAssumption DEF TimelineInit, ClocksOK

(* A line that is high after a switch was counted on.                      *)
LEMMA HighStays ==
  ASSUME LinesSwitch, straps' = {}, NEW l \in Lines
  PROVE  high'[l] = high[l]
BY DEF LinesSwitch

-----------------------------------------------------------------------------
(* The hold-off.                                                           *)

(* While the task waits for the rail, first_stable is never longer ago     *)
(* than the last brown-out the monitor reported, or than the release of    *)
(* any line: the wait began with the release of all of them.               *)
HoldoffWatched ==
  anchor # None =>
    /\ recovering /\ quiet >= anchor
    /\ \A l \in Lines : high[l] >= anchor

LEMMA HoldoffInit == TimelineInit => HoldoffWatched
BY DEF TimelineInit, Init, HoldoffWatched

\* Nothing is low while the task waits for the rail.
LEMMA RecoveringReleased ==
  IInv /\ recovering
    => straps = {} /\ run # None /\ run.state = "Arming" /\ run.retry > 0
BY DEF IInv, ControlState, StrapsFollowTheRun

LEMMA HoldoffStep ==
  IInv /\ ClocksOK /\ HoldoffWatched /\ [TimelineNext]_timelineVars
    => HoldoffWatched'
<1> SUFFICES ASSUME IInv, ClocksOK, HoldoffWatched,
                    [TimelineNext]_timelineVars, anchor' # None
             PROVE  /\ recovering' /\ quiet' >= anchor'
                    /\ \A l \in Lines : high'[l] >= anchor'
  BY DEF HoldoffWatched
<1>0. /\ anchor \in Nat \cup {None} /\ quiet \in Nat
      /\ \A l \in Lines : high[l] \in Nat
      /\ Holdoff \in Nat /\ Horizon \in Nat /\ Holdoff <= Horizon
      /\ recovering <=> pc \in {"recover", "recoveryPace"}
      /\ recovering => straps = {} /\ run # None
      /\ anchor # None => /\ recovering /\ quiet >= anchor
                          /\ \A l \in Lines : high[l] >= anchor
  BY RecoveringReleased, ConstantsAssumption, HorizonAssumption
     DEF IInv, TypeOK, ControlState, ClocksOK, HoldoffWatched
<1>1. CASE UNCHANGED timelineVars
  BY <1>0, <1>1 DEF timelineVars, vars, taskVars, history
<1>2. CASE TimePasses
  <2>1. /\ anchor # None /\ anchor' = IF anchor < Holdoff THEN anchor + 1
                                      ELSE anchor
        /\ recovering' = recovering /\ straps = {}
    BY <1>0, <1>2 DEF TimePasses, Tick
  <2>2. anchor \in Nat /\ anchor' \in Nat
    BY <1>0, <2>1
  <2>3. quiet' = IF quiet < Holdoff THEN quiet + 1 ELSE quiet
    BY <1>2 DEF TimePasses
  <2>4. quiet' >= anchor'
    BY <1>0, <2>1, <2>2, <2>3
  <2>5. ASSUME NEW l \in Lines PROVE high'[l] >= anchor'
    <3>1. high'[l] = IF high[l] < Horizon THEN high[l] + 1 ELSE high[l]
      BY <1>2, <2>1 DEF TimePasses, Later
    <3>2. high[l] \in Nat /\ high[l] >= anchor
      BY <1>0, <2>1
    <3> QED BY <1>0, <2>1, <2>2, <3>1, <3>2
  <2> QED BY <1>0, <2>1, <2>4, <2>5
<1>3. CASE OthersStep
  <2>1. CASE ControlLinkLost
    BY <1>0, <2>1 DEF ControlLinkLost
  <2>2. CASE \/ RailChange \/ ControlLinkAttached
             \/ \E k \in Kinds, d \in Delays, r \in Overrides : Submit(k, d, r)
    <3>1. /\ anchor' = anchor /\ recovering' = recovering
          /\ straps' = straps
      BY <2>2 DEF RailChange, ControlLinkAttached, Submit, taskVars
    <3>2. quiet' = quiet /\ LinesSwitch
      BY <1>3 DEF OthersStep
    <3>3. straps' = {} /\ recovering
      BY <1>0, <3>1
    <3> QED BY <1>0, <3>1, <3>2, <3>3, HighStays
  <2> QED BY <1>3, <2>1, <2>2 DEF OthersStep
<1>4. CASE TaskSteps
  <2>1. CASE SampleRecovery
    <3>1. /\ pc = "recover" /\ recovering
          /\ straps' = straps /\ straps = {}
      BY <1>0, <2>1 DEF SampleRecovery
    <3>2. /\ anchor' = StableFor /\ recovering' = TRUE /\ rail # "BrownOut"
          /\ ~(StableFor # None /\ StableFor >= Holdoff)
      BY <2>1 DEF SampleRecovery, StableFor
    <3>3. /\ anchor' \in Nat
          /\ anchor' = 0 \/ (anchor' = anchor /\ anchor # None)
      <4>1. StableFor = IF anchor = None THEN 0 ELSE anchor
        BY <3>2 DEF StableFor
      <4>2. CASE anchor = None
        BY <3>2, <4>1, <4>2
      <4>3. CASE anchor # None
        BY <1>0, <3>2, <4>1, <4>3
      <4> QED BY <4>2, <4>3
    <3>4. quiet' = quiet
      BY <1>4, <3>2 DEF TaskSteps, Observe, SeesBrownOut
    <3>5. \A l \in Lines : high'[l] = high[l]
      BY <1>4, <3>1, HighStays DEF TaskSteps, Observe
    <3>6. CASE anchor' = 0
      BY <1>0, <3>2, <3>4, <3>5, <3>6
    <3>7. CASE anchor' = anchor /\ anchor # None
      BY <1>0, <3>2, <3>4, <3>5, <3>7
    <3> QED BY <3>3, <3>6, <3>7
  <2>2. CASE RetryRun
    BY <2>2 DEF RetryRun
  <2>3. CASE Wake
    <3>1. /\ anchor' = anchor /\ recovering' = recovering /\ anchor # None
          /\ straps' = straps /\ straps = {} /\ ~SeesBrownOut
      BY <1>0, <2>3 DEF Wake, SeesBrownOut, Polling
    <3>2. quiet' = quiet /\ \A l \in Lines : high'[l] = high[l]
      BY <1>4, <3>1, HighStays DEF TaskSteps, Observe
    <3> QED BY <1>0, <3>1, <3>2
  <2>4. CASE StartPending \/ DelayPending \/ AwaitCommand \/ ReceiveCommand
             \/ StartHeld \/ FinishRun \/ PollRail \/ GiveUp \/ Drive
    <3>1. anchor' = anchor
      BY <2>4 DEF StartPending, DelayPending, AwaitCommand, ReceiveCommand,
           StartHeld, FinishRun, PollRail, GiveUp, Drive, Arm, FinishStep,
           CompleteRun, Pause
    <3>2. pc \in {"loop", "receive", "heldDelay", "drive"}
      BY <2>4 DEF StartPending, DelayPending, AwaitCommand, ReceiveCommand,
           StartHeld, FinishRun, PollRail, GiveUp, Drive, Arm, FinishStep,
           CompleteRun, Pause, Polling
    <3> QED BY <1>0, <3>1, <3>2
  <2> QED BY <1>4, <2>1, <2>2, <2>3, <2>4 DEF TaskSteps, Task
<1> QED BY <1>1, <1>2, <1>3, <1>4 DEF TimelineNext

WatchInv == IInv /\ ClocksOK /\ HoldoffWatched

LEMMA WatchInvHolds == TimelineSpec => []WatchInv
<1>1. ClocksOK /\ HoldoffWatched /\ IInv /\ [TimelineNext]_timelineVars
        => ClocksOK' /\ HoldoffWatched'
  BY ClocksStep, HoldoffStep
<1>2. TimelineInit => ClocksOK /\ HoldoffWatched
  BY ClocksInit, HoldoffInit
<1> QED BY <1>1, <1>2, TimelineIInv, PTL DEF TimelineSpec, WatchInv, timelineVars

(* A retry goes ahead only after the monitor reported no brown-out for the *)
(* whole of stable_holdoff, however the samples and the wake-ups fall.     *)
THEOREM RetryWaits == TimelineSpec => RetryWaitsOutTheHoldoff
<1>1. WatchInv /\ [TimelineNext]_timelineVars
        => (recovering /\ ~recovering' /\ linkUp' => quiet >= Holdoff)
  <2> SUFFICES ASSUME WatchInv, [TimelineNext]_timelineVars,
                      recovering, ~recovering', linkUp'
               PROVE  quiet >= Holdoff
    OBVIOUS
  <2>1. /\ pc \in {"recover", "recoveryPace"} /\ run # None
        /\ anchor \in Nat \cup {None} /\ quiet \in Nat /\ Holdoff \in Nat
        /\ anchor # None => quiet >= anchor
    BY ConstantsAssumption
       DEF WatchInv, IInv, TypeOK, ControlState, ClocksOK, HoldoffWatched
  <2>2. SampleRecovery
    BY <2>1, StepIsOfTheTask DEF Next, Task, Environment, Drive, StartPending,
         DelayPending, AwaitCommand, ReceiveCommand, StartHeld, Wake, FinishRun,
         PollRail, RetryRun, GiveUp, Polling, Arm, FinishStep, CompleteRun,
         Pause, RailChange, Tick, Submit, ControlLinkLost,
         ControlLinkAttached, vars, taskVars
  <2>3. StableFor # None /\ StableFor >= Holdoff
    BY <2>2 DEF SampleRecovery
  <2> QED BY <2>1, <2>3 DEF StableFor
<1> QED BY <1>1, WatchInvHolds, PTL
        DEF TimelineSpec, RetryWaitsOutTheHoldoff, timelineVars

-----------------------------------------------------------------------------
(* The spacing of sequences.                                               *)

Rested(n) == \A l \in Lines : high[l] >= n

(* What the time the lines have been high owes to where the run is.  As    *)
(* long as no run was cut short, all of them have rested for a second      *)
(* wherever the next sequence may begin, and the cooldown makes up for     *)
(* what is missing; a retry has rested for the hold-off.                   *)
RestOwed ==
  /\ (~cut /\ run = None) => Rested(Window[1000])
  /\ run # None =>
       /\ (~cut /\ run.state \in {"Arming", "Complete"})
            => Rested(Window[1000])
       /\ (~cut /\ run.state = "Cooldown")
            => \A l \in Lines : high[l] + run.coolLeft >= Window[1000]
       /\ run.state = "Error" => cut
       /\ (run.state = "Arming" /\ run.retry > 0 /\ ~recovering)
            => Rested(Holdoff)

LEMMA RestInit == TimelineInit => RestOwed
BY HorizonAssumption DEF TimelineInit, Init, RestOwed, Rested

LEMMA ClockFacts ==
  ASSUME ClocksOK
  PROVE  /\ Window[1000] \in Nat /\ Holdoff \in Nat /\ Horizon \in Nat
         /\ Window[1000] <= Horizon /\ Holdoff <= Horizon
         /\ \A l \in Lines : high[l] \in Nat
BY HorizonAssumption, ConstantsAssumption DEF ClocksOK

(* What a step of the task records of the run, when it stays where it was. *)
LEMMA CutStays ==
  ASSUME Observe, ~cut', \/ pc # "drive"
                         \/ run'.state # "Cooldown"
  PROVE  ~cut /\ ~SeesBrownOut
BY DEF Observe, RunsOut

LEMMA RunStart ==
  ASSUME NEW c, NEW n, BeginRun(c, n), run = None
  PROVE  \/ run' = None
         \/ run' # None /\ run'.state = "Arming" /\ run'.retry = 0
BY DEF BeginRun, NewRun

(* Where no line is low before the step and none after it, a step that     *)
(* moves the run nowhere, or only ends it, keeps what is owed.             *)
LEMMA RestKept ==
  ASSUME ClocksOK, RestOwed, StrapsFollowTheRun, straps' = straps,
         LinesSwitch, run' = run, recovering' = recovering,
         cut => cut'
  PROVE  RestOwed'
<1>1. straps = {} => \A l \in Lines : high'[l] = high[l]
  BY HighStays
<1>2. run = None \/ run.state # "Executing" => straps = {}
  BY DEF StrapsFollowTheRun
<1> QED BY <1>1, <1>2 DEF RestOwed, Rested

LEMMA RestTick ==
  ASSUME IInv, ClocksOK, RestOwed, TimePasses
  PROVE  RestOwed'
<1>0. /\ Window[1000] \in Nat /\ Holdoff \in Nat /\ Horizon \in Nat
      /\ Window[1000] <= Horizon /\ Holdoff <= Horizon
      /\ \A l \in Lines : high[l] \in Nat
  BY ClockFacts
<1>1. run = None \/ run.state # "Executing" => straps = {}
  BY DEF IInv, StrapsFollowTheRun
<1>2. straps = {} => \A l \in Lines : high'[l] = Later(high[l])
  BY DEF TimePasses
<1>3. ASSUME NEW n \in 0..Horizon, Rested(n), straps = {} PROVE Rested(n)'
  BY <1>0, <1>2, <1>3 DEF Rested, Later
<1>4. cut' = cut /\ recovering' = recovering
  BY DEF TimePasses, Tick
<1>5. CASE run = None
  <2>1. run' = None
    BY <1>5 DEF TimePasses, Tick
  <2> QED BY <1>0, <1>1, <1>3, <1>4, <1>5, <2>1 DEF RestOwed
<1>6. CASE run # None
  <2>1. run \in SequenceRuns
    BY <1>6 DEF IInv, TypeOK
  <2>2. run' = [run EXCEPT !.stepLeft = Less(@), !.coolLeft = Less(@)]
    BY <1>6 DEF TimePasses, Tick
  <2>3. /\ run' # None /\ run'.state = run.state /\ run'.retry = run.retry
        /\ run'.coolLeft = Less(run.coolLeft) /\ run.coolLeft \in Nat
    BY <2>1, <2>2, TickedRun, RunNotNone, RunFields DEF SequenceRuns
  <2>4. (~cut /\ run.state \in {"Arming", "Complete"}) => Rested(Window[1000])'
    BY <1>0, <1>1, <1>3, <1>6 DEF RestOwed
  <2>5. (run.state = "Arming" /\ run.retry > 0 /\ ~recovering)
          => Rested(Holdoff)'
    BY <1>0, <1>1, <1>3, <1>6 DEF RestOwed
  <2>6. ASSUME ~cut, run.state = "Cooldown", NEW l \in Lines
        PROVE  high'[l] + run'.coolLeft >= Window[1000]
    <3>1. high[l] + run.coolLeft >= Window[1000] /\ high'[l] = Later(high[l])
      BY <1>1, <1>2, <1>6, <2>6 DEF RestOwed
    <3> QED BY <1>0, <2>3, <3>1 DEF Later, Less
  <2> QED BY <1>4, <1>6, <2>3, <2>4, <2>5, <2>6 DEF RestOwed
<1> QED BY <1>5, <1>6

LEMMA RestOthers ==
  ASSUME IInv, ClocksOK, RestOwed, OthersStep
  PROVE  RestOwed'
<1>1. CASE ControlLinkLost
  <2>1. run' = None /\ cut'
    BY <1>1 DEF OthersStep, ControlLinkLost
  <2> QED BY <2>1 DEF RestOwed
<1>2. CASE \/ \E k \in Kinds, d \in Delays, r \in Overrides : Submit(k, d, r)
           \/ RailChange \/ ControlLinkAttached
  <2>1. /\ straps' = straps /\ run' = run /\ recovering' = recovering
    BY <1>2 DEF Submit, RailChange, ControlLinkAttached, taskVars
  <2>2. LinesSwitch /\ (cut => cut')
    BY DEF OthersStep
  <2>3. StrapsFollowTheRun
    BY DEF IInv
  <2> QED BY <2>1, <2>2, <2>3, RestKept
<1> QED BY <1>1, <1>2 DEF OthersStep

LEMMA RestTask ==
  ASSUME IInv, IInv', ClocksOK, ClocksOK', HoldoffWatched, RestOwed, TaskSteps
  PROVE  RestOwed'
<1>0. /\ Window[1000] \in Nat /\ Holdoff \in Nat
      /\ \A l \in Lines : high[l] \in Nat /\ high'[l] \in Nat
  BY ClockFacts DEF ClocksOK
<1>1. /\ Observe /\ LinesSwitch
      /\ TypeOK /\ ControlState /\ StrapsFollowTheRun /\ StrapsFollowTheRun'
  BY DEF TaskSteps, Observe, IInv
<1>2. straps' = {} => \A l \in Lines : high'[l] = high[l]
  BY <1>1, HighStays
<1>3. /\ run = None \/ run.state # "Executing" => straps = {}
      /\ run' = None \/ run'.state # "Executing" => straps' = {}
  BY <1>1 DEF StrapsFollowTheRun
<1>4. ASSUME NEW n, Rested(n), straps' = {} PROVE Rested(n)'
  BY <1>2, <1>4 DEF Rested
(* A run is started where there was none. *)
<1>5. ASSUME NEW c, NEW n, BeginRun(c, n), run = None, pc # "drive"
      PROVE  RestOwed'
  <2>1. \/ run' = None
        \/ run' # None /\ run'.state = "Arming" /\ run'.retry = 0
    BY <1>5, RunStart
  <2>2. straps' = {}
    BY <1>3, <2>1
  <2>3. ~cut' => Rested(Window[1000])'
    BY <1>1, <1>4, <1>5, <2>2, CutStays DEF RestOwed
  <2> QED BY <2>1, <2>3 DEF RestOwed
(* The run stays where it is. *)
<1>6. ASSUME run' = run, straps' = straps, recovering' = recovering
      PROVE  RestOwed'
  <2>1. cut => cut'
    BY <1>1, <1>6 DEF Observe, RunsOut
  <2> QED BY <1>1, <1>6, <2>1, RestKept
<1>7. CASE StartPending
  BY <1>5, <1>7 DEF StartPending
<1>8. CASE ReceiveCommand
  <2>1. run = None /\ pc # "drive"
    BY <1>1, <1>8 DEF ReceiveCommand, ControlState
  <2>2. straps' = straps
    BY <1>8 DEF ReceiveCommand
  <2>3. \/ BeginRun(Head(rx), 1)
        \/ run' = run /\ recovering' = recovering
    BY <1>8 DEF ReceiveCommand
  <2> QED BY <1>5, <1>6, <2>1, <2>2, <2>3
<1>9. CASE StartHeld
  <2>1. run = None /\ pc # "drive"
    BY <1>1, <1>9 DEF StartHeld, ControlState
  <2> QED BY <1>5, <1>9, <2>1 DEF StartHeld
<1>10. CASE DelayPending \/ AwaitCommand \/ Wake \/ PollRail \/ Pause
  BY <1>6, <1>10 DEF DelayPending, AwaitCommand, Wake, PollRail, Pause
<1>11. CASE FinishRun
  <2>1. /\ run # None /\ run.state \in {"Complete", "Error"} /\ run' = None
        /\ pc # "drive" /\ straps' = straps
    BY <1>11 DEF FinishRun, Terminal
  <2>2. ~cut' => Rested(Window[1000])
    BY <1>1, <2>1, CutStays DEF RestOwed
  <2> QED BY <1>3, <1>4, <2>1, <2>2 DEF RestOwed
<1>12. CASE RetryRun
  <2>1. run \in SequenceRuns /\ cut'
    BY <1>1, <1>12
       DEF RetryRun, Polling, TypeOK, Observe, SeesBrownOut
  <2>2. run' = RetriedRun(run) /\ recovering'
    BY <1>12 DEF RetryRun
  <2>3. run'.state = "Arming"
    BY <2>1, <2>2, Retried
  <2> QED BY <2>1, <2>2, <2>3 DEF RestOwed
<1>13. CASE GiveUp
  <2>1. run \in SequenceRuns /\ cut'
    BY <1>1, <1>13
       DEF GiveUp, Polling, TypeOK, Observe, SeesBrownOut
  <2>2. run' = Ended(run, "Error", LineCount)
    BY <1>13 DEF GiveUp
  <2>3. run'.state = "Error"
    <3>1. "Error" \in SequenceStates /\ LineCount \in Nat
      BY DEF SequenceStates, LineCount
    <3> QED BY <2>1, <2>2, <3>1, EndedRun
  <2> QED BY <2>1, <2>3 DEF RestOwed
<1>14. CASE SampleRecovery
  <2>1. /\ run' = run /\ straps' = straps /\ pc # "drive"
        /\ recovering /\ run # None /\ run.state = "Arming"
    BY <1>1, <1>14 DEF SampleRecovery, ControlState
  <2>2. ~cut' => Rested(Window[1000])'
    BY <1>1, <1>3, <1>4, <2>1, CutStays DEF RestOwed
  <2>3. ~recovering' => Rested(Holdoff)'
    <3>1. SUFFICES ASSUME ~recovering' PROVE Rested(Holdoff)
      BY <1>3, <1>4, <2>1
    <3>2. StableFor # None /\ StableFor >= Holdoff
      BY <1>14, <3>1 DEF SampleRecovery
    <3>3. CASE anchor = None
      BY <1>0, <3>2, <3>3 DEF StableFor, Rested
    <3>4. CASE anchor # None
      <4>1. anchor >= Holdoff /\ anchor \in Nat
        BY <1>1, <3>2, <3>4 DEF StableFor, TypeOK
      <4>2. \A l \in Lines : high[l] >= anchor
        BY <3>4 DEF HoldoffWatched
      <4> QED BY <1>0, <4>1, <4>2 DEF Rested
    <3> QED BY <3>3, <3>4
  <2> QED BY <2>1, <2>2, <2>3 DEF RestOwed
(* A step that has no successor leaves the cooldown of its template, which *)
(* is as long as the rest that is owed.                                    *)
<1>15. ASSUME NEW i \in Nat \ {0}, EnterStep(i), pc = "drive"
       PROVE  RestOwed'
  <2>1. run # None /\ run.cmd.kind \in Registered
    BY <1>1, <1>15 DEF ControlState, RunInPlace
  <2>2. /\ run' # None
        /\ run'.state \in {"Executing", "Cooldown", "Complete"}
    BY <1>1, <1>15, <2>1, EnterStepEffect
  <2>3. CASE run'.state = "Executing"
    BY <2>2, <2>3 DEF RestOwed
  <2>4. CASE run'.state # "Executing"
    <3>1. BeginCooldown
      <4>1. ~StartStep(i)
        BY <1>1, <2>1, <2>4 DEF StartStep, TypeOK, SequenceRuns
      <4> QED BY <1>15, <4>1 DEF EnterStep
    <3>2. /\ run'.coolLeft = Template[run.cmd.kind].cooldown
          /\ run'.state = IF Template[run.cmd.kind].cooldown = 0
                          THEN "Complete" ELSE "Cooldown"
      BY <1>1, <2>1, <3>1 DEF BeginCooldown, TypeOK, SequenceRuns
    <3>3. /\ Template[run.cmd.kind].cooldown >= Window[1000]
          /\ Template[run.cmd.kind].cooldown \in Nat
      BY <2>1, CooldownAssumption, StepTyped DEF Templates
    <3>4. CASE run'.state = "Cooldown"
      BY <1>0, <2>2, <3>2, <3>3, <3>4 DEF RestOwed
    <3>5. CASE run'.state = "Complete"
      <4>1. Window[1000] = 0
        BY <1>0, <3>2, <3>3, <3>5
      <4> QED BY <1>0, <2>2, <3>5, <4>1 DEF RestOwed, Rested
    <3> QED BY <2>2, <2>4, <3>4, <3>5
  <2> QED BY <2>3, <2>4
<1>16. CASE Arm
  BY <1>15, <1>16 DEF Arm
<1>17. CASE FinishStep
  <2>1. run # None
    BY <1>1, <1>17 DEF FinishStep, ControlState
  <2>2. run.step + 1 \in Nat \ {0}
    BY <1>1, <2>1 DEF TypeOK, SequenceRuns
  <2> QED BY <1>15, <1>17, <2>2 DEF FinishStep
<1>18. CASE CompleteRun
  <2>1. run # None /\ run \in SequenceRuns
    BY <1>1, <1>18 DEF CompleteRun, ControlState, TypeOK
  <2>2. /\ run'.state = "Complete" /\ straps' = straps
        /\ run.state = "Cooldown" /\ run.coolLeft = 0
    <3>1. /\ run' = Ended(run, "Complete", 1) /\ straps' = straps
          /\ run.state = "Cooldown" /\ run.coolLeft = 0
      BY <1>18 DEF CompleteRun
    <3>2. "Complete" \in SequenceStates /\ 1 \in Nat
      BY DEF SequenceStates
    <3>3. Ended(run, "Complete", 1).state = "Complete"
      BY <2>1, <3>2, EndedRun
    <3> QED BY <3>1, <3>3
  <2>3. ~cut' => Rested(Window[1000])
    BY <1>0, <1>1, <2>1, <2>2, CutStays DEF RestOwed, Rested
  <2>4. ~cut' => Rested(Window[1000])'
    BY <1>3, <1>4, <2>2, <2>3
  <2> QED BY <2>2, <2>4 DEF RestOwed
<1> QED
  BY <1>7, <1>8, <1>9, <1>10, <1>11, <1>12, <1>13, <1>14, <1>16, <1>17, <1>18
     DEF TaskSteps, Task, Drive

LEMMA RestStep ==
  IInv /\ IInv' /\ ClocksOK /\ ClocksOK' /\ HoldoffWatched /\ RestOwed
    /\ [TimelineNext]_timelineVars
  => RestOwed'
<1>1. UNCHANGED timelineVars /\ RestOwed => RestOwed'
  BY DEF timelineVars, vars, taskVars, history, RestOwed, Rested
<1> QED BY <1>1, RestTick, RestOthers, RestTask DEF TimelineNext

SpacedInv == IInv /\ ClocksOK /\ HoldoffWatched /\ RestOwed

LEMMA SpacedInvHolds == TimelineSpec => []SpacedInv
<1>1. RestOwed /\ WatchInv /\ WatchInv' /\ [TimelineNext]_timelineVars
        => RestOwed'
  BY RestStep DEF WatchInv
<1> QED BY <1>1, RestInit, WatchInvHolds, PTL
        DEF TimelineSpec, WatchInv, SpacedInv, timelineVars

\* Only the first step of a sequence lowers a line while the run is armed.
LEMMA OnlyArmLowers ==
  ASSUME IInv, IInv', [TimelineNext]_timelineVars,
         straps = {}, straps' # {}, run.state = "Arming"
  PROVE  run # None /\ ~recovering
<1>1. /\ recovering <=> pc \in {"recover", "recoveryPace"}
      /\ pc = "drive" => run # None
  BY DEF IInv, ControlState
<1>2. pc = "drive"
  BY StepIsOfTheTask DEF Next, Task, Environment, Drive, StartPending,
     DelayPending, AwaitCommand, ReceiveCommand, StartHeld, Wake, FinishRun,
     PollRail, RetryRun, GiveUp, SampleRecovery, ReleaseAll, Arm, FinishStep,
     CompleteRun, Pause, RailChange, Tick, Submit, ControlLinkLost,
     ControlLinkAttached, vars, taskVars
<1> QED BY <1>1, <1>2

(* The first line of a sequence is lowered only when all lines have been   *)
(* high for a second, for every registry whose templates cool down for a   *)
(* second, unless the sequence before it was cut short; a retry, which the *)
(* code exempts, has waited out the hold-off.                              *)
THEOREM SequencesAreSpaced == TimelineSpec => SequencesSpaced
<1>1. SpacedInv /\ SpacedInv' /\ [TimelineNext]_timelineVars
        => ((straps = {} /\ Asserted # {} /\ run.state = "Arming") =>
              \A l \in Lines :
                high[l] >= IF ~cut THEN Window[1000]
                           ELSE IF run.retry > 0 THEN Holdoff ELSE 0)
  <2> SUFFICES ASSUME SpacedInv, SpacedInv', [TimelineNext]_timelineVars,
                      straps = {}, Asserted # {}, run.state = "Arming",
                      NEW l \in Lines
               PROVE  high[l] >= IF ~cut THEN Window[1000]
                                 ELSE IF run.retry > 0 THEN Holdoff ELSE 0
    OBVIOUS
  <2>1. straps' # {}
    BY DEF Asserted
  <2>2. run # None /\ ~recovering
    BY <2>1, OnlyArmLowers DEF SpacedInv
  <2>3. /\ ~cut => high[l] >= Window[1000]
        /\ run.retry > 0 => high[l] >= Holdoff
    BY <2>2 DEF SpacedInv, RestOwed, Rested
  <2>4. high[l] >= 0
    BY ClockFacts DEF SpacedInv
  <2> QED BY <2>3, <2>4
<1> QED BY <1>1, SpacedInvHolds, PTL
        DEF TimelineSpec, SequencesSpaced, timelineVars

-----------------------------------------------------------------------------
(* The windows of the four sequences.                                      *)

RecoveryKinds == {"RecoveryEntry", "RecoveryImmediate"}

\* Is the line low at the i-th step of a sequence?
Holds(k, i, l) ==
  \/ /\ k = "NormalReboot"
     /\ \/ i = 1 /\ l = "Pwr"
        \/ i = 3 /\ l = "Reset"
  \/ /\ k \in RecoveryKinds
     /\ \/ i \in 1..4 /\ l = "Rec"
        \/ i = 2 /\ l = "Reset"
  \/ k = "RecoveryImmediate" /\ i = 5 /\ l = "Rec"
  \/ /\ k = "FaultRecovery"
     /\ \/ i = 1 /\ l = "Apo"
        \/ i = 3 /\ l = "Pwr"
        \/ i = 5 /\ l = "Reset"

(* For how long the line will have been as it is, low or high, when the    *)
(* i-th step is over.                                                      *)
Due(k, i, l, n) ==
  \/ /\ k = "NormalReboot"
     /\ \/ i = 1 /\ l = "Pwr" /\ n = Window[200]
        \/ i = 2 /\ l = "Pwr" /\ n = Window[1000]
        \/ i = 3 /\ l = "Reset" /\ n = Window[20]
  \/ /\ k \in RecoveryKinds
     /\ \/ i = 1 /\ l = "Rec" /\ n = Window[100]
        \/ i \in {2, 3} /\ l = "Rec" /\ n = Window[100] + Window[20]
        \/ i = 2 /\ l = "Reset" /\ n = Window[20]
        \/ i = 4 /\ l = "Rec" /\ n = Window[100] + Window[20] + Window[500]
        \/ i = 4 /\ l = "Reset" /\ n = Window[500]
  \/ /\ k = "FaultRecovery"
     /\ \/ i = 1 /\ l = "Apo" /\ n = Window[250]
        \/ i = 3 /\ l = "Pwr" /\ n = Window[200]
        \/ i = 4 /\ l = "Pwr" /\ n = Window[1000]
        \/ i = 5 /\ l = "Reset" /\ n = Window[20]

\* How long a line has been as it is.
Clock(l) == IF l \in straps THEN low[l] ELSE high[l]

(* While a sequence executes, its lines are as its step has them, and what *)
(* is missing of their time is at most what is left of the step.           *)
WindowsOwed ==
  (run # None /\ run.state = "Executing") =>
    /\ \A l \in Lines : l \in straps <=> Holds(run.cmd.kind, run.step, l)
    /\ \A l \in Lines, n \in Nat :
         Due(run.cmd.kind, run.step, l, n) => Clock(l) + run.stepLeft >= n

-----------------------------------------------------------------------------
(* The steps of the four templates, with their holds in ticks.             *)

Timed(line, action, hold) == Sequence!Step(line, action, hold, "AfterDuration")

LEMMA TemplateSteps ==
  /\ Sequence!NormalRebootSteps =
       << Timed("Pwr", "AssertLow", 200), Timed("Pwr", "ReleaseHigh", 1000),
          Timed("Reset", "AssertLow", 20), Timed("Reset", "ReleaseHigh", 0) >>
  /\ Sequence!RecoveryEntrySteps =
       << Timed("Rec", "AssertLow", 100), Timed("Reset", "AssertLow", 20),
          Timed("Reset", "ReleaseHigh", 0), Timed("Rec", "AssertLow", 500),
          Timed("Rec", "ReleaseHigh", 0) >>
  /\ Sequence!RecoveryImmediateSteps =
       << Timed("Rec", "AssertLow", 100), Timed("Reset", "AssertLow", 20),
          Timed("Reset", "ReleaseHigh", 0), Timed("Rec", "AssertLow", 500),
          Sequence!Step("Rec", "AssertLow", 0, "OnBridgeActivity"),
          Timed("Rec", "ReleaseHigh", 0) >>
  /\ Sequence!FaultRecoverySteps =
       << Timed("Apo", "AssertLow", 250), Timed("Apo", "ReleaseHigh", 0),
          Timed("Pwr", "AssertLow", 200), Timed("Pwr", "ReleaseHigh", 1000),
          Timed("Reset", "AssertLow", 20), Timed("Reset", "ReleaseHigh", 0) >>
<1> USE DEF Sequence!AssertLow, Sequence!ReleaseHigh, Timed
<1>1. Sequence!NormalRebootSteps =
       << Timed("Pwr", "AssertLow", 200), Timed("Pwr", "ReleaseHigh", 1000),
          Timed("Reset", "AssertLow", 20), Timed("Reset", "ReleaseHigh", 0) >>
  BY DEF Sequence!NormalRebootSteps
<1>2. Sequence!RecoveryWindow =
       << Timed("Rec", "AssertLow", 100), Timed("Reset", "AssertLow", 20),
          Timed("Reset", "ReleaseHigh", 0), Timed("Rec", "AssertLow", 500) >>
  BY DEF Sequence!RecoveryWindow
<1>3. /\ Sequence!RecoveryEntrySteps
           = Append(Sequence!RecoveryWindow, Timed("Rec", "ReleaseHigh", 0))
      /\ Sequence!RecoveryImmediateSteps
           = Sequence!RecoveryWindow
               \o << Sequence!Step("Rec", "AssertLow", 0, "OnBridgeActivity"),
                     Timed("Rec", "ReleaseHigh", 0) >>
      /\ Sequence!FaultRecoverySteps
           = << Timed("Apo", "AssertLow", 250),
                Timed("Apo", "ReleaseHigh", 0) >>
               \o Sequence!NormalRebootSteps
  BY DEF Sequence!RecoveryEntrySteps, Sequence!RecoveryImmediateSteps,
         Sequence!FaultRecoverySteps
<1> HIDE DEF Timed
<1> QED BY <1>1, <1>2, <1>3, Appended, JoinedFour, JoinedTwo

\* A step of a template, scaled.
Is(step, line, action, hold) ==
  /\ step.line = line /\ step.action = action /\ step.hold = Window[hold]
  /\ step.completion = "AfterDuration"

AwaitsBridge(step) ==
  /\ step.line = "Rec" /\ step.action = "AssertLow"
  /\ step.completion = "OnBridgeActivity"

LEMMA ScaledStep ==
  ASSUME NEW steps, NEW i \in DOMAIN steps,
         NEW line, NEW action, NEW hold, NEW completion,
         steps[i] = Sequence!Step(line, action, hold, completion)
  PROVE  LET step == Sequence!ScaledSteps(steps, Window)[i]
         IN /\ step.line = line /\ step.action = action
            /\ step.hold = Window[hold] /\ step.completion = completion
BY DEF Sequence!ScaledSteps, Sequence!Step

LEMMA ScaledTimed ==
  ASSUME NEW steps, NEW i \in DOMAIN steps,
         NEW line, NEW action, NEW hold,
         steps[i] = Timed(line, action, hold)
  PROVE  Is(Sequence!ScaledSteps(steps, Window)[i], line, action, hold)
<1>1. steps[i] = Sequence!Step(line, action, hold, "AfterDuration")
  BY DEF Timed
<1> QED BY <1>1, ScaledStep DEF Is

\* What a template is made of.
Steps(k) ==
  CASE k = "NormalReboot"      -> Sequence!NormalRebootSteps
    [] k = "RecoveryEntry"     -> Sequence!RecoveryEntrySteps
    [] k = "RecoveryImmediate" -> Sequence!RecoveryImmediateSteps
    [] k = "FaultRecovery"     -> Sequence!FaultRecoverySteps

LEMMA PhasesAre ==
  ASSUME NEW k \in Registered
  PROVE  /\ k \in Sequence!StrapSequenceKind
         /\ Template[k].phases = Sequence!ScaledSteps(Steps(k), Window)
<1>1. /\ k \in Sequence!StrapSequenceKind
      /\ Template[k].phases = Sequence!DefaultTemplates(Window, None)[k].phases
  BY RegistryAssumption
<1>2. \A steps, retries :
        Sequence!SequenceTemplate(steps, retries, Window).phases
          = Sequence!ScaledSteps(steps, Window)
  BY DEF Sequence!SequenceTemplate
<1>3. CASE k = "NormalReboot"
  BY <1>1, <1>2, <1>3 DEF Steps, Sequence!DefaultTemplates
<1>4. CASE k = "RecoveryEntry"
  BY <1>1, <1>2, <1>4 DEF Steps, Sequence!DefaultTemplates
<1>5. CASE k = "RecoveryImmediate"
  BY <1>1, <1>2, <1>5 DEF Steps, Sequence!DefaultTemplates
<1>6. CASE k = "FaultRecovery"
  BY <1>1, <1>2, <1>6 DEF Steps, Sequence!DefaultTemplates
<1> QED BY <1>1, <1>3, <1>4, <1>5, <1>6 DEF Sequence!StrapSequenceKind

\* The steps that FaultRecovery shares with NormalReboot, and those that the
\* two recoveries share.
RebootSteps(a, b, c, d) ==
  /\ Is(a, "Pwr", "AssertLow", 200) /\ Is(b, "Pwr", "ReleaseHigh", 1000)
  /\ Is(c, "Reset", "AssertLow", 20) /\ Is(d, "Reset", "ReleaseHigh", 0)

RecoverySteps(p) ==
  /\ Is(p[1], "Rec", "AssertLow", 100)
  /\ Is(p[2], "Reset", "AssertLow", 20)
  /\ Is(p[3], "Reset", "ReleaseHigh", 0)
  /\ Is(p[4], "Rec", "AssertLow", 500)

\* The steps of the template of a kind.
StepsAre(k, p) ==
  \/ /\ k = "NormalReboot" /\ Len(p) = 4
     /\ RebootSteps(p[1], p[2], p[3], p[4])
  \/ /\ k = "RecoveryEntry" /\ Len(p) = 5
     /\ RecoverySteps(p) /\ Is(p[5], "Rec", "ReleaseHigh", 0)
  \/ /\ k = "RecoveryImmediate" /\ Len(p) = 6
     /\ RecoverySteps(p) /\ AwaitsBridge(p[5])
     /\ Is(p[6], "Rec", "ReleaseHigh", 0)
  \/ /\ k = "FaultRecovery" /\ Len(p) = 6
     /\ Is(p[1], "Apo", "AssertLow", 250) /\ Is(p[2], "Apo", "ReleaseHigh", 0)
     /\ RebootSteps(p[3], p[4], p[5], p[6])

LEMMA FourScaled ==
  ASSUME NEW a, NEW b, NEW c, NEW d
  PROVE  LET p == Sequence!ScaledSteps(<<a, b, c, d>>, Window)
         IN /\ DOMAIN p = 1..4
            /\ DOMAIN <<a, b, c, d>> = 1..4
BY DEF Sequence!ScaledSteps

LEMMA FiveScaled ==
  ASSUME NEW a, NEW b, NEW c, NEW d, NEW e
  PROVE  LET p == Sequence!ScaledSteps(<<a, b, c, d, e>>, Window)
         IN /\ DOMAIN p = 1..5
            /\ DOMAIN <<a, b, c, d, e>> = 1..5
BY DEF Sequence!ScaledSteps

LEMMA SixScaled ==
  ASSUME NEW a, NEW b, NEW c, NEW d, NEW e, NEW f
  PROVE  LET p == Sequence!ScaledSteps(<<a, b, c, d, e, f>>, Window)
         IN /\ DOMAIN p = 1..6
            /\ DOMAIN <<a, b, c, d, e, f>> = 1..6
BY DEF Sequence!ScaledSteps

LEMMA SameEnd ==
  ASSUME NEW m \in Nat, NEW n \in Nat, 1..m = 1..n
  PROVE  m = n
<1>1. CASE m < n
  <2>1. n \in 1..n /\ n \notin 1..m
    BY <1>1
  <2> QED BY <2>1
<1>2. CASE n < m
  <2>1. m \in 1..m /\ m \notin 1..n
    BY <1>2
  <2> QED BY <2>1
<1> QED BY <1>1, <1>2

LEMMA StepsOfPhases ==
  ASSUME NEW k \in Registered
  PROVE  StepsAre(k, Template[k].phases)
<1> DEFINE p == Template[k].phases
<1>0. /\ p = Sequence!ScaledSteps(Steps(k), Window)
      /\ k \in Sequence!StrapSequenceKind
      /\ p \in Seq(StrapSteps)
  BY PhasesAre, StepTyped
<1>1. /\ DOMAIN p = 1..Len(p) /\ Len(p) \in Nat
  BY <1>0
<1> HIDE DEF p
<1>2. CASE k = "NormalReboot"
  <2> DEFINE s == << Timed("Pwr", "AssertLow", 200),
                     Timed("Pwr", "ReleaseHigh", 1000),
                     Timed("Reset", "AssertLow", 20),
                     Timed("Reset", "ReleaseHigh", 0) >>
  <2>1. p = Sequence!ScaledSteps(s, Window)
    BY <1>0, <1>2, TemplateSteps DEF Steps
  <2>2. DOMAIN s = 1..4 /\ DOMAIN p = 1..4
    BY <2>1, FourScaled
  <2>3. /\ s[1] = Timed("Pwr", "AssertLow", 200)
        /\ s[2] = Timed("Pwr", "ReleaseHigh", 1000)
        /\ s[3] = Timed("Reset", "AssertLow", 20)
        /\ s[4] = Timed("Reset", "ReleaseHigh", 0)
    OBVIOUS
  <2>4. 1 \in 1..4 /\ 2 \in 1..4 /\ 3 \in 1..4 /\ 4 \in 1..4
    OBVIOUS
  <2> HIDE DEF s
  <2>5. /\ Is(p[1], "Pwr", "AssertLow", 200)
        /\ Is(p[2], "Pwr", "ReleaseHigh", 1000)
        /\ Is(p[3], "Reset", "AssertLow", 20)
        /\ Is(p[4], "Reset", "ReleaseHigh", 0)
    BY <2>1, <2>2, <2>3, <2>4, ScaledTimed
  <2>6. Len(p) = 4
    <3>1. 1..Len(p) = 1..4 /\ 4 \in Nat
      BY <1>1, <2>2
    <3> QED BY <1>1, <3>1, SameEnd
  <2>8. RebootSteps(p[1], p[2], p[3], p[4])
    BY <2>5 DEF RebootSteps
  <2> QED BY <1>2, <2>6, <2>8 DEF StepsAre, p
<1>3. CASE k = "RecoveryEntry"
  <2> DEFINE s == << Timed("Rec", "AssertLow", 100),
                     Timed("Reset", "AssertLow", 20),
                     Timed("Reset", "ReleaseHigh", 0),
                     Timed("Rec", "AssertLow", 500),
                     Timed("Rec", "ReleaseHigh", 0) >>
  <2>1. p = Sequence!ScaledSteps(s, Window)
    BY <1>0, <1>3, TemplateSteps DEF Steps
  <2>2. DOMAIN s = 1..5 /\ DOMAIN p = 1..5
    BY <2>1, FiveScaled
  <2>3. /\ s[1] = Timed("Rec", "AssertLow", 100)
        /\ s[2] = Timed("Reset", "AssertLow", 20)
        /\ s[3] = Timed("Reset", "ReleaseHigh", 0)
        /\ s[4] = Timed("Rec", "AssertLow", 500)
        /\ s[5] = Timed("Rec", "ReleaseHigh", 0)
    OBVIOUS
  <2>4. 1 \in 1..5 /\ 2 \in 1..5 /\ 3 \in 1..5 /\ 4 \in 1..5 /\ 5 \in 1..5
    OBVIOUS
  <2> HIDE DEF s
  <2>5. /\ Is(p[1], "Rec", "AssertLow", 100)
        /\ Is(p[2], "Reset", "AssertLow", 20)
        /\ Is(p[3], "Reset", "ReleaseHigh", 0)
        /\ Is(p[4], "Rec", "AssertLow", 500)
        /\ Is(p[5], "Rec", "ReleaseHigh", 0)
    BY <2>1, <2>2, <2>3, <2>4, ScaledTimed
  <2>6. Len(p) = 5
    <3>1. 1..Len(p) = 1..5 /\ 5 \in Nat
      BY <1>1, <2>2
    <3> QED BY <1>1, <3>1, SameEnd
  <2> QED BY <1>3, <2>5, <2>6 DEF StepsAre, RecoverySteps, p
<1>4. CASE k = "RecoveryImmediate"
  <2> DEFINE s == << Timed("Rec", "AssertLow", 100),
                     Timed("Reset", "AssertLow", 20),
                     Timed("Reset", "ReleaseHigh", 0),
                     Timed("Rec", "AssertLow", 500),
                     Sequence!Step("Rec", "AssertLow", 0, "OnBridgeActivity"),
                     Timed("Rec", "ReleaseHigh", 0) >>
  <2>1. p = Sequence!ScaledSteps(s, Window)
    BY <1>0, <1>4, TemplateSteps DEF Steps
  <2>2. DOMAIN s = 1..6 /\ DOMAIN p = 1..6
    BY <2>1, SixScaled
  <2>3. /\ s[1] = Timed("Rec", "AssertLow", 100)
        /\ s[2] = Timed("Reset", "AssertLow", 20)
        /\ s[3] = Timed("Reset", "ReleaseHigh", 0)
        /\ s[4] = Timed("Rec", "AssertLow", 500)
        /\ s[5] = Sequence!Step("Rec", "AssertLow", 0, "OnBridgeActivity")
        /\ s[6] = Timed("Rec", "ReleaseHigh", 0)
    OBVIOUS
  <2>4. /\ 1 \in 1..6 /\ 2 \in 1..6 /\ 3 \in 1..6
        /\ 4 \in 1..6 /\ 5 \in 1..6 /\ 6 \in 1..6
    OBVIOUS
  <2> HIDE DEF s
  <2>5. /\ Is(p[1], "Rec", "AssertLow", 100)
        /\ Is(p[2], "Reset", "AssertLow", 20)
        /\ Is(p[3], "Reset", "ReleaseHigh", 0)
        /\ Is(p[4], "Rec", "AssertLow", 500)
        /\ Is(p[6], "Rec", "ReleaseHigh", 0)
    BY <2>1, <2>2, <2>3, <2>4, ScaledTimed
  <2>6. AwaitsBridge(p[5])
    BY <2>1, <2>2, <2>3, <2>4, ScaledStep DEF AwaitsBridge
  <2>7. Len(p) = 6
    <3>1. 1..Len(p) = 1..6 /\ 6 \in Nat
      BY <1>1, <2>2
    <3> QED BY <1>1, <3>1, SameEnd
  <2> QED BY <1>4, <2>5, <2>6, <2>7 DEF StepsAre, RecoverySteps, p
<1>5. CASE k = "FaultRecovery"
  <2> DEFINE s == << Timed("Apo", "AssertLow", 250),
                     Timed("Apo", "ReleaseHigh", 0),
                     Timed("Pwr", "AssertLow", 200),
                     Timed("Pwr", "ReleaseHigh", 1000),
                     Timed("Reset", "AssertLow", 20),
                     Timed("Reset", "ReleaseHigh", 0) >>
  <2>1. p = Sequence!ScaledSteps(s, Window)
    BY <1>0, <1>5, TemplateSteps DEF Steps
  <2>2. DOMAIN s = 1..6 /\ DOMAIN p = 1..6
    BY <2>1, SixScaled
  <2>3. /\ s[1] = Timed("Apo", "AssertLow", 250)
        /\ s[2] = Timed("Apo", "ReleaseHigh", 0)
        /\ s[3] = Timed("Pwr", "AssertLow", 200)
        /\ s[4] = Timed("Pwr", "ReleaseHigh", 1000)
        /\ s[5] = Timed("Reset", "AssertLow", 20)
        /\ s[6] = Timed("Reset", "ReleaseHigh", 0)
    OBVIOUS
  <2>4. /\ 1 \in 1..6 /\ 2 \in 1..6 /\ 3 \in 1..6
        /\ 4 \in 1..6 /\ 5 \in 1..6 /\ 6 \in 1..6
    OBVIOUS
  <2> HIDE DEF s
  <2>5. /\ Is(p[1], "Apo", "AssertLow", 250)
        /\ Is(p[2], "Apo", "ReleaseHigh", 0)
        /\ Is(p[3], "Pwr", "AssertLow", 200)
        /\ Is(p[4], "Pwr", "ReleaseHigh", 1000)
        /\ Is(p[5], "Reset", "AssertLow", 20)
        /\ Is(p[6], "Reset", "ReleaseHigh", 0)
    BY <2>1, <2>2, <2>3, <2>4, ScaledTimed
  <2>6. Len(p) = 6
    <3>1. 1..Len(p) = 1..6 /\ 6 \in Nat
      BY <1>1, <2>2
    <3> QED BY <1>1, <3>1, SameEnd
  <2>8. RebootSteps(p[3], p[4], p[5], p[6])
    BY <2>5 DEF RebootSteps
  <2> QED BY <1>5, <2>5, <2>6, <2>8 DEF StepsAre, p
<1> QED BY <1>0, <1>2, <1>3, <1>4, <1>5 DEF Sequence!StrapSequenceKind

-----------------------------------------------------------------------------
(* What the invariant says of a step follows from the step before it.      *)

\* The step drives its line, and leaves the others as they were.
Drives(k, i, step) ==
  \A l : Holds(k, i, l) <=> IF step.line = l THEN step.action = "AssertLow"
                            ELSE Holds(k, i - 1, l)

\* Whatever is due at its end is its own hold, or was due before it.
Extends(k, i, step) ==
  \A l, n : Due(k, i, l, n) =>
    /\ step.completion = "AfterDuration"
    /\ n \in 0..Horizon
    /\ \/ n = step.hold
       \/ \E m \in Nat : /\ Due(k, i - 1, l, m) /\ n <= m + step.hold
                         /\ Holds(k, i, l) <=> Holds(k, i - 1, l)

\* The windows of the lines it drives are over.
Timely(k, i, step) ==
  /\ (step.action = "ReleaseHigh" /\ Holds(k, i - 1, step.line))
       => Due(k, i - 1, step.line, Pulse[step.line])
  /\ (step.action = "AssertLow" /\ step.line = "Reset") =>
       IF k \in RecoveryKinds
       THEN Holds(k, i - 1, "Rec") /\ Due(k, i - 1, "Rec", Window[100])
       ELSE /\ \A l : ~Holds(k, i - 1, l)
            /\ Due(k, i - 1, "Pwr", Window[1000])
  /\ (step.action = "ReleaseHigh" /\ step.line = "Rec"
        /\ Holds(k, i - 1, "Rec"))
       => Due(k, i - 1, "Reset", Window[500]) /\ ~Holds(k, i - 1, "Reset")

LEMMA Durations ==
  /\ Window[0] \in 0..Horizon /\ Window[20] \in 0..Horizon
  /\ Window[100] \in 0..Horizon /\ Window[200] \in 0..Horizon
  /\ Window[250] \in 0..Horizon /\ Window[500] \in 0..Horizon
  /\ Window[1000] \in 0..Horizon
  /\ Window[100] + Window[20] \in 0..Horizon
  /\ Window[100] + Window[20] + Window[500] \in 0..Horizon
<1>1. Horizon \in Nat
  BY HorizonAssumption
<1>2. \A ms \in {0, 20, 100, 200, 250, 500, 1000} : Window[ms] \in 0..Horizon
  BY RegistryAssumption DEF Sequence!Durations
<1>3. /\ Window[20] \in Nat /\ Window[100] \in Nat /\ Window[500] \in Nat
      /\ Window[100] + Window[20] + Window[500] <= Horizon
  BY <1>1, <1>2, RegistryAssumption
<1>4. /\ Window[100] + Window[20] \in 0..Horizon
      /\ Window[100] + Window[20] + Window[500] \in 0..Horizon
  BY <1>1, <1>3
<1> QED BY <1>2, <1>4

\* At the end of the step nothing but its own hold is due.
OnlyDue(k, i, hold) == \A l, n : Due(k, i, l, n) => n = hold

LEMMA OwnHold ==
  ASSUME NEW k, NEW i, NEW step, NEW hold, OnlyDue(k, i, hold),
         step.completion = "AfterDuration", step.hold = hold,
         hold \in 0..Horizon
  PROVE  Extends(k, i, step)
BY DEF Extends, OnlyDue

LEMMA StepFollows ==
  ASSUME NEW k \in Registered, NEW i \in 1..Len(Template[k].phases),
         i > 1 => Template[k].phases[i - 1].completion = "AfterDuration"
  PROVE  LET step == Template[k].phases[i]
         IN Drives(k, i, step) /\ Extends(k, i, step) /\ Timely(k, i, step)
<1> DEFINE p == Template[k].phases
           step == p[i]
           Goal == Drives(k, i, step) /\ Extends(k, i, step)
                     /\ Timely(k, i, step)
<1>0. StepsAre(k, p) /\ i \in Nat /\ i >= 1 /\ i <= Len(p)
  BY StepsOfPhases, StepTyped
<1>1. i > 1 => p[i - 1].completion = "AfterDuration"
  OBVIOUS
<1> SUFFICES Goal
  OBVIOUS
<1> HIDE DEF p
<1> USE DEF Is, AwaitsBridge, RecoveryKinds
<1>2. CASE k = "NormalReboot"
  <2>0. /\ k = "NormalReboot" /\ Len(p) = 4
        /\ RebootSteps(p[1], p[2], p[3], p[4])
    BY <1>0, <1>2 DEF StepsAre
  <2>1. CASE i = 1
    <3>1. Is(step, "Pwr", "AssertLow", 200)
      BY <1>0, <2>0, <2>1 DEF RebootSteps, RecoverySteps
    <3>2. Drives(k, i, step)
      BY <2>0, <2>1, <3>1 DEF Drives, Holds
    <3>3. Extends(k, i, step)
      <4>1. OnlyDue(k, i, Window[200])
        BY <2>0, <2>1 DEF OnlyDue, Due
      <4>2. /\ step.completion = "AfterDuration" /\ step.hold = Window[200]
            /\ Window[200] \in 0..Horizon
        BY <3>1, Durations
      <4> QED BY <4>1, <4>2, OwnHold
    <3>4. Timely(k, i, step)
      BY <2>0, <2>1, <3>1 DEF Timely, Due, Holds, Pulse
    <3> QED BY <3>2, <3>3, <3>4
  <2>2. CASE i = 2
    <3>1. Is(step, "Pwr", "ReleaseHigh", 1000)
      BY <1>0, <2>0, <2>2 DEF RebootSteps, RecoverySteps
    <3>2. Drives(k, i, step)
      BY <2>0, <2>2, <3>1 DEF Drives, Holds
    <3>3. Extends(k, i, step)
      <4>1. OnlyDue(k, i, Window[1000])
        BY <2>0, <2>2 DEF OnlyDue, Due
      <4>2. /\ step.completion = "AfterDuration" /\ step.hold = Window[1000]
            /\ Window[1000] \in 0..Horizon
        BY <3>1, Durations
      <4> QED BY <4>1, <4>2, OwnHold
    <3>4. Timely(k, i, step)
      BY <2>0, <2>2, <3>1 DEF Timely, Due, Holds, Pulse
    <3> QED BY <3>2, <3>3, <3>4
  <2>3. CASE i = 3
    <3>1. Is(step, "Reset", "AssertLow", 20)
      BY <1>0, <2>0, <2>3 DEF RebootSteps, RecoverySteps
    <3>2. Drives(k, i, step)
      BY <2>0, <2>3, <3>1 DEF Drives, Holds
    <3>3. Extends(k, i, step)
      <4>1. OnlyDue(k, i, Window[20])
        BY <2>0, <2>3 DEF OnlyDue, Due
      <4>2. /\ step.completion = "AfterDuration" /\ step.hold = Window[20]
            /\ Window[20] \in 0..Horizon
        BY <3>1, Durations
      <4> QED BY <4>1, <4>2, OwnHold
    <3>4. Timely(k, i, step)
      BY <2>0, <2>3, <3>1 DEF Timely, Due, Holds, Pulse
    <3> QED BY <3>2, <3>3, <3>4
  <2>4. CASE i = 4
    <3>1. Is(step, "Reset", "ReleaseHigh", 0)
      BY <1>0, <2>0, <2>4 DEF RebootSteps, RecoverySteps
    <3>2. Drives(k, i, step)
      BY <2>0, <2>4, <3>1 DEF Drives, Holds
    <3>3. Extends(k, i, step)
      <4>1. \A l, n : ~Due(k, i, l, n)
        BY <2>0, <2>4 DEF Due
      <4> QED BY <4>1 DEF Extends
    <3>4. Timely(k, i, step)
      BY <2>0, <2>4, <3>1 DEF Timely, Due, Holds, Pulse
    <3> QED BY <3>2, <3>3, <3>4
  <2> QED BY <1>0, <2>0, <2>1, <2>2, <2>3, <2>4
<1>3. CASE k \in RecoveryKinds /\ i <= 4
  <2>0. k \in RecoveryKinds /\ i <= 4 /\ RecoverySteps(p)
    BY <1>0, <1>3 DEF StepsAre
  <2>1. CASE i = 1
    <3>1. Is(step, "Rec", "AssertLow", 100)
      BY <1>0, <2>0, <2>1 DEF RebootSteps, RecoverySteps
    <3>2. Drives(k, i, step)
      BY <2>0, <2>1, <3>1 DEF Drives, Holds
    <3>3. Extends(k, i, step)
      <4>1. OnlyDue(k, i, Window[100])
        BY <2>0, <2>1 DEF OnlyDue, Due
      <4>2. /\ step.completion = "AfterDuration" /\ step.hold = Window[100]
            /\ Window[100] \in 0..Horizon
        BY <3>1, Durations
      <4> QED BY <4>1, <4>2, OwnHold
    <3>4. Timely(k, i, step)
      BY <2>0, <2>1, <3>1 DEF Timely, Due, Holds, Pulse
    <3> QED BY <3>2, <3>3, <3>4
  <2>2. CASE i = 2
    <3>1. Is(step, "Reset", "AssertLow", 20)
      BY <1>0, <2>0, <2>2 DEF RebootSteps, RecoverySteps
    <3>2. Drives(k, i, step)
      BY <2>0, <2>2, <3>1 DEF Drives, Holds
    <3>3. Extends(k, i, step)
      <4> SUFFICES ASSUME NEW l, NEW n, Due(k, i, l, n)
                   PROVE  /\ n \in 0..Horizon
                          /\ \/ n = step.hold
                             \/ \E m \in Nat :
                                  /\ Due(k, i - 1, l, m)
                                  /\ n <= m + step.hold
                                  /\ Holds(k, i, l) <=> Holds(k, i - 1, l)
        BY <3>1 DEF Extends
      <4>1. \/ l = "Rec" /\ n = Window[100] + Window[20]
            \/ n = Window[20]
        BY <2>0, <2>2 DEF Due
      <4>2. CASE n = Window[20]
        BY <3>1, <4>2, Durations
      <4>3. CASE l = "Rec" /\ n = Window[100] + Window[20]
        <5> DEFINE m == Window[100]
        <5>2. /\ step.hold = Window[20] /\ m \in 0..Horizon
             /\ n \in 0..Horizon /\ n = m + Window[20]
             /\ Window[20] \in 0..Horizon
          BY <3>1, <4>3, Durations
        <5>3. Due(k, i - 1, l, m)
          BY <2>0, <2>2, <4>3 DEF Due
        <5>4. Holds(k, i, l) <=> Holds(k, i - 1, l)
          BY <2>0, <2>2, <4>3 DEF Holds
        <5> HIDE DEF m
        <5>5. m \in Nat /\ n <= m + step.hold
          BY <5>2
        <5> QED BY <5>2, <5>3, <5>4, <5>5
      <4> QED BY <4>1, <4>2, <4>3
    <3>4. Timely(k, i, step)
      BY <2>0, <2>2, <3>1 DEF Timely, Due, Holds, Pulse
    <3> QED BY <3>2, <3>3, <3>4
  <2>3. CASE i = 3
    <3>1. Is(step, "Reset", "ReleaseHigh", 0)
      BY <1>0, <2>0, <2>3 DEF RebootSteps, RecoverySteps
    <3>2. Drives(k, i, step)
      BY <2>0, <2>3, <3>1 DEF Drives, Holds
    <3>3. Extends(k, i, step)
      <4> SUFFICES ASSUME NEW l, NEW n, Due(k, i, l, n)
                   PROVE  /\ n \in 0..Horizon
                          /\ \/ n = step.hold
                             \/ \E m \in Nat :
                                  /\ Due(k, i - 1, l, m)
                                  /\ n <= m + step.hold
                                  /\ Holds(k, i, l) <=> Holds(k, i - 1, l)
        BY <3>1 DEF Extends
      <4>1. l = "Rec" /\ n = Window[100] + Window[20]
        BY <2>0, <2>3 DEF Due
      <4> DEFINE m == Window[100] + Window[20]
      <4>2. /\ step.hold = Window[0] /\ m \in 0..Horizon
           /\ n \in 0..Horizon /\ n = m
           /\ Window[0] \in 0..Horizon
        BY <3>1, <4>1, Durations
      <4>3. Due(k, i - 1, l, m)
        BY <2>0, <2>3, <4>1 DEF Due
      <4>4. Holds(k, i, l) <=> Holds(k, i - 1, l)
        BY <2>0, <2>3, <4>1 DEF Holds
      <4> HIDE DEF m
      <4>5. m \in Nat /\ n <= m + step.hold
        BY <4>2
      <4> QED BY <4>2, <4>3, <4>4, <4>5
    <3>4. Timely(k, i, step)
      BY <2>0, <2>3, <3>1 DEF Timely, Due, Holds, Pulse
    <3> QED BY <3>2, <3>3, <3>4
  <2>4. CASE i = 4
    <3>1. Is(step, "Rec", "AssertLow", 500)
      BY <1>0, <2>0, <2>4 DEF RebootSteps, RecoverySteps
    <3>2. Drives(k, i, step)
      BY <2>0, <2>4, <3>1 DEF Drives, Holds
    <3>3. Extends(k, i, step)
      <4> SUFFICES ASSUME NEW l, NEW n, Due(k, i, l, n)
                   PROVE  /\ n \in 0..Horizon
                          /\ \/ n = step.hold
                             \/ \E m \in Nat :
                                  /\ Due(k, i - 1, l, m)
                                  /\ n <= m + step.hold
                                  /\ Holds(k, i, l) <=> Holds(k, i - 1, l)
        BY <3>1 DEF Extends
      <4>1. \/ l = "Rec" /\ n = Window[100] + Window[20] + Window[500]
            \/ n = Window[500]
        BY <2>0, <2>4 DEF Due
      <4>2. CASE n = Window[500]
        BY <3>1, <4>2, Durations
      <4>3. CASE l = "Rec" /\ n = Window[100] + Window[20] + Window[500]
        <5> DEFINE m == Window[100] + Window[20]
        <5>2. /\ step.hold = Window[500] /\ m \in 0..Horizon
             /\ n \in 0..Horizon /\ n = m + Window[500]
             /\ Window[500] \in 0..Horizon
          BY <3>1, <4>3, Durations
        <5>3. Due(k, i - 1, l, m)
          BY <2>0, <2>4, <4>3 DEF Due
        <5>4. Holds(k, i, l) <=> Holds(k, i - 1, l)
          BY <2>0, <2>4, <4>3 DEF Holds
        <5> HIDE DEF m
        <5>5. m \in Nat /\ n <= m + step.hold
          BY <5>2
        <5> QED BY <5>2, <5>3, <5>4, <5>5
      <4> QED BY <4>1, <4>2, <4>3
    <3>4. Timely(k, i, step)
      BY <2>0, <2>4, <3>1 DEF Timely, Due, Holds, Pulse
    <3> QED BY <3>2, <3>3, <3>4
  <2> QED BY <1>0, <2>0, <2>1, <2>2, <2>3, <2>4
<1>4. CASE k = "RecoveryEntry" /\ i > 4
  <2>0. /\ k = "RecoveryEntry" /\ i > 4 /\ Len(p) = 5
        /\ Is(p[5], "Rec", "ReleaseHigh", 0)
    BY <1>0, <1>4 DEF StepsAre
  <2>1. CASE i = 5
    <3>1. Is(step, "Rec", "ReleaseHigh", 0)
      BY <1>0, <2>0, <2>1 DEF RebootSteps, RecoverySteps
    <3>2. Drives(k, i, step)
      BY <2>0, <2>1, <3>1 DEF Drives, Holds
    <3>3. Extends(k, i, step)
      <4>1. \A l, n : ~Due(k, i, l, n)
        BY <2>0, <2>1 DEF Due
      <4> QED BY <4>1 DEF Extends
    <3>4. Timely(k, i, step)
      BY <2>0, <2>1, <3>1 DEF Timely, Due, Holds, Pulse
    <3> QED BY <3>2, <3>3, <3>4
  <2> QED BY <1>0, <2>0, <2>1
<1>5. CASE k = "RecoveryImmediate" /\ i > 4
  <2>0. /\ k = "RecoveryImmediate" /\ i > 4 /\ Len(p) = 6
        /\ AwaitsBridge(p[5])
    BY <1>0, <1>5 DEF StepsAre
  <2>1. CASE i = 5
    <3>1. AwaitsBridge(step)
      BY <1>0, <2>0, <2>1 DEF RebootSteps, RecoverySteps
    <3>2. Drives(k, i, step)
      BY <2>0, <2>1, <3>1 DEF Drives, Holds
    <3>3. Extends(k, i, step)
      <4>1. \A l, n : ~Due(k, i, l, n)
        BY <2>0, <2>1 DEF Due
      <4> QED BY <4>1 DEF Extends
    <3>4. Timely(k, i, step)
      BY <2>0, <2>1, <3>1 DEF Timely, Due, Holds, Pulse
    <3> QED BY <3>2, <3>3, <3>4
  <2>2. i # 6
    BY <1>1, <2>0
  <2> QED BY <1>0, <2>0, <2>1, <2>2
<1>6. CASE k = "FaultRecovery"
  <2>0. /\ k = "FaultRecovery" /\ Len(p) = 6
        /\ Is(p[1], "Apo", "AssertLow", 250)
        /\ Is(p[2], "Apo", "ReleaseHigh", 0)
        /\ RebootSteps(p[3], p[4], p[5], p[6])
    BY <1>0, <1>6 DEF StepsAre
  <2>1. CASE i = 1
    <3>1. Is(step, "Apo", "AssertLow", 250)
      BY <1>0, <2>0, <2>1 DEF RebootSteps, RecoverySteps
    <3>2. Drives(k, i, step)
      BY <2>0, <2>1, <3>1 DEF Drives, Holds
    <3>3. Extends(k, i, step)
      <4>1. OnlyDue(k, i, Window[250])
        BY <2>0, <2>1 DEF OnlyDue, Due
      <4>2. /\ step.completion = "AfterDuration" /\ step.hold = Window[250]
            /\ Window[250] \in 0..Horizon
        BY <3>1, Durations
      <4> QED BY <4>1, <4>2, OwnHold
    <3>4. Timely(k, i, step)
      BY <2>0, <2>1, <3>1 DEF Timely, Due, Holds, Pulse
    <3> QED BY <3>2, <3>3, <3>4
  <2>2. CASE i = 2
    <3>1. Is(step, "Apo", "ReleaseHigh", 0)
      BY <1>0, <2>0, <2>2 DEF RebootSteps, RecoverySteps
    <3>2. Drives(k, i, step)
      BY <2>0, <2>2, <3>1 DEF Drives, Holds
    <3>3. Extends(k, i, step)
      <4>1. \A l, n : ~Due(k, i, l, n)
        BY <2>0, <2>2 DEF Due
      <4> QED BY <4>1 DEF Extends
    <3>4. Timely(k, i, step)
      BY <2>0, <2>2, <3>1 DEF Timely, Due, Holds, Pulse
    <3> QED BY <3>2, <3>3, <3>4
  <2>3. CASE i = 3
    <3>1. Is(step, "Pwr", "AssertLow", 200)
      BY <1>0, <2>0, <2>3 DEF RebootSteps, RecoverySteps
    <3>2. Drives(k, i, step)
      BY <2>0, <2>3, <3>1 DEF Drives, Holds
    <3>3. Extends(k, i, step)
      <4>1. OnlyDue(k, i, Window[200])
        BY <2>0, <2>3 DEF OnlyDue, Due
      <4>2. /\ step.completion = "AfterDuration" /\ step.hold = Window[200]
            /\ Window[200] \in 0..Horizon
        BY <3>1, Durations
      <4> QED BY <4>1, <4>2, OwnHold
    <3>4. Timely(k, i, step)
      BY <2>0, <2>3, <3>1 DEF Timely, Due, Holds, Pulse
    <3> QED BY <3>2, <3>3, <3>4
  <2>4. CASE i = 4
    <3>1. Is(step, "Pwr", "ReleaseHigh", 1000)
      BY <1>0, <2>0, <2>4 DEF RebootSteps, RecoverySteps
    <3>2. Drives(k, i, step)
      BY <2>0, <2>4, <3>1 DEF Drives, Holds
    <3>3. Extends(k, i, step)
      <4>1. OnlyDue(k, i, Window[1000])
        BY <2>0, <2>4 DEF OnlyDue, Due
      <4>2. /\ step.completion = "AfterDuration" /\ step.hold = Window[1000]
            /\ Window[1000] \in 0..Horizon
        BY <3>1, Durations
      <4> QED BY <4>1, <4>2, OwnHold
    <3>4. Timely(k, i, step)
      BY <2>0, <2>4, <3>1 DEF Timely, Due, Holds, Pulse
    <3> QED BY <3>2, <3>3, <3>4
  <2>5. CASE i = 5
    <3>1. Is(step, "Reset", "AssertLow", 20)
      BY <1>0, <2>0, <2>5 DEF RebootSteps, RecoverySteps
    <3>2. Drives(k, i, step)
      BY <2>0, <2>5, <3>1 DEF Drives, Holds
    <3>3. Extends(k, i, step)
      <4>1. OnlyDue(k, i, Window[20])
        BY <2>0, <2>5 DEF OnlyDue, Due
      <4>2. /\ step.completion = "AfterDuration" /\ step.hold = Window[20]
            /\ Window[20] \in 0..Horizon
        BY <3>1, Durations
      <4> QED BY <4>1, <4>2, OwnHold
    <3>4. Timely(k, i, step)
      BY <2>0, <2>5, <3>1 DEF Timely, Due, Holds, Pulse
    <3> QED BY <3>2, <3>3, <3>4
  <2>6. CASE i = 6
    <3>1. Is(step, "Reset", "ReleaseHigh", 0)
      BY <1>0, <2>0, <2>6 DEF RebootSteps, RecoverySteps
    <3>2. Drives(k, i, step)
      BY <2>0, <2>6, <3>1 DEF Drives, Holds
    <3>3. Extends(k, i, step)
      <4>1. \A l, n : ~Due(k, i, l, n)
        BY <2>0, <2>6 DEF Due
      <4> QED BY <4>1 DEF Extends
    <3>4. Timely(k, i, step)
      BY <2>0, <2>6, <3>1 DEF Timely, Due, Holds, Pulse
    <3> QED BY <3>2, <3>3, <3>4
  <2> QED BY <1>0, <2>0, <2>1, <2>2, <2>3, <2>4, <2>5, <2>6
<1> QED BY <1>0, <1>2, <1>3, <1>4, <1>5, <1>6 DEF StepsAre

-----------------------------------------------------------------------------
(* The windows are kept.                                                   *)

LEMMA DueBounded ==
  ASSUME NEW k, NEW i, NEW l, NEW n, Due(k, i, l, n)
  PROVE  n \in 0..Horizon
BY Durations DEF Due

LEMMA ClockTyped ==
  ASSUME ClocksOK, NEW l \in Lines
  PROVE  Clock(l) \in Nat
BY DEF ClocksOK, Clock

\* A line that is not switched was counted on.
LEMMA ClockStays ==
  ASSUME LinesSwitch, NEW l \in Lines, l \in straps <=> l \in straps'
  PROVE  Clock(l)' = Clock(l)
BY DEF LinesSwitch, Clock

\* A run that is not executing owes nothing.
LEMMA NothingOwed ==
  ASSUME run' # None => run'.state # "Executing"
  PROVE  WindowsOwed'
BY DEF WindowsOwed

LEMMA OwedKept ==
  ASSUME WindowsOwed, LinesSwitch, run' = run, straps' = straps
  PROVE  WindowsOwed'
<1>1. \A l \in Lines : Clock(l)' = Clock(l)
  BY ClockStays
<1> QED BY <1>1 DEF WindowsOwed

LEMMA OwedTick ==
  ASSUME IInv, ClocksOK, WindowsOwed, TimePasses
  PROVE  WindowsOwed'
<1>1. CASE run = None
  <2>1. run' = None
    BY <1>1 DEF TimePasses, Tick
  <2> QED BY <2>1, NothingOwed
<1>2. CASE run # None
  <2>1. run \in SequenceRuns /\ run.stepLeft \in Nat
    BY <1>2 DEF IInv, TypeOK, SequenceRuns
  <2>2. run' = [run EXCEPT !.stepLeft = Less(@), !.coolLeft = Less(@)]
    BY <1>2 DEF TimePasses, Tick
  <2>3. /\ run'.state = run.state /\ run'.cmd = run.cmd /\ run'.step = run.step
        /\ run'.stepLeft = Less(run.stepLeft) /\ straps' = straps
    BY <2>1, <2>2 DEF SequenceRuns, TimePasses, Tick
  <2>4. ASSUME run.state = "Executing", NEW l \in Lines, NEW n \in Nat,
               Due(run.cmd.kind, run.step, l, n)
        PROVE  Clock(l)' + Less(run.stepLeft) >= n
    <3>1. Clock(l) \in Nat /\ Clock(l) + run.stepLeft >= n
      BY <1>2, <2>4, ClockTyped DEF WindowsOwed
    <3>2. Clock(l)' = Later(Clock(l))
      BY <2>3 DEF TimePasses, Clock
    <3>3. n \in 0..Horizon /\ Horizon \in Nat
      BY <2>4, DueBounded, HorizonAssumption
    <3> QED BY <2>1, <3>1, <3>2, <3>3 DEF Later, Less
  <2>5. run'.state = "Executing" =>
          \A l \in Lines : l \in straps <=> Holds(run.cmd.kind, run.step, l)
    BY <1>2, <2>3 DEF WindowsOwed
  <2> QED BY <2>3, <2>4, <2>5 DEF WindowsOwed
<1> QED BY <1>1, <1>2

(* Before the i-th step the lines are as the step before it left them, and *)
(* all that was due at its end is over.                                    *)
Over(k, i) ==
  /\ \A l \in Lines : l \in straps <=> Holds(k, i, l)
  /\ \A l \in Lines, n \in Nat : Due(k, i, l, n) => Clock(l) >= n

(* A step starts where the one before it is over.                          *)
LEMMA StepStarts ==
  ASSUME IInv, ClocksOK, run # None, run.cmd.kind \in Registered,
         NEW i \in 1..Len(Phases), Over(run.cmd.kind, i - 1),
         i > 1 => Phases[i - 1].completion = "AfterDuration",
         StartStep(i), LinesSwitch
  PROVE  WindowsOwed'
<1> DEFINE k == run.cmd.kind
           step == Phases[i]
<1>1. /\ Drives(k, i, step) /\ Extends(k, i, step)
      /\ step \in StrapSteps /\ i \in Nat
  BY StepFollows, StepTyped DEF Phases
<1>2. /\ run' # None => /\ run'.cmd = run.cmd /\ run'.step = i
                        /\ step.completion = "AfterDuration"
                             => run'.stepLeft = step.hold
      /\ straps' = Driven(step, straps)
  BY DEF StartStep, IInv, TypeOK, SequenceRuns
<1> HIDE DEF k, step
<1>3. \A l \in Lines : l \in straps' <=> Holds(k, i, l)
  BY <1>1, <1>2 DEF Over, Drives, Driven, k, StrapSteps
<1>4. ASSUME run' # None, NEW l \in Lines, NEW n \in Nat, Due(k, i, l, n)
      PROVE  Clock(l)' + run'.stepLeft >= n
  <2>1. /\ run'.stepLeft = step.hold /\ step.hold \in Nat
        /\ \/ n = step.hold
           \/ \E m \in Nat : /\ Due(k, i - 1, l, m) /\ n <= m + step.hold
                             /\ Holds(k, i, l) <=> Holds(k, i - 1, l)
    BY <1>1, <1>2, <1>4 DEF Extends, StrapSteps
  <2>2. Clock(l)' \in Nat
    <3>1. /\ low[l] \in Nat /\ high[l] \in Nat
      BY DEF ClocksOK
    <3> QED BY <3>1 DEF LinesSwitch, Clock
  <2>3. CASE n = step.hold
    BY <2>1, <2>2, <2>3
  <2>4. CASE n # step.hold
    <3>1. PICK m \in Nat : /\ Due(k, i - 1, l, m) /\ n <= m + step.hold
                           /\ Holds(k, i, l) <=> Holds(k, i - 1, l)
      BY <2>1, <2>4
    <3>2. Clock(l) >= m /\ (l \in straps <=> l \in straps')
      BY <1>3, <3>1 DEF Over, k
    <3>3. Clock(l)' = Clock(l)
      BY <3>2, ClockStays
    <3> QED BY <2>1, <2>2, <3>1, <3>2, <3>3
  <2> QED BY <2>3, <2>4
<1> QED BY <1>2, <1>3, <1>4 DEF WindowsOwed, k

LEMMA CooldownOwes ==
  ASSUME IInv, run # None, BeginCooldown
  PROVE  WindowsOwed'
<1>1. run'.state # "Executing"
  BY DEF BeginCooldown, IInv, TypeOK, SequenceRuns
<1> QED BY <1>1, NothingOwed

\* Where drive_active_run arms a run, nothing is low and nothing is due.
LEMMA OverAtArming ==
  ASSUME IInv, run # None, run.state = "Arming"
  PROVE  Over(run.cmd.kind, 1 - 1)
<1>1. straps = {}
  BY DEF IInv, StrapsFollowTheRun
<1>2. \A l, n : ~Holds(run.cmd.kind, 0, l) /\ ~Due(run.cmd.kind, 0, l, n)
  BY DEF Holds, Due
<1> QED BY <1>1, <1>2 DEF Over

\* Where it finishes a step, all that was due is over.
LEMMA OverAtFinish ==
  ASSUME IInv, ClocksOK, WindowsOwed, run # None, run.state = "Executing",
         StepDone
  PROVE  /\ Over(run.cmd.kind, (run.step + 1) - 1)
         /\ Phases[(run.step + 1) - 1].completion = "AfterDuration"
         /\ run.step + 1 \in Nat \ {0}
<1>1. run.step \in Nat /\ run.stepLeft = 0
  BY DEF IInv, TypeOK, SequenceRuns, StepDone
<1>2. (run.step + 1) - 1 = run.step /\ run.step + 1 \in Nat \ {0}
  BY <1>1
<1>3. Over(run.cmd.kind, run.step)
  <2>1. ASSUME NEW l \in Lines, NEW n \in Nat,
               Due(run.cmd.kind, run.step, l, n)
        PROVE  Clock(l) >= n
    <3>1. Clock(l) \in Nat /\ Clock(l) + run.stepLeft >= n
      BY <2>1, ClockTyped DEF WindowsOwed
    <3> QED BY <1>1, <3>1
  <2> QED BY <2>1 DEF Over, WindowsOwed
<1> QED BY <1>2, <1>3 DEF StepDone

\* A step of the task that switches lines on behalf of a run.
Advances(i) ==
  /\ pc = "drive" /\ run # None /\ run.cmd.kind \in Registered
  /\ i \in Nat \ {0} /\ EnterStep(i)
  /\ Over(run.cmd.kind, i - 1)
  /\ i > 1 => Phases[i - 1].completion = "AfterDuration"

LEMMA DriveAdvances ==
  ASSUME IInv, ClocksOK, WindowsOwed, Arm \/ FinishStep
  PROVE  \E i \in Nat : Advances(i)
<1>1. /\ pc = "drive" /\ run # None /\ run.cmd.kind \in Registered
  BY DEF Arm, FinishStep, IInv, ControlState, RunInPlace
<1>2. CASE Arm
  <2>1. EnterStep(1) /\ Over(run.cmd.kind, 1 - 1)
    BY <1>1, <1>2, OverAtArming DEF Arm
  <2>2. Advances(1)
    BY <1>1, <2>1 DEF Advances
  <2> QED BY <2>2
<1>3. CASE FinishStep
  <2>1. /\ run.state = "Executing" /\ StepDone
        /\ EnterStep(run.step + 1)
    BY <1>3 DEF FinishStep
  <2>2. Advances(run.step + 1) /\ run.step + 1 \in Nat
    BY <1>1, <2>1, OverAtFinish DEF Advances
  <2> QED BY <2>2
<1> QED BY <1>2, <1>3

LEMMA OwedTask ==
  ASSUME IInv, IInv', ClocksOK, WindowsOwed, TaskSteps
  PROVE  WindowsOwed'
<1>1. /\ LinesSwitch /\ TypeOK /\ ControlState
  BY DEF TaskSteps, Observe, IInv
<1>2. CASE Arm \/ FinishStep
  <2>1. PICK i \in Nat : Advances(i)
    BY <1>2, DriveAdvances
  <2>2. CASE i <= Len(Phases)
    <3>1. i \in 1..Len(Phases) /\ StartStep(i)
      <4>1. Len(Phases) \in Nat
        BY <2>1, StepTyped DEF Phases, Advances
      <4> QED BY <2>1, <2>2, <4>1 DEF Advances, EnterStep
    <3> QED BY <1>1, <2>1, <3>1, StepStarts DEF Advances
  <2>3. CASE ~(i <= Len(Phases))
    BY <2>1, <2>3, CooldownOwes DEF Advances, EnterStep
  <2> QED BY <2>2, <2>3
<1>3. CASE \/ DelayPending \/ AwaitCommand \/ Wake \/ PollRail \/ SampleRecovery
           \/ Pause
  <2>1. run' = run /\ straps' = straps
    BY <1>3 DEF DelayPending, AwaitCommand, Wake, PollRail, SampleRecovery,
                Pause
  <2> QED BY <1>1, <2>1, OwedKept
<1>4. CASE StartPending \/ ReceiveCommand \/ StartHeld
  <2>1. run = None
    BY <1>1, <1>4 DEF StartPending, ReceiveCommand, StartHeld, ControlState
  <2>2. run' = run \/ \E c, n : BeginRun(c, n)
    BY <1>4 DEF StartPending, ReceiveCommand, StartHeld
  <2>3. run' # None => run'.state # "Executing"
    BY <2>1, <2>2, RunStart
  <2> QED BY <2>3, NothingOwed
<1>5. CASE FinishRun
  BY <1>5, NothingOwed DEF FinishRun
<1>6. CASE RetryRun \/ GiveUp \/ CompleteRun
  <2>1. run \in SequenceRuns
    BY <1>1, <1>6
       DEF RetryRun, GiveUp, CompleteRun, Polling, TypeOK, ControlState
  <2>2. /\ RetriedRun(run).state = "Arming"
        /\ Ended(run, "Error", LineCount).state = "Error"
        /\ Ended(run, "Complete", 1).state = "Complete"
    <3>1. /\ "Error" \in SequenceStates /\ "Complete" \in SequenceStates
          /\ LineCount \in Nat /\ 1 \in Nat
      BY DEF SequenceStates, LineCount
    <3> QED BY <2>1, <3>1, Retried, EndedRun
  <2>3. \/ run' = RetriedRun(run) \/ run' = Ended(run, "Error", LineCount)
        \/ run' = Ended(run, "Complete", 1)
    BY <1>6 DEF RetryRun, GiveUp, CompleteRun
  <2> QED BY <2>2, <2>3, NothingOwed
<1> QED
  BY <1>2, <1>3, <1>4, <1>5, <1>6 DEF TaskSteps, Task, Drive

LEMMA OwedStep ==
  IInv /\ IInv' /\ ClocksOK /\ WindowsOwed /\ [TimelineNext]_timelineVars
    => WindowsOwed'
<1> SUFFICES ASSUME IInv, IInv', ClocksOK, WindowsOwed,
                    [TimelineNext]_timelineVars
             PROVE  WindowsOwed'
  OBVIOUS
<1>1. CASE UNCHANGED timelineVars
  BY <1>1 DEF timelineVars, vars, taskVars, history, WindowsOwed, Clock
<1>2. CASE OthersStep
  <2>1. CASE ControlLinkLost
    BY <2>1, NothingOwed DEF ControlLinkLost
  <2>2. CASE \/ \E k \in Kinds, d \in Delays, r \in Overrides : Submit(k, d, r)
             \/ RailChange \/ ControlLinkAttached
    <3>1. run' = run /\ straps' = straps
      BY <2>2 DEF Submit, RailChange, ControlLinkAttached, taskVars
    <3> QED BY <1>2, <3>1, OwedKept DEF OthersStep
  <2> QED BY <1>2, <2>1, <2>2 DEF OthersStep
<1> QED BY <1>1, <1>2, OwedTick, OwedTask DEF TimelineNext

OwedInv == IInv /\ ClocksOK /\ WindowsOwed

LEMMA OwedInvHolds == TimelineSpec => []OwedInv
<1>1. WindowsOwed /\ WatchInv /\ WatchInv' /\ [TimelineNext]_timelineVars
        => WindowsOwed'
  BY OwedStep DEF WatchInv
<1>2. TimelineInit => WindowsOwed
  BY DEF TimelineInit, Init, WindowsOwed
<1> QED BY <1>1, <1>2, WatchInvHolds, PTL
        DEF TimelineSpec, WatchInv, OwedInv, timelineVars

LEMMA LinesOfPhases ==
  ASSUME NEW k \in Registered
  PROVE  /\ "Reset" \in Lines
         /\ IF k \in RecoveryKinds THEN "Rec" \in Lines ELSE "Pwr" \in Lines
<1> DEFINE p == Template[k].phases
<1>1. StepsAre(k, p) /\ \A i \in 1..Len(p) : p[i].line \in Lines
  BY StepsOfPhases, StepTyped DEF StrapSteps
<1> HIDE DEF p
<1>2. CASE k = "NormalReboot"
  <2>1. /\ Len(p) = 4 /\ Is(p[1], "Pwr", "AssertLow", 200)
        /\ Is(p[3], "Reset", "AssertLow", 20)
    BY <1>1, <1>2 DEF StepsAre, RebootSteps
  <2> QED BY <1>1, <1>2, <2>1 DEF Is, RecoveryKinds
<1>3. CASE k \in RecoveryKinds
  <2>1. /\ Len(p) \in {5, 6} /\ Is(p[1], "Rec", "AssertLow", 100)
        /\ Is(p[2], "Reset", "AssertLow", 20)
    BY <1>1, <1>3 DEF StepsAre, RecoverySteps, RecoveryKinds
  <2> QED BY <1>1, <1>3, <2>1 DEF Is
<1>4. CASE k = "FaultRecovery"
  <2>1. /\ Len(p) = 6 /\ Is(p[3], "Pwr", "AssertLow", 200)
        /\ Is(p[5], "Reset", "AssertLow", 20)
    BY <1>1, <1>4 DEF StepsAre, RebootSteps
  <2> QED BY <1>1, <1>4, <2>1 DEF Is, RecoveryKinds
<1> QED BY <1>1, <1>2, <1>3, <1>4 DEF StepsAre, RecoveryKinds

\* What a run switches in drive_active_run is on time.
OnTime ==
  /\ \A l \in Released : low[l] >= Pulse[l]
  /\ "Reset" \in Asserted =>
       IF Kind \in RecoveryKinds
       THEN "Rec" \in straps /\ low["Rec"] >= Window[100]
       ELSE straps = {} /\ high["Pwr"] >= Window[1000]
  /\ "Rec" \in Released => high["Reset"] >= Window[500]

LEMMA PulseBounds == \A l \in {"Pwr", "Reset", "Apo", "Rec"} : Pulse[l] \in Nat
BY Durations, HorizonAssumption DEF Pulse

LEMMA AdvanceOnTime ==
  ASSUME IInv, ClocksOK, NEW i \in Nat, Advances(i)
  PROVE  OnTime
<1> DEFINE k == run.cmd.kind
           step == Phases[i]
<1>1. /\ k \in Registered /\ i \in Nat \ {0} /\ EnterStep(i)
      /\ Over(k, i - 1) /\ Len(Phases) \in Nat
      /\ i > 1 => Phases[i - 1].completion = "AfterDuration"
      /\ straps \subseteq Lines
  BY StepTyped DEF Advances, Phases, IInv, TypeOK
<1>2. CASE i <= Len(Phases)
  <2>1. /\ Timely(k, i, step) /\ step \in StrapSteps
    <3>1. i \in 1..Len(Phases)
      BY <1>1, <1>2
    <3> QED BY <1>1, <3>1, StepFollows, StepTyped DEF Phases
  <2>2. straps' = Driven(step, straps)
    BY <1>1, <1>2 DEF EnterStep, StartStep
  <2>3. /\ \A l \in Lines : l \in straps <=> Holds(k, i - 1, l)
        /\ \A l \in Lines, n \in Nat : Due(k, i - 1, l, n) => Clock(l) >= n
    BY <1>1 DEF Over
  <2>4. /\ "Reset" \in Lines
        /\ IF k \in RecoveryKinds THEN "Rec" \in Lines ELSE "Pwr" \in Lines
    BY <1>1, LinesOfPhases
  <2> HIDE DEF k, step
  <2>5. ASSUME NEW l \in Released
        PROVE  /\ l = step.line /\ step.action = "ReleaseHigh"
               /\ l \in Lines /\ l \in straps /\ Holds(k, i - 1, l)
    BY <1>1, <2>1, <2>2, <2>3 DEF Released, Driven, StrapSteps
  <2>6. ASSUME NEW l \in Released PROVE low[l] >= Pulse[l]
    <3>1. l \in Lines /\ l \in straps /\ Due(k, i - 1, l, Pulse[l])
      BY <2>1, <2>5 DEF Timely
    <3>2. Pulse[l] \in Nat
      BY <3>1, DueBounded, HorizonAssumption
    <3>3. Clock(l) >= Pulse[l]
      BY <2>3, <3>1, <3>2
    <3> QED BY <3>1, <3>3 DEF Clock
  <2>7. ASSUME "Reset" \in Asserted
        PROVE  IF k \in RecoveryKinds
               THEN "Rec" \in straps /\ low["Rec"] >= Window[100]
               ELSE straps = {} /\ high["Pwr"] >= Window[1000]
    <3>1. step.action = "AssertLow" /\ step.line = "Reset"
      BY <2>1, <2>2, <2>7 DEF Asserted, Driven, StrapSteps
    <3>2. CASE k \in RecoveryKinds
      <4>1. Holds(k, i - 1, "Rec") /\ Due(k, i - 1, "Rec", Window[100])
        BY <2>1, <3>1, <3>2 DEF Timely
      <4>2. "Rec" \in straps /\ Window[100] \in Nat
        BY <2>3, <2>4, <3>2, <4>1, DueBounded, HorizonAssumption
      <4>3. Clock("Rec") >= Window[100]
        BY <2>3, <2>4, <3>2, <4>1, <4>2
      <4> QED BY <3>2, <4>2, <4>3 DEF Clock
    <3>3. CASE k \notin RecoveryKinds
      <4>1. /\ \A l : ~Holds(k, i - 1, l)
            /\ Due(k, i - 1, "Pwr", Window[1000])
        BY <2>1, <3>1, <3>3 DEF Timely
      <4>2. straps = {} /\ Window[1000] \in Nat
        BY <1>1, <2>3, <4>1, DueBounded, HorizonAssumption
      <4>3. Clock("Pwr") >= Window[1000]
        BY <2>3, <2>4, <3>3, <4>1, <4>2
      <4> QED BY <3>3, <4>2, <4>3 DEF Clock
    <3> QED BY <3>2, <3>3
  <2>8. ASSUME "Rec" \in Released PROVE high["Reset"] >= Window[500]
    <3>1. Due(k, i - 1, "Reset", Window[500]) /\ ~Holds(k, i - 1, "Reset")
      BY <2>1, <2>5, <2>8 DEF Timely
    <3>2. "Reset" \notin straps /\ Window[500] \in Nat
      BY <2>3, <2>4, <3>1, DueBounded, HorizonAssumption
    <3>3. Clock("Reset") >= Window[500]
      BY <2>3, <2>4, <3>1, <3>2
    <3> QED BY <3>2, <3>3 DEF Clock
  <2> QED BY <2>6, <2>7, <2>8 DEF OnTime, Kind, k
<1>3. CASE ~(i <= Len(Phases))
  <2>1. straps' = straps
    BY <1>1, <1>3 DEF EnterStep, BeginCooldown
  <2> QED BY <2>1 DEF OnTime, Released, Asserted
<1> QED BY <1>2, <1>3

(* BS-001 to BS-003: every pulse of the four sequences is as long as it    *)
(* has to be, and comes only when the lines before it have had their time, *)
(* however the run is delayed, for every scale of the clock.               *)
THEOREM WindowsKept == TimelineSpec => SpecWindows
<1>1. OwedInv /\ [TimelineNext]_timelineVars => (pc = "drive" => OnTime)
  <2> SUFFICES ASSUME OwedInv, [TimelineNext]_timelineVars, pc = "drive"
               PROVE  OnTime
    OBVIOUS
  <2>1. IInv /\ ClocksOK /\ WindowsOwed
    BY DEF OwedInv
  <2>2. CASE Arm \/ FinishStep
    <3>1. PICK i \in Nat : Advances(i)
      BY <2>1, <2>2, DriveAdvances
    <3> QED BY <2>1, <3>1, AdvanceOnTime
  <2>3. CASE straps' = straps
    BY <2>3 DEF OnTime, Released, Asserted
  <2>4. straps' = straps \/ Arm \/ FinishStep
    BY StepIsOfTheTask DEF Next, Task, Environment, Drive, StartPending,
       DelayPending, AwaitCommand, ReceiveCommand, StartHeld, Wake, FinishRun,
       PollRail, RetryRun, GiveUp, Polling, SampleRecovery, CompleteRun, Pause,
       RailChange, Tick, Submit, ControlLinkLost, ControlLinkAttached,
       Suspended, vars, taskVars
  <2> QED BY <2>2, <2>3, <2>4
<1> QED BY <1>1, OwedInvHolds, PTL
        DEF TimelineSpec, SpecWindows, OnTime, RecoveryKinds, timelineVars
=============================================================================
