---------------------- MODULE StrapOrchestrator_proofs ----------------------
(***************************************************************************)
(* Proofs about StrapOrchestrator, for every value of its constants.  The  *)
(* inductive invariant is built in layers: TypeOK with ControlState is     *)
(* inductive by itself and says which of the task's variables may be used  *)
(* where; each safety invariant is then inductive relative to these two.   *)
(***************************************************************************)
EXTENDS StrapOrchestrator, TLAPS, SequenceTheorems

-----------------------------------------------------------------------------
(* Helpers. *)

LEMMA LessNat == ASSUME NEW n \in Nat PROVE Less(n) \in Nat
  BY DEF Less

LEMMA SoonerTyped == ASSUME NEW c \in Commands PROVE Sooner(c) \in Commands
  BY LessNat DEF Sooner, Commands

LEMMA QueueSooner ==
  ASSUME NEW q \in Seq(Commands)
  PROVE  /\ [i \in DOMAIN q |-> Sooner(q[i])] \in Seq(Commands)
         /\ Len([i \in DOMAIN q |-> Sooner(q[i])]) = Len(q)
<1> DEFINE s == [i \in 1..Len(q) |-> Sooner(q[i])]
<1>1. \A i \in 1..Len(q) : Sooner(q[i]) \in Commands
  BY SoonerTyped
<1>2. s \in Seq(Commands) /\ Len(s) = Len(q)
  BY <1>1
<1> QED BY <1>2

LEMMA StepTyped ==
  ASSUME NEW k \in Registered
  PROVE  /\ Template[k] \in Templates
         /\ Template[k].phases \in Seq(StrapSteps)
         /\ Len(Template[k].phases) \in Nat
         /\ Template[k].cooldown \in Nat
         /\ \A i \in 1..Len(Template[k].phases) :
              Template[k].phases[i] \in StrapSteps
<1>1. Template[k] \in Templates
  BY ConstantsAssumption
<1> QED BY <1>1 DEF Templates

LEMMA DrivenTyped ==
  ASSUME NEW step \in StrapSteps, NEW low \in SUBSET Lines
  PROVE  Driven(step, low) \in SUBSET Lines
  BY DEF Driven, StrapSteps

LEMMA RetryBudgetNat ==
  ASSUME NEW c \in Commands, c.kind \in Registered
  PROVE  RetryBudget(c) \in Nat
<1>1. c.retries \in Nat \cup {None}
  BY ConstantsAssumption DEF Commands
<1>2. Template[c.kind].maxRetries \in Nat \cup {None}
  BY StepTyped DEF Templates
<1> QED BY <1>1, <1>2 DEF RetryBudget, DefaultRetryBudget

LEMMA RunFields ==
  ASSUME NEW r \in SequenceRuns
  PROVE  /\ r.cmd \in Commands /\ r.state \in SequenceStates
         /\ r.step \in Nat /\ r.retry \in Nat /\ r.waiting \in BOOLEAN
         /\ r.stepLeft \in Nat /\ r.coolLeft \in Nat /\ r.events \in Nat
  BY DEF SequenceRuns

(* Assigning a field of a run, one field at a time. *)
LEMMA RunUpdates ==
  ASSUME NEW r \in SequenceRuns
  PROVE  /\ \A s \in SequenceStates : [r EXCEPT !.state = s] \in SequenceRuns
         /\ \A b \in BOOLEAN : [r EXCEPT !.waiting = b] \in SequenceRuns
         /\ \A n \in Nat : /\ [r EXCEPT !.step = n] \in SequenceRuns
                           /\ [r EXCEPT !.retry = n] \in SequenceRuns
                           /\ [r EXCEPT !.stepLeft = n] \in SequenceRuns
                           /\ [r EXCEPT !.coolLeft = n] \in SequenceRuns
                           /\ [r EXCEPT !.events = n] \in SequenceRuns
<1>1. \A s \in SequenceStates : [r EXCEPT !.state = s] \in SequenceRuns
  BY DEF SequenceRuns
<1>2. \A b \in BOOLEAN : [r EXCEPT !.waiting = b] \in SequenceRuns
  BY DEF SequenceRuns
<1>3. \A n \in Nat : [r EXCEPT !.step = n] \in SequenceRuns
  BY DEF SequenceRuns
<1>4. \A n \in Nat : [r EXCEPT !.retry = n] \in SequenceRuns
  BY DEF SequenceRuns
<1>5. \A n \in Nat : [r EXCEPT !.stepLeft = n] \in SequenceRuns
  BY DEF SequenceRuns
<1>6. \A n \in Nat : [r EXCEPT !.coolLeft = n] \in SequenceRuns
  BY DEF SequenceRuns
<1>7. \A n \in Nat : [r EXCEPT !.events = n] \in SequenceRuns
  BY DEF SequenceRuns
<1> QED BY <1>1, <1>2, <1>3, <1>4, <1>5, <1>6, <1>7

LEMMA NewRunTyped ==
  ASSUME NEW c \in Commands, NEW n \in Nat
  PROVE  NewRun(c, n) \in SequenceRuns
  BY DEF NewRun, SequenceRuns, SequenceStates

LEMMA EndedRun ==
  ASSUME NEW r \in SequenceRuns, NEW s \in SequenceStates, NEW n \in Nat
  PROVE  /\ Ended(r, s, n) \in SequenceRuns
         /\ Ended(r, s, n).state = s /\ Ended(r, s, n).events = r.events + n
         /\ Ended(r, s, n).cmd = r.cmd /\ Ended(r, s, n).step = r.step
         /\ Ended(r, s, n).retry = r.retry
<1> DEFINE r1 == [r EXCEPT !.state = s]
<1>1. r1 \in SequenceRuns
  BY RunUpdates
<1>2. Ended(r, s, n) = [r1 EXCEPT !.events = r1.events + n]
  BY DEF Ended
<1>3. Ended(r, s, n) \in SequenceRuns
  <2> HIDE DEF r1
  <2>1. r1.events + n \in Nat
    BY <1>1, RunFields
  <2>2. [r1 EXCEPT !.events = r1.events + n] \in SequenceRuns
    BY <1>1, <2>1, RunUpdates
  <2> QED BY <1>2, <2>2
<1> QED BY <1>3 DEF Ended, SequenceRuns

LEMMA Retried ==
  ASSUME NEW r \in SequenceRuns
  PROVE  /\ RetriedRun(r) \in SequenceRuns
         /\ RetriedRun(r).cmd = r.cmd
         /\ RetriedRun(r).retry = r.retry + 1
         /\ RetriedRun(r).state = "Arming" /\ RetriedRun(r).step = 0
         /\ RetriedRun(r).events = LineCount
<1>1. r.cmd \in Commands /\ r.retry \in Nat
  BY RunFields
<1>2. NewRun(r.cmd, LineCount) \in SequenceRuns
  BY <1>1, NewRunTyped DEF LineCount
<1>3. r.retry + 1 \in Nat
  BY <1>1
<1>4. RetriedRun(r) \in SequenceRuns
  BY <1>2, <1>3, RunUpdates DEF RetriedRun
<1> QED BY <1>4 DEF RetriedRun, NewRun

LEMMA TickedRun ==
  ASSUME NEW r \in SequenceRuns
  PROVE  [r EXCEPT !.stepLeft = Less(@), !.coolLeft = Less(@)] \in SequenceRuns
  BY LessNat DEF SequenceRuns

LEMMA RunNotNone == ASSUME NEW r \in SequenceRuns PROVE r # None
  BY NoneAssumption

(* Whatever collect_pending_commands finds, both queues stay in bounds.    *)
LEMMA CollectKeepsBounds ==
  ASSUME TypeOK, Len(pending) <= QueueDepth, Collect
  PROVE  /\ rx' = <<>>
         /\ pending' \in Seq(Commands)
         /\ Len(pending') <= QueueDepth
         /\ ~linkUp => pending' = pending
         /\ lastRejection' \in Rejections \cup {None}
<1> USE DEF TypeOK
<1>0. QueueDepth \in Nat \ {0} /\ Len(pending) \in Nat /\ Len(rx) \in Nat
  BY ConstantsAssumption
<1>1. Room \in Nat /\ Room + Len(pending) = QueueDepth
  BY <1>0 DEF Room
<1>2. Collected \in Seq(Commands) /\ Len(Collected) <= Room
  <2> DEFINE n == IF Len(rx) < Room THEN Len(rx) ELSE Room
  <2>1. n \in Nat /\ n <= Len(rx) /\ n <= Room
    BY <1>0, <1>1
  <2>2. \A i \in 1..n : rx[i] \in Commands
    BY <2>1, <1>0
  <2>3. SubSeq(rx, 1, n) \in Seq(Commands) /\ Len(SubSeq(rx, 1, n)) = n
    <3> HIDE DEF n
    <3> QED BY <2>1, <2>2, SubSeqProperties
  <2> QED BY <2>1, <2>3 DEF Collected
<1>3. pending \o Collected \in Seq(Commands)
      /\ Len(pending \o Collected) = Len(pending) + Len(Collected)
  BY <1>2
<1>4. /\ pending' \in {pending, pending \o Collected}
      /\ ~linkUp => pending' = pending
      /\ rx' = <<>>
  BY DEF Collect
<1>5. Len(pending') <= QueueDepth /\ pending' \in Seq(Commands)
  <2>1. CASE pending' = pending
    BY <2>1
  <2>2. CASE pending' = pending \o Collected
    <3>1. Len(Collected) \in Nat
      BY <1>2
    <3> QED BY <2>2, <3>1, <1>0, <1>1, <1>2, <1>3
  <2> QED BY <2>1, <2>2, <1>4
<1>6. ASSUME rx # <<>>, NEW reason \in RejectionReasons
      PROVE  Rejection(rx[Len(rx)], reason) \in Rejections
  <2>1. rx[Len(rx)] \in Commands
    BY <1>6, <1>0
  <2> QED BY <2>1 DEF Rejection, Rejections, Commands
<1>7. Len(rx) > Room => rx # <<>>
  BY <1>0, <1>1
<1>8. lastRejection' \in Rejections \cup {None}
  <2>1. /\ rx # <<>> => Rejection(rx[Len(rx)], "ControlLinkLost") \in Rejections
        /\ rx # <<>> => Rejection(rx[Len(rx)], "Busy") \in Rejections
    BY <1>6 DEF RejectionReasons
  <2> QED BY <2>1, <1>7 DEF Collect
<1> QED BY <1>4, <1>5, <1>8

LEMMA BeginRunTyped ==
  ASSUME TypeOK, NEW c \in Commands, NEW n \in Nat, BeginRun(c, n)
  PROVE  /\ run' \in SequenceRuns \cup {None}
         /\ recovering' \in BOOLEAN
         /\ lastRejection' \in Rejections \cup {None}
<1>1. Rejection(c, "ControlLinkLost") \in Rejections
      /\ Rejection(c, "MissingTemplate") \in Rejections
  BY DEF Rejection, Rejections, RejectionReasons, Commands
<1> QED BY <1>1, NewRunTyped DEF BeginRun, TypeOK

-----------------------------------------------------------------------------
(* Types. *)

(* EnterStep is only taken with a run in hand, whose kind is registered.   *)
LEMMA EnterStepTyped ==
  ASSUME TypeOK, run # None, run.cmd.kind \in Registered,
         NEW i \in Nat \ {0}, EnterStep(i)
  PROVE  /\ run' \in SequenceRuns
         /\ straps' \subseteq Lines
         /\ bridgeWaiting' \in BOOLEAN
         /\ timer' \in Nat
         /\ pc' \in {"drive", "pace", pc}
<1>1. run \in SequenceRuns
  BY DEF TypeOK
<1>2. CASE i <= Len(Phases)
  <2>1. Phases[i] \in StrapSteps
    BY <1>2, StepTyped DEF Phases
  <2>2. StartStep(i)
    BY <1>2 DEF EnterStep
  <2>3. run' \in SequenceRuns
    <3> DEFINE bridge == Phases[i].completion = "OnBridgeActivity"
               left   == IF bridge THEN 0 ELSE Phases[i].hold
               r1 == [run EXCEPT !.state = "Executing"]
               r2 == [r1 EXCEPT !.step = i]
               r3 == [r2 EXCEPT !.waiting = bridge]
               r4 == [r3 EXCEPT !.stepLeft = left]
    <3>1. bridge \in BOOLEAN /\ left \in Nat
      BY <2>1 DEF StrapSteps
    <3>2. run' = [r4 EXCEPT !.events = r4.events + 1]
      BY <2>2 DEF StartStep
    <3> HIDE DEF bridge, left
    <3>3. r1 \in SequenceRuns
      BY <1>1, RunUpdates DEF SequenceStates
    <3> HIDE DEF r1
    <3>4. r2 \in SequenceRuns
      BY <3>3, RunUpdates
    <3> HIDE DEF r2
    <3>5. r3 \in SequenceRuns
      BY <3>1, <3>4, RunUpdates
    <3> HIDE DEF r3
    <3>6. r4 \in SequenceRuns
      BY <3>1, <3>5, RunUpdates
    <3> HIDE DEF r4
    <3>7. r4.events + 1 \in Nat
      BY <3>6, RunFields
    <3> QED BY <3>2, <3>6, <3>7, RunUpdates
  <2> QED BY <2>1, <2>2, <2>3, DrivenTyped DEF StartStep, TypeOK
<1>3. CASE ~(i <= Len(Phases))
  <2>1. BeginCooldown /\ Template[run.cmd.kind].cooldown \in Nat
    BY <1>3, StepTyped DEF EnterStep
  <2>2. run' \in SequenceRuns
    <3> DEFINE cooldown == Template[run.cmd.kind].cooldown
               state == IF cooldown = 0 THEN "Complete" ELSE "Cooldown"
               r1 == [run EXCEPT !.state = state]
               r2 == [r1 EXCEPT !.step = 0]
               r3 == [r2 EXCEPT !.coolLeft = cooldown]
               events == IF cooldown = 0 THEN r3.events + 1 ELSE r3.events
    <3>1. run' = [r3 EXCEPT !.events = events]
      BY <2>1 DEF BeginCooldown
    <3>2. r1 \in SequenceRuns
      BY <1>1, RunUpdates DEF SequenceStates
    <3> HIDE DEF r1
    <3>3. r2 \in SequenceRuns
      BY <3>2, RunUpdates
    <3> HIDE DEF r2
    <3>4. r3 \in SequenceRuns
      BY <2>1, <3>3, RunUpdates
    <3> HIDE DEF r3
    <3>5. events \in Nat
      BY <3>4, RunFields
    <3> HIDE DEF events
    <3> QED BY <3>1, <3>4, <3>5, RunUpdates
  <2> QED BY <2>1, <2>2 DEF BeginCooldown, TypeOK, PollPeriod
<1> QED BY <1>2, <1>3

LEMMA InitTyped == Init => TypeOK
<1>1. <<>> \in Seq(Commands) /\ 0 \in 0..MaxCommands
  BY ConstantsAssumption
<1> SUFFICES ASSUME Init PROVE TypeOK
  OBVIOUS
<1>2. /\ rx \in Seq(Commands) /\ pending \in Seq(Commands)
      /\ issued \in 0..MaxCommands
  BY <1>1 DEF Init
<1>3. /\ held \in Commands \cup {None} /\ run \in SequenceRuns \cup {None}
      /\ straps \subseteq Lines /\ linkUp \in BOOLEAN
      /\ lastRejection \in Rejections \cup {None}
      /\ recovering \in BOOLEAN /\ bridgeWaiting \in BOOLEAN
      /\ anchor \in Nat \cup {None} /\ timer \in Nat
  BY DEF Init
<1>4. pc \in Suspended \cup {"loop", "drive", "recover"} /\ rail \in RailStates
  BY DEF Init
<1> QED BY <1>2, <1>3, <1>4 DEF TypeOK

LEMMA TypeStep == TypeOK /\ ControlState /\ [Next]_vars => TypeOK'
<1> SUFFICES ASSUME TypeOK, ControlState, [Next]_vars PROVE TypeOK'
  OBVIOUS
<1> USE DEF TypeOK, Suspended
<1>1. CASE StartPending
  <2>1. Head(pending) \in Commands /\ Tail(pending) \in Seq(Commands)
    BY <1>1 DEF StartPending
  <2>2. /\ run' \in SequenceRuns \cup {None}
        /\ recovering' \in BOOLEAN
        /\ lastRejection' \in Rejections \cup {None}
    BY <1>1, <2>1, BeginRunTyped DEF StartPending
  <2> QED BY <1>1, <2>1, <2>2 DEF StartPending
<1>2. CASE DelayPending
  <2>1. Head(pending) \in Commands /\ Tail(pending) \in Seq(Commands)
    BY <1>2 DEF DelayPending
  <2>2. Head(pending).wait \in Nat
    BY <2>1 DEF Commands
  <2> QED BY <1>2, <2>1, <2>2 DEF DelayPending, Requeued
<1>3. CASE AwaitCommand
  BY <1>3 DEF AwaitCommand
<1>4. CASE ReceiveCommand
  <2>1. Head(rx) \in Commands /\ Tail(rx) \in Seq(Commands)
    BY <1>4 DEF ReceiveCommand
  <2>4. Head(rx).wait \in Nat
    BY <2>1 DEF Commands
  <2>2. CASE BeginRun(Head(rx), 1) /\ pc' = "loop" /\ UNCHANGED <<held, timer>>
    <3>1. /\ run' \in SequenceRuns \cup {None}
          /\ recovering' \in BOOLEAN
          /\ lastRejection' \in Rejections \cup {None}
      BY <2>1, <2>2, BeginRunTyped
    <3> QED BY <1>4, <2>1, <2>2, <3>1 DEF ReceiveCommand
  <2>3. CASE /\ held' = Head(rx) /\ timer' = Head(rx).wait
             /\ pc' = "heldDelay"
             /\ UNCHANGED <<run, recovering, lastRejection>>
    BY <1>4, <2>1, <2>3, <2>4 DEF ReceiveCommand
  <2> QED BY <1>4, <2>2, <2>3 DEF ReceiveCommand
<1>5. CASE StartHeld
  <2>1. held \in Commands
    BY <1>5 DEF StartHeld, ControlState
  <2>2. /\ run' \in SequenceRuns \cup {None}
        /\ recovering' \in BOOLEAN
        /\ lastRejection' \in Rejections \cup {None}
    BY <1>5, <2>1, BeginRunTyped DEF StartHeld
  <2> QED BY <1>5, <2>2 DEF StartHeld
<1>6. CASE Wake
  BY <1>6 DEF Wake
<1>7. ASSUME Collect
      PROVE  /\ rx' \in Seq(Commands) /\ pending' \in Seq(Commands)
             /\ lastRejection' \in Rejections \cup {None}
  <2>1. Len(pending) <= QueueDepth
    BY DEF ControlState
  <2>2. <<>> \in Seq(Commands)
    OBVIOUS
  <2> HIDE DEF TypeOK
  <2> QED BY <1>7, <2>1, <2>2, CollectKeepsBounds
<1>8. CASE FinishRun
  BY <1>8, <1>7 DEF FinishRun
<1>9. CASE PollRail
  BY <1>9, <1>7 DEF PollRail
<1>10. CASE RetryRun
  <2>1. run \in SequenceRuns
    BY <1>10 DEF RetryRun, Polling
  <2>2. RetriedRun(run) \in SequenceRuns
    BY <2>1, Retried
  <2> QED BY <1>10, <1>7, <2>2 DEF RetryRun, ReleaseAll, RetriesLeft
<1>11. CASE GiveUp
  <2>1. run \in SequenceRuns
    BY <1>11 DEF GiveUp, Polling
  <2>2. run' \in SequenceRuns
    BY <1>11, <2>1, EndedRun DEF GiveUp, SequenceStates, LineCount
  <2> QED BY <1>11, <1>7, <2>2 DEF GiveUp, ReleaseAll, RetriesLeft
<1>12. CASE SampleRecovery
  <2>1. anchor' \in Nat \cup {None} /\ recovering' \in BOOLEAN
    BY <1>12 DEF SampleRecovery, StableFor
  <2>2. timer' \in Nat /\ pc' \in {"loop", "recoveryPace"}
    BY <1>12 DEF SampleRecovery, PollPeriod
  <2> QED BY <1>12, <1>7, <2>1, <2>2 DEF SampleRecovery
<1>13. CASE Arm
  <2>1. run # None /\ run.cmd.kind \in Registered
    BY <1>13 DEF Arm, ControlState, RunInPlace
  <2> QED BY <1>13, <2>1, EnterStepTyped DEF Arm
<1>14. CASE FinishStep
  <2>1. run # None /\ run.cmd.kind \in Registered
    BY <1>14 DEF FinishStep, ControlState, RunInPlace
  <2>2. run.step + 1 \in Nat \ {0}
    BY <2>1 DEF SequenceRuns
  <2> QED BY <1>14, <2>1, <2>2, EnterStepTyped DEF FinishStep
<1>15. CASE CompleteRun
  <2>1. run \in SequenceRuns
    BY <1>15 DEF CompleteRun, ControlState
  <2>2. run' \in SequenceRuns
    BY <1>15, <2>1, EndedRun DEF CompleteRun, SequenceStates
  <2> QED BY <1>15, <2>2 DEF CompleteRun
<1>16. CASE Pause
  BY <1>16 DEF Pause, PollPeriod
<1>17. CASE ControlLinkLost
  <2>1. pending # <<>> =>
          Rejection(pending[Len(pending)], "ControlLinkLost") \in Rejections
    <3>1. pending # <<>> => pending[Len(pending)] \in Commands
      OBVIOUS
    <3> QED BY <3>1 DEF Rejection, Rejections, RejectionReasons, Commands
  <2>2. <<>> \in Seq(Commands)
    OBVIOUS
  <2>3. lastRejection' \in Rejections \cup {None}
    BY <1>17, <2>1 DEF ControlLinkLost, ReleaseAll, DrainPending
  <2>4. recovering' \in BOOLEAN
    BY <1>17 DEF ControlLinkLost
  <2> QED
    BY <1>17, <2>2, <2>3, <2>4 DEF ControlLinkLost, ReleaseAll, DrainPending
<1>18. CASE ControlLinkAttached
  BY <1>18 DEF ControlLinkAttached, taskVars
<1>19. ASSUME NEW k \in Kinds, NEW d \in Delays, NEW r \in Overrides,
              Submit(k, d, r)
       PROVE  TypeOK'
  <2>1. issued' \in 0..MaxCommands /\ issued' \in Nat \ {0}
    BY <1>19, ConstantsAssumption DEF Submit
  <2>2. [id |-> issued + 1, kind |-> k, wait |-> d, retries |-> r] \in Commands
    BY <1>19, <2>1, ConstantsAssumption DEF Submit, Commands
  <2> QED BY <1>19, <2>1, <2>2 DEF Submit, taskVars
<1>20. CASE RailChange
  BY <1>20 DEF RailChange, taskVars, RailStates
<1>21. CASE Tick
  <2>1. rx' \in Seq(Commands) /\ pending' \in Seq(Commands)
    BY <1>21, QueueSooner DEF Tick
  <2>2. held' \in Commands \cup {None}
    BY <1>21, SoonerTyped DEF Tick
  <2>3. run' \in SequenceRuns \cup {None}
    BY <1>21, LessNat DEF Tick, SequenceRuns
  <2>4. timer' \in Nat /\ anchor' \in Nat \cup {None}
    BY <1>21, LessNat DEF Tick
  <2> QED BY <1>21, <2>1, <2>2, <2>3, <2>4 DEF Tick
<1>22. CASE UNCHANGED vars
  BY <1>22 DEF vars, taskVars
<1> QED BY <1>1, <1>2, <1>3, <1>4, <1>5, <1>6, <1>8, <1>9, <1>10, <1>11,
           <1>12, <1>13, <1>14, <1>15, <1>16, <1>17, <1>18, <1>19, <1>20,
           <1>21, <1>22 DEF Next, Task, Drive, Environment

-----------------------------------------------------------------------------
(* Control state. *)

(* What entering step i does to the run: either the step exists and is     *)
(* driven, or the run is past its last step.                               *)
LEMMA EnterStepEffect ==
  ASSUME TypeOK, run # None, run.cmd.kind \in Registered,
         NEW i \in Nat \ {0}, EnterStep(i)
  PROVE  /\ run' # None
         /\ run'.cmd = run.cmd /\ run'.retry = run.retry
         /\ \/ /\ i <= Len(Phases)
               /\ run'.state = "Executing" /\ run'.step = i
               /\ run'.events = run.events + 1
               /\ straps' = Driven(Phases[i], straps)
            \/ /\ i > Len(Phases)
               /\ run'.state \in {"Cooldown", "Complete"} /\ run'.step = 0
               /\ \/ run'.state = "Cooldown" /\ run'.events = run.events
                  \/ run'.state = "Complete" /\ run'.events = run.events + 1
               /\ straps' = straps
<1>1. run \in SequenceRuns
  BY DEF TypeOK
<1>2. run' # None
  BY EnterStepTyped, RunNotNone
<1>3. Len(Phases) \in Nat
  BY StepTyped DEF Phases
<1>4. CASE i <= Len(Phases)
  <2>1. StartStep(i)
    BY <1>4 DEF EnterStep
  <2> QED BY <1>1, <1>2, <1>4, <2>1 DEF StartStep, SequenceRuns
<1>5. CASE i > Len(Phases)
  <2>1. BeginCooldown
    BY <1>3, <1>5 DEF EnterStep
  <2> QED BY <1>1, <1>2, <1>5, <2>1 DEF BeginCooldown, SequenceRuns
<1> QED BY <1>3, <1>4, <1>5

LEMMA InitControl == Init => ControlState
  BY ConstantsAssumption DEF Init, ControlState, RunInPlace

(* RunInPlace survives a step that leaves the run's command and place, and *)
(* the link, alone.                                                        *)
LEMMA RunStays ==
  ASSUME RunInPlace, linkUp' = linkUp, run # None, run' # None,
         run'.cmd = run.cmd, run'.step = run.step,
         run'.state = "Executing" => run.state = "Executing"
  PROVE  RunInPlace'
  BY DEF RunInPlace, Phases

LEMMA BeginRunControl ==
  ASSUME TypeOK, NEW c \in Commands, NEW n \in Nat, run = None,
         BeginRun(c, n), linkUp' = linkUp, ~recovering
  PROVE  /\ RunInPlace'
         /\ ~recovering'
<1>1. CASE /\ linkUp /\ c.kind \in Registered /\ run' = NewRun(c, n)
           /\ recovering' = FALSE
  <2>1. Len(Template[c.kind].phases) \in Nat
    BY <1>1, StepTyped
  <2>2. run'.cmd = c /\ run'.step = 0 /\ run'.state = "Arming"
    BY <1>1 DEF NewRun
  <2> QED BY <1>1, <2>1, <2>2 DEF RunInPlace, Phases
<1>2. CASE UNCHANGED <<run, recovering>>
  BY <1>2 DEF RunInPlace
<1> QED BY <1>1, <1>2 DEF BeginRun

LEMMA ControlStep == TypeOK /\ ControlState /\ [Next]_vars => ControlState'
<1> SUFFICES ASSUME TypeOK, ControlState, [Next]_vars PROVE ControlState'
  OBVIOUS
<1>0. QueueDepth \in Nat \ {0}
  BY ConstantsAssumption
<1> DEFINE Queues == Len(rx) <= QueueDepth /\ Len(pending) <= QueueDepth
           Rest ==
             /\ held # None <=> pc = "heldDelay"
             /\ pc \in {"receive", "heldDelay"} => run = None /\ pending = <<>>
             /\ pc = "queueDelay" => run = None
             /\ pc \in {"drive", "recover", "recoveryPace"} => run # None
             /\ recovering <=> pc \in {"recover", "recoveryPace"}
             /\ recovering => run.state = "Arming" /\ run.retry > 0
<1>00. Queues /\ Rest /\ RunInPlace
  BY DEF ControlState
<1>000. Queues' /\ Rest' /\ RunInPlace' => ControlState'
  BY DEF ControlState
<1>1. CASE StartPending
  <2>1. /\ Head(pending) \in Commands
        /\ Len(Tail(pending)) <= QueueDepth
    BY <1>0, <1>00, <1>1 DEF StartPending, TypeOK
  <2>2. ~recovering /\ run = None
    BY <1>00, <1>1 DEF StartPending
  <2>3. RunInPlace' /\ ~recovering'
    BY <1>1, <2>1, <2>2, BeginRunControl DEF StartPending
  <2>4. Queues' /\ Rest'
    BY <1>00, <1>1, <2>1, <2>3 DEF StartPending
  <2> QED BY <1>000, <2>3, <2>4
<1>2. CASE DelayPending
  <2>1. Len(Tail(pending)) <= QueueDepth
    BY <1>0, <1>00, <1>2 DEF DelayPending, TypeOK
  <2>2. RunInPlace'
    BY <1>00, <1>2 DEF DelayPending, RunInPlace, Phases
  <2> QED BY <1>00, <1>000, <1>2, <2>1, <2>2 DEF DelayPending, Requeued
<1>3. CASE AwaitCommand
  <2>1. RunInPlace'
    BY <1>00, <1>3 DEF AwaitCommand, RunInPlace, Phases
  <2> QED BY <1>00, <1>000, <1>3, <2>1 DEF AwaitCommand
<1>4. CASE ReceiveCommand
  <2>1. Head(rx) \in Commands /\ Len(Tail(rx)) <= QueueDepth
    BY <1>0, <1>00, <1>4 DEF ReceiveCommand, TypeOK
  <2>2. ~recovering /\ run = None /\ pending = <<>> /\ held = None
    BY <1>00, <1>4 DEF ReceiveCommand
  <2>3. CASE /\ BeginRun(Head(rx), 1) /\ pc' = "loop"
             /\ UNCHANGED <<held, timer>>
    <3>1. RunInPlace' /\ ~recovering'
      BY <1>4, <2>1, <2>2, <2>3, BeginRunControl DEF ReceiveCommand
    <3> QED BY <1>00, <1>000, <1>4, <2>1, <2>2, <2>3, <3>1 DEF ReceiveCommand
  <2>4. CASE /\ held' = Head(rx) /\ pc' = "heldDelay"
             /\ UNCHANGED <<run, recovering, lastRejection>>
    <3>1. RunInPlace'
      BY <1>4, <2>2, <2>4 DEF RunInPlace
    <3>2. held' # None
      BY <2>1, <2>4, NoneAssumption
    <3> QED BY <1>00, <1>000, <1>4, <2>1, <2>2, <2>4, <3>1, <3>2
            DEF ReceiveCommand
  <2> QED BY <1>4, <2>3, <2>4 DEF ReceiveCommand
<1>5. CASE StartHeld
  <2>1. held \in Commands /\ ~recovering /\ run = None
    BY <1>00, <1>5 DEF StartHeld, TypeOK
  <2>2. RunInPlace' /\ ~recovering'
    BY <1>5, <2>1, BeginRunControl DEF StartHeld
  <2> QED BY <1>00, <1>000, <1>5, <2>1, <2>2 DEF StartHeld
<1>6. CASE Wake
  <2>1. RunInPlace'
    BY <1>00, <1>6 DEF Wake, RunInPlace, Phases
  <2> QED BY <1>00, <1>000, <1>6, <2>1 DEF Wake
<1>7. ASSUME Collect PROVE Queues'
  <2>1. Len(rx') = 0 /\ Len(pending') <= QueueDepth
    BY <1>7, <1>00, CollectKeepsBounds
  <2> QED BY <1>0, <2>1
<1>8. CASE FinishRun
  <2>1. RunInPlace'
    BY <1>8 DEF FinishRun, RunInPlace
  <2> QED BY <1>00, <1>000, <1>7, <1>8, <2>1 DEF FinishRun
<1>9. CASE PollRail
  <2>1. RunInPlace'
    BY <1>00, <1>9 DEF PollRail, RunInPlace, Phases
  <2> QED BY <1>00, <1>000, <1>7, <1>9, <2>1 DEF PollRail, Polling
<1>10. CASE RetryRun
  <2>1. run \in SequenceRuns /\ run # None
    BY <1>10 DEF RetryRun, Polling, TypeOK
  <2>2. /\ run'.cmd = run.cmd /\ run'.step = 0 /\ run'.state = "Arming"
        /\ run'.retry > 0
    BY <1>10, <2>1, Retried, RunFields DEF RetryRun
  <2>3. run' # None
    BY <1>10, <2>1, Retried, RunNotNone DEF RetryRun
  <2>4. RunInPlace'
    <3>1. Len(Phases) \in Nat
      BY <1>00, <2>1, StepTyped DEF Phases, RunInPlace
    <3> QED BY <1>00, <1>10, <2>1, <2>2, <3>1 DEF RetryRun, RunInPlace, Phases
  <2> QED BY <1>00, <1>000, <1>7, <1>10, <2>2, <2>3, <2>4 DEF RetryRun, Polling
<1>11. CASE GiveUp
  <2>1. run \in SequenceRuns /\ run # None
    BY <1>11 DEF GiveUp, Polling, TypeOK
  <2>2. /\ run' = Ended(run, "Error", LineCount)
        /\ LineCount \in Nat /\ "Error" \in SequenceStates
    BY <1>11 DEF GiveUp, SequenceStates, LineCount
  <2>3. /\ run'.cmd = run.cmd /\ run'.step = run.step
        /\ run'.state = "Error" /\ run' # None
    BY <2>1, <2>2, EndedRun, RunNotNone
  <2>4. RunInPlace'
    BY <1>00, <1>11, <2>1, <2>3, RunStays DEF GiveUp
  <2> QED BY <1>00, <1>000, <1>7, <1>11, <2>3, <2>4 DEF GiveUp, Polling
<1>12. CASE SampleRecovery
  <2>1. RunInPlace'
    BY <1>00, <1>12 DEF SampleRecovery, RunInPlace, Phases
  <2>2. \/ recovering' /\ pc' = "recoveryPace"
        \/ ~recovering' /\ pc' = "loop"
    BY <1>12 DEF SampleRecovery
  <2> QED BY <1>00, <1>000, <1>7, <1>12, <2>1, <2>2 DEF SampleRecovery
<1>13. CASE Arm
  <2>1. run # None /\ run.cmd.kind \in Registered
    BY <1>00, <1>13 DEF Arm, RunInPlace
  <2>2. EnterStep(1)
    BY <1>13 DEF Arm
  <2>3. RunInPlace' /\ run' # None
    BY <1>00, <1>13, <2>1, <2>2, EnterStepEffect, StepTyped
       DEF Arm, RunInPlace, Phases
  <2>4. pc' \in {"drive", "pace"}
    BY <1>13, <2>1, <2>2, EnterStepTyped DEF Arm
  <2> QED BY <1>00, <1>000, <1>13, <2>3, <2>4 DEF Arm
<1>14. CASE FinishStep
  <2>1. run # None /\ run.cmd.kind \in Registered
    BY <1>00, <1>14 DEF FinishStep, RunInPlace
  <2>2. run.step + 1 \in Nat \ {0} /\ EnterStep(run.step + 1)
    BY <1>14, <2>1, RunFields DEF FinishStep, TypeOK
  <2>3. RunInPlace' /\ run' # None
    <3> DEFINE i == run.step + 1
    <3>1. linkUp /\ linkUp' = linkUp
      BY <1>00, <1>14, <2>1 DEF FinishStep, RunInPlace
    <3>2. i \in Nat \ {0} /\ EnterStep(i)
      BY <2>2
    <3> HIDE DEF i
    <3>3. /\ run' # None /\ run'.cmd = run.cmd
          /\ \/ i <= Len(Phases) /\ run'.state = "Executing" /\ run'.step = i
             \/ run'.state \in {"Cooldown", "Complete"} /\ run'.step = 0
      BY <1>0, <2>1, <3>2, EnterStepEffect
    <3>4. Phases' = Phases /\ Len(Phases) \in Nat
      BY <2>1, <3>3, StepTyped DEF Phases
    <3>5. run'.step <= Len(Phases) /\ (run'.state = "Executing" => run'.step > 0)
      BY <3>2, <3>3, <3>4
    <3> QED BY <2>1, <3>1, <3>3, <3>4, <3>5 DEF RunInPlace
  <2>4. pc' \in {"drive", "pace"}
    BY <1>14, <2>1, <2>2, EnterStepTyped DEF FinishStep
  <2> QED BY <1>00, <1>000, <1>14, <2>3, <2>4 DEF FinishStep
<1>15. CASE CompleteRun
  <2>1. run \in SequenceRuns /\ run # None
    BY <1>00, <1>15 DEF CompleteRun, TypeOK
  <2>2. /\ run'.cmd = run.cmd /\ run'.step = run.step
        /\ run'.state = "Complete" /\ run' # None
    <3>1. run' = Ended(run, "Complete", 1) /\ "Complete" \in SequenceStates
      BY <1>15 DEF CompleteRun, SequenceStates
    <3> QED BY <2>1, <3>1, EndedRun, RunNotNone
  <2>3. RunInPlace'
    BY <1>00, <1>15, <2>1, <2>2, RunStays DEF CompleteRun
  <2> QED BY <1>00, <1>000, <1>15, <2>2, <2>3 DEF CompleteRun
<1>16. CASE Pause
  <2>1. RunInPlace'
    BY <1>00, <1>16 DEF Pause, RunInPlace, Phases
  <2> QED BY <1>00, <1>000, <1>16, <2>1 DEF Pause
<1>17. CASE ControlLinkLost
  <2>1. Len(<<>>) = 0 /\ RunInPlace'
    BY <1>17 DEF ControlLinkLost, RunInPlace
  <2> QED BY <1>0, <1>00, <1>000, <1>17, <2>1
          DEF ControlLinkLost, ReleaseAll, DrainPending
<1>18. CASE ControlLinkAttached
  <2>1. RunInPlace'
    BY <1>00, <1>18 DEF ControlLinkAttached, taskVars, RunInPlace
  <2> QED BY <1>00, <1>000, <1>18, <2>1 DEF ControlLinkAttached, taskVars
<1>19. ASSUME NEW k \in Kinds, NEW d \in Delays, NEW r \in Overrides,
              Submit(k, d, r)
       PROVE  ControlState'
  <2>1. Len(rx') <= QueueDepth
    BY <1>0, <1>19 DEF Submit, TypeOK
  <2>2. RunInPlace'
    BY <1>00, <1>19 DEF Submit, taskVars, RunInPlace, Phases
  <2> QED BY <1>00, <1>000, <1>19, <2>1, <2>2 DEF Submit, taskVars
<1>20. CASE RailChange
  <2>1. RunInPlace'
    BY <1>00, <1>20 DEF RailChange, taskVars, RunInPlace, Phases
  <2> QED BY <1>00, <1>000, <1>20, <2>1 DEF RailChange, taskVars
<1>21. CASE Tick
  <2>1. Len(rx') = Len(rx) /\ Len(pending') = Len(pending)
    BY <1>21, QueueSooner DEF Tick, TypeOK
  <2>2. pending = <<>> => pending' = <<>>
    BY <1>21 DEF Tick
  <2>3. held # None <=> held' # None
    BY <1>21, SoonerTyped, NoneAssumption DEF Tick, TypeOK
  <2>4. run = None => run' = None
    BY <1>21 DEF Tick
  <2>5. ASSUME run # None
        PROVE  /\ run' # None /\ run'.cmd = run.cmd /\ run'.step = run.step
               /\ run'.state = run.state /\ run'.retry = run.retry
    <3>1. run \in SequenceRuns
      BY <2>5 DEF TypeOK
    <3>2. run' \in SequenceRuns
      BY <1>21, <2>5, <3>1, LessNat DEF Tick, SequenceRuns
    <3> QED BY <1>21, <2>5, <3>1, <3>2, RunNotNone DEF Tick, SequenceRuns
  <2>6. RunInPlace'
    BY <1>00, <1>21, <2>4, <2>5, RunStays DEF Tick, RunInPlace
  <2> QED BY <1>00, <1>000, <1>21, <2>1, <2>2, <2>3, <2>4, <2>5, <2>6 DEF Tick
<1>22. CASE UNCHANGED vars
  <2>1. RunInPlace'
    BY <1>00, <1>22 DEF vars, taskVars, RunInPlace, Phases
  <2> QED BY <1>00, <1>000, <1>22, <2>1 DEF vars, taskVars
<1> QED BY <1>1, <1>2, <1>3, <1>4, <1>5, <1>6, <1>8, <1>9, <1>10, <1>11,
           <1>12, <1>13, <1>14, <1>15, <1>16, <1>17, <1>18, <1>19, <1>20,
           <1>21, <1>22 DEF Next, Task, Drive, Environment

-----------------------------------------------------------------------------
(* The straps follow the run. *)

LEMMA NothingHeldFirst ==
  ASSUME NEW phases PROVE HeldAfter(phases, 0) = {}
  BY DEF HeldAfter

(* Taking one more step drives one more line.                              *)
LEMMA HeldStep ==
  ASSUME NEW phases, NEW i \in Nat \ {0}, phases[i] \in StrapSteps
  PROVE  HeldAfter(phases, i) = Driven(phases[i], HeldAfter(phases, i - 1))
<1> DEFINE Last(l, n) ==
             \E j \in 1..n : /\ phases[j].line = l
                            /\ phases[j].action = "AssertLow"
                            /\ \A m \in (j + 1)..n : phases[m].line # l
<1>1. \A l : l \in HeldAfter(phases, i) <=> l \in Lines /\ Last(l, i)
  BY DEF HeldAfter
<1>2. \A l : l \in HeldAfter(phases, i - 1) <=> l \in Lines /\ Last(l, i - 1)
  BY DEF HeldAfter
<1>3. phases[i].line \in Lines
      /\ (Last(phases[i].line, i) <=> phases[i].action = "AssertLow")
  <2>1. phases[i].line \in Lines
    BY DEF StrapSteps
  <2>2. ASSUME phases[i].action = "AssertLow" PROVE Last(phases[i].line, i)
    <3>1. i \in 1..i /\ \A m \in (i + 1)..i : phases[m].line # phases[i].line
      OBVIOUS
    <3> QED BY <2>2, <3>1
  <2>3. ASSUME Last(phases[i].line, i) PROVE phases[i].action = "AssertLow"
    <3>1. PICK j \in 1..i :
            /\ phases[j].line = phases[i].line
            /\ phases[j].action = "AssertLow"
            /\ \A m \in (j + 1)..i : phases[m].line # phases[i].line
      BY <2>3
    <3>2. j = i
      <4>1. SUFFICES ASSUME j # i PROVE FALSE
        OBVIOUS
      <4>2. i \in (j + 1)..i
        BY <4>1
      <4> QED BY <3>1, <4>2
    <3> QED BY <3>1, <3>2
  <2> QED BY <2>1, <2>2, <2>3
<1>4. ASSUME NEW l, l # phases[i].line
      PROVE  Last(l, i) <=> Last(l, i - 1)
  <2>1. ASSUME Last(l, i) PROVE Last(l, i - 1)
    <3>1. PICK j \in 1..i :
            /\ phases[j].line = l
            /\ phases[j].action = "AssertLow"
            /\ \A m \in (j + 1)..i : phases[m].line # l
      BY <2>1
    <3>2. j \in 1..(i - 1) /\ (j + 1)..(i - 1) \subseteq (j + 1)..i
      BY <1>4, <3>1
    <3> QED BY <3>1, <3>2
  <2>2. ASSUME Last(l, i - 1) PROVE Last(l, i)
    <3>1. PICK j \in 1..(i - 1) :
            /\ phases[j].line = l
            /\ phases[j].action = "AssertLow"
            /\ \A m \in (j + 1)..(i - 1) : phases[m].line # l
      BY <2>2
    <3>2. \A m \in (j + 1)..i : phases[m].line # l
      <4>1. TAKE m \in (j + 1)..i
      <4>2. m = i \/ m \in (j + 1)..(i - 1)
        OBVIOUS
      <4> QED BY <1>4, <3>1, <4>2
    <3>3. j \in 1..i
      OBVIOUS
    <3> QED BY <3>1, <3>2, <3>3
  <2> QED BY <2>1, <2>2
<1> HIDE DEF Last
<1>5. \A l : l \in HeldAfter(phases, i)
              <=> l \in Driven(phases[i], HeldAfter(phases, i - 1))
  <2>1. TAKE l
  <2>2. CASE l = phases[i].line
    BY <1>1, <1>3, <2>2 DEF Driven
  <2>3. CASE l # phases[i].line
    BY <1>1, <1>2, <1>4, <2>3 DEF Driven
  <2> QED BY <2>2, <2>3
<1> QED BY <1>5

LEMMA StrapsStep ==
  TypeOK /\ ControlState /\ StrapsFollowTheRun /\ [Next]_vars
    => StrapsFollowTheRun'
<1> SUFFICES ASSUME TypeOK, ControlState, StrapsFollowTheRun, [Next]_vars
             PROVE  StrapsFollowTheRun'
  OBVIOUS
<1> DEFINE Quiet == ~(run # None /\ run.state = "Executing")
<1>1. Quiet => straps = {}
  BY DEF StrapsFollowTheRun
<1>2. Quiet' /\ straps' = {} => StrapsFollowTheRun'
  BY DEF StrapsFollowTheRun
(* A step that changes neither the run nor the lines. *)
<1>3. ASSUME UNCHANGED <<run, straps>> PROVE StrapsFollowTheRun'
  BY <1>3 DEF StrapsFollowTheRun, Phases
(* A command is started, or refused, with no run in hand. *)
<1>4. ASSUME NEW c, NEW n, BeginRun(c, n), run = None, straps' = straps
      PROVE  StrapsFollowTheRun'
  <2>1. straps' = {}
    BY <1>1, <1>4
  <2>2. Quiet'
    BY <1>4 DEF BeginRun, NewRun
  <2> QED BY <1>2, <2>1, <2>2
(* A step of the sequence is entered from step i - 1. *)
<1>5. ASSUME NEW i \in Nat \ {0}, EnterStep(i), run # None,
             run.cmd.kind \in Registered, i - 1 <= Len(Phases),
             straps = HeldAfter(Phases, i - 1)
      PROVE  StrapsFollowTheRun'
  <2>1. CASE /\ i <= Len(Phases)
             /\ run'.state = "Executing" /\ run'.step = i
             /\ straps' = Driven(Phases[i], straps)
    <3>1. Phases[i] \in StrapSteps
      BY <1>5, <2>1, StepTyped DEF Phases
    <3>2. straps' = HeldAfter(Phases, i)
      BY <1>5, <2>1, <3>1, HeldStep
    <3>3. Phases' = Phases /\ run' # None
      BY <1>5, EnterStepEffect DEF Phases
    <3> QED BY <2>1, <3>2, <3>3 DEF StrapsFollowTheRun
  <2>2. CASE /\ i > Len(Phases) /\ straps' = straps
             /\ run'.state \in {"Cooldown", "Complete"}
    <3>1. i - 1 = Len(Phases)
      BY <1>5, <2>2, StepTyped DEF Phases
    <3>2. straps' = {}
      BY <1>5, <2>2, <3>1, TemplatesRelease DEF Phases
    <3> QED BY <1>2, <2>2, <3>2
  <2> QED BY <1>5, <2>1, <2>2, EnterStepEffect
<1>6. CASE StartPending
  BY <1>4, <1>6 DEF StartPending
<1>7. CASE ReceiveCommand
  <2>1. run = None
    BY <1>7 DEF ReceiveCommand, ControlState
  <2> QED BY <1>3, <1>4, <1>7, <2>1 DEF ReceiveCommand
<1>8. CASE StartHeld
  <2>1. run = None
    BY <1>8 DEF StartHeld, ControlState
  <2> QED BY <1>4, <1>8, <2>1 DEF StartHeld
<1>9. CASE DelayPending \/ AwaitCommand \/ Wake \/ PollRail \/ SampleRecovery
           \/ Pause
  BY <1>3, <1>9 DEF DelayPending, AwaitCommand, Wake, PollRail, SampleRecovery,
                    Pause
<1>10. CASE FinishRun
  <2>1. Quiet /\ Quiet' /\ straps' = straps
    BY <1>10 DEF FinishRun, Terminal
  <2> QED BY <1>1, <1>2, <2>1
<1>11. CASE RetryRun
  <2>1. run \in SequenceRuns
    BY <1>11 DEF RetryRun, Polling, TypeOK
  <2>2. run'.state = "Arming" /\ straps' = {}
    BY <1>11, <2>1, Retried DEF RetryRun, ReleaseAll, RetriesLeft
  <2> QED BY <1>2, <2>2
<1>12. CASE GiveUp
  <2>1. run \in SequenceRuns
    BY <1>12 DEF GiveUp, Polling, TypeOK
  <2>2. /\ run' = Ended(run, "Error", LineCount) /\ straps' = {}
        /\ LineCount \in Nat /\ "Error" \in SequenceStates
    BY <1>12 DEF GiveUp, LineCount, SequenceStates, ReleaseAll, RetriesLeft
  <2>3. run'.state = "Error"
    BY <2>1, <2>2, EndedRun
  <2> QED BY <1>2, <2>2, <2>3
<1>13. CASE Arm
  <2>1. run # None /\ run.cmd.kind \in Registered /\ run.state = "Arming"
    BY <1>13 DEF Arm, ControlState, RunInPlace
  <2>2. straps = HeldAfter(Phases, 1 - 1)
    BY <1>1, <2>1, NothingHeldFirst
  <2>3. 1 - 1 <= Len(Phases)
    BY <2>1, StepTyped DEF Phases
  <2> QED BY <1>5, <1>13, <2>1, <2>2, <2>3 DEF Arm
<1>14. CASE FinishStep
  <2>1. /\ run # None /\ run.cmd.kind \in Registered
        /\ run.state = "Executing" /\ run.step <= Len(Phases)
    BY <1>14 DEF FinishStep, ControlState, RunInPlace
  <2>2. run.step \in Nat /\ run.step + 1 - 1 = run.step
    BY <2>1, RunFields DEF TypeOK
  <2>3. straps = HeldAfter(Phases, run.step)
    BY <2>1 DEF StrapsFollowTheRun
  <2>4. run.step + 1 \in Nat \ {0} /\ EnterStep(run.step + 1)
    BY <1>14, <2>2 DEF FinishStep
  <2> QED BY <1>5, <2>1, <2>2, <2>3, <2>4
<1>15. CASE CompleteRun
  <2>1. run \in SequenceRuns /\ Quiet
    BY <1>15 DEF CompleteRun, TypeOK, ControlState
  <2>2. run' = Ended(run, "Complete", 1) /\ "Complete" \in SequenceStates
    BY <1>15 DEF CompleteRun, SequenceStates
  <2>3. run'.state = "Complete" /\ straps' = straps
    BY <1>15, <2>1, <2>2, EndedRun DEF CompleteRun
  <2> QED BY <1>1, <1>2, <2>1, <2>3
<1>16. CASE ControlLinkLost
  BY <1>2, <1>16 DEF ControlLinkLost, ReleaseAll, DrainPending
<1>17. CASE ControlLinkAttached \/ RailChange
            \/ \E k \in Kinds, d \in Delays, r \in Overrides : Submit(k, d, r)
  BY <1>3, <1>17 DEF ControlLinkAttached, RailChange, Submit, taskVars
<1>18. CASE Tick
  <2>1. CASE run = None
    BY <1>1, <1>2, <1>18, <2>1 DEF Tick
  <2>2. CASE run # None
    <3>1. run \in SequenceRuns
      BY <2>2 DEF TypeOK
    <3>2. /\ run'.cmd = run.cmd /\ run'.step = run.step
          /\ run'.state = run.state /\ straps' = straps
      BY <1>18, <2>2, <3>1 DEF Tick, SequenceRuns
    <3>3. run' # None
      BY <1>18, <2>2, <3>1, TickedRun, RunNotNone DEF Tick
    <3> QED BY <2>2, <3>2, <3>3 DEF StrapsFollowTheRun, Phases
  <2> QED BY <2>1, <2>2
<1>19. CASE UNCHANGED vars
  BY <1>3, <1>19 DEF vars, taskVars
<1> QED BY <1>6, <1>7, <1>8, <1>9, <1>10, <1>11, <1>12, <1>13, <1>14, <1>15,
           <1>16, <1>17, <1>18, <1>19 DEF Next, Task, Drive, Environment

-----------------------------------------------------------------------------
(* The status cell of the wait for bridge activity. *)

LEMMA WaitStep ==
  TypeOK /\ ControlState /\ StatusTellsOfTheWait /\ [Next]_vars
    => StatusTellsOfTheWait'
<1> SUFFICES ASSUME TypeOK, ControlState, StatusTellsOfTheWait, [Next]_vars
             PROVE  StatusTellsOfTheWait'
  OBVIOUS
<1> DEFINE Quiet == ~(run # None /\ run.state = "Executing")
<1>1. Quiet' => StatusTellsOfTheWait'
  BY DEF StatusTellsOfTheWait
<1>2. ASSUME UNCHANGED <<run, bridgeWaiting>> PROVE StatusTellsOfTheWait'
  BY <1>2 DEF StatusTellsOfTheWait, Phases
<1>3. ASSUME NEW c, NEW n, BeginRun(c, n), run = None PROVE Quiet'
  BY <1>3 DEF BeginRun, NewRun
(* The step that is entered stores into the cell. *)
<1>4. ASSUME NEW i \in Nat \ {0}, EnterStep(i), run # None,
             run.cmd.kind \in Registered
      PROVE  StatusTellsOfTheWait'
  <2>1. run \in SequenceRuns
    BY <1>4 DEF TypeOK
  <2>2. CASE i <= Len(Phases)
    <3>1. StartStep(i)
      BY <1>4, <2>2 DEF EnterStep
    <3>2. /\ bridgeWaiting' = (Phases[i].completion = "OnBridgeActivity")
          /\ run'.waiting = (Phases[i].completion = "OnBridgeActivity")
          /\ run'.step = i /\ run'.cmd = run.cmd
      BY <2>1, <3>1 DEF StartStep, SequenceRuns
    <3> QED BY <3>2 DEF StatusTellsOfTheWait, Phases
  <2>3. CASE ~(i <= Len(Phases))
    <3>1. run'.state \in {"Cooldown", "Complete"}
      BY <1>4, <2>3, EnterStepEffect
    <3> QED BY <1>1, <3>1
  <2> QED BY <2>2, <2>3
<1>5. CASE StartPending
  BY <1>1, <1>3, <1>5 DEF StartPending
<1>6. CASE ReceiveCommand
  <2>1. run = None
    BY <1>6 DEF ReceiveCommand, ControlState
  <2> QED BY <1>1, <1>2, <1>3, <1>6, <2>1 DEF ReceiveCommand
<1>7. CASE StartHeld
  <2>1. run = None
    BY <1>7 DEF StartHeld, ControlState
  <2> QED BY <1>1, <1>3, <1>7, <2>1 DEF StartHeld
<1>8. CASE DelayPending \/ AwaitCommand \/ Wake \/ PollRail \/ SampleRecovery
           \/ Pause
  BY <1>2, <1>8 DEF DelayPending, AwaitCommand, Wake, PollRail, SampleRecovery,
                    Pause
<1>9. CASE FinishRun
  BY <1>1, <1>9 DEF FinishRun
<1>10. CASE RetryRun
  <2>1. run \in SequenceRuns
    BY <1>10 DEF RetryRun, Polling, TypeOK
  <2>2. run'.state = "Arming"
    BY <1>10, <2>1, Retried DEF RetryRun, RetriesLeft
  <2> QED BY <1>1, <2>2
<1>11. CASE GiveUp
  <2>1. run \in SequenceRuns
    BY <1>11 DEF GiveUp, Polling, TypeOK
  <2>2. /\ run' = Ended(run, "Error", LineCount)
        /\ LineCount \in Nat /\ "Error" \in SequenceStates
    BY <1>11 DEF GiveUp, LineCount, SequenceStates, RetriesLeft
  <2>3. run'.state = "Error"
    BY <2>1, <2>2, EndedRun
  <2> QED BY <1>1, <2>3
<1>12. CASE Arm
  <2>1. run # None /\ run.cmd.kind \in Registered
    BY <1>12 DEF Arm, ControlState, RunInPlace
  <2> QED BY <1>4, <1>12, <2>1 DEF Arm
<1>13. CASE FinishStep
  <2>1. run # None /\ run.cmd.kind \in Registered
    BY <1>13 DEF FinishStep, ControlState, RunInPlace
  <2>2. run.step + 1 \in Nat \ {0}
    BY <2>1, RunFields DEF TypeOK
  <2> QED BY <1>4, <1>13, <2>1, <2>2 DEF FinishStep
<1>14. CASE CompleteRun
  <2>1. run \in SequenceRuns
    BY <1>14 DEF CompleteRun, TypeOK, ControlState
  <2>2. run' = Ended(run, "Complete", 1) /\ "Complete" \in SequenceStates
    BY <1>14 DEF CompleteRun, SequenceStates
  <2>3. run'.state = "Complete"
    BY <2>1, <2>2, EndedRun
  <2> QED BY <1>1, <2>3
<1>15. CASE ControlLinkLost
  BY <1>1, <1>15 DEF ControlLinkLost
<1>16. CASE ControlLinkAttached \/ RailChange \/ UNCHANGED vars
            \/ \E k \in Kinds, d \in Delays, r \in Overrides : Submit(k, d, r)
  BY <1>2, <1>16 DEF ControlLinkAttached, RailChange, Submit, vars, taskVars
<1>17. CASE Tick
  <2>1. CASE run = None
    BY <1>1, <1>17, <2>1 DEF Tick
  <2>2. CASE run # None
    <3>1. run \in SequenceRuns
      BY <2>2 DEF TypeOK
    <3>2. /\ run'.cmd = run.cmd /\ run'.step = run.step
          /\ run'.state = run.state /\ run'.waiting = run.waiting
          /\ bridgeWaiting' = bridgeWaiting
      BY <1>17, <2>2, <3>1 DEF Tick, SequenceRuns
    <3> QED BY <2>2, <3>2 DEF StatusTellsOfTheWait, Phases
  <2> QED BY <2>1, <2>2
<1> QED BY <1>5, <1>6, <1>7, <1>8, <1>9, <1>10, <1>11, <1>12, <1>13, <1>14,
           <1>15, <1>16, <1>17 DEF Next, Task, Drive, Environment

-----------------------------------------------------------------------------
(* The retry budget. *)

LEMMA RetriesStep ==
  TypeOK /\ ControlState /\ RetriesWithinBudget /\ [Next]_vars
    => RetriesWithinBudget'
<1> SUFFICES ASSUME TypeOK, ControlState, RetriesWithinBudget, [Next]_vars
             PROVE  RetriesWithinBudget'
  OBVIOUS
<1>0. ASSUME NEW c \in Commands, c.kind \in Registered
      PROVE  RetryBudget(c) \in Nat /\ RetryBudget(c)' = RetryBudget(c)
  BY <1>0, RetryBudgetNat DEF RetryBudget
(* A step that keeps the run's command and retries and does not fail it. *)
<1>1. ASSUME run' # None => /\ run # None /\ run'.cmd = run.cmd
                            /\ run'.retry = run.retry
                            /\ run'.state = "Error" => run.state = "Error"
      PROVE  RetriesWithinBudget'
  BY <1>1 DEF RetriesWithinBudget, RetryBudget
<1>2. ASSUME NEW c \in Commands, NEW n, BeginRun(c, n), run = None
      PROVE  RetriesWithinBudget'
  <2>1. CASE run' = NewRun(c, n) /\ c.kind \in Registered
    <3>1. run'.retry = 0 /\ run'.state = "Arming" /\ run'.cmd = c
      BY <2>1 DEF NewRun
    <3>2. RetryBudget(c) \in Nat
      BY <2>1, <1>0
    <3> QED BY <3>1, <3>2 DEF RetriesWithinBudget, RetryBudget
  <2>2. CASE run' = run
    BY <1>1, <1>2, <2>2
  <2> QED BY <1>2, <2>1, <2>2 DEF BeginRun
<1>3. CASE StartPending
  <2>1. Head(pending) \in Commands
    BY <1>3 DEF StartPending, TypeOK
  <2> QED BY <1>2, <1>3, <2>1 DEF StartPending
<1>4. CASE ReceiveCommand
  <2>1. Head(rx) \in Commands /\ run = None
    BY <1>4 DEF ReceiveCommand, TypeOK, ControlState
  <2> QED BY <1>1, <1>2, <1>4, <2>1 DEF ReceiveCommand
<1>5. CASE StartHeld
  <2>1. held \in Commands /\ run = None
    BY <1>5 DEF StartHeld, TypeOK, ControlState
  <2> QED BY <1>2, <1>5, <2>1 DEF StartHeld
<1>6. CASE DelayPending \/ AwaitCommand \/ Wake \/ PollRail \/ SampleRecovery
           \/ Pause \/ FinishRun \/ ControlLinkLost
  BY <1>1, <1>6 DEF DelayPending, AwaitCommand, Wake, PollRail, SampleRecovery,
                    Pause, FinishRun, ControlLinkLost
<1>7. CASE RetryRun
  <2>1. /\ run \in SequenceRuns /\ run # None
        /\ run.cmd.kind \in Registered
    BY <1>7 DEF RetryRun, Polling, TypeOK, ControlState, RunInPlace
  <2>2. /\ run'.cmd = run.cmd /\ run'.retry = run.retry + 1
        /\ run'.state = "Arming"
    BY <1>7, <2>1, Retried DEF RetryRun
  <2>3. RetryBudget(run.cmd) \in Nat /\ run.retry \in Nat
    BY <2>1, RunFields, RetryBudgetNat
  <2>4. run'.retry <= RetryBudget(run.cmd)
    BY <1>7, <2>2, <2>3 DEF RetryRun, ReleaseAll, RetriesLeft
  <2> QED BY <2>2, <2>4 DEF RetriesWithinBudget, RetryBudget
<1>8. CASE GiveUp
  <2>1. /\ run \in SequenceRuns /\ run # None
        /\ run.cmd.kind \in Registered
    BY <1>8 DEF GiveUp, Polling, TypeOK, ControlState, RunInPlace
  <2>2. /\ run' = Ended(run, "Error", LineCount)
        /\ LineCount \in Nat /\ "Error" \in SequenceStates
    BY <1>8 DEF GiveUp, LineCount, SequenceStates
  <2>3. run'.cmd = run.cmd /\ run'.retry = run.retry
    BY <2>1, <2>2, EndedRun
  <2>4. RetryBudget(run.cmd) \in Nat /\ run.retry \in Nat
    BY <2>1, RunFields, RetryBudgetNat
  <2>5. run.retry = RetryBudget(run.cmd)
    BY <1>8, <2>1, <2>4 DEF GiveUp, RetriesWithinBudget, ReleaseAll, RetriesLeft
  <2> QED BY <2>3, <2>4, <2>5 DEF RetriesWithinBudget, RetryBudget
<1>9. ASSUME NEW i \in Nat \ {0}, EnterStep(i), run # None,
             run.cmd.kind \in Registered
      PROVE  RetriesWithinBudget'
  <2>1. /\ run' # None /\ run'.cmd = run.cmd /\ run'.retry = run.retry
        /\ run'.state # "Error"
    BY <1>9, EnterStepEffect
  <2> QED BY <1>1, <1>9, <2>1
<1>10. CASE Arm
  BY <1>9, <1>10 DEF Arm, ControlState, RunInPlace
<1>11. CASE FinishStep
  <2>1. run # None /\ run.cmd.kind \in Registered
    BY <1>11 DEF FinishStep, ControlState, RunInPlace
  <2>2. run.step + 1 \in Nat \ {0} /\ EnterStep(run.step + 1)
    BY <1>11, <2>1, RunFields DEF FinishStep, TypeOK
  <2> QED BY <1>9, <2>1, <2>2
<1>12. CASE CompleteRun
  <2>1. run \in SequenceRuns /\ run # None
    BY <1>12 DEF CompleteRun, TypeOK, ControlState
  <2>2. run' = Ended(run, "Complete", 1) /\ "Complete" \in SequenceStates
    BY <1>12 DEF CompleteRun, SequenceStates
  <2>3. /\ run'.cmd = run.cmd /\ run'.retry = run.retry
        /\ run'.state = "Complete"
    BY <2>1, <2>2, EndedRun
  <2> QED BY <1>1, <2>1, <2>3
<1>13. CASE ControlLinkAttached \/ RailChange
            \/ \E k \in Kinds, d \in Delays, r \in Overrides : Submit(k, d, r)
  BY <1>1, <1>13 DEF ControlLinkAttached, RailChange, Submit, taskVars
<1>14. CASE Tick
  <2>1. CASE run = None
    BY <1>1, <1>14, <2>1 DEF Tick
  <2>2. CASE run # None
    <3>1. run \in SequenceRuns
      BY <2>2 DEF TypeOK
    <3>2. /\ run'.cmd = run.cmd /\ run'.retry = run.retry
          /\ run'.state = run.state
      BY <1>14, <2>2, <3>1 DEF Tick, SequenceRuns
    <3> QED BY <1>1, <2>2, <3>2
  <2> QED BY <2>1, <2>2
<1>15. CASE UNCHANGED vars
  BY <1>1, <1>15 DEF vars, taskVars
<1> QED BY <1>3, <1>4, <1>5, <1>6, <1>7, <1>8, <1>10, <1>11, <1>12, <1>13,
           <1>14, <1>15 DEF Next, Task, Drive, Environment

-----------------------------------------------------------------------------
(* The telemetry ids of a run. *)

(* How many ids a run may have tracked, by where it is: NoEventDropped is  *)
(* not inductive, because a run over its share could still be within 16.   *)
Share(r) ==
  LET steps == Len(Template[r.cmd.kind].phases)
  IN CASE r.state = "Arming"    -> LineCount
       [] r.state = "Executing" -> LineCount + r.step
       [] r.state = "Cooldown"  -> LineCount + steps
       [] r.state = "Complete"  -> LineCount + steps + 1
       [] r.state = "Error"     -> 2 * LineCount + steps

EventsInShare == run # None => run.events <= Share(run)

\* Under way, a run leaves room for the loss of the link; failed, it leaves
\* room for one id more.
LEMMA ShareBounds ==
  ASSUME TypeOK, ControlState, EventsInShare, run # None
  PROVE  /\ run \in SequenceRuns /\ run.events \in Nat
         /\ run.events + 1 <= MaxEmittedEvents
         /\ run.state # "Error" =>
              run.events + (1 + LineCount) <= MaxEmittedEvents
<1>1. /\ run \in SequenceRuns /\ run.cmd.kind \in Registered
      /\ run.step <= Len(Phases)
  BY DEF TypeOK, ControlState, RunInPlace
<1>2. /\ run.events \in Nat /\ run.step \in Nat
      /\ run.state \in SequenceStates /\ Len(Phases) \in Nat
  BY <1>1, RunFields, StepTyped DEF Phases
<1>3. LineCount + Len(Phases) + 1 + (1 + LineCount) <= MaxEmittedEvents
  BY <1>1, TemplatesFit DEF Phases
<1>4. run.events <= Share(run)
  BY DEF EventsInShare
<1>5. LineCount = 4 /\ MaxEmittedEvents \in Nat
  BY DEF LineCount, MaxEmittedEvents
<1>6. CASE run.state = "Arming"
  <2>1. Share(run) = LineCount
    BY <1>6 DEF Share
  <2> QED BY <1>1, <1>2, <1>3, <1>4, <1>5, <2>1
<1>7. CASE run.state = "Executing"
  <2>1. Share(run) = LineCount + run.step
    BY <1>7 DEF Share
  <2> QED BY <1>1, <1>2, <1>3, <1>4, <1>5, <2>1
<1>8. CASE run.state = "Cooldown"
  <2>1. Share(run) = LineCount + Len(Phases)
    BY <1>8 DEF Share, Phases
  <2> QED BY <1>1, <1>2, <1>3, <1>4, <1>5, <2>1
<1>9. CASE run.state = "Complete"
  <2>1. Share(run) = LineCount + Len(Phases) + 1
    BY <1>9 DEF Share, Phases
  <2> QED BY <1>1, <1>2, <1>3, <1>4, <1>5, <2>1
<1>10. CASE run.state = "Error"
  <2>1. Share(run) = 2 * LineCount + Len(Phases)
    BY <1>10 DEF Share, Phases
  <2> QED BY <1>1, <1>2, <1>3, <1>4, <1>5, <1>10, <2>1
<1> QED BY <1>2, <1>6, <1>7, <1>8, <1>9, <1>10 DEF SequenceStates

LEMMA ShareFits ==
  TypeOK /\ ControlState /\ EventsInShare => NoEventDropped
<1> SUFFICES ASSUME TypeOK, ControlState, EventsInShare, run # None
             PROVE  /\ run.events < MaxEmittedEvents
                    /\ run.state # "Error" =>
                         AbortedRun(run).events <= MaxEmittedEvents
  BY DEF NoEventDropped
<1>1. /\ run \in SequenceRuns /\ run.events \in Nat
      /\ run.events + 1 <= MaxEmittedEvents
      /\ run.state # "Error" =>
           run.events + (1 + LineCount) <= MaxEmittedEvents
  BY ShareBounds
<1>2. MaxEmittedEvents \in Nat /\ 1 + LineCount \in Nat
      /\ "Error" \in SequenceStates
  BY DEF MaxEmittedEvents, LineCount, SequenceStates
<1>3. AbortedRun(run).events = run.events + (1 + LineCount)
  BY <1>1, <1>2, EndedRun DEF AbortedRun
<1> QED BY <1>1, <1>2, <1>3

LEMMA EventsStep ==
  TypeOK /\ ControlState /\ EventsInShare /\ [Next]_vars => EventsInShare'
<1> SUFFICES ASSUME TypeOK, ControlState, EventsInShare, [Next]_vars
             PROVE  EventsInShare'
  OBVIOUS
<1> USE DEF LineCount
<1>0. ASSUME run # None
      PROVE  /\ run \in SequenceRuns /\ run.cmd.kind \in Registered
             /\ run.step \in Nat /\ run.events \in Nat
             /\ run.step <= Len(Phases) /\ Len(Phases) \in Nat
             /\ run.state \in SequenceStates
  <2>1. run \in SequenceRuns /\ run.cmd.kind \in Registered
        /\ run.step <= Len(Phases)
    BY <1>0 DEF TypeOK, ControlState, RunInPlace
  <2> QED BY <2>1, RunFields, StepTyped DEF Phases
<1>1. ASSUME run' # None => /\ run # None /\ run'.cmd = run.cmd
                            /\ run'.state = run.state
                            /\ run'.step = run.step
                            /\ run'.events = run.events
      PROVE  EventsInShare'
  BY <1>1 DEF EventsInShare, Share
<1>2. ASSUME NEW c \in Commands, NEW n \in 0..2, BeginRun(c, n), run = None
      PROVE  EventsInShare'
  <2>1. CASE run' = NewRun(c, n)
    <3>1. run'.events <= 2 /\ run'.state = "Arming"
      BY <2>1 DEF NewRun
    <3>2. run'.events \in Nat
      BY <2>1 DEF NewRun
    <3> QED BY <3>1, <3>2 DEF EventsInShare, Share
  <2>2. CASE run' = run
    BY <1>1, <1>2, <2>2
  <2> QED BY <1>2, <2>1, <2>2 DEF BeginRun
<1>3. CASE StartPending
  <2>1. Head(pending) \in Commands
    BY <1>3 DEF StartPending, TypeOK
  <2> QED BY <1>2, <1>3, <2>1 DEF StartPending
<1>4. CASE ReceiveCommand
  <2>1. Head(rx) \in Commands /\ run = None
    BY <1>4 DEF ReceiveCommand, TypeOK, ControlState
  <2> QED BY <1>1, <1>2, <1>4, <2>1 DEF ReceiveCommand
<1>5. CASE StartHeld
  <2>1. held \in Commands /\ run = None
    BY <1>5 DEF StartHeld, TypeOK, ControlState
  <2> QED BY <1>2, <1>5, <2>1 DEF StartHeld
<1>6. CASE DelayPending \/ AwaitCommand \/ Wake \/ PollRail \/ SampleRecovery
           \/ Pause \/ FinishRun \/ ControlLinkLost
  BY <1>1, <1>6 DEF DelayPending, AwaitCommand, Wake, PollRail, SampleRecovery,
                    Pause, FinishRun, ControlLinkLost
<1>7. CASE RetryRun
  <2>1. run # None
    BY <1>7 DEF RetryRun, Polling
  <2>2. run'.state = "Arming" /\ run'.events = LineCount
    BY <1>0, <1>7, <2>1, Retried DEF RetryRun
  <2> QED BY <2>2 DEF EventsInShare, Share
<1>8. CASE GiveUp
  <2>1. run # None /\ run.state \notin Terminal
    BY <1>8 DEF GiveUp, Polling
  <2>2. run' = Ended(run, "Error", LineCount) /\ "Error" \in SequenceStates
    BY <1>8 DEF GiveUp, SequenceStates
  <2>3. /\ run'.cmd = run.cmd /\ run'.state = "Error"
        /\ run'.events = run.events + LineCount
    <3>1. run \in SequenceRuns /\ LineCount \in Nat
      BY <1>0, <2>1
    <3> HIDE DEF LineCount
    <3> QED BY <2>2, <3>1, EndedRun
  <2>4. run.events <= LineCount + Len(Phases)
    BY <1>0, <2>1 DEF EventsInShare, Share, Phases, Terminal, SequenceStates
  <2> QED BY <1>0, <2>1, <2>3, <2>4 DEF EventsInShare, Share, Phases
<1>9. ASSUME NEW i \in Nat \ {0}, EnterStep(i), run # None,
             i - 1 <= Len(Phases), run.events <= LineCount + (i - 1)
      PROVE  EventsInShare'
  <2>1. run'.cmd = run.cmd
    BY <1>0, <1>9, EnterStepEffect
  <2>2. CASE /\ run'.state = "Executing" /\ run'.step = i
             /\ run'.events = run.events + 1
    BY <1>0, <1>9, <2>1, <2>2 DEF EventsInShare, Share
  <2>3. CASE /\ i > Len(Phases) /\ run'.state = "Cooldown"
             /\ run'.events = run.events
    BY <1>0, <1>9, <2>1, <2>3 DEF EventsInShare, Share, Phases
  <2>4. CASE /\ i > Len(Phases) /\ run'.state = "Complete"
             /\ run'.events = run.events + 1
    BY <1>0, <1>9, <2>1, <2>4, SMTT(30) DEF EventsInShare, Share, Phases
  <2> QED BY <1>0, <1>9, <2>2, <2>3, <2>4, EnterStepEffect
<1>10. CASE Arm
  <2>1. run # None /\ run.state = "Arming"
    BY <1>10 DEF Arm, ControlState
  <2>2. run.events <= LineCount + (1 - 1) /\ 1 - 1 <= Len(Phases)
    BY <1>0, <2>1 DEF EventsInShare, Share
  <2> QED BY <1>9, <1>10, <2>1, <2>2 DEF Arm
<1>11. CASE FinishStep
  <2>1. run # None /\ run.state = "Executing"
    BY <1>11 DEF FinishStep, ControlState
  <2>2. /\ run.step + 1 \in Nat \ {0} /\ EnterStep(run.step + 1)
        /\ run.step + 1 - 1 = run.step
    BY <1>0, <1>11, <2>1 DEF FinishStep
  <2>3. run.events <= LineCount + run.step
    BY <2>1 DEF EventsInShare, Share
  <2> QED BY <1>0, <1>9, <2>1, <2>2, <2>3
<1>12. CASE CompleteRun
  <2>1. run # None /\ run.state = "Cooldown"
    BY <1>12 DEF CompleteRun, ControlState
  <2>2. run' = Ended(run, "Complete", 1) /\ "Complete" \in SequenceStates
    BY <1>12 DEF CompleteRun, SequenceStates
  <2>3. /\ run'.cmd = run.cmd /\ run'.state = "Complete"
        /\ run'.events = run.events + 1
    <3>1. run \in SequenceRuns /\ 1 \in Nat
      BY <1>0, <2>1
    <3> QED BY <2>2, <3>1, EndedRun
  <2>4. run.events <= LineCount + Len(Phases)
    BY <2>1 DEF EventsInShare, Share, Phases
  <2> QED BY <1>0, <2>1, <2>3, <2>4 DEF EventsInShare, Share, Phases
<1>13. CASE ControlLinkAttached \/ RailChange
            \/ \E k \in Kinds, d \in Delays, r \in Overrides : Submit(k, d, r)
  BY <1>1, <1>13 DEF ControlLinkAttached, RailChange, Submit, taskVars
<1>14. CASE Tick
  <2>1. CASE run = None
    BY <1>1, <1>14, <2>1 DEF Tick
  <2>2. CASE run # None
    <3>1. /\ run'.cmd = run.cmd /\ run'.step = run.step
          /\ run'.state = run.state /\ run'.events = run.events
      BY <1>0, <1>14, <2>2 DEF Tick, SequenceRuns
    <3> QED BY <1>1, <2>2, <3>1
  <2> QED BY <2>1, <2>2
<1>15. CASE UNCHANGED vars
  BY <1>1, <1>15 DEF vars, taskVars
<1> QED BY <1>3, <1>4, <1>5, <1>6, <1>7, <1>8, <1>10, <1>11, <1>12, <1>13,
           <1>14, <1>15 DEF Next, Task, Drive, Environment

-----------------------------------------------------------------------------
(* The link. *)

DetachedNotPending == ~linkUp => pending = <<>>

LEMMA DetachedStep ==
  TypeOK /\ ControlState /\ DetachedNotPending /\ [Next]_vars
    => DetachedNotPending'
<1> SUFFICES ASSUME TypeOK, ControlState, DetachedNotPending, [Next]_vars,
                    ~linkUp'
             PROVE  pending' = <<>>
  BY DEF DetachedNotPending
<1>1. CASE ControlLinkLost
  BY <1>1 DEF ControlLinkLost, ReleaseAll, DrainPending
<1>2. CASE ControlLinkAttached
  BY <1>2 DEF ControlLinkAttached
<1>3. CASE linkUp' = linkUp
  <2>1. pending = <<>> /\ run = None
    BY <1>3 DEF DetachedNotPending, ControlState, RunInPlace
  <2>2. CASE Task
    BY <2>1, <2>2 DEF Task, Drive, StartPending, DelayPending, AwaitCommand,
         ReceiveCommand, StartHeld, Wake, FinishRun, PollRail, RetryRun, GiveUp,
         SampleRecovery, Arm, FinishStep, CompleteRun, Pause, Polling,
         ControlState
  <2>3. CASE RailChange \/ UNCHANGED vars
             \/ \E k \in Kinds, d \in Delays, r \in Overrides : Submit(k, d, r)
    BY <2>1, <2>3 DEF RailChange, Submit, vars, taskVars
  <2>4. CASE Tick
    <3>1. pending' \in Seq(Commands) /\ Len(pending') = Len(pending)
      BY <2>4, QueueSooner DEF Tick, TypeOK
    <3> QED BY <2>1, <3>1, EmptySeq
  <2> QED BY <1>1, <1>2, <2>2, <2>3, <2>4 DEF Next, Environment
<1>4. Task \/ RailChange \/ Tick \/ UNCHANGED vars
      \/ (\E k \in Kinds, d \in Delays, r \in Overrides : Submit(k, d, r))
      => linkUp' = linkUp
  BY DEF Task, Drive, StartPending, DelayPending, AwaitCommand, ReceiveCommand,
     StartHeld, Wake, FinishRun, PollRail, RetryRun, GiveUp, SampleRecovery,
     Arm, FinishStep, CompleteRun, Pause, RailChange, Tick, Submit, vars
<1> QED BY <1>1, <1>2, <1>3, <1>4 DEF Next, Environment

-----------------------------------------------------------------------------
(* The theorems. *)

(* The inductive invariant: types and control state first, then each       *)
(* safety invariant, strengthened where it has to be, on top of them.      *)
IInv ==
  /\ TypeOK
  /\ ControlState
  /\ StrapsFollowTheRun
  /\ StatusTellsOfTheWait
  /\ RetriesWithinBudget
  /\ EventsInShare
  /\ DetachedNotPending

LEMMA InitIInv == Init => IInv
<1> SUFFICES ASSUME Init PROVE IInv
  OBVIOUS
<1>1. run = None /\ straps = {} /\ linkUp
  BY DEF Init
<1>2. /\ StrapsFollowTheRun /\ StatusTellsOfTheWait /\ RetriesWithinBudget
      /\ EventsInShare /\ DetachedNotPending
  BY <1>1 DEF StrapsFollowTheRun, StatusTellsOfTheWait, RetriesWithinBudget,
              EventsInShare, DetachedNotPending
<1> QED BY <1>2, InitTyped, InitControl DEF IInv

LEMMA NextIInv == IInv /\ [Next]_vars => IInv'
  BY TypeStep, ControlStep, StrapsStep, WaitStep, RetriesStep, EventsStep,
     DetachedStep DEF IInv

THEOREM IInvHolds == Spec => []IInv
  BY InitIInv, NextIInv, PTL DEF Spec

(* Every variable keeps its type: no index leaves the template, no counter *)
(* goes below zero, no command of another shape reaches the task.          *)
THEOREM TypeCorrect == Spec => []TypeOK
<1>1. IInv => TypeOK
  BY DEF IInv
<1> QED BY <1>1, IInvHolds, PTL

(* The task finds a run, or none, wherever its code relies on it.          *)
THEOREM ControlStateHolds == Spec => []ControlState
<1>1. IInv => ControlState
  BY DEF IInv
<1> QED BY <1>1, IInvHolds, PTL

(* Whatever brown-outs, link losses and queued commands do, the lines      *)
(* driven low are the ones the active run holds at its current step, for   *)
(* every registry whose templates hand the lines back.                     *)
THEOREM StrapsSafe == Spec => []StrapsFollowTheRun
<1>1. IInv => StrapsFollowTheRun
  BY DEF IInv
<1> QED BY <1>1, IInvHolds, PTL

(* While a run drives the lines, the status cell and the run's own flag    *)
(* say whether its step waits for bridge activity, whatever run before it  *)
(* was cut short while it waited.                                          *)
THEOREM StatusTellsTruly == Spec => []StatusTellsOfTheWait
<1>1. IInv => StatusTellsOfTheWait
  BY DEF IInv
<1> QED BY <1>1, IInvHolds, PTL

(* No run is retried beyond its budget, or fails before it is used up.     *)
THEOREM RetriesBounded == Spec => []RetriesWithinBudget
<1>1. IInv => RetriesWithinBudget
  BY DEF IInv
<1> QED BY <1>1, IInvHolds, PTL

(* emitted_events is large enough for every template of at most            *)
(* MaxEmittedEvents - 2 * LineCount - 2 steps, the loss of the link        *)
(* included unless the run has failed already; and then still for the      *)
(* disconnect itself.                                                      *)
THEOREM EventsFit == Spec => []NoEventDropped
<1>1. IInv => NoEventDropped
  BY ShareFits DEF IInv
<1> QED BY <1>1, IInvHolds, PTL

(* After the loss of the link is reported nothing is active, driven or     *)
(* pending until it is back.                                               *)
THEOREM DetachedSafe == Spec => []DetachedIsQuiet
<1>1. IInv => DetachedIsQuiet
  BY DEF IInv, DetachedIsQuiet, DetachedNotPending, ControlState, RunInPlace,
         StrapsFollowTheRun
<1> QED BY <1>1, IInvHolds, PTL
=============================================================================
