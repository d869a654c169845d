------------------------- MODULE StrapOrchestrator -------------------------
(***************************************************************************)
(* The strap orchestrator task: firmware/src/straps/orchestrator.rs over   *)
(* the run bookkeeping of controller-core/src/orchestrator/mod.rs.         *)
(*                                                                         *)
(* All tasks of the firmware share one cooperative executor, so another    *)
(* task runs only while this one is suspended at an await.  `pc' names     *)
(* the point the task is at: "loop", "drive" and "recover" are points of   *)
(* running code, the members of Suspended are its awaits.                  *)
(*                                                                         *)
(* Instants are kept as the time left until they are reached (0 once they  *)
(* have passed), in ticks of the power sample period, because the code     *)
(* only ever asks whether an instant has been reached.                     *)
(***************************************************************************)
EXTENDS Naturals, Sequences

CONSTANTS
  None,             \* an absent Option
  Lines,            \* the strap lines
  Kinds,            \* the sequence kinds a command can name
  Template,         \* the template registry: a function on some of Kinds
  Delays,           \* the start_after values of commands (0: none)
  Overrides,        \* the retry_override values of commands (or None)
  QueueDepth,       \* COMMAND_QUEUE_DEPTH, of the channel and of `pending'
  Holdoff,          \* PowerMonitor::stable_holdoff
  DebugAssertions,  \* are debug_assert! arguments evaluated in this build?
  LinkNotices,      \* does the embedding report the control link?
  MaxCommands       \* bound on the commands submitted

DefaultRetryBudget == 1     \* DEFAULT_RETRY_BUDGET
MaxEmittedEvents   == 16    \* MAX_EMITTED_EVENTS
PollPeriod         == 1     \* the larger of sample_interval and 1 ms

Registered == DOMAIN Template

StrapSteps ==
  [line : Lines, action : {"AssertLow", "ReleaseHigh"}, hold : Nat,
   completion : {"AfterDuration", "OnBridgeActivity"}]

Templates ==
  [phases : Seq(StrapSteps), cooldown : Nat, maxRetries : Nat \cup {None}]

ASSUME ConstantsAssumption ==
  /\ Template \in [Registered -> Templates]
  /\ Delays \subseteq Nat
  /\ Overrides \subseteq Nat \cup {None}
  /\ QueueDepth \in Nat \ {0}
  /\ Holdoff \in Nat
  /\ DebugAssertions \in BOOLEAN
  /\ LinkNotices \in BOOLEAN
  /\ MaxCommands \in Nat

-----------------------------------------------------------------------------
(* A command carries the time left until requested_at + start_after. *)
Commands ==
  [id : Nat \ {0}, kind : Kinds, wait : Nat, retries : Overrides]

SequenceStates == {"Arming", "Executing", "Cooldown", "Complete", "Error"}
Terminal       == {"Complete", "Error"}

SequenceRuns ==
  [cmd : Commands,
   state : SequenceStates,
   step : Nat,              \* current_step_index, 0 when there is none
   retry : Nat,             \* retry_count
   waiting : BOOLEAN,       \* waiting_on_bridge
   stepLeft : Nat,          \* time to step_deadline
   coolLeft : Nat,          \* time to cooldown_deadline
   events : Nat]            \* telemetry ids offered to emitted_events

RejectionReasons == {"Busy", "MissingTemplate", "ControlLinkLost"}
Rejections == [id : Nat \ {0}, reason : RejectionReasons]

ASSUME NoneAssumption ==
  /\ None \notin Nat
  /\ None \notin Commands
  /\ None \notin SequenceRuns
  /\ None \notin Rejections

VARIABLES
  rx,             \* command_rx, the channel fed by the REPL task
  pending,        \* pending_commands
  held,           \* the command `run' received and is delaying, or None
  run,            \* active_run
  straps,         \* the lines driven low
  linkUp,         \* control_link_attached
  lastRejection,  \* last_rejection
  recovering,     \* recovering_power
  bridgeWaiting,  \* the BRIDGE_WAITING status cell
  anchor,         \* time since first_stable in await_power_recovery, or None
  timer,          \* time left on the Timer the task awaits
  pc,             \* where the task is
  rail,           \* what the power monitor's next poll will say
  issued          \* number of commands submitted so far

taskVars == <<pending, held, run, straps, lastRejection, recovering,
              bridgeWaiting, anchor, timer, pc>>
vars == <<rx, taskVars, linkUp, rail, issued>>

Suspended == {"receive", "heldDelay", "queueDelay", "pace", "recoveryPace"}
RailStates == {"Stable", "BrownOut", "Unknown"}

TypeOK ==
  /\ rx \in Seq(Commands)
  /\ pending \in Seq(Commands)
  /\ held \in Commands \cup {None}
  /\ run \in SequenceRuns \cup {None}
  /\ straps \subseteq Lines
  /\ linkUp \in BOOLEAN
  /\ lastRejection \in Rejections \cup {None}
  /\ recovering \in BOOLEAN
  /\ bridgeWaiting \in BOOLEAN
  /\ anchor \in Nat \cup {None}
  /\ timer \in Nat
  /\ pc \in Suspended \cup {"loop", "drive", "recover"}
  /\ rail \in RailStates
  /\ issued \in 0..MaxCommands

(* with_components: every strap is released and the link counts as up. *)
Init ==
  /\ rx = <<>> /\ pending = <<>> /\ held = None
  /\ run = None
  /\ straps = {}
  /\ linkUp = TRUE
  /\ lastRejection = None
  /\ recovering = FALSE
  /\ bridgeWaiting = FALSE
  /\ anchor = None
  /\ timer = 0
  /\ pc = "loop"
  /\ rail \in RailStates
  /\ issued = 0

-----------------------------------------------------------------------------
(* Helpers. *)
LessUnsaturated(n) == n - 1     \* mutant: an instant in the past wraps

Less(n) == IF n = 0 THEN 0 ELSE n - 1

Rejection(c, reason) == [id |-> c.id, reason |-> reason]

(* retry_budget_for *)
RetryBudget(c) ==
  IF c.retries # None THEN c.retries
  ELSE IF Template[c.kind].maxRetries # None THEN Template[c.kind].maxRetries
  ELSE DefaultRetryBudget

(* SequenceRun::new, with the telemetry ids start_queued_command tracks. *)
NewRun(c, tracked) ==
  [cmd |-> c, state |-> "Arming", step |-> 0, retry |-> 0, waiting |-> FALSE,
   stepLeft |-> 0, coolLeft |-> 0, events |-> tracked]

LineCount == 4

RetriedRunAppends(r) ==         \* mutant: emitted_events is not cleared
  [NewRun(r.cmd, r.events + LineCount) EXCEPT !.retry = r.retry + 1]

(* begin_retry: the bookkeeping starts over, the retry counter advances.   *)
(* release_all_straps then tracks one event for each line.                 *)
RetriedRun(r) == [NewRun(r.cmd, LineCount) EXCEPT !.retry = r.retry + 1]

(* fail_run and complete_run, and the telemetry ids tracked on the way. *)
Ended(r, state, tracked) == [r EXCEPT !.state = state, !.events = @ + tracked]

(* The run notify_control_link_lost leaves to finish_run: the disconnect   *)
(* and the release of every line are offered to it before it is discarded. *)
AbortedRun(r) == Ended(r, "Error", 1 + LineCount)

Phases == Template[run.cmd.kind].phases

(* A strap's level after it is driven. *)
Driven(step, low) ==
  IF step.action = "AssertLow" THEN low \cup {step.line} ELSE low \ {step.line}

ReleaseButPower == straps' = straps \cap {"Pwr"}     \* mutant: one line is missed

(* release_all_straps *)
ReleaseAll == straps' = {}

-----------------------------------------------------------------------------
RoomForOneMore == QueueDepth + 1 - Len(pending)     \* mutant: off by one

Room == QueueDepth - Len(pending)
Collected == SubSeq(rx, 1, IF Len(rx) < Room THEN Len(rx) ELSE Room)

CollectKeepsNewest ==     \* mutant: a full queue drops its oldest command
  LET all == pending \o rx
  IN /\ rx' = <<>>
     /\ pending' = IF Len(all) <= QueueDepth THEN all
                   ELSE SubSeq(all, Len(all) - QueueDepth + 1, Len(all))
     /\ UNCHANGED lastRejection

(* collect_pending_commands: empty the channel into `pending'; what does   *)
(* not fit is rejected as busy, and last_rejection keeps the latest.  The  *)
(* push_back is the argument of a debug_assert!, so a build without debug  *)
(* assertions takes the command off the channel and stores it nowhere.     *)
Collect ==
  /\ rx' = <<>>
  /\ IF ~DebugAssertions /\ linkUp /\ Room > 0
     THEN UNCHANGED <<pending, lastRejection>>
     ELSE /\ pending' = IF linkUp THEN pending \o Collected ELSE pending
          /\ lastRejection' =
               IF ~linkUp /\ rx # <<>>
               THEN Rejection(rx[Len(rx)], "ControlLinkLost")
               ELSE IF Len(rx) > Room
               THEN Rejection(rx[Len(rx)], "Busy")
               ELSE lastRejection

(* start_queued_command and begin_run, at a point with no active run (the  *)
(* only points `run' calls it from, so the busy branch is not reached).    *)
BeginRun(c, tracked) ==
  \/ /\ linkUp
     /\ c.kind \in Registered
     /\ run' = NewRun(c, tracked)
     /\ recovering' = FALSE
     /\ lastRejection' = None
  \/ /\ ~linkUp
     /\ lastRejection' = Rejection(c, "ControlLinkLost")
     /\ UNCHANGED <<run, recovering>>
  \/ /\ linkUp
     /\ c.kind \notin Registered
     /\ lastRejection' = Rejection(c, "MissingTemplate")
     /\ UNCHANGED <<run, recovering>>

-----------------------------------------------------------------------------
(* The loop of `run'. *)

(* A queued command whose time has come is started. *)
StartPending ==
  /\ pc = "loop" /\ run = None /\ pending # <<>>
  /\ Head(pending).wait = 0
  /\ pending' = Tail(pending)
  /\ BeginRun(Head(pending), 2)
  /\ UNCHANGED <<rx, held, straps, linkUp, bridgeWaiting, anchor, timer, pc,
                 rail, issued>>

RequeuedNever == Tail(pending)     \* mutant: the command is not put back

(* The push_front of a command that is not due is inside a debug_assert!.  *)
Requeued == IF DebugAssertions THEN pending ELSE Tail(pending)

(* It is put back, and the task sleeps until it is due.                    *)
DelayPending ==
  /\ pc = "loop" /\ run = None /\ pending # <<>>
  /\ Head(pending).wait > 0
  /\ pending' = Requeued
  /\ timer' = Head(pending).wait
  /\ pc' = "queueDelay"
  /\ UNCHANGED <<rx, held, run, straps, linkUp, lastRejection, recovering,
                 bridgeWaiting, anchor, rail, issued>>

AwaitCommandPastPending ==     \* mutant: a delayed command is overtaken
  /\ pc = "loop" /\ run = None
  /\ pending # <<>> => Head(pending).wait > 0
  /\ pc' = "receive"
  /\ UNCHANGED <<rx, pending, held, run, straps, linkUp, lastRejection,
                 recovering, bridgeWaiting, anchor, timer, rail, issued>>

AwaitCommand ==
  /\ pc = "loop" /\ run = None /\ pending = <<>>
  /\ pc' = "receive"
  /\ UNCHANGED <<rx, pending, held, run, straps, linkUp, lastRejection,
                 recovering, bridgeWaiting, anchor, timer, rail, issued>>

(* The command goes straight from the channel to a run, or is held in a    *)
(* local while its delay runs; nothing is collected meanwhile.             *)
ReceiveCommand ==
  /\ pc = "receive" /\ rx # <<>>
  /\ rx' = Tail(rx)
  /\ \/ /\ Head(rx).wait = 0
        /\ BeginRun(Head(rx), 1)
        /\ pc' = "loop"
        /\ UNCHANGED <<held, timer>>
     \/ /\ Head(rx).wait > 0
        /\ held' = Head(rx)
        /\ timer' = Head(rx).wait
        /\ pc' = "heldDelay"
        /\ UNCHANGED <<run, recovering, lastRejection>>
  /\ UNCHANGED <<pending, straps, linkUp, bridgeWaiting, anchor, rail, issued>>

StartHeld ==
  /\ pc = "heldDelay" /\ timer = 0
  /\ BeginRun(held, 1)
  /\ held' = None
  /\ pc' = "loop"
  /\ UNCHANGED <<rx, pending, straps, linkUp, bridgeWaiting, anchor, timer,
                 rail, issued>>

WakeToLoop ==     \* mutant: the wait for the rail ends with its first pause
  /\ timer = 0
  /\ pc \in {"queueDelay", "pace", "recoveryPace"} /\ pc' = "loop"
  /\ UNCHANGED <<rx, pending, held, run, straps, linkUp, lastRejection,
                 recovering, bridgeWaiting, anchor, timer, rail, issued>>

Wake ==
  /\ timer = 0
  /\ \/ pc \in {"queueDelay", "pace"} /\ pc' = "loop"
     \/ pc = "recoveryPace" /\ pc' = "recover"
  /\ UNCHANGED <<rx, pending, held, run, straps, linkUp, lastRejection,
                 recovering, bridgeWaiting, anchor, timer, rail, issued>>

-----------------------------------------------------------------------------
(* process_active_run, from the top of the loop to drive_active_run. *)

FinishRun ==
  /\ pc = "loop" /\ run # None /\ run.state \in Terminal
  /\ Collect
  /\ run' = None
  /\ recovering' = FALSE
  /\ UNCHANGED <<held, straps, linkUp, bridgeWaiting, anchor, timer, pc, rail,
                 issued>>

Polling == pc = "loop" /\ run # None /\ run.state \notin Terminal

PollRail ==
  /\ Polling
  /\ rail # "BrownOut"
  /\ Collect
  /\ pc' = "drive"
  /\ UNCHANGED <<held, run, straps, linkUp, recovering, bridgeWaiting, anchor,
                 timer, rail, issued>>

RetriesLeftOneMore ==     \* mutant: <= for <
  run.retry <= RetryBudget(run.cmd)

RetriesLeft == run.retry < RetryBudget(run.cmd)

(* handle_brown_out with budget left: start over, release everything, and  *)
(* wait for the rail.                                                      *)
RetryRun ==
  /\ Polling
  /\ rail = "BrownOut"
  /\ RetriesLeft
  /\ Collect
  /\ run' = RetriedRun(run)
  /\ ReleaseAll
  /\ recovering' = TRUE
  /\ anchor' = None
  /\ pc' = "recover"
  /\ UNCHANGED <<held, linkUp, bridgeWaiting, timer, rail, issued>>

(* With the budget used up the run fails; it is driven once more, to no    *)
(* effect, and finished by the next iteration.                             *)
GiveUp ==
  /\ Polling
  /\ rail = "BrownOut"
  /\ ~RetriesLeft
  /\ Collect
  /\ run' = Ended(run, "Error", LineCount)
  /\ ReleaseAll
  /\ pc' = "drive"
  /\ UNCHANGED <<held, linkUp, recovering, bridgeWaiting, anchor, timer, rail,
                 issued>>

StableForRestarting ==     \* mutant: every sample restarts the hold-off
  IF rail = "BrownOut" THEN None ELSE 0

StableForForgiving ==     \* mutant: a brown-out does not clear first_stable
  IF rail # "BrownOut" /\ anchor = None THEN 0 ELSE anchor

(* How long the samples have been good, None after a brown-out: first_stable *)
(* against now.  Any sample that is not a brown-out, an unknown one          *)
(* included, counts as stable.                                               *)
StableFor ==
  IF rail = "BrownOut" THEN None ELSE IF anchor = None THEN 0 ELSE anchor

(* One turn of await_power_recovery. *)
SampleRecovery ==
  /\ pc = "recover"
  /\ Collect
  /\ LET settled == StableFor # None /\ StableFor >= Holdoff
     IN /\ anchor' = IF settled THEN None ELSE StableFor
        /\ recovering' = ~settled
        /\ pc' = IF settled THEN "loop" ELSE "recoveryPace"
        /\ timer' = IF settled THEN timer ELSE PollPeriod
  /\ UNCHANGED <<held, run, straps, linkUp, bridgeWaiting, rail, issued>>

-----------------------------------------------------------------------------
(* drive_active_run: advance_run_state until it reports no progress. *)

StartStepLatches(i) ==     \* mutant: the cell is set, and never cleared
  LET step == Phases[i]
      onBridge == step.completion = "OnBridgeActivity"
  IN /\ run' = [run EXCEPT !.state = "Executing", !.step = i,
                           !.waiting = onBridge,
                           !.stepLeft = IF onBridge THEN 0 ELSE step.hold,
                           !.events = @ + 1]
     /\ straps' = Driven(step, straps)
     /\ bridgeWaiting' = (bridgeWaiting \/ onBridge)
     /\ UNCHANGED <<timer, pc>>

(* start_step *)
StartStep(i) ==
  LET step == Phases[i]
      onBridge == step.completion = "OnBridgeActivity"
  IN /\ run' = [run EXCEPT !.state = "Executing", !.step = i,
                           !.waiting = onBridge,
                           !.stepLeft = IF onBridge THEN 0 ELSE step.hold,
                           !.events = @ + 1]
     /\ straps' = Driven(step, straps)
     /\ bridgeWaiting' = onBridge
     /\ UNCHANGED <<timer, pc>>

(* begin_cooldown; a template without a cooldown completes at once. *)
BeginCooldown ==
  LET cooldown == Template[run.cmd.kind].cooldown
  IN /\ run' = [run EXCEPT !.state = IF cooldown = 0 THEN "Complete"
                                     ELSE "Cooldown",
                           !.step = 0, !.coolLeft = cooldown,
                           !.events = IF cooldown = 0 THEN @ + 1 ELSE @]
     /\ pc' = IF cooldown = 0 THEN "drive" ELSE "pace"
     /\ timer' = IF cooldown = 0 THEN timer ELSE PollPeriod
     /\ UNCHANGED <<straps, bridgeWaiting>>

EnterStep(i) == IF i <= Len(Phases) THEN StartStep(i) ELSE BeginCooldown

Arm ==
  /\ pc = "drive" /\ run.state = "Arming"
  /\ EnterStep(1)
  /\ UNCHANGED <<rx, pending, held, linkUp, lastRejection, recovering, anchor,
                 rail, issued>>

StepDoneEarly ==     \* mutant: the step's deadline is not looked at
  Phases[run.step].completion = "AfterDuration"

(* A step that completes on bridge activity is never done: drive_active_run *)
(* has no arm for it that advances.                                         *)
StepDone ==
  Phases[run.step].completion = "AfterDuration" /\ run.stepLeft = 0

FinishStep ==
  /\ pc = "drive" /\ run.state = "Executing"
  /\ StepDone
  /\ EnterStep(run.step + 1)
  /\ UNCHANGED <<rx, pending, held, linkUp, lastRejection, recovering, anchor,
                 rail, issued>>

CompleteRunEarly ==     \* mutant: the cooldown is not waited for
  /\ pc = "drive" /\ run.state = "Cooldown"
  /\ run' = Ended(run, "Complete", 1)
  /\ UNCHANGED <<rx, pending, held, straps, linkUp, lastRejection, recovering,
                 bridgeWaiting, anchor, timer, pc, rail, issued>>

(* complete_run, from progress_cooldown *)
CompleteRun ==
  /\ pc = "drive" /\ run.state = "Cooldown" /\ run.coolLeft = 0
  /\ run' = Ended(run, "Complete", 1)
  /\ UNCHANGED <<rx, pending, held, straps, linkUp, lastRejection, recovering,
                 bridgeWaiting, anchor, timer, pc, rail, issued>>

(* Nothing to advance: sleep one sample period. *)
Pause ==
  /\ pc = "drive"
  /\ \/ run.state \in Terminal
     \/ run.state = "Executing" /\ ~StepDone
     \/ run.state = "Cooldown" /\ run.coolLeft > 0
  /\ pc' = "pace"
  /\ timer' = PollPeriod
  /\ UNCHANGED <<rx, pending, held, run, straps, linkUp, lastRejection,
                 recovering, bridgeWaiting, anchor, rail, issued>>

-----------------------------------------------------------------------------
DrainNothing == UNCHANGED <<pending, lastRejection>>     \* mutant: no drain

(* Every pending command is rejected, the last one is remembered. *)
DrainPending ==
  /\ pending' = <<>>
  /\ lastRejection' = IF pending = <<>> THEN lastRejection
                      ELSE Rejection(pending[Len(pending)], "ControlLinkLost")

(* notify_control_link_lost and notify_control_link_attached, called by an *)
(* embedding that reports the link, between two iterations of the loop.    *)
(* Of the run, nothing outlives finish_run; what AbortedRun offers it on   *)
(* the way is what NoEventDropped looks at.                                *)
ControlLinkLost ==
  /\ LinkNotices /\ pc = "loop" /\ linkUp
  /\ linkUp' = FALSE
  /\ ReleaseAll
  /\ run' = None
  /\ recovering' = IF run = None THEN recovering ELSE FALSE
  /\ DrainPending
  /\ UNCHANGED <<rx, held, bridgeWaiting, anchor, timer, pc, rail, issued>>

ControlLinkAttached ==
  /\ LinkNotices /\ pc = "loop" /\ ~linkUp
  /\ linkUp' = TRUE
  /\ UNCHANGED <<rx, taskVars, rail, issued>>

-----------------------------------------------------------------------------
(* What the other tasks and the world do while the task is suspended. *)

(* CommandProducer::try_enqueue, when the channel has room. *)
Submit(kind, delay, retries) ==
  /\ pc \in Suspended
  /\ Len(rx) < QueueDepth
  /\ issued < MaxCommands
  /\ issued' = issued + 1
  /\ rx' = Append(rx, [id |-> issued + 1, kind |-> kind, wait |-> delay,
                       retries |-> retries])
  /\ UNCHANGED <<taskVars, linkUp, rail>>

(* Every poll samples the rail anew: two that follow each other without an *)
(* await, at a brown-out (RetryRun, SampleRecovery) or at the end of the   *)
(* hold-off (SampleRecovery, PollRail), need not agree.                    *)
RailChange ==
  /\ rail' \in RailStates \ {rail}
  /\ UNCHANGED <<rx, taskVars, linkUp, issued>>

Sooner(c) == [c EXCEPT !.wait = Less(@)]

Tick ==
  /\ pc \in Suspended
  /\ rx' = [i \in DOMAIN rx |-> Sooner(rx[i])]
  /\ pending' = [i \in DOMAIN pending |-> Sooner(pending[i])]
  /\ held' = IF held = None THEN None ELSE Sooner(held)
  /\ run' = IF run = None THEN None
            ELSE [run EXCEPT !.stepLeft = Less(@), !.coolLeft = Less(@)]
  /\ timer' = Less(timer)
  /\ anchor' = IF anchor = None THEN None
               ELSE IF anchor < Holdoff THEN anchor + 1 ELSE anchor
  /\ UNCHANGED <<straps, linkUp, lastRejection, recovering, bridgeWaiting, pc,
                 rail, issued>>

-----------------------------------------------------------------------------
Drive == Arm \/ FinishStep \/ CompleteRun \/ Pause

Task ==
  \/ StartPending \/ DelayPending \/ AwaitCommand \/ ReceiveCommand
  \/ StartHeld \/ Wake
  \/ FinishRun \/ PollRail \/ RetryRun \/ GiveUp \/ SampleRecovery
  \/ Drive

Environment ==
  \/ \E k \in Kinds, d \in Delays, r \in Overrides : Submit(k, d, r)
  \/ RailChange
  \/ Tick
  \/ ControlLinkLost
  \/ ControlLinkAttached

Next == Task \/ Environment

Spec == Init /\ [][Next]_vars

(* The executor polls every woken task and the clock does not stop; nobody *)
(* makes the host send commands or the rail change.                        *)
FairSpec == Spec /\ WF_vars(Task) /\ WF_vars(Tick)

-----------------------------------------------------------------------------
(* The lines the first i steps of a list leave driven low. *)
HeldAfter(phases, i) ==
  {l \in Lines :
     \E j \in 1..i : /\ phases[j].line = l
                     /\ phases[j].action = "AssertLow"
                     /\ \A m \in (j + 1)..i : phases[m].line # l}

(* Every template hands the lines back released. *)
ASSUME TemplatesRelease ==
  \A k \in Registered :
    HeldAfter(Template[k].phases, Len(Template[k].phases)) = {}

(* No template is so long that the releases of a retry, the steps of one   *)
(* attempt, its end and the loss of the link outgrow emitted_events.       *)
ASSUME TemplatesFit ==
  \A k \in Registered :
    LineCount + Len(Template[k].phases) + 1 + (1 + LineCount)
      <= MaxEmittedEvents

(* A run has an attached link, a registered template and a step of it.     *)
RunInPlace ==
  run # None =>
    /\ linkUp /\ run.cmd.kind \in Registered
    /\ run.step <= Len(Phases)
    /\ run.state = "Executing" => run.step > 0

(* What the task may assume wherever it resumes after an await: a run is   *)
(* in hand exactly where it is used, a command is held only during its own *)
(* delay and then nothing is collected, the wait for the rail belongs to a *)
(* run that was just started over, and neither queue is over its depth.    *)
ControlState ==
  /\ Len(rx) <= QueueDepth /\ Len(pending) <= QueueDepth
  /\ held # None <=> pc = "heldDelay"
  /\ pc \in {"receive", "heldDelay"} => run = None /\ pending = <<>>
  /\ pc = "queueDelay" => run = None
  /\ pc \in {"drive", "recover", "recoveryPace"} => run # None
  /\ recovering <=> pc \in {"recover", "recoveryPace"}
  /\ recovering => run.state = "Arming" /\ run.retry > 0
  /\ RunInPlace

(* At every moment the lines driven low are exactly those the steps the    *)
(* active run has taken so far leave low, and no line is low unless a run  *)
(* is executing: not while it cools down, waits for the rail after a       *)
(* brown-out, has failed, or was aborted by the loss of the control link.  *)
StrapsFollowTheRun ==
  straps = IF run # None /\ run.state = "Executing"
           THEN HeldAfter(Phases, run.step) ELSE {}

(* retry_budget_for bounds the retries of a run, and a run fails only      *)
(* after it used all of them (handle_brown_out).                           *)
RetriesWithinBudget ==
  run # None =>
    /\ run.retry <= RetryBudget(run.cmd)
    /\ run.state = "Error" => run.retry = RetryBudget(run.cmd)

(* track_event drops the ids a full emitted_events has no room for.  None  *)
(* of a run's own is dropped, however often it is retried and whether it   *)
(* completes or fails, and none of what a loss of the link adds while the  *)
(* run has not failed.  A failed run, which waits for one more turn of the *)
(* loop, released its lines once already: if the link is lost just then,   *)
(* the disconnect still fits, but ids of releasing them again may not, and *)
(* the code drops those (AbortedRun of a run with up to 14 ids).           *)
NoEventDropped ==
  run # None =>
    /\ run.events < MaxEmittedEvents
    /\ run.state # "Error" => AbortedRun(run).events <= MaxEmittedEvents

(* Once the link is reported lost nothing is active, driven or queued.     *)
DetachedIsQuiet == ~linkUp => run = None /\ straps = {} /\ pending = <<>>

(* The status cell outlives the runs: a brown-out or the loss of the link  *)
(* ends a recovery without storing into it (begin_retry, fail_run and      *)
(* abort_active_run do not).  As soon as a run drives a line again, what   *)
(* `status' reads is nevertheless the truth about the step it is at, and   *)
(* agrees with the run's own waiting_on_bridge.                            *)
StatusTellsOfTheWait ==
  (run # None /\ run.state = "Executing") =>
    LET waits == Phases[run.step].completion = "OnBridgeActivity"
    IN bridgeWaiting = waits /\ run.waiting = waits

Ids(queue) == [i \in DOMAIN queue |-> queue[i].id]
Backlog ==
  (IF run = None THEN <<>> ELSE <<run.cmd.id>>)
    \o (IF held = None THEN <<>> ELSE <<held.id>>)
    \o Ids(pending) \o Ids(rx)

(* Commands are served in the order the host gave them: at every moment    *)
(* the active run, the held command, the pending queue and the channel     *)
(* line up by age, whatever delays they carry.                             *)
ServedInOrder ==
  \A i, j \in DOMAIN Backlog : i < j => Backlog[i] < Backlog[j]

(* The orchestrator never has more on its hands than its own queue, the    *)
(* channel and one run, however the host times its requests.               *)
BacklogBounded == Len(Backlog) <= 2 * QueueDepth + 1

Outstanding == {Backlog[i] : i \in DOMAIN Backlog}

(* A command the channel accepted leaves the orchestrator only as a        *)
(* finished run, or dropped because the pending queue is full and every    *)
(* command that is kept is older, or because the link is down, or its kind *)
(* has no template (collect_pending_commands, `run').                      *)
NoSilentLoss ==
  [][\A id \in Outstanding \ Outstanding' :
       \/ run # None /\ run.cmd.id = id /\ run.state \in Terminal
       \/ /\ Len(pending') = QueueDepth
          /\ \A kept \in Outstanding' : kept < id
       \/ ~linkUp'
       \/ lastRejection' = [id |-> id, reason |-> "MissingTemplate"]]_vars

(* Every command the channel accepted is eventually finished with, if the  *)
(* rail in the end stops browning out.                                     *)
RailSettles == <>[](rail # "BrownOut")
EveryCommandServed ==
  RailSettles => \A id \in 1..MaxCommands :
                   id \in Outstanding ~> id \notin Outstanding

(* recovery now lets go of REC in the end: once a run waits for bridge      *)
(* activity, REC is eventually released, by the activity or a timeout.     *)
RecoveryReleases == (run # None /\ run.waiting) ~> "Rec" \notin straps
=============================================================================
