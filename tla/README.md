# TLA+ models of the Orin Nano controller

The controller drives four strap lines of a Jetson Orin Nano (RESET, REC, PWR,
APO) from a console on USB, and forwards the Jetson's serial console to a second
USB port. `controller-core` holds the logic shared with the emulator, `firmware`
the Embassy tasks of the STM32G0. This directory models the parts whose
behaviour depends on timing, queues and the order of events, model-checks them
with TLC, and proves with TLAPS that the firmware's tasks are safe for every
value of the constants.

## 1. The system

| component | state | operations | talks to |
|---|---|---|---|
| strap orchestrator task (`firmware/src/straps/orchestrator.rs`) | active run, pending queue, strap levels, link flag, last rejection, brown-out recovery | `run`, `process_active_run` and what they call; `notify_control_link_lost/attached` | command channel (in), power monitor (polled), strap GPIO, status cells |
| run bookkeeping (`controller-core/src/orchestrator/mod.rs`) | `SequenceRun`, retry budget, rejections | `begin_retry`, `retry_budget_for`, ... | the orchestrator |
| templates (`controller-core/src/sequences`) | none | the four step lists | registry of orchestrator and scheduler |
| scheduler and executor (`SequenceScheduler`, `repl/commands.rs`) | next start allowed of each kind | `execute`, `dispatch`, `enqueue_with_flags`, `notify_completed` | command channel (out), REPL, emulator |
| bridge hold helpers (`controller-core/src/orchestrator/mod.rs`) | deadline and waiting flag of a run | `configure_step_timing`, `begin_bridge_wait`, `satisfy_bridge_wait`, `bridge_wait_timed_out` | their tests only |
| power monitor (`VrefintPowerMonitor`, `hw/power.rs`) | last classification | `poll` | ADC, orchestrator |
| UART bridge (`bridge_task.rs`, CDC1 half of `usb_task.rs`, both `bridge/mod.rs`) | two frame queues, activity bus, frames in hand, monitor | three loops, `process_event`, `notify_usb_*` | USB host, Jetson UART |
| REPL transport and session (`repl/mod.rs`, CDC0 half of `usb_task.rs`) | two frame queues, line buffer, discard flag | USB loop, `consume_frame`, `send_bytes` | USB host, executor |
| grammar, catalog, completion | none | parse a line, complete a word | session |
| telemetry recorder | ring of records, next id | `record*` | orchestrator, monitor |
| status cells and formatting | atomics | store, snapshot | all tasks, `status` |
| emulator (`emulator/src`) | scheduler with a queue in memory, status, transcript | `Session`, the key loop | its own console, the transcript file |
| start-up, USB descriptors, GPIO, panic | | | |

All firmware tasks share one cooperative executor: another task runs only while
this one is suspended at an `await`. Nothing is persisted, so there is no crash
recovery to model; a restart is Init.

What is hard in it: three places hold commands (the channel, the pending queue,
the command whose delay `run` is sleeping out) and must not reorder or lose
them; a brown-out or a lost link may come at any turn of a run; deadlines of
steps, cooldowns and hold-offs are polled at the sample period; bounded queues
with blocking sends connect loops in both directions; a `select` abandons
unfinished writes; the console is closed and opened at any time; byte sequences
drive a line editor with a hidden discard flag. `PROJECT.json` lists each hazard
at its line with the properties that cover it.

## 2. The modules

| module | models | correspondence |
|---|---|---|
| `StrapSequences` | `sequences/*` | one list of steps per template, in ms |
| `StrapOrchestrator` | the task and `SequenceRun` | `pc` is the await or the point of `run` the task is at; one action per stretch of code between two awaits or turns of a loop |
| `StrapTimeline` | adds history clocks | how long each line was low or high, time since a brown-out |
| `CommandExecutor` | `execute` and `dispatch` | what a line asks of a scheduler, or the answer it gets without one; on top of `Grammar` |
| `SequenceScheduler`, `Controller` | console and cooldowns in front of the orchestrator | a line is one step, as the REPL has no await between check and enqueue |
| `Emulator` | `emulator/src/session.rs` and the keys of `main.rs` that reach it | reading a line stamps it, a second step handles it and runs its sequence to the end; the clock has ticks, and what is written is in milliseconds, rounded down; each answer branches on whether the transcript could be written |
| `BridgeHold` | the bridge hold helpers | one action per helper that writes |
| `StrapService`, `StrapServiceRefinement` | what the task promises | waiting line, command served, lines low |
| `PowerMonitor` | `VrefintPowerMonitor` | one action, `poll`, with any reading or none |
| `Bridge` | the bridge and its monitor | one program counter per loop, a frame is its number |
| `ReplSession` | console transport and line editor | bytes by what the editor tells apart, the line by its length |
| `Grammar` | `catalog.rs`, `grammar.rs` | the catalog as data, one operator per function of the parser; a line is a sequence of tokens |
| `Completion` | `completion.rs` | one operator per function, over the same catalog |
| `ConsoleLine` | a line being typed and completed | tokens before the cursor and the letters of its word; one action per kind of key; `Sentences` is the language of `contracts/cli-grammar.md`, `Readable` the part of it whose numbers the parser has room for |
| `Telemetry` | `TelemetryRecorder`, event codes | one action per kind of record; the ring next to everything ever recorded |
| `StatusCells` | `firmware/src/status.rs`, `BridgeActivityTracker`, `write_duration`, the pins of `HardwareStrapDriver` | one action per store; a snapshot is an operator |
| `StrapOrchestrator_proofs`, `StrapService_proofs`, `StrapTimeline_proofs`, `Bridge_proofs`, `ReplSession_proofs` | | theorems about the module of that name |
| `Console_proofs` | | theorems about the parser, and about the three modules that use it: `Controller`, `Emulator` and `ConsoleLine` with `Completion` |
| `SequentialParts_proofs` | | theorems about `PowerMonitor`, `BridgeHold`, `Telemetry` and `StatusCells` |
| `QueueLemmas` | | what the proofs about queues and templates need of sequences |
| `MC*` | | values of constants for TLC |
| `MCSequentialParts` | | also puts `PowerMonitor`, `ConsoleLine`, `Telemetry`, `StatusCells`, `Emulator` and `BridgeHold` side by side |

Those six run to their end in the task that calls them and share nothing.
`MCSequentialParts` therefore gives each behaviour to one of them, chosen at the
start, and leaves the variables of the others alone: an interleaving of them
would show nothing more.

Time in `StrapOrchestrator` is kept as what is left until an instant, because
the code only asks whether an instant has passed; `Tick` lowers all of them, and
happens only while the task is suspended. `rail` is what the next poll of the
power monitor will say. It changes freely, also between two polls that the task
makes without an await in between (at a brown-out, and at the end of the
hold-off), so any sequence of samples may come, those of `PowerMonitor` among
them. The result of a `debug_assert!` depends on the build, so the
constant `DebugAssertions` says whether its argument is evaluated.
`LinkNotices` and, in `Bridge`, `Monitored` stand for calls that the modelled
code offers and tests, and that `firmware/src/runtime` never makes: the runs set
them to TRUE to examine that code, and to FALSE where the firmware as it is
started is in question.

An operator whose comment begins with "mutant" is a plausible bug next to the
definition it distorts; no specification uses it.

## 3. The runs

| run | asks | bounds |
|---|---|---|
| `strap_orchestrator` | types; what the task may assume after each await; the lines follow the run; retries and telemetry ids within their limits; silence after link loss; every command is finished with | 2 commands, 2 kinds, real templates, queues of 2, delays of 0 or 2 ticks |
| `strap_service` | service order, the bound on the backlog, no silent loss, the status cell of the bridge wait, refinement of `StrapService` | 4 commands, queues of 1, one kind without a template |
| `strap_timeline` | BS-001 to BS-003, the second between sequences, hold-off | 3 commands of the three kinds without a step that waits for the bridge, queue of 1, clocks saturate at 1 s (5 ticks) |
| `controller` | cooldowns are owed to accepted commands only; the composition refines the orchestrator | 3 commands of all four kinds, out of lines that ask for sequences, carry delays and retries inside and outside 1..3, only read, or do not parse; queue of 1 |
| `sequential_parts` | conversion; hysteresis against the history; lines read as the documented grammar says but for retries beyond 8 bits, errors at the right token, offers that go on with the line and miss nothing, tabs that take nothing back; the newest records in order, with ids, codes and elapsed times; ages as they are written, and the strap mask; the emulator's cooldown is the one it announces, to the millisecond, and its transcript tells all it did; a bridge timeout speaks for the step that waits | 3 samples out of 13 readings and none; up to 6 tokens of 15, one of them behind the first wrong one; 3 records in a ring of 2, ids modulo 2; a cell clock that ends at 10 of 13, with 2 microseconds to the millisecond and 4 milliseconds to the second, 2 straps; 3 lines or tabs of 8 lines, real durations, 2 ticks to the millisecond; timeouts of 0 and 2, holds of 0 to 2 |
| `bridge` | exact delivery both ways; the monitor's lag; delivery happens | 3 frames each way, queues of 1 |
| `repl_session` | the line run is the line typed; answers in order; answers arrive | 4 packets, queues of 1, line of 2, one close |
| `release_queue`, `recovery_now`, `bridge_frozen`, `repl_stuck`, `repl_lockout` | section 6 | |

Why the bounds are enough. Durations are scaled so that order and equality
survive (20, 100 and 200 ms are one tick, 250 ms two, 500 ms three, 1 s five,
the sample period one). Two commands of two kinds are the least with one active
and one queued; four over queues of one fill the channel, the pending queue and
the held place and still leave one to reject. A queue of one is at its limit as
soon as it holds anything, so full and empty both occur with three frames; the
monitor's lag and the stall need `ActivityDepth` + 2 events. A line of two
characters overflows with the third packet. The readings lie on, just above and
just below each threshold, at saturation, at 0 and at the top of the ADC and
u16 ranges. The longest sentence has five tokens, so `MaxTokens` = 5 allows all
of them and one token too many; numbers lie on both sides of `MaxRetries` (255, as
in the code) and of `MaxCount` (300, which stands for the 32 bits of the code and
of the document). Three records overflow a ring of two and make the ids wrap. The
clock of the status cells ends at 10 and time goes on to 13, so frames and
snapshots fall before, at and after its end, and ages in each unit and on its
borders occur; the ratios of the units are constants, 2, 2 and 2 in the run
and 1000, 100 and 10 in the code. In the emulator two ticks make a millisecond,
and at the start a tick may pass, so an instant lies at the beginning of its
millisecond or within it. Later time stops only at the moment a kind becomes
ready and one tick before, the only ones at which an answer can change: a request
then falls into the millisecond it was told to wait for, and still before the
instant. Time may also pass between the stamp of a line and its request. Three
entries are a run, another kind in between, and a request that meets the first
one's cooldown.

Fairness. `WF_vars(Task)` and the like: Embassy's executor polls every woken
task, and an action here is enabled exactly when its await is ready. `Tick` is
fair because the timer runs. Submitting, sending, closing, UART errors and rail
changes are never fair. `EveryCommandServed` assumes that the rail stops
browning out in the end (otherwise retrying for ever is right), and is about the kinds
without a bridge step: `recovery now` is section 6. `JetsonIsHeard` and
`AnswersShown` assume that the host in the end leaves the port open. In the USB
loops the `select` prefers reading; a host that floods the port could starve
writes, which the bound on frames hides.

`CHECK_DEADLOCK FALSE` stands where the bounded inputs run out and everything is
rightly idle (`ReplSession`, `MCSequentialParts`), and in the run that shows the
console stuck.

The window of `repl_session`. A host that leaves at most `Depth` + 1 packets
unprocessed never gets an answer stuck; with one more the two tasks can wait for
each other (`repl_stuck`).

## 4. The proofs

`StrapOrchestrator_proofs` proves, for every registry, queue depth, hold-off,
delay set and bound allowed by the assumptions of the module, the type invariant
and six invariants the runs check. They follow from one inductive invariant
`IInv`. It adds to the checked invariants what they need to carry over a step:

- what is known of the run at each `pc` (`ControlState` with the state and step
  of the run), because an action reads `run` after an await under the assumption
  that it is still there;
- the share of `emitted_events` each phase of a run has used up: `NoEventDropped`
  alone is not inductive, since a step adds to the count. It leaves room for what
  a loss of the link would add (`AbortedRun`: the disconnect and the release of
  every line), except in a run that has failed, which released its lines before;
- that with the link down nothing is pending, because the queue is drained when
  the link goes and not filled while it is down.

`StatusTellsTruly` needs `ControlState` too: what a run says of its wait counts
only while it executes a step, and every way into that state (`EnterStep`) stores
the cell, although a retry, a failure or an abort does not.

`StrapsSafe` also uses `TemplatesRelease` (every template releases what it
lowered) and `EventsFit` uses `TemplatesFit`; both are ASSUMEs about the
registry, evaluated by TLC on the real templates.

`StrapService_proofs` is about the line of commands: the held one, the pending
queue and the channel, one behind the other. `LineStep` shows that, as far as
the line is concerned, each step of the task is one of six moves (a command
joins at the end, the first is taken, the run works on or is finished or cut
short, nothing moves), and everything follows from the moves.

- `ServedInOrder` is not inductive: nothing in it says that the command that
  joins is the newest. `LineInv` adds to `IInv` that what waits is in order,
  newer than what is served, and numbered no higher than what was issued.
- `BacklogBounded` needs from `ControlState` that a task which holds a command
  has neither run nor queue.
- `NoSilentLoss` assumes `DebugAssertions`; without them it is false, and the
  run `release_queue` shows how. That what a full queue drops is the newest
  follows from the order of the line.
- `ImplementsService` assumes besides that nobody reports the control link, as
  in the firmware. The refinement mapping is that of `StrapServiceRefinement`.

`StrapTimeline_proofs` first proves that the history clocks only watch
(`TimelineWatches`), so `IInv` holds with them. For the hold-off the invariant
is `HoldoffWatched`: the anchor of the hold-off is never older than the last
brown-out nor than the release of any line. For the second between sequences it
is `RestOwed`: how long the lines have been high wherever a sequence may begin,
and that the rest of the cooldown makes up for what is missing. Assumed are that
the clocks reach a second and the hold-off (`HorizonAssumption`) and that every
template cools down for a second (`CooldownAssumption`, true of the four real
ones).

`SpecWindows` is about the templates themselves, so `RegistryAssumption` says
that the registry has some or all of the four of `sequences/*.rs`, with any
number of ticks for each of their durations as long as the clocks reach the
longest pulse; nothing else is proved from it. `TemplateSteps` and
`StepsOfPhases` write the lists out. `Holds` and `Due` are a table: which lines
are low at a step of a sequence, and for how long each will have been as it is
when the step is over. `StepFollows` checks it row by row: a step changes its
own line only, what is due at its end was due before it or is its own hold, and
the lines it switches had their time. The invariant `WindowsOwed` follows it:
what a line still lacks of its time is never more than what is left of the step.
It holds also for a step that is driven late, because the deadlines are polled
and nothing assumes they are met at once. `WindowsKept` follows: only `Arm` and
`FinishStep` switch lines while a run is driven.

`Console_proofs` starts with the parser. `Reads(line, command, at)` is the table
of all it accepts: the command, and the number of the token after it;
`Stops(line, at)` tells at which token it refuses a line. One lemma per function
of `grammar.rs` shows that `ParseCommand` agrees with them, and all the rest uses
the tables and never opens the parser again.

- `Controller`: whatever the line, a request that comes out is for one of the
  four kinds, with at most one retry limit, of 1 to 3. So the orchestrator
  accepts every request the console makes, and the composition implements
  `StrapOrchestrator` (`ConsoleDrives`). `CooldownTracksAcceptance` is inductive
  once the clocks are typed. `ConsoleAssumption` says that the four kinds have
  templates, that lines are made of tokens, and that the delays and retry limits
  the orchestrator is given include the ones lines can carry.
- `ConsoleLine`: `LineTyped` is the invariant, that a line is made of tokens
  that can be typed and a word that is a sequence of letters. What is checked
  is then a fact about every such line, not only those the run types.
  `GrammarIsImplemented` compares `Reads` with `Says`, the table of the
  readable sentences of the grammar document, one form after the other
  (`SentencesSplit` separates those that ask for too many retries, and
  `TooManyRetries` follows one of them through the parser).
  `FirstWrongIsNamed` does so with `Begins(line, n)`, the beginnings of
  sentences: the parser stops exactly where the line begins no sentence any
  more. For `OffersContinue` and `NoWordIsMissing`, `Follows(line, c)` lists the
  candidates behind a line, and is compared with the completion and, by putting
  the tokens of the candidate behind the line, with `Begins`. `TabsKeepOptions`
  needs of `Shared` only that the common beginning exists and lies between the
  word and every option. Assumed are that `MaxTokens` is at least 5, the length
  of the longest sentence, that no line end is typed (neither editor lets one
  into a line), that some duration within `MaxCount` can be, and that every word
  of the catalog has a spelling. Of the spellings nothing else: two words may
  even share all their letters.
- `Emulator`: the durations of the four real templates are computed in the
  proof, and none leaves a line low. `RunsInv` relates the cooldowns to the
  history of runs: per kind, the remaining time is that of its last run, and the
  runs are spaced. `SessionIInv` adds the transcript: `EntryTrue` for each entry,
  `Followed` for its neighbour, `RunTold` for each run. `TranscriptTellsAll`
  alone is not inductive, as it does not say that the entry last written is the
  one in hand, nor that a session goes on only if everything so far was
  answered. `MillisIs` and `MillisOrder` are all that is used of rounding down:
  it keeps the order of instants, but not strictly, so a refusal may bear the
  millisecond it names. The only assumptions are that lines are made of tokens
  and not empty and that a millisecond has at least one tick
  (`EmulatorAssumption`): the theorems hold for every set of lines, delays among
  them, for every resolution of the clock, and for sessions of every length.

`Bridge_proofs`: what is in the hands of the loops and in the channels between
them makes up one sequence, of which each loop moves a piece. Jetson to host it
counts up without a gap; host to Jetson a number may be missing only if a UART
error was reported for it. `MonitorKeepsUp` needs `BusInv`: behind every entry
of the bus for a frame of the Jetson there is one for the next frame, up to the
last one reported, so what is still to come never outnumbers the entries behind.

`SequentialParts_proofs`:

- `PowerMonitor`: the conversion fits u32 for every 16-bit calibration,
  reference and reading (`NumeratorFits`), rounds half up and is monotone
  (`ReadingsConvert`), and the classification follows the history
  (`FollowsHistory`) for every configuration with entry below recovery.
- `BridgeHold`: `HoldFollowsTheStep`, for all timeouts and holds. The invariant
  gives the deadline as a function of the step, its time and what was heard.
- `Telemetry`: every event reads back from its code (`CodesDecode`); the ring is
  the end of everything recorded (`RingHoldsTheNewest`) and its elapsed times
  are exact (`ElapsedAddsUp`), for every capacity and every number of ids. The
  invariant `RecorderInv` ties `last_transition_at` to the last strap record,
  also one the ring has forgotten.
- `StatusCells`: `StatusIsTrue`, for every width of the cells, all ratios of the
  units and any of the four straps. `CellsInv` gives each cell as a function of
  the time of the last frame. `MaskInv` says bit by bit that the mask is that of
  the pins; that setting or clearing one bit of the four disturbs no other is a
  matter of cases, each a little arithmetic.

`ReplSession_proofs` proves type correctness, `BufferIsTheLine` and
`AnswersInOrder`, for every packet set, line length, answer size and window. The
last one is not inductive: a frame that a closed console costs is counted when
the host closes it, before the loop drops it, and `Charged` accounts for the
time between.

Only model-checked are `EveryCommandServed`, `HostIsHeard`, `JetsonIsHeard` and
`AnswersShown`: liveness under fairness is out of the prover's reach.

That every finite set of numbers has a least one is derived from the
well-foundedness of the naturals, and induction from that (`LeastNumber`,
`Induction`): the induction theorems of the library take an operator, which the
provers cannot instantiate. It carries the sum over the steps of a template.

## 5. Not modelled, and the plan

Every safety property of the passing runs is proved, so the plan is done but for
what follows.

Abstracted in what is modelled: how the lexer cuts characters into tokens (the
matching engine is a library), the payloads of telemetry records other than the
elapsed time (copies of what the caller passes), the fixed words of answers,
status lines and logs, and drawing on the emulator's terminal. An answer of the
emulator that has several lines counts as written only if all of them were.

Left out: USB descriptors, pin set-up, the registers of the ADC, the panic
handler and board files (no decisions of their own), and start-up, which runs
once and is the Init of the other modules. `reset_cooldown`, the removal of
templates and the debug link flag have no caller or no reader.

## 6. Where the code and its documents disagree

- `release_queue`: without debug assertions, commands that arrive during a run
  are taken off the channel and dropped without a rejection
  (`orchestrator.rs:1206`, and 748 for a delayed one). FR-004 asks that they
  queue.
- `recovery_now`: no branch ends a step that waits for bridge activity, and it
  has no timeout: REC stays low, and nothing else is served.
- `bridge_frozen`: nobody receives from the activity bus, so each bridge loop
  stops once it is full.
- `repl_stuck`: `usb_task.rs:113` and `repl/mod.rs:415` wait for each other when
  a host leaves `Depth` + 2 packets unprocessed.
- `repl_lockout`: rubbing out a line that overflowed, then ending it, leaves
  `drop_input` set for good.

Smaller ones have no run of their own: the property they touch states the
exception, so that it says both what the document asks and what the code does.

- `cli-grammar.md:24` calls an integer "up to 32-bit unsigned"; `parse_integer`
  takes a u8, so `fault recover retries=256` is refused as an invalid integer.
  `LinesAreUnderstood` demands this refusal for exactly those sentences, and the
  reading the document gives for all others.
- `cli-grammar.md:37` (and `data-model.md:68`) leave the buffer unchanged when
  several options match. The firmware's tab does; the emulator's types the
  letters they share (`completion.rs:111`, `main.rs:201`). `TabKeepsOptions`
  holds the firmware to the rule, and both to never taking an option back.
- Behind the keyword `retries` a tab offers `retries=1` again, although
  `catalog.rs:3` says that parser and completion interpret the same structure;
  `OffersContinueTheLine` excepts this case by name.
- `track_event` ignores a full `emitted_events`. A run that failed has released
  its lines and offered up to 14 ids; if the control link is reported lost before
  the loop finishes it, the disconnect still fits, but releasing the lines again
  may offer up to 19 in all, and those over 16 are dropped. `NoEventDropped`
  excepts a loss of the link behind a failure.
- The emulator tells moments in whole milliseconds and compares them at the full
  resolution of its clock. A request in the very millisecond a refusal named may
  be refused again, with the same number. `CooldownAsAnnounced` says "rounded
  down", and does not claim that the named millisecond is late enough.

Four things the models show that no document settles, so no property asks for
them. A retry is given only the hold-off, not the second between sequences
(`SequencesSpaced` says exactly that). The status cell of the bridge wait keeps
its last value between runs, and the voltage in the status is that of the last
run, because the rail is polled only during one. The emulator keeps a cooldown
for each kind and runs a sequence at once, so sequences of different kinds may
overlap in the time it announces, where the firmware would queue them. And the
10 s timeout that the emulator announces for `recovery now` exists only in the
bridge hold helpers, which neither program calls.
