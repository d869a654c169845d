------------------------------ MODULE Emulator ------------------------------
(***************************************************************************)
(* Session of emulator/src/session.rs and the loop of main.rs around it:   *)
(* the same command executor and scheduler as in the firmware, over a      *)
(* queue in memory, with a sequence run to its end in the step that        *)
(* accepts it.  The time it would take is only announced: the cooldown     *)
(* counts from the moment the run would have ended, and the next line may  *)
(* come long before.  Every line and its answer go to a transcript, whose  *)
(* writes may fail; the session is then over.                              *)
(*                                                                         *)
(* The clock runs finer than the milliseconds it is told in.  A line is    *)
(* stamped when it is read, and only once it has been written is the clock *)
(* read again for the request, so time may pass in between.  An answer of  *)
(* several lines is one entry, and is left out if not all of it was        *)
(* written.                                                                *)
(***************************************************************************)
EXTENDS SequenceScheduler, CommandExecutor
Sequence == INSTANCE StrapSequences

CONSTANTS
  TypedLines,     \* the lines that are entered, as tokens
  MaxEntered,     \* bound on the lines and completions of a session
  TicksPerMilli   \* the resolution of HostInstant

\* An empty line is not handled.
ASSUME EmulatorAssumption ==
  /\ MaxEntered \in Nat /\ TicksPerMilli \in Nat \ {0}
  /\ TypedLines \subseteq Seq(Tokens) \ {<<>>}

DefaultQueueDepth == 4     \* DEFAULT_QUEUE_DEPTH

SequenceKind == Sequence!StrapSequenceKind

\* The registry, in milliseconds; "none" is an absent retry limit.
Registry ==
  Sequence!DefaultTemplates([ms \in Sequence!Durations |-> ms], "none")

\* A Duration of milliseconds on the clock, and as_millis.
Ticks(ms)  == ms * TicksPerMilli
Millis(at) == at \div TicksPerMilli

VARIABLES
  session,       \* "open", or "ended" with the process
  clock,         \* ticks since started_at
  reading,       \* has a line been read that is not handled yet?
  stamp,         \* `elapsed' of the line read last, in milliseconds
  readyIn,       \* CooldownTracker: ticks left until each kind is ready
  hostQueue,     \* HostQueue
  commandCount,  \* command_count
  asserted,      \* StatusAccumulator: the lines low, and
  waitingShown,  \*   whether a recovery waits for the bridge
  transcript,    \* the entries written, oldest first
  ran            \* history: the sequences run, with the stamp of the line
                 \* and the instant of the request

emulatorVars == <<session, clock, reading, stamp, readyIn, hostQueue,
                  commandCount, asserted, waitingShown, transcript, ran>>

EmulatorInit ==
  /\ session = "open" /\ clock = 0 /\ reading = FALSE /\ stamp = 0
  /\ readyIn = NoCooldown(SequenceKind) /\ hostQueue = <<>>
  /\ commandCount = 0 /\ asserted = {} /\ waitingShown = FALSE
  /\ transcript = <<>> /\ ran = <<>>

-----------------------------------------------------------------------------
(* The transcript.                                                         *)

Logged(role, says) == [role |-> role, at |-> stamp, says |-> says]

\* `id', `at', `ready' and `queued' are told of a sequence accepted, `low'
\* and `waiting' by the status only.
Answer(answer, kind, id, at, ready, queued) ==
  [answer |-> answer, kind |-> kind, id |-> id, at |-> at, ready |-> ready,
   queued |-> queued, low |-> {}, waiting |-> FALSE]

Plainly(answer) ==
  [Answer(answer, "", 0, 0, 0, 0) EXCEPT
     !.low = IF answer = "Status" THEN asserted ELSE {},
     !.waiting = answer = "Status" /\ waitingShown]

(* append_line of the request has succeeded; record_output of the answer   *)
(* does, or ends the session.                                              *)
Answered(asked, answer) ==
  \/ /\ transcript' = transcript \o <<Logged("Host", asked),
                                      Logged("Emulator", answer)>>
     /\ UNCHANGED session
  \/ /\ transcript' = Append(transcript, Logged("Host", asked))
     /\ session' = "ended"

-----------------------------------------------------------------------------
(* handle_sequence, and the scheduler behind the executor.                 *)

Spacing(kind) == Ticks(Registry[kind].cooldown)

\* sequence_run_duration
RunDuration(kind) ==
  LET steps == Registry[kind].phases
      total[n \in 0..Len(steps)] ==
        IF n = 0 THEN 0 ELSE total[n - 1] + steps[n].hold
  IN total[Len(steps)]

EndsAfterHolds(asked) ==     \* mutant: no start_after
  Ticks(RunDuration(asked.kind))

\* How long after the request the run would end: `completion'.
EndsIn(asked) == Ticks(asked.delay + RunDuration(asked.kind))

(* reserve of the request, then notify_completed. *)
ReservedUntilDone(asked) ==
  Reserve(Reserve(readyIn, asked.kind, 0, Spacing(asked.kind)),
          asked.kind, EndsIn(asked), Spacing(asked.kind))

\* The lines low once every step has driven its own.
LeftLow(steps) ==
  {line \in Sequence!StrapId :
     LET on == {n \in DOMAIN steps : steps[n].line = line}
     IN IF on = {} THEN line \in asserted
        ELSE steps[CHOOSE n \in on : \A m \in on : m <= n].action = "AssertLow"}

\* try_enqueue of HostQueue, and the pop_front when the run is over.
Enqueued(asked) == Append(hostQueue, asked)

EmulatorVerdict(asked) ==
  Verdict(readyIn, asked.kind, Len(hostQueue) < DefaultQueueDepth)

RunToItsEnd(asked) ==
  /\ EmulatorVerdict(asked) = "ok"
  /\ readyIn' = ReservedUntilDone(asked)
  /\ hostQueue' = Tail(Enqueued(asked))
  /\ commandCount' = commandCount + 1
  /\ asserted' = LeftLow(Registry[asked.kind].phases)
  /\ waitingShown' = FALSE
  /\ ran' = Append(ran, [kind |-> asked.kind, stamp |-> stamp, at |-> clock,
                         delay |-> asked.delay])

NothingRuns ==
  UNCHANGED <<readyIn, hostQueue, commandCount, asserted, waitingShown, ran>>

(* The acknowledgement; that of a fault recovery tells its number only.    *)
(* The moments are told in whole milliseconds, rounded down.               *)
Acknowledged(asked) ==
  IF asked.kind = "FaultRecovery"
  THEN Answer("OK", asked.kind, commandCount', 0, 0, 0)
  ELSE Answer("OK", asked.kind, commandCount', Millis(clock),
              Millis(clock + EndsIn(asked) + Spacing(asked.kind)),
              Len(Enqueued(asked)))

HandleSequence(asked) ==
  /\ RunToItsEnd(asked)
  /\ Answered(asked, Acknowledged(asked))

\* describe_schedule_error
HandleRefusal(asked) ==
  LET verdict == EmulatorVerdict(asked)
  IN /\ verdict # "ok"
     /\ NothingRuns
     /\ Answered(asked, Answer(verdict, asked.kind, 0, 0,
                               Millis(clock + readyIn[asked.kind]), 0))

(* A line that does not parse, `status', what is not supported, and help.  *)
HandleAnswer(asked) ==
  /\ NothingRuns
  /\ Answered(asked, Plainly(asked.answer))

RequestLostLate(asked) ==     \* mutant: logged when the run is over
  /\ asked.answer = "" /\ RunToItsEnd(asked)
  /\ session' = "ended" /\ UNCHANGED transcript

(* append_line of the request fails. *)
RequestLost(asked) ==
  /\ NothingRuns
  /\ session' = "ended" /\ UNCHANGED transcript

(* `help' is taken before the executor sees it, but with a topic only if   *)
(* it is written in lower case.                                            *)
Meanings(line) ==
  (IF line[1] = Word("help") THEN {AnswerOnly("Help")} ELSE {})
    \cup (IF line = <<Word("help")>> THEN {} ELSE {Understood(line)})

HandleCommand ==
  \E line \in TypedLines : \E asked \in Meanings(line) :
    \/ RequestLost(asked)
    \/ IF asked.answer # "" THEN HandleAnswer(asked)
       ELSE HandleSequence(asked) \/ HandleRefusal(asked)

(* handle_completion; what it completes is in Completion and ConsoleLine.  *)
HandleCompletion ==
  LET asked == AnswerOnly("Tab")
  IN /\ NothingRuns
     /\ \/ session' = "ended" /\ UNCHANGED transcript
        \/ \E found \in {"NoMatches", "Applied", "Suggestions"} :
             Answered(asked, Plainly(found))

\* exit, quit, Esc, ^C, or ^D on an empty line.
CloseSession ==
  /\ session' = "ended"
  /\ NothingRuns /\ UNCHANGED transcript

LinesLeft == Len(transcript) < 2 * MaxEntered

(* The line is in, and is stamped: started_at.elapsed(). *)
ReadLine ==
  /\ ~reading /\ LinesLeft
  /\ reading' = TRUE /\ stamp' = Millis(clock)
  /\ NothingRuns
  /\ UNCHANGED <<session, clock, transcript>>

AnswerLine ==
  /\ reading /\ reading' = FALSE
  /\ HandleCommand \/ HandleCompletion
  /\ UNCHANGED <<clock, stamp>>

(* Time passes up to the moment a kind is ready, or to just before it; and *)
(* tick by tick in the first millisecond, so that the moments that follow  *)
(* fall anywhere in theirs.  Nothing depends on it after the last line.    *)
Pauses ==
  {passed \in UNION {{readyIn[kind] - 1, readyIn[kind]} :
                      kind \in SequenceKind} : passed > 0}
    \cup {passed \in {1} : clock + 1 < TicksPerMilli}

TimeGoesOn ==
  /\ LinesLeft
  /\ \E passed \in Pauses :
       /\ clock' = clock + passed
       /\ readyIn' = [k \in SequenceKind |->
                        IF readyIn[k] <= passed THEN 0
                        ELSE readyIn[k] - passed]
  /\ UNCHANGED <<session, reading, stamp, hostQueue, commandCount, asserted,
                 waitingShown, transcript, ran>>

EmulatorNext ==
  /\ session = "open"
  /\ \/ ReadLine
     \/ AnswerLine
     \/ ~reading /\ CloseSession /\ UNCHANGED <<clock, reading, stamp>>
     \/ TimeGoesOn

EmulatorSpec == EmulatorInit /\ [][EmulatorNext]_emulatorVars

-----------------------------------------------------------------------------
(* How long a sequence takes, from its first step to its last, and the     *)
(* second it leaves after itself (specs/001-build-orin-controller/         *)
(* data-model.md).                                                         *)
Lasts == [NormalReboot |-> 1220, RecoveryEntry |-> 620,
          RecoveryImmediate |-> 620, FaultRecovery |-> 1470]

ReadyAgain(run) == run.at + Ticks(run.delay + Lasts[run.kind] + 1000)

RunsBefore(kind, last) == {n \in 1..last : ran[n].kind = kind}

(* What the operator is told is what happens, to the millisecond it is     *)
(* told in: each acknowledgement but that of a fault recovery, which names *)
(* no moment, names those of the request and of the end of its second,     *)
(* delay included, and no request of the kind is accepted before that      *)
(* end, however the requests of other kinds fall in between.  A request    *)
(* refused for the cooldown is given that same end as the reason, and is   *)
(* stamped no later than it.  It may bear the very millisecond it is       *)
(* given: the end then lies later within it.                               *)
CooldownAsAnnounced ==
  /\ \A n, m \in DOMAIN ran :
       n < m /\ ran[n].kind = ran[m].kind => ReadyAgain(ran[n]) <= ran[m].at
  /\ \A i \in DOMAIN transcript :
       LET says == transcript[i].says
           at   == transcript[i].at
       IN transcript[i].role = "Emulator" =>
            /\ says.answer = "OK" /\ says.kind # "FaultRecovery" =>
                 /\ says.at = Millis(ran[says.id].at) /\ at <= says.at
                 /\ says.ready = Millis(ReadyAgain(ran[says.id]))
            /\ says.answer = "CooldownActive" =>
                 /\ at <= says.ready
                 /\ \E n \in RunsBefore(says.kind, Len(ran)) :
                      /\ ran[n].stamp <= at
                      /\ says.ready = Millis(ReadyAgain(ran[n]))
  /\ \A kind \in SequenceKind :
       clock + readyIn[kind] \in {clock} \cup
         {ReadyAgain(ran[n]) : n \in RunsBefore(kind, Len(ran))}

(* The transcript is the evidence of a session, also of one that a failed  *)
(* write cut short: what was run was asked for in it, every request but    *)
(* the last is followed by its answer, the answers number the runs without *)
(* a gap, and none of them shows a line left low, a recovery still waiting *)
(* or a queue with more in it than the run itself.                         *)
TranscriptTellsAll ==
  LET From(role)  == {i \in DOMAIN transcript : transcript[i].role = role}
      done        == {i \in From("Emulator") : transcript[i].says.answer = "OK"}
      IsOf(i, n)  == /\ transcript[i].says.kind = ran[n].kind
                     /\ transcript[i].at = ran[n].stamp
  IN /\ \A i \in From("Emulator") :
          /\ i - 1 \in From("Host")
          /\ transcript[i].at = transcript[i - 1].at
          /\ transcript[i].says.kind = transcript[i - 1].says.kind
          /\ transcript[i].says.low = {}
          /\ ~transcript[i].says.waiting
          /\ transcript[i].says.queued <= 1
     /\ \A i \in From("Host") :
          \/ i + 1 \in From("Emulator")
          \/ session = "ended" /\ i = Len(transcript)
     /\ \A i \in done :
          /\ transcript[i].says.id \in DOMAIN ran
          /\ IsOf(i, transcript[i].says.id)
     /\ \A i, j \in done :
          i < j => transcript[i].says.id < transcript[j].says.id
     /\ \A n \in DOMAIN ran :
          \/ \E i \in done : transcript[i].says.id = n
          \/ /\ n = Len(ran)
             /\ \E i \in From("Host") : i = Len(transcript) /\ IsOf(i, n)
=============================================================================
