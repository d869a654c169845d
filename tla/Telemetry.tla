----------------------------- MODULE Telemetry -----------------------------
(***************************************************************************)
(* TelemetryRecorder of controller-core/src/telemetry/mod.rs, which the    *)
(* firmware wraps with logging: a ring of the newest records, numbered by  *)
(* a u32 that wraps, and the codes of the events.  A strap record carries  *)
(* the time since the strap transition before it; the payloads of the      *)
(* other records are left out.                                             *)
(***************************************************************************)
EXTENDS Naturals, Sequences, FiniteSetsExt

CONSTANTS
  Unset,         \* an absent Option
  Capacity,      \* TELEMETRY_RING_CAPACITY
  EventIds,      \* how many ids there are before they wrap (2^32)
  Moments,       \* how far the clock may go on between two records
  MaxRecords     \* bound on the records

ASSUME RecorderAssumption ==
  /\ Capacity \in Nat \ {0} /\ EventIds \in Nat \ {0}
  /\ Moments \subseteq Nat /\ MaxRecords \in Nat /\ Unset \notin Nat

StrapLines    == <<"Reset", "Rec", "Pwr", "Apo">>
SequenceKinds == <<"NormalReboot", "RecoveryEntry", "RecoveryImmediate",
                   "FaultRecovery">>

Event(kind, of, code) == [kind |-> kind, of |-> of, code |-> code]

Plain(kind) == Event(kind, "", 0)

\* What the events of each kind are about, by index.
Names == [StrapAsserted |-> StrapLines, StrapReleased |-> StrapLines,
          CommandPending |-> SequenceKinds, CommandStarted |-> SequenceKinds,
          SequenceComplete |-> SequenceKinds]

EventsOf(kinds) == {Event(kind, Names[kind][n], 0) : kind \in kinds, n \in 1..4}

StrapEvents == EventsOf({"StrapAsserted", "StrapReleased"})

PlainEvents == {Plain("PowerStable"), Plain("RecoveryConsoleActivity"),
                Plain("UsbDisconnect")}

Custom(code) == Event("Custom", "", code)

\* The events that are recorded; custom ones only come of decoding.
Events == EventsOf(DOMAIN Names) \cup PlainEvents

\* The first code of each kind of event.
Base == [StrapAsserted |-> 0, StrapReleased |-> 4, PowerStable |-> 8,
         RecoveryConsoleActivity |-> 9, UsbDisconnect |-> 10,
         CommandPending |-> 16, CommandStarted |-> 20,
         SequenceComplete |-> 24]

\* strap_index and sequence_index
Index(event) == (CHOOSE n \in 1..4 : Names[event.kind][n] = event.of) - 1

ToRaw(event) ==
  IF event.kind = "Custom" THEN event.code
  ELSE Base[event.kind] + (IF event.kind \in DOMAIN Names THEN Index(event)
                           ELSE 0)

(* from_raw *)
FromRaw(code) ==
  LET plain   == {e \in PlainEvents : Base[e.kind] = code}
      indexed == {k \in DOMAIN Names : code \in Base[k]..(Base[k] + 3)}
  IN IF plain # {} THEN CHOOSE e \in plain : TRUE
     ELSE IF indexed = {} THEN Custom(code)
     ELSE LET kind == CHOOSE k \in indexed : TRUE
          IN Event(kind, Names[kind][code - Base[kind] + 1], 0)

-----------------------------------------------------------------------------
VARIABLES
  ring,              \* the records, oldest first
  lastTransitionAt,  \* last_transition_at
  nextEventId,       \* next_event_id
  recorded           \* history: everything ever recorded, with its time

recorderVars == <<ring, lastTransitionAt, nextEventId, recorded>>

Now == IF recorded = <<>> THEN 0 ELSE recorded[Len(recorded)].at

RecorderInit ==
  /\ ring = <<>> /\ lastTransitionAt = Unset /\ nextEventId = 0
  /\ recorded = <<>>

WrittenIfRoom(record) ==     \* mutant: a full ring takes nothing new
  IF Len(ring) < Capacity THEN Append(ring, record) ELSE ring

\* HistoryBuf::write: a full ring forgets its oldest record.
Written(record) ==
  IF Len(ring) < Capacity THEN Append(ring, record)
  ELSE Append(Tail(ring), record)

(* record *)
Record(event, elapsed, at) ==
  /\ Len(recorded) < MaxRecords
  /\ ring' = Written([id |-> nextEventId, event |-> event,
                      elapsed |-> elapsed, at |-> at])
  /\ nextEventId' = (nextEventId + 1) % EventIds
  /\ recorded' = Append(recorded, [event |-> event, at |-> at])

TransitionKept(at) ==     \* mutant: only the first transition is remembered
  lastTransitionAt' = IF lastTransitionAt = Unset THEN at ELSE lastTransitionAt

Transition(at) == lastTransitionAt' = at

(* record_strap_transition *)
RecordStrapTransition(at) ==
  /\ \E event \in StrapEvents :
       Record(event, IF lastTransitionAt = Unset THEN Unset
                     ELSE at - lastTransitionAt, at)
  /\ Transition(at)

(* record_command_pending, _started, record_sequence_completion, and the   *)
(* events the monitors record themselves.                                  *)
RecordOther(at) ==
  /\ \E event \in Events \ StrapEvents : Record(event, Unset, at)
  /\ UNCHANGED lastTransitionAt

RecorderNext ==
  \E passed \in Moments :
    RecordStrapTransition(Now + passed) \/ RecordOther(Now + passed)

RecorderSpec == RecorderInit /\ [][RecorderNext]_recorderVars

-----------------------------------------------------------------------------
(* The ring holds the newest records, all of them while they fit, in the   *)
(* order they were made, and their ids count on from one to the next.  A   *)
(* reader of their codes sees what was recorded: the ranges of codes       *)
(* overlap nowhere, and from_raw tries them in the right order.            *)
RingHoldsTheNewest ==
  LET kept == Min({Capacity, Len(recorded)})
      gone == Len(recorded) - kept
  IN /\ Len(ring) = kept
     /\ \A n \in 1..kept :
          /\ FromRaw(ToRaw(ring[n].event)) = recorded[gone + n].event
          /\ ring[n].at = recorded[gone + n].at
          /\ ring[n].id = (gone + n - 1) % EventIds

(* The elapsed times of the strap records add up: from one to the next in  *)
(* the ring is exactly the time between them, whatever was recorded in     *)
(* between, and also after records were forgotten.                         *)
ElapsedAddsUp ==
  \A n \in DOMAIN ring : ring[n].event \in StrapEvents =>
    LET last   == Len(recorded) - Len(ring) + n
        before == {m \in 1..(last - 1) : recorded[m].event \in StrapEvents}
    IN ring[n].elapsed = IF before = {} THEN Unset
                         ELSE recorded[last].at - recorded[Max(before)].at
=============================================================================
