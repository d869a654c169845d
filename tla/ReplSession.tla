---------------------------- MODULE ReplSession ----------------------------
(***************************************************************************)
(* The console transport: the CDC0 loop of firmware/src/runtime/           *)
(* usb_task.rs, the two bounded channels, and the REPL task of             *)
(* firmware/src/repl/mod.rs with its line buffer.                          *)
(*                                                                         *)
(* A packet of the host is a short sequence of bytes, and a byte is what   *)
(* the line editor tells apart: a character, a terminator, a backspace, a  *)
(* tab, or one it ignores.  The line is kept as its length; its text only  *)
(* decides how many frames the answer takes, which is a choice here, and   *)
(* so is what a completion finds.                                          *)
(***************************************************************************)
EXTENDS Naturals, Sequences

CONSTANTS
  None,        \* an absent Option
  Depth,       \* FRAME_QUEUE_DEPTH
  MaxLine,     \* MAX_LINE_LEN
  Packets,     \* the packets the host may send
  Answers,     \* how many frames the answer to a line may take (0: blank)
  Window,      \* how many packets the host leaves unprocessed
  MaxPackets,  \* bound on the packets sent
  MaxClosings  \* bound on how often the host closes the console

Bytes == {"char", "eol", "backspace", "tab", "other"}

ASSUME ReplAssumption ==
  /\ Depth \in Nat \ {0} /\ MaxLine \in Nat \ {0}
  /\ Packets \subseteq Seq(Bytes) \ {<<>>}
  /\ Answers \subseteq Nat
  /\ Window \in Nat /\ MaxPackets \in Nat /\ MaxClosings \in Nat
  /\ None \notin Nat /\ None \notin Seq(Bytes)

VARIABLES
  attached,   \* the host has the console open (configured, DTR set)
  usbPc,      \* where run_repl_interface is
  ingress,    \* the packet it read and is queueing, or None
  pendingTx,  \* pending_tx, the frame it is writing to the host, or None
  rxQueue,    \* REPL_RX_QUEUE
  txQueue,    \* REPL_TX_QUEUE
  frame,      \* what is left of the packet consume_frame works on
  toSend,     \* how many frames the session has yet to put into txQueue
  len,        \* length of the line buffer
  dropInput   \* drop_input

\* History.
VARIABLES
  sent,       \* packets the host sent
  closings,   \* how often the host closed the console
  typed,      \* length of the line as its writer sees it
  tooLong,    \* has it outgrown the buffer?
  produced,   \* frames queued by the session, which numbers them
  shown       \* the frame the host was given last

usbVars  == <<usbPc, ingress, pendingTx>>
lineVars == <<len, dropInput, typed, tooLong>>
hostVars == <<attached, sent, closings, shown>>
vars == <<usbVars, rxQueue, txQueue, frame, toSend, lineVars, hostVars,
          produced>>

TypeOK ==
  /\ attached \in BOOLEAN
  /\ usbPc \in {"connect", "select", "push"}
  /\ ingress \in Packets \cup {None} /\ (ingress # None <=> usbPc = "push")
  /\ pendingTx \in Nat \cup {None}
  /\ rxQueue \in Seq(Packets) /\ Len(rxQueue) <= Depth
  /\ txQueue \in Seq(Nat) /\ Len(txQueue) <= Depth
  /\ frame \in Seq(Bytes) /\ toSend \in Nat
  /\ len \in 0..MaxLine /\ dropInput \in BOOLEAN
  /\ sent \in 0..MaxPackets /\ closings \in 0..MaxClosings
  /\ typed \in Nat /\ tooLong \in BOOLEAN
  /\ produced \in Nat /\ shown \in Nat

Init ==
  /\ attached = FALSE
  /\ usbPc = "connect" /\ ingress = None /\ pendingTx = None
  /\ rxQueue = <<>> /\ txQueue = <<>>
  /\ frame = <<>> /\ toSend = 0
  /\ len = 0 /\ dropInput = FALSE
  /\ sent = 0 /\ closings = 0
  /\ typed = 0 /\ tooLong = FALSE
  /\ produced = 0 /\ shown = 0

-----------------------------------------------------------------------------
(* The USB loop.  pending_tx is cleared when the console is closed and     *)
(* opened; the queues and the line are not.                                *)

Connect ==
  /\ usbPc = "connect" /\ attached
  /\ usbPc' = "select"
  /\ pendingTx' = None
  /\ UNCHANGED <<ingress, rxQueue, txQueue, frame, toSend, lineVars, hostVars,
                 produced>>

\* Packets the session is not done with.
Unprocessed ==
  (IF ingress = None THEN 0 ELSE 1) + Len(rxQueue)
    + (IF frame = <<>> /\ toSend = 0 THEN 0 ELSE 1)

UsbRead(packet) ==
  /\ usbPc = "select" /\ attached
  /\ sent < MaxPackets /\ Unprocessed < Window
  /\ sent' = sent + 1
  /\ ingress' = packet
  /\ usbPc' = "push"
  /\ UNCHANGED <<attached, pendingTx, rxQueue, txQueue, frame, toSend,
                 lineVars, closings, produced, shown>>

(* Until there is room nothing is written and no control change seen.      *)
UsbPush ==
  /\ usbPc = "push"
  /\ Len(rxQueue) < Depth
  /\ rxQueue' = Append(rxQueue, ingress)
  /\ ingress' = None
  /\ usbPc' = "select"
  /\ UNCHANGED <<pendingTx, txQueue, frame, toSend, lineVars, hostVars,
                 produced>>

UsbTakeAlways ==     \* mutant: the frame of an unfinished write is forgotten
  /\ usbPc = "select"
  /\ txQueue # <<>>
  /\ pendingTx' = Head(txQueue)
  /\ txQueue' = Tail(txQueue)
  /\ UNCHANGED <<usbPc, ingress, rxQueue, frame, toSend, lineVars, hostVars,
                 produced>>

UsbTake ==
  /\ usbPc = "select" /\ pendingTx = None
  /\ txQueue # <<>>
  /\ pendingTx' = Head(txQueue)
  /\ txQueue' = Tail(txQueue)
  /\ UNCHANGED <<usbPc, ingress, rxQueue, frame, toSend, lineVars, hostVars,
                 produced>>

UsbWriteAgain ==     \* mutant: pending_tx is not taken after the write
  /\ usbPc = "select" /\ pendingTx # None /\ attached
  /\ shown' = pendingTx
  /\ UNCHANGED <<usbVars, rxQueue, txQueue, frame, toSend, lineVars, attached,
                 sent, closings, produced>>

UsbWrite ==
  /\ usbPc = "select" /\ pendingTx # None /\ attached
  /\ shown' = pendingTx
  /\ pendingTx' = None
  /\ UNCHANGED <<usbPc, ingress, rxQueue, txQueue, frame, toSend, lineVars,
                 attached, sent, closings, produced>>

UsbLeave ==
  /\ usbPc = "select" /\ ~attached
  /\ usbPc' = "connect"
  /\ pendingTx' = None
  /\ UNCHANGED <<ingress, rxQueue, txQueue, frame, toSend, lineVars, hostVars,
                 produced>>

-----------------------------------------------------------------------------
(* The REPL task: a byte is handled once the answer to the one before it   *)
(* is queued.                                                              *)

Receive ==
  /\ frame = <<>> /\ toSend = 0
  /\ rxQueue # <<>>
  /\ frame' = Head(rxQueue)
  /\ rxQueue' = Tail(rxQueue)
  /\ UNCHANGED <<usbVars, txQueue, toSend, lineVars, hostVars, produced>>

SendFrameUnchecked ==     \* mutant: no wait for room
  /\ toSend > 0
  /\ toSend' = toSend - 1
  /\ produced' = produced + 1
  /\ txQueue' = Append(txQueue, produced + 1)
  /\ UNCHANGED <<usbVars, rxQueue, frame, lineVars, hostVars>>

(* send_bytes, one frame of it. *)
SendFrame ==
  /\ toSend > 0 /\ Len(txQueue) < Depth
  /\ toSend' = toSend - 1
  /\ produced' = produced + 1
  /\ txQueue' = Append(txQueue, produced + 1)
  /\ UNCHANGED <<usbVars, rxQueue, frame, lineVars, hostVars>>

Terminator ==
  /\ typed' = 0 /\ tooLong' = FALSE
  /\ len' = 0
  /\ \/ len = 0 /\ UNCHANGED <<dropInput, toSend>>
     \/ len > 0 /\ dropInput /\ dropInput' = FALSE /\ UNCHANGED toSend
     \/ len > 0 /\ ~dropInput /\ toSend' \in Answers /\ UNCHANGED dropInput

Backspace ==
  /\ len' = IF len = 0 THEN 0 ELSE len - 1
  /\ typed' = IF typed = 0 THEN 0 ELSE typed - 1
  /\ UNCHANGED <<dropInput, tooLong, toSend>>

\* "ERR line-too-long" and its line feed.
Overflow ==
  /\ dropInput' = TRUE /\ tooLong' = TRUE
  /\ toSend' = 2

(* handle_completion: nothing to offer or several options leave the line;  *)
(* one option replaces its last word, which it has begun.  A word that     *)
(* does not fit is cut off; the commands are short, so it is not the first.*)
Completion ==
  \/ /\ toSend' \in Answers \cup {1}
     /\ UNCHANGED <<len, dropInput, typed, tooLong>>
  \/ /\ len' \in len..MaxLine /\ typed' = len'
     /\ toSend' \in {1, 2}
     /\ UNCHANGED <<dropInput, tooLong>>
  \/ /\ len' \in 1..len
     /\ Overflow
     /\ UNCHANGED typed

CharacterTruncates ==     \* mutant: what does not fit is just ignored
  /\ typed' = typed + 1
  /\ len' = IF len < MaxLine THEN len + 1 ELSE len
  /\ UNCHANGED <<dropInput, tooLong, toSend>>

Character ==
  /\ typed' = typed + 1
  /\ \/ dropInput /\ UNCHANGED <<len, dropInput, tooLong, toSend>>
     \/ /\ ~dropInput /\ len < MaxLine
        /\ len' = len + 1
        /\ UNCHANGED <<dropInput, tooLong, toSend>>
     \/ /\ ~dropInput /\ len = MaxLine
        /\ Overflow
        /\ UNCHANGED len

Ignored == UNCHANGED <<lineVars, toSend>>

(* consume_frame, one byte of it. *)
Consume ==
  /\ frame # <<>> /\ toSend = 0
  /\ frame' = Tail(frame)
  /\ LET byte == Head(frame)
     IN \/ byte = "eol" /\ Terminator
        \/ byte = "backspace" /\ Backspace
        \/ byte = "tab" /\ ~dropInput /\ Completion
        \/ byte = "tab" /\ dropInput /\ Ignored
        \/ byte = "char" /\ Character
        \/ byte = "other" /\ Ignored
  /\ UNCHANGED <<usbVars, rxQueue, txQueue, hostVars, produced>>

-----------------------------------------------------------------------------
HostOpens ==
  /\ ~attached
  /\ attached' = TRUE
  /\ UNCHANGED <<usbVars, rxQueue, txQueue, frame, toSend, lineVars, sent,
                 closings, shown, produced>>

HostCloses ==
  /\ attached /\ closings < MaxClosings
  /\ attached' = FALSE
  /\ closings' = closings + 1
  /\ UNCHANGED <<usbVars, rxQueue, txQueue, frame, toSend, lineVars, sent,
                 shown, produced>>

UsbLoop == Connect \/ UsbPush \/ UsbTake \/ UsbWrite \/ UsbLeave
Session == Receive \/ SendFrame \/ Consume
Host    == (\E packet \in Packets : UsbRead(packet)) \/ HostOpens \/ HostCloses

Next == UsbLoop \/ Session \/ Host

Spec == Init /\ [][Next]_vars

(* Both tasks are polled when they can go on; the host is free.            *)
FairSpec == Spec /\ WF_vars(UsbLoop) /\ WF_vars(Session)

-----------------------------------------------------------------------------
(* The line buffer is the line its writer sees, or else the session is     *)
(* discarding: nothing cut short or run together is ever executed,         *)
(* whatever is corrected, completed or overflows.                          *)
BufferIsTheLine == ~dropInput => len = typed /\ ~tooLong

Opt(x) == IF x = None THEN <<>> ELSE <<x>>
InHand == Opt(pendingTx) \o txQueue

(* The frames of the answers reach the host in order and once, and closing *)
(* the console costs at most one of them each time: the one being written. *)
AnswersInOrder ==
  /\ \A i \in DOMAIN InHand : InHand[i] = produced - Len(InHand) + i
  /\ shown <= produced - Len(InHand)
  /\ produced - Len(InHand) <= shown + closings

Waiting(n) == \E i \in DOMAIN InHand : InHand[i] = n

(* data-model.md:83, CommandExecutor "must acknowledge command completion/ *)
(* failure": every frame of an answer that a line was given eventually     *)
(* leaves the queue, for a host that in the end leaves the console open:   *)
(* written, or, if it was in hand when the console closed, cleared, which  *)
(* AnswersInOrder limits to one frame each time.                           *)
AnswersShown ==
  <>[]attached =>
    /\ toSend > 0 ~> toSend = 0
    /\ \A n \in 1..MaxPackets : Waiting(n) ~> ~Waiting(n)

(* data-model.md:129, "On completed line, runs lexer, parser, executor":   *)
(* a terminator that ends a line which fits the buffer finds the session   *)
(* listening.                                                              *)
CompletedLineRuns ==
  (frame # <<>> /\ Head(frame) = "eol" /\ toSend = 0)
     => (typed > 0 /\ ~tooLong => ~dropInput)
=============================================================================
