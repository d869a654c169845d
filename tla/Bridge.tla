------------------------------- MODULE Bridge -------------------------------
(***************************************************************************)
(* The UART bridge: the CDC1 loop of firmware/src/runtime/usb_task.rs, the *)
(* two joined loops of bridge_task.rs, the bounded channels between them   *)
(* (firmware/src/bridge/mod.rs), and the activity monitor of               *)
(* controller-core/src/bridge/mod.rs at the far end of the activity bus.   *)
(*                                                                         *)
(* A frame is the number of its packet in its direction.  `runtime' spawns *)
(* no task that polls the monitor: Monitored says whether something does.  *)
(***************************************************************************)
EXTENDS Naturals, Sequences

CONSTANTS
  None,           \* an absent Option
  Depth,          \* BRIDGE_QUEUE_DEPTH
  ActivityDepth,  \* ACTIVITY_QUEUE_DEPTH
  Monitored,      \* does the embedding poll the activity monitor?
  MaxFrames       \* bound on the frames of each direction

ASSUME BridgeAssumption ==
  /\ Depth \in Nat \ {0}
  /\ ActivityDepth \in Nat \ {0}
  /\ Monitored \in BOOLEAN
  /\ MaxFrames \in Nat
  /\ None \notin Nat

VARIABLES
  attached,   \* the host has the bridge port open (configured, DTR set)
  usbPc,      \* where run_bridge_interface is
  ingress,    \* the frame it read and is queueing, or None
  pendingTx,  \* pending_tx, the frame it is writing to the host, or None
  usbToTtl,   \* the channels of BridgeQueue
  ttlToUsb,
  txPc,       \* where the usb_to_uart loop is
  txFrame,    \* the frame it holds, or None
  rxPc,       \* where the uart_to_usb loop is
  rxFrame,    \* the frame it holds, or None
  activity,   \* the activity bus
  pending,    \* pending_recovery_release of the monitor
  linkSeen,   \* link_attached of the monitor
  lastTx,     \* last_tx and last_rx of the monitor: frames
  lastRx

\* What the two ends of the wire have seen: history.
VARIABLES
  fromHost,   \* frames the host wrote
  toJetson,   \* frames the Jetson received whole
  damaged,    \* frames a UART error was reported for
  fromJetson, \* frames read from the UART
  toHost      \* frames the host was given

usbVars    == <<usbPc, ingress, pendingTx>>
txVars     == <<txPc, txFrame>>
rxVars     == <<rxPc, rxFrame>>
monitorVars == <<pending, linkSeen, lastTx, lastRx>>
wireVars   == <<fromHost, toJetson, damaged, fromJetson, toHost>>
vars == <<attached, usbVars, usbToTtl, ttlToUsb, txVars, rxVars, activity,
          monitorVars, wireVars>>

Frames == 1..MaxFrames
Activities ==
  [kind : {"UsbToJetson", "JetsonToUsb"}, frame : Frames]

TypeOK ==
  /\ attached \in BOOLEAN
  /\ usbPc \in {"connect", "select", "push"}
  /\ ingress \in Frames \cup {None}
  /\ ingress # None <=> usbPc = "push"
  /\ pendingTx \in Frames \cup {None}
  /\ usbToTtl \in Seq(Frames) /\ Len(usbToTtl) <= Depth
  /\ ttlToUsb \in Seq(Frames) /\ Len(ttlToUsb) <= Depth
  /\ txPc \in {"receive", "write", "flush", "report", "pause"}
  /\ txFrame \in Frames \cup {None}
  /\ txFrame # None <=> txPc \in {"write", "flush", "report"}
  /\ rxPc \in {"read", "push", "report", "pause"}
  /\ rxFrame \in Frames \cup {None}
  /\ rxFrame # None <=> rxPc \in {"push", "report"}
  /\ activity \in Seq(Activities) /\ Len(activity) <= ActivityDepth
  /\ pending \in BOOLEAN /\ linkSeen \in BOOLEAN
  /\ lastTx \in Frames \cup {None} /\ lastRx \in Frames \cup {None}
  /\ fromHost \in 0..MaxFrames /\ fromJetson \in 0..MaxFrames
  /\ toJetson \in Seq(Frames) /\ toHost \in Seq(Frames)
  /\ damaged \subseteq Frames

Init ==
  /\ attached = FALSE
  /\ usbPc = "connect" /\ ingress = None /\ pendingTx = None
  /\ usbToTtl = <<>> /\ ttlToUsb = <<>> /\ activity = <<>>
  /\ txPc = "receive" /\ txFrame = None
  /\ rxPc = "read" /\ rxFrame = None
  /\ pending = FALSE /\ linkSeen = FALSE /\ lastTx = None /\ lastRx = None
  /\ fromHost = 0 /\ toJetson = <<>> /\ damaged = {}
  /\ fromJetson = 0 /\ toHost = <<>>

-----------------------------------------------------------------------------
(* The USB loop.  A select over reading, writing and the control lines: a  *)
(* write that is not finished when another branch is keeps its frame in    *)
(* pending_tx, also while the port is closed.  Nothing else happens while  *)
(* a frame that was read waits for room in usb_to_ttl.                     *)

Connect ==
  /\ usbPc = "connect" /\ attached
  /\ usbPc' = "select"
  /\ UNCHANGED <<attached, ingress, pendingTx, usbToTtl, ttlToUsb, txVars,
                 rxVars, activity, monitorVars, wireVars>>

UsbRead ==
  /\ usbPc = "select" /\ attached
  /\ fromHost < MaxFrames
  /\ fromHost' = fromHost + 1
  /\ ingress' = fromHost + 1
  /\ usbPc' = "push"
  /\ UNCHANGED <<attached, pendingTx, usbToTtl, ttlToUsb, txVars, rxVars,
                 activity, monitorVars, toJetson, damaged, fromJetson, toHost>>

UsbPushUnchecked ==     \* mutant: no wait for room
  /\ usbPc = "push"
  /\ usbToTtl' = Append(usbToTtl, ingress)
  /\ ingress' = None
  /\ usbPc' = "select"
  /\ UNCHANGED <<attached, pendingTx, ttlToUsb, txVars, rxVars, activity,
                 monitorVars, wireVars>>

UsbPush ==
  /\ usbPc = "push"
  /\ Len(usbToTtl) < Depth
  /\ usbToTtl' = Append(usbToTtl, ingress)
  /\ ingress' = None
  /\ usbPc' = "select"
  /\ UNCHANGED <<attached, pendingTx, ttlToUsb, txVars, rxVars, activity,
                 monitorVars, wireVars>>

UsbTakeAlways ==     \* mutant: the frame of an unfinished write is forgotten
  /\ usbPc = "select"
  /\ ttlToUsb # <<>>
  /\ pendingTx' = Head(ttlToUsb)
  /\ ttlToUsb' = Tail(ttlToUsb)
  /\ UNCHANGED <<attached, usbPc, ingress, usbToTtl, txVars, rxVars, activity,
                 monitorVars, wireVars>>

UsbTake ==
  /\ usbPc = "select" /\ pendingTx = None
  /\ ttlToUsb # <<>>
  /\ pendingTx' = Head(ttlToUsb)
  /\ ttlToUsb' = Tail(ttlToUsb)
  /\ UNCHANGED <<attached, usbPc, ingress, usbToTtl, txVars, rxVars, activity,
                 monitorVars, wireVars>>

UsbWrite ==
  /\ usbPc = "select" /\ pendingTx # None /\ attached
  /\ toHost' = Append(toHost, pendingTx)
  /\ pendingTx' = None
  /\ UNCHANGED <<attached, usbPc, ingress, usbToTtl, ttlToUsb, txVars, rxVars,
                 activity, monitorVars, fromHost, toJetson, damaged,
                 fromJetson>>

(* The endpoint is disabled or DTR has dropped: back to wait_connection.   *)
UsbLeave ==
  /\ usbPc = "select" /\ ~attached
  /\ usbPc' = "connect"
  /\ UNCHANGED <<attached, ingress, pendingTx, usbToTtl, ttlToUsb, txVars,
                 rxVars, activity, monitorVars, wireVars>>

-----------------------------------------------------------------------------
(* usb_to_uart *)

TxReceive ==
  /\ txPc = "receive" /\ usbToTtl # <<>>
  /\ txFrame' = Head(usbToTtl)
  /\ usbToTtl' = Tail(usbToTtl)
  /\ txPc' = "write"
  /\ UNCHANGED <<attached, usbVars, ttlToUsb, rxVars, activity, monitorVars,
                 wireVars>>

TxWrite ==
  /\ txPc = "write"
  /\ txPc' = "flush"
  /\ UNCHANGED <<attached, usbVars, usbToTtl, ttlToUsb, txFrame, rxVars,
                 activity, monitorVars, wireVars>>

TxFlush ==
  /\ txPc = "flush"
  /\ toJetson' = Append(toJetson, txFrame)
  /\ txPc' = "report"
  /\ UNCHANGED <<attached, usbVars, usbToTtl, ttlToUsb, txFrame, rxVars,
                 activity, monitorVars, fromHost, damaged, fromJetson, toHost>>

TxErrorRetries ==     \* mutant: the frame is queued again after an error
  /\ txPc \in {"write", "flush"}
  /\ damaged' = damaged \cup {txFrame}
  /\ txPc' = "pause" /\ txFrame' = None
  /\ usbToTtl' = Append(usbToTtl, txFrame)
  /\ UNCHANGED <<attached, usbVars, ttlToUsb, rxVars, activity,
                 monitorVars, fromHost, toJetson, fromJetson, toHost>>

TxErrorEnds ==     \* mutant: the error ends the loop
  /\ txPc \in {"write", "flush"}
  /\ damaged' = damaged \cup {txFrame}
  /\ txPc' = "ended" /\ txFrame' = None
  /\ UNCHANGED <<attached, usbVars, usbToTtl, ttlToUsb, rxVars, activity,
                 monitorVars, fromHost, toJetson, fromJetson, toHost>>

(* A write or a flush fails: what is left of the frame is dropped.  Before *)
(* a failed flush all of it may have gone out.                             *)
TxError ==
  /\ txPc \in {"write", "flush"}
  /\ damaged' = damaged \cup {txFrame}
  /\ \/ UNCHANGED toJetson
     \/ txPc = "flush" /\ toJetson' = Append(toJetson, txFrame)
  /\ txPc' = "pause" /\ txFrame' = None
  /\ UNCHANGED <<attached, usbVars, usbToTtl, ttlToUsb, rxVars, activity,
                 monitorVars, fromHost, fromJetson, toHost>>

ReportOrDrop(kind, frame) ==     \* mutant: try_send for send
  activity' = IF Len(activity) < ActivityDepth
              THEN Append(activity, [kind |-> kind, frame |-> frame])
              ELSE activity

Report(kind, frame) ==
  /\ Len(activity) < ActivityDepth
  /\ activity' = Append(activity, [kind |-> kind, frame |-> frame])

TxReport ==
  /\ txPc = "report"
  /\ Report("UsbToJetson", txFrame)
  /\ txPc' = "receive" /\ txFrame' = None
  /\ UNCHANGED <<attached, usbVars, usbToTtl, ttlToUsb, rxVars, monitorVars,
                 wireVars>>

TxResume ==
  /\ txPc = "pause"
  /\ txPc' = "receive"
  /\ UNCHANGED <<attached, usbVars, usbToTtl, ttlToUsb, txFrame, rxVars,
                 activity, monitorVars, wireVars>>

-----------------------------------------------------------------------------
(* uart_to_usb *)

RxRead ==
  /\ rxPc = "read" /\ fromJetson < MaxFrames
  /\ fromJetson' = fromJetson + 1
  /\ rxFrame' = fromJetson + 1
  /\ rxPc' = "push"
  /\ UNCHANGED <<attached, usbVars, usbToTtl, ttlToUsb, txVars, activity,
                 monitorVars, fromHost, toJetson, damaged, toHost>>

RxError ==
  /\ rxPc = "read"
  /\ rxPc' = "pause"
  /\ UNCHANGED <<attached, usbVars, usbToTtl, ttlToUsb, txVars, rxFrame,
                 activity, monitorVars, wireVars>>

RxPush ==
  /\ rxPc = "push"
  /\ Len(ttlToUsb) < Depth
  /\ ttlToUsb' = Append(ttlToUsb, rxFrame)
  /\ rxPc' = "report"
  /\ UNCHANGED <<attached, usbVars, usbToTtl, txVars, rxFrame, activity,
                 monitorVars, wireVars>>

RxReport ==
  /\ rxPc = "report"
  /\ Report("JetsonToUsb", rxFrame)
  /\ rxPc' = "read" /\ rxFrame' = None
  /\ UNCHANGED <<attached, usbVars, usbToTtl, ttlToUsb, txVars, monitorVars,
                 wireVars>>

RxResume ==
  /\ rxPc = "pause"
  /\ rxPc' = "read"
  /\ UNCHANGED <<attached, usbVars, usbToTtl, ttlToUsb, txVars, rxFrame,
                 activity, monitorVars, wireVars>>

-----------------------------------------------------------------------------
(* The activity monitor *)

(* poll, process_event: track, handle_recovery_release *)
MonitorPoll ==
  /\ Monitored /\ activity # <<>>
  /\ LET event == Head(activity)
     IN \/ /\ event.kind = "UsbToJetson"
           /\ lastTx' = event.frame
           /\ UNCHANGED <<lastRx, pending>>
        \/ /\ event.kind = "JetsonToUsb"
           /\ lastRx' = event.frame
           /\ pending' = FALSE
           /\ UNCHANGED lastTx
  /\ activity' = Tail(activity)
  /\ UNCHANGED <<attached, usbVars, usbToTtl, ttlToUsb, txVars, rxVars,
                 linkSeen, wireVars>>

(* set_pending, by whoever starts to hold REC *)
AwaitRelease ==
  /\ Monitored /\ ~pending
  /\ pending' = TRUE
  /\ UNCHANGED <<attached, usbVars, usbToTtl, ttlToUsb, txVars, rxVars,
                 activity, linkSeen, lastTx, lastRx, wireVars>>

(* notify_usb_connect and notify_usb_disconnect: nobody waits for the      *)
(* console any more when the link is gone.                                 *)
NotifyUsb ==
  /\ Monitored /\ linkSeen # attached
  /\ linkSeen' = attached
  /\ pending' = (pending /\ attached)
  /\ UNCHANGED <<attached, usbVars, usbToTtl, ttlToUsb, txVars, rxVars,
                 activity, lastTx, lastRx, wireVars>>

-----------------------------------------------------------------------------
(* The host opens or closes the port. *)
HostSwitches ==
  /\ attached' = ~attached
  /\ UNCHANGED <<usbVars, usbToTtl, ttlToUsb, txVars, rxVars, activity,
                 monitorVars, wireVars>>

UsbLoop   == Connect \/ UsbPush \/ UsbTake \/ UsbWrite \/ UsbLeave
UsbToUart == TxReceive \/ TxWrite \/ TxFlush \/ TxError \/ TxReport \/ TxResume
UartToUsb == RxPush \/ RxReport \/ RxResume
Outside   == UsbRead \/ RxRead \/ RxError \/ HostSwitches
Monitor   == MonitorPoll \/ AwaitRelease \/ NotifyUsb

Next == UsbLoop \/ UsbToUart \/ UartToUsb \/ Monitor \/ Outside

Spec == Init /\ [][Next]_vars

(* Each loop is polled when it can go on; nobody makes either end send,    *)
(* fail or switch.                                                         *)
FairSpec ==
  /\ Spec
  /\ WF_vars(UsbLoop) /\ WF_vars(UsbToUart) /\ WF_vars(UartToUsb)
  /\ WF_vars(MonitorPoll)

-----------------------------------------------------------------------------
Opt(x) == IF x = None THEN <<>> ELSE <<x>>
UpTo(n) == [i \in 1..n |-> i]

Given(s, f) == \E i \in DOMAIN s : s[i] = f
Increasing(s) == \A i, j \in DOMAIN s : i < j => s[i] < s[j]

(* The frames of each direction, those that have arrived first: in hand at *)
(* the far loop, queued, in hand at the near one.                          *)
ToHostFrames ==
  toHost \o Opt(pendingTx) \o ttlToUsb
    \o (IF rxPc = "push" THEN <<rxFrame>> ELSE <<>>)
ToJetsonFrames ==
  toJetson \o (IF txPc \in {"write", "flush"} THEN <<txFrame>> ELSE <<>>)
    \o usbToTtl \o Opt(ingress)

(* Jetson to host the bridge is exact: what the host was given, what is    *)
(* being written, what is queued and what is being queued are, in this     *)
(* order, all the frames ever read from the UART, each once, however often *)
(* the port is closed, opened or a write is abandoned for a read.          *)
ToHostExact == ToHostFrames = UpTo(fromJetson)

(* Host to Jetson it keeps the order and duplicates nothing, and a frame   *)
(* is missing only when a UART error was reported while it was in hand.    *)
ToJetsonExact ==
  /\ Increasing(ToJetsonFrames)
  /\ \A i \in DOMAIN ToJetsonFrames : ToJetsonFrames[i] <= fromHost
  /\ \A f \in 1..fromHost : Given(ToJetsonFrames, f) \/ f \in damaged

(* last_rx is never further behind the console than the activity bus is    *)
(* deep, one event more: no activity is left unreported, so a recovery     *)
(* that waits for the console is released however busy the bridge is.  It  *)
(* may be released by activity from before it waited, by as much as the    *)
(* bus holds: the monitor does not compare the times, and neither does     *)
(* this.                                                                   *)
Forwarded == IF rxPc = "push" THEN fromJetson - 1 ELSE fromJetson
MonitorKeepsUp ==
  Monitored =>
    Forwarded <= (IF lastRx = None THEN 0 ELSE lastRx) + ActivityDepth + 1

(* Transparent bridging: when the host has no more to write, as after      *)
(* MaxFrames, the Jetson gets every frame the host wrote, unless the UART  *)
(* failed; and the host gets every frame of the Jetson's if in the end it  *)
(* leaves the port open.                                                   *)
HostIsHeard ==
  []<>(\A f \in 1..fromHost : Given(toJetson, f) \/ f \in damaged)
JetsonIsHeard ==
  <>[]attached => []<>(\A f \in 1..fromJetson : Given(toHost, f))
=============================================================================
