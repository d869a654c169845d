------------------------ MODULE ReplSession_proofs ------------------------
(***************************************************************************)
(* Safety of the console transport of ReplSession, for every queue depth,  *)
(* line length, set of packets, answer sizes and window.                   *)
(***************************************************************************)
EXTENDS ReplSession, TLAPS

LEMMA ReplFacts ==
  /\ Depth \in Nat /\ MaxLine \in Nat
  /\ Packets \subseteq Seq(Bytes)
  /\ Answers \subseteq Nat
  /\ MaxPackets \in Nat /\ MaxClosings \in Nat
  /\ None \notin Nat /\ None \notin Packets
BY ReplAssumption

(* The line editor keeps its types, whatever byte it handles.              *)
LEMMA ConsumeTypes ==
  ASSUME TypeOK, Consume
  PROVE  /\ frame' \in Seq(Bytes) /\ toSend' \in Nat
         /\ len' \in 0..MaxLine /\ dropInput' \in BOOLEAN
         /\ typed' \in Nat /\ tooLong' \in BOOLEAN
<1>1. frame' \in Seq(Bytes)
  BY DEF TypeOK, Consume
<1>2. /\ len \in 0..MaxLine /\ typed \in Nat /\ toSend \in Nat
      /\ dropInput \in BOOLEAN /\ tooLong \in BOOLEAN
      /\ MaxLine \in Nat /\ Answers \subseteq Nat
  BY ReplFacts DEF TypeOK
<1> DEFINE Typed == /\ toSend' \in Nat
                    /\ len' \in 0..MaxLine /\ dropInput' \in BOOLEAN
                    /\ typed' \in Nat /\ tooLong' \in BOOLEAN
<1>3. ASSUME Terminator PROVE Typed
  <2>1. typed' = 0 /\ tooLong' = FALSE /\ len' = 0
    BY <1>3 DEF Terminator
  <2>2. toSend' \in Nat
    BY <1>2, <1>3 DEF Terminator
  <2>3. dropInput' \in BOOLEAN
    BY <1>2, <1>3, Zenon DEF Terminator
  <2>4. len' \in 0..MaxLine /\ typed' \in Nat
    BY <1>2, <2>1
  <2> QED BY <2>1, <2>2, <2>3, <2>4, Zenon
<1>4. ASSUME Backspace PROVE Typed
  BY <1>2, <1>4 DEF Backspace
<1>5. ASSUME Completion PROVE Typed
  <2>1. \/ len' = len /\ typed' = typed
        \/ len' \in len..MaxLine /\ typed' = len'
        \/ len' \in 1..len /\ typed' = typed
    BY <1>5 DEF Completion
  <2>2. len' \in 0..MaxLine /\ typed' \in Nat
    BY <1>2, <2>1
  <2>3. toSend' \in Nat
    <3>1. toSend' \in Answers \/ toSend' = 1 \/ toSend' = 2
      BY <1>5 DEF Completion, Overflow
    <3>2. CASE toSend' \in Answers
      BY <1>2, <3>2, Zenon
    <3>3. CASE toSend' = 1 \/ toSend' = 2
      BY <3>3
    <3> QED BY <3>1, <3>2, <3>3, Zenon
  <2>4. dropInput' \in BOOLEAN /\ tooLong' \in BOOLEAN
    BY <1>2, <1>5, Zenon DEF Completion, Overflow
  <2> QED BY <2>2, <2>3, <2>4, Zenon
<1>6. ASSUME Character PROVE Typed
  <2>1. /\ typed' = typed + 1
        /\ \/ len' = len
           \/ len < MaxLine /\ len' = len + 1
    BY <1>6 DEF Character
  <2>2. len' \in 0..MaxLine /\ typed' \in Nat
    BY <1>2, <2>1
  <2>3. toSend' \in Nat
    BY <1>2, <1>6 DEF Character, Overflow
  <2>4. dropInput' \in BOOLEAN /\ tooLong' \in BOOLEAN
    BY <1>2, <1>6, Zenon DEF Character, Overflow
  <2> QED BY <2>2, <2>3, <2>4, Zenon
<1>7. ASSUME Ignored PROVE Typed
  BY <1>2, <1>7 DEF Ignored, lineVars
<1>8. Typed
  BY <1>3, <1>4, <1>5, <1>6, <1>7 DEF Consume
<1> QED BY <1>1, <1>8

LEMMA OneMore ==
  ASSUME NEW m \in Nat, NEW c \in 0..m, c < m PROVE c + 1 \in 0..m
OBVIOUS

(* Both queues stay within FRAME_QUEUE_DEPTH, the line within its buffer,  *)
(* and the USB task holds a packet exactly while it waits to queue it.     *)
THEOREM TypeCorrect == Spec => []TypeOK
<1>1. Init => TypeOK
  <2> SUFFICES ASSUME Init PROVE TypeOK
    OBVIOUS
  <2>1. rxQueue \in Seq(Packets) /\ Len(rxQueue) <= Depth
    BY ReplFacts DEF Init
  <2>2. txQueue \in Seq(Nat) /\ Len(txQueue) <= Depth
    BY ReplFacts DEF Init
  <2>3. /\ len \in 0..MaxLine /\ sent \in 0..MaxPackets
        /\ closings \in 0..MaxClosings
    BY ReplFacts DEF Init
  <2>4. frame \in Seq(Bytes)
    BY DEF Init
  <2> QED BY <2>1, <2>2, <2>3, <2>4 DEF Init, TypeOK
<1>2. TypeOK /\ [Next]_vars => TypeOK'
  <2> SUFFICES ASSUME TypeOK, [Next]_vars PROVE TypeOK'
    OBVIOUS
  <2> USE ReplFacts DEF TypeOK
  <2>1. CASE UNCHANGED vars
    BY <2>1 DEF vars, usbVars, lineVars, hostVars
  <2>2. CASE Connect
    BY <2>2 DEF Connect, lineVars, hostVars
  <2>3. CASE UsbPush
    BY <2>3 DEF UsbPush, lineVars, hostVars
  <2>4. CASE UsbTake
    BY <2>4 DEF UsbTake, lineVars, hostVars
  <2>5. CASE UsbWrite
    BY <2>5 DEF UsbWrite, lineVars
  <2>6. CASE UsbLeave
    BY <2>6 DEF UsbLeave, lineVars, hostVars
  <2>7. CASE Receive
    BY <2>7 DEF Receive, usbVars, lineVars, hostVars
  <2>8. CASE SendFrame
    BY <2>8 DEF SendFrame, usbVars, lineVars, hostVars
  <2>9. CASE Consume
    <3>1. UNCHANGED <<usbVars, rxQueue, txQueue, hostVars, produced>>
      BY <2>9 DEF Consume
    <3> QED BY <2>9, <3>1, ConsumeTypes DEF usbVars, hostVars
  <2>10. ASSUME NEW packet \in Packets, UsbRead(packet) PROVE TypeOK'
    BY <2>10 DEF UsbRead, lineVars
  <2>11. CASE HostOpens
    BY <2>11 DEF HostOpens, usbVars, lineVars
  <2>12. CASE HostCloses
    <3>1. /\ attached' = FALSE
          /\ closings' = closings + 1 /\ closings < MaxClosings
      BY <2>12 DEF HostCloses
    <3>2. UNCHANGED <<usbPc, ingress, pendingTx, rxQueue, txQueue, frame,
                      toSend, len, dropInput, typed, tooLong, sent, shown,
                      produced>>
      BY <2>12 DEF HostCloses, usbVars, lineVars
    <3>3. closings' \in 0..MaxClosings
      BY <3>1, OneMore
    <3> QED BY <3>1, <3>2, <3>3
  <2> QED BY <2>1, <2>2, <2>3, <2>4, <2>5, <2>6, <2>7, <2>8, <2>9, <2>10,
             <2>11, <2>12 DEF Next, UsbLoop, Session, Host
<1> QED BY <1>1, <1>2, PTL DEF Spec
-----------------------------------------------------------------------------
(* The line that is run is the line that was typed: no correction,         *)
(* completion or overflow ever leaves the session listening with a buffer  *)
(* that differs from what its writer sees.                                 *)
THEOREM LinesAreWhole == Spec => []BufferIsTheLine
<1>1. Init => BufferIsTheLine
  BY DEF Init, BufferIsTheLine
<1>2. TypeOK /\ BufferIsTheLine /\ [Next]_vars => BufferIsTheLine'
  <2> SUFFICES ASSUME TypeOK, BufferIsTheLine, [Next]_vars
               PROVE  BufferIsTheLine'
    OBVIOUS
  <2>1. CASE UNCHANGED lineVars
    BY <2>1 DEF lineVars, BufferIsTheLine
  <2>2. CASE Consume
    <3>1. /\ len \in 0..MaxLine /\ MaxLine \in Nat /\ typed \in Nat
          /\ dropInput \in BOOLEAN
      BY ReplFacts DEF TypeOK
    <3>2. CASE Terminator
      BY <3>1, <3>2 DEF Terminator, BufferIsTheLine
    <3>3. CASE Backspace
      BY <3>1, <3>3 DEF Backspace, BufferIsTheLine
    <3>4. CASE ~dropInput /\ Completion
      BY <3>1, <3>4 DEF Completion, Overflow, BufferIsTheLine
    <3>5. CASE Character
      BY <3>1, <3>5 DEF Character, Overflow, BufferIsTheLine
    <3>6. CASE Ignored
      BY <2>1, <3>6 DEF Ignored
    <3> QED BY <2>2, <3>2, <3>3, <3>4, <3>5, <3>6 DEF Consume
  <2>3. CASE UNCHANGED vars
    BY <2>1, <2>3 DEF vars
  <2>4. CASE UsbLoop
    BY <2>1, <2>4 DEF UsbLoop, Connect, UsbPush, UsbTake, UsbWrite, UsbLeave
  <2>5. CASE Receive \/ SendFrame
    BY <2>1, <2>5 DEF Receive, SendFrame
  <2>6. CASE Host
    BY <2>1, <2>6 DEF Host, UsbRead, HostOpens, HostCloses
  <2> QED BY <2>2, <2>3, <2>4, <2>5, <2>6 DEF Next, Session
<1> QED BY <1>1, <1>2, TypeCorrect, PTL DEF Spec
-----------------------------------------------------------------------------
(* The frames in hand, without the concatenation.                          *)
LEMMA InHandForm ==
  ASSUME TypeOK
  PROVE  /\ InHand \in Seq(Nat)
         /\ pendingTx = None => InHand = txQueue
         /\ pendingTx # None =>
              /\ Len(InHand) = Len(txQueue) + 1
              /\ InHand[1] = pendingTx
              /\ \A i \in 1..Len(txQueue) : InHand[i + 1] = txQueue[i]
<1>1. CASE pendingTx = None
  BY <1>1 DEF InHand, Opt, TypeOK
<1>2. CASE pendingTx # None
  <2>1. InHand = <<pendingTx>> \o txQueue
    BY <1>2 DEF InHand, Opt
  <2> QED BY <1>2, <2>1 DEF TypeOK
<1> QED BY <1>1, <1>2

(* What is in hand is numbered without a gap up to the last frame queued.  *)
Numbered ==
  \A i \in DOMAIN InHand : InHand[i] = produced - Len(InHand) + i

\* The host has closed the console and the USB loop has yet to notice.
Leaving == usbPc # "connect" /\ ~attached

(* AnswersInOrder does not hold on to itself: the frame a closed console   *)
(* costs is charged when the host closes it, before the loop drops it.     *)
Charged ==
  /\ Numbered
  /\ Len(InHand) <= produced
  /\ shown <= produced - Len(InHand)
  /\ produced - Len(InHand) + (IF Leaving THEN 1 ELSE 0) <= shown + closings
  /\ usbPc = "connect" => pendingTx = None

LEMMA ChargedTake ==
  ASSUME TypeOK, Charged, UsbTake PROVE Charged'
<1>1. /\ pendingTx = None /\ txQueue # <<>> /\ txQueue \in Seq(Nat)
      /\ pendingTx' = Head(txQueue) /\ txQueue' = Tail(txQueue)
      /\ usbPc = "select" /\ usbPc' = usbPc
      /\ UNCHANGED <<attached, produced, shown, closings>>
  BY DEF UsbTake, TypeOK, hostVars
<1>2. pendingTx' # None
  BY <1>1, ReplFacts
<1>3. InHand' = <<Head(txQueue)>> \o Tail(txQueue) /\ InHand = txQueue
  <2>1. InHand' = <<pendingTx'>> \o txQueue'
    BY <1>2 DEF InHand, Opt
  <2> QED BY <1>1, <2>1, InHandForm
<1>4. InHand' = InHand
  BY <1>1, <1>3
<1> QED BY <1>1, <1>4 DEF Charged, Numbered, Leaving

LEMMA ChargedDrop ==
  ASSUME TypeOK, TypeOK', Charged, UsbWrite \/ UsbLeave \/ Connect
  PROVE  Charged'
<1>1. /\ produced \in Nat /\ shown \in Nat /\ closings \in Nat
      /\ txQueue \in Seq(Nat) /\ txQueue' = txQueue
      /\ produced' = produced /\ pendingTx' = None
      /\ attached' = attached /\ closings' = closings
  <2>1. /\ produced \in Nat /\ shown \in Nat /\ closings \in Nat
        /\ txQueue \in Seq(Nat)
    BY DEF TypeOK
  <2>2. CASE UsbWrite
    BY <2>1, <2>2 DEF UsbWrite
  <2>3. CASE UsbLeave \/ Connect
    BY <2>1, <2>3 DEF UsbLeave, Connect, hostVars
  <2> QED BY <2>2, <2>3
<1>2. InHand' = txQueue /\ Len(txQueue) \in Nat
  BY <1>1 DEF InHand, Opt
<1>3. CASE pendingTx = None
  <2>1. InHand = txQueue
    BY <1>3, InHandForm
  <2>2. ~UsbWrite
    BY <1>3 DEF UsbWrite
  <2>3. shown' = shown /\ (Leaving' => Leaving)
    BY <2>2 DEF UsbLeave, Connect, hostVars, Leaving
  <2> QED BY <1>1, <1>2, <2>1, <2>3, SMT DEF Charged, Numbered
<1>4. CASE pendingTx # None
  <2>1. /\ Len(InHand) = Len(txQueue) + 1
        /\ InHand[1] = pendingTx
        /\ \A i \in 1..Len(txQueue) : InHand[i + 1] = txQueue[i]
    BY <1>4, InHandForm
  <2>2. DOMAIN InHand = 1..(Len(txQueue) + 1)
    BY <2>1, InHandForm
  <2>3. \A i \in 1..Len(txQueue) :
          (i + 1) \in DOMAIN InHand
    BY <1>2, <2>2
  <2>4. Numbered'
    <3>1. ASSUME NEW i \in 1..Len(txQueue)
          PROVE  txQueue[i] = produced - Len(txQueue) + i
      <4>1. InHand[i + 1] = produced - Len(InHand) + (i + 1)
        BY <2>3 DEF Charged, Numbered
      <4>2. InHand[i + 1] = txQueue[i]
        BY <2>1
      <4> QED BY <1>1, <1>2, <2>1, <4>1, <4>2
    <3> QED BY <1>1, <1>2, <3>1 DEF Numbered
  <2>5. pendingTx = produced - Len(txQueue)
    <3>1. 1 \in DOMAIN InHand
      BY <1>2, <2>2
    <3>2. InHand[1] = produced - Len(InHand) + 1
      BY <3>1 DEF Charged, Numbered
    <3> QED BY <1>1, <1>2, <2>1, <3>2
  <2>6. CASE UsbWrite
    <3>1. shown' = pendingTx /\ usbPc' = usbPc /\ attached /\ usbPc = "select"
      BY <2>6 DEF UsbWrite
    <3>2. ~Leaving'
      BY <1>1, <3>1 DEF Leaving
    <3> QED BY <1>1, <1>2, <2>1, <2>4, <2>5, <3>1, <3>2 DEF Charged
  <2>7. CASE UsbLeave
    <3>1. shown' = shown /\ usbPc' = "connect" /\ Leaving /\ ~Leaving'
      BY <2>7 DEF UsbLeave, hostVars, Leaving
    <3> QED BY <1>1, <1>2, <2>1, <2>4, <3>1 DEF Charged
  <2>8. ~Connect
    BY <1>4 DEF Connect, Charged
  <2> QED BY <2>6, <2>7, <2>8
<1> QED BY <1>3, <1>4

LEMMA ChargedSend ==
  ASSUME TypeOK, TypeOK', Charged, SendFrame PROVE Charged'
<1>1. /\ produced \in Nat /\ produced' = produced + 1
      /\ txQueue \in Seq(Nat) /\ txQueue' = Append(txQueue, produced + 1)
      /\ UNCHANGED <<usbPc, pendingTx, attached, shown, closings>>
  BY DEF SendFrame, TypeOK, usbVars, hostVars
<1>2. InHand' = Append(InHand, produced + 1)
  <2>1. CASE pendingTx = None
    <3>1. InHand = txQueue /\ InHand' = txQueue'
      BY <1>1, <2>1, InHandForm DEF InHand, Opt
    <3> QED BY <1>1, <3>1
  <2>2. CASE pendingTx # None
    <3>1. /\ InHand = <<pendingTx>> \o txQueue
          /\ InHand' = <<pendingTx>> \o txQueue'
      BY <1>1, <2>2 DEF InHand, Opt
    <3>2. pendingTx \in Nat
      BY <2>2 DEF TypeOK
    <3> QED BY <1>1, <3>1, <3>2, SMTT(30)
  <2> QED BY <2>1, <2>2
<1>3. InHand \in Seq(Nat)
  BY InHandForm
<1>4. /\ Len(InHand) \in Nat /\ Len(InHand') = Len(InHand) + 1
      /\ DOMAIN InHand' = 1..(Len(InHand) + 1)
      /\ \A i \in 1..Len(InHand) : InHand'[i] = InHand[i]
      /\ InHand'[Len(InHand) + 1] = produced + 1
  BY <1>1, <1>2, <1>3
<1>5. Numbered'
  <2>1. DOMAIN InHand = 1..Len(InHand)
    BY <1>3
  <2>2. \A i \in 1..Len(InHand) : InHand[i] = produced - Len(InHand) + i
    BY <2>1 DEF Charged, Numbered
  <2>3. ASSUME NEW i \in 1..(Len(InHand) + 1)
        PROVE  InHand'[i] = produced' - Len(InHand') + i
    <3>1. produced' - Len(InHand') = produced - Len(InHand)
      BY <1>1, <1>4
    <3>2. CASE i = Len(InHand) + 1
      BY <1>1, <1>4, <3>1, <3>2
    <3>3. CASE i # Len(InHand) + 1
      <4>1. i \in 1..Len(InHand)
        BY <1>4, <3>3
      <4> QED BY <1>4, <2>2, <3>1, <4>1
    <3> QED BY <3>2, <3>3
  <2> QED BY <1>4, <2>3 DEF Numbered
<1>6. shown \in Nat /\ closings \in Nat
  BY DEF TypeOK
<1>7. Leaving' = Leaving
  BY <1>1 DEF Leaving
<1> QED BY <1>1, <1>4, <1>5, <1>6, <1>7 DEF Charged

(* Frames reach the host in order, none twice, and a closed console costs  *)
(* at most the frame being written.                                        *)
THEOREM AnswersOrdered == Spec => []AnswersInOrder
<1>1. Init => Charged
  BY DEF Init, Charged, Numbered, InHand, Opt, Leaving
<1>2. TypeOK /\ TypeOK' /\ Charged /\ [Next]_vars => Charged'
  <2> SUFFICES ASSUME TypeOK, TypeOK', Charged, [Next]_vars PROVE Charged'
    OBVIOUS
  <2>1. CASE UNCHANGED <<txQueue, pendingTx, usbPc, attached, produced, shown,
                         closings>>
    BY <2>1 DEF Charged, Numbered, InHand, Leaving
  <2>2. CASE UNCHANGED vars
    BY <2>1, <2>2 DEF vars, usbVars, hostVars
  <2>3. CASE UsbPush \/ \E packet \in Packets : UsbRead(packet)
    <3>1. /\ UNCHANGED <<txQueue, pendingTx, attached, produced, shown,
                         closings>>
          /\ usbPc # "connect" /\ usbPc' # "connect"
      BY <2>3 DEF UsbPush, UsbRead, hostVars
    <3>2. InHand' = InHand /\ Leaving' = Leaving
      BY <3>1 DEF InHand, Leaving
    <3> QED BY <3>1, <3>2 DEF Charged, Numbered
  <2>4. CASE UsbTake
    BY <2>4, ChargedTake
  <2>5. CASE UsbWrite \/ UsbLeave \/ Connect
    BY <2>5, ChargedDrop
  <2>6. CASE Receive \/ Consume
    BY <2>1, <2>6 DEF Receive, Consume, usbVars, hostVars
  <2>7. CASE SendFrame
    BY <2>7, ChargedSend
  <2>8. CASE HostOpens \/ HostCloses
    <3>1. UNCHANGED <<txQueue, pendingTx, usbPc, produced, shown>>
      BY <2>8 DEF HostOpens, HostCloses, usbVars
    <3>2. InHand' = InHand /\ InHand \in Seq(Nat)
      BY <3>1, InHandForm DEF InHand
    <3>3. \/ closings' = closings /\ ~Leaving'
          \/ closings' = closings + 1 /\ ~Leaving
      BY <2>8 DEF HostOpens, HostCloses, Leaving
    <3>4. /\ produced \in Nat /\ shown \in Nat /\ closings \in Nat
          /\ Len(InHand) \in Nat
      BY <3>2 DEF TypeOK
    <3> QED BY <3>1, <3>2, <3>3, <3>4 DEF Charged, Numbered
  <2> QED BY <2>2, <2>3, <2>4, <2>5, <2>6, <2>7, <2>8
          DEF Next, UsbLoop, Session, Host
<1>3. TypeOK /\ Charged => AnswersInOrder
  <2> SUFFICES ASSUME TypeOK, Charged PROVE AnswersInOrder
    OBVIOUS
  <2>1. /\ produced \in Nat /\ shown \in Nat /\ closings \in Nat
        /\ Len(InHand) \in Nat
    BY InHandForm DEF TypeOK
  <2> QED BY <2>1 DEF Charged, Numbered, AnswersInOrder
<1> QED BY <1>1, <1>2, <1>3, TypeCorrect, PTL DEF Spec
=============================================================================
