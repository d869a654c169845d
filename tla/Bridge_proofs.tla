--------------------------- MODULE Bridge_proofs ----------------------------
(***************************************************************************)
(* Theorems about Bridge, for every depth of the channels and of the       *)
(* activity bus, with and without a task that polls the monitor.           *)
(***************************************************************************)
EXTENDS Bridge, QueueLemmas

(* The type invariant in two parts, one for each of the provers: the       *)
(* flags, and everything else.                                             *)
FlagsOK == attached \in BOOLEAN /\ pending \in BOOLEAN /\ linkSeen \in BOOLEAN
DataOK ==
  /\ usbPc \in {"connect", "select", "push"}
  /\ ingress \in Frames \cup {None}
  /\ ingress # None <=> usbPc = "push"
  /\ pendingTx \in Frames \cup {None}
  /\ usbToTtl \in Seq(Frames) /\ Len(usbToTtl) <= Depth
  /\ ttlToUsb \in Seq(Frames) /\ Len(ttlToUsb) <= Depth
  /\ txPc \in {"receive", "write", "flush", "report", "pause"}
  /\ txFrame \in Frames \cup {None}
  /\ txFrame # None <=> txPc \in {"write", "flush", "report"}
  /\ rxPc \in {"read", "push", "report", "pause"}
  /\ rxFrame \in Frames \cup {None}
  /\ rxFrame # None <=> rxPc \in {"push", "report"}
  /\ activity \in Seq(Activities) /\ Len(activity) <= ActivityDepth
  /\ lastTx \in Frames \cup {None} /\ lastRx \in Frames \cup {None}
  /\ fromHost \in 0..MaxFrames /\ fromJetson \in 0..MaxFrames
  /\ toJetson \in Seq(Frames) /\ toHost \in Seq(Frames)
  /\ damaged \subseteq Frames

LEMMA TypeParts == TypeOK <=> FlagsOK /\ DataOK
BY Zenon DEF TypeOK, FlagsOK, DataOK

LEMMA FramesAreNoOption == Frames \subseteq Nat /\ None \notin Frames
BY BridgeAssumption, SMT DEF Frames

LEMMA FlagsStep == FlagsOK /\ [Next]_vars => FlagsOK'
<1> SUFFICES ASSUME FlagsOK, [Next]_vars PROVE FlagsOK'
  OBVIOUS
<1> USE DEF FlagsOK
<1>1. CASE UsbLoop \/ UsbToUart \/ UartToUsb \/ UNCHANGED vars
  BY <1>1, Zenon DEF UsbLoop, Connect, UsbPush, UsbTake, UsbWrite, UsbLeave,
     UsbToUart, TxReceive, TxWrite, TxFlush, TxError, TxReport, TxResume,
     UartToUsb, RxPush, RxReport, RxResume, vars, monitorVars
<1>2. CASE Monitor
  BY <1>2, Zenon DEF Monitor, MonitorPoll, AwaitRelease, NotifyUsb
<1>3. CASE Outside
  BY <1>3, Zenon DEF Outside, UsbRead, RxRead, RxError, HostSwitches,
     monitorVars
<1> QED BY <1>1, <1>2, <1>3 DEF Next

LEMMA DataStep == DataOK /\ [Next]_vars => DataOK'
<1> SUFFICES ASSUME DataOK, [Next]_vars PROVE DataOK'
  OBVIOUS
<1> USE BridgeAssumption DEF DataOK
<1>a. \A kind \in {"UsbToJetson", "JetsonToUsb"}, frame \in Frames :
        Report(kind, frame) =>
          activity' \in Seq(Activities) /\ Len(activity') <= ActivityDepth
  <2> SUFFICES ASSUME NEW kind \in {"UsbToJetson", "JetsonToUsb"},
                      NEW frame \in Frames, Report(kind, frame)
               PROVE  activity' \in Seq(Activities)
                        /\ Len(activity') <= ActivityDepth
    OBVIOUS
  <2>1. [kind |-> kind, frame |-> frame] \in Activities
    BY Zenon DEF Activities
  <2> QED BY <2>1, AppendProperties, LenProperties, SMT DEF Report
<1>1. CASE Connect
  BY <1>1, SMT DEF Connect, txVars, rxVars, monitorVars, wireVars
<1>2. CASE UsbRead
  BY <1>2, SMT DEF UsbRead, txVars, rxVars, monitorVars, Frames
<1>3. CASE UsbPush
  BY <1>3, SMT DEF UsbPush, txVars, rxVars, monitorVars, wireVars
<1>4. CASE UsbTake
  BY <1>4, QueueHead, SMT DEF UsbTake, txVars, rxVars, monitorVars, wireVars
<1>5. CASE UsbWrite
  BY <1>5, SMT DEF UsbWrite, txVars, rxVars, monitorVars
<1>6. CASE UsbLeave
  BY <1>6, SMT DEF UsbLeave, txVars, rxVars, monitorVars, wireVars
<1>7. CASE TxReceive
  <2>1. /\ Head(usbToTtl) \in Frames /\ Tail(usbToTtl) \in Seq(Frames)
        /\ Len(Tail(usbToTtl)) <= Depth /\ Head(usbToTtl) # None
    BY <1>7, QueueHead, FramesAreNoOption, SMT DEF TxReceive
  <2> QED BY <1>7, <2>1, SMT DEF TxReceive, usbVars, rxVars, monitorVars,
          wireVars
<1>8. CASE TxWrite
  BY <1>8, SMT DEF TxWrite, usbVars, rxVars, monitorVars, wireVars
<1>9. CASE TxFlush
  BY <1>9, SMT DEF TxFlush, usbVars, rxVars, monitorVars
<1>10. CASE TxError
  <2>1. txFrame \in Frames /\ txFrame # None
    BY <1>10, SMT DEF TxError
  <2>2. Append(toJetson, txFrame) \in Seq(Frames)
    BY <2>1, AppendProperties
  <2>3. toJetson' \in Seq(Frames)
    BY <1>10, <2>2, Zenon DEF TxError
  <2>4. damaged' \subseteq Frames
    BY <1>10, <2>1, Zenon DEF TxError
  <2> QED BY <1>10, <2>3, <2>4, SMT DEF TxError, usbVars, rxVars, monitorVars
<1>11. CASE TxReport
  <2>1. activity' \in Seq(Activities) /\ Len(activity') <= ActivityDepth
    BY <1>11, <1>a DEF TxReport
  <2> QED BY <1>11, <2>1, SMT DEF TxReport, usbVars, rxVars, monitorVars,
          wireVars
<1>12. CASE TxResume
  BY <1>12, SMT DEF TxResume, usbVars, rxVars, monitorVars, wireVars
<1>13. CASE RxRead
  BY <1>13, SMT DEF RxRead, usbVars, txVars, monitorVars, Frames
<1>14. CASE RxError
  BY <1>14, SMT DEF RxError, usbVars, txVars, monitorVars, wireVars
<1>15. CASE RxPush
  BY <1>15, SMT DEF RxPush, usbVars, txVars, monitorVars, wireVars
<1>16. CASE RxReport
  <2>1. activity' \in Seq(Activities) /\ Len(activity') <= ActivityDepth
    BY <1>16, <1>a DEF RxReport
  <2> QED BY <1>16, <2>1, SMT DEF RxReport, usbVars, txVars, monitorVars,
          wireVars
<1>17. CASE RxResume
  BY <1>17, SMT DEF RxResume, usbVars, txVars, monitorVars, wireVars
<1>18. CASE MonitorPoll
  <2>1. /\ Head(activity) \in Activities /\ Tail(activity) \in Seq(Activities)
        /\ Len(Tail(activity)) <= ActivityDepth
    BY <1>18, QueueHead, SMT DEF MonitorPoll
  <2>2. Head(activity).frame \in Frames
    BY <2>1, Zenon DEF Activities
  <2>3. lastTx' \in Frames \cup {None} /\ lastRx' \in Frames \cup {None}
    BY <1>18, <2>2, Zenon DEF MonitorPoll
  <2> QED BY <1>18, <2>1, <2>3, SMT DEF MonitorPoll, usbVars, txVars, rxVars,
          wireVars
<1>19. CASE AwaitRelease
  BY <1>19, SMT DEF AwaitRelease, usbVars, txVars, rxVars, wireVars
<1>20. CASE NotifyUsb
  BY <1>20, SMT DEF NotifyUsb, usbVars, txVars, rxVars, wireVars
<1>21. CASE HostSwitches
  BY <1>21, SMT DEF HostSwitches, usbVars, txVars, rxVars, monitorVars,
     wireVars
<1>22. CASE UNCHANGED vars
  BY <1>22, SMT DEF vars, usbVars, txVars, rxVars, monitorVars, wireVars
<1> QED
  BY <1>1, <1>2, <1>3, <1>4, <1>5, <1>6, <1>7, <1>8, <1>9, <1>10, <1>11,
     <1>12, <1>13, <1>14, <1>15, <1>16, <1>17, <1>18, <1>19, <1>20, <1>21,
     <1>22
     DEF Next, UsbLoop, UsbToUart, UartToUsb, Monitor, Outside

(* Every loop, channel and history variable keeps its type; a loop holds a *)
(* frame exactly where its state says so, and no channel exceeds its depth.*)
THEOREM TypeCorrect == Spec => []TypeOK
<1>1. Init => FlagsOK
  BY Zenon DEF Init, FlagsOK
<1>2. Init => DataOK
  BY BridgeAssumption, SMT DEF Init, DataOK, Frames
<1>3. TypeOK /\ [Next]_vars => TypeOK'
  BY FlagsStep, DataStep, TypeParts DEF TypeOK, FlagsOK, DataOK
<1> QED BY <1>1, <1>2, <1>3, TypeParts, PTL DEF Spec

-----------------------------------------------------------------------------
(* A pipeline is a concatenation of what arrived, what is in hand and what *)
(* is queued.  Its stages hand a frame on without changing the whole.      *)

\* A loop takes the head of the queue in hand.
LEMMA TakeKeepsAll ==
  ASSUME NEW S, NEW a \in Seq(S), NEW q \in Seq(S), q # <<>>
  PROVE  (a \o <<Head(q)>>) \o Tail(q) = (a \o <<>>) \o q
<1>1. Tail(q) \in Seq(S) /\ <<Head(q)>> \in Seq(S)
  BY QueueHead, OneTyped
<1> QED BY <1>1, ConcatAssociative, ConcatEmptySeq, HeadThenTail

\* A loop puts what it has in hand at the end of the queue.
LEMMA PutKeepsAll ==
  ASSUME NEW S, NEW a \in Seq(S), NEW q \in Seq(S), NEW e \in S
  PROVE  (a \o Append(q, e)) \o <<>> = (a \o q) \o <<e>>
<1>1. <<e>> \in Seq(S) /\ Append(q, e) \in Seq(S)
        /\ Append(q, e) = q \o <<e>>
  BY OneTyped, AppendProperties, AppendIsConcat
<1>2. a \o Append(q, e) \in Seq(S)
  BY <1>1, ConcatTyped
<1> QED BY <1>1, <1>2, ConcatAssociative, ConcatEmptySeq

\* What is in hand arrives.
LEMMA ArriveKeepsAll ==
  ASSUME NEW S, NEW a \in Seq(S), NEW e \in S
  PROVE  Append(a, e) \o <<>> = a \o <<e>>
BY OneTyped, AppendProperties, AppendIsConcat, ConcatEmptySeq

LEMMA UpToGrows ==
  ASSUME NEW n \in Nat
  PROVE  UpTo(n) \o <<n + 1>> = UpTo(n + 1)
<1>1. UpTo(n) \in Seq(Nat) /\ Len(UpTo(n)) = n
  BY SMT DEF UpTo
<1>2. UpTo(n + 1) \in Seq(Nat) /\ Len(UpTo(n + 1)) = n + 1
  BY SMT DEF UpTo
<1>3. <<n + 1>> \in Seq(Nat) /\ Len(<<n + 1>>) = 1 /\ <<n + 1>>[1] = n + 1
  BY OneTyped
<1> DEFINE r == UpTo(n) \o <<n + 1>>
<1>4. r \in Seq(Nat) /\ Len(r) = n + 1
        /\ \A i \in 1..(n + 1) :
             r[i] = IF i <= n THEN UpTo(n)[i] ELSE <<n + 1>>[i - n]
  BY <1>1, <1>3, ConcatProperties
<1>5. \A i \in 1..(n + 1) : r[i] = UpTo(n + 1)[i]
  BY <1>3, <1>4, SMT DEF UpTo
<1> QED BY <1>2, <1>4, <1>5, SeqEqual
-----------------------------------------------------------------------------
(* Jetson to host *)

RxHand == IF rxPc = "push" THEN <<rxFrame>> ELSE <<>>

LEMMA StagesTyped ==
  ASSUME DataOK
  PROVE  /\ Opt(pendingTx) \in Seq(Frames) /\ Opt(ingress) \in Seq(Frames)
         /\ RxHand \in Seq(Frames)
         /\ toHost \o Opt(pendingTx) \in Seq(Frames)
         /\ toHost \o Opt(pendingTx) \o ttlToUsb \in Seq(Frames)
<1>1. Opt(pendingTx) \in Seq(Frames) /\ Opt(ingress) \in Seq(Frames)
  BY OneTyped, EmptySeq DEF DataOK, Opt
<1>2. RxHand \in Seq(Frames)
  BY OneTyped, EmptySeq DEF DataOK, RxHand
<1>3. toHost \o Opt(pendingTx) \in Seq(Frames)
  BY <1>1, ConcatTyped DEF DataOK
<1> QED BY <1>1, <1>2, <1>3, ConcatTyped DEF DataOK

LEMMA ToHostStep ==
  ASSUME DataOK, ToHostExact, [Next]_vars
  PROVE  ToHostExact'
<1> USE DEF ToHostExact, ToHostFrames
<1>1. CASE UsbTake
  <2>1. Opt(pendingTx) = <<>> /\ Opt(pendingTx') = <<Head(ttlToUsb)>>
    <3>1. Head(ttlToUsb) # None
      BY <1>1, QueueHead, FramesAreNoOption DEF UsbTake, DataOK
    <3> QED BY <1>1, <3>1 DEF UsbTake, Opt
  <2>2. toHost \o <<Head(ttlToUsb)>> \o Tail(ttlToUsb)
          = toHost \o <<>> \o ttlToUsb
    BY <1>1, TakeKeepsAll DEF UsbTake, DataOK
  <2> QED BY <1>1, <2>1, <2>2 DEF UsbTake, rxVars, wireVars
<1>2. CASE UsbWrite
  <2>1. pendingTx \in Frames /\ Opt(pendingTx) = <<pendingTx>>
          /\ Opt(pendingTx') = <<>>
    BY <1>2 DEF UsbWrite, DataOK, Opt
  <2>2. Append(toHost, pendingTx) \o <<>> = toHost \o <<pendingTx>>
    BY <2>1, ArriveKeepsAll DEF DataOK
  <2> QED BY <1>2, <2>1, <2>2 DEF UsbWrite, rxVars
<1>3. CASE RxRead
  <2>1. RxHand = <<>> /\ RxHand' = <<fromJetson + 1>>
    BY <1>3 DEF RxRead, RxHand
  <2>2. UpTo(fromJetson) \o <<fromJetson + 1>> = UpTo(fromJetson + 1)
    BY UpToGrows, BridgeAssumption, SMT DEF DataOK
  <2>3. toHost \o Opt(pendingTx) \o ttlToUsb = UpTo(fromJetson)
    BY <2>1, StagesTyped, ConcatEmptySeq DEF RxHand
  <2>4. toHost' \o Opt(pendingTx)' \o ttlToUsb' = UpTo(fromJetson)
    BY <1>3, <2>3 DEF RxRead, usbVars, Opt
  <2> QED BY <1>3, <2>1, <2>2, <2>4 DEF RxRead, RxHand
<1>4. CASE RxPush
  <2>1. RxHand = <<rxFrame>> /\ RxHand' = <<>> /\ rxFrame \in Frames
    BY <1>4 DEF RxPush, RxHand, DataOK
  <2>2. toHost \o Opt(pendingTx) \o Append(ttlToUsb, rxFrame) \o <<>>
          = toHost \o Opt(pendingTx) \o ttlToUsb \o <<rxFrame>>
    <3> DEFINE before == toHost \o Opt(pendingTx)
    <3>1. before \in Seq(Frames) /\ ttlToUsb \in Seq(Frames)
      BY StagesTyped DEF DataOK
    <3> HIDE DEF before
    <3>2. before \o Append(ttlToUsb, rxFrame) \o <<>>
            = before \o ttlToUsb \o <<rxFrame>>
      BY <2>1, <3>1, PutKeepsAll
    <3> QED BY <3>2 DEF before
  <2> QED BY <1>4, <2>1, <2>2 DEF RxPush, RxHand, usbVars, wireVars, Opt
<1>5. CASE /\ UNCHANGED <<toHost, pendingTx, ttlToUsb, fromJetson>>
           /\ RxHand' = RxHand
  BY <1>5 DEF RxHand, Opt
<1>6. CASE UsbToUart \/ Monitor \/ Connect \/ UsbPush \/ UsbLeave \/ UsbRead
             \/ HostSwitches \/ UNCHANGED vars
  BY <1>5, <1>6 DEF UsbToUart, TxReceive, TxWrite, TxFlush, TxError, TxReport,
     TxResume, Monitor, MonitorPoll, AwaitRelease, NotifyUsb, Connect, UsbPush,
     UsbLeave, UsbRead, HostSwitches, vars, usbVars, rxVars, wireVars, RxHand
<1>7. CASE RxError \/ RxReport \/ RxResume
  BY <1>5, <1>7 DEF RxError, RxReport, RxResume, usbVars, wireVars, RxHand
<1> QED
  BY <1>1, <1>2, <1>3, <1>4, <1>6, <1>7
     DEF Next, UsbLoop, UsbToUart, UartToUsb, Outside

(* Jetson to host the bridge loses, duplicates and reorders nothing.       *)
THEOREM ToHostIsExact == Spec => []ToHostExact
<1>1. Init => ToHostExact
  <2>1. ASSUME Init PROVE ToHostFrames = <<>>
    BY <2>1, ConcatEmptySeq, EmptySeq DEF Init, ToHostFrames, Opt
  <2>2. UpTo(0) = <<>>
    BY SMT DEF UpTo
  <2> QED BY <2>1, <2>2 DEF Init, ToHostExact
<1>2. DataOK /\ ToHostExact /\ [Next]_vars => ToHostExact'
  BY ToHostStep
<1>3. TypeOK => DataOK
  BY TypeParts
<1> QED BY <1>1, <1>2, <1>3, TypeCorrect, PTL DEF Spec
-----------------------------------------------------------------------------
(* Host to Jetson *)

(* A frame taken out of the middle leaves the order as it was and the      *)
(* other frames in place.                                                  *)
LEMMA DropKeepsOthers ==
  ASSUME NEW a \in Seq(Frames), NEW e \in Frames, NEW r \in Seq(Frames)
  PROVE  LET s == (a \o <<e>>) \o r
             t == a \o r
         IN /\ Increasing(s) => Increasing(t)
            /\ \A i \in DOMAIN t : Given(s, t[i])
            /\ \A f : Given(s, f) => f = e \/ Given(t, f)
<1> DEFINE s == (a \o <<e>>) \o r
           t == a \o r
           n == Len(a)
           kept(i) == IF i <= n THEN i ELSE i + 1
<1>1. /\ n \in Nat /\ Len(r) \in Nat
      /\ DOMAIN t = 1..(n + Len(r)) /\ DOMAIN s = 1..(n + 1 + Len(r))
      /\ \A i \in 1..n : t[i] = a[i] /\ s[i] = a[i]
      /\ s[n + 1] = e
      /\ \A i \in 1..Len(r) : t[n + i] = r[i] /\ s[n + 1 + i] = r[i]
  <2>1. <<e>> \in Seq(Frames) /\ Len(<<e>>) = 1 /\ <<e>>[1] = e
    BY OneTyped
  <2>2. /\ n \in Nat /\ Len(r) \in Nat
        /\ DOMAIN t = 1..(n + Len(r))
        /\ \A i \in 1..n : t[i] = a[i]
        /\ \A i \in 1..Len(r) : t[n + i] = r[i]
    BY IndexedConcat
  <2> DEFINE u == a \o <<e>>
  <2>3. /\ u \in Seq(Frames) /\ DOMAIN u = 1..(n + 1)
        /\ \A i \in 1..n : u[i] = a[i]
        /\ u[n + 1] = e
    <3>1. /\ u \in Seq(Frames) /\ DOMAIN u = 1..(n + Len(<<e>>))
          /\ \A i \in 1..n : u[i] = a[i]
          /\ \A i \in 1..Len(<<e>>) : u[n + i] = <<e>>[i]
      BY <2>1, IndexedConcat
    <3> QED BY <3>1, <2>1, SMT
  <2>4. Len(u) = n + 1
    BY <2>2, <2>3, LenProperties, SMT
  <2> HIDE DEF u
  <2>5. /\ DOMAIN (u \o r) = 1..(Len(u) + Len(r))
        /\ \A i \in 1..Len(u) : (u \o r)[i] = u[i]
        /\ \A i \in 1..Len(r) : (u \o r)[Len(u) + i] = r[i]
    BY <2>3, IndexedConcat
  <2>6. s = u \o r
    BY DEF u
  <2> HIDE DEF s, t, n
  <2> QED BY <2>2, <2>3, <2>4, <2>5, <2>6, SMT
<1> HIDE DEF s, t, n
<1>2. \A i \in DOMAIN t : kept(i) \in DOMAIN s /\ t[i] = s[kept(i)]
  <2> SUFFICES ASSUME NEW i \in DOMAIN t
               PROVE  kept(i) \in DOMAIN s /\ t[i] = s[kept(i)]
    OBVIOUS
  <2>1. CASE i <= n
    BY <1>1, <2>1, SMT
  <2>2. CASE i > n
    <3>1. i - n \in 1..Len(r) /\ i = n + (i - n) /\ i + 1 = n + 1 + (i - n)
      BY <1>1, <2>2, SMT
    <3> QED BY <1>1, <2>2, <3>1, SMT
  <2> QED BY <2>1, <2>2, <1>1, SMT
<1>3. \A i, j \in DOMAIN t : i < j => kept(i) < kept(j)
  BY <1>1, SMT
<1>4. Increasing(s) => Increasing(t)
  BY <1>2, <1>3, SMT DEF Increasing
<1>5. \A i \in DOMAIN t : Given(s, t[i])
  BY <1>2, Zenon DEF Given
<1>6. \A f : Given(s, f) => f = e \/ Given(t, f)
  <2> SUFFICES ASSUME NEW j \in DOMAIN s, s[j] # e
               PROVE  Given(t, s[j])
    BY DEF Given
  <2>1. CASE j <= n
    BY <1>1, <2>1, SMT DEF Given
  <2>2. CASE j > n
    <3>1. j # n + 1 /\ j \in 1..(n + 1 + Len(r))
      BY <1>1
    <3>2. PICK k \in 1..Len(r) : j = n + 1 + k
      <4>1. j - (n + 1) \in 1..Len(r)
        BY <1>1, <2>2, <3>1, SMT
      <4>2. j = n + 1 + (j - (n + 1))
        BY <1>1, <3>1, SMT
      <4> QED BY <4>1, <4>2
    <3>3. n + k \in DOMAIN t /\ t[n + k] = s[j]
      BY <1>1, <3>2, SMT
    <3> QED BY <3>3 DEF Given
  <2> QED BY <1>1, <2>1, <2>2, SMT
<1> QED BY <1>4, <1>5, <1>6 DEF s, t
TxHand == IF txPc \in {"write", "flush"} THEN <<txFrame>> ELSE <<>>

Exact(s, n, d) ==
  /\ Increasing(s)
  /\ \A i \in DOMAIN s : s[i] <= n
  /\ \A f \in 1..n : Given(s, f) \/ f \in d

LEMMA ToJetsonParts ==
  /\ ToJetsonFrames = toJetson \o TxHand \o usbToTtl \o Opt(ingress)
  /\ ToJetsonExact <=> Exact(ToJetsonFrames, fromHost, damaged)
BY Zenon DEF ToJetsonFrames, TxHand, ToJetsonExact, Exact

LEMMA TxStagesTyped ==
  ASSUME DataOK
  PROVE  /\ toJetson \in Seq(Frames) /\ usbToTtl \in Seq(Frames)
         /\ TxHand \in Seq(Frames) /\ Opt(ingress) \in Seq(Frames)
         /\ toJetson \o TxHand \in Seq(Frames)
         /\ toJetson \o TxHand \o usbToTtl \in Seq(Frames)
         /\ usbToTtl \o Opt(ingress) \in Seq(Frames)
         /\ fromHost \in Nat
<1>1. TxHand \in Seq(Frames)
  BY OneTyped, EmptySeq DEF DataOK, TxHand
<1>2. toJetson \o TxHand \in Seq(Frames)
  BY <1>1, ConcatTyped DEF DataOK
<1>3. fromHost \in Nat
  BY BridgeAssumption, SMT DEF DataOK
<1> QED BY <1>1, <1>2, <1>3, StagesTyped, ConcatTyped DEF DataOK

LEMMA GrowKeepsExact ==
  ASSUME NEW s \in Seq(Frames), NEW n \in Nat, NEW d, n + 1 \in Frames,
         Exact(s, n, d)
  PROVE  Exact(s \o <<n + 1>>, n + 1, d)
<1> DEFINE t == s \o <<n + 1>>
<1>1. /\ Len(s) \in Nat /\ DOMAIN s = 1..Len(s) /\ DOMAIN t = 1..(Len(s) + 1)
      /\ \A i \in 1..Len(s) : t[i] = s[i]
      /\ t[Len(s) + 1] = n + 1
  <2>1. <<n + 1>> \in Seq(Frames) /\ Len(<<n + 1>>) = 1 /\ <<n + 1>>[1] = n + 1
    BY OneTyped
  <2>2. /\ Len(s) \in Nat /\ DOMAIN s = 1..Len(s)
        /\ DOMAIN t = 1..(Len(s) + Len(<<n + 1>>))
        /\ \A i \in 1..Len(s) : t[i] = s[i]
        /\ \A i \in 1..Len(<<n + 1>>) : t[Len(s) + i] = <<n + 1>>[i]
    BY <2>1, IndexedConcat
  <2> HIDE DEF t
  <2> QED BY <2>1, <2>2, SMT
<1>2. \A i \in DOMAIN s : s[i] \in Nat
  BY <1>1, ElementOfSeq, FramesAreNoOption
<1> HIDE DEF t
<1>3. \A i \in DOMAIN t : t[i] \in Nat /\ t[i] <= n + 1
                       /\ (i <= Len(s) => t[i] <= n)
  BY <1>1, <1>2, SMT DEF Exact
<1>4. Increasing(t)
  <2> SUFFICES ASSUME NEW i \in DOMAIN t, NEW j \in DOMAIN t, i < j
               PROVE  t[i] < t[j]
    BY DEF Increasing
  <2>1. CASE j <= Len(s)
    BY <1>1, <2>1, SMT DEF Exact, Increasing
  <2>2. CASE j = Len(s) + 1
    BY <1>1, <1>3, <2>2, SMT
  <2> QED BY <1>1, <2>1, <2>2, SMT
<1>5. \A f \in 1..(n + 1) : Given(t, f) \/ f \in d
  <2> SUFFICES ASSUME NEW f \in 1..(n + 1) PROVE Given(t, f) \/ f \in d
    OBVIOUS
  <2>1. CASE f \in 1..n
    <3>1. CASE Given(s, f)
      <4>1. PICK i \in 1..Len(s) : s[i] = f
        BY <1>1, <3>1 DEF Given
      <4>2. i \in DOMAIN t /\ t[i] = f
        BY <1>1, <4>1, SMT
      <4> QED BY <4>2 DEF Given
    <3> QED BY <2>1, <3>1 DEF Exact
  <2>2. CASE f = n + 1
    <3>1. Len(s) + 1 \in DOMAIN t
      BY <1>1, SMT
    <3> QED BY <1>1, <2>2, <3>1 DEF Given
  <2> QED BY <2>1, <2>2, SMT
<1> QED BY <1>3, <1>4, <1>5 DEF Exact, t

LEMMA ToJetsonStep ==
  ASSUME DataOK, ToJetsonExact, [Next]_vars
  PROVE  ToJetsonExact'
<1> DEFINE all == toJetson \o TxHand \o usbToTtl \o Opt(ingress)
<1>a. Exact(all, fromHost, damaged)
  BY ToJetsonParts
<1> SUFFICES Exact(all', fromHost', damaged')
  BY ToJetsonParts DEF TxHand, Opt, ToJetsonFrames, ToJetsonExact, Exact
<1>b. ASSUME all' = all, fromHost' = fromHost, damaged \subseteq damaged'
      PROVE  Exact(all', fromHost', damaged')
  <2> HIDE DEF all
  <2> QED BY <1>a, <1>b, Zenon DEF Exact
<1>1. CASE UsbRead
  <2>1. Opt(ingress) = <<>> /\ Opt(ingress)' = <<fromHost + 1>>
    BY <1>1, FramesAreNoOption, BridgeAssumption, SMT
       DEF UsbRead, DataOK, Opt
  <2> DEFINE rest == toJetson \o TxHand \o usbToTtl
  <2>2. rest \in Seq(Frames) /\ all = rest
    BY <2>1, TxStagesTyped, ConcatEmptySeq
  <2>3. all' = rest \o <<fromHost + 1>>
    BY <1>1, <2>1 DEF UsbRead, txVars, TxHand
  <2>4. fromHost + 1 \in Frames /\ fromHost \in Nat
    BY <1>1, BridgeAssumption, SMT DEF UsbRead, DataOK, Frames
  <2> HIDE DEF rest, all
  <2>5. Exact(rest \o <<fromHost + 1>>, fromHost + 1, damaged)
    BY <1>a, <2>2, <2>4, GrowKeepsExact
  <2> QED BY <1>1, <2>3, <2>5 DEF UsbRead
<1>2. CASE UsbPush
  <2>1. ingress \in Frames /\ Opt(ingress) = <<ingress>> /\ Opt(ingress)' = <<>>
    BY <1>2 DEF UsbPush, DataOK, Opt
  <2> DEFINE before == toJetson \o TxHand
  <2>2. before \in Seq(Frames) /\ usbToTtl \in Seq(Frames)
    BY TxStagesTyped
  <2>3. all' = before \o Append(usbToTtl, ingress) \o <<>>
    BY <1>2, <2>1 DEF UsbPush, txVars, wireVars, TxHand
  <2>4. all = before \o usbToTtl \o <<ingress>>
    BY <2>1
  <2> HIDE DEF before, all
  <2>5. all' = all
    BY <2>1, <2>2, <2>3, <2>4, PutKeepsAll
  <2> QED BY <1>2, <1>b, <2>5 DEF UsbPush, wireVars
<1>3. CASE TxReceive
  <2>1. TxHand = <<>> /\ TxHand' = <<Head(usbToTtl)>>
    BY <1>3 DEF TxReceive, TxHand
  <2>2. toJetson \o <<Head(usbToTtl)>> \o Tail(usbToTtl)
          = toJetson \o <<>> \o usbToTtl
    BY <1>3, TxStagesTyped, TakeKeepsAll DEF TxReceive
  <2>3. all' = all
    BY <1>3, <2>1, <2>2 DEF TxReceive, usbVars, wireVars, Opt
  <2> QED BY <1>3, <1>b, <2>3 DEF TxReceive, wireVars
<1>4. CASE TxFlush \/ (TxError /\ toJetson' = Append(toJetson, txFrame))
  <2>1. /\ txFrame \in Frames /\ TxHand = <<txFrame>> /\ TxHand' = <<>>
        /\ toJetson' = Append(toJetson, txFrame)
    BY <1>4 DEF TxFlush, TxError, TxHand, DataOK
  <2>2. Append(toJetson, txFrame) \o <<>> = toJetson \o <<txFrame>>
    BY <2>1, TxStagesTyped, ArriveKeepsAll
  <2>3. all' = all
    BY <1>4, <2>1, <2>2 DEF TxFlush, TxError, usbVars, Opt
  <2>4. fromHost' = fromHost /\ damaged \subseteq damaged'
    BY <1>4 DEF TxFlush, TxError
  <2> QED BY <1>b, <2>3, <2>4
<1>5. CASE TxError /\ toJetson' = toJetson
  <2>1. /\ txFrame \in Frames /\ TxHand = <<txFrame>> /\ TxHand' = <<>>
        /\ damaged' = damaged \cup {txFrame} /\ fromHost' = fromHost
    BY <1>5 DEF TxError, TxHand, DataOK
  <2> DEFINE rest == usbToTtl \o Opt(ingress)
             dropped == toJetson \o rest
             full == toJetson \o <<txFrame>> \o rest
  <2>2. rest \in Seq(Frames) /\ <<txFrame>> \in Seq(Frames)
    BY <2>1, TxStagesTyped, OneTyped
  <2>3. all = full
    <3> DEFINE before == toJetson \o <<txFrame>>
    <3>1. before \in Seq(Frames) /\ Opt(ingress) \in Seq(Frames)
            /\ usbToTtl \in Seq(Frames)
      BY <2>1, TxStagesTyped
    <3>2. all = before \o usbToTtl \o Opt(ingress)
      BY <2>1
    <3> HIDE DEF before, all
    <3>3. (before \o usbToTtl) \o Opt(ingress)
            = before \o (usbToTtl \o Opt(ingress))
      BY <3>1, ConcatAssociative
    <3> QED BY <3>2, <3>3 DEF before
  <2>4. all' = dropped
    <3>1. all' = toJetson \o <<>> \o usbToTtl \o Opt(ingress)
      BY <1>5, <2>1 DEF TxError, usbVars, Opt
    <3>2. /\ toJetson \in Seq(Frames) /\ usbToTtl \in Seq(Frames)
          /\ Opt(ingress) \in Seq(Frames)
      BY TxStagesTyped
    <3>3. toJetson \o <<>> = toJetson
      BY <3>2, ConcatEmptySeq
    <3>4. (toJetson \o usbToTtl) \o Opt(ingress)
            = toJetson \o (usbToTtl \o Opt(ingress))
      BY <3>2, ConcatAssociative
    <3> HIDE DEF all
    <3> QED BY <3>1, <3>3, <3>4
  <2>5. /\ Increasing(full) => Increasing(dropped)
        /\ \A i \in DOMAIN dropped : Given(full, dropped[i])
        /\ \A f : Given(full, f) => f = txFrame \/ Given(dropped, f)
    BY <2>1, <2>2, TxStagesTyped, DropKeepsOthers
  <2> HIDE DEF all, full, dropped
  <2>6. Exact(dropped, fromHost, damaged \cup {txFrame})
    BY <1>a, <2>3, <2>5, Zenon DEF Exact, Given
  <2> QED BY <2>1, <2>4, <2>6
<1>6. CASE UNCHANGED <<toJetson, TxHand, usbToTtl, ingress, fromHost, damaged>>
  BY <1>b, <1>6 DEF Opt
<1>7. CASE TxWrite \/ TxReport \/ TxResume
  BY <1>6, <1>7 DEF TxWrite, TxReport, TxResume, usbVars, wireVars, TxHand
<1>8. CASE Connect \/ UsbTake \/ UsbWrite \/ UsbLeave \/ UartToUsb \/ Monitor
             \/ RxRead \/ RxError \/ HostSwitches \/ UNCHANGED vars
  BY <1>6, <1>8 DEF Connect, UsbTake, UsbWrite, UsbLeave, UartToUsb, RxPush,
     RxReport, RxResume, Monitor, MonitorPoll, AwaitRelease, NotifyUsb, RxRead,
     RxError, HostSwitches, vars, usbVars, txVars, wireVars, TxHand
<1>9. TxError => toJetson' = toJetson \/ toJetson' = Append(toJetson, txFrame)
  BY DEF TxError
<1> QED
  BY <1>1, <1>2, <1>3, <1>4, <1>5, <1>7, <1>8, <1>9
     DEF Next, UsbLoop, UsbToUart, Outside

(* Host to Jetson the bridge keeps the order and duplicates nothing, and   *)
(* whatever it loses a UART error was reported for.                        *)
THEOREM ToJetsonIsExact == Spec => []ToJetsonExact
<1>1. Init => ToJetsonExact
  <2>1. ASSUME Init PROVE ToJetsonFrames = <<>>
    BY <2>1, ConcatEmptySeq, EmptySeq DEF Init, ToJetsonFrames, Opt
  <2>2. Init => fromHost = 0
    BY DEF Init
  <2> QED BY <2>1, <2>2, SMT DEF ToJetsonExact, Increasing
<1>2. DataOK /\ ToJetsonExact /\ [Next]_vars => ToJetsonExact'
  BY ToJetsonStep
<1>3. TypeOK => DataOK
  BY TypeParts
<1> QED BY <1>1, <1>2, <1>3, TypeCorrect, PTL DEF Spec
-----------------------------------------------------------------------------
(* The activity bus: it carries, among the activity of the other           *)
(* direction, every frame number from the one after last_rx to the last    *)
(* one reported, in order, so last_rx is behind by no more than it holds.  *)

OfJetson(q, i) == q[i].kind = "JetsonToUsb"

\* After entry i of bus q there is one for the frame after f, if there is one
\* to report: n is the last frame reported.
NextIsThere(q, i, f, n) ==
  \/ f = n
  \/ \E j \in DOMAIN q : j > i /\ OfJetson(q, j) /\ q[j].frame = f + 1

Chained(q, last, n) ==
  /\ \A i \in DOMAIN q :
       OfJetson(q, i) =>
         n - q[i].frame <= Len(q) - i /\ NextIsThere(q, i, q[i].frame, n)
  /\ NextIsThere(q, 0, last, n)

Reported == IF rxPc \in {"push", "report"} THEN fromJetson - 1 ELSE fromJetson
LastRx == IF lastRx = None THEN 0 ELSE lastRx

BusInv ==
  /\ rxPc \in {"push", "report"} => rxFrame = fromJetson
  /\ Chained(activity, LastRx, Reported)
LEMMA ActivitiesTyped ==
  ASSUME NEW q \in Seq(Activities)
  PROVE  /\ Len(q) \in Nat /\ DOMAIN q = 1..Len(q)
         /\ \A i \in DOMAIN q : q[i].frame \in Nat
                              /\ q[i].kind \in {"UsbToJetson", "JetsonToUsb"}
<1>1. Len(q) \in Nat /\ DOMAIN q = 1..Len(q)
  BY LenProperties
<1>2. \A i \in DOMAIN q : q[i] \in Activities
  BY <1>1, ElementOfSeq
<1> QED BY <1>1, <1>2, FramesAreNoOption, Zenon DEF Activities

LEMMA AppendIndexed ==
  ASSUME NEW q \in Seq(Activities), NEW e \in Activities
  PROVE  LET t == Append(q, e)
         IN /\ t \in Seq(Activities) /\ Len(t) = Len(q) + 1
            /\ DOMAIN t = 1..(Len(q) + 1)
            /\ \A i \in 1..Len(q) : t[i] = q[i]
            /\ t[Len(q) + 1] = e
BY AppendProperties, LenProperties

\* A frame is reported: the chain is longer by one.
LEMMA ReportExtends ==
  ASSUME NEW q \in Seq(Activities), NEW last \in Nat, NEW n \in Nat,
         NEW e \in Activities, e.kind = "JetsonToUsb", e.frame = n + 1,
         Chained(q, last, n)
  PROVE  Chained(Append(q, e), last, n + 1)
<1> DEFINE t == Append(q, e)
<1>1. /\ Len(q) \in Nat /\ DOMAIN q = 1..Len(q) /\ Len(t) = Len(q) + 1
      /\ DOMAIN t = 1..(Len(q) + 1)
      /\ \A i \in 1..Len(q) : t[i] = q[i]
      /\ t[Len(q) + 1] = e
  BY AppendIndexed, ActivitiesTyped
<1> HIDE DEF t
<1>2. ASSUME NEW i \in 0..Len(q), NEW f \in Nat, NextIsThere(q, i, f, n)
      PROVE  NextIsThere(t, i, f, n + 1)
  <2>1. CASE f = n
    <3>1. Len(q) + 1 \in DOMAIN t /\ Len(q) + 1 > i
      BY <1>1, SMT
    <3> QED BY <1>1, <2>1, <3>1 DEF NextIsThere, OfJetson
  <2>2. ASSUME NEW j \in DOMAIN q, j > i, OfJetson(q, j), q[j].frame = f + 1
        PROVE  NextIsThere(t, i, f, n + 1)
    <3>1. j \in DOMAIN t /\ t[j] = q[j]
      BY <1>1, SMT
    <3> QED BY <2>2, <3>1 DEF NextIsThere, OfJetson
  <2> QED BY <1>2, <2>1, <2>2 DEF NextIsThere
<1>3. NextIsThere(t, 0, last, n + 1)
  BY <1>1, <1>2, SMT DEF Chained
<1>4. ASSUME NEW i \in DOMAIN t, OfJetson(t, i)
      PROVE  (n + 1) - t[i].frame <= Len(t) - i
               /\ NextIsThere(t, i, t[i].frame, n + 1)
  <2>1. CASE i \in 1..Len(q)
    <3>1. t[i] = q[i] /\ OfJetson(q, i) /\ q[i].frame \in Nat
            /\ i \in DOMAIN q /\ i \in 0..Len(q)
      BY <1>1, <1>4, <2>1, ActivitiesTyped, SMT DEF OfJetson
    <3>2. n - q[i].frame <= Len(q) - i /\ NextIsThere(q, i, q[i].frame, n)
      BY <3>1 DEF Chained
    <3>3. NextIsThere(t, i, q[i].frame, n + 1)
      BY <1>2, <3>1, <3>2
    <3> QED BY <1>1, <2>1, <3>1, <3>2, <3>3, SMT
  <2>2. CASE i = Len(q) + 1
    BY <1>1, <2>2, SMT DEF NextIsThere
  <2> QED BY <1>1, <2>1, <2>2, SMT
<1> QED BY <1>3, <1>4 DEF Chained, t

\* Activity of the other direction is reported: the chain is as it was.
LEMMA OtherReportKeeps ==
  ASSUME NEW q \in Seq(Activities), NEW last \in Nat, NEW n \in Nat,
         NEW e \in Activities, e.kind = "UsbToJetson",
         Chained(q, last, n)
  PROVE  Chained(Append(q, e), last, n)
<1> DEFINE t == Append(q, e)
<1>1. /\ Len(q) \in Nat /\ DOMAIN q = 1..Len(q) /\ Len(t) = Len(q) + 1
      /\ DOMAIN t = 1..(Len(q) + 1)
      /\ \A i \in 1..Len(q) : t[i] = q[i]
      /\ t[Len(q) + 1] = e
  BY AppendIndexed, ActivitiesTyped
<1> HIDE DEF t
<1>2. ASSUME NEW i, NEW f, NextIsThere(q, i, f, n)
      PROVE  NextIsThere(t, i, f, n)
  <2>1. \A j \in DOMAIN q : j \in DOMAIN t /\ t[j] = q[j]
    BY <1>1, SMT
  <2> QED BY <1>2, <2>1, Zenon DEF NextIsThere, OfJetson
<1>3. ASSUME NEW i \in DOMAIN t, OfJetson(t, i)
      PROVE  n - t[i].frame <= Len(t) - i /\ NextIsThere(t, i, t[i].frame, n)
  <2>1. i \in 1..Len(q)
    BY <1>1, <1>3, SMT DEF OfJetson
  <2>2. t[i] = q[i] /\ OfJetson(q, i) /\ q[i].frame \in Nat
    BY <1>1, <1>3, <2>1, ActivitiesTyped DEF OfJetson
  <2>3. n - q[i].frame <= Len(q) - i /\ NextIsThere(q, i, q[i].frame, n)
    BY <1>1, <2>1, <2>2 DEF Chained
  <2> QED BY <1>1, <1>2, <2>1, <2>2, <2>3, SMT
<1> QED BY <1>2, <1>3 DEF Chained, t

\* The monitor polls: last_rx is what it took, if that was the Jetson's.
LEMMA PollKeeps ==
  ASSUME NEW q \in Seq(Activities), q # <<>>, NEW last \in Nat, NEW n \in Nat,
         Chained(q, last, n)
  PROVE  Chained(Tail(q), IF OfJetson(q, 1) THEN q[1].frame ELSE last, n)
<1> DEFINE t == Tail(q)
<1>1. /\ Len(q) \in Nat /\ Len(q) >= 1 /\ DOMAIN q = 1..Len(q)
      /\ Len(t) = Len(q) - 1 /\ DOMAIN t = 1..Len(t)
      /\ \A i \in 1..Len(t) : t[i] = q[i + 1]
  BY QueueHead, HeadTailProperties, LenProperties
<1> HIDE DEF t
<1>2. ASSUME NEW i \in 1..Len(q), NEW f, NextIsThere(q, i, f, n)
      PROVE  NextIsThere(t, i - 1, f, n)
  <2>1. ASSUME NEW j \in DOMAIN q, j > i, OfJetson(q, j), q[j].frame = f + 1
        PROVE  NextIsThere(t, i - 1, f, n)
    <3>1. j - 1 \in DOMAIN t /\ j - 1 > i - 1 /\ t[j - 1] = q[j]
      BY <1>1, <2>1, SMT
    <3> QED BY <2>1, <3>1 DEF NextIsThere, OfJetson
  <2> QED BY <1>2, <2>1 DEF NextIsThere
<1>3. NextIsThere(t, 0, IF OfJetson(q, 1) THEN q[1].frame ELSE last, n)
  <2>1. CASE OfJetson(q, 1)
    <3>1. 1 \in DOMAIN q /\ 1 \in 1..Len(q)
      BY <1>1, SMT
    <3>2. NextIsThere(q, 1, q[1].frame, n)
      BY <2>1, <3>1 DEF Chained
    <3>3. NextIsThere(t, 1 - 1, q[1].frame, n)
      BY <1>2, <3>1, <3>2
    <3> QED BY <2>1, <3>3, SMT
  <2>2. CASE ~OfJetson(q, 1)
    <3>1. NextIsThere(q, 0, last, n)
      BY DEF Chained
    <3>2. NextIsThere(q, 1, last, n)
      BY <1>1, <2>2, <3>1, SMT DEF NextIsThere
    <3>3. NextIsThere(t, 1 - 1, last, n)
      BY <1>1, <1>2, <3>2, SMT
    <3> QED BY <2>2, <3>3, SMT
  <2> QED BY <2>1, <2>2
<1>4. ASSUME NEW i \in DOMAIN t, OfJetson(t, i)
      PROVE  n - t[i].frame <= Len(t) - i /\ NextIsThere(t, i, t[i].frame, n)
  <2>1. i + 1 \in DOMAIN q /\ i + 1 \in 1..Len(q) /\ t[i] = q[i + 1]
          /\ (i + 1) - 1 = i
    BY <1>1, <1>4, SMT
  <2>2. OfJetson(q, i + 1) /\ q[i + 1].frame \in Nat
    BY <1>4, <2>1, ActivitiesTyped DEF OfJetson
  <2>3. n - q[i + 1].frame <= Len(q) - (i + 1)
          /\ NextIsThere(q, i + 1, q[i + 1].frame, n)
    BY <2>1, <2>2 DEF Chained
  <2>4. NextIsThere(t, i, q[i + 1].frame, n)
    BY <1>2, <2>1, <2>3
  <2> QED BY <1>1, <2>1, <2>2, <2>3, <2>4, SMT
<1> QED BY <1>3, <1>4 DEF Chained, t

LEMMA ChainBounds ==
  ASSUME NEW q \in Seq(Activities), NEW last \in Nat, NEW n \in Nat,
         Chained(q, last, n)
  PROVE  n <= last + Len(q)
<1>1. CASE last = n
  BY <1>1, LenProperties, SMT
<1>2. ASSUME NEW j \in DOMAIN q, OfJetson(q, j), q[j].frame = last + 1
      PROVE  n <= last + Len(q)
  <2>1. n - q[j].frame <= Len(q) - j
    BY <1>2 DEF Chained
  <2> QED BY <1>2, <2>1, LenProperties, SMT
<1> QED BY <1>1, <1>2 DEF Chained, NextIsThere
LEMMA MonitorTyped ==
  ASSUME DataOK
  PROVE  /\ LastRx \in Nat /\ fromJetson \in Nat
         /\ (BusInv => Reported \in Nat)
         /\ activity \in Seq(Activities)
<1>1. fromJetson \in Nat /\ LastRx \in Nat
  BY BridgeAssumption, FramesAreNoOption, SMT DEF DataOK, LastRx
<1>2. rxPc \in {"push", "report"} => rxFrame \in Nat /\ rxFrame >= 1
  BY BridgeAssumption, SMT DEF DataOK, Frames
<1> QED BY <1>1, <1>2, SMT DEF DataOK, BusInv, Reported

LEMMA BusStep ==
  ASSUME DataOK, BusInv, [Next]_vars
  PROVE  BusInv'
<1>a. LastRx \in Nat /\ fromJetson \in Nat /\ Reported \in Nat
        /\ activity \in Seq(Activities)
  BY MonitorTyped
<1>1. CASE RxRead
  <2>1. Reported' = Reported /\ rxFrame' = fromJetson'
    BY <1>1, <1>a, SMT DEF RxRead, Reported
  <2> QED BY <1>1, <2>1 DEF RxRead, BusInv, LastRx, monitorVars
<1>2. CASE RxReport
  <2> DEFINE e == [kind |-> "JetsonToUsb", frame |-> rxFrame]
  <2>1. rxFrame = fromJetson /\ rxFrame \in Frames /\ Reported = fromJetson - 1
    BY <1>2 DEF RxReport, BusInv, DataOK, Reported
  <2>2. e \in Activities /\ e.kind = "JetsonToUsb" /\ e.frame = Reported + 1
    BY <1>a, <2>1, SMT DEF Activities
  <2>3. activity' = Append(activity, e) /\ LastRx' = LastRx
    BY <1>2 DEF RxReport, Report, LastRx, monitorVars
  <2>4. Reported' = Reported + 1
    BY <1>2, <1>a, <2>1, SMT DEF RxReport, wireVars, Reported
  <2> HIDE DEF e
  <2>5. Chained(Append(activity, e), LastRx, Reported + 1)
    BY <1>a, <2>2, ReportExtends DEF BusInv
  <2> QED BY <1>2, <2>3, <2>4, <2>5 DEF BusInv, RxReport
<1>3. CASE TxReport
  <2> DEFINE e == [kind |-> "UsbToJetson", frame |-> txFrame]
  <2>1. e \in Activities /\ e.kind = "UsbToJetson"
    BY <1>3, SMT DEF TxReport, DataOK, Activities
  <2>2. activity' = Append(activity, e) /\ LastRx' = LastRx
          /\ Reported' = Reported
    BY <1>3 DEF TxReport, Report, LastRx, Reported, monitorVars, rxVars,
       wireVars
  <2> HIDE DEF e
  <2>3. Chained(Append(activity, e), LastRx, Reported)
    BY <1>a, <2>1, OtherReportKeeps DEF BusInv
  <2> QED BY <1>3, <2>2, <2>3 DEF BusInv, TxReport, rxVars, wireVars
<1>4. CASE MonitorPoll
  <2>1. activity # <<>> /\ activity' = Tail(activity)
          /\ Head(activity) = activity[1] /\ activity[1] \in Activities
          /\ activity[1].frame \in Frames
    <3>1. activity # <<>> /\ activity' = Tail(activity)
      BY <1>4 DEF MonitorPoll
    <3>2. Head(activity) \in Activities /\ Head(activity) = activity[1]
      BY <1>a, <3>1, QueueHead, SMT
    <3> QED BY <3>1, <3>2, Zenon DEF Activities
  <2>2. LastRx' = IF OfJetson(activity, 1) THEN activity[1].frame ELSE LastRx
    BY <1>4, <2>1, FramesAreNoOption DEF MonitorPoll, LastRx, OfJetson
  <2>3. Chained(Tail(activity),
                IF OfJetson(activity, 1) THEN activity[1].frame ELSE LastRx,
                Reported)
    BY <1>a, <2>1, PollKeeps DEF BusInv
  <2>4. Reported' = Reported
    BY <1>4 DEF MonitorPoll, Reported, rxVars, wireVars
  <2> QED BY <1>4, <2>1, <2>2, <2>3, <2>4
          DEF BusInv, MonitorPoll, rxVars, wireVars
<1>5. CASE UNCHANGED <<rxFrame, activity, lastRx, fromJetson>>
             /\ (rxPc' \in {"push", "report"} <=> rxPc \in {"push", "report"})
  <2>1. LastRx' = LastRx /\ Reported' = Reported
    BY <1>5 DEF LastRx, Reported
  <2> QED BY <1>5, <2>1 DEF BusInv
<1>6. CASE UsbLoop \/ TxReceive \/ TxWrite \/ TxFlush \/ TxError \/ TxResume
             \/ AwaitRelease \/ NotifyUsb \/ UsbRead \/ HostSwitches
             \/ UNCHANGED vars
  BY <1>5, <1>6 DEF UsbLoop, Connect, UsbPush, UsbTake, UsbWrite, UsbLeave,
     TxReceive, TxWrite, TxFlush, TxError, TxResume, AwaitRelease, NotifyUsb,
     UsbRead, HostSwitches, vars, rxVars, monitorVars, wireVars
<1>7. CASE RxPush \/ RxResume \/ RxError
  BY <1>5, <1>7 DEF RxPush, RxResume, RxError, monitorVars, wireVars
<1> QED
  BY <1>1, <1>2, <1>3, <1>4, <1>6, <1>7
     DEF Next, UsbToUart, UartToUsb, Monitor, Outside

(* However the two directions interleave on the bus, the monitor's last_rx *)
(* is behind the console by no more than the bus holds and one event.      *)
THEOREM MonitorIsNeverLost == Spec => []MonitorKeepsUp
<1>1. Init => BusInv
  <2> SUFFICES ASSUME Init PROVE BusInv
    OBVIOUS
  <2>1. DOMAIN activity = {}
    BY SMT DEF Init
  <2>2. Reported = 0 /\ LastRx = 0 /\ rxPc = "read"
    BY DEF Init, Reported, LastRx
  <2> QED BY <2>1, <2>2 DEF BusInv, Chained, NextIsThere
<1>2. DataOK /\ BusInv /\ [Next]_vars => BusInv'
  BY BusStep
<1>3. TypeOK /\ BusInv => MonitorKeepsUp
  <2> SUFFICES ASSUME DataOK, BusInv PROVE MonitorKeepsUp
    BY TypeParts
  <2>1. Reported <= LastRx + Len(activity)
    BY MonitorTyped, ChainBounds DEF BusInv
  <2>2. Len(activity) <= ActivityDepth /\ Len(activity) \in Nat
    BY LenProperties DEF DataOK
  <2>3. Forwarded \in Int /\ Forwarded <= Reported + 1
    BY MonitorTyped, SMT DEF Forwarded, Reported
  <2> QED BY <2>1, <2>2, <2>3, MonitorTyped, BridgeAssumption, SMT
          DEF MonitorKeepsUp, LastRx
<1>4. TypeOK => DataOK
  BY TypeParts
<1> QED BY <1>1, <1>2, <1>3, <1>4, TypeCorrect, PTL DEF Spec
=============================================================================
