------------------------- MODULE StrapService_proofs -------------------------
(***************************************************************************)
(* The line of commands the orchestrator serves: proofs that it keeps its  *)
(* order and its bound, loses no command without a reason, and is the line *)
(* of StrapService, for every value of the constants.                      *)
(***************************************************************************)
EXTENDS StrapServiceRefinement, StrapOrchestrator_proofs, QueueLemmas

-----------------------------------------------------------------------------
(* The ids of a queue follow whatever happens to the queue.                *)

LEMMA IdsTyped ==
  ASSUME NEW q \in Seq(Commands)
  PROVE  /\ Ids(q) \in Seq(Nat) /\ Len(Ids(q)) = Len(q) /\ Len(q) \in Nat
         /\ \A i \in 1..Len(q) : Ids(q)[i] = q[i].id /\ q[i].id \in Nat
<1>1. Len(q) \in Nat /\ DOMAIN q = 1..Len(q)
  BY LenProperties
<1>2. \A i \in 1..Len(q) : q[i].id \in Nat
  <2>1. \A i \in 1..Len(q) : q[i] \in Commands
    BY ElementOfSeq
  <2> QED BY <2>1, Zenon DEF Commands
<1>3. Ids(q) = [i \in 1..Len(q) |-> q[i].id]
  BY <1>1 DEF Ids
<1> QED BY <1>1, <1>2, <1>3

LEMMA IdsOfNone == Ids(<<>>) = <<>>
BY DEF Ids

LEMMA IdsAppend ==
  ASSUME NEW q \in Seq(Commands), NEW c \in Commands
  PROVE  Ids(Append(q, c)) = Append(Ids(q), c.id)
<1> DEFINE a == Append(q, c)
           b == Append(Ids(q), c.id)
<1>1. c.id \in Nat
  BY DEF Commands
<1>2. /\ a \in Seq(Commands) /\ Len(a) = Len(q) + 1
      /\ \A i \in 1..Len(q) : a[i] = q[i]
      /\ a[Len(q) + 1] = c
  BY AppendProperties
<1>3. /\ b \in Seq(Nat) /\ Len(b) = Len(q) + 1
      /\ \A i \in 1..Len(q) : b[i] = q[i].id
      /\ b[Len(q) + 1] = c.id
  BY <1>1, IdsTyped, AppendProperties
<1> HIDE DEF a, b
<1>4. /\ Ids(a) \in Seq(Nat) /\ Len(Ids(a)) = Len(q) + 1
      /\ \A i \in 1..Len(q) + 1 : Ids(a)[i] = a[i].id
  <2>1. /\ Ids(a) \in Seq(Nat) /\ Len(Ids(a)) = Len(a)
        /\ \A i \in 1..Len(a) : Ids(a)[i] = a[i].id
    BY <1>2, IdsTyped
  <2> QED BY <1>2, <2>1
<1>5. Len(q) \in Nat
  BY LenProperties
<1>6. ASSUME NEW i \in 1..Len(q) + 1 PROVE Ids(a)[i] = b[i]
  <2>1. CASE i = Len(q) + 1
    BY <1>2, <1>3, <1>4, <2>1
  <2>2. CASE i \in 1..Len(q)
    BY <1>2, <1>3, <1>4, <2>2
  <2> QED BY <1>5, <2>1, <2>2
<1>7. Ids(a) = b
  BY <1>3, <1>4, <1>6, SeqEqual
<1> QED BY <1>7 DEF a, b

LEMMA IdsConcat ==
  ASSUME NEW p \in Seq(Commands), NEW q \in Seq(Commands)
  PROVE  Ids(p \o q) = Ids(p) \o Ids(q)
<1> DEFINE a == p \o q
           b == Ids(p) \o Ids(q)
           m == Len(p)
           n == Len(q)
<1>1. /\ a \in Seq(Commands) /\ Len(a) = m + n /\ m \in Nat /\ n \in Nat
      /\ \A i \in 1..m : a[i] = p[i]
      /\ \A i \in 1..n : a[m + i] = q[i]
  BY IndexedConcat
<1>2. /\ Ids(p) \in Seq(Nat) /\ Len(Ids(p)) = m
      /\ \A i \in 1..m : Ids(p)[i] = p[i].id
  BY IdsTyped
<1>3. /\ Ids(q) \in Seq(Nat) /\ Len(Ids(q)) = n
      /\ \A i \in 1..n : Ids(q)[i] = q[i].id
  BY IdsTyped
<1>4. /\ b \in Seq(Nat) /\ Len(b) = m + n
      /\ \A i \in 1..m : b[i] = p[i].id
      /\ \A i \in 1..n : b[m + i] = q[i].id
  <2>1. /\ b \in Seq(Nat) /\ Len(b) = Len(Ids(p)) + Len(Ids(q))
        /\ \A i \in 1..Len(Ids(p)) : b[i] = Ids(p)[i]
        /\ \A i \in 1..Len(Ids(q)) : b[Len(Ids(p)) + i] = Ids(q)[i]
    <3>1. Ids(p) \in Seq(Nat) /\ Ids(q) \in Seq(Nat)
      BY <1>2, <1>3
    <3> QED BY <3>1, IndexedConcat
  <2> HIDE DEF b, m, n
  <2> QED BY <1>2, <1>3, <2>1
<1> HIDE DEF a, b, m, n
<1>5. /\ Ids(a) \in Seq(Nat) /\ Len(Ids(a)) = m + n
      /\ \A i \in 1..(m + n) : Ids(a)[i] = a[i].id
  BY <1>1, IdsTyped
<1>6. ASSUME NEW i \in 1..(m + n) PROVE Ids(a)[i] = b[i]
  <2>1. CASE i \in 1..m
    BY <1>1, <1>4, <1>5, <2>1
  <2>2. ASSUME NEW j \in 1..n, i = m + j PROVE Ids(a)[i] = b[i]
    BY <1>1, <1>4, <1>5, <2>2
  <2>3. i \in 1..m \/ (i - m \in 1..n /\ i = m + (i - m))
    BY <1>1
  <2> QED BY <2>1, <2>2, <2>3
<1>7. Ids(a) = b
  BY <1>4, <1>5, <1>6, SeqEqual
<1> QED BY <1>7 DEF a, b

LEMMA IdsTail ==
  ASSUME NEW q \in Seq(Commands), q # <<>>
  PROVE  /\ Ids(q) # <<>> /\ Head(Ids(q)) = Head(q).id
         /\ Ids(Tail(q)) = Tail(Ids(q))
<1> DEFINE t == Tail(q)
           h == <<Head(q)>>
<1>1. Head(q) \in Commands /\ t \in Seq(Commands) /\ h \in Seq(Commands)
        /\ Head(q).id \in Nat
  <2>1. Head(q) \in Commands /\ t \in Seq(Commands) /\ h \in Seq(Commands)
    BY QueueHead, OneTyped
  <2> QED BY <2>1, Zenon DEF Commands
<1>2. Ids(h) = <<Head(q).id>>
  BY SMT DEF Ids
<1>3. Ids(q) = Ids(h) \o Ids(t)
  BY <1>1, HeadThenTail, IdsConcat
<1>4. Ids(t) \in Seq(Nat)
  BY <1>1, IdsTyped
<1> HIDE DEF t, h
<1>5. Ids(q) = <<Head(q).id>> \o Ids(t)
  BY <1>2, <1>3
<1>6. LET r == <<Head(q).id>> \o Ids(t)
      IN r # <<>> /\ Head(r) = Head(q).id /\ Tail(r) = Ids(t)
  BY <1>1, <1>4, HeadOfOne
<1> QED BY <1>5, <1>6 DEF t

LEMMA IdsPrefix ==
  ASSUME NEW q \in Seq(Commands), NEW n \in 0..Len(q)
  PROVE  Ids(SubSeq(q, 1, n)) = SubSeq(Ids(q), 1, n)
<1> DEFINE a == SubSeq(q, 1, n)
           b == SubSeq(Ids(q), 1, n)
<1>1. a \in Seq(Commands) /\ Len(a) = n /\ \A i \in 1..n : a[i] = q[i]
  BY Prefix
<1>2. b \in Seq(Nat) /\ Len(b) = n /\ \A i \in 1..n : b[i] = Ids(q)[i]
  <2>1. Ids(q) \in Seq(Nat) /\ n \in 0..Len(Ids(q))
    BY IdsTyped
  <2> QED BY <2>1, Prefix
<1> HIDE DEF a, b
<1>3. /\ Ids(a) \in Seq(Nat) /\ Len(Ids(a)) = n
      /\ \A i \in 1..n : Ids(a)[i] = a[i].id
  BY <1>1, IdsTyped
<1>4. \A i \in 1..n : i \in 1..Len(q) /\ Ids(q)[i] = q[i].id
  BY IdsTyped
<1>5. \A i \in 1..n : Ids(a)[i] = b[i]
  BY <1>1, <1>2, <1>3, <1>4
<1>6. Ids(a) = b
  BY <1>2, <1>3, <1>5, SeqEqual
<1> QED BY <1>6 DEF a, b

LEMMA IdsSooner ==
  ASSUME NEW q \in Seq(Commands)
  PROVE  Ids([i \in DOMAIN q |-> Sooner(q[i])]) = Ids(q)
<1>1. \A c \in Commands : Sooner(c).id = c.id
  BY DEF Sooner, Commands
<1>2. \A i \in DOMAIN q : q[i] \in Commands
  BY ElementOfSeq, LenProperties
<1> QED BY <1>1, <1>2, Zenon DEF Ids
-----------------------------------------------------------------------------
(* The line: the command held, those pending, those in the channel.        *)

LineOf(h, p, x) == (IF h = None THEN <<>> ELSE <<h.id>>) \o Ids(p) \o Ids(x)

LEMMA WaitingIsLine ==
  Waiting = LineOf(held, pending, rx) /\ Waiting' = LineOf(held', pending', rx')
BY DEF Waiting, LineOf, Ids

LEMMA LineTyped ==
  ASSUME NEW h \in Commands \cup {None}, NEW p \in Seq(Commands),
         NEW x \in Seq(Commands)
  PROVE  LineOf(h, p, x) \in Seq(Nat)
<1> DEFINE first == IF h = None THEN <<>> ELSE <<h.id>>
<1>1. first \in Seq(Nat)
  <2>1. CASE h = None
    BY <2>1, EmptySeq
  <2>2. CASE h # None
    <3>1. h.id \in Nat
      BY <2>2 DEF Commands
    <3> QED BY <2>2, <3>1, OneTyped
  <2> QED BY <2>1, <2>2
<1>2. Ids(p) \in Seq(Nat) /\ Ids(x) \in Seq(Nat)
  BY IdsTyped
<1> HIDE DEF first
<1>3. first \o Ids(p) \in Seq(Nat)
  BY <1>1, <1>2, ConcatTyped
<1>4. first \o Ids(p) \o Ids(x) \in Seq(Nat)
  BY <1>2, <1>3, ConcatTyped
<1> QED BY <1>4 DEF first, LineOf

LEMMA LineParts ==
  ASSUME NEW p \in Seq(Commands), NEW x \in Seq(Commands)
  PROVE  /\ LineOf(None, p, x) = Ids(p) \o Ids(x)
         /\ LineOf(None, <<>>, x) = Ids(x)
         /\ LineOf(None, p, <<>>) = Ids(p)
         /\ \A h \in Commands : LineOf(h, <<>>, x) = <<h.id>> \o Ids(x)
<1>1. Ids(p) \in Seq(Nat) /\ Ids(x) \in Seq(Nat) /\ <<>> \in Seq(Nat)
  BY IdsTyped, EmptySeq
<1>2. <<>> \o Ids(p) = Ids(p) /\ <<>> \o Ids(x) = Ids(x)
        /\ Ids(p) \o <<>> = Ids(p) /\ <<>> \o <<>> = <<>>
  BY <1>1, ConcatEmptySeq
<1>3. ASSUME NEW h \in Commands
      PROVE  LineOf(h, <<>>, x) = <<h.id>> \o Ids(x)
  <2>1. h # None
    BY NoneAssumption
  <2>2. <<h.id>> \in Seq(Nat)
    <3>1. h.id \in Nat
      BY DEF Commands
    <3> QED BY <3>1, OneTyped
  <2>3. <<h.id>> \o <<>> = <<h.id>>
    BY <2>2, ConcatEmptySeq
  <2> QED BY <2>1, <2>3, IdsOfNone DEF LineOf
<1> QED BY <1>2, <1>3, IdsOfNone DEF LineOf

\* The oldest command leaves its queue, the pending queue or the channel.
LEMMA TakeFromLine ==
  ASSUME NEW q \in Seq(Commands), q # <<>>, NEW x \in Seq(Commands)
  PROVE  /\ LineOf(None, q, x) # <<>> /\ Head(LineOf(None, q, x)) = Head(q).id
         /\ LineOf(None, Tail(q), x) = Tail(LineOf(None, q, x))
         /\ LineOf(None, <<>>, q) # <<>>
         /\ Head(LineOf(None, <<>>, q)) = Head(q).id
         /\ LineOf(None, <<>>, Tail(q)) = Tail(LineOf(None, <<>>, q))
<1>1. Tail(q) \in Seq(Commands)
  BY QueueHead
<1>2. Ids(q) \in Seq(Nat) /\ Ids(x) \in Seq(Nat)
  BY IdsTyped
<1>3. /\ Ids(q) # <<>> /\ Head(Ids(q)) = Head(q).id
      /\ Ids(Tail(q)) = Tail(Ids(q))
  BY IdsTail
<1>4. /\ Ids(q) \o Ids(x) # <<>> /\ Head(Ids(q) \o Ids(x)) = Head(Ids(q))
      /\ Tail(Ids(q) \o Ids(x)) = Tail(Ids(q)) \o Ids(x)
  BY <1>2, <1>3, HeadOfConcat
<1>5. /\ LineOf(None, q, x) = Ids(q) \o Ids(x)
      /\ LineOf(None, Tail(q), x) = Ids(Tail(q)) \o Ids(x)
      /\ LineOf(None, <<>>, q) = Ids(q)
      /\ LineOf(None, <<>>, Tail(q)) = Ids(Tail(q))
  BY <1>1, LineParts
<1> QED BY <1>3, <1>4, <1>5

\* The held command leaves the local of `run'; before that it was moved there
\* from the channel.
LEMMA HoldKeepsLine ==
  ASSUME NEW x \in Seq(Commands), NEW h \in Commands
  PROVE  /\ LineOf(h, <<>>, x) # <<>> /\ Head(LineOf(h, <<>>, x)) = h.id
         /\ LineOf(None, <<>>, x) = Tail(LineOf(h, <<>>, x))
         /\ x # <<>> =>
              LineOf(Head(x), <<>>, Tail(x)) = LineOf(None, <<>>, x)
<1>1. Ids(x) \in Seq(Nat) /\ h.id \in Nat
  BY IdsTyped DEF Commands
<1>2. LineOf(h, <<>>, x) = <<h.id>> \o Ids(x) /\ LineOf(None, <<>>, x) = Ids(x)
  BY LineParts, EmptySeq
<1>3. /\ <<h.id>> \o Ids(x) # <<>> /\ Head(<<h.id>> \o Ids(x)) = h.id
      /\ Tail(<<h.id>> \o Ids(x)) = Ids(x)
  BY <1>1, HeadOfOne
<1>4. ASSUME x # <<>>
      PROVE  LineOf(Head(x), <<>>, Tail(x)) = LineOf(None, <<>>, x)
  <2>1. Head(x) \in Commands /\ Tail(x) \in Seq(Commands)
    BY <1>4, QueueHead
  <2>2. LineOf(Head(x), <<>>, Tail(x)) = <<Head(x).id>> \o Ids(Tail(x))
    BY <2>1, LineParts
  <2>3. /\ Ids(x) # <<>> /\ Head(Ids(x)) = Head(x).id
        /\ Ids(Tail(x)) = Tail(Ids(x))
    BY <1>4, IdsTail
  <2>4. <<Head(Ids(x))>> \o Tail(Ids(x)) = Ids(x)
    BY <1>1, <2>3, HeadThenTail
  <2> QED BY <1>2, <2>2, <2>3, <2>4
<1> QED BY <1>2, <1>3, <1>4

\* What collect_pending_commands leaves of the line is its older part.
LEMMA CollectCutsLine ==
  ASSUME NEW p \in Seq(Commands), NEW x \in Seq(Commands), NEW n \in 0..Len(x)
  PROVE  LineOf(None, p \o SubSeq(x, 1, n), <<>>)
           = SubSeq(LineOf(None, p, x), 1, Len(p) + n)
<1> DEFINE c == SubSeq(x, 1, n)
<1>1. c \in Seq(Commands) /\ p \o c \in Seq(Commands)
  BY Prefix, ConcatTyped
<1>2. Ids(c) = SubSeq(Ids(x), 1, n)
  BY IdsPrefix
<1> HIDE DEF c
<1>3. LineOf(None, p \o c, <<>>) = Ids(p) \o Ids(c)
  BY <1>1, LineParts, IdsConcat, EmptySeq
<1>4. /\ Ids(p) \in Seq(Nat) /\ Ids(x) \in Seq(Nat)
      /\ Len(Ids(p)) = Len(p) /\ n \in 0..Len(Ids(x))
  BY IdsTyped
<1>5. Ids(p) \o SubSeq(Ids(x), 1, n) = SubSeq(Ids(p) \o Ids(x), 1, Len(Ids(p)) + n)
  BY <1>4, PrefixOfConcat
<1>6. LineOf(None, p, x) = Ids(p) \o Ids(x)
  BY LineParts
<1> QED BY <1>2, <1>3, <1>4, <1>5, <1>6 DEF c

\* A command enters the line at its end.
LEMMA SubmitJoinsLine ==
  ASSUME NEW h \in Commands \cup {None}, NEW p \in Seq(Commands),
         NEW x \in Seq(Commands), NEW c \in Commands
  PROVE  LineOf(h, p, Append(x, c)) = Append(LineOf(h, p, x), c.id)
<1> DEFINE a == (IF h = None THEN <<>> ELSE <<h.id>>) \o Ids(p)
           b == Ids(x)
<1>1. c.id \in Nat /\ b \in Seq(Nat) /\ Ids(p) \in Seq(Nat)
  BY IdsTyped DEF Commands
<1>2. a \in Seq(Nat)
  <2>1. (IF h = None THEN <<>> ELSE <<h.id>>) \in Seq(Nat)
    <3>1. CASE h = None
      BY <3>1, EmptySeq
    <3>2. CASE h # None
      <4>1. h.id \in Nat
        BY <3>2 DEF Commands
      <4> QED BY <3>2, <4>1, OneTyped
    <3> QED BY <3>1, <3>2
  <2> QED BY <1>1, <2>1, ConcatTyped
<1>3. Ids(Append(x, c)) = Append(b, c.id)
  BY IdsAppend
<1>4. LineOf(h, p, x) = a \o b /\ LineOf(h, p, Append(x, c)) = a \o Append(b, c.id)
  BY <1>3 DEF LineOf
<1> HIDE DEF a, b
<1>5. ASSUME NEW e \in Nat PROVE a \o Append(b, e) = Append(a \o b, e)
  BY <1>1, <1>2, AppendToConcat
<1> QED BY <1>1, <1>4, <1>5

\* Time passes for a command wherever it waits, and moves none of them.
LEMMA TickKeepsLine ==
  ASSUME NEW h \in Commands \cup {None}, NEW p \in Seq(Commands),
         NEW x \in Seq(Commands)
  PROVE  LineOf(IF h = None THEN None ELSE Sooner(h),
                [i \in DOMAIN p |-> Sooner(p[i])],
                [i \in DOMAIN x |-> Sooner(x[i])]) = LineOf(h, p, x)
<1>1. /\ Ids([i \in DOMAIN p |-> Sooner(p[i])]) = Ids(p)
      /\ Ids([i \in DOMAIN x |-> Sooner(x[i])]) = Ids(x)
  BY IdsSooner
<1>2. CASE h = None
  BY <1>1, <1>2 DEF LineOf
<1>3. CASE h # None
  <2>1. Sooner(h) # None /\ Sooner(h).id = h.id
    <3>1. Sooner(h) \in Commands
      BY <1>3, SoonerTyped
    <3>2. Sooner(h).id = h.id
      BY <1>3 DEF Sooner, Commands
    <3> QED BY <3>1, <3>2, NoneAssumption
  <2> QED BY <1>1, <1>3, <2>1 DEF LineOf
<1> QED BY <1>2, <1>3

\* Without the pending queue the line is its younger part.
LEMMA DrainCutsLine ==
  ASSUME NEW p \in Seq(Commands), NEW x \in Seq(Commands)
  PROVE  LineOf(None, <<>>, x)
           = SubSeq(LineOf(None, p, x), Len(p) + 1, Len(LineOf(None, p, x)))
<1>1. Ids(p) \in Seq(Nat) /\ Ids(x) \in Seq(Nat) /\ Len(Ids(p)) = Len(p)
  BY IdsTyped
<1>2. LineOf(None, p, x) = Ids(p) \o Ids(x) /\ LineOf(None, <<>>, x) = Ids(x)
  BY LineParts
<1>3. Ids(x) = SubSeq(Ids(p) \o Ids(x), Len(Ids(p)) + 1, Len(Ids(p) \o Ids(x)))
  BY <1>1, SuffixOfConcat
<1> QED BY <1>1, <1>2, <1>3

-----------------------------------------------------------------------------
(* Every step of the orchestrator, as the line sees it.                    *)

(* The line keeps its n oldest commands; with the debug assertions in, it  *)
(* loses the rest only to a pending queue that is full.                    *)
CutTo(n) ==
  /\ Waiting' = SubSeq(Waiting, 1, n)
  /\ DebugAssertions =>
       \/ n = Len(Waiting)
       \/ n = QueueDepth /\ Len(pending') = QueueDepth

Trimmed == \E n \in 0..Len(Waiting) : CutTo(n)

Joined ==
  /\ issued' = issued + 1
  /\ Waiting' = Append(Waiting, issued + 1)
  /\ Serving' = Serving /\ straps' = straps

(* The oldest command is served, or refused for one of two reasons.        *)
Taken ==
  /\ Serving = None /\ Waiting # <<>>
  /\ Waiting' = Tail(Waiting)
  /\ \/ Serving' = Head(Waiting)
     \/ /\ Serving' = None
        /\ DebugAssertions =>
             \/ ~linkUp'
             \/ lastRejection' =
                  [id |-> Head(Waiting), reason |-> "MissingTemplate"]
  /\ straps' = straps /\ issued' = issued

Worked ==
  /\ Serving # None /\ Serving' = Serving
  /\ Trimmed /\ issued' = issued

Finished ==
  /\ Serving # None /\ run.state \in Terminal /\ Serving' = None
  /\ straps = {} /\ straps' = straps
  /\ Trimmed /\ issued' = issued

(* The control link is lost.                                               *)
Aborted ==
  /\ LinkNotices /\ ~linkUp'
  /\ Serving' = None
  /\ \E n \in 0..Len(Waiting) :
       Waiting' = SubSeq(Waiting, n + 1, Len(Waiting))
  /\ issued' = issued

Rested ==
  /\ Waiting' = Waiting /\ Serving' = Serving
  /\ straps' = straps /\ issued' = issued

LineMoves ==
  Joined \/ Taken \/ Worked \/ Finished \/ Aborted \/ Rested

LEMMA LineAsWaiting ==
  TypeOK => /\ Waiting \in Seq(Nat) /\ Len(Waiting) \in Nat
            /\ SubSeq(Waiting, 1, Len(Waiting)) = Waiting
<1> SUFFICES ASSUME TypeOK PROVE /\ Waiting \in Seq(Nat) /\ Len(Waiting) \in Nat
                                 /\ SubSeq(Waiting, 1, Len(Waiting)) = Waiting
  OBVIOUS
<1>1. Waiting \in Seq(Nat)
  <2>1. /\ held \in Commands \cup {None} /\ pending \in Seq(Commands)
        /\ rx \in Seq(Commands)
    BY DEF TypeOK
  <2> QED BY <2>1, WaitingIsLine, LineTyped
<1> HIDE DEF Waiting
<1>2. Len(Waiting) \in Nat
  BY <1>1, LenProperties
<1>3. Len(Waiting) \in 0..Len(Waiting)
  BY <1>2
<1>4. /\ SubSeq(Waiting, 1, Len(Waiting)) \in Seq(Nat)
      /\ Len(SubSeq(Waiting, 1, Len(Waiting))) = Len(Waiting)
      /\ \A i \in 1..Len(Waiting) :
           SubSeq(Waiting, 1, Len(Waiting))[i] = Waiting[i]
  BY <1>1, <1>3, Prefix
<1>5. SubSeq(Waiting, 1, Len(Waiting)) = Waiting
  BY <1>1, <1>4, SeqEqual
<1> QED BY <1>1, <1>2, <1>5

(* What collect_pending_commands moves into the pending queue stays in     *)
(* line; only what it leaves out is lost, from the end of the line.        *)
LEMMA CollectTrims ==
  ASSUME TypeOK, Len(pending) <= QueueDepth, Collect, linkUp,
         held = None, held' = None
  PROVE  Trimmed
<1>1. /\ pending \in Seq(Commands) /\ rx \in Seq(Commands)
      /\ Len(pending) \in Nat /\ Len(rx) \in Nat /\ QueueDepth \in Nat
      /\ Room \in Nat /\ Len(pending) + Room = QueueDepth
  BY LenProperties, ConstantsAssumption DEF TypeOK, Room
<1> DEFINE n == IF ~DebugAssertions /\ Room > 0 THEN 0
                ELSE IF Len(rx) < Room THEN Len(rx) ELSE Room
           c == SubSeq(rx, 1, n)
<1>2. n \in 0..Len(rx) /\ n <= Room
  BY <1>1
<1>3. pending' = pending \o c /\ rx' = <<>>
  <2>1. CASE ~DebugAssertions /\ Room > 0
    <3>1. pending' = pending /\ rx' = <<>> /\ n = 0
      BY <2>1 DEF Collect
    <3>2. SubSeq(rx, 1, 0) \in Seq(Commands) /\ Len(SubSeq(rx, 1, 0)) = 0
      <4>1. 0 \in 0..Len(rx)
        BY <1>1
      <4> QED BY <1>1, <4>1, Prefix
    <3>3. SubSeq(rx, 1, 0) = <<>>
      BY <3>2, EmptySeq
    <3>4. pending \o <<>> = pending
      BY <1>1, ConcatEmptySeq
    <3> HIDE DEF n
    <3>5. c = <<>>
      BY <3>1, <3>3
    <3> HIDE DEF c
    <3> QED BY <3>1, <3>4, <3>5
  <2>2. CASE ~(~DebugAssertions /\ Room > 0)
    BY <2>2 DEF Collect, Collected
  <2> QED BY <2>1, <2>2
<1>4. DebugAssertions => n = IF Len(rx) < Room THEN Len(rx) ELSE Room
  OBVIOUS
<1> HIDE DEF n, c
<1>5. /\ c \in Seq(Commands) /\ Len(c) = n
      /\ Len(pending \o c) = Len(pending) + n
  <2>1. c \in Seq(Commands) /\ Len(c) = n
    BY <1>1, <1>2, Prefix DEF c
  <2>2. Len(pending \o c) = Len(pending) + Len(c)
    BY <1>1, <2>1, ConcatProperties
  <2> QED BY <2>1, <2>2
<1>6. Waiting = LineOf(None, pending, rx)
      /\ Waiting' = LineOf(None, pending \o c, <<>>)
  BY <1>3, WaitingIsLine
<1>7. LineOf(None, pending \o c, <<>>)
        = SubSeq(LineOf(None, pending, rx), 1, Len(pending) + n)
  BY <1>1, <1>2, CollectCutsLine DEF c
<1>8. Len(Waiting) = Len(pending) + Len(rx)
  <2>1. Waiting = Ids(pending) \o Ids(rx)
    BY <1>1, <1>6, LineParts
  <2>2. /\ Ids(pending) \in Seq(Nat) /\ Len(Ids(pending)) = Len(pending)
        /\ Ids(rx) \in Seq(Nat) /\ Len(Ids(rx)) = Len(rx)
    BY <1>1, IdsTyped
  <2>3. Len(Ids(pending) \o Ids(rx)) = Len(Ids(pending)) + Len(Ids(rx))
    BY <2>2, ConcatProperties
  <2> QED BY <2>1, <2>2, <2>3
<1> DEFINE m == Len(pending) + n
<1>9. m \in 0..Len(Waiting)
  BY <1>1, <1>2, <1>8
<1>10. Waiting' = SubSeq(Waiting, 1, m)
  BY <1>6, <1>7
<1>11. DebugAssertions => \/ m = Len(Waiting)
                          \/ m = QueueDepth /\ Len(pending') = QueueDepth
  BY <1>1, <1>3, <1>4, <1>5, <1>8
<1> HIDE DEF m
<1> QED BY <1>9, <1>10, <1>11, Zenon DEF Trimmed, CutTo

LEMMA ServingIsRun ==
  ASSUME NEW r \in SequenceRuns
  PROVE  r # None /\ r.cmd.id \in Nat /\ r.cmd.id # None
<1>1. r # None /\ r.cmd \in Commands
  BY RunNotNone, RunFields
<1>2. r.cmd.id \in Nat
  BY <1>1 DEF Commands
<1> QED BY <1>1, <1>2, NoneAssumption

(* start_queued_command takes what heads the line.                         *)
LEMMA BeginTakes ==
  ASSUME NEW c \in Commands, NEW n \in Nat, BeginRun(c, n), run = None,
         Waiting # <<>>, Head(Waiting) = c.id, Waiting' = Tail(Waiting),
         straps' = straps, linkUp' = linkUp, issued' = issued
  PROVE  Taken
<1> HIDE DEF Waiting
<1>1. Serving = None
  BY DEF Serving
<1>2. CASE run' = NewRun(c, n)
  <2>1. NewRun(c, n) \in SequenceRuns /\ NewRun(c, n).cmd = c
    BY NewRunTyped DEF NewRun
  <2>2. Serving' = c.id
    BY <1>2, <2>1, RunNotNone DEF Serving
  <2> QED BY <1>1, <2>2 DEF Taken
<1>3. CASE run' = run /\ (~linkUp \/ lastRejection' = Rejection(c, "MissingTemplate"))
  <2>1. Serving' = None
    BY <1>3 DEF Serving
  <2> QED BY <1>1, <1>3, <2>1 DEF Taken, Rejection
<1> QED BY <1>2, <1>3 DEF BeginRun

(* A step that touches none of the queues and keeps the run and the lines. *)
LEMMA RestsWhere ==
  ASSUME UNCHANGED <<rx, pending, held, straps, issued>>, Serving' = Serving
  PROVE  Rested
BY WaitingIsLine DEF Rested

(* A step within a run that leaves the queues alone works on the run.      *)
LEMMA WorksWhere ==
  ASSUME TypeOK, UNCHANGED <<rx, pending, held, issued>>,
         Serving' = Serving, Serving # None
  PROVE  Worked
<1>1. Waiting' = Waiting
  BY WaitingIsLine
<1>2. /\ Len(Waiting) \in 0..Len(Waiting)
      /\ Waiting' = SubSeq(Waiting, 1, Len(Waiting))
  BY <1>1, LineAsWaiting
<1>3. Trimmed
  <2> HIDE DEF Waiting
  <2> QED BY <1>2 DEF Trimmed, CutTo
<1> QED BY <1>3 DEF Worked

LEMMA LineStep == IInv /\ [Next]_vars => LineMoves
<1> SUFFICES ASSUME IInv, [Next]_vars PROVE LineMoves
  OBVIOUS
<1> HIDE DEF Waiting, Serving
<1>1. /\ TypeOK /\ ControlState
      /\ rx \in Seq(Commands) /\ pending \in Seq(Commands)
      /\ held \in Commands \cup {None} /\ Len(pending) <= QueueDepth
      /\ pc # "heldDelay" => held = None
  BY DEF IInv, TypeOK, ControlState
<1>2. ASSUME run # None
      PROVE  run \in SequenceRuns /\ linkUp /\ Serving = run.cmd.id
             /\ Serving # None
  <2>1. run \in SequenceRuns /\ linkUp /\ run.cmd.kind \in Registered
    BY <1>1, <1>2 DEF TypeOK, ControlState, RunInPlace
  <2>2. Serving = run.cmd.id
    BY <1>2 DEF Serving
  <2> QED BY <2>1, <2>2, ServingIsRun
<1>3. ASSUME run # None, run' \in SequenceRuns, run'.cmd = run.cmd
      PROVE  Serving' = Serving /\ Serving # None
  <2>1. run' # None
    BY <1>3, RunNotNone
  <2> QED BY <1>2, <1>3, <2>1 DEF Serving
<1>4. CASE StartPending
  <2>1. /\ Head(pending) \in Commands /\ held = None /\ held' = None
        /\ pending' = Tail(pending) /\ rx' = rx /\ run = None
        /\ BeginRun(Head(pending), 2) /\ pending # <<>>
        /\ straps' = straps /\ linkUp' = linkUp /\ issued' = issued
    BY <1>1, <1>4, QueueHead DEF StartPending
  <2>2. /\ Waiting = LineOf(None, pending, rx)
        /\ Waiting' = LineOf(None, Tail(pending), rx)
    BY <2>1, WaitingIsLine
  <2>3. /\ Waiting # <<>> /\ Head(Waiting) = Head(pending).id
        /\ Waiting' = Tail(Waiting)
    BY <1>1, <2>1, <2>2, TakeFromLine
  <2>4. Taken
    BY <2>1, <2>3, BeginTakes
  <2> QED BY <2>4 DEF LineMoves
<1>5. CASE DelayPending
  <2>1. /\ held = None /\ held' = None /\ rx' = rx /\ run = None
        /\ run' = run /\ pending # <<>> /\ pending' = Requeued
        /\ straps' = straps /\ issued' = issued
    BY <1>1, <1>5 DEF DelayPending
  <2>2. CASE DebugAssertions
    <3>1. pending' = pending
      BY <2>1, <2>2 DEF Requeued
    <3>2. Rested
      BY <2>1, <3>1, RestsWhere DEF Serving
    <3> QED BY <3>2 DEF LineMoves
  <2>3. CASE ~DebugAssertions
    <3>1. pending' = Tail(pending)
      BY <2>1, <2>3 DEF Requeued
    <3>2. /\ Waiting = LineOf(None, pending, rx)
          /\ Waiting' = LineOf(None, Tail(pending), rx)
      BY <2>1, <3>1, WaitingIsLine
    <3>3. Waiting # <<>> /\ Waiting' = Tail(Waiting)
      BY <1>1, <2>1, <3>2, TakeFromLine
    <3>4. Serving = None /\ Serving' = None
      BY <2>1 DEF Serving
    <3>5. Taken
      BY <2>1, <2>3, <3>3, <3>4 DEF Taken
    <3> QED BY <3>5 DEF LineMoves
  <2> QED BY <2>2, <2>3
<1>6. CASE ReceiveCommand
  <2>1. /\ held = None /\ pending = <<>> /\ run = None /\ pending' = pending
        /\ straps' = straps /\ linkUp' = linkUp /\ issued' = issued
        /\ rx # <<>> /\ rx' = Tail(rx) /\ Head(rx) \in Commands
    BY <1>1, <1>6, QueueHead DEF ReceiveCommand, ControlState
  <2>2. CASE BeginRun(Head(rx), 1) /\ held' = held
    <3>1. /\ Waiting = LineOf(None, <<>>, rx)
          /\ Waiting' = LineOf(None, <<>>, Tail(rx))
      BY <2>1, <2>2, WaitingIsLine
    <3>2. /\ Waiting # <<>> /\ Head(Waiting) = Head(rx).id
          /\ Waiting' = Tail(Waiting)
      BY <1>1, <2>1, <3>1, TakeFromLine
    <3>3. Taken
      BY <2>1, <2>2, <3>2, BeginTakes
    <3> QED BY <3>3 DEF LineMoves
  <2>3. CASE held' = Head(rx) /\ run' = run
    <3>1. /\ Waiting = LineOf(None, <<>>, rx)
          /\ Waiting' = LineOf(Head(rx), <<>>, Tail(rx))
      BY <2>1, <2>3, WaitingIsLine
    <3>2. Waiting' = Waiting
      BY <1>1, <2>1, <3>1, HoldKeepsLine
    <3>3. Rested
      BY <2>1, <2>3, <3>2 DEF Rested, Serving
    <3> QED BY <3>3 DEF LineMoves
  <2> QED BY <1>6, <2>2, <2>3 DEF ReceiveCommand
<1>7. CASE StartHeld
  <2>1. /\ held \in Commands /\ pending = <<>> /\ run = None
        /\ pending' = pending /\ rx' = rx /\ held' = None
        /\ straps' = straps /\ linkUp' = linkUp /\ issued' = issued
        /\ BeginRun(held, 1)
    BY <1>1, <1>7 DEF StartHeld, ControlState
  <2>2. /\ Waiting = LineOf(held, <<>>, rx)
        /\ Waiting' = LineOf(None, <<>>, rx)
    BY <2>1, WaitingIsLine
  <2>3. /\ Waiting # <<>> /\ Head(Waiting) = held.id
        /\ Waiting' = Tail(Waiting)
    BY <1>1, <2>1, <2>2, HoldKeepsLine
  <2>4. Taken
    BY <2>1, <2>3, BeginTakes
  <2> QED BY <2>4 DEF LineMoves
<1>8. ASSUME Collect, run # None, pc # "heldDelay", held' = held
      PROVE  Trimmed
  <2>1. held = None /\ held' = None /\ linkUp
    BY <1>1, <1>2, <1>8
  <2> QED BY <1>1, <1>8, <2>1, CollectTrims
<1>9. CASE FinishRun
  <2>1. /\ run # None /\ run.state \in Terminal /\ run' = None
        /\ straps' = straps /\ issued' = issued
        /\ Collect /\ pc # "heldDelay" /\ held' = held
    BY <1>9 DEF FinishRun
  <2>2. Trimmed
    BY <1>8, <2>1
  <2>3. straps = {}
    BY <2>1 DEF IInv, StrapsFollowTheRun, Terminal
  <2>4. Serving # None /\ Serving' = None
    BY <1>2, <2>1 DEF Serving
  <2>5. Finished
    BY <2>1, <2>2, <2>3, <2>4 DEF Finished
  <2> QED BY <2>5 DEF LineMoves
<1>10. ASSUME Collect, run # None, pc # "heldDelay", held' = held,
              run' \in SequenceRuns, run'.cmd = run.cmd, issued' = issued
       PROVE  LineMoves
  <2>1. Trimmed
    BY <1>8, <1>10
  <2>2. Serving' = Serving /\ Serving # None
    BY <1>3, <1>10
  <2>3. Worked
    BY <1>10, <2>1, <2>2 DEF Worked
  <2> QED BY <2>3 DEF LineMoves
<1>11. CASE PollRail
  <2>1. /\ Collect /\ run # None /\ pc # "heldDelay" /\ held' = held
        /\ run' = run /\ issued' = issued
    BY <1>11 DEF PollRail, Polling
  <2> QED BY <1>2, <1>10, <2>1
<1>12. CASE RetryRun
  <2>1. /\ Collect /\ run # None /\ pc # "heldDelay" /\ held' = held
        /\ run' = RetriedRun(run) /\ issued' = issued
    BY <1>12 DEF RetryRun, Polling
  <2>2. run' \in SequenceRuns /\ run'.cmd = run.cmd
    BY <1>2, <2>1, Retried
  <2> QED BY <1>10, <2>1, <2>2
<1>13. CASE GiveUp
  <2>1. /\ Collect /\ run # None /\ pc # "heldDelay" /\ held' = held
        /\ run' = Ended(run, "Error", LineCount) /\ issued' = issued
    BY <1>13 DEF GiveUp, Polling
  <2>2. run' \in SequenceRuns /\ run'.cmd = run.cmd
    <3>1. run \in SequenceRuns /\ "Error" \in SequenceStates /\ LineCount \in Nat
      BY <1>2, <2>1 DEF SequenceStates, LineCount
    <3> QED BY <2>1, <3>1, EndedRun
  <2> QED BY <1>10, <2>1, <2>2
<1>14. CASE SampleRecovery
  <2>1. /\ Collect /\ run # None /\ pc # "heldDelay" /\ held' = held
        /\ run' = run /\ issued' = issued
    BY <1>1, <1>14 DEF SampleRecovery, ControlState
  <2> QED BY <1>2, <1>10, <2>1
<1>15. ASSUME run # None, UNCHANGED <<rx, pending, held, issued>>,
              run' \in SequenceRuns, run'.cmd = run.cmd
       PROVE  LineMoves
  <2>1. Serving' = Serving /\ Serving # None
    BY <1>3, <1>15
  <2>2. Worked
    BY <1>1, <1>15, <2>1, WorksWhere
  <2> QED BY <2>2 DEF LineMoves
<1>16. CASE Arm
  <2>1. /\ run # None /\ run.cmd.kind \in Registered /\ EnterStep(1)
        /\ UNCHANGED <<rx, pending, held, issued>>
    BY <1>1, <1>16 DEF Arm, ControlState, RunInPlace
  <2>2. run' \in SequenceRuns /\ run'.cmd = run.cmd
    BY <1>1, <1>2, <2>1, EnterStepTyped, EnterStepEffect
  <2> QED BY <1>15, <2>1, <2>2
<1>17. CASE FinishStep
  <2>1. /\ run # None /\ run.cmd.kind \in Registered
        /\ EnterStep(run.step + 1)
        /\ UNCHANGED <<rx, pending, held, issued>>
    BY <1>1, <1>17 DEF FinishStep, ControlState, RunInPlace
  <2>2. run.step + 1 \in Nat \ {0}
    BY <1>2, <2>1, RunFields
  <2>3. run' \in SequenceRuns /\ run'.cmd = run.cmd
    BY <1>1, <1>2, <2>1, <2>2, EnterStepTyped, EnterStepEffect
  <2> QED BY <1>15, <2>1, <2>3
<1>18. CASE CompleteRun
  <2>1. /\ run # None /\ run' = Ended(run, "Complete", 1)
        /\ UNCHANGED <<rx, pending, held, issued>>
    BY <1>1, <1>18 DEF CompleteRun, ControlState
  <2>2. run' \in SequenceRuns /\ run'.cmd = run.cmd
    <3>1. run \in SequenceRuns /\ "Complete" \in SequenceStates /\ 1 \in Nat
      BY <1>2, <2>1 DEF SequenceStates
    <3> QED BY <2>1, <3>1, EndedRun
  <2> QED BY <1>15, <2>1, <2>2
<1>19. CASE AwaitCommand \/ Wake \/ Pause \/ ControlLinkAttached \/ RailChange
            \/ UNCHANGED vars
  <2>1. UNCHANGED <<rx, pending, held, straps, issued>> /\ run' = run
    BY <1>19 DEF AwaitCommand, Wake, Pause, ControlLinkAttached, RailChange,
                 vars, taskVars
  <2>2. Serving' = Serving
    BY <2>1 DEF Serving
  <2>3. Rested
    BY <2>1, <2>2, RestsWhere
  <2> QED BY <2>3 DEF LineMoves
<1>20. CASE ControlLinkLost
  <2>1. /\ LinkNotices /\ held = None /\ held' = None /\ rx' = rx
        /\ pending' = <<>> /\ run' = None /\ ~linkUp' /\ issued' = issued
    BY <1>1, <1>20 DEF ControlLinkLost, DrainPending
  <2>2. /\ Waiting = LineOf(None, pending, rx)
        /\ Waiting' = LineOf(None, <<>>, rx)
    BY <2>1, WaitingIsLine
  <2>3. Waiting' = SubSeq(Waiting, Len(pending) + 1, Len(Waiting))
    BY <1>1, <2>2, DrainCutsLine
  <2>4. Len(pending) \in 0..Len(Waiting)
    <3>1. Waiting = Ids(pending) \o Ids(rx)
      BY <1>1, <2>2, LineParts
    <3>2. /\ Ids(pending) \in Seq(Nat) /\ Len(Ids(pending)) = Len(pending)
          /\ Ids(rx) \in Seq(Nat) /\ Len(Ids(rx)) \in Nat
          /\ Len(pending) \in Nat
      BY <1>1, IdsTyped, LenProperties
    <3>3. Len(Ids(pending) \o Ids(rx)) = Len(Ids(pending)) + Len(Ids(rx))
      BY <3>2, ConcatProperties
    <3> QED BY <3>1, <3>2, <3>3
  <2>5. Serving' = None
    BY <2>1 DEF Serving
  <2>6. Aborted
    BY <2>1, <2>3, <2>4, <2>5 DEF Aborted
  <2> QED BY <2>6 DEF LineMoves
<1>21. ASSUME NEW k \in Kinds, NEW d \in Delays, NEW r \in Overrides,
              Submit(k, d, r)
       PROVE  LineMoves
  <2> DEFINE c == [id |-> issued + 1, kind |-> k, wait |-> d, retries |-> r]
  <2>1. c \in Commands /\ c.id = issued + 1
    <3>1. issued \in Nat /\ d \in Nat
      BY <1>1, ConstantsAssumption DEF TypeOK
    <3> QED BY <3>1 DEF Commands
  <2>2. /\ issued' = issued + 1 /\ rx' = Append(rx, c)
        /\ pending' = pending /\ held' = held /\ run' = run
        /\ straps' = straps
    BY <1>21 DEF Submit, taskVars
  <2> HIDE DEF c
  <2>3. /\ Waiting = LineOf(held, pending, rx)
        /\ Waiting' = LineOf(held, pending, Append(rx, c))
    BY <2>2, WaitingIsLine
  <2>4. Waiting' = Append(Waiting, issued + 1)
    <3>1. LineOf(held, pending, Append(rx, c))
            = Append(LineOf(held, pending, rx), c.id)
      BY <1>1, <2>1, SubmitJoinsLine
    <3>2. c.id = issued + 1
      BY <2>1
    <3> QED BY <2>3, <3>1, <3>2, Zenon
  <2>5. Joined
    BY <2>2, <2>4 DEF Joined, Serving
  <2> QED BY <2>5 DEF LineMoves
<1>22. CASE Tick
  <2>1. /\ rx' = [i \in DOMAIN rx |-> Sooner(rx[i])]
        /\ pending' = [i \in DOMAIN pending |-> Sooner(pending[i])]
        /\ held' = IF held = None THEN None ELSE Sooner(held)
        /\ run' = IF run = None THEN None
                  ELSE [run EXCEPT !.stepLeft = Less(@), !.coolLeft = Less(@)]
        /\ straps' = straps /\ issued' = issued
    BY <1>22 DEF Tick
  <2>2. Waiting' = Waiting
    <3>1. Waiting' = LineOf(IF held = None THEN None ELSE Sooner(held),
                            [i \in DOMAIN pending |-> Sooner(pending[i])],
                            [i \in DOMAIN rx |-> Sooner(rx[i])])
      BY <2>1, WaitingIsLine
    <3> QED BY <1>1, <3>1, TickKeepsLine, WaitingIsLine
  <2>3. Serving' = Serving
    <3>1. CASE run = None
      BY <2>1, <3>1 DEF Serving
    <3>2. CASE run # None
      <4>1. run' \in SequenceRuns /\ run'.cmd = run.cmd
        <5>1. run \in SequenceRuns
          BY <1>2, <3>2
        <5>2. run' = [run EXCEPT !.stepLeft = Less(@), !.coolLeft = Less(@)]
          BY <2>1, <3>2
        <5> QED BY <5>1, <5>2, TickedRun DEF SequenceRuns
      <4> QED BY <1>3, <3>2, <4>1
    <3> QED BY <3>1, <3>2
  <2>4. Rested
    BY <2>1, <2>2, <2>3 DEF Rested
  <2> QED BY <2>4 DEF LineMoves
<1> QED BY <1>4, <1>5, <1>6, <1>7, <1>9, <1>11, <1>12, <1>13, <1>14, <1>16,
           <1>17, <1>18, <1>19, <1>20, <1>21, <1>22
        DEF Next, Task, Drive, Environment

-----------------------------------------------------------------------------
(* The order of the line: ids grow along it, the one served is the         *)
(* smallest, and none is larger than the number of commands submitted.     *)

InLine(line, served, count) ==
  /\ \A i \in 1..Len(line) : line[i] \in 1..count
  /\ \A i, j \in 1..Len(line) : i < j => line[i] < line[j]
  /\ served # None =>
       served \in 1..count /\ \A i \in 1..Len(line) : served < line[i]

LEMMA JoinInLine ==
  ASSUME NEW w \in Seq(Nat), NEW n \in Nat, NEW s \in Nat \cup {None},
         InLine(w, s, n)
  PROVE  InLine(Append(w, n + 1), s, n + 1)
<1> DEFINE a == Append(w, n + 1)
<1>1. /\ Len(w) \in Nat /\ Len(a) = Len(w) + 1
      /\ \A i \in 1..Len(w) : a[i] = w[i]
      /\ a[Len(w) + 1] = n + 1
  BY AppendProperties, LenProperties
<1> HIDE DEF a
<1>2. /\ \A i \in 1..Len(w) : w[i] \in 1..n
      /\ \A i, j \in 1..Len(w) : i < j => w[i] < w[j]
      /\ s # None => s \in 1..n /\ \A i \in 1..Len(w) : s < w[i]
  BY DEF InLine
<1>3. \A i \in 1..Len(a) : i \in 1..Len(w) \/ i = Len(w) + 1
  BY <1>1
<1>4. ASSUME NEW i \in 1..Len(a) PROVE a[i] \in 1..(n + 1)
  <2>1. CASE i \in 1..Len(w)
    <3>1. a[i] \in 1..n
      BY <1>1, <1>2, <2>1
    <3> QED BY <3>1
  <2>2. CASE i = Len(w) + 1
    BY <1>1, <2>2
  <2> QED BY <1>3, <2>1, <2>2
<1>5. ASSUME NEW i \in 1..Len(a), NEW j \in 1..Len(a), i < j
      PROVE  a[i] < a[j]
  <2>1. i \in 1..Len(w) /\ a[i] = w[i] /\ w[i] \in 1..n
    BY <1>1, <1>2, <1>5
  <2>2. CASE j \in 1..Len(w)
    <3>1. a[j] = w[j]
      BY <1>1, <2>2
    <3>2. w[i] < w[j]
      BY <1>2, <1>5, <2>1, <2>2
    <3> QED BY <2>1, <3>1, <3>2
  <2>3. CASE j = Len(w) + 1
    BY <1>1, <2>1, <2>3
  <2> QED BY <1>3, <2>2, <2>3
<1>6. ASSUME s # None
      PROVE  s \in 1..(n + 1) /\ \A i \in 1..Len(a) : s < a[i]
  <2>1. s \in 1..n /\ \A i \in 1..Len(w) : s < w[i]
    BY <1>2, <1>6
  <2>2. ASSUME NEW i \in 1..Len(a) PROVE s < a[i]
    <3>1. CASE i \in 1..Len(w)
      BY <1>1, <2>1, <3>1
    <3>2. CASE i = Len(w) + 1
      <4>1. a[i] = n + 1
        BY <1>1, <3>2
      <4> QED BY <2>1, <4>1
    <3> QED BY <1>3, <3>1, <3>2
  <2> QED BY <2>1, <2>2
<1> QED BY <1>4, <1>5, <1>6 DEF a, InLine

\* Any stretch of a line in order is in order.
LEMMA StretchInLine ==
  ASSUME NEW w \in Seq(Nat), NEW n \in Nat, NEW s \in Nat \cup {None},
         InLine(w, s, n), NEW a \in Seq(Nat), NEW k \in Nat,
         Len(a) + k <= Len(w), \A i \in 1..Len(a) : a[i] = w[k + i]
  PROVE  InLine(a, s, n) /\ InLine(a, None, n)
<1>1. Len(w) \in Nat /\ Len(a) \in Nat
  BY LenProperties
<1>2. /\ \A i \in 1..Len(w) : w[i] \in 1..n
      /\ \A i, j \in 1..Len(w) : i < j => w[i] < w[j]
      /\ s # None => s \in 1..n /\ \A i \in 1..Len(w) : s < w[i]
  BY DEF InLine
<1>3. ASSUME NEW i \in 1..Len(a)
      PROVE  k + i \in 1..Len(w) /\ a[i] = w[k + i]
  <2> DEFINE l == Len(w)
             m == Len(a)
  <2>1. l \in Nat /\ m \in Nat /\ i \in 1..m /\ m + k <= l
    BY <1>1
  <2> HIDE DEF l, m
  <2>2. k + i \in 1..l
    BY <2>1
  <2> QED BY <2>2 DEF l
<1>4. \A i \in 1..Len(a) : a[i] \in 1..n
  BY <1>2, <1>3
<1>5. ASSUME NEW i \in 1..Len(a), NEW j \in 1..Len(a), i < j
      PROVE  a[i] < a[j]
  <2>1. k + i < k + j
    BY <1>1, <1>5
  <2> QED BY <1>2, <1>3, <2>1
<1>6. ASSUME s # None PROVE s \in 1..n /\ \A i \in 1..Len(a) : s < a[i]
  BY <1>2, <1>3, <1>6
<1> QED BY <1>4, <1>5, <1>6 DEF InLine

LEMMA TakeInLine ==
  ASSUME NEW w \in Seq(Nat), NEW n \in Nat, w # <<>>, InLine(w, None, n)
  PROVE  InLine(Tail(w), Head(w), n) /\ InLine(Tail(w), None, n)
<1> DEFINE t == Tail(w)
           h == Head(w)
<1>1. /\ Len(w) \in Nat /\ Len(w) >= 1 /\ Len(t) = Len(w) - 1
      /\ h = w[1] /\ t \in Seq(Nat)
      /\ \A i \in 1..Len(t) : t[i] = w[i + 1]
  BY QueueHead, HeadTailProperties
<1> HIDE DEF t, h
<1>2. /\ \A i \in 1..Len(w) : w[i] \in 1..n
      /\ \A i, j \in 1..Len(w) : i < j => w[i] < w[j]
  BY DEF InLine
<1>3. InLine(t, None, n)
  <2>1. Len(t) + 1 <= Len(w) /\ \A i \in 1..Len(t) : t[i] = w[1 + i]
    BY <1>1
  <2> QED BY <1>1, <2>1, StretchInLine
<1>4. 1 \in 1..Len(w)
        /\ \A i \in 1..Len(t) : i + 1 \in 1..Len(w) /\ 1 < i + 1
  BY <1>1
<1>5. h \in 1..n
  BY <1>1, <1>2, <1>4
<1>6. \A i \in 1..Len(t) : h < t[i]
  BY <1>1, <1>2, <1>4
<1>7. InLine(t, h, n)
  BY <1>3, <1>5, <1>6 DEF InLine
<1> QED BY <1>3, <1>7 DEF t, h

LEMMA CutInLine ==
  ASSUME NEW w \in Seq(Nat), NEW n \in Nat, NEW s \in Nat \cup {None},
         InLine(w, s, n), NEW m \in 0..Len(w)
  PROVE  /\ InLine(SubSeq(w, 1, m), s, n) /\ InLine(SubSeq(w, 1, m), None, n)
         /\ InLine(SubSeq(w, m + 1, Len(w)), None, n)
<1>1. Len(w) \in Nat /\ \A i \in 1..Len(w) : w[i] \in Nat
  BY LenProperties, ElementOfSeq
<1> DEFINE a == SubSeq(w, 1, m)
           b == SubSeq(w, m + 1, Len(w))
<1>2. /\ a \in Seq(Nat) /\ Len(a) + 0 <= Len(w)
      /\ \A i \in 1..Len(a) : a[i] = w[0 + i]
  BY <1>1, Prefix
<1>3. /\ b \in Seq(Nat) /\ Len(b) + m <= Len(w)
      /\ \A i \in 1..Len(b) : b[i] = w[m + i]
  <2> DEFINE l == m + 1
             k == Len(w)
  <2>1. /\ l \in Int /\ k \in Int
        /\ (IF l <= k THEN k - l + 1 ELSE 0) = Len(w) - m
        /\ k - l + 1 = Len(w) - m
        /\ \A i \in 1..(Len(w) - m) : l + i - 1 = m + i
    BY <1>1
  <2>2. \A i \in l..k : w[i] \in Nat
    BY <1>1
  <2> HIDE DEF l, k
  <2>3. /\ SubSeq(w, l, k) \in Seq(Nat)
        /\ Len(SubSeq(w, l, k)) = IF l <= k THEN k - l + 1 ELSE 0
        /\ \A i \in 1..k - l + 1 : SubSeq(w, l, k)[i] = w[l + i - 1]
    BY <2>1, <2>2, SubSeqProperties
  <2>4. b = SubSeq(w, l, k)
    BY DEF l, k
  <2> HIDE DEF b
  <2>5. Len(b) = Len(w) - m /\ b \in Seq(Nat)
    BY <2>1, <2>3, <2>4
  <2>6. \A i \in 1..(Len(w) - m) : b[i] = w[m + i]
    BY <2>1, <2>3, <2>4
  <2> QED BY <1>1, <2>5, <2>6
<1> HIDE DEF a, b
<1>4. InLine(a, s, n) /\ InLine(a, None, n)
  BY <1>2, StretchInLine
<1>5. InLine(b, None, n)
  BY <1>3, StretchInLine
<1> QED BY <1>4, <1>5 DEF a, b

InOrder == InLine(Waiting, Serving, issued)

LEMMA ServingTyped == TypeOK => Serving \in Nat \cup {None} /\ issued \in Nat
<1> SUFFICES ASSUME TypeOK PROVE Serving \in Nat \cup {None} /\ issued \in Nat
  OBVIOUS
<1>1. issued \in Nat
  BY ConstantsAssumption DEF TypeOK
<1>2. CASE run = None
  BY <1>1, <1>2 DEF Serving
<1>3. CASE run # None
  <2>1. run \in SequenceRuns
    BY <1>3 DEF TypeOK
  <2>2. run.cmd.id \in Nat
    BY <2>1, ServingIsRun
  <2> QED BY <1>1, <1>3, <2>2 DEF Serving
<1> QED BY <1>2, <1>3

LEMMA InOrderInit == Init => InOrder
<1> SUFFICES ASSUME Init PROVE InOrder
  OBVIOUS
<1>1. /\ held = None /\ pending = <<>> /\ rx = <<>> /\ run = None
      /\ <<>> \in Seq(Commands) /\ <<>> \in Seq(Nat)
  BY EmptySeq DEF Init
<1>2. Waiting = <<>>
  <2>1. Waiting = LineOf(None, <<>>, <<>>)
    BY <1>1, WaitingIsLine
  <2>2. LineOf(None, <<>>, <<>>) = Ids(<<>>)
    BY <1>1, LineParts
  <2> QED BY <2>1, <2>2, IdsOfNone
<1>3. Serving = None
  BY <1>1 DEF Serving
<1> QED BY <1>2, <1>3 DEF InOrder, InLine

LEMMA InOrderStep == IInv /\ InOrder /\ LineMoves => InOrder'
<1> SUFFICES ASSUME IInv, InOrder, LineMoves PROVE InOrder'
  OBVIOUS
<1>1. /\ Waiting \in Seq(Nat) /\ Serving \in Nat \cup {None}
      /\ issued \in Nat /\ InLine(Waiting, Serving, issued)
  BY LineAsWaiting, ServingTyped DEF IInv, InOrder
<1> HIDE DEF Waiting, Serving
<1>2. CASE Joined
  BY <1>1, <1>2, JoinInLine DEF Joined, InOrder
<1>3. CASE Taken
  <2>1. /\ InLine(Tail(Waiting), Head(Waiting), issued)
        /\ InLine(Tail(Waiting), None, issued)
    BY <1>1, <1>3, TakeInLine DEF Taken
  <2> QED BY <1>3, <2>1 DEF Taken, InOrder
<1>4. ASSUME Trimmed
      PROVE  /\ InLine(Waiting', Serving, issued)
             /\ InLine(Waiting', None, issued)
  <2>1. PICK n \in 0..Len(Waiting) : CutTo(n)
    BY <1>4 DEF Trimmed
  <2>2. Waiting' = SubSeq(Waiting, 1, n)
    BY <2>1 DEF CutTo
  <2> QED BY <1>1, <2>2, CutInLine
<1>5. CASE Worked
  BY <1>4, <1>5 DEF Worked, InOrder
<1>6. CASE Finished
  BY <1>4, <1>6 DEF Finished, InOrder
<1>7. CASE Aborted
  <2>1. PICK n \in 0..Len(Waiting) :
               Waiting' = SubSeq(Waiting, n + 1, Len(Waiting))
    BY <1>7 DEF Aborted
  <2>2. InLine(SubSeq(Waiting, n + 1, Len(Waiting)), None, issued)
    BY <1>1, CutInLine
  <2> QED BY <1>7, <2>1, <2>2 DEF Aborted, InOrder
<1>8. CASE Rested
  BY <1>1, <1>8 DEF Rested, InOrder
<1> QED BY <1>2, <1>3, <1>5, <1>6, <1>7, <1>8 DEF LineMoves

(* IInv with the order of the line.                                        *)
LineInv == IInv /\ InOrder

LEMMA LineInvHolds == Spec => []LineInv
<1>1. Init => LineInv
  BY InitIInv, InOrderInit DEF LineInv
<1>2. LineInv /\ [Next]_vars => LineInv'
  BY NextIInv, LineStep, InOrderStep DEF LineInv
<1> QED BY <1>1, <1>2, PTL DEF Spec

-----------------------------------------------------------------------------
(* The backlog is the command served, followed by the line.                *)

First == IF run = None THEN <<>> ELSE <<run.cmd.id>>

LEMMA BacklogParts ==
  TypeOK => /\ Backlog = First \o Waiting
            /\ First \in Seq(Nat)
            /\ run = None => Len(First) = 0 /\ Serving = None
            /\ run # None => /\ Len(First) = 1 /\ First[1] = Serving
                             /\ Serving = run.cmd.id /\ Serving # None
<1> SUFFICES ASSUME TypeOK
             PROVE  /\ Backlog = First \o Waiting
                    /\ First \in Seq(Nat)
                    /\ run = None => Len(First) = 0 /\ Serving = None
                    /\ run # None => /\ Len(First) = 1 /\ First[1] = Serving
                                     /\ Serving = run.cmd.id /\ Serving # None
  OBVIOUS
<1>1. ASSUME run = None
      PROVE  /\ First = <<>> /\ First \in Seq(Nat) /\ Len(First) = 0
             /\ Serving = None
  BY <1>1, EmptySeq DEF First, Serving
<1>2. ASSUME run # None
      PROVE  /\ First \in Seq(Nat) /\ Len(First) = 1 /\ First[1] = Serving
             /\ Serving = run.cmd.id /\ Serving # None
  <2>1. run.cmd.id \in Nat /\ run.cmd.id # None
    BY <1>2, ServingIsRun DEF TypeOK
  <2>2. First = <<run.cmd.id>> /\ Serving = run.cmd.id
    BY <1>2 DEF First, Serving
  <2>3. <<run.cmd.id>> \in Seq(Nat) /\ Len(<<run.cmd.id>>) = 1
          /\ <<run.cmd.id>>[1] = run.cmd.id
    BY <2>1, OneTyped
  <2> HIDE DEF First, Serving
  <2> QED BY <2>1, <2>2, <2>3
<1>3. First \in Seq(Nat)
  BY <1>1, <1>2
<1>4. Backlog = First \o Waiting
  <2> DEFINE h == IF held = None THEN <<>> ELSE <<held.id>>
             p == Ids(pending)
             x == Ids(rx)
  <2>1. p \in Seq(Nat) /\ x \in Seq(Nat)
    BY IdsTyped DEF TypeOK
  <2>2. h \in Seq(Nat)
    <3>1. CASE held = None
      BY <3>1, EmptySeq
    <3>2. CASE held # None
      <4>1. held.id \in Nat
        BY <3>2 DEF TypeOK, Commands
      <4> QED BY <3>2, <4>1, OneTyped
    <3> QED BY <3>1, <3>2
  <2>3. Backlog = First \o h \o p \o x /\ Waiting = h \o p \o x
    BY DEF Backlog, Waiting, First
  <2> HIDE DEF h, p, x
  <2> HIDE DEF First
  <2>4. SetsApart(First, h, p, x)
    BY <1>3, <2>1, <2>2, FourQueues
  <2> QED BY <2>3, <2>4, Zenon DEF SetsApart
<1> QED BY <1>1, <1>2, <1>3, <1>4

LEMMA BacklogIndexed ==
  TypeOK => /\ Waiting \in Seq(Nat) /\ Len(Waiting) \in Nat
            /\ Len(First) \in {0, 1}
            /\ DOMAIN Backlog = 1..(Len(First) + Len(Waiting))
            /\ Len(Backlog) = Len(First) + Len(Waiting)
            /\ \A i \in 1..Len(First) : Backlog[i] = First[i]
            /\ \A i \in 1..Len(Waiting) : Backlog[Len(First) + i] = Waiting[i]
<1> SUFFICES ASSUME TypeOK
             PROVE  /\ Waiting \in Seq(Nat) /\ Len(Waiting) \in Nat
                    /\ Len(First) \in {0, 1}
                    /\ DOMAIN Backlog = 1..(Len(First) + Len(Waiting))
                    /\ Len(Backlog) = Len(First) + Len(Waiting)
                    /\ \A i \in 1..Len(First) : Backlog[i] = First[i]
                    /\ \A i \in 1..Len(Waiting) :
                         Backlog[Len(First) + i] = Waiting[i]
  OBVIOUS
<1>1. /\ Backlog = First \o Waiting /\ First \in Seq(Nat)
      /\ Len(First) \in {0, 1} /\ Waiting \in Seq(Nat)
  BY BacklogParts, LineAsWaiting
<1> HIDE DEF First, Waiting, Backlog
<1> QED BY <1>1, IndexedConcat

LEMMA OutstandingIs ==
  ASSUME TypeOK
  PROVE  \A id : id \in Outstanding <=>
                   \/ run # None /\ id = Serving
                   \/ \E i \in 1..Len(Waiting) : Waiting[i] = id
<1>1. /\ Len(Waiting) \in Nat /\ Len(First) \in {0, 1}
      /\ DOMAIN Backlog = 1..(Len(First) + Len(Waiting))
      /\ \A i \in 1..Len(First) : Backlog[i] = First[i]
      /\ \A i \in 1..Len(Waiting) : Backlog[Len(First) + i] = Waiting[i]
      /\ run = None => Len(First) = 0
      /\ run # None => Len(First) = 1 /\ First[1] = Serving
  BY BacklogIndexed, BacklogParts
<1>2. \A id : id \in Outstanding <=> \E i \in DOMAIN Backlog : Backlog[i] = id
  BY DEF Outstanding
<1> HIDE DEF Backlog, First, Waiting, Serving, Outstanding
<1>3. ASSUME NEW i \in DOMAIN Backlog
      PROVE  \/ run # None /\ Backlog[i] = Serving
             \/ \E j \in 1..Len(Waiting) : Waiting[j] = Backlog[i]
  <2>1. CASE run # None /\ i = 1
    BY <1>1, <2>1
  <2>2. CASE ~(run # None /\ i = 1)
    <3>1. /\ i - Len(First) \in 1..Len(Waiting)
          /\ Len(First) + (i - Len(First)) = i
      BY <1>1, <2>2
    <3> QED BY <1>1, <3>1
  <2> QED BY <2>1, <2>2
<1>4. ASSUME run # None PROVE \E i \in DOMAIN Backlog : Backlog[i] = Serving
  <2>1. Len(First) = 1 /\ First[1] = Serving /\ 1 \in 1..Len(First)
    BY <1>1, <1>4
  <2>2. 1 \in DOMAIN Backlog /\ Backlog[1] = Serving
    BY <1>1, <2>1
  <2> QED BY <2>2
<1>5. ASSUME NEW i \in 1..Len(Waiting)
      PROVE  \E j \in DOMAIN Backlog : Backlog[j] = Waiting[i]
  <2>1. Len(First) + i \in DOMAIN Backlog /\ Backlog[Len(First) + i] = Waiting[i]
    BY <1>1
  <2> QED BY <2>1
<1>6. ASSUME NEW id,
             \/ run # None /\ Serving = id
             \/ \E j \in 1..Len(Waiting) : Waiting[j] = id
      PROVE  \E i \in DOMAIN Backlog : Backlog[i] = id
  BY <1>4, <1>5, <1>6, Zenon
<1>7. ASSUME NEW id, NEW i \in DOMAIN Backlog, Backlog[i] = id
      PROVE  \/ run # None /\ Serving = id
             \/ \E j \in 1..Len(Waiting) : Waiting[j] = id
  BY <1>3, <1>7, Zenon
<1> QED BY <1>2, <1>6, <1>7, Zenon

(* The host's commands are served in the order it gave them, whatever      *)
(* delays they carry, in every build: the active run, the held command,    *)
(* the pending queue and the channel always line up by age.                *)
THEOREM OrderKept == Spec => []ServedInOrder
<1>1. LineInv => ServedInOrder
  <2> SUFFICES ASSUME LineInv, NEW i \in DOMAIN Backlog,
                      NEW j \in DOMAIN Backlog, i < j
               PROVE  Backlog[i] < Backlog[j]
    BY DEF ServedInOrder
  <2>1. /\ Len(Waiting) \in Nat /\ Len(First) \in {0, 1}
        /\ DOMAIN Backlog = 1..(Len(First) + Len(Waiting))
        /\ \A k \in 1..Len(First) : Backlog[k] = First[k]
        /\ \A k \in 1..Len(Waiting) : Backlog[Len(First) + k] = Waiting[k]
        /\ Len(First) = 1 => First[1] = Serving /\ Serving # None
    <3>1. TypeOK
      BY DEF LineInv, IInv
    <3> HIDE DEF Backlog, First, Waiting, Serving
    <3>2. run = None => Len(First) = 0
      BY <3>1, BacklogParts
    <3>3. run # None => First[1] = Serving /\ Serving # None
      BY <3>1, BacklogParts
    <3> QED BY <3>1, <3>2, <3>3, BacklogIndexed
  <2>2. /\ \A k, m \in 1..Len(Waiting) : k < m => Waiting[k] < Waiting[m]
        /\ Serving # None => \A k \in 1..Len(Waiting) : Serving < Waiting[k]
    BY DEF LineInv, InOrder, InLine
  <2> HIDE DEF Backlog, First, Waiting, Serving
  <2>3. /\ j - Len(First) \in 1..Len(Waiting)
        /\ Len(First) + (j - Len(First)) = j
    <3> DEFINE f == Len(First)
               l == Len(Waiting)
    <3>1. f \in {0, 1} /\ l \in Nat /\ i \in 1..(f + l) /\ j \in 1..(f + l)
      BY <2>1
    <3> HIDE DEF f, l
    <3>2. j - f \in 1..l /\ f + (j - f) = j
      BY <3>1
    <3> QED BY <3>2 DEF f, l
  <2>4. Backlog[j] = Waiting[j - Len(First)]
    BY <2>1, <2>3
  <2>5. CASE i <= Len(First)
    <3>1. Len(First) = 1 /\ i = 1
      BY <2>1, <2>5
    <3>2. Backlog[i] = Serving /\ Serving # None
      BY <2>1, <3>1
    <3> QED BY <2>2, <2>3, <2>4, <3>2
  <2>6. CASE i > Len(First)
    <3>1. /\ i - Len(First) \in 1..Len(Waiting)
          /\ Len(First) + (i - Len(First)) = i
          /\ i - Len(First) < j - Len(First)
      BY <2>1, <2>6
    <3>2. Backlog[i] = Waiting[i - Len(First)]
      BY <2>1, <3>1
    <3> QED BY <2>2, <2>3, <2>4, <3>1, <3>2
  <2> QED BY <2>1, <2>5, <2>6
<1> QED BY <1>1, LineInvHolds, PTL

\* How long the line is.
LEMMA LineLength ==
  ASSUME NEW h \in Commands \cup {None}, NEW p \in Seq(Commands),
         NEW x \in Seq(Commands)
  PROVE  Len(LineOf(h, p, x)) = (IF h = None THEN 0 ELSE 1) + Len(p) + Len(x)
<1> DEFINE first == IF h = None THEN <<>> ELSE <<h.id>>
           l == IF h = None THEN 0 ELSE 1
           a == Ids(p)
           b == Ids(x)
<1>1. first \in Seq(Nat) /\ Len(first) = l /\ l \in Nat
  <2>1. ASSUME h = None PROVE first \in Seq(Nat) /\ Len(first) = l /\ l \in Nat
    BY <2>1, EmptySeq
  <2>2. ASSUME h # None PROVE first \in Seq(Nat) /\ Len(first) = l /\ l \in Nat
    <3>1. h.id \in Nat
      BY <2>2 DEF Commands
    <3> QED BY <2>2, <3>1, OneTyped
  <2> QED BY <2>1, <2>2
<1>2. /\ a \in Seq(Nat) /\ Len(a) = Len(p) /\ b \in Seq(Nat)
      /\ Len(b) = Len(x) /\ Len(p) \in Nat /\ Len(x) \in Nat
  BY IdsTyped
<1>3. LineOf(h, p, x) = first \o a \o b
  BY DEF LineOf
<1> HIDE DEF first, a, b, l
<1>4. first \o a \in Seq(Nat) /\ Len(first \o a) = Len(first) + Len(a)
  BY <1>1, <1>2, ConcatProperties
<1>5. Len(first \o a \o b) = Len(first \o a) + Len(b)
  BY <1>2, <1>4, ConcatProperties
<1>6. Len(LineOf(h, p, x)) = l + Len(p) + Len(x)
  BY <1>1, <1>2, <1>3, <1>4, <1>5
<1> QED BY <1>6 DEF l

(* The orchestrator has at most one run, its own queue and a full channel  *)
(* on its hands: while it holds a command it has no run and no queue.      *)
THEOREM BacklogIsBounded == Spec => []BacklogBounded
<1>1. LineInv => BacklogBounded
  <2> SUFFICES ASSUME LineInv PROVE BacklogBounded
    OBVIOUS
  <2>1. /\ held \in Commands \cup {None} /\ pending \in Seq(Commands)
        /\ rx \in Seq(Commands)
    BY DEF LineInv, IInv, TypeOK
  <2>2. Len(Waiting) = (IF held = None THEN 0 ELSE 1) + Len(pending) + Len(rx)
    BY <2>1, LineLength, WaitingIsLine
  <2>3. /\ Len(Backlog) = Len(First) + Len(Waiting)
        /\ run = None => Len(First) = 0
        /\ run # None => Len(First) = 1
    BY BacklogIndexed, BacklogParts DEF LineInv, IInv
  <2>4. /\ Len(rx) <= QueueDepth /\ Len(pending) <= QueueDepth
        /\ Len(rx) \in Nat /\ Len(pending) \in Nat /\ QueueDepth \in Nat
        /\ held # None => run = None /\ Len(pending) = 0
    <3>1. /\ Len(rx) <= QueueDepth /\ Len(pending) <= QueueDepth
          /\ held # None => run = None /\ pending = <<>>
      BY DEF LineInv, IInv, ControlState
    <3>2. Len(rx) \in Nat /\ Len(pending) \in Nat /\ QueueDepth \in Nat
      BY <2>1, LenProperties, ConstantsAssumption
    <3> QED BY <3>1, <3>2, EmptySeq
  <2> HIDE DEF Backlog, First, Waiting
  <2>5. CASE held = None /\ run = None
    BY <2>2, <2>3, <2>4, <2>5 DEF BacklogBounded
  <2>6. CASE held = None /\ run # None
    <3>1. Len(First) = 1 /\ Len(Waiting) = Len(pending) + Len(rx)
      BY <2>2, <2>3, <2>4, <2>6
    <3>2. Len(Backlog) = 1 + (Len(pending) + Len(rx))
      BY <2>3, <3>1
    <3> QED BY <2>4, <3>2 DEF BacklogBounded
  <2>7. CASE held # None
    BY <2>2, <2>3, <2>4, <2>7 DEF BacklogBounded
  <2> QED BY <2>5, <2>6, <2>7
<1> QED BY <1>1, LineInvHolds, PTL

-----------------------------------------------------------------------------
(* No command is lost without a reason.                                    *)

Accounted(id) ==
  \/ run # None /\ run.cmd.id = id /\ run.state \in Terminal
  \/ /\ Len(pending') = QueueDepth
     /\ \A kept \in Outstanding' : kept < id
  \/ ~linkUp'
  \/ lastRejection' = [id |-> id, reason |-> "MissingTemplate"]

InHand(id) ==
  \/ run # None /\ id = Serving
  \/ \E i \in 1..Len(Waiting) : Waiting[i] = id

LEMMA InHandIs == TypeOK => \A id : id \in Outstanding <=> InHand(id)
  BY OutstandingIs, Zenon DEF InHand

LEMMA InHandNext == TypeOK' => (\A id : id \in Outstanding <=> InHand(id))'
  BY InHandIs, PTL

LEMMA AccountedFor ==
  ASSUME DebugAssertions
  PROVE  LineInv /\ [Next]_vars
           => \A id \in Outstanding \ Outstanding' : Accounted(id)
<1> SUFFICES ASSUME LineInv, [Next]_vars, NEW id, id \in Outstanding,
                    id \notin Outstanding', ~Accounted(id)
             PROVE  FALSE
  OBVIOUS
<1>1. LineMoves
  BY LineStep DEF LineInv
<1>2. TypeOK /\ TypeOK'
  BY NextIInv DEF LineInv, IInv
<1>3. InHand(id) /\ ~(InHand(id)')
  BY <1>2, InHandIs, InHandNext
<1>4. /\ run = None => Serving = None
      /\ run # None => Serving = run.cmd.id /\ Serving # None
      /\ (run' # None) <=> Serving' # None
  <2>1. /\ run = None => Serving = None
        /\ run # None => Serving = run.cmd.id /\ Serving # None
    BY <1>2, BacklogParts
  <2>2. ASSUME run' # None PROVE Serving' # None
    BY <1>2, <2>2, ServingIsRun DEF Serving, TypeOK
  <2>3. ASSUME run' = None PROVE Serving' = None
    BY <2>3 DEF Serving
  <2> QED BY <2>1, <2>2, <2>3
<1>5. Waiting \in Seq(Nat) /\ Len(Waiting) \in Nat
      /\ SubSeq(Waiting, 1, Len(Waiting)) = Waiting
  BY <1>2, LineAsWaiting
<1>6. \/ Serving # None /\ id = Serving
      \/ \E i \in 1..Len(Waiting) : Waiting[i] = id
  BY <1>3, <1>4 DEF InHand
<1>7. /\ ~(Serving' # None /\ id = Serving')
      /\ ~(\E i \in 1..Len(Waiting') : Waiting'[i] = id)
  BY <1>3, <1>4 DEF InHand
<1>8. /\ ~(Len(pending') = QueueDepth /\ \A kept \in Outstanding' : kept < id)
      /\ linkUp'
      /\ lastRejection' # [id |-> id, reason |-> "MissingTemplate"]
      /\ ~(run # None /\ run.cmd.id = id /\ run.state \in Terminal)
  BY DEF Accounted
<1> HIDE DEF Waiting, Serving
<1>9. CASE Joined
  <2>1. /\ Len(Append(Waiting, issued + 1)) = Len(Waiting) + 1
        /\ \A i \in 1..Len(Waiting) :
             Append(Waiting, issued + 1)[i] = Waiting[i]
    <3>1. issued + 1 \in Nat
      BY <1>2, ServingTyped
    <3> QED BY <1>5, <3>1, AppendProperties
  <2>2. \A i \in 1..Len(Waiting) :
          i \in 1..Len(Waiting') /\ Waiting'[i] = Waiting[i]
    BY <1>5, <1>9, <2>1 DEF Joined
  <2> QED BY <1>6, <1>7, <1>9, <2>2 DEF Joined
<1>10. CASE Taken
  <2>1. PICK i \in 1..Len(Waiting) : Waiting[i] = id
    BY <1>6, <1>10 DEF Taken
  <2>2. CASE i = 1
    <3>1. Head(Waiting) = id
      BY <1>5, <1>10, <2>1, <2>2, HeadTailProperties DEF Taken
    <3>2. Serving' # id
      BY <1>7, <1>5, <2>1, ElementOfSeq, NoneAssumption
    <3> QED BY <1>8, <1>10, <3>1, <3>2 DEF Taken
  <2>3. CASE i # 1
    <3>1. /\ Len(Tail(Waiting)) = Len(Waiting) - 1
          /\ \A j \in 1..Len(Tail(Waiting)) : Tail(Waiting)[j] = Waiting[j + 1]
      BY <1>5, <1>10, HeadTailProperties DEF Taken
    <3>2. /\ i - 1 \in 1..Len(Tail(Waiting))
          /\ Tail(Waiting)[i - 1] = Waiting[i]
      BY <1>5, <2>3, <3>1
    <3> QED BY <1>7, <1>10, <2>1, <3>2 DEF Taken
  <2> QED BY <2>2, <2>3
<1>11. ASSUME Trimmed, Serving' \in {Serving, None}, id # Serving
       PROVE  FALSE
  <2>1. PICK n \in 0..Len(Waiting) : CutTo(n)
    BY <1>11 DEF Trimmed
  <2>2. PICK i \in 1..Len(Waiting) : Waiting[i] = id
    BY <1>6, <1>11
  <2>3. /\ Len(Waiting') = n
        /\ \A j \in 1..n : Waiting'[j] = Waiting[j]
    <3>1. Waiting' = SubSeq(Waiting, 1, n)
      BY <2>1 DEF CutTo
    <3>2. /\ Len(SubSeq(Waiting, 1, n)) = n
          /\ \A j \in 1..n : SubSeq(Waiting, 1, n)[j] = Waiting[j]
      BY <1>5
    <3> QED BY <3>1, <3>2
  <2>4. n < i
    BY <1>5, <1>7, <2>2, <2>3
  <2>5. Len(pending') = QueueDepth
    <3>1. n # Len(Waiting)
      <4>1. \A l \in Nat : i \in 1..l /\ n \in 0..l => n # l
        BY <2>4
      <4> QED BY <1>5, <4>1
    <3> QED BY <2>1, <3>1, Zenon DEF CutTo
  <2>6. ASSUME NEW kept \in Outstanding' PROVE kept < id
    <3>1. InHand(kept)'
      BY <1>2, InHandNext
    <3>2. \/ Serving # None /\ kept = Serving
          \/ \E j \in 1..n : kept = Waiting[j]
      BY <1>4, <1>11, <2>3, <3>1 DEF InHand
    <3>3. \A j \in 1..n : Waiting[j] < Waiting[i]
      BY <1>5, <2>2, <2>4 DEF LineInv, InOrder, InLine
    <3>4. Serving # None => Serving < Waiting[i]
      BY <2>2 DEF LineInv, InOrder, InLine
    <3> QED BY <2>2, <3>2, <3>3, <3>4
  <2> QED BY <1>8, <2>5, <2>6
<1>12. CASE Worked
  BY <1>6, <1>7, <1>11, <1>12 DEF Worked
<1>13. CASE Finished
  <2>1. id # Serving
    BY <1>4, <1>8, <1>13 DEF Finished
  <2> QED BY <1>11, <1>13, <2>1 DEF Finished
<1>14. CASE Aborted
  BY <1>8, <1>14 DEF Aborted
<1>15. CASE Rested
  BY <1>6, <1>7, <1>15 DEF Rested
<1> QED BY <1>1, <1>9, <1>10, <1>12, <1>13, <1>14, <1>15 DEF LineMoves

(* With the debug assertions in, a command the channel accepted goes away  *)
(* only as a finished run, or because the pending queue is full of older   *)
(* ones, the link is down, or there is no template for it: never in        *)
(* passing, whatever the moments at which the task collects, holds, puts   *)
(* back and starts.                                                        *)
THEOREM NoCommandLostSilently ==
  ASSUME DebugAssertions
  PROVE  Spec => NoSilentLoss
<1>1. LineInv /\ [Next]_vars
        => [\A id \in Outstanding \ Outstanding' :
              \/ run # None /\ run.cmd.id = id /\ run.state \in Terminal
              \/ /\ Len(pending') = QueueDepth
                 /\ \A kept \in Outstanding' : kept < id
              \/ ~linkUp'
              \/ lastRejection' = [id |-> id, reason |-> "MissingTemplate"]]_vars
  BY AccountedFor, Zenon DEF Accounted
<1> QED BY <1>1, LineInvHolds, PTL DEF Spec, NoSilentLoss

-----------------------------------------------------------------------------
(* The orchestrator implements StrapService.                               *)

LEMMA ServiceStarts == Init => Service!ServiceInit
<1> SUFFICES ASSUME Init PROVE Service!ServiceInit
  OBVIOUS
<1>1. /\ held = None /\ pending = <<>> /\ rx = <<>> /\ run = None
      /\ straps = {} /\ issued = 0 /\ <<>> \in Seq(Commands)
  BY EmptySeq DEF Init
<1>2. Waiting = <<>>
  BY <1>1, WaitingIsLine, LineParts, IdsOfNone
<1>3. Serving = None
  BY <1>1 DEF Serving
<1> QED BY <1>1, <1>2, <1>3 DEF Service!ServiceInit

LEMMA ServiceStep ==
  ASSUME DebugAssertions, ~LinkNotices
  PROVE  LineInv /\ [Next]_vars
           => [Service!ServiceNext]_(Service!serviceVars)
<1> SUFFICES ASSUME LineInv, [Next]_vars
             PROVE  [Service!ServiceNext]_(Service!serviceVars)
  OBVIOUS
<1>1. LineMoves
  BY LineStep DEF LineInv
<1>2. /\ Waiting \in Seq(Nat) /\ Len(Waiting) \in Nat
      /\ SubSeq(Waiting, 1, Len(Waiting)) = Waiting
  BY LineAsWaiting DEF LineInv, IInv
<1>3. straps' \in SUBSET Lines
  BY NextIInv DEF LineInv, IInv, TypeOK
<1> HIDE DEF Waiting, Serving
<1>4. ASSUME Trimmed PROVE Service!Shed
  <2>1. PICK n \in 0..Len(Waiting) : CutTo(n)
    BY <1>4 DEF Trimmed
  <2>2. CASE n = Len(Waiting)
    BY <1>2, <2>1, <2>2 DEF CutTo, Service!Shed
  <2>3. CASE n = QueueDepth
    <3>1. n \in QueueDepth..Len(Waiting) /\ Waiting' = SubSeq(Waiting, 1, n)
      BY <2>1, <2>3, ConstantsAssumption DEF CutTo
    <3> QED BY <3>1 DEF Service!Shed
  <2> QED BY <2>1, <2>2, <2>3 DEF CutTo
<1>5. CASE Joined
  BY <1>5 DEF Joined, Service!ServiceNext, Service!Accept
<1>6. CASE Taken
  BY <1>6 DEF Taken, Service!ServiceNext, Service!Serve, Service!Refuse
<1>7. CASE Worked
  BY <1>3, <1>4, <1>7 DEF Worked, Service!ServiceNext, Service!Work
<1>8. CASE Finished
  BY <1>4, <1>8 DEF Finished, Service!ServiceNext, Service!Finish
<1>9. CASE Aborted
  BY <1>9 DEF Aborted
<1>10. CASE Rested
  BY <1>10 DEF Rested, Service!serviceVars
<1> QED BY <1>1, <1>5, <1>6, <1>7, <1>8, <1>9, <1>10 DEF LineMoves

(* In a build with debug assertions whose embedding does not report the    *)
(* control link, the rest of the firmware may think of the task as         *)
(* StrapService: one command at a time, oldest first, the lines driven     *)
(* only for that command, and only the newest shed, only above             *)
(* COMMAND_QUEUE_DEPTH.                                                     *)
THEOREM ServiceImplemented ==
  ASSUME DebugAssertions, ~LinkNotices
  PROVE  Spec => ImplementsService
<1>1. Init => Service!ServiceInit
  BY ServiceStarts
<1>2. LineInv /\ [Next]_vars => [Service!ServiceNext]_(Service!serviceVars)
  BY ServiceStep
<1> QED BY <1>1, <1>2, LineInvHolds, PTL
        DEF Spec, ImplementsService, Service!ServiceSpec
=============================================================================
