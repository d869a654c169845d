---------------------------- MODULE QueueLemmas ----------------------------
(***************************************************************************)
(* What the proofs about queues need of sequences: taking the head, adding *)
(* at the end, joining queues into one line, cutting off either end of it; *)
(* and what the proofs about templates need: lists put together.           *)
(***************************************************************************)
EXTENDS Naturals, Sequences, SequenceTheorems, TLAPS

(* Whatever heads a queue is one of its elements, and what is left is      *)
(* shorter by one.                                                         *)
LEMMA QueueHead ==
  ASSUME NEW S, NEW q \in Seq(S), q # <<>>
  PROVE  /\ Head(q) \in S /\ Tail(q) \in Seq(S)
         /\ Len(q) \in Nat /\ Len(q) >= 1 /\ Len(Tail(q)) = Len(q) - 1
BY HeadTailProperties, EmptySeq, LenProperties, SMT

LEMMA ConcatTyped ==
  ASSUME NEW S, NEW a \in Seq(S), NEW b \in Seq(S)
  PROVE  a \o b \in Seq(S)
BY ConcatProperties

LEMMA OneTyped ==
  ASSUME NEW S, NEW e \in S
  PROVE  <<e>> \in Seq(S) /\ Len(<<e>>) = 1 /\ <<e>>[1] = e
BY SMT

LEMMA HeadThenTail ==
  ASSUME NEW S, NEW q \in Seq(S), q # <<>>
  PROVE  <<Head(q)>> \o Tail(q) = q
<1>1. Head(q) \in S /\ Tail(q) \in Seq(S) /\ Len(q) \in Nat
        /\ Len(Tail(q)) = Len(q) - 1 /\ Head(q) = q[1]
  BY QueueHead, SMT
<1>2. \A i \in 1..Len(Tail(q)) : Tail(q)[i] = q[i + 1]
  BY HeadTailProperties
<1> DEFINE r == <<Head(q)>> \o Tail(q)
<1>3. r \in Seq(S) /\ Len(r) = 1 + Len(Tail(q))
        /\ \A i \in 1..(1 + Len(Tail(q))) :
             r[i] = IF i <= 1 THEN <<Head(q)>>[i] ELSE Tail(q)[i - 1]
  <2>1. <<Head(q)>> \in Seq(S) /\ Len(<<Head(q)>>) = 1
    BY <1>1, OneTyped
  <2> QED BY <2>1, <1>1, ConcatProperties
<1>4. \A i \in 1..Len(r) : r[i] = q[i]
  BY <1>1, <1>2, <1>3, SMT
<1> QED BY <1>1, <1>3, <1>4, SeqEqual, SMT

LEMMA IndexedConcat ==
  ASSUME NEW S, NEW a \in Seq(S), NEW b \in Seq(S)
  PROVE  /\ Len(a) \in Nat /\ Len(b) \in Nat /\ a \o b \in Seq(S)
         /\ DOMAIN a = 1..Len(a) /\ DOMAIN b = 1..Len(b)
         /\ DOMAIN (a \o b) = 1..(Len(a) + Len(b))
         /\ Len(a \o b) = Len(a) + Len(b)
         /\ \A i \in 1..Len(a) : (a \o b)[i] = a[i]
         /\ \A i \in 1..Len(b) : (a \o b)[Len(a) + i] = b[i]
<1>1. Len(a) \in Nat /\ Len(b) \in Nat /\ DOMAIN a = 1..Len(a)
        /\ DOMAIN b = 1..Len(b)
  BY LenProperties
<1>2. a \o b \in Seq(S) /\ Len(a \o b) = Len(a) + Len(b)
        /\ \A i \in 1..Len(a) + Len(b) :
             (a \o b)[i] = IF i <= Len(a) THEN a[i] ELSE b[i - Len(a)]
  BY ConcatProperties
<1>3. DOMAIN (a \o b) = 1..(Len(a) + Len(b))
  BY <1>2, LenProperties
<1> QED BY <1>1, <1>2, <1>3, SMT

LEMMA HeadOfOne ==
  ASSUME NEW S, NEW e \in S, NEW t \in Seq(S)
  PROVE  <<e>> \o t # <<>> /\ Head(<<e>> \o t) = e /\ Tail(<<e>> \o t) = t
<1> DEFINE r == <<e>> \o t
<1>1. <<e>> \in Seq(S) /\ Len(<<e>>) = 1 /\ <<e>>[1] = e /\ Len(t) \in Nat
  BY OneTyped, LenProperties
<1>2. /\ r \in Seq(S) /\ Len(r) = 1 + Len(t) /\ r[1] = e
      /\ \A i \in 1..Len(t) : r[i + 1] = t[i]
  <2>1. /\ r \in Seq(S) /\ Len(r) = Len(<<e>>) + Len(t)
        /\ \A i \in 1..Len(<<e>>) : r[i] = <<e>>[i]
        /\ \A i \in 1..Len(t) : r[Len(<<e>>) + i] = t[i]
    BY <1>1, IndexedConcat
  <2> QED BY <1>1, <2>1
<1> HIDE DEF r
<1>3. r # <<>> /\ Head(r) = r[1]
  BY <1>1, <1>2
<1>4. /\ Tail(r) \in Seq(S) /\ Len(Tail(r)) = Len(t)
      /\ \A i \in 1..Len(t) : Tail(r)[i] = t[i]
  BY <1>1, <1>2, <1>3, HeadTailProperties
<1>5. Tail(r) = t
  BY <1>4, SeqEqual
<1> QED BY <1>2, <1>3, <1>5 DEF r

LEMMA Prefix ==
  ASSUME NEW S, NEW q \in Seq(S), NEW n \in 0..Len(q)
  PROVE  /\ SubSeq(q, 1, n) \in Seq(S) /\ Len(SubSeq(q, 1, n)) = n
         /\ \A i \in 1..n : SubSeq(q, 1, n)[i] = q[i]
<1>1. Len(q) \in Nat /\ n \in Int /\ 1 \in Int
  BY LenProperties
<1>2. \A i \in 1..n : q[i] \in S
  BY <1>1, ElementOfSeq
<1>3. /\ SubSeq(q, 1, n) \in Seq(S)
      /\ Len(SubSeq(q, 1, n)) = IF 1 <= n THEN n - 1 + 1 ELSE 0
      /\ \A i \in 1..n - 1 + 1 : SubSeq(q, 1, n)[i] = q[1 + i - 1]
  BY <1>1, <1>2, SubSeqProperties
<1> QED BY <1>1, <1>3

(* The head of a line is the head of its first queue that is not empty.    *)
LEMMA HeadOfConcat ==
  ASSUME NEW S, NEW p \in Seq(S), p # <<>>, NEW q \in Seq(S)
  PROVE  /\ p \o q # <<>> /\ Head(p \o q) = Head(p)
         /\ Tail(p \o q) = Tail(p) \o q
<1>1. Head(p) \in S /\ <<Head(p)>> \in Seq(S) /\ Tail(p) \in Seq(S)
  BY QueueHead, OneTyped
<1> DEFINE t == Tail(p) \o q
<1>2. t \in Seq(S)
  BY <1>1, ConcatTyped
<1>3. p \o q = <<Head(p)>> \o t
  <2>1. p = <<Head(p)>> \o Tail(p)
    BY HeadThenTail
  <2>2. (<<Head(p)>> \o Tail(p)) \o q = <<Head(p)>> \o (Tail(p) \o q)
    BY <1>1, ConcatAssociative
  <2> QED BY <2>1, <2>2
<1> HIDE DEF t
<1>4. <<Head(p)>> \o t # <<>> /\ Head(<<Head(p)>> \o t) = Head(p)
        /\ Tail(<<Head(p)>> \o t) = t
  BY <1>1, <1>2, HeadOfOne
<1> QED BY <1>3, <1>4 DEF t

(* A line cut off within its second queue.                                 *)
LEMMA PrefixOfConcat ==
  ASSUME NEW S, NEW p \in Seq(S), NEW q \in Seq(S), NEW n \in 0..Len(q)
  PROVE  p \o SubSeq(q, 1, n) = SubSeq(p \o q, 1, Len(p) + n)
<1> DEFINE r == SubSeq(q, 1, n)
           t == SubSeq(p \o q, 1, Len(p) + n)
<1>1. /\ Len(p) \in Nat /\ Len(q) \in Nat /\ n \in Nat /\ n <= Len(q)
      /\ p \o q \in Seq(S) /\ Len(p \o q) = Len(p) + Len(q)
      /\ \A i \in 1..Len(p) : (p \o q)[i] = p[i]
      /\ \A i \in 1..Len(q) : (p \o q)[Len(p) + i] = q[i]
  BY IndexedConcat
<1>2. r \in Seq(S) /\ Len(r) = n /\ \A i \in 1..n : r[i] = q[i]
  BY <1>1, Prefix
<1>3. t \in Seq(S) /\ Len(t) = Len(p) + n
        /\ \A i \in 1..(Len(p) + n) : t[i] = (p \o q)[i]
  <2>1. Len(p) + n \in 0..Len(p \o q)
    BY <1>1
  <2> QED BY <1>1, <2>1, Prefix
<1> HIDE DEF r, t
<1>4. /\ p \o r \in Seq(S) /\ Len(p \o r) = Len(p) + n
      /\ \A i \in 1..Len(p) : (p \o r)[i] = p[i]
      /\ \A i \in 1..n : (p \o r)[Len(p) + i] = r[i]
  <2>1. r \in Seq(S)
    BY <1>2
  <2>2. /\ p \o r \in Seq(S) /\ Len(p \o r) = Len(p) + Len(r)
        /\ \A i \in 1..Len(p) : (p \o r)[i] = p[i]
        /\ \A i \in 1..Len(r) : (p \o r)[Len(p) + i] = r[i]
    BY <2>1, IndexedConcat
  <2> QED BY <1>2, <2>2
<1>5. ASSUME NEW i \in 1..(Len(p) + n) PROVE (p \o r)[i] = t[i]
  <2>1. CASE i \in 1..Len(p)
    BY <1>1, <1>3, <1>4, <2>1
  <2>2. ASSUME NEW j \in 1..n, i = Len(p) + j PROVE (p \o r)[i] = t[i]
    BY <1>1, <1>2, <1>3, <1>4, <2>2
  <2>3. i \in 1..Len(p) \/ (i - Len(p) \in 1..n /\ i = Len(p) + (i - Len(p)))
    BY <1>1
  <2> QED BY <2>1, <2>2, <2>3
<1>6. p \o r = t
  BY <1>3, <1>4, <1>5, SeqEqual
<1> QED BY <1>6 DEF r, t

(* A line without its first queue.                                         *)
LEMMA SuffixOfConcat ==
  ASSUME NEW S, NEW p \in Seq(S), NEW q \in Seq(S)
  PROVE  q = SubSeq(p \o q, Len(p) + 1, Len(p \o q))
<1> DEFINE t == SubSeq(p \o q, Len(p) + 1, Len(p \o q))
<1>1. /\ Len(p) \in Nat /\ Len(q) \in Nat
      /\ p \o q \in Seq(S) /\ Len(p \o q) = Len(p) + Len(q)
      /\ DOMAIN (p \o q) = 1..(Len(p) + Len(q))
      /\ \A i \in 1..Len(q) : (p \o q)[Len(p) + i] = q[i]
  BY IndexedConcat
<1>2. /\ t \in Seq(S) /\ Len(t) = Len(q)
      /\ \A i \in 1..Len(q) : t[i] = (p \o q)[Len(p) + i]
  <2> DEFINE m == Len(p) + 1
             n == Len(p \o q)
  <2>1. m \in Int /\ n \in Int /\ m + 0 = m
        /\ (IF m <= n THEN n - m + 1 ELSE 0) = Len(q)
        /\ n - m + 1 = Len(q)
        /\ \A i \in 1..Len(q) : m + i - 1 = Len(p) + i
    BY <1>1
  <2>2. \A i \in m..n : (p \o q)[i] \in S
    BY <1>1, ElementOfSeq
  <2> HIDE DEF m, n
  <2>3. /\ SubSeq(p \o q, m, n) \in Seq(S)
        /\ Len(SubSeq(p \o q, m, n)) = IF m <= n THEN n - m + 1 ELSE 0
        /\ \A i \in 1..n - m + 1 : SubSeq(p \o q, m, n)[i] = (p \o q)[m + i - 1]
    BY <2>1, <2>2, SubSeqProperties
  <2>4. t = SubSeq(p \o q, m, n)
    BY DEF m, n
  <2> QED BY <2>1, <2>3, <2>4
<1> QED BY <1>1, <1>2, SeqEqual

(* Adding at the end of the last queue adds at the end of the line.        *)
LEMMA AppendToConcat ==
  ASSUME NEW S, NEW p \in Seq(S), NEW q \in Seq(S), NEW e \in S
  PROVE  p \o Append(q, e) = Append(p \o q, e)
<1>1. <<e>> \in Seq(S) /\ p \o q \in Seq(S)
  BY OneTyped, ConcatTyped
<1>2. Append(q, e) = q \o <<e>>
  BY AppendIsConcat
<1>3. Append(p \o q, e) = (p \o q) \o <<e>>
  BY <1>1, AppendIsConcat
<1>4. (p \o q) \o <<e>> = p \o (q \o <<e>>)
  BY <1>1, ConcatAssociative
<1> QED BY <1>2, <1>3, <1>4

(* ConcatAssociative, in a form the provers can instantiate among many     *)
(* sequences without looking into them.                                    *)
Regroups(a, b, c) == (a \o b) \o c = a \o (b \o c)

LEMMA Regrouped ==
  ASSUME NEW S, NEW a \in Seq(S), NEW b \in Seq(S), NEW c \in Seq(S)
  PROVE  Regroups(a, b, c)
BY ConcatAssociative DEF Regroups

(* The first of four queues in a line may be set apart from the others.    *)
SetsApart(a, b, c, d) == a \o b \o c \o d = a \o (b \o c \o d)

LEMMA FourQueues ==
  ASSUME NEW S, NEW a \in Seq(S), NEW b \in Seq(S), NEW c \in Seq(S),
         NEW d \in Seq(S)
  PROVE  SetsApart(a, b, c, d)
<1>1. b \o c \in Seq(S)
  BY ConcatTyped
<1>2. Regroups(a, b, c) /\ Regroups(a, b \o c, d)
  BY <1>1, Regrouped
<1> QED BY <1>2, Zenon DEF Regroups, SetsApart

-----------------------------------------------------------------------------
(* Lists of steps, put together from shorter ones.                         *)

LEMMA ListsJoined ==
  ASSUME NEW S, NEW s \in Seq(S), NEW t \in Seq(S), NEW u \in Seq(S),
         Len(u) = Len(s) + Len(t),
         \A i \in 1..Len(u) : u[i] = IF i <= Len(s) THEN s[i] ELSE t[i - Len(s)]
  PROVE  s \o t = u
<1>1. /\ s \o t \in Seq(S) /\ Len(s \o t) = Len(u)
      /\ \A i \in 1..Len(u) : (s \o t)[i] = u[i]
  BY ConcatProperties
<1> QED BY <1>1, SeqEqual

LEMMA Appended ==
  ASSUME NEW a, NEW b, NEW c, NEW d, NEW e
  PROVE  Append(<<a, b, c, d>>, e) = <<a, b, c, d, e>>
<1> DEFINE S == {a, b, c, d, e}
           s == <<a, b, c, d>>
           u == <<a, b, c, d, e>>
<1>1. s \in Seq(S) /\ u \in Seq(S) /\ e \in S
  OBVIOUS
<1>2. Len(s) = 4 /\ Len(u) = 5
  OBVIOUS
<1>3. \A i \in 1..5 : u[i] = IF i <= 4 THEN s[i] ELSE e
  OBVIOUS
<1> HIDE DEF s, u, S
<1>4. /\ Append(s, e) \in Seq(S) /\ Len(Append(s, e)) = 5
      /\ \A i \in 1..4 : Append(s, e)[i] = s[i]
      /\ Append(s, e)[5] = e
  <2>1. /\ Append(s, e) \in Seq(S) /\ Len(Append(s, e)) = Len(s) + 1
        /\ \A i \in 1..Len(s) : Append(s, e)[i] = s[i]
        /\ Append(s, e)[Len(s) + 1] = e
    BY <1>1, AppendProperties
  <2>2. Len(s) + 1 = 5
    BY <1>2
  <2> QED BY <1>2, <2>1, <2>2
<1>5. \A i \in 1..5 : Append(s, e)[i] = u[i]
  BY <1>3, <1>4
<1>6. Append(s, e) = u
  BY <1>1, <1>2, <1>4, <1>5, SeqEqual
<1> QED BY <1>6 DEF s, u

LEMMA JoinedFour ==
  ASSUME NEW a, NEW b, NEW c, NEW d, NEW e, NEW f
  PROVE  <<a, b, c, d>> \o <<e, f>> = <<a, b, c, d, e, f>>
<1> DEFINE S == {a, b, c, d, e, f}
           s == <<a, b, c, d>>
           t == <<e, f>>
           u == <<a, b, c, d, e, f>>
<1>1. s \in Seq(S) /\ t \in Seq(S) /\ u \in Seq(S)
  OBVIOUS
<1>2. Len(s) = 4 /\ Len(t) = 2 /\ Len(u) = 6
  OBVIOUS
<1>3. \A i \in 1..6 : u[i] = IF i <= 4 THEN s[i] ELSE t[i - 4]
  OBVIOUS
<1> HIDE DEF s, t, u, S
<1>4. Len(u) = Len(s) + Len(t)
  BY <1>2
<1>5. \A i \in 1..Len(u) : u[i] = IF i <= Len(s) THEN s[i] ELSE t[i - Len(s)]
  BY <1>2, <1>3
<1>6. s \o t = u
  BY <1>1, <1>4, <1>5, ListsJoined
<1> QED BY <1>6 DEF s, t, u

LEMMA JoinedTwo ==
  ASSUME NEW a, NEW b, NEW c, NEW d, NEW e, NEW f
  PROVE  <<a, b>> \o <<c, d, e, f>> = <<a, b, c, d, e, f>>
<1> DEFINE S == {a, b, c, d, e, f}
           s == <<a, b>>
           t == <<c, d, e, f>>
           u == <<a, b, c, d, e, f>>
<1>1. s \in Seq(S) /\ t \in Seq(S) /\ u \in Seq(S)
  OBVIOUS
<1>2. Len(s) = 2 /\ Len(t) = 4 /\ Len(u) = 6
  OBVIOUS
<1>3. \A i \in 1..6 : u[i] = IF i <= 2 THEN s[i] ELSE t[i - 2]
  OBVIOUS
<1> HIDE DEF s, t, u, S
<1>4. Len(u) = Len(s) + Len(t)
  BY <1>2
<1>5. \A i \in 1..Len(u) : u[i] = IF i <= Len(s) THEN s[i] ELSE t[i - Len(s)]
  BY <1>2, <1>3
<1>6. s \o t = u
  BY <1>1, <1>4, <1>5, ListsJoined
<1> QED BY <1>6 DEF s, t, u
=============================================================================
