--------------------------- MODULE Console_proofs ---------------------------
(***************************************************************************)
(* The console, for every line that may be typed: what the parser accepts  *)
(* and refuses, what a tab offers, what the console makes of a line in     *)
(* front of the orchestrator and in the emulator.  Part by part:           *)
(*                                                                         *)
(*   - the parser of grammar.rs, function by function, and `Reads`, the    *)
(*     table of every line it accepts with the command it makes of it;     *)
(*   - the executor behind it: what it submits is sensible;                *)
(*   - Controller: the console drives the orchestrator as its              *)
(*     specification allows, and a refusal leaves no trace of itself;      *)
(*   - Emulator: the transcript tells of every run, and of nothing else;   *)
(*   - ConsoleLine: `Says`, the table of the sentences of the grammar      *)
(*     document, and `Reads`, agree; so do `Begins`, the beginnings of     *)
(*     sentences, with the errors; and `Follows`, the candidates, with     *)
(*     what a tab offers.                                                  *)
(***************************************************************************)
EXTENDS Controller, Emulator, ConsoleLine, StrapOrchestrator_proofs,
        QueueLemmas, SequenceTheorems, FiniteSetTheorems,
        WellFoundedInduction

-----------------------------------------------------------------------------
(* The least of a set of numbers, and what is found by it.                 *)

LEMMA LeastNumber ==
  ASSUME NEW S \in SUBSET Nat, S # {}
  PROVE  \E m \in S : \A n \in S : m <= n
<1>1. PICK m \in S : \A y \in S : ~(<<y, m>> \in OpToRel(<, Nat))
  BY NatLessThanWellFounded, WFMin, Zenon
<1>2. \A y \in S : ~(y < m)
  BY <1>1 DEF OpToRel
<1> QED BY <1>2

\* So what holds of 0, and of n + 1 if of n, holds of every number.
LEMMA Induction ==
  ASSUME NEW S, 0 \in S, \A n \in Nat : n \in S => n + 1 \in S
  PROVE  Nat \subseteq S
<1> DEFINE W == Nat \ S
<1>1. SUFFICES ASSUME W # {} PROVE FALSE
  OBVIOUS
<1>2. PICK m \in W : \A n \in W : m <= n
  <2> HIDE DEF W
  <2>1. W \in SUBSET Nat
    BY DEF W
  <2> QED BY <1>1, <2>1, LeastNumber
<1>3. m \in Nat /\ m # 0 /\ m - 1 \in Nat
  OBVIOUS
<1>4. m - 1 \in S
  BY <1>2, <1>3
<1>5. m - 1 + 1 = m
  BY <1>3
<1> QED BY <1>2, <1>3, <1>4, <1>5

LEMMA GreatestNumber ==
  ASSUME NEW S \in SUBSET Nat, S # {}, NEW top \in Nat,
         \A n \in S : n <= top
  PROVE  \E m \in S : \A n \in S : n <= m
<1> DEFINE T == {t \in Nat : \E n \in S : t = top - n}
<1>1. T \in SUBSET Nat /\ T # {}
  <2>1. PICK n \in S : TRUE
    OBVIOUS
  <2>2. top - n \in Nat
    OBVIOUS
  <2>3. top - n \in T
    BY <2>2
  <2> QED BY <2>3
<1>2. PICK t \in T : \A n \in T : t <= n
  <2> HIDE DEF T
  <2> QED BY <1>1, LeastNumber
<1>3. PICK m \in S : t = top - m
  OBVIOUS
<1>4. ASSUME NEW n \in S PROVE n <= m
  <2>1. top - n \in T
    OBVIOUS
  <2>2. t <= top - n
    BY <1>2, <2>1
  <2> QED BY <1>3, <2>2
<1> QED BY <1>4

LEMMA MinIs ==
  ASSUME NEW S \in SUBSET Nat, NEW m \in S, \A n \in S : m <= n
  PROVE  Min(S) = m
<1>1. \A x \in S : (\A y \in S : x <= y) => x = m
  BY SMT
<1>2. m \in S /\ \A y \in S : m <= y
  BY SMT
<1> QED BY <1>1, <1>2 DEF Min

LEMMA MinOf ==
  ASSUME NEW S \in SUBSET Nat, S # {}
  PROVE  Min(S) \in S /\ \A n \in S : Min(S) <= n
<1>1. PICK m \in S : \A n \in S : m <= n
  BY LeastNumber
<1>2. Min(S) = m
  BY <1>1, MinIs
<1> QED BY <1>1, <1>2

LEMMA MaxIs ==
  ASSUME NEW S \in SUBSET Nat, NEW m \in S, \A n \in S : n <= m
  PROVE  Max(S) = m
<1>1. \A x \in S : (\A y \in S : x >= y) => x = m
  BY SMT
<1>2. m \in S /\ \A y \in S : m >= y
  BY SMT
<1> QED BY <1>1, <1>2 DEF Max

-----------------------------------------------------------------------------
(* The parser, function by function, for any line of tokens.               *)

TokenShapes ==
  [kind : TokenKinds, word : STRING, number : Nat, unit : {0, 1, 1000}]

LEMMA TokenParts ==
  \A t : t \in Tokens <=>
           /\ t \in TokenShapes
           /\ t.kind \notin {"Integer", "Duration"} => t.number = 0
           /\ t.kind # "Duration" => t.unit = 0
           /\ t.kind # "Ident" => t.word = ""
<1>1. Tokens =
        {t \in TokenShapes :
           /\ t.kind \notin {"Integer", "Duration"} => t.number = 0
           /\ t.kind # "Duration" => t.unit = 0
           /\ t.kind # "Ident" => t.word = ""}
  BY DEF Tokens, TokenShapes
<1> QED BY <1>1, Zenon

LEMMA TokenFacts ==
  ASSUME NEW t \in Tokens
  PROVE  /\ t.kind \in TokenKinds /\ t.word \in STRING /\ t.number \in Nat
         /\ t.unit \in Nat
         /\ t.kind \notin {"Integer", "Duration"} => t.number = 0
         /\ t.kind = "Ident" => t = Word(t.word)
         /\ t.kind = "Integer" => t = IntegerOf(t.number)
         /\ t.kind = "Duration" => t = DurationOf(t.number, t.unit)
         /\ t.kind = "Equals" => t = Mark("Equals")
<1>0. t \in TokenShapes
  BY TokenParts, Zenon
<1>1. t \in [kind : TokenKinds, word : STRING, number : Nat,
             unit : {0, 1, 1000}]
  BY <1>0 DEF TokenShapes
<1>2. /\ t.kind \in TokenKinds /\ t.word \in STRING /\ t.number \in Nat
      /\ t.unit \in Nat
  BY <1>1
<1>3. t = Token(t.kind, t.word, t.number, t.unit)
  BY <1>1 DEF Token
<1>4. /\ t.kind \notin {"Integer", "Duration"} => t.number = 0
      /\ t.kind # "Duration" => t.unit = 0
      /\ t.kind # "Ident" => t.word = ""
  BY TokenParts, Zenon
<1>5. ASSUME t.kind = "Ident" PROVE t = Word(t.word)
  BY <1>3, <1>4, <1>5 DEF Word
<1>6. ASSUME t.kind = "Integer" PROVE t = IntegerOf(t.number)
  BY <1>3, <1>4, <1>6 DEF IntegerOf
<1>7. ASSUME t.kind = "Duration" PROVE t = DurationOf(t.number, t.unit)
  BY <1>3, <1>4, <1>7 DEF DurationOf
<1>8. ASSUME t.kind = "Equals" PROVE t = Mark("Equals")
  BY <1>3, <1>4, <1>8 DEF Mark
<1> QED BY <1>2, <1>4, <1>5, <1>6, <1>7, <1>8

LEMMA TokenOfLine ==
  ASSUME NEW line \in Seq(Tokens), NEW i \in Nat
  PROVE  /\ Len(line) \in Nat
         /\ i \in 1..Len(line) =>
              line[i] \in Tokens /\ KindAt(line, i) = line[i].kind
         /\ i > Len(line) => KindAt(line, i) = "end"
BY DEF KindAt

\* Where a token of the line has a kind, there is one.
LEMMA KindInLine ==
  ASSUME NEW line \in Seq(Tokens), NEW i \in Nat \ {0},
         KindAt(line, i) # "end"
  PROVE  /\ i \in 1..Len(line) /\ line[i] \in Tokens
         /\ line[i].kind = KindAt(line, i)
BY TokenOfLine

LEMMA FailureIs ==
  ASSUME NEW error, NEW at
  PROVE  Failure(error, at).error = error /\ Failure(error, at).at = at
BY DEF Failure

LEMMA SuccessIs ==
  ASSUME NEW command, NEW at
  PROVE  /\ Success(command, at).error = "" /\ Success(command, at).at = at
         /\ Success(command, at).command = command
BY DEF Success

LEMMA UnexpectedIs ==
  ASSUME NEW line, NEW i
  PROVE  /\ Unexpected(line, i).at = i
         /\ Unexpected(line, i).error \notin {"", "TooManyTokens"}
<1>1. \/ Unexpected(line, i) = Failure("UnexpectedToken", i)
      \/ Unexpected(line, i) = Failure("UnexpectedEnd", i)
  BY DEF Unexpected
<1>2. "UnexpectedToken" \notin {"", "TooManyTokens"}
  OBVIOUS
<1>3. "UnexpectedEnd" \notin {"", "TooManyTokens"}
  OBVIOUS
<1>4. \A error : /\ Failure(error, i).error = error
                 /\ Failure(error, i).at = i
  BY FailureIs
<1>5. CASE Unexpected(line, i) = Failure("UnexpectedToken", i)
  BY <1>2, <1>4, <1>5, Zenon
<1>6. CASE Unexpected(line, i) = Failure("UnexpectedEnd", i)
  BY <1>3, <1>4, <1>6, Zenon
<1> QED BY <1>1, <1>5, <1>6

(* The values a branch may take are told apart by their errors.            *)
LEMMA ValuesDiffer ==
  /\ NoValue # DurationValue /\ NoValue # IntegerAssignment
  /\ DurationValue # IntegerAssignment
<1>1. /\ NoValue.error = "" /\ DurationValue.error = "InvalidDuration"
      /\ IntegerAssignment.error = "InvalidInteger"
  BY DEF NoValue, DurationValue, IntegerAssignment
<1>2. "" # "InvalidDuration" /\ "" # "InvalidInteger"
  OBVIOUS
<1>3. "InvalidDuration" # "InvalidInteger"
  OBVIOUS
<1> QED BY <1>1, <1>2, <1>3

\* A command, field by field.
Command(name, choice, delay, retries, topic) ==
  [name |-> name, choice |-> choice, delay |-> delay, retries |-> retries,
   topic |-> topic]

LEMMA CommandFields ==
  ASSUME NEW n, NEW c, NEW d, NEW r, NEW t
  PROVE  /\ Command(n, c, d, r, t).name = n
         /\ Command(n, c, d, r, t).choice = c
         /\ Command(n, c, d, r, t).delay = d
         /\ Command(n, c, d, r, t).retries = r
         /\ Command(n, c, d, r, t).topic = t
BY DEF Command

LEMMA EditChoice ==
  ASSUME NEW n, NEW c, NEW d, NEW r, NEW t, NEW x,
         NEW old, old = Command(n, c, d, r, t)
  PROVE  [old EXCEPT !.choice = x] = Command(n, x, d, r, t)
BY DEF Command

LEMMA EditDelay ==
  ASSUME NEW n, NEW c, NEW d, NEW r, NEW t, NEW x,
         NEW old, old = Command(n, c, d, r, t)
  PROVE  [old EXCEPT !.delay = x] = Command(n, c, x, r, t)
BY DEF Command

LEMMA EditRetries ==
  ASSUME NEW n, NEW c, NEW d, NEW r, NEW t, NEW x,
         NEW old, old = Command(n, c, d, r, t)
  PROVE  [old EXCEPT !.retries = x] = Command(n, c, d, x, t)
BY DEF Command

LEMMA EditTopic ==
  ASSUME NEW n, NEW c, NEW d, NEW r, NEW t, NEW x,
         NEW old, old = Command(n, c, d, r, t)
  PROVE  [old EXCEPT !.topic = x] = Command(n, c, d, r, x)
BY DEF Command

LEMMA CommandsBuilt ==
  ASSUME NEW name, NEW x, NEW y
  PROVE  /\ Bare(name) = Command(name, "", 0, {}, {})
         /\ Choosing(name, x) = Command(name, x, 0, {}, {})
         /\ [Choosing(name, x) EXCEPT !.delay = y]
              = Command(name, x, y, {}, {})
         /\ [Choosing(name, x) EXCEPT !.retries = y]
              = Command(name, x, 0, y, {})
         /\ [Bare(name) EXCEPT !.topic = y] = Command(name, "", 0, {}, y)
<1>1. Bare(name) = Command(name, "", 0, {}, {})
  BY DEF Bare, Command
<1>2. PICK none : none = ""
  OBVIOUS
<1>3. Bare(name) = Command(name, none, 0, {}, {})
  BY <1>1, <1>2
<1>4. Choosing(name, x) = Command(name, x, 0, {}, {})
  <2>1. [Bare(name) EXCEPT !.choice = x] = Command(name, x, 0, {}, {})
    BY <1>3, EditChoice
  <2> QED BY <2>1 DEF Choosing
<1>5. [Choosing(name, x) EXCEPT !.delay = y] = Command(name, x, y, {}, {})
  BY <1>4, EditDelay
<1>6. [Choosing(name, x) EXCEPT !.retries = y] = Command(name, x, 0, y, {})
  BY <1>4, EditRetries
<1>7. [Bare(name) EXCEPT !.topic = y] = Command(name, none, 0, {}, y)
  BY <1>3, EditTopic
<1> QED BY <1>1, <1>2, <1>4, <1>5, <1>6, <1>7

LEMMA BranchApplied ==
  ASSUME NEW name, NEW branch, NEW token
  PROVE  Apply(Bare(name), branch, token)
           = Command(name, branch.tag,
                     IF branch.value = DurationValue
                     THEN token.number * token.unit ELSE 0,
                     IF branch.value = IntegerAssignment
                     THEN {token.number} ELSE {}, {})
<1> DEFINE d == IF branch.value = DurationValue
                THEN token.number * token.unit ELSE Bare(name).delay
           r == IF branch.value = IntegerAssignment
                THEN {token.number} ELSE Bare(name).retries
<1>1. Bare(name).delay = 0 /\ Bare(name).retries = {}
  BY DEF Bare
<1>2. Apply(Bare(name), branch, token)
        = [Bare(name) EXCEPT !.choice = branch.tag, !.delay = d, !.retries = r]
  BY DEF Apply
<1> HIDE DEF d, r
<1>3. PICK none : none = ""
  OBVIOUS
<1>4. Bare(name) = Command(name, none, 0, {}, {})
  BY <1>3, CommandsBuilt
<1>5. PICK first : first = [Bare(name) EXCEPT !.choice = branch.tag]
  OBVIOUS
<1>6. PICK second : second = [first EXCEPT !.delay = d]
  OBVIOUS
<1>7. [second EXCEPT !.retries = r] = Command(name, branch.tag, d, r, {})
  <2>1. first = Command(name, branch.tag, 0, {}, {})
    BY <1>4, <1>5, EditChoice
  <2>2. second = Command(name, branch.tag, d, {}, {})
    BY <1>6, <2>1, EditDelay
  <2> QED BY <2>2, EditRetries
<1>8. Apply(Bare(name), branch, token) = Command(name, branch.tag, d, r, {})
  BY <1>2, <1>5, <1>6, <1>7
<1> QED BY <1>1, <1>8 DEF d, r

LEMMA ApplyPlain ==
  ASSUME NEW name, NEW keyword, NEW tag, NEW token
  PROVE  Apply(Bare(name), Branch(keyword, tag, NoValue), token)
           = Command(name, tag, 0, {}, {})
<1> DEFINE branch == Branch(keyword, tag, NoValue)
<1>1. branch.value = NoValue /\ branch.tag = tag
  BY DEF Branch
<1> HIDE DEF branch
<1>2. Apply(Bare(name), branch, token)
        = Command(name, tag, 0, {}, {})
  BY <1>1, ValuesDiffer, BranchApplied
<1> QED BY <1>2 DEF branch

LEMMA ApplyDuration ==
  ASSUME NEW name, NEW keyword, NEW tag, NEW token
  PROVE  Apply(Bare(name), Branch(keyword, tag, DurationValue), token)
           = Command(name, tag, token.number * token.unit, {}, {})
<1> DEFINE branch == Branch(keyword, tag, DurationValue)
<1>1. branch.value = DurationValue /\ branch.tag = tag
  BY DEF Branch
<1> HIDE DEF branch
<1>2. Apply(Bare(name), branch, token)
        = Command(name, tag, token.number * token.unit, {}, {})
  BY <1>1, ValuesDiffer, BranchApplied
<1> QED BY <1>2 DEF branch

LEMMA ApplyInteger ==
  ASSUME NEW name, NEW keyword, NEW tag, NEW token
  PROVE  Apply(Bare(name), Branch(keyword, tag, IntegerAssignment), token)
           = Command(name, tag, 0, {token.number}, {})
<1> DEFINE branch == Branch(keyword, tag, IntegerAssignment)
<1>1. branch.value = IntegerAssignment /\ branch.tag = tag
  BY DEF Branch
<1> HIDE DEF branch
<1>2. Apply(Bare(name), branch, token)
        = Command(name, tag, 0, {token.number}, {})
  BY <1>1, ValuesDiffer, BranchApplied
<1> QED BY <1>2 DEF branch

\* A keyword without a value: nothing more is read.
LEMMA PlainBranch ==
  ASSUME NEW name, NEW keyword, NEW tag, NEW line, NEW i \in Nat,
         line[i].number = 0
  PROVE  ParseChoiceBranch(Bare(name), Branch(keyword, tag, NoValue),
                           line, i + 1)
           = Success(Command(name, tag, 0, {}, {}), i + 1)
<1> DEFINE branch == Branch(keyword, tag, NoValue)
           wrong == Mismatches(branch.value.tokens, line, i + 1)
           last  == (i + 1) + Len(branch.value.tokens) - 1
<1>1. /\ branch.value = NoValue /\ branch.value.tokens = <<>>
      /\ branch.value.limit = 0
  BY DEF Branch, NoValue
<1>2. wrong = {}
  BY <1>1 DEF Mismatches
<1>3. last = i /\ last + 1 = i + 1
  <2>1. Len(branch.value.tokens) = 0
    BY <1>1
  <2> HIDE DEF branch
  <2> QED BY <2>1
<1>4. ~(line[last].number > branch.value.limit)
  BY <1>1, <1>3
<1>5. ParseChoiceBranch(Bare(name), branch, line, i + 1)
        = Success(Apply(Bare(name), branch, line[last]), last + 1)
  BY <1>2, <1>4 DEF ParseChoiceBranch
<1> HIDE DEF last
<1> QED BY <1>3, <1>5, ApplyPlain

\* A keyword with a duration.
LEMMA DurationBranch ==
  ASSUME NEW name, NEW keyword, NEW tag, NEW line, NEW i \in Nat
  PROVE  LET parsed == ParseChoiceBranch(Bare(name),
                         Branch(keyword, tag, DurationValue), line, i)
         IN \/ KindAt(line, i) # "Duration" /\ parsed = Unexpected(line, i)
            \/ /\ KindAt(line, i) = "Duration" /\ line[i].number > MaxCount
               /\ parsed = Failure("InvalidDuration", i)
            \/ /\ KindAt(line, i) = "Duration" /\ ~(line[i].number > MaxCount)
               /\ parsed = Success(Command(name, tag,
                     line[i].number * line[i].unit, {}, {}), i + 1)
<1> DEFINE branch == Branch(keyword, tag, DurationValue)
           kinds == branch.value.tokens
           wrong == Mismatches(kinds, line, i)
           last  == i + Len(kinds) - 1
           parsed == ParseChoiceBranch(Bare(name), branch, line, i)
<1>1. /\ branch.value = DurationValue /\ kinds = << "Duration" >>
      /\ branch.value.limit = MaxCount /\ branch.value.error = "InvalidDuration"
  BY DEF Branch, DurationValue
<1>2. Len(kinds) = 1 /\ DOMAIN kinds = {1} /\ kinds[1] = "Duration"
  BY <1>1
<1>3. last = i
  <2> HIDE DEF branch, kinds
  <2> QED BY <1>2
<1>4. wrong = IF KindAt(line, i) # "Duration" THEN {1} ELSE {}
  <2>1. i + 1 - 1 = i
    OBVIOUS
  <2>2. wrong = {n \in {1} : KindAt(line, i + n - 1) # kinds[n]}
    BY <1>2 DEF Mismatches
  <2> QED BY <1>2, <2>1, <2>2
<1>5. CASE KindAt(line, i) # "Duration"
  <2>1. wrong = {1}
    BY <1>4, <1>5
  <2>2. Min({1}) = 1
    BY MinIs
  <2>3. parsed = Unexpected(line, i + 1 - 1)
    BY <2>1, <2>2 DEF ParseChoiceBranch
  <2>4. i + 1 - 1 = i
    OBVIOUS
  <2> QED BY <1>5, <2>3, <2>4
<1>6. CASE KindAt(line, i) = "Duration" /\ line[i].number > MaxCount
  <2>1. wrong = {}
    BY <1>4, <1>6
  <2>2. parsed = Failure(branch.value.error, last)
    BY <1>1, <1>3, <1>6, <2>1 DEF ParseChoiceBranch
  <2> HIDE DEF last, parsed, branch
  <2>3. parsed = Failure("InvalidDuration", i)
    BY <1>1, <1>3, <2>2
  <2> QED BY <1>6, <2>3 DEF parsed, branch
<1>7. CASE KindAt(line, i) = "Duration" /\ ~(line[i].number > MaxCount)
  <2>1. wrong = {}
    BY <1>4, <1>7
  <2>2. parsed = Success(Apply(Bare(name), branch, line[last]), last + 1)
    BY <1>1, <1>3, <1>7, <2>1 DEF ParseChoiceBranch
  <2> HIDE DEF last, parsed
  <2>3. parsed = Success(Command(name, tag,
                     line[i].number * line[i].unit, {}, {}), i + 1)
    BY <1>3, <2>2, ApplyDuration
  <2> QED BY <1>7, <2>3 DEF parsed
<1> QED BY <1>5, <1>6, <1>7

\* What comes of a keyword with `=' and an integer.
ReadsCount(parsed, name, tag, line, i) ==
  \/ KindAt(line, i) # "Equals" /\ parsed = Unexpected(line, i)
  \/ /\ KindAt(line, i) = "Equals" /\ KindAt(line, i + 1) # "Integer"
     /\ parsed = Unexpected(line, i + 1)
  \/ /\ KindAt(line, i) = "Equals" /\ KindAt(line, i + 1) = "Integer"
     /\ line[i + 1].number > MaxRetries
     /\ parsed = Failure("InvalidInteger", i + 1)
  \/ /\ KindAt(line, i) = "Equals" /\ KindAt(line, i + 1) = "Integer"
     /\ ~(line[i + 1].number > MaxRetries)
     /\ parsed = Success(Command(name, tag, 0, {line[i + 1].number}, {}), i + 2)

LEMMA AssignmentBranch ==
  ASSUME NEW name, NEW keyword, NEW tag, NEW line, NEW i \in Nat
  PROVE  ReadsCount(ParseChoiceBranch(Bare(name),
                      Branch(keyword, tag, IntegerAssignment), line, i),
                    name, tag, line, i)
<1> DEFINE branch == Branch(keyword, tag, IntegerAssignment)
           kinds == branch.value.tokens
           wrong == Mismatches(kinds, line, i)
           last  == i + Len(kinds) - 1
           parsed == ParseChoiceBranch(Bare(name), branch, line, i)
<1> SUFFICES
      \/ KindAt(line, i) # "Equals" /\ parsed = Unexpected(line, i)
      \/ /\ KindAt(line, i) = "Equals" /\ KindAt(line, i + 1) # "Integer"
         /\ parsed = Unexpected(line, i + 1)
      \/ /\ KindAt(line, i) = "Equals" /\ KindAt(line, i + 1) = "Integer"
         /\ line[i + 1].number > MaxRetries
         /\ parsed = Failure("InvalidInteger", i + 1)
      \/ /\ KindAt(line, i) = "Equals" /\ KindAt(line, i + 1) = "Integer"
         /\ ~(line[i + 1].number > MaxRetries)
         /\ parsed = Success(Command(name, tag, 0,
                                     {line[i + 1].number}, {}), i + 2)
  BY DEF ReadsCount
<1>1. /\ branch.value = IntegerAssignment
      /\ kinds = << "Equals", "Integer" >>
      /\ branch.value.limit = MaxRetries
      /\ branch.value.error = "InvalidInteger"
  BY DEF Branch, IntegerAssignment
<1>2. /\ Len(kinds) = 2 /\ DOMAIN kinds = {1, 2}
      /\ kinds[1] = "Equals" /\ kinds[2] = "Integer"
  BY <1>1
<1>3. last = i + 1 /\ last + 1 = i + 2
  <2> HIDE DEF branch, kinds
  <2> QED BY <1>2
<1>4. i + 1 - 1 = i /\ i + 2 - 1 = i + 1
  OBVIOUS
<1>5. /\ 1 \in wrong <=> KindAt(line, i) # "Equals"
      /\ 2 \in wrong <=> KindAt(line, i + 1) # "Integer"
      /\ wrong \subseteq {1, 2}
  <2>1. wrong = {n \in {1, 2} : KindAt(line, i + n - 1) # kinds[n]}
    BY <1>2 DEF Mismatches
  <2>2. /\ 1 \in wrong <=> KindAt(line, i + 1 - 1) # kinds[1]
        /\ 2 \in wrong <=> KindAt(line, i + 2 - 1) # kinds[2]
        /\ wrong \subseteq {1, 2}
    <3> HIDE DEF kinds, wrong
    <3> QED BY <2>1
  <2> QED BY <1>2, <1>4, <2>2
<1>6. CASE KindAt(line, i) # "Equals"
  <2>1. Min(wrong) = 1 /\ wrong # {}
    <3>1. 1 \in wrong /\ wrong \in SUBSET Nat /\ \A n \in wrong : 1 <= n
      <4> HIDE DEF wrong
      <4> QED BY <1>5, <1>6
    <3> HIDE DEF wrong
    <3> QED BY <3>1, MinIs
  <2>2. parsed = Unexpected(line, i + Min(wrong) - 1)
    BY <2>1 DEF ParseChoiceBranch
  <2>3. parsed = Unexpected(line, i)
    <3> HIDE DEF parsed, wrong
    <3> QED BY <1>4, <2>1, <2>2
  <2> QED BY <1>6, <2>3
<1>7. CASE KindAt(line, i) = "Equals" /\ KindAt(line, i + 1) # "Integer"
  <2>1. Min(wrong) = 2 /\ wrong # {}
    <3>1. 2 \in wrong /\ wrong \in SUBSET Nat /\ \A n \in wrong : 2 <= n
      <4> HIDE DEF wrong
      <4> QED BY <1>5, <1>7
    <3> HIDE DEF wrong
    <3> QED BY <3>1, MinIs
  <2>2. parsed = Unexpected(line, i + Min(wrong) - 1)
    BY <2>1 DEF ParseChoiceBranch
  <2>3. parsed = Unexpected(line, i + 1)
    <3> HIDE DEF parsed, wrong
    <3> QED BY <1>4, <2>1, <2>2
  <2> QED BY <1>7, <2>3
<1>8. CASE /\ KindAt(line, i) = "Equals" /\ KindAt(line, i + 1) = "Integer"
           /\ line[i + 1].number > MaxRetries
  <2>1. wrong = {}
    <3> HIDE DEF wrong
    <3> QED BY <1>5, <1>8
  <2>2. line[last].number > branch.value.limit
    BY <1>1, <1>3, <1>8
  <2>3. parsed = Failure(branch.value.error, last)
    BY <2>1, <2>2 DEF ParseChoiceBranch
  <2> HIDE DEF last, parsed, branch
  <2>4. parsed = Failure("InvalidInteger", i + 1)
    BY <1>1, <1>3, <2>3
  <2> QED BY <1>8, <2>4 DEF parsed, branch
<1>9. CASE /\ KindAt(line, i) = "Equals" /\ KindAt(line, i + 1) = "Integer"
           /\ ~(line[i + 1].number > MaxRetries)
  <2>1. wrong = {}
    <3> HIDE DEF wrong
    <3> QED BY <1>5, <1>9
  <2>2. ~(line[last].number > branch.value.limit)
    BY <1>1, <1>3, <1>9
  <2>3. parsed = Success(Apply(Bare(name), branch, line[last]), last + 1)
    BY <2>1, <2>2 DEF ParseChoiceBranch
  <2> HIDE DEF last, parsed
  <2>4. parsed = Success(Command(name, tag, 0,
                     {line[i + 1].number}, {}), i + 2)
    BY <1>3, <2>3, ApplyInteger
  <2> QED BY <1>9, <2>4 DEF parsed
<1> QED BY <1>6, <1>7, <1>8, <1>9

-----------------------------------------------------------------------------
(* What each command reads, alternative by alternative.                    *)

WordAt(line, i, w) == KindAt(line, i) = "Ident" /\ line[i].word = w

LEMMA ChosenIs ==
  ASSUME NEW choices, NEW default, NEW line, NEW i, NEW b \in choices,
         WordAt(line, i, b.keyword),
         \A c \in choices : c.keyword = b.keyword => c = b
  PROVE  LET node == OptionalChoice(choices, default)
         IN /\ Chosen(node, line, i) # {}
            /\ (CHOOSE c \in Chosen(node, line, i) : TRUE) = b
<1> DEFINE node == OptionalChoice(choices, default)
<1>1. node.choices = choices
  BY DEF OptionalChoice
<1>2. Chosen(node, line, i) = {b}
  <2>1. b \in Chosen(node, line, i)
    BY <1>1 DEF Chosen, WordAt
  <2>2. ASSUME NEW c \in Chosen(node, line, i) PROVE c = b
    <3>1. c \in choices /\ c.keyword = line[i].word
      BY <1>1 DEF Chosen
    <3> QED BY <3>1 DEF WordAt
  <2> QED BY <2>1, <2>2
<1> HIDE DEF node
<1> QED BY <1>2 DEF node

LEMMA NoneChosen ==
  ASSUME NEW choices, NEW default, NEW line, NEW i,
         \A c \in choices : ~WordAt(line, i, c.keyword)
  PROVE  Chosen(OptionalChoice(choices, default), line, i) = {}
<1> DEFINE node == OptionalChoice(choices, default)
<1>1. node.choices = choices
  BY DEF OptionalChoice
<1> HIDE DEF node
<1>2. Chosen(node, line, i) = {}
  BY <1>1 DEF Chosen, WordAt
<1> QED BY <1>2 DEF node

\* An optional choice takes its default, or the branch of its keyword, or
\* nothing.
LEMMA ChoiceReads ==
  ASSUME NEW name, NEW choices, NEW default, NEW line, NEW i
  PROVE  LET parsed == ParseOptionalChoice(OptionalChoice(choices, default),
                                           Bare(name), line, i)
         IN /\ KindAt(line, i) \in {"Eol", "end"} =>
                 parsed = Success(Command(name, default, 0, {}, {}), i)
            /\ \A b \in choices :
                 /\ WordAt(line, i, b.keyword)
                 /\ \A c \in choices : c.keyword = b.keyword => c = b
                 => parsed = ParseChoiceBranch(Bare(name), b, line, i + 1)
            /\ /\ KindAt(line, i) \notin {"Eol", "end"}
               /\ \A c \in choices : ~WordAt(line, i, c.keyword)
               => parsed = Unexpected(line, i)
<1> DEFINE node == OptionalChoice(choices, default)
           parsed == ParseOptionalChoice(node, Bare(name), line, i)
<1>0. node.default = default
  BY DEF OptionalChoice
<1>1. ASSUME KindAt(line, i) \in {"Eol", "end"}
      PROVE  parsed = Success(Command(name, default, 0, {}, {}), i)
  <2>1. parsed = Success([Bare(name) EXCEPT !.choice = node.default], i)
    BY <1>1 DEF ParseOptionalChoice
  <2>2. [Bare(name) EXCEPT !.choice = default]
          = Command(name, default, 0, {}, {})
    BY CommandsBuilt DEF Choosing
  <2> HIDE DEF node, parsed
  <2> QED BY <1>0, <2>1, <2>2
<1>2. ASSUME NEW b \in choices, WordAt(line, i, b.keyword),
             \A c \in choices : c.keyword = b.keyword => c = b
      PROVE  parsed = ParseChoiceBranch(Bare(name), b, line, i + 1)
  <2>1. /\ Chosen(node, line, i) # {}
        /\ (CHOOSE c \in Chosen(node, line, i) : TRUE) = b
    BY <1>2, ChosenIs
  <2>2. KindAt(line, i) \notin {"Eol", "end"}
    BY <1>2 DEF WordAt
  <2> HIDE DEF node
  <2>3. ParseOptionalChoice(node, Bare(name), line, i)
          = ParseChoiceBranch(Bare(name), b, line, i + 1)
    BY <2>1, <2>2 DEF ParseOptionalChoice
  <2> QED BY <2>3
<1>3. ASSUME KindAt(line, i) \notin {"Eol", "end"},
             \A c \in choices : ~WordAt(line, i, c.keyword)
      PROVE  parsed = Unexpected(line, i)
  <2>1. Chosen(node, line, i) = {}
    BY <1>3, NoneChosen
  <2> HIDE DEF node
  <2>2. ParseOptionalChoice(node, Bare(name), line, i) = Unexpected(line, i)
    BY <1>3, <2>1 DEF ParseOptionalChoice
  <2> QED BY <2>2
<1> HIDE DEF parsed, node
<1>4. /\ KindAt(line, i) \in {"Eol", "end"} =>
           parsed = Success(Command(name, default, 0, {}, {}), i)
      /\ \A b \in choices :
           /\ WordAt(line, i, b.keyword)
           /\ \A c \in choices : c.keyword = b.keyword => c = b
           => parsed = ParseChoiceBranch(Bare(name), b, line, i + 1)
      /\ /\ KindAt(line, i) \notin {"Eol", "end"}
         /\ \A c \in choices : ~WordAt(line, i, c.keyword)
         => parsed = Unexpected(line, i)
  BY <1>1, <1>2, <1>3
<1> QED BY <1>4 DEF parsed, node

LEMMA RebootReads ==
  ASSUME NEW line \in Seq(Tokens)
  PROVE  LET parsed == ParseNode(RebootGrammar, Bare("reboot"), line, 2)
         IN \/ /\ KindAt(line, 2) \in {"Eol", "end"}
               /\ parsed = Success(Command("reboot", "RebootNow", 0, {}, {}), 2)
            \/ /\ WordAt(line, 2, "now")
               /\ parsed = Success(Command("reboot", "RebootNow", 0, {}, {}), 3)
            \/ /\ WordAt(line, 2, "delay") /\ KindAt(line, 3) # "Duration"
               /\ parsed = Unexpected(line, 3)
            \/ /\ WordAt(line, 2, "delay") /\ KindAt(line, 3) = "Duration"
               /\ line[3].number > MaxCount
               /\ parsed = Failure("InvalidDuration", 3)
            \/ /\ WordAt(line, 2, "delay") /\ KindAt(line, 3) = "Duration"
               /\ ~(line[3].number > MaxCount)
               /\ parsed = Success(Command("reboot", "RebootDelay",
                             line[3].number * line[3].unit, {}, {}), 4)
            \/ /\ KindAt(line, 2) \notin {"Eol", "end"}
               /\ ~WordAt(line, 2, "now") /\ ~WordAt(line, 2, "delay")
               /\ parsed = Unexpected(line, 2)
<1> DEFINE now == Branch("now", "RebootNow", NoValue)
           delay == Branch("delay", "RebootDelay", DurationValue)
           choices == {now, delay}
           parsed == ParseNode(RebootGrammar, Bare("reboot"), line, 2)
<1>1. parsed = ParseOptionalChoice(OptionalChoice(choices, "RebootNow"),
                                   Bare("reboot"), line, 2)
  BY DEF ParseNode, RebootGrammar, OptionalChoice
<1>2. now.keyword = "now" /\ delay.keyword = "delay"
  BY DEF Branch
<1> HIDE DEF now, delay
<1>3. "now" # "delay"
  OBVIOUS
<1>4. CASE KindAt(line, 2) \in {"Eol", "end"}
  <2>1. parsed = Success(Command("reboot", "RebootNow", 0, {}, {}), 2)
    BY <1>1, <1>4, ChoiceReads
  <2> QED BY <1>4, <2>1
<1>5. CASE WordAt(line, 2, "now")
  <2>1. parsed = ParseChoiceBranch(Bare("reboot"), now, line, 3)
    <3>1. /\ now \in choices
          /\ \A c \in choices : c.keyword = now.keyword => c = now
      BY <1>2, <1>3
    <3> HIDE DEF choices
    <3>2. parsed = ParseChoiceBranch(Bare("reboot"), now, line, 2 + 1)
      BY <1>1, <1>2, <1>5, <3>1, ChoiceReads
    <3> QED BY <3>2
  <2>2. line[2].number = 0
    BY <1>5, KindInLine, TokenFacts DEF WordAt
  <2>3. \A keyword, tag :
          ParseChoiceBranch(Bare("reboot"), Branch(keyword, tag, NoValue),
                            line, 2 + 1)
            = Success(Command("reboot", tag, 0, {}, {}), 2 + 1)
    BY <2>2, PlainBranch
  <2>4. parsed = Success(Command("reboot", "RebootNow", 0, {}, {}), 3)
    <3> HIDE DEF parsed
    <3>1. parsed = Success(Command("reboot", "RebootNow", 0, {}, {}), 2 + 1)
      BY <2>1, <2>3 DEF now
    <3> QED BY <3>1
  <2> QED BY <1>5, <2>4
<1>6. CASE WordAt(line, 2, "delay")
  <2>1. parsed = ParseChoiceBranch(Bare("reboot"), delay, line, 3)
    <3>1. /\ delay \in choices
          /\ \A c \in choices : c.keyword = delay.keyword => c = delay
      BY <1>2, <1>3
    <3> HIDE DEF choices
    <3>2. parsed = ParseChoiceBranch(Bare("reboot"), delay, line, 2 + 1)
      BY <1>1, <1>2, <1>6, <3>1, ChoiceReads
    <3> QED BY <3>2
  <2> HIDE DEF parsed
  <2>2. \/ KindAt(line, 3) # "Duration" /\ parsed = Unexpected(line, 3)
        \/ /\ KindAt(line, 3) = "Duration" /\ line[3].number > MaxCount
           /\ parsed = Failure("InvalidDuration", 3)
        \/ /\ KindAt(line, 3) = "Duration" /\ ~(line[3].number > MaxCount)
           /\ parsed = Success(Command("reboot", "RebootDelay",
                             line[3].number * line[3].unit, {}, {}), 3 + 1)
    <3> DEFINE read == ParseChoiceBranch(Bare("reboot"),
                         Branch("delay", "RebootDelay", DurationValue), line, 3)
    <3>1. parsed = read
      BY <2>1 DEF delay
    <3>2. \/ KindAt(line, 3) # "Duration" /\ read = Unexpected(line, 3)
          \/ /\ KindAt(line, 3) = "Duration" /\ line[3].number > MaxCount
             /\ read = Failure("InvalidDuration", 3)
          \/ /\ KindAt(line, 3) = "Duration" /\ ~(line[3].number > MaxCount)
             /\ read = Success(Command("reboot", "RebootDelay",
                             line[3].number * line[3].unit, {}, {}), 3 + 1)
      BY DurationBranch
    <3> HIDE DEF read
    <3> QED BY <3>1, <3>2
  <2>3. 3 + 1 = 4
    OBVIOUS
  <2> QED BY <1>6, <2>2, <2>3 DEF parsed
<1>7. CASE /\ KindAt(line, 2) \notin {"Eol", "end"}
           /\ ~WordAt(line, 2, "now") /\ ~WordAt(line, 2, "delay")
  <2>1. \A c \in choices : ~WordAt(line, 2, c.keyword)
    BY <1>2, <1>7
  <2>2. parsed = Unexpected(line, 2)
    <3> HIDE DEF choices
    <3> QED BY <1>1, <1>7, <2>1, ChoiceReads
  <2> QED BY <1>7, <2>2
<1> QED BY <1>4, <1>5, <1>6, <1>7

\* A keyword that stands alone.
LEMMA PlainReads ==
  ASSUME NEW name, NEW choices, NEW default, NEW line \in Seq(Tokens),
         NEW i \in Nat \ {0}, NEW keyword, NEW tag,
         Branch(keyword, tag, NoValue) \in choices,
         WordAt(line, i, keyword),
         \A c \in choices :
           c.keyword = keyword => c = Branch(keyword, tag, NoValue)
  PROVE  ParseOptionalChoice(OptionalChoice(choices, default), Bare(name),
                             line, i)
           = Success(Command(name, tag, 0, {}, {}), i + 1)
<1> DEFINE b == Branch(keyword, tag, NoValue)
           parsed == ParseOptionalChoice(OptionalChoice(choices, default),
                                         Bare(name), line, i)
<1>1. b.keyword = keyword
  BY DEF Branch
<1>2. parsed = ParseChoiceBranch(Bare(name), b, line, i + 1)
  <2> HIDE DEF b, parsed
  <2>1. /\ b \in choices /\ WordAt(line, i, b.keyword)
        /\ \A c \in choices : c.keyword = b.keyword => c = b
    BY <1>1 DEF b
  <2> QED BY <2>1, ChoiceReads DEF parsed
<1>3. line[i].number = 0
  BY KindInLine, TokenFacts DEF WordAt
<1>4. ParseChoiceBranch(Bare(name), b, line, i + 1)
        = Success(Command(name, tag, 0, {}, {}), i + 1)
  BY <1>3, PlainBranch
<1> QED BY <1>2, <1>4

LEMMA RecoveryReads ==
  ASSUME NEW line \in Seq(Tokens)
  PROVE  LET parsed == ParseNode(RecoveryGrammar, Bare("recovery"), line, 2)
         IN \/ /\ KindAt(line, 2) \in {"Eol", "end"}
               /\ parsed = Success(Command("recovery", "RecoveryEnter",
                                           0, {}, {}), 2)
            \/ /\ WordAt(line, 2, "enter")
               /\ parsed = Success(Command("recovery", "RecoveryEnter",
                                           0, {}, {}), 3)
            \/ /\ WordAt(line, 2, "exit")
               /\ parsed = Success(Command("recovery", "RecoveryExit",
                                           0, {}, {}), 3)
            \/ /\ WordAt(line, 2, "now")
               /\ parsed = Success(Command("recovery", "RecoveryNow",
                                           0, {}, {}), 3)
            \/ /\ KindAt(line, 2) \notin {"Eol", "end"}
               /\ ~WordAt(line, 2, "enter") /\ ~WordAt(line, 2, "exit")
               /\ ~WordAt(line, 2, "now")
               /\ parsed = Unexpected(line, 2)
<1> DEFINE enter == Branch("enter", "RecoveryEnter", NoValue)
           exit == Branch("exit", "RecoveryExit", NoValue)
           now == Branch("now", "RecoveryNow", NoValue)
           choices == {enter, exit, now}
           parsed == ParseNode(RecoveryGrammar, Bare("recovery"), line, 2)
<1>1. parsed = ParseOptionalChoice(OptionalChoice(choices, "RecoveryEnter"),
                                   Bare("recovery"), line, 2)
  BY DEF ParseNode, RecoveryGrammar, OptionalChoice
<1>2. /\ enter.keyword = "enter" /\ exit.keyword = "exit"
      /\ now.keyword = "now"
  BY DEF Branch
<1>3. "enter" # "exit" /\ "exit" # "now"
  OBVIOUS
<1>4. "enter" # "now"
  OBVIOUS
<1>5. /\ enter \in choices /\ exit \in choices /\ now \in choices
      /\ \A c \in choices : c.keyword = "enter" => c = enter
      /\ \A c \in choices : c.keyword = "exit" => c = exit
      /\ \A c \in choices : c.keyword = "now" => c = now
  <2> HIDE DEF enter, exit, now
  <2> QED BY <1>2, <1>3, <1>4
<1>6. 2 + 1 = 3
  OBVIOUS
<1>7. ASSUME NEW keyword, NEW tag, WordAt(line, 2, keyword),
             Branch(keyword, tag, NoValue) \in choices,
             \A c \in choices :
               c.keyword = keyword => c = Branch(keyword, tag, NoValue)
      PROVE  parsed = Success(Command("recovery", tag, 0, {}, {}), 3)
  <2> HIDE DEF choices
  <2>1. \A name, default :
          ParseOptionalChoice(OptionalChoice(choices, default), Bare(name),
                              line, 2)
            = Success(Command(name, tag, 0, {}, {}), 2 + 1)
    BY <1>7, PlainReads
  <2> QED BY <1>1, <1>6, <2>1
<1>8. CASE KindAt(line, 2) \in {"Eol", "end"}
  <2> HIDE DEF choices
  <2>1. parsed = Success(Command("recovery", "RecoveryEnter", 0, {}, {}), 2)
    BY <1>1, <1>8, ChoiceReads
  <2> QED BY <1>8, <2>1
<1>9. CASE WordAt(line, 2, "enter")
  <2> HIDE DEF choices, parsed
  <2>1. parsed = Success(Command("recovery", "RecoveryEnter", 0, {}, {}), 3)
    BY <1>5, <1>7, <1>9
  <2> QED BY <1>9, <2>1 DEF parsed
<1>10. CASE WordAt(line, 2, "exit")
  <2> HIDE DEF choices, parsed
  <2>1. parsed = Success(Command("recovery", "RecoveryExit", 0, {}, {}), 3)
    BY <1>5, <1>7, <1>10
  <2> QED BY <1>10, <2>1 DEF parsed
<1>11. CASE WordAt(line, 2, "now")
  <2> HIDE DEF choices, parsed
  <2>1. parsed = Success(Command("recovery", "RecoveryNow", 0, {}, {}), 3)
    BY <1>5, <1>7, <1>11
  <2> QED BY <1>11, <2>1 DEF parsed
<1>12. CASE /\ KindAt(line, 2) \notin {"Eol", "end"}
            /\ ~WordAt(line, 2, "enter") /\ ~WordAt(line, 2, "exit")
            /\ ~WordAt(line, 2, "now")
  <2>1. \A c \in choices : ~WordAt(line, 2, c.keyword)
    <3> HIDE DEF enter, exit, now
    <3> QED BY <1>2, <1>12
  <2> HIDE DEF choices
  <2>2. parsed = Unexpected(line, 2)
    BY <1>1, <1>12, <2>1, ChoiceReads
  <2> QED BY <1>12, <2>2
<1> QED BY <1>8, <1>9, <1>10, <1>11, <1>12

LEMMA FaultReads ==
  ASSUME NEW line \in Seq(Tokens)
  PROVE  LET parsed == ParseNode(FaultGrammar, Bare("fault"), line, 2)
             recover == WordAt(line, 2, "recover")
             retries == recover /\ WordAt(line, 3, "retries")
         IN \/ ~recover /\ parsed = Unexpected(line, 2)
            \/ /\ recover /\ KindAt(line, 3) \in {"Eol", "end"}
               /\ parsed = Success(Command("fault", "", 0, {}, {}), 3)
            \/ /\ recover /\ KindAt(line, 3) \notin {"Eol", "end"}
               /\ ~WordAt(line, 3, "retries")
               /\ parsed = Unexpected(line, 3)
            \/ /\ retries /\ KindAt(line, 4) # "Equals"
               /\ parsed = Unexpected(line, 4)
            \/ /\ retries /\ KindAt(line, 4) = "Equals"
               /\ KindAt(line, 5) # "Integer"
               /\ parsed = Unexpected(line, 5)
            \/ /\ retries /\ KindAt(line, 4) = "Equals"
               /\ KindAt(line, 5) = "Integer" /\ line[5].number > MaxRetries
               /\ parsed = Failure("InvalidInteger", 5)
            \/ /\ retries /\ KindAt(line, 4) = "Equals"
               /\ KindAt(line, 5) = "Integer" /\ ~(line[5].number > MaxRetries)
               /\ parsed = Success(Command("fault", "FaultRetries", 0,
                                           {line[5].number}, {}), 6)
<1> DEFINE branch == Branch("retries", "FaultRetries", IntegerAssignment)
           choices == {branch}
           parsed == ParseNode(FaultGrammar, Bare("fault"), line, 2)
           opted == ParseOptionalChoice(OptionalChoice(choices, ""),
                                        Bare("fault"), line, 3)
<1>1. parsed = ParseSubcommands(Bare("fault"), line, 2)
  BY DEF ParseNode, FaultGrammar
<1>2. DOMAIN Subcommands = {"recover"}
      /\ Subcommands["recover"] = OptionalChoice(choices, "")
  BY DEF Subcommands, FaultRecoverGrammar
<1>3. CASE ~WordAt(line, 2, "recover")
  <2>1. parsed = Unexpected(line, 2)
    BY <1>1, <1>2, <1>3 DEF ParseSubcommands, WordAt
  <2> QED BY <1>3, <2>1
<1>4. ASSUME WordAt(line, 2, "recover") PROVE parsed = opted
  <2>1. line[2].word = "recover" /\ KindAt(line, 2) = "Ident"
    BY <1>4 DEF WordAt
  <2>2. Subcommands[line[2].word] = OptionalChoice(choices, "")
    BY <1>2, <2>1
  <2>3. line[2].word \in DOMAIN Subcommands
    BY <1>2, <2>1
  <2>4. 2 + 1 = 3
    OBVIOUS
  <2> HIDE DEF choices
  <2> QED BY <1>1, <2>1, <2>2, <2>3, <2>4 DEF ParseSubcommands
<1>5. CASE WordAt(line, 2, "recover") /\ KindAt(line, 3) \in {"Eol", "end"}
  <2> HIDE DEF choices
  <2>1. \A default :
          ParseOptionalChoice(OptionalChoice(choices, default),
                              Bare("fault"), line, 3)
            = Success(Command("fault", default, 0, {}, {}), 3)
    BY <1>5, ChoiceReads
  <2>2. parsed = Success(Command("fault", "", 0, {}, {}), 3)
    <3>1. parsed = opted
      BY <1>4, <1>5
    <3> QED BY <2>1, <3>1
  <2> QED BY <1>5, <2>2
<1>6. branch.keyword = "retries"
  BY DEF Branch
<1>7. CASE /\ WordAt(line, 2, "recover")
           /\ KindAt(line, 3) \notin {"Eol", "end"}
           /\ ~WordAt(line, 3, "retries")
  <2>1. \A c \in choices : ~WordAt(line, 3, c.keyword)
    <3> HIDE DEF branch
    <3> QED BY <1>6, <1>7
  <2> HIDE DEF choices
  <2>2. \A default :
          ParseOptionalChoice(OptionalChoice(choices, default),
                              Bare("fault"), line, 3)
            = Unexpected(line, 3)
    BY <1>7, <2>1, ChoiceReads
  <2>3. parsed = Unexpected(line, 3)
    <3>1. parsed = opted
      BY <1>4, <1>7
    <3> QED BY <2>2, <3>1
  <2> QED BY <1>7, <2>3
<1>8. CASE WordAt(line, 2, "recover") /\ WordAt(line, 3, "retries")
  <2> DEFINE of == ParseChoiceBranch(Bare("fault"), branch, line, 4)
  <2>1. /\ branch \in choices /\ WordAt(line, 3, branch.keyword)
        /\ \A c \in choices : c.keyword = branch.keyword => c = branch
    <3> HIDE DEF branch
    <3> QED BY <1>6, <1>8
  <2>2. parsed = of
    <3> HIDE DEF choices, branch
    <3>1. \A default :
            ParseOptionalChoice(OptionalChoice(choices, default),
                                Bare("fault"), line, 3)
              = ParseChoiceBranch(Bare("fault"), branch, line, 3 + 1)
      BY <2>1, ChoiceReads
    <3>2. 3 + 1 = 4
      OBVIOUS
    <3>3. parsed = opted
      BY <1>4, <1>8
    <3> QED BY <3>1, <3>2, <3>3
  <2>3. \/ KindAt(line, 4) # "Equals" /\ of = Unexpected(line, 4)
        \/ /\ KindAt(line, 4) = "Equals" /\ KindAt(line, 4 + 1) # "Integer"
           /\ of = Unexpected(line, 4 + 1)
        \/ /\ KindAt(line, 4) = "Equals" /\ KindAt(line, 4 + 1) = "Integer"
           /\ line[4 + 1].number > MaxRetries
           /\ of = Failure("InvalidInteger", 4 + 1)
        \/ /\ KindAt(line, 4) = "Equals" /\ KindAt(line, 4 + 1) = "Integer"
           /\ ~(line[4 + 1].number > MaxRetries)
           /\ of = Success(Command("fault", "FaultRetries", 0,
                                   {line[4 + 1].number}, {}), 4 + 2)
    <3>1. \A name, keyword, tag :
            ReadsCount(ParseChoiceBranch(Bare(name),
                         Branch(keyword, tag, IntegerAssignment), line, 4),
                       name, tag, line, 4)
      BY AssignmentBranch
    <3>2. ReadsCount(of, "fault", "FaultRetries", line, 4)
      BY <3>1
    <3> HIDE DEF of
    <3> QED BY <3>2 DEF ReadsCount
  <2>4. 4 + 1 = 5 /\ 4 + 2 = 6
    OBVIOUS
  <2> HIDE DEF of, parsed
  <2>5. \/ KindAt(line, 4) # "Equals" /\ parsed = Unexpected(line, 4)
        \/ /\ KindAt(line, 4) = "Equals" /\ KindAt(line, 5) # "Integer"
           /\ parsed = Unexpected(line, 5)
        \/ /\ KindAt(line, 4) = "Equals" /\ KindAt(line, 5) = "Integer"
           /\ line[5].number > MaxRetries
           /\ parsed = Failure("InvalidInteger", 5)
        \/ /\ KindAt(line, 4) = "Equals" /\ KindAt(line, 5) = "Integer"
           /\ ~(line[5].number > MaxRetries)
           /\ parsed = Success(Command("fault", "FaultRetries", 0,
                                       {line[5].number}, {}), 6)
    BY <2>2, <2>3, <2>4
  <2> QED BY <1>8, <2>5 DEF parsed
<1>9. KindAt(line, 3) \in {"Eol", "end"} => ~WordAt(line, 3, "retries")
  BY DEF WordAt
<1> HIDE DEF parsed
<1>10. \/ ~WordAt(line, 2, "recover")
       \/ WordAt(line, 2, "recover") /\ KindAt(line, 3) \in {"Eol", "end"}
       \/ /\ WordAt(line, 2, "recover")
          /\ KindAt(line, 3) \notin {"Eol", "end"}
          /\ ~WordAt(line, 3, "retries")
       \/ WordAt(line, 2, "recover") /\ WordAt(line, 3, "retries")
  BY <1>9
<1> QED BY <1>3, <1>5, <1>7, <1>8, <1>10 DEF parsed

LEMMA HelpReads ==
  ASSUME NEW line
  PROVE  LET parsed == ParseNode(Topic, Bare("help"), line, 2)
         IN \/ /\ KindAt(line, 2) \in {"Eol", "end"}
               /\ parsed = Success(Command("help", "", 0, {}, {}), 2)
            \/ /\ KindAt(line, 2) = "Ident"
               /\ parsed = Success(Command("help", "", 0, {},
                                           {line[2].word}), 3)
            \/ /\ KindAt(line, 2) \notin {"Eol", "end", "Ident"}
               /\ parsed = Unexpected(line, 2)
<1> DEFINE parsed == ParseNode(Topic, Bare("help"), line, 2)
<1>1. parsed = ParseTopic(Bare("help"), line, 2)
  BY DEF ParseNode, Topic
<1>2. /\ Bare("help") = Command("help", "", 0, {}, {})
      /\ \A topic : [Bare("help") EXCEPT !.topic = topic]
                      = Command("help", "", 0, {}, topic)
  BY CommandsBuilt
<1>3. CASE KindAt(line, 2) = "Ident"
  <2>1. parsed = Success([Bare("help") EXCEPT !.topic = {line[2].word}], 2 + 1)
    BY <1>1, <1>3 DEF ParseTopic
  <2>2. parsed = Success(Command("help", "", 0, {}, {line[2].word}), 3)
    <3>1. [Bare("help") EXCEPT !.topic = {line[2].word}]
            = Command("help", "", 0, {}, {line[2].word})
      BY <1>2
    <3>2. 2 + 1 = 3
      OBVIOUS
    <3> HIDE DEF parsed
    <3> QED BY <2>1, <3>1, <3>2
  <2> QED BY <1>3, <2>2
<1>4. CASE KindAt(line, 2) \in {"Eol", "end"}
  <2>1. parsed = Success(Bare("help"), 2)
    BY <1>1, <1>4 DEF ParseTopic
  <2> QED BY <1>2, <1>4, <2>1
<1>5. CASE KindAt(line, 2) \notin {"Eol", "end", "Ident"}
  <2>1. parsed = Unexpected(line, 2)
    BY <1>1, <1>5 DEF ParseTopic
  <2> QED BY <1>5, <2>1
<1> QED BY <1>3, <1>4, <1>5

LEMMA StatusReads ==
  ASSUME NEW line
  PROVE  ParseNode(End, Bare("status"), line, 2)
           = Success(Command("status", "", 0, {}, {}), 2)
<1>1. ParseNode(End, Bare("status"), line, 2) = Success(Bare("status"), 2)
  BY DEF ParseNode, End
<1>2. Bare("status") = Command("status", "", 0, {}, {})
  BY CommandsBuilt
<1> QED BY <1>1, <1>2

LEMMA CommandNames ==
  DOMAIN Catalog = {"reboot", "recovery", "fault", "status", "help"}
BY DEF Catalog

\* A line is read by the grammar of the command in front, if there is one.
LEMMA CommandReads ==
  ASSUME NEW line
  PROVE  \/ /\ WordAt(line, 1, "reboot")
            /\ ParseCommand(line)
                 = ParseNode(RebootGrammar, Bare("reboot"), line, 2)
         \/ /\ WordAt(line, 1, "recovery")
            /\ ParseCommand(line)
                 = ParseNode(RecoveryGrammar, Bare("recovery"), line, 2)
         \/ /\ WordAt(line, 1, "fault")
            /\ ParseCommand(line)
                 = ParseNode(FaultGrammar, Bare("fault"), line, 2)
         \/ /\ WordAt(line, 1, "status")
            /\ ParseCommand(line) = ParseNode(End, Bare("status"), line, 2)
         \/ /\ WordAt(line, 1, "help")
            /\ ParseCommand(line) = ParseNode(Topic, Bare("help"), line, 2)
         \/ /\ \A name \in DOMAIN Catalog : ~WordAt(line, 1, name)
            /\ ParseCommand(line) = Unexpected(line, 1)
<1> DEFINE name == line[1].word
<1>1. CASE \A n \in DOMAIN Catalog : ~WordAt(line, 1, n)
  <2>1. ParseCommand(line) = Unexpected(line, 1)
    BY <1>1 DEF ParseCommand, WordAt
  <2> QED BY <1>1, <2>1
<1>2. CASE \E n \in DOMAIN Catalog : WordAt(line, 1, n)
  <2>1. name \in DOMAIN Catalog /\ WordAt(line, 1, name)
    BY <1>2 DEF WordAt
  <2>2. ParseCommand(line) = ParseNode(Catalog[name], Bare(name), line, 2)
    BY <2>1 DEF ParseCommand, WordAt
  <2>3. /\ Catalog["reboot"] = RebootGrammar
        /\ Catalog["recovery"] = RecoveryGrammar
        /\ Catalog["fault"] = FaultGrammar
        /\ Catalog["status"] = End /\ Catalog["help"] = Topic
    BY DEF Catalog
  <2> HIDE DEF name
  <2> QED BY <2>1, <2>2, <2>3, CommandNames
<1> QED BY <1>1, <1>2

-----------------------------------------------------------------------------
(* The whole line.                                                         *)

LEMMA FirstFromIs ==
  ASSUME NEW line \in Seq(Tokens), NEW i \in Nat \ {0}, NEW kinds
  PROVE  LET first == FirstFrom(line, i, kinds)
         IN \/ /\ first = 0
               /\ \A n \in i..Len(line) : line[n].kind \notin kinds
            \/ /\ first \in i..Len(line) /\ line[first].kind \in kinds
               /\ \A n \in i..Len(line) : n < first => line[n].kind \notin kinds
<1> DEFINE found == {n \in i..Len(line) : line[n].kind \in kinds}
           first == FirstFrom(line, i, kinds)
<1>0. Len(line) \in Nat
  OBVIOUS
<1>1. CASE found = {}
  <2>1. first = 0
    BY <1>1 DEF FirstFrom
  <2> HIDE DEF first
  <2> QED BY <1>1, <2>1 DEF first
<1>2. CASE found # {}
  <2>1. first = Min(found)
    BY <1>2 DEF FirstFrom
  <2>2. found \in SUBSET Nat
    BY <1>0
  <2> HIDE DEF first
  <2>3. first \in found /\ \A n \in found : first <= n
    <3> HIDE DEF found
    <3> QED BY <1>2, <2>1, <2>2, MinOf
  <2>4. \A n \in i..Len(line) : n < first => n \notin found
    BY <1>0, <2>3
  <2> QED BY <2>3, <2>4 DEF first
<1> QED BY <1>1, <1>2

LEMMA NoneIsFound ==
  ASSUME NEW line \in Seq(Tokens), NEW kinds,
         \A n \in 1..Len(line) : line[n].kind \notin kinds
  PROVE  FirstFrom(line, 1, kinds) = 0
<1>1. PICK i \in Nat \ {0} : i = 1
  OBVIOUS
<1>2. PICK first : first = FirstFrom(line, i, kinds)
  OBVIOUS
<1>3. \/ first = 0
      \/ first \in i..Len(line) /\ line[first].kind \in kinds
  BY <1>2, FirstFromIs
<1> QED BY <1>1, <1>2, <1>3

LEMMA NoneFound ==
  ASSUME NEW line \in Seq(Tokens), NEW kinds, FirstFrom(line, 1, kinds) = 0
  PROVE  \A n \in 1..Len(line) : line[n].kind \notin kinds
<1>1. PICK i \in Nat \ {0} : i = 1
  OBVIOUS
<1>2. PICK first : first = FirstFrom(line, i, kinds)
  OBVIOUS
<1>3. \/ \A n \in i..Len(line) : line[n].kind \notin kinds
      \/ first \in i..Len(line)
  BY <1>2, FirstFromIs
<1>4. first = 0 /\ ~(0 \in i..Len(line))
  BY <1>1, <1>2
<1> QED BY <1>1, <1>3, <1>4

\* Neither editor lets a line end into a line.
Typed(line) == \A n \in 1..Len(line) : line[n].kind # "Eol"

LEMMA TrailingIs ==
  ASSUME NEW line \in Seq(Tokens), Typed(line), NEW i \in Nat \ {0}
  PROVE  Trailing(line, i) = IF i <= Len(line) THEN i ELSE 0
<1> DEFINE kinds == TokenKinds \ {"Eol"}
<1>0. Len(line) \in Nat /\ \A n \in 1..Len(line) : line[n].kind \in kinds
  BY TokenFacts DEF Typed
<1>1. Trailing(line, i) = FirstFrom(line, i, kinds)
  BY DEF Trailing
<1> HIDE DEF kinds
<1> QED BY <1>0, <1>1, FirstFromIs

\* A line without an unknown token that is not too long: as its command is
\* read, or refused for the first token after it.
LEMMA ParseReads ==
  ASSUME NEW line \in Seq(Tokens), Typed(line), Len(line) <= MaxTokens,
         \A n \in 1..Len(line) : line[n].kind # "Error",
         ParseCommand(line).at \in Nat \ {0}
  PROVE  LET parsed == ParseCommand(line)
         IN \/ /\ parsed.error # "" \/ parsed.at > Len(line)
               /\ Parse(line) = parsed
            \/ /\ parsed.error = "" /\ parsed.at <= Len(line)
               /\ Parse(line) = Failure("UnexpectedToken", parsed.at)
<1> DEFINE parsed == ParseCommand(line)
<1>0. Len(line) \in Nat /\ MaxTokens \in Nat
  BY GrammarAssumption
<1>1. FirstFrom(line, 1, {"Error"}) = 0
  <2>1. \A n \in 1..Len(line) : line[n].kind \notin {"Error"}
    OBVIOUS
  <2> QED BY <2>1, NoneIsFound
<1>2. Trailing(line, parsed.at) =
        IF parsed.at <= Len(line) THEN parsed.at ELSE 0
  BY TrailingIs
<1> DEFINE extra == Trailing(line, parsed.at)
<1>3. Parse(line) = IF parsed.error # "" \/ extra = 0 THEN parsed
                    ELSE Failure("UnexpectedToken", extra)
  <2>1. ~(Len(line) > MaxTokens)
    BY <1>0
  <2>2. Parse(line) = IF FirstFrom(line, 1, {"Error"}) # 0
                      THEN Failure("InvalidToken",
                                   FirstFrom(line, 1, {"Error"}))
                      ELSE IF parsed.error # "" \/ extra = 0 THEN parsed
                      ELSE Failure("UnexpectedToken", extra)
    BY <2>1 DEF Parse
  <2> HIDE DEF parsed, extra
  <2> QED BY <1>1, <2>2
<1>4. extra = IF parsed.at <= Len(line) THEN parsed.at ELSE 0
  BY <1>2
<1>5. parsed.at \in Nat /\ parsed.at # 0
  OBVIOUS
<1>7. \A x, y \in Nat : x > y <=> ~(x <= y)
  OBVIOUS
<1> HIDE DEF parsed, extra
<1>6. \/ /\ parsed.error # "" \/ parsed.at > Len(line)
         /\ Parse(line) = parsed
      \/ /\ parsed.error = "" /\ parsed.at <= Len(line)
         /\ Parse(line) = Failure("UnexpectedToken", parsed.at)
  <2>1. CASE parsed.error # ""
    BY <1>3, <2>1
  <2>2. CASE parsed.error = "" /\ parsed.at > Len(line)
    <3>1. extra = 0
      <4>1. ~(parsed.at <= Len(line))
        BY <1>0, <1>5, <1>7, <2>2, Zenon
      <4> QED BY <1>4, <4>1
    <3> QED BY <1>3, <2>2, <3>1
  <2>3. CASE parsed.error = "" /\ parsed.at <= Len(line)
    <3>1. extra = parsed.at /\ extra # 0
      BY <1>0, <1>4, <1>5, <2>3
    <3>2. Parse(line) = Failure("UnexpectedToken", extra)
      BY <1>3, <2>3, <3>1
    <3> QED BY <2>3, <3>1, <3>2
  <2> QED BY <1>0, <1>5, <1>7, <2>1, <2>2, <2>3, Zenon
<1> QED BY <1>6 DEF parsed

(* The lines that are read as a command: the token the parser gets to, and *)
(* the command.                                                            *)
Reads(line, command, at) ==
  \/ WordAt(line, 1, "status") /\ at = 2
     /\ command = Command("status", "", 0, {}, {})
  \/ /\ WordAt(line, 1, "help")
     /\ \/ /\ KindAt(line, 2) \in {"Eol", "end"} /\ at = 2
           /\ command = Command("help", "", 0, {}, {})
        \/ /\ KindAt(line, 2) = "Ident" /\ at = 3
           /\ command = Command("help", "", 0, {}, {line[2].word})
  \/ /\ WordAt(line, 1, "reboot")
     /\ \/ /\ KindAt(line, 2) \in {"Eol", "end"} /\ at = 2
           /\ command = Command("reboot", "RebootNow", 0, {}, {})
        \/ /\ WordAt(line, 2, "now") /\ at = 3
           /\ command = Command("reboot", "RebootNow", 0, {}, {})
        \/ /\ WordAt(line, 2, "delay") /\ at = 4
           /\ KindAt(line, 3) = "Duration" /\ ~(line[3].number > MaxCount)
           /\ command = Command("reboot", "RebootDelay",
                                line[3].number * line[3].unit, {}, {})
  \/ /\ WordAt(line, 1, "recovery")
     /\ \/ /\ KindAt(line, 2) \in {"Eol", "end"} /\ at = 2
           /\ command = Command("recovery", "RecoveryEnter", 0, {}, {})
        \/ /\ WordAt(line, 2, "enter") /\ at = 3
           /\ command = Command("recovery", "RecoveryEnter", 0, {}, {})
        \/ /\ WordAt(line, 2, "exit") /\ at = 3
           /\ command = Command("recovery", "RecoveryExit", 0, {}, {})
        \/ /\ WordAt(line, 2, "now") /\ at = 3
           /\ command = Command("recovery", "RecoveryNow", 0, {}, {})
  \/ /\ WordAt(line, 1, "fault") /\ WordAt(line, 2, "recover")
     /\ \/ /\ KindAt(line, 3) \in {"Eol", "end"} /\ at = 3
           /\ command = Command("fault", "", 0, {}, {})
        \/ /\ WordAt(line, 3, "retries") /\ at = 6
           /\ KindAt(line, 4) = "Equals"
           /\ KindAt(line, 5) = "Integer" /\ ~(line[5].number > MaxRetries)
           /\ command = Command("fault", "FaultRetries", 0,
                                {line[5].number}, {})

(* The first token that is wrong, where none of these is read.             *)
Stops(line, at) ==
  \/ at = 1 /\ \A name \in DOMAIN Catalog : ~WordAt(line, 1, name)
  \/ /\ at = 2 /\ KindAt(line, 2) \notin {"Eol", "end"}
     /\ \/ WordAt(line, 1, "help") /\ KindAt(line, 2) # "Ident"
        \/ /\ WordAt(line, 1, "reboot")
           /\ ~WordAt(line, 2, "now") /\ ~WordAt(line, 2, "delay")
        \/ /\ WordAt(line, 1, "recovery") /\ ~WordAt(line, 2, "enter")
           /\ ~WordAt(line, 2, "exit") /\ ~WordAt(line, 2, "now")
  \/ at = 2 /\ WordAt(line, 1, "fault") /\ ~WordAt(line, 2, "recover")
  \/ /\ at = 3 /\ WordAt(line, 1, "reboot") /\ WordAt(line, 2, "delay")
     /\ KindAt(line, 3) = "Duration" => line[3].number > MaxCount
  \/ /\ WordAt(line, 1, "fault") /\ WordAt(line, 2, "recover")
     /\ \/ /\ at = 3 /\ KindAt(line, 3) \notin {"Eol", "end"}
           /\ ~WordAt(line, 3, "retries")
        \/ /\ at = 4 /\ WordAt(line, 3, "retries")
           /\ KindAt(line, 4) # "Equals"
        \/ /\ at = 5 /\ WordAt(line, 3, "retries")
           /\ KindAt(line, 4) = "Equals"
           /\ KindAt(line, 5) = "Integer" => line[5].number > MaxRetries

LEMMA CommandRead ==
  ASSUME NEW line \in Seq(Tokens)
  PROVE  LET parsed == ParseCommand(line)
         IN \/ /\ parsed.error = "" /\ Reads(line, parsed.command, parsed.at)
            \/ /\ parsed.error \notin {"", "TooManyTokens"}
               /\ Stops(line, parsed.at)
<1> DEFINE parsed == ParseCommand(line)
           Right == parsed.error = "" /\ Reads(line, parsed.command, parsed.at)
           Wrong == /\ parsed.error \notin {"", "TooManyTokens"}
                    /\ Stops(line, parsed.at)
<1> SUFFICES Right \/ Wrong
  OBVIOUS
<1> HIDE DEF parsed
<1>1. ASSUME NEW c, NEW at, parsed = Success(c, at), Reads(line, c, at)
      PROVE  Right
  BY <1>1, SuccessIs
<1>2. ASSUME NEW at, parsed = Unexpected(line, at), Stops(line, at)
      PROVE  Wrong
  BY <1>2, UnexpectedIs
<1>3. ASSUME NEW error, error \notin {"", "TooManyTokens"}, NEW at,
             parsed = Failure(error, at), Stops(line, at)
      PROVE  Wrong
  BY <1>3, FailureIs
<1>4. \A at : parsed = Failure("InvalidDuration", at) /\ Stops(line, at)
                => Wrong
  <2>1. "InvalidDuration" \notin {"", "TooManyTokens"}
    OBVIOUS
  <2> HIDE DEF Wrong
  <2> QED BY <1>3, <2>1
<1>5. \A at : parsed = Failure("InvalidInteger", at) /\ Stops(line, at) => Wrong
  <2>1. "InvalidInteger" \notin {"", "TooManyTokens"}
    OBVIOUS
  <2> HIDE DEF Wrong
  <2> QED BY <1>3, <2>1
<1> HIDE DEF Right, Wrong
<1>6. CASE /\ WordAt(line, 1, "reboot")
           /\ parsed = ParseNode(RebootGrammar, Bare("reboot"), line, 2)
  BY <1>1, <1>2, <1>4, <1>6, RebootReads DEF Reads, Stops
<1>7. CASE /\ WordAt(line, 1, "recovery")
           /\ parsed = ParseNode(RecoveryGrammar, Bare("recovery"), line, 2)
  BY <1>1, <1>2, <1>7, RecoveryReads DEF Reads, Stops
<1>8. CASE /\ WordAt(line, 1, "fault")
           /\ parsed = ParseNode(FaultGrammar, Bare("fault"), line, 2)
  BY <1>1, <1>2, <1>5, <1>8, FaultReads DEF Reads, Stops
<1>9. CASE /\ WordAt(line, 1, "status")
           /\ parsed = ParseNode(End, Bare("status"), line, 2)
  BY <1>1, <1>9, StatusReads DEF Reads
<1>10. CASE /\ WordAt(line, 1, "help")
            /\ parsed = ParseNode(Topic, Bare("help"), line, 2)
  BY <1>1, <1>2, <1>10, HelpReads DEF Reads, Stops
<1>11. CASE /\ \A name \in DOMAIN Catalog : ~WordAt(line, 1, name)
            /\ parsed = Unexpected(line, 1)
  BY <1>2, <1>11 DEF Stops
<1> QED BY <1>6, <1>7, <1>8, <1>9, <1>10, <1>11, CommandReads DEF parsed

LEMMA ParsedReads ==
  ASSUME NEW line \in Seq(Tokens), Parse(line).error = ""
  PROVE  Reads(line, Parse(line).command, ParseCommand(line).at)
<1> DEFINE parsed == ParseCommand(line)
           unknown == FirstFrom(line, 1, {"Error"})
           extra == Trailing(line, parsed.at)
<1>1. \/ Parse(line) = Failure("TooManyTokens", MaxTokens + 1)
      \/ Parse(line) = Failure("InvalidToken", unknown)
      \/ Parse(line) = parsed
      \/ Parse(line) = Failure("UnexpectedToken", extra)
  BY DEF Parse
<1>2. \A at : Failure("TooManyTokens", at).error # ""
  BY DEF Failure
<1>3. \A at : Failure("InvalidToken", at).error # ""
  BY DEF Failure
<1>4. \A at : Failure("UnexpectedToken", at).error # ""
  BY DEF Failure
<1>5. Parse(line) = parsed
  <2> HIDE DEF parsed, unknown, extra
  <2> QED BY <1>1, <1>2, <1>3, <1>4
<1>6. Parse(line) = ParseCommand(line)
  BY <1>5
<1> HIDE DEF parsed, unknown, extra
<1> QED BY <1>6, CommandRead

-----------------------------------------------------------------------------
(* What the executor makes of a line.                                      *)

SequenceKinds ==
  {"NormalReboot", "RecoveryEntry", "RecoveryImmediate", "FaultRecovery"}

PlainAnswers == {"Syntax", "Status", "Unsupported", "Help", "Tab"}

(* If it asks for a sequence, then for one of the four, after a delay that *)
(* is a number and with a number of retries the orchestrator has a budget  *)
(* for; what needs no scheduler is about no kind.                          *)
Sensible(asked) ==
  /\ asked.answer = "" => /\ asked.kind \in SequenceKinds
                          /\ asked.delay \in Nat
                          /\ asked.retries \subseteq 1..FaultRecoveryMaxRetries
  /\ asked.answer # "" => /\ asked.kind = ""
                          /\ asked.answer \in PlainAnswers

LEMMA RequestSensible ==
  ASSUME NEW kind \in SequenceKinds, NEW delay \in Nat, NEW retries,
         retries \subseteq 1..FaultRecoveryMaxRetries
  PROVE  Sensible(Request(kind, delay, retries))
BY DEF Sensible, Request

LEMMA AnswerSensible ==
  ASSUME NEW answer \in PlainAnswers
  PROVE  Sensible(AnswerOnly(answer)) /\ AnswerOnly(answer).answer # ""
BY DEF Sensible, AnswerOnly, PlainAnswers

(* A command by its name, with what the executor reads of it.              *)
Sayable(command) ==
  \/ command.name \in {"status", "help", "fault"}
  \/ command.name = "reboot" /\ command.delay \in Nat
  \/ command.name = "recovery" /\ command.choice \in DOMAIN RecoveryKinds

LEMMA ReadsSayable ==
  ASSUME NEW line \in Seq(Tokens), NEW command, NEW at,
         Reads(line, command, at)
  PROVE  Sayable(command)
<1>1. DOMAIN RecoveryKinds = {"RecoveryEnter", "RecoveryExit", "RecoveryNow"}
  BY DEF RecoveryKinds
<1>2. \A n, c, d, r, t :
        /\ Command(n, c, d, r, t).name = n
        /\ Command(n, c, d, r, t).choice = c
        /\ Command(n, c, d, r, t).delay = d
  BY CommandFields
<1>3. ASSUME KindAt(line, 3) = "Duration"
      PROVE  line[3].number * line[3].unit \in Nat
  <2>1. line[3] \in Tokens
    BY <1>3, KindInLine
  <2>2. line[3].number \in Nat /\ line[3].unit \in Nat
    BY <2>1, TokenFacts
  <2> QED BY <2>2
<1>4. CASE command.name \in {"status", "help", "fault"}
  BY <1>4 DEF Sayable
<1>5. ASSUME NEW choice, NEW delay \in Nat,
             command = Command("reboot", choice, delay, {}, {})
      PROVE  Sayable(command)
  BY <1>2, <1>5 DEF Sayable
<1>6. ASSUME NEW choice \in DOMAIN RecoveryKinds,
             command = Command("recovery", choice, 0, {}, {})
      PROVE  Sayable(command)
  BY <1>2, <1>6 DEF Sayable
<1>7. \/ command.name \in {"status", "help", "fault"}
      \/ \E choice, delay :
           /\ command = Command("reboot", choice, delay, {}, {})
           /\ delay \in Nat
      \/ \E choice \in DOMAIN RecoveryKinds :
           command = Command("recovery", choice, 0, {}, {})
  <2>1. CASE \/ WordAt(line, 1, "status") \/ WordAt(line, 1, "help")
             \/ WordAt(line, 1, "fault")
    <3>1. ~WordAt(line, 1, "reboot") /\ ~WordAt(line, 1, "recovery")
      BY <2>1 DEF WordAt
    <3>2. \E n \in {"status", "help", "fault"} : \E c, r, t :
            command = Command(n, c, 0, r, t)
      BY <3>1, Zenon DEF Reads
    <3> QED BY <1>2, <3>2
  <2>2. CASE WordAt(line, 1, "reboot")
    <3>1. /\ ~WordAt(line, 1, "status") /\ ~WordAt(line, 1, "help")
          /\ ~WordAt(line, 1, "fault") /\ ~WordAt(line, 1, "recovery")
      BY <2>2 DEF WordAt
    <3> QED BY <1>3, <3>1 DEF Reads
  <2>3. CASE WordAt(line, 1, "recovery")
    <3>1. /\ ~WordAt(line, 1, "status") /\ ~WordAt(line, 1, "help")
          /\ ~WordAt(line, 1, "fault") /\ ~WordAt(line, 1, "reboot")
      BY <2>3 DEF WordAt
    <3> QED BY <1>1, <3>1 DEF Reads
  <2> QED BY <2>1, <2>2, <2>3 DEF Reads
<1> QED BY <1>4, <1>5, <1>6, <1>7

LEMMA DispatchSensible ==
  ASSUME NEW command, Sayable(command)
  PROVE  Sensible(Dispatch(command))
<1>0. /\ "NormalReboot" \in SequenceKinds /\ "FaultRecovery" \in SequenceKinds
      /\ \A choice \in DOMAIN RecoveryKinds :
           RecoveryKinds[choice] \in SequenceKinds
  BY DEF SequenceKinds, RecoveryKinds
<1>1. CASE command.name = "reboot"
  <2>1. Dispatch(command) = Request("NormalReboot", command.delay, {})
    BY <1>1 DEF Dispatch
  <2>2. command.delay \in Nat
    BY <1>1 DEF Sayable
  <2> QED BY <1>0, <2>1, <2>2, RequestSensible
<1>2. CASE command.name = "recovery"
  <2>1. Dispatch(command) = Request(RecoveryKinds[command.choice], 0, {})
    BY <1>2 DEF Dispatch
  <2>2. command.choice \in DOMAIN RecoveryKinds
    BY <1>2 DEF Sayable
  <2> QED BY <1>0, <2>1, <2>2, RequestSensible
<1>3. CASE command.name = "fault"
  <2>1. CASE Supported(command.retries)
    <3>1. Dispatch(command) = Request("FaultRecovery", 0, command.retries)
      BY <1>3, <2>1 DEF Dispatch
    <3> QED BY <1>0, <2>1, <3>1, RequestSensible DEF Supported
  <2>2. CASE ~Supported(command.retries)
    <3>1. Dispatch(command) = AnswerOnly("Unsupported")
      BY <1>3, <2>2 DEF Dispatch
    <3> QED BY <3>1, AnswerSensible DEF PlainAnswers
  <2> QED BY <2>1, <2>2
<1>4. CASE command.name = "status"
  <2>1. Dispatch(command) = AnswerOnly("Status")
    BY <1>4 DEF Dispatch
  <2> QED BY <2>1, AnswerSensible DEF PlainAnswers
<1>5. CASE command.name = "help"
  <2>1. Dispatch(command) = AnswerOnly("Unsupported")
    BY <1>5 DEF Dispatch
  <2> QED BY <2>1, AnswerSensible DEF PlainAnswers
<1> QED BY <1>1, <1>2, <1>3, <1>4, <1>5 DEF Sayable

LEMMA LineSensible ==
  ASSUME NEW line \in Seq(Tokens)
  PROVE  Sensible(Understood(line))
<1>1. CASE Parse(line).error # ""
  <2>1. Understood(line) = AnswerOnly("Syntax")
    BY <1>1 DEF Understood
  <2> QED BY <2>1, AnswerSensible DEF PlainAnswers
<1>2. CASE Parse(line).error = ""
  <2>1. Understood(line) = Dispatch(Parse(line).command)
    BY <1>2 DEF Understood
  <2>2. Sayable(Parse(line).command)
    BY <1>2, ParsedReads, ReadsSayable
  <2> QED BY <2>1, <2>2, DispatchSensible
<1> QED BY <1>1, <1>2

-----------------------------------------------------------------------------
(* The console in front of the orchestrator.                               *)

LEMMA HostSensible ==
  ASSUME NEW line \in HostLines
  PROVE  Sensible(Understood(line))
BY ConsoleAssumption, LineSensible

LEMMA OverrideOfLine ==
  ASSUME NEW retries, retries \subseteq 1..FaultRecoveryMaxRetries
  PROVE  RetryOverride(retries) \in Overrides
<1>1. CASE retries = {}
  BY <1>1, ConsoleAssumption DEF RetryOverride
<1>2. CASE retries # {}
  <2>1. RetryOverride(retries) \in retries
    BY <1>2 DEF RetryOverride
  <2> QED BY <2>1, ConsoleAssumption
<1> QED BY <1>1, <1>2

(* A line that is accepted is a command the orchestrator's channel takes;  *)
(* any other line leaves the orchestrator alone.                           *)
LEMMA LineSubmits ==
  HandleLine =>
    \/ \E k \in Kinds, d \in Delays, r \in Overrides : Submit(k, d, r)
    \/ UNCHANGED vars
<1> SUFFICES ASSUME HandleLine
             PROVE  \/ \E k \in Kinds, d \in Delays, r \in Overrides :
                         Submit(k, d, r)
                    \/ UNCHANGED vars
  OBVIOUS
<1>1. PICK line \in HostLines : Execute(Understood(line))
  BY DEF HandleLine
<1> DEFINE asked == Understood(line)
           d == Scale[asked.delay]
           r == RetryOverride(asked.retries)
<1>2. /\ pc \in Suspended /\ issued < MaxCommands
      /\ UNCHANGED <<taskVars, linkUp, rail>>
  BY DEF HandleLine
<1>3. CASE UNCHANGED <<rx, issued>>
  BY <1>2, <1>3 DEF vars
<1>4. CASE ~UNCHANGED <<rx, issued>>
  <2>1. asked.answer = "" /\ EnqueueSequence(asked.kind, d, r)
    BY <1>1, <1>4 DEF Execute
  <2>2. asked.kind \in Kinds /\ r \in Overrides /\ d \in Delays
    <3>1. Sensible(asked)
      BY HostSensible
    <3>2. /\ asked.kind \in {"NormalReboot", "RecoveryEntry",
                             "RecoveryImmediate", "FaultRecovery"}
          /\ asked.retries \subseteq 1..FaultRecoveryMaxRetries
      BY <2>1, <3>1 DEF Sensible, SequenceKinds
    <3> QED BY <3>2, OverrideOfLine, ConsoleAssumption
  <2> HIDE DEF asked, d, r
  <2>3. /\ Verdict(nextAllowed, asked.kind, Len(rx) < QueueDepth) = "ok"
        /\ issued' = issued + 1
        /\ rx' = Append(rx, [id |-> issued + 1, kind |-> asked.kind,
                             wait |-> d, retries |-> r])
    BY <1>4, <2>1 DEF EnqueueSequence
  <2>4. Len(rx) < QueueDepth
    BY <2>3 DEF Verdict
  <2>5. Submit(asked.kind, d, r)
    BY <1>2, <2>3, <2>4 DEF Submit
  <2> QED BY <2>2, <2>5
<1> QED BY <1>3, <1>4

(* What the console lets through the orchestrator takes: whatever lines    *)
(* the host sends, the composition is a behaviour of StrapOrchestrator.    *)
THEOREM ConsoleDrives == ControllerSpec => ImplementsOrchestrator
<1>1. ControllerInit => Init
  BY DEF ControllerInit
<1>2. [ControllerNext]_controllerVars => [Next]_vars
  <2> SUFFICES ASSUME [ControllerNext]_controllerVars PROVE [Next]_vars
    OBVIOUS
  <2>1. CASE HandleLine
    BY <2>1, LineSubmits DEF Next, Environment
  <2>2. CASE TimePasses
    BY <2>2 DEF TimePasses, Next, Environment
  <2>3. CASE Elsewhere
    BY <2>3 DEF Elsewhere, Next, Environment
  <2>4. CASE UNCHANGED controllerVars
    BY <2>4 DEF controllerVars
  <2> QED BY <2>1, <2>2, <2>3, <2>4 DEF ControllerNext
<1> QED BY <1>1, <1>2, PTL
        DEF ControllerSpec, ImplementsOrchestrator, Spec, controllerVars

-----------------------------------------------------------------------------
(* The cooldown of the console.                                            *)

CooldownInv ==
  /\ nextAllowed \in [Kinds -> Nat] /\ since \in [Kinds -> Nat]
  /\ CooldownTracksAcceptance

LEMMA CooldownNat == ASSUME NEW k \in Kinds PROVE Cooldown(k) \in Nat
BY ConsoleAssumption, StepTyped DEF Cooldown, Templates

LEMMA CooldownInit == ControllerInit => CooldownInv
BY CooldownNat
   DEF ControllerInit, NoCooldown, CooldownInv, CooldownTracksAcceptance

LEMMA CooldownRequest ==
  ASSUME CooldownInv, NEW kind, NEW delay, NEW retries,
         EnqueueSequence(kind, delay, retries)
  PROVE  CooldownInv'
<1> DEFINE verdict == Verdict(nextAllowed, kind, Len(rx) < QueueDepth)
<1>1. CASE verdict # "ok"
  BY <1>1 DEF EnqueueSequence, Reserved, CooldownInv,
              CooldownTracksAcceptance, Cooldown
<1>2. CASE verdict = "ok"
  <2>1. /\ nextAllowed' = Reserve(nextAllowed, kind, 0, Cooldown(kind))
        /\ since' = [since EXCEPT ![kind] = 0]
    BY <1>2 DEF EnqueueSequence, Reserved
  <2>2. ~(nextAllowed[kind] > 0)
    BY <1>2 DEF Verdict
  <2>3. ASSUME NEW k \in Kinds
        PROVE  /\ nextAllowed'[k] \in Nat /\ since'[k] \in Nat
               /\ nextAllowed'[k] + since'[k] = Cooldown(k)
    BY <2>1, <2>2, CooldownNat
       DEF CooldownInv, CooldownTracksAcceptance, Reserve
  <2>4. /\ nextAllowed' = [k \in Kinds |-> nextAllowed'[k]]
        /\ since' = [k \in Kinds |-> since'[k]]
    BY <2>1 DEF CooldownInv, Reserve
  <2>5. nextAllowed' \in [Kinds -> Nat] /\ since' \in [Kinds -> Nat]
    BY <2>3, <2>4
  <2> QED BY <2>3, <2>5
          DEF CooldownInv, CooldownTracksAcceptance, Cooldown
<1> QED BY <1>1, <1>2

LEMMA CooldownTime ==
  ASSUME CooldownInv, TimePasses
  PROVE  CooldownInv'
<1>1. /\ nextAllowed' = [k \in Kinds |-> IF nextAllowed[k] = 0 THEN 0
                                         ELSE nextAllowed[k] - 1]
      /\ since' = [k \in Kinds |-> IF since[k] < Cooldown(k) THEN since[k] + 1
                                   ELSE since[k]]
  BY DEF TimePasses, CooldownsTick, CooldownInv
<1>2. ASSUME NEW k \in Kinds
      PROVE  /\ nextAllowed'[k] \in Nat /\ since'[k] \in Nat
             /\ nextAllowed'[k] + since'[k] = Cooldown(k)
  BY <1>1, CooldownNat DEF CooldownInv, CooldownTracksAcceptance
<1>3. nextAllowed' \in [Kinds -> Nat] /\ since' \in [Kinds -> Nat]
  BY <1>1, <1>2
<1> QED BY <1>2, <1>3 DEF CooldownInv, CooldownTracksAcceptance, Cooldown

LEMMA CooldownStep ==
  CooldownInv /\ [ControllerNext]_controllerVars => CooldownInv'
<1> SUFFICES ASSUME CooldownInv, [ControllerNext]_controllerVars
             PROVE  CooldownInv'
  OBVIOUS
<1>1. ASSUME UNCHANGED <<nextAllowed, since>> PROVE CooldownInv'
  BY <1>1 DEF CooldownInv, CooldownTracksAcceptance, Cooldown
<1>2. CASE HandleLine
  <2>1. PICK line \in HostLines : Execute(Understood(line))
    BY <1>2 DEF HandleLine
  <2>2. \/ UNCHANGED <<nextAllowed, since>>
        \/ \E kind, delay, retries : EnqueueSequence(kind, delay, retries)
    BY <2>1 DEF Execute
  <2> QED BY <1>1, <2>2, CooldownRequest
<1>3. CASE TimePasses
  BY <1>3, CooldownTime
<1>4. CASE Elsewhere \/ UNCHANGED controllerVars
  BY <1>1, <1>4 DEF Elsewhere, controllerVars, consoleVars
<1> QED BY <1>2, <1>3, <1>4 DEF ControllerNext

(* The cooldown the host is told of is the one owed to the last command    *)
(* accepted: no request that was refused, for whatever reason and however  *)
(* often, pushes the deadline of its kind out.                             *)
THEOREM RefusalsLeaveNoTrace == ControllerSpec => []CooldownTracksAcceptance
<1>1. CooldownInv => CooldownTracksAcceptance
  BY DEF CooldownInv
<1> QED BY <1>1, CooldownInit, CooldownStep, PTL DEF ControllerSpec

-----------------------------------------------------------------------------
(* The sequences of the emulator's registry.                               *)

LEMMA KindsAre == SequenceKind = SequenceKinds
BY DEF SequenceKind, Sequence!StrapSequenceKind, SequenceKinds

\* A moment of the clock lies in one millisecond, and later ones in none
\* before it.
LEMMA MillisIs ==
  ASSUME NEW at \in Nat
  PROVE  /\ Millis(at) \in Nat
         /\ TicksPerMilli * Millis(at) <= at
         /\ at < TicksPerMilli * (Millis(at) + 1)
<1>1. PICK b \in Nat \ {0} : b = TicksPerMilli
  BY EmulatorAssumption
<1>2. /\ at \div b \in Nat
      /\ b * (at \div b) <= at /\ at < b * (at \div b) + b
  OBVIOUS
<1>3. b * ((at \div b) + 1) = b * (at \div b) + b
  BY <1>2
<1> QED BY <1>1, <1>2, <1>3 DEF Millis

LEMMA MillisOrder ==
  ASSUME NEW at \in Nat, NEW later \in Nat, at <= later
  PROVE  Millis(at) <= Millis(later)
<1>1. PICK b \in Nat \ {0} : b = TicksPerMilli
  BY EmulatorAssumption
<1>2. PICK m \in Nat, k \in Nat : m = Millis(at) /\ k = Millis(later)
  BY MillisIs
<1>3. b * m <= at /\ later < b * (k + 1)
  BY <1>1, <1>2, MillisIs
<1>4. ASSUME k < m PROVE FALSE
  <2>0. m - (k + 1) \in Nat /\ m = (k + 1) + (m - (k + 1))
    BY <1>2, <1>4
  <2>1. PICK d \in Nat : m = (k + 1) + d
    BY <2>0
  <2>2. b * m = b * (k + 1) + b * d /\ b * d \in Nat /\ b * (k + 1) \in Nat
    BY <2>1
  <2> QED BY <1>3, <2>2
<1> QED BY <1>2, <1>4

LEMMA TicksAre ==
  ASSUME NEW ms \in Nat, NEW more \in Nat
  PROVE  /\ Ticks(ms) \in Nat
         /\ Ticks(ms + more) = Ticks(ms) + Ticks(more)
<1>1. PICK b \in Nat : b = TicksPerMilli
  BY EmulatorAssumption
<1>2. ms * b \in Nat /\ (ms + more) * b = ms * b + more * b
  OBVIOUS
<1> QED BY <1>1, <1>2 DEF Ticks

\* In milliseconds a template is what it says.
LEMMA ScaledIs ==
  ASSUME NEW line, NEW action, NEW hold \in Sequence!Durations, NEW completion,
         NEW step, step = Sequence!Step(line, action, hold, completion)
  PROVE  [step EXCEPT !.hold = [ms \in Sequence!Durations |-> ms][@]] = step
BY DEF Sequence!Step

StepsOf ==
  [line : Sequence!StrapId, action : {"AssertLow", "ReleaseHigh"},
   hold : Sequence!Durations,
    completion : {"AfterDuration", "OnBridgeActivity"}]

LEMMA ScaledStepsAre ==
  ASSUME NEW steps \in Seq(StepsOf)
  PROVE  Sequence!ScaledSteps(steps, [ms \in Sequence!Durations |-> ms]) = steps
<1> DEFINE scale == [ms \in Sequence!Durations |-> ms]
<1>1. ASSUME NEW i \in DOMAIN steps
      PROVE  [steps[i] EXCEPT !.hold = scale[@]] = steps[i]
  <2>1. steps[i] \in StepsOf
    OBVIOUS
  <2>2. /\ steps[i].hold \in Sequence!Durations
        /\ steps[i] = Sequence!Step(steps[i].line, steps[i].action,
                                    steps[i].hold, steps[i].completion)
    BY <2>1 DEF StepsOf, Sequence!Step
  <2> QED BY <2>2, ScaledIs
<1> HIDE DEF scale
<1>2. Sequence!ScaledSteps(steps, scale) = [i \in DOMAIN steps |-> steps[i]]
  BY <1>1 DEF Sequence!ScaledSteps
<1> QED BY <1>2 DEF scale

Timed(line, action, hold) == Sequence!Step(line, action, hold, "AfterDuration")

LEMMA StepFields ==
  ASSUME NEW l, NEW a, NEW h, NEW c
  PROVE  /\ Sequence!Step(l, a, h, c).line = l
         /\ Sequence!Step(l, a, h, c).action = a
         /\ Sequence!Step(l, a, h, c).hold = h
BY DEF Sequence!Step

LEMMA TemplateSteps ==
  /\ Sequence!NormalRebootSteps =
       << Timed("Pwr", "AssertLow", 200), Timed("Pwr", "ReleaseHigh", 1000),
          Timed("Reset", "AssertLow", 20), Timed("Reset", "ReleaseHigh", 0) >>
  /\ Sequence!RecoveryEntrySteps =
       << Timed("Rec", "AssertLow", 100), Timed("Reset", "AssertLow", 20),
          Timed("Reset", "ReleaseHigh", 0), Timed("Rec", "AssertLow", 500),
          Timed("Rec", "ReleaseHigh", 0) >>
  /\ Sequence!RecoveryImmediateSteps =
       << Timed("Rec", "AssertLow", 100), Timed("Reset", "AssertLow", 20),
          Timed("Reset", "ReleaseHigh", 0), Timed("Rec", "AssertLow", 500),
          Sequence!Step("Rec", "AssertLow", 0, "OnBridgeActivity"),
          Timed("Rec", "ReleaseHigh", 0) >>
  /\ Sequence!FaultRecoverySteps =
       << Timed("Apo", "AssertLow", 250), Timed("Apo", "ReleaseHigh", 0),
          Timed("Pwr", "AssertLow", 200), Timed("Pwr", "ReleaseHigh", 1000),
          Timed("Reset", "AssertLow", 20), Timed("Reset", "ReleaseHigh", 0) >>
<1> USE DEF Sequence!AssertLow, Sequence!ReleaseHigh, Timed
<1>2. Sequence!NormalRebootSteps =
       << Timed("Pwr", "AssertLow", 200), Timed("Pwr", "ReleaseHigh", 1000),
          Timed("Reset", "AssertLow", 20), Timed("Reset", "ReleaseHigh", 0) >>
  BY DEF Sequence!NormalRebootSteps
<1>3. Sequence!RecoveryWindow =
       << Timed("Rec", "AssertLow", 100), Timed("Reset", "AssertLow", 20),
          Timed("Reset", "ReleaseHigh", 0), Timed("Rec", "AssertLow", 500) >>
  BY DEF Sequence!RecoveryWindow
<1>4. /\ Sequence!RecoveryEntrySteps
           = Append(Sequence!RecoveryWindow, Timed("Rec", "ReleaseHigh", 0))
      /\ Sequence!RecoveryImmediateSteps
           = Sequence!RecoveryWindow
               \o << Sequence!Step("Rec", "AssertLow", 0, "OnBridgeActivity"),
                     Timed("Rec", "ReleaseHigh", 0) >>
      /\ Sequence!FaultRecoverySteps
           = << Timed("Apo", "AssertLow", 250),
                Timed("Apo", "ReleaseHigh", 0) >>
               \o Sequence!NormalRebootSteps
  BY DEF Sequence!RecoveryEntrySteps, Sequence!RecoveryImmediateSteps,
         Sequence!FaultRecoverySteps
<1> HIDE DEF Timed
<1> QED BY <1>2, <1>3, <1>4, Appended, JoinedFour, JoinedTwo

LEMMA TemplatesTyped ==
  /\ Sequence!NormalRebootSteps \in Seq(StepsOf)
  /\ Sequence!RecoveryEntrySteps \in Seq(StepsOf)
  /\ Sequence!RecoveryImmediateSteps \in Seq(StepsOf)
  /\ Sequence!FaultRecoverySteps \in Seq(StepsOf)
<1>1. ASSUME NEW line \in Sequence!StrapId,
             NEW action \in {"AssertLow", "ReleaseHigh"},
             NEW hold \in Sequence!Durations,
             NEW completion \in {"AfterDuration", "OnBridgeActivity"}
      PROVE  Sequence!Step(line, action, hold, completion) \in StepsOf
  BY DEF Sequence!Step, StepsOf
<1>2. ASSUME NEW line \in Sequence!StrapId,
             NEW action \in {"AssertLow", "ReleaseHigh"},
             NEW hold \in Sequence!Durations
      PROVE  Timed(line, action, hold) \in StepsOf
  BY <1>1 DEF Timed
<1>3. /\ {"Reset", "Rec", "Pwr", "Apo"} = Sequence!StrapId
      /\ {0, 20, 100, 200, 250, 500, 1000} = Sequence!Durations
  BY DEF Sequence!StrapId, Sequence!Durations
<1>4. /\ Timed("Pwr", "AssertLow", 200) \in StepsOf
      /\ Timed("Pwr", "ReleaseHigh", 1000) \in StepsOf
      /\ Timed("Reset", "AssertLow", 20) \in StepsOf
      /\ Timed("Reset", "ReleaseHigh", 0) \in StepsOf
      /\ Timed("Rec", "AssertLow", 100) \in StepsOf
      /\ Timed("Rec", "AssertLow", 500) \in StepsOf
      /\ Timed("Rec", "ReleaseHigh", 0) \in StepsOf
      /\ Timed("Apo", "AssertLow", 250) \in StepsOf
      /\ Timed("Apo", "ReleaseHigh", 0) \in StepsOf
  BY <1>2, <1>3
<1>5. Sequence!Step("Rec", "AssertLow", 0, "OnBridgeActivity") \in StepsOf
  BY <1>1, <1>3
<1> HIDE DEF StepsOf
<1> QED BY <1>4, <1>5, TemplateSteps

LEMMA RegistryIs ==
  /\ Registry["NormalReboot"].phases = Sequence!NormalRebootSteps
  /\ Registry["RecoveryEntry"].phases = Sequence!RecoveryEntrySteps
  /\ Registry["RecoveryImmediate"].phases = Sequence!RecoveryImmediateSteps
  /\ Registry["FaultRecovery"].phases = Sequence!FaultRecoverySteps
  /\ \A kind \in SequenceKinds : Spacing(kind) = Ticks(1000)
<1> DEFINE scale == [ms \in Sequence!Durations |-> ms]
<1>0. scale[1000] = 1000
  BY DEF Sequence!Durations
<1>1. /\ Registry["NormalReboot"]
           = Sequence!SequenceTemplate(Sequence!NormalRebootSteps, "none",
                                       scale)
      /\ Registry["RecoveryEntry"]
           = Sequence!SequenceTemplate(Sequence!RecoveryEntrySteps, "none",
                                       scale)
      /\ Registry["RecoveryImmediate"]
           = Sequence!SequenceTemplate(Sequence!RecoveryImmediateSteps, "none",
                                       scale)
      /\ Registry["FaultRecovery"]
           = Sequence!SequenceTemplate(Sequence!FaultRecoverySteps,
                                       Sequence!FaultRecoveryMaxRetries, scale)
  BY DEF Registry, Sequence!DefaultTemplates
<1>2. ASSUME NEW steps \in Seq(StepsOf), NEW retries
      PROVE  /\ Sequence!SequenceTemplate(steps, retries, scale).phases = steps
             /\ Sequence!SequenceTemplate(steps, retries, scale).cooldown = 1000
  <2>1. /\ Sequence!SequenceTemplate(steps, retries, scale).phases
             = Sequence!ScaledSteps(steps, scale)
        /\ Sequence!SequenceTemplate(steps, retries, scale).cooldown
             = scale[1000]
    BY DEF Sequence!SequenceTemplate
  <2> QED BY <1>0, <2>1, ScaledStepsAre
<1> HIDE DEF scale
<1>3. \A none :
        /\ Sequence!SequenceTemplate(Sequence!NormalRebootSteps, none,
                                     scale).phases
             = Sequence!NormalRebootSteps
        /\ Sequence!SequenceTemplate(Sequence!RecoveryEntrySteps, none,
                                     scale).phases
             = Sequence!RecoveryEntrySteps
        /\ Sequence!SequenceTemplate(Sequence!RecoveryImmediateSteps, none,
                                     scale).phases
             = Sequence!RecoveryImmediateSteps
        /\ Sequence!SequenceTemplate(Sequence!FaultRecoverySteps, none,
                                     scale).phases
             = Sequence!FaultRecoverySteps
  BY <1>2, TemplatesTyped
<1>4. \A none :
        /\ Sequence!SequenceTemplate(Sequence!NormalRebootSteps, none,
                                     scale).cooldown
             = 1000
        /\ Sequence!SequenceTemplate(Sequence!RecoveryEntrySteps, none,
                                     scale).cooldown
             = 1000
        /\ Sequence!SequenceTemplate(Sequence!RecoveryImmediateSteps, none,
                                     scale).cooldown = 1000
        /\ Sequence!SequenceTemplate(Sequence!FaultRecoverySteps, none,
                                     scale).cooldown
             = 1000
  BY <1>2, TemplatesTyped
<1>5. /\ Registry["NormalReboot"].cooldown = 1000
      /\ Registry["RecoveryEntry"].cooldown = 1000
      /\ Registry["RecoveryImmediate"].cooldown = 1000
      /\ Registry["FaultRecovery"].cooldown = 1000
  BY <1>1, <1>4
<1> QED BY <1>1, <1>3, <1>5 DEF Spacing, SequenceKinds

\* The total of the holds, step by step.
LEMMA TotalIs ==
  ASSUME NEW steps \in Seq(StepsOf)
  PROVE  LET total[n \in 0..Len(steps)] ==
               IF n = 0 THEN 0 ELSE total[n - 1] + steps[n].hold
         IN /\ total[0] = 0
            /\ \A n \in 1..Len(steps) : total[n] = total[n - 1] + steps[n].hold
<1> DEFINE N == Len(steps)
           Adds(m, g) == /\ g \in [0..m -> Nat] /\ g[0] = 0
                         /\ \A n \in 1..m : g[n] = g[n - 1] + steps[n].hold
           Can == {m \in Nat : m <= N => \E g : Adds(m, g)}
<1>0. N \in Nat /\ \A n \in 1..N : steps[n].hold \in Nat
  <2>1. \A n \in 1..N : steps[n] \in StepsOf
    OBVIOUS
  <2> QED BY <2>1 DEF StepsOf, Sequence!Durations
<1>1. 0 \in Can
  <2> DEFINE g == [n \in 0..0 |-> 0]
  <2>1. Adds(0, g)
    OBVIOUS
  <2> QED BY <2>1
<1>2. ASSUME NEW m \in Nat, m \in Can PROVE m + 1 \in Can
  <2>1. SUFFICES ASSUME m + 1 <= N PROVE \E g : Adds(m + 1, g)
    <3> HIDE DEF Adds
    <3> QED OBVIOUS
  <2>2. PICK g : Adds(m, g)
    <3> HIDE DEF Adds
    <3>1. m <= N
      BY <1>0, <2>1
    <3> QED BY <1>2, <3>1
  <2> DEFINE h == [n \in 0..(m + 1) |->
                     IF n <= m THEN g[n] ELSE g[m] + steps[m + 1].hold]
  <2>3. Adds(m + 1, h)
    <3>1. h \in [0..(m + 1) -> Nat]
      <4>1. m + 1 \in 1..N /\ steps[m + 1].hold \in Nat /\ g[m] \in Nat
        BY <1>0, <2>1, <2>2
      <4> QED BY <2>2, <4>1
    <3>2. h[0] = 0
      BY <2>2
    <3>3. ASSUME NEW n \in 1..(m + 1)
          PROVE  h[n] = h[n - 1] + steps[n].hold
      <4>1. CASE n <= m
        BY <2>2, <4>1
      <4>2. CASE n = m + 1
        BY <2>2, <4>2
      <4> QED BY <4>1, <4>2
    <3> QED BY <3>1, <3>2, <3>3
  <2> QED BY <2>3
<1>3. PICK g : Adds(N, g)
  <2> HIDE DEF Adds
  <2>1. N \in Can
    <3> HIDE DEF Can
    <3> QED BY <1>0, <1>1, <1>2, Induction
  <2> QED BY <1>0, <2>1
<1> DEFINE Eq(f) == f = [n \in 0..N |-> IF n = 0 THEN 0
                                        ELSE f[n - 1] + steps[n].hold]
           total == CHOOSE f : Eq(f)
<1>4. Eq(g)
  BY <1>0, <1>3
<1>5. Eq(total)
  <2> HIDE DEF Eq
  <2> QED BY <1>4
<1> HIDE DEF total
<1>6. /\ total[0] = 0
      /\ \A n \in 1..N : total[n] = total[n - 1] + steps[n].hold
  BY <1>0, <1>5
<1> QED BY <1>6 DEF total

LEMMA RunDurationIs ==
  ASSUME NEW kind, Registry[kind].phases \in Seq(StepsOf)
  PROVE  \E total :
           /\ total[0] = 0
           /\ \A n \in 1..Len(Registry[kind].phases) :
                total[n] = total[n - 1] + Registry[kind].phases[n].hold
           /\ RunDuration(kind) = total[Len(Registry[kind].phases)]
BY TotalIs DEF RunDuration

LEMMA RunLasts ==
  ASSUME NEW kind \in SequenceKinds
  PROVE  RunDuration(kind) = Lasts[kind] /\ Lasts[kind] \in Nat
<1>0. \A n, m : Timed(n, m, 0).hold = 0 /\ Timed(n, m, 20).hold = 20
        /\ Timed(n, m, 100).hold = 100 /\ Timed(n, m, 200).hold = 200
        /\ Timed(n, m, 250).hold = 250 /\ Timed(n, m, 500).hold = 500
        /\ Timed(n, m, 1000).hold = 1000
  BY StepFields DEF Timed
<1>1. Sequence!Step("Rec", "AssertLow", 0, "OnBridgeActivity").hold = 0
  BY StepFields
<1>2. CASE kind = "NormalReboot"
  <2> DEFINE steps == Registry[kind].phases
  <2>1. steps = Sequence!NormalRebootSteps
    BY <1>2, RegistryIs
  <2>2. /\ Len(steps) = 4
        /\ steps[1].hold = 200 /\ steps[2].hold = 1000
        /\ steps[3].hold = 20 /\ steps[4].hold = 0
    BY <1>0, <2>1, TemplateSteps
  <2> HIDE DEF steps
  <2>4. PICK total : /\ total[0] = 0
                     /\ \A n \in 1..Len(steps) :
                          total[n] = total[n - 1] + steps[n].hold
                     /\ RunDuration(kind) = total[Len(steps)]
    BY <2>1, RunDurationIs, TemplatesTyped DEF steps
  <2>5. /\ total[1] = total[0] + 200
        /\ total[2] = total[1] + 1000
        /\ total[3] = total[2] + 20
        /\ total[4] = total[3] + 0
    BY <2>2, <2>4
  <2>6. total[4] = 1220
    BY <2>4, <2>5
  <2>7. RunDuration(kind) = 1220
    BY <2>2, <2>4, <2>6
  <2> QED BY <1>2, <2>7 DEF Lasts
<1>3. CASE kind = "RecoveryEntry"
  <2> DEFINE steps == Registry[kind].phases
  <2>1. steps = Sequence!RecoveryEntrySteps
    BY <1>3, RegistryIs
  <2>2. /\ Len(steps) = 5
        /\ steps[1].hold = 100 /\ steps[2].hold = 20
        /\ steps[3].hold = 0 /\ steps[4].hold = 500
        /\ steps[5].hold = 0
    BY <1>0, <2>1, TemplateSteps
  <2> HIDE DEF steps
  <2>4. PICK total : /\ total[0] = 0
                     /\ \A n \in 1..Len(steps) :
                          total[n] = total[n - 1] + steps[n].hold
                     /\ RunDuration(kind) = total[Len(steps)]
    BY <2>1, RunDurationIs, TemplatesTyped DEF steps
  <2>5. /\ total[1] = total[0] + 100
        /\ total[2] = total[1] + 20
        /\ total[3] = total[2] + 0
        /\ total[4] = total[3] + 500
        /\ total[5] = total[4] + 0
    BY <2>2, <2>4
  <2>6. total[5] = 620
    BY <2>4, <2>5
  <2>7. RunDuration(kind) = 620
    BY <2>2, <2>4, <2>6
  <2> QED BY <1>3, <2>7 DEF Lasts
<1>4. CASE kind = "RecoveryImmediate"
  <2> DEFINE steps == Registry[kind].phases
  <2>1. steps = Sequence!RecoveryImmediateSteps
    BY <1>4, RegistryIs
  <2>2. /\ Len(steps) = 6
        /\ steps[1].hold = 100 /\ steps[2].hold = 20
        /\ steps[3].hold = 0 /\ steps[4].hold = 500
        /\ steps[5].hold = 0 /\ steps[6].hold = 0
    BY <1>0, <1>1, <2>1, TemplateSteps
  <2> HIDE DEF steps
  <2>4. PICK total : /\ total[0] = 0
                     /\ \A n \in 1..Len(steps) :
                          total[n] = total[n - 1] + steps[n].hold
                     /\ RunDuration(kind) = total[Len(steps)]
    BY <2>1, RunDurationIs, TemplatesTyped DEF steps
  <2>5. /\ total[1] = total[0] + 100
        /\ total[2] = total[1] + 20
        /\ total[3] = total[2] + 0
        /\ total[4] = total[3] + 500
        /\ total[5] = total[4] + 0
        /\ total[6] = total[5] + 0
    BY <2>2, <2>4
  <2>6. total[6] = 620
    BY <2>4, <2>5
  <2>7. RunDuration(kind) = 620
    BY <2>2, <2>4, <2>6
  <2> QED BY <1>4, <2>7 DEF Lasts
<1>5. CASE kind = "FaultRecovery"
  <2> DEFINE steps == Registry[kind].phases
  <2>1. steps = Sequence!FaultRecoverySteps
    BY <1>5, RegistryIs
  <2>2. /\ Len(steps) = 6
        /\ steps[1].hold = 250 /\ steps[2].hold = 0
        /\ steps[3].hold = 200 /\ steps[4].hold = 1000
        /\ steps[5].hold = 20 /\ steps[6].hold = 0
    BY <1>0, <2>1, TemplateSteps
  <2> HIDE DEF steps
  <2>4. PICK total : /\ total[0] = 0
                     /\ \A n \in 1..Len(steps) :
                          total[n] = total[n - 1] + steps[n].hold
                     /\ RunDuration(kind) = total[Len(steps)]
    BY <2>1, RunDurationIs, TemplatesTyped DEF steps
  <2>5. /\ total[1] = total[0] + 250
        /\ total[2] = total[1] + 0
        /\ total[3] = total[2] + 200
        /\ total[4] = total[3] + 1000
        /\ total[5] = total[4] + 20
        /\ total[6] = total[5] + 0
    BY <2>2, <2>4
  <2>6. total[6] = 1470
    BY <2>4, <2>5
  <2>7. RunDuration(kind) = 1470
    BY <2>2, <2>4, <2>6
  <2> QED BY <1>5, <2>7 DEF Lasts
<1> QED BY <1>2, <1>3, <1>4, <1>5 DEF SequenceKinds

\* Every line is released after it was driven low.
Releases(steps) ==
  /\ Len(steps) \in Nat /\ DOMAIN steps = 1..Len(steps)
  /\ \A n \in 1..Len(steps) :
       \/ steps[n].action # "AssertLow"
       \/ \E m \in 1..Len(steps) : m > n /\ steps[m].line = steps[n].line

LEMMA LeavesNoneLow ==
  ASSUME NEW steps, Releases(steps), asserted = {}
  PROVE  LeftLow(steps) = {}
<1> SUFFICES ASSUME NEW line \in LeftLow(steps) PROVE FALSE
  OBVIOUS
<1> DEFINE on == {n \in DOMAIN steps : steps[n].line = line}
           last == CHOOSE n \in on : \A m \in on : m <= n
<1>1. on # {} /\ steps[last].action = "AssertLow"
  <2>1. IF on = {} THEN line \in asserted
        ELSE steps[last].action = "AssertLow"
    BY DEF LeftLow
  <2> QED BY <2>1
<1>2. \E n \in on : \A m \in on : m <= n
  <2>1. /\ Len(steps) \in Nat
        /\ on \in SUBSET Nat /\ \A n \in on : n <= Len(steps)
    BY DEF Releases
  <2> HIDE DEF on
  <2> QED BY <1>1, <2>1, GreatestNumber
<1>3. last \in on /\ \A m \in on : m <= last
  <2> HIDE DEF on
  <2> QED BY <1>2
<1>4. last \in 1..Len(steps) /\ steps[last].line = line
  BY <1>3 DEF Releases
<1>5. PICK m \in 1..Len(steps) : m > last /\ steps[m].line = line
  <2> HIDE DEF last, on
  <2> QED BY <1>1, <1>4 DEF Releases
<1>6. m \in on
  BY <1>5 DEF Releases
<1> HIDE DEF last, on
<1> QED BY <1>3, <1>4, <1>5, <1>6 DEF Releases

\* Every template leaves the lines it drives released.
LEMMA EndsReleased ==
  ASSUME NEW kind \in SequenceKinds, asserted = {}
  PROVE  LeftLow(Registry[kind].phases) = {}
<1>1. \A l, a, h : Timed(l, a, h).line = l /\ Timed(l, a, h).action = a
  BY StepFields DEF Timed
<1>2. /\ Sequence!Step("Rec", "AssertLow", 0, "OnBridgeActivity").line = "Rec"
  BY StepFields
<1>3. CASE kind = "NormalReboot"
  <2> DEFINE steps == Registry[kind].phases
  <2>1. steps = Sequence!NormalRebootSteps
    BY <1>3, RegistryIs
  <2>2. /\ Len(steps) = 4 /\ DOMAIN steps = 1..Len(steps)
        /\ steps[1].line = "Pwr"
        /\ steps[2].line = "Pwr" /\ steps[2].action = "ReleaseHigh"
        /\ steps[3].line = "Reset"
        /\ steps[4].line = "Reset" /\ steps[4].action = "ReleaseHigh"
    BY <1>1, <1>2, <2>1, TemplateSteps
  <2>3. \A n \in 1..Len(steps) :
          \/ steps[n].action # "AssertLow"
          \/ \E m \in 1..Len(steps) : m > n /\ steps[m].line = steps[n].line
    <3> HIDE DEF steps
    <3> QED BY <2>2
  <2> HIDE DEF steps
  <2>4. LeftLow(steps) = {}
    <3>1. Releases(steps)
      BY <2>2, <2>3 DEF Releases
    <3> QED BY <3>1, LeavesNoneLow
  <2> QED BY <2>4 DEF steps
<1>4. CASE kind = "RecoveryEntry"
  <2> DEFINE steps == Registry[kind].phases
  <2>1. steps = Sequence!RecoveryEntrySteps
    BY <1>4, RegistryIs
  <2>2. /\ Len(steps) = 5 /\ DOMAIN steps = 1..Len(steps)
        /\ steps[1].line = "Rec"
        /\ steps[2].line = "Reset"
        /\ steps[3].line = "Reset" /\ steps[3].action = "ReleaseHigh"
        /\ steps[4].line = "Rec"
        /\ steps[5].line = "Rec" /\ steps[5].action = "ReleaseHigh"
    BY <1>1, <1>2, <2>1, TemplateSteps
  <2>3. \A n \in 1..Len(steps) :
          \/ steps[n].action # "AssertLow"
          \/ \E m \in 1..Len(steps) : m > n /\ steps[m].line = steps[n].line
    <3> HIDE DEF steps
    <3> QED BY <2>2
  <2> HIDE DEF steps
  <2>4. LeftLow(steps) = {}
    <3>1. Releases(steps)
      BY <2>2, <2>3 DEF Releases
    <3> QED BY <3>1, LeavesNoneLow
  <2> QED BY <2>4 DEF steps
<1>5. CASE kind = "RecoveryImmediate"
  <2> DEFINE steps == Registry[kind].phases
  <2>1. steps = Sequence!RecoveryImmediateSteps
    BY <1>5, RegistryIs
  <2>2. /\ Len(steps) = 6 /\ DOMAIN steps = 1..Len(steps)
        /\ steps[1].line = "Rec"
        /\ steps[2].line = "Reset"
        /\ steps[3].line = "Reset" /\ steps[3].action = "ReleaseHigh"
        /\ steps[4].line = "Rec"
        /\ steps[5].line = "Rec"
        /\ steps[6].line = "Rec" /\ steps[6].action = "ReleaseHigh"
    BY <1>1, <1>2, <2>1, TemplateSteps
  <2>3. \A n \in 1..Len(steps) :
          \/ steps[n].action # "AssertLow"
          \/ \E m \in 1..Len(steps) : m > n /\ steps[m].line = steps[n].line
    <3> HIDE DEF steps
    <3> QED BY <2>2
  <2> HIDE DEF steps
  <2>4. LeftLow(steps) = {}
    <3>1. Releases(steps)
      BY <2>2, <2>3 DEF Releases
    <3> QED BY <3>1, LeavesNoneLow
  <2> QED BY <2>4 DEF steps
<1>6. CASE kind = "FaultRecovery"
  <2> DEFINE steps == Registry[kind].phases
  <2>1. steps = Sequence!FaultRecoverySteps
    BY <1>6, RegistryIs
  <2>2. /\ Len(steps) = 6 /\ DOMAIN steps = 1..Len(steps)
        /\ steps[1].line = "Apo"
        /\ steps[2].line = "Apo" /\ steps[2].action = "ReleaseHigh"
        /\ steps[3].line = "Pwr"
        /\ steps[4].line = "Pwr" /\ steps[4].action = "ReleaseHigh"
        /\ steps[5].line = "Reset"
        /\ steps[6].line = "Reset" /\ steps[6].action = "ReleaseHigh"
    BY <1>1, <1>2, <2>1, TemplateSteps
  <2>3. \A n \in 1..Len(steps) :
          \/ steps[n].action # "AssertLow"
          \/ \E m \in 1..Len(steps) : m > n /\ steps[m].line = steps[n].line
    <3> HIDE DEF steps
    <3> QED BY <2>2
  <2> HIDE DEF steps
  <2>4. LeftLow(steps) = {}
    <3>1. Releases(steps)
      BY <2>2, <2>3 DEF Releases
    <3> QED BY <3>1, LeavesNoneLow
  <2> QED BY <2>4 DEF steps
<1> QED BY <1>3, <1>4, <1>5, <1>6 DEF SequenceKinds

-----------------------------------------------------------------------------
(* The session of the emulator.  A history that only grows.                *)

Longer(s, t) ==
  /\ Len(s) \in Nat /\ Len(t) \in Nat /\ Len(s) <= Len(t)
  /\ \A i \in 1..Len(s) : t[i] = s[i]

IsList(s) == \E U : s \in Seq(U)

\* Two entries more.
Twice(s, a, b, t) ==
  /\ IsList(t) /\ Longer(s, t) /\ Len(t) = Len(s) + 2
  /\ t[Len(s) + 1] = a /\ t[Len(s) + 2] = b

LEMMA OneMore ==
  ASSUME NEW U, NEW s \in Seq(U), NEW a
  PROVE  /\ Append(s, a) \in Seq(U \cup {a})
         /\ Longer(s, Append(s, a)) /\ Len(Append(s, a)) = Len(s) + 1
         /\ Append(s, a)[Len(s) + 1] = a
<1>1. s \in Seq(U \cup {a}) /\ a \in U \cup {a} /\ Len(s) \in Nat
  OBVIOUS
<1> QED BY <1>1, AppendProperties DEF Longer

LEMMA TwoMore ==
  ASSUME NEW U, NEW s \in Seq(U), NEW a, NEW b, NEW t, t = s \o <<a, b>>
  PROVE  Twice(s, a, b, t)
<1> DEFINE V == U \cup {a, b}
           two == <<a, b>>
<1>1. s \in Seq(V) /\ two \in Seq(V) /\ Len(two) = 2
      /\ two[1] = a /\ two[2] = b /\ t = s \o two
  OBVIOUS
<1>2. Len(s) \in Nat
  OBVIOUS
<1> HIDE DEF V, two
<1>3. /\ t \in Seq(V) /\ Len(t) = Len(s) + Len(two)
      /\ \A i \in 1..(Len(s) + Len(two)) :
           t[i] = IF i <= Len(s) THEN s[i] ELSE two[i - Len(s)]
  BY <1>1, ConcatProperties
<1>4. (Len(s) + 1) - Len(s) = 1 /\ (Len(s) + 2) - Len(s) = 2
  BY <1>2
<1>5. Len(t) = Len(s) + 2 /\ Longer(s, t)
  BY <1>1, <1>2, <1>3 DEF Longer
<1>6. t[Len(s) + 1] = a /\ t[Len(s) + 2] = b
  BY <1>1, <1>2, <1>3, <1>4
<1>7. IsList(t)
  BY <1>3 DEF IsList
<1> QED BY <1>5, <1>6, <1>7 DEF Twice

-----------------------------------------------------------------------------
(* The runs, and what is owed to them.                                     *)

Runs == [kind : SequenceKinds, stamp : Nat, at : Nat, delay : Nat]

RunsTyped ==
  /\ clock \in Nat /\ readyIn \in [SequenceKinds -> Nat]
  /\ hostQueue = <<>> /\ commandCount = Len(ran)
  /\ asserted = {} /\ waitingShown = FALSE
  /\ stamp \in Nat /\ stamp <= Millis(clock)
  /\ ran \in Seq(Runs)
  /\ \A n \in 1..Len(ran) : ran[n].at <= clock /\ ran[n].stamp <= stamp

\* A kind is not ready before what its last run is owed, and no later.
Owed ==
  /\ \A n \in 1..Len(ran) : ReadyAgain(ran[n]) <= clock + readyIn[ran[n].kind]
  /\ \A kind \in SequenceKinds :
       \/ readyIn[kind] = 0
       \/ \E n \in 1..Len(ran) : /\ ran[n].kind = kind
                                 /\ clock + readyIn[kind] = ReadyAgain(ran[n])
  /\ \A n, m \in 1..Len(ran) :
       n < m /\ ran[n].kind = ran[m].kind => ReadyAgain(ran[n]) <= ran[m].at

RunsInv == RunsTyped /\ Owed

LEMMA RunIs ==
  ASSUME NEW made \in Runs
  PROVE  /\ made.kind \in SequenceKinds /\ made.at \in Nat /\ made.delay \in Nat
         /\ made.stamp \in Nat /\ ReadyAgain(made) \in Nat
<1>1. /\ made.kind \in SequenceKinds /\ made.at \in Nat /\ made.delay \in Nat
      /\ made.stamp \in Nat
  BY DEF Runs
<1>2. made.delay + Lasts[made.kind] + 1000 \in Nat
  BY <1>1, RunLasts
<1>3. Ticks(made.delay + Lasts[made.kind] + 1000) \in Nat
  BY <1>2, TicksAre
<1> QED BY <1>1, <1>3 DEF ReadyAgain

LEMMA RunsStart == EmulatorInit => RunsInv
<1>1. Millis(0) \in Nat
  BY MillisIs
<1> QED BY <1>1, KindsAre
        DEF EmulatorInit, NoCooldown, RunsInv, RunsTyped, Owed

LEMMA RunsStay ==
  ASSUME RunsInv, NothingRuns, UNCHANGED <<clock, stamp>>
  PROVE  RunsInv' /\ Longer(ran, ran')
<1>1. RunsInv'
  BY DEF RunsInv, RunsTyped, Owed, NothingRuns
<1>2. Longer(ran, ran')
  BY DEF RunsInv, RunsTyped, NothingRuns, Longer
<1> QED BY <1>1, <1>2

\* A line that is read is stamped no later than the clock is.
LEMMA RunsRead ==
  ASSUME RunsInv, NothingRuns, UNCHANGED clock, stamp' = Millis(clock)
  PROVE  RunsInv'
<1>1. /\ clock \in Nat /\ stamp \in Nat /\ stamp <= Millis(clock)
      /\ ran \in Seq(Runs)
      /\ \A n \in 1..Len(ran) : ran[n].at <= clock /\ ran[n].stamp <= stamp
  BY DEF RunsInv, RunsTyped
<1>2. Millis(clock) \in Nat
  BY <1>1, MillisIs
<1>3. ASSUME NEW n \in 1..Len(ran) PROVE ran[n].stamp <= stamp'
  <2>1. ran[n] \in Runs
    BY <1>1
  <2>2. ran[n].stamp \in Nat /\ ran[n].stamp <= stamp
    BY <1>1, <2>1, RunIs
  <2> QED BY <1>1, <1>2, <2>2
<1>4. RunsTyped'
  <2>1. /\ readyIn \in [SequenceKinds -> Nat]
        /\ hostQueue = <<>> /\ commandCount = Len(ran)
        /\ asserted = {} /\ waitingShown = FALSE
    BY DEF RunsInv, RunsTyped
  <2>2. UNCHANGED <<readyIn, hostQueue, commandCount, asserted, waitingShown,
                    ran, clock>>
    BY DEF NothingRuns
  <2>3. stamp' <= Millis(clock)
    BY <1>2
  <2> QED BY <1>1, <1>2, <1>3, <2>1, <2>2, <2>3 DEF RunsTyped, Millis
<1>5. Owed'
  BY DEF RunsInv, Owed, NothingRuns
<1> QED BY <1>4, <1>5 DEF RunsInv

IsRequest(asked) == asked.answer = ""

RunOf(asked) ==
  [kind |-> asked.kind, stamp |-> stamp, at |-> clock, delay |-> asked.delay]

\* What a run that is accepted leaves behind.
RunAdded(asked) ==
  /\ RunOf(asked) \in Runs /\ ran' = Append(ran, RunOf(asked))
  /\ readyIn[asked.kind] = 0
  /\ clock + EndsIn(asked) + Spacing(asked.kind) = ReadyAgain(RunOf(asked))
  /\ readyIn' = [readyIn EXCEPT ![asked.kind]
                   = EndsIn(asked) + Spacing(asked.kind)]
  /\ EndsIn(asked) \in Nat /\ Spacing(asked.kind) \in Nat
  /\ Len(Enqueued(asked)) = 1 /\ hostQueue' = <<>>
  /\ commandCount' = commandCount + 1
  /\ asserted' = {} /\ waitingShown' = FALSE

LEMMA RunAdds ==
  ASSUME RunsInv, NEW asked, Sensible(asked), IsRequest(asked),
         RunToItsEnd(asked), UNCHANGED <<clock, stamp>>
  PROVE  RunAdded(asked)
<1> DEFINE made == RunOf(asked)
<1>0. /\ clock \in Nat /\ stamp \in Nat /\ readyIn \in [SequenceKinds -> Nat]
      /\ hostQueue = <<>> /\ asserted = {}
  BY DEF RunsInv, RunsTyped
<1>1. asked.kind \in SequenceKinds /\ asked.delay \in Nat
  BY DEF Sensible, IsRequest
<1>2. /\ RunDuration(asked.kind) = Lasts[asked.kind]
      /\ Lasts[asked.kind] \in Nat /\ Spacing(asked.kind) = Ticks(1000)
      /\ Ticks(1000) \in Nat
  <2>1. \A kind \in SequenceKinds : Spacing(kind) = Ticks(1000)
    BY RegistryIs
  <2>2. Ticks(1000) \in Nat
    BY TicksAre
  <2> QED BY <1>1, <2>1, <2>2, RunLasts
<1>3. /\ EndsIn(asked) \in Nat
      /\ EndsIn(asked) = Ticks(asked.delay + Lasts[asked.kind])
      /\ Ticks(asked.delay + Lasts[asked.kind] + 1000)
           = EndsIn(asked) + Ticks(1000)
  <2>1. asked.delay + Lasts[asked.kind] \in Nat
    BY <1>1, <1>2
  <2>2. EndsIn(asked) = Ticks(asked.delay + Lasts[asked.kind])
    BY <1>2 DEF EndsIn
  <2> QED BY <2>1, <2>2, TicksAre
<1>4. /\ made \in Runs /\ made.kind = asked.kind /\ made.at = clock
      /\ made.delay = asked.delay
  BY <1>0, <1>1 DEF Runs, RunOf
<1>5. clock + EndsIn(asked) + Spacing(asked.kind) = ReadyAgain(made)
  <2>1. ReadyAgain(made)
          = clock + Ticks(asked.delay + Lasts[asked.kind] + 1000)
    BY <1>4 DEF ReadyAgain
  <2> QED BY <1>0, <1>1, <1>2, <1>3, <2>1
<1>6. readyIn[asked.kind] = 0
  <2>1. ~(readyIn[asked.kind] > 0)
    BY DEF RunToItsEnd, EmulatorVerdict, Verdict
  <2>2. readyIn[asked.kind] \in Nat
    BY <1>0, <1>1
  <2> QED BY <2>1, <2>2
<1>7. readyIn' = [readyIn EXCEPT ![asked.kind]
                    = EndsIn(asked) + Spacing(asked.kind)]
  <2> DEFINE k == asked.kind
             first == Reserve(readyIn, k, 0, Spacing(k))
  <2>0. PICK short \in Nat : short = Ticks(1000)
    BY <1>2
  <2>1. first = [readyIn EXCEPT ![k] = short]
    <3>1. first = [readyIn EXCEPT ![k] = IF readyIn[k] >= 0 + short
                                         THEN readyIn[k] ELSE 0 + short]
      BY <1>2, <2>0 DEF Reserve
    <3>2. (IF readyIn[k] >= 0 + short THEN readyIn[k] ELSE 0 + short) = short
      BY <1>6, <2>0
    <3> QED BY <3>1, <3>2
  <2>2. first[k] = short /\ DOMAIN first = SequenceKinds
    <3> HIDE DEF first
    <3> QED BY <1>0, <1>1, <2>1
  <2>3. readyIn' = Reserve(first, k, EndsIn(asked), Spacing(k))
    BY DEF RunToItsEnd, ReservedUntilDone
  <2> DEFINE until == EndsIn(asked) + Spacing(k)
  <2>4. until \in Nat /\ until >= short
    BY <1>2, <1>3, <2>0
  <2> HIDE DEF first, k, until
  <2>5. readyIn' = [first EXCEPT ![k] = IF first[k] >= until THEN first[k]
                                        ELSE until]
    BY <2>3 DEF Reserve, until
  <2>6. (IF first[k] >= until THEN first[k] ELSE until) = until
    BY <2>2, <2>4
  <2>7. readyIn' = [first EXCEPT ![k] = EndsIn(asked) + Spacing(k)]
    BY <2>5, <2>6 DEF until
  <2>8. readyIn' = [readyIn EXCEPT ![k] = EndsIn(asked) + Spacing(k)]
    <3>1. k \in SequenceKinds
      BY <1>1 DEF k
    <3> DEFINE left == EndsIn(asked) + Spacing(k)
    <3> HIDE DEF left
    <3>2. [first EXCEPT ![k] = left] = [readyIn EXCEPT ![k] = left]
      <4>1. PICK a : a = left
        OBVIOUS
      <4>2. PICK was \in [SequenceKinds -> Nat] : was = readyIn
        BY <1>0
      <4>3. PICK at : at = k
        OBVIOUS
      <4>4. PICK g, ms : g = first /\ ms = short
        OBVIOUS
      <4>5. g = [was EXCEPT ![at] = ms] /\ at \in SequenceKinds
        BY <2>1, <3>1, <4>2, <4>3, <4>4
      <4>6. [g EXCEPT ![at] = a] = [was EXCEPT ![at] = a]
        BY <4>2, <4>5
      <4> QED BY <4>1, <4>2, <4>3, <4>4, <4>6
    <3> QED BY <2>7, <3>2 DEF left
  <2> QED BY <2>8 DEF k
<1>8. /\ ran' = Append(ran, made) /\ commandCount' = commandCount + 1
      /\ waitingShown' = FALSE
  BY DEF RunToItsEnd, RunOf
<1>9. Len(Enqueued(asked)) = 1 /\ hostQueue' = <<>>
  <2>1. Enqueued(asked) = <<asked>>
    BY <1>0 DEF Enqueued
  <2>2. hostQueue' = Tail(<<asked>>)
    BY <2>1 DEF RunToItsEnd
  <2> QED BY <2>1, <2>2
<1>10. asserted' = {}
  <2>1. asserted = {} /\ asserted' = LeftLow(Registry[asked.kind].phases)
    BY <1>0 DEF RunToItsEnd
  <2> QED BY <1>1, <2>1, EndsReleased
<1> HIDE DEF made
<1>11. /\ made \in Runs /\ ran' = Append(ran, made)
       /\ clock + EndsIn(asked) + Spacing(asked.kind) = ReadyAgain(made)
  BY <1>4, <1>5, <1>8 DEF made
<1> QED BY <1>2, <1>3, <1>6, <1>7, <1>8, <1>9, <1>10, <1>11 DEF made, RunAdded

LEMMA RunKept ==
  ASSUME RunsInv, NEW asked, Sensible(asked), IsRequest(asked),
         RunToItsEnd(asked), UNCHANGED <<clock, stamp>>
  PROVE  RunsInv' /\ Longer(ran, ran')
<1> DEFINE made == RunOf(asked)
           k == asked.kind
           left == EndsIn(asked) + Spacing(asked.kind)
           N == Len(ran)
<1>0. RunAdded(asked)
  BY RunAdds
<1>1. /\ made \in Runs /\ ran' = Append(ran, made) /\ readyIn[k] = 0
      /\ clock + EndsIn(asked) + Spacing(asked.kind) = ReadyAgain(made)
      /\ readyIn' = [readyIn EXCEPT ![k] = left]
      /\ EndsIn(asked) \in Nat /\ Spacing(asked.kind) \in Nat
      /\ hostQueue' = <<>> /\ commandCount' = commandCount + 1
      /\ asserted' = {} /\ waitingShown' = FALSE
  BY <1>0 DEF RunAdded
<1>2. /\ k \in SequenceKinds /\ made.kind = k /\ made.at = clock
      /\ made.stamp = stamp
  BY DEF Sensible, IsRequest, RunOf
<1>3. /\ clock \in Nat /\ readyIn \in [SequenceKinds -> Nat]
      /\ commandCount = N /\ ran \in Seq(Runs)
      /\ stamp \in Nat /\ stamp <= Millis(clock)
      /\ \A n \in 1..N : ran[n].at <= clock /\ ran[n].stamp <= stamp
  BY DEF RunsInv, RunsTyped
<1>4. left \in Nat /\ clock + left = ReadyAgain(made)
  BY <1>1, <1>3
<1> HIDE DEF made, left, k
<1>5. /\ N \in Nat /\ Len(ran') = N + 1 /\ ran' \in Seq(Runs)
      /\ \A n \in 1..N : ran'[n] = ran[n] /\ ran[n] \in Runs
      /\ ran'[N + 1] = made
  BY <1>1, <1>3, AppendProperties
<1>6. Longer(ran, ran')
  BY <1>5 DEF Longer
<1>7. /\ readyIn' \in [SequenceKinds -> Nat] /\ readyIn'[k] = left
      /\ \A j \in SequenceKinds : j # k => readyIn'[j] = readyIn[j]
  BY <1>1, <1>2, <1>3, <1>4
<1> HIDE DEF N
<1>8. RunsTyped'
  <2>1. \A n \in 1..(N + 1) : ran'[n].at <= clock /\ ran'[n].stamp <= stamp
    <3>1. ASSUME NEW n \in 1..(N + 1)
          PROVE  ran'[n].at <= clock /\ ran'[n].stamp <= stamp
      <4>1. CASE n \in 1..N
        BY <1>3, <1>5, <4>1
      <4>2. CASE n = N + 1
        BY <1>2, <1>3, <1>5, <4>2
      <4> QED BY <1>5, <4>1, <4>2
    <3> QED BY <3>1
  <2> QED BY <1>1, <1>3, <1>5, <1>7, <2>1 DEF RunsTyped, N, Millis
<1>9. \A n \in 1..N : ReadyAgain(ran[n]) <= clock + readyIn[ran[n].kind]
  BY DEF RunsInv, Owed, N
<1>10. \A n \in 1..(N + 1) :
         ReadyAgain(ran'[n]) <= clock + readyIn'[ran'[n].kind]
  <2>1. ASSUME NEW n \in 1..N
        PROVE  ReadyAgain(ran[n]) <= clock + readyIn'[ran[n].kind]
    <3>1. /\ ran[n].kind \in SequenceKinds /\ ReadyAgain(ran[n]) \in Nat
      BY <1>5, RunIs
    <3>2. CASE ran[n].kind = k
      <4>1. ReadyAgain(ran[n]) <= clock + 0
        BY <1>1, <1>9, <3>2
      <4> QED BY <1>3, <1>4, <1>7, <3>1, <3>2, <4>1
    <3>3. CASE ran[n].kind # k
      <4>1. readyIn'[ran[n].kind] = readyIn[ran[n].kind]
        BY <1>7, <3>1, <3>3
      <4> QED BY <1>9, <4>1
    <3> QED BY <3>2, <3>3
  <2>2. ReadyAgain(made) <= clock + readyIn'[made.kind]
    <3>1. ReadyAgain(made) = clock + readyIn'[made.kind]
      BY <1>2, <1>4, <1>7
    <3> QED BY <1>1, <3>1, RunIs
  <2>3. ASSUME NEW n \in 1..(N + 1)
        PROVE  ReadyAgain(ran'[n]) <= clock + readyIn'[ran'[n].kind]
    <3>1. CASE n \in 1..N
      BY <1>5, <2>1, <3>1
    <3>2. CASE n = N + 1
      BY <1>5, <2>2, <3>2
    <3> QED BY <1>5, <3>1, <3>2
  <2> QED BY <2>3
<1>11. ASSUME NEW j \in SequenceKinds
       PROVE  \/ readyIn'[j] = 0
              \/ \E n \in 1..(N + 1) :
                   /\ ran'[n].kind = j
                   /\ clock + readyIn'[j] = ReadyAgain(ran'[n])
  <2>1. CASE j = k
    <3>1. N + 1 \in 1..(N + 1)
      BY <1>5
    <3> QED BY <1>2, <1>4, <1>5, <1>7, <2>1, <3>1
  <2>2. CASE j # k
    <3>1. readyIn'[j] = readyIn[j]
      BY <1>7, <2>2
    <3>2. \/ readyIn[j] = 0
          \/ \E n \in 1..N : /\ ran[n].kind = j
                             /\ clock + readyIn[j] = ReadyAgain(ran[n])
      BY DEF RunsInv, Owed, N
    <3>3. \A n \in 1..N : n \in 1..(N + 1)
      BY <1>5
    <3> QED BY <1>5, <3>1, <3>2, <3>3
  <2> QED BY <2>1, <2>2
<1>12. ASSUME NEW n \in 1..(N + 1), NEW m \in 1..(N + 1), n < m,
              ran'[n].kind = ran'[m].kind
       PROVE  ReadyAgain(ran'[n]) <= ran'[m].at
  <2>1. n \in 1..N
    BY <1>5, <1>12
  <2>2. CASE m \in 1..N
    <3>1. ReadyAgain(ran[n]) <= ran[m].at
      BY <1>5, <1>12, <2>1, <2>2 DEF RunsInv, Owed, N
    <3> QED BY <1>5, <2>1, <2>2, <3>1
  <2>3. CASE m = N + 1
    <3>1. ran[n].kind = k /\ ran'[m].at = clock
      BY <1>2, <1>5, <1>12, <2>1, <2>3
    <3>2. ReadyAgain(ran[n]) <= clock + 0
      BY <1>1, <1>9, <2>1, <3>1
    <3> QED BY <1>3, <1>5, <2>1, <3>1, <3>2
  <2> QED BY <1>5, <2>2, <2>3
<1>13. Owed'
  <2>1. Len(ran') = N + 1 /\ clock' = clock
    BY <1>5
  <2> QED BY <1>10, <1>11, <1>12, <2>1 DEF Owed
<1> QED BY <1>6, <1>8, <1>13 DEF RunsInv

LEMMA RunsWait ==
  ASSUME RunsInv, TimeGoesOn
  PROVE  RunsInv' /\ Longer(ran, ran')
<1>1. /\ clock \in Nat /\ readyIn \in [SequenceKinds -> Nat]
      /\ ran \in Seq(Runs) /\ Len(ran) \in Nat
      /\ stamp \in Nat /\ stamp <= Millis(clock)
      /\ \A n \in 1..Len(ran) : ran[n].at <= clock /\ ran[n].stamp <= stamp
  BY DEF RunsInv, RunsTyped
<1>2. \A passed \in Pauses : passed \in Nat
  <2>1. \A passed \in Pauses :
          \/ passed = 1
          \/ passed > 0 /\ \E kind \in SequenceKinds :
                              passed \in {readyIn[kind] - 1, readyIn[kind]}
    BY KindsAre DEF Pauses
  <2>2. \A kind \in SequenceKinds : readyIn[kind] \in Nat
    BY <1>1
  <2> QED BY <2>1, <2>2
<1>3. PICK passed \in Nat :
        /\ clock' = clock + passed
        /\ readyIn' = [k \in SequenceKinds |->
                         IF readyIn[k] <= passed THEN 0
                         ELSE readyIn[k] - passed]
  BY <1>2, KindsAre DEF TimeGoesOn
<1>4. UNCHANGED <<hostQueue, commandCount, asserted, waitingShown, ran, stamp>>
  BY DEF TimeGoesOn
<1>5. /\ clock' \in Nat /\ clock <= clock'
      /\ readyIn' \in [SequenceKinds -> Nat]
      /\ \A k \in SequenceKinds :
             \/ readyIn'[k] = 0 /\ clock + readyIn[k] <= clock'
             \/ clock' + readyIn'[k] = clock + readyIn[k]
  <2>1. clock' \in Nat /\ clock <= clock'
    BY <1>1, <1>3
  <2>2. ASSUME NEW k \in SequenceKinds
        PROVE  /\ readyIn'[k] \in Nat
               /\ \/ readyIn'[k] = 0 /\ clock + readyIn[k] <= clock'
                  \/ clock' + readyIn'[k] = clock + readyIn[k]
    <3>1. readyIn'[k] = IF readyIn[k] <= passed THEN 0 ELSE readyIn[k] - passed
      BY <1>3
    <3>2. readyIn[k] \in Nat
      BY <1>1
    <3>3. CASE readyIn[k] <= passed
      BY <1>1, <1>3, <3>1, <3>2, <3>3
    <3>4. CASE ~(readyIn[k] <= passed)
      <4>1. readyIn[k] > passed
        BY <1>3, <3>2, <3>4
      <4>2. readyIn'[k] = readyIn[k] - passed
        BY <3>1, <3>4
      <4>3. PICK was \in Nat : was = readyIn[k]
        BY <3>2
      <4>4. PICK now : now = clock'
        OBVIOUS
      <4>5. PICK then \in Nat : then = clock
        BY <1>1
      <4>6. now = then + passed /\ was > passed
        BY <1>3, <4>1, <4>3, <4>4, <4>5
      <4>7. was - passed \in Nat
        BY <4>6
      <4>8. (then + passed) + (was - passed) = then + was
        OBVIOUS
      <4> QED BY <4>2, <4>3, <4>4, <4>5, <4>6, <4>7, <4>8
    <3> QED BY <3>3, <3>4
  <2>3. readyIn' \in [SequenceKinds -> Nat]
    BY <1>3, <2>2
  <2> QED BY <2>1, <2>2, <2>3
<1>6. \A n \in 1..Len(ran) :
        /\ ran[n].kind \in SequenceKinds /\ ran[n].at \in Nat
        /\ ReadyAgain(ran[n]) \in Nat
  BY <1>1, RunIs
<1>7. RunsTyped'
  <2>1. ASSUME NEW n \in 1..Len(ran) PROVE ran[n].at <= clock'
    <3>1. ran[n].at <= clock /\ ran[n].at \in Nat
      BY <1>1, <1>6
    <3> QED BY <1>1, <1>5, <3>1
  <2>2. /\ hostQueue = <<>> /\ commandCount = Len(ran)
        /\ asserted = {} /\ waitingShown = FALSE
    BY DEF RunsInv, RunsTyped
  <2>3. Millis(clock) \in Nat /\ Millis(clock') \in Nat
        /\ Millis(clock) <= Millis(clock')
    <3>1. PICK was \in Nat, now \in Nat : was = clock /\ now = clock'
      BY <1>1, <1>5
    <3>2. was <= now
      BY <1>5, <3>1
    <3>3. /\ Millis(was) \in Nat /\ Millis(now) \in Nat
          /\ Millis(was) <= Millis(now)
      BY <3>2, MillisIs, MillisOrder
    <3> QED BY <3>1, <3>3
  <2>4. stamp <= Millis(clock')
    BY <1>1, <2>3
  <2> QED BY <1>1, <1>4, <1>5, <2>1, <2>2, <2>4 DEF RunsTyped, Millis
<1>8. \A n \in 1..Len(ran) :
        ReadyAgain(ran[n]) <= clock' + readyIn'[ran[n].kind]
  <2>1. ASSUME NEW n \in 1..Len(ran)
        PROVE  ReadyAgain(ran[n]) <= clock' + readyIn'[ran[n].kind]
    <3>1. ReadyAgain(ran[n]) <= clock + readyIn[ran[n].kind]
      BY DEF RunsInv, Owed
    <3>2. /\ readyIn[ran[n].kind] \in Nat /\ readyIn'[ran[n].kind] \in Nat
          /\ ReadyAgain(ran[n]) \in Nat
      BY <1>1, <1>5, <1>6
    <3>3. clock + readyIn[ran[n].kind] <= clock' + readyIn'[ran[n].kind]
      <4>1. \A k \in SequenceKinds : clock + readyIn[k] <= clock' + readyIn'[k]
        <5>1. ASSUME NEW k \in SequenceKinds
              PROVE  clock + readyIn[k] <= clock' + readyIn'[k]
          <6>1. readyIn[k] \in Nat /\ readyIn'[k] \in Nat
            BY <1>1, <1>5
          <6>2. CASE readyIn'[k] = 0 /\ clock + readyIn[k] <= clock'
            BY <1>1, <1>5, <6>1, <6>2
          <6>3. CASE clock' + readyIn'[k] = clock + readyIn[k]
            BY <1>1, <1>5, <6>1, <6>3
          <6> QED BY <1>5, <6>2, <6>3
        <5> QED BY <5>1
      <4>2. ran[n].kind \in SequenceKinds
        BY <1>6
      <4> QED BY <4>1, <4>2
    <3> QED BY <1>1, <1>5, <3>1, <3>2, <3>3
  <2> QED BY <2>1
<1>9. ASSUME NEW k \in SequenceKinds
      PROVE  \/ readyIn'[k] = 0
             \/ \E n \in 1..Len(ran) :
                  /\ ran[n].kind = k
                  /\ clock' + readyIn'[k] = ReadyAgain(ran[n])
  <2>1. CASE readyIn'[k] = 0
    BY <2>1
  <2>2. CASE readyIn'[k] # 0
    <3>1. clock' + readyIn'[k] = clock + readyIn[k]
      BY <1>5, <2>2
    <3>2. readyIn[k] # 0
      BY <1>1, <1>5, <2>2, <3>1
    <3>3. \E n \in 1..Len(ran) : /\ ran[n].kind = k
                                 /\ clock + readyIn[k] = ReadyAgain(ran[n])
      BY <3>2 DEF RunsInv, Owed
    <3> QED BY <3>1, <3>3
  <2> QED BY <2>1, <2>2
<1>10. \A n, m \in 1..Len(ran) :
         n < m /\ ran[n].kind = ran[m].kind => ReadyAgain(ran[n]) <= ran[m].at
  BY DEF RunsInv, Owed
<1>11. Owed'
  BY <1>4, <1>8, <1>9, <1>10 DEF Owed
<1>12. Longer(ran, ran')
  BY <1>1, <1>4 DEF Longer
<1> QED BY <1>7, <1>11, <1>12 DEF RunsInv

-----------------------------------------------------------------------------
(* The transcript: T stands for the entries and R for the runs.            *)

IsDone(T, i) == T[i].role = "Emulator" /\ T[i].says.answer = "OK"

Harmless(says) == says.low = {} /\ ~says.waiting /\ says.queued <= 1

\* An acknowledgement is that of the run it numbers.
Acknowledges(says, at, R) ==
  says.answer = "OK" =>
    /\ says.id \in 1..Len(R)
    /\ says.kind = R[says.id].kind /\ at = R[says.id].stamp
    /\ says.kind # "FaultRecovery" =>
         /\ says.at = Millis(R[says.id].at) /\ at <= says.at
         /\ says.ready = Millis(ReadyAgain(R[says.id]))

\* A refusal names the moment an earlier run of the kind has had its due.
Refuses(says, at, R) ==
  says.answer = "CooldownActive" =>
    /\ at <= says.ready
    /\ \E n \in 1..Len(R) : /\ R[n].kind = says.kind /\ R[n].stamp <= at
                            /\ says.ready = Millis(ReadyAgain(R[n]))

EntryTrue(T, R, i) ==
  T[i].role = "Emulator" =>
    /\ i - 1 \in 1..Len(T) /\ T[i - 1].role = "Host"
    /\ T[i].at = T[i - 1].at /\ T[i].says.kind = T[i - 1].says.kind
    /\ Harmless(T[i].says)
    /\ Acknowledges(T[i].says, T[i].at, R)
    /\ Refuses(T[i].says, T[i].at, R)

Followed(T, s, i) ==
  T[i].role = "Host" =>
    \/ i + 1 \in 1..Len(T) /\ T[i + 1].role = "Emulator"
    \/ s = "ended" /\ i = Len(T)

InOrder(T) ==
  \A i, j \in 1..Len(T) :
    i < j /\ IsDone(T, i) /\ IsDone(T, j) => T[i].says.id < T[j].says.id

RunTold(T, R, s, n) ==
  \/ \E i \in 1..Len(T) : IsDone(T, i) /\ T[i].says.id = n
  \/ /\ s = "ended" /\ n = Len(R) /\ Len(T) \in 1..Len(T)
     /\ T[Len(T)].role = "Host"
     /\ T[Len(T)].says.kind = R[n].kind /\ T[Len(T)].at = R[n].stamp

Tells(T, R, s) ==
  /\ IsList(T) /\ s \in {"open", "ended"}
  /\ \A i \in 1..Len(T) : /\ T[i].role \in {"Host", "Emulator"}
                          /\ EntryTrue(T, R, i) /\ Followed(T, s, i)
  /\ InOrder(T)
  /\ \A n \in 1..Len(R) : RunTold(T, R, s, n)

\* What is true of an entry stays true as the session goes on.
LEMMA EntryStays ==
  ASSUME NEW T, NEW T2, NEW R, NEW R2, Longer(T, T2), Longer(R, R2),
         NEW i \in 1..Len(T), EntryTrue(T, R, i)
  PROVE  EntryTrue(T2, R2, i)
<1>1. /\ Len(T) \in Nat /\ Len(T2) \in Nat /\ Len(T) <= Len(T2)
      /\ \A j \in 1..Len(T) : T2[j] = T[j] /\ j \in 1..Len(T2)
  BY DEF Longer
<1>2. /\ Len(R) \in Nat /\ Len(R2) \in Nat /\ Len(R) <= Len(R2)
      /\ \A n \in 1..Len(R) : R2[n] = R[n] /\ n \in 1..Len(R2)
  BY DEF Longer
<1>3. ASSUME NEW says, NEW at, Acknowledges(says, at, R)
      PROVE  Acknowledges(says, at, R2)
  BY <1>2, <1>3 DEF Acknowledges
<1>4. ASSUME NEW says, NEW at, Refuses(says, at, R)
      PROVE  Refuses(says, at, R2)
  BY <1>2, <1>4 DEF Refuses
<1>5. T2[i] = T[i]
  BY <1>1
<1>6. SUFFICES ASSUME T[i].role = "Emulator"
               PROVE  /\ i - 1 \in 1..Len(T2) /\ T2[i - 1].role = "Host"
                      /\ T[i].at = T2[i - 1].at
                      /\ T[i].says.kind = T2[i - 1].says.kind
                      /\ Harmless(T[i].says)
                      /\ Acknowledges(T[i].says, T[i].at, R2)
                      /\ Refuses(T[i].says, T[i].at, R2)
  BY <1>5 DEF EntryTrue
<1>7. /\ i - 1 \in 1..Len(T) /\ T[i - 1].role = "Host"
      /\ T[i].at = T[i - 1].at /\ T[i].says.kind = T[i - 1].says.kind
      /\ Harmless(T[i].says)
      /\ Acknowledges(T[i].says, T[i].at, R)
      /\ Refuses(T[i].says, T[i].at, R)
  BY <1>6 DEF EntryTrue
<1>8. i - 1 \in 1..Len(T2) /\ T2[i - 1] = T[i - 1]
  BY <1>1, <1>7
<1> QED BY <1>3, <1>4, <1>7, <1>8

\* The number of every acknowledgement is that of a run.
LEMMA DoneCounts ==
  ASSUME NEW T, NEW R, NEW s, Tells(T, R, s), NEW i \in 1..Len(T),
         IsDone(T, i)
  PROVE  T[i].says.id \in 1..Len(R)
BY DEF Tells, EntryTrue, IsDone, Acknowledges

LEMMA NothingTold ==
  ASSUME NEW T, NEW R, Tells(T, R, "open"), NEW s \in {"open", "ended"}
  PROVE  Tells(T, R, s)
<1>1. \A i \in 1..Len(T) : Followed(T, s, i)
  BY DEF Tells, Followed
<1>2. \A n \in 1..Len(R) : RunTold(T, R, s, n)
  BY DEF Tells, RunTold
<1> QED BY <1>1, <1>2 DEF Tells

\* The runs go on by one at most.
Grows(R, R2) ==
  Longer(R, R2) /\ (Len(R2) = Len(R) \/ Len(R2) = Len(R) + 1)

(* A request that was logged as the last thing there was, with the run it  *)
(* led to if it did.                                                       *)
LEMMA RequestTold ==
  ASSUME NEW T, NEW R, Tells(T, R, "open"), NEW R2, Grows(R, R2), NEW h,
         h.role = "Host",
         Len(R2) = Len(R) + 1 =>
           h.says.kind = R2[Len(R2)].kind /\ h.at = R2[Len(R2)].stamp
  PROVE  Tells(Append(T, h), R2, "ended")
<1> DEFINE T2 == Append(T, h)
           L == Len(T)
<1>1. PICK U : T \in Seq(U)
  BY DEF Tells, IsList
<1>2. /\ T2 \in Seq(U \cup {h}) /\ Longer(T, T2) /\ Len(T2) = L + 1
      /\ T2[L + 1] = h
  BY <1>1, OneMore
<1>3. L \in Nat
  BY <1>1
<1>4. /\ \A i \in 1..L : T2[i] = T[i] /\ i \in 1..(L + 1)
      /\ \A i \in 1..(L + 1) : i \in 1..L \/ i = L + 1
  BY <1>2, <1>3 DEF Longer
<1>5. Longer(R, R2)
  BY DEF Grows
<1>6. IsList(T2)
  BY <1>2 DEF IsList
<1> HIDE DEF T2, L
<1>7. ~IsDone(T2, L + 1)
  BY <1>2 DEF IsDone
<1>8. ASSUME NEW i \in 1..(L + 1)
      PROVE  /\ T2[i].role \in {"Host", "Emulator"}
             /\ EntryTrue(T2, R2, i) /\ Followed(T2, "ended", i)
  <2>1. CASE i \in 1..L
    <3>1. /\ T[i].role \in {"Host", "Emulator"}
          /\ EntryTrue(T, R, i) /\ Followed(T, "open", i)
      BY <2>1 DEF Tells, L
    <3>2. EntryTrue(T2, R2, i)
      BY <1>2, <1>5, <2>1, <3>1, EntryStays DEF L
    <3>3. Followed(T2, "ended", i)
      <4>1. SUFFICES ASSUME T2[i].role = "Host"
                     PROVE  i + 1 \in 1..(L + 1) /\ T2[i + 1].role = "Emulator"
        BY <1>2 DEF Followed
      <4>2. i + 1 \in 1..L /\ T[i + 1].role = "Emulator"
        BY <1>4, <2>1, <3>1, <4>1 DEF Followed, L
      <4> QED BY <1>4, <4>2
    <3> QED BY <1>4, <2>1, <3>1, <3>2, <3>3
  <2>2. CASE i = L + 1
    <3>1. T2[i].role = "Host"
      BY <1>2, <2>2
    <3> QED BY <1>2, <2>2, <3>1 DEF EntryTrue, Followed
  <2> QED BY <1>4, <2>1, <2>2
<1>9. \A i \in 1..L : IsDone(T2, i) <=> IsDone(T, i)
  BY <1>4 DEF IsDone
<1>10. InOrder(T2)
  <2>1. ASSUME NEW i \in 1..(L + 1), NEW j \in 1..(L + 1), i < j,
               IsDone(T2, i), IsDone(T2, j)
        PROVE  T2[i].says.id < T2[j].says.id
    <3>1. i \in 1..L /\ j \in 1..L
      BY <1>4, <1>7, <2>1
    <3>2. T[i].says.id < T[j].says.id
      BY <1>9, <2>1, <3>1 DEF Tells, InOrder, L
    <3> QED BY <1>4, <3>1, <3>2
  <2> QED BY <1>2, <2>1 DEF InOrder
<1>11. ASSUME NEW n \in 1..Len(R2)
       PROVE  RunTold(T2, R2, "ended", n)
  <2>0. Len(R) \in Nat /\ Len(R2) \in Nat
    BY <1>5 DEF Longer
  <2>1. CASE n \in 1..Len(R)
    <3>1. PICK i \in 1..L : IsDone(T, i) /\ T[i].says.id = n
      BY <2>1 DEF Tells, RunTold, L
    <3>2. i \in 1..(L + 1) /\ IsDone(T2, i) /\ T2[i].says.id = n
      BY <1>4, <1>9, <3>1
    <3> QED BY <1>2, <3>2 DEF RunTold
  <2>2. CASE n \notin 1..Len(R)
    <3>1. n = Len(R2) /\ Len(R2) = Len(R) + 1
      BY <2>0, <2>2 DEF Grows
    <3>2. h.says.kind = R2[n].kind /\ h.at = R2[n].stamp
      BY <3>1
    <3>3. L + 1 \in 1..(L + 1)
      BY <1>3
    <3> QED BY <1>2, <3>1, <3>2, <3>3 DEF RunTold
  <2> QED BY <2>1, <2>2
<1> QED BY <1>2, <1>6, <1>8, <1>10, <1>11 DEF Tells, T2

\* What an answer has to be for the transcript to stay true.
Answers(e, h, R, R2) ==
  /\ e.role = "Emulator" /\ h.role = "Host"
  /\ e.at = h.at /\ e.says.kind = h.says.kind
  /\ Harmless(e.says)
  /\ Acknowledges(e.says, e.at, R2) /\ Refuses(e.says, e.at, R2)
  /\ e.says.answer = "OK" <=> Len(R2) = Len(R) + 1
  /\ e.says.answer = "OK" => e.says.id = Len(R2)

\* A request that was logged with its answer.
LEMMA AnswerTold ==
  ASSUME NEW T, NEW R, Tells(T, R, "open"), NEW R2, Grows(R, R2),
         NEW h, NEW e, Answers(e, h, R, R2)
  PROVE  Tells(T \o <<h, e>>, R2, "open")
<1> DEFINE T2 == T \o <<h, e>>
           L == Len(T)
<1>0. /\ e.role = "Emulator" /\ h.role = "Host"
      /\ e.at = h.at /\ e.says.kind = h.says.kind
      /\ Harmless(e.says)
      /\ Acknowledges(e.says, e.at, R2) /\ Refuses(e.says, e.at, R2)
      /\ e.says.answer = "OK" <=> Len(R2) = Len(R) + 1
      /\ e.says.answer = "OK" => e.says.id = Len(R2)
  BY DEF Answers
<1>1. PICK U : T \in Seq(U)
  BY DEF Tells, IsList
<1>2. /\ IsList(T2) /\ Longer(T, T2) /\ Len(T2) = L + 2
      /\ T2[L + 1] = h /\ T2[L + 2] = e
  <2>1. T2 = T \o <<h, e>>
    OBVIOUS
  <2> HIDE DEF T2
  <2>2. Twice(T, h, e, T2)
    BY <1>1, <2>1, TwoMore
  <2> QED BY <2>2 DEF Twice
<1>3. L \in Nat
  BY <1>1
<1>4. /\ \A i \in 1..L : T2[i] = T[i] /\ i \in 1..(L + 2)
      /\ \A i \in 1..(L + 2) : i \in 1..L \/ i = L + 1 \/ i = L + 2
      /\ L + 1 \in 1..(L + 2) /\ L + 2 \in 1..(L + 2)
      /\ (L + 1) + 1 = L + 2 /\ (L + 2) - 1 = L + 1
  BY <1>2, <1>3 DEF Longer
<1>5. /\ Longer(R, R2) /\ Len(R) \in Nat /\ Len(R2) \in Nat
      /\ Len(R2) = Len(R) \/ Len(R2) = Len(R) + 1
  BY DEF Grows, Longer
<1>6. IsList(T2)
  BY <1>2
<1> HIDE DEF T2, L
<1>7. ~IsDone(T2, L + 1) /\ (IsDone(T2, L + 2) <=> e.says.answer = "OK")
  BY <1>0, <1>2 DEF IsDone
<1>8. ASSUME NEW i \in 1..(L + 2)
      PROVE  /\ T2[i].role \in {"Host", "Emulator"}
             /\ EntryTrue(T2, R2, i) /\ Followed(T2, "open", i)
  <2>1. CASE i \in 1..L
    <3>1. /\ T[i].role \in {"Host", "Emulator"}
          /\ EntryTrue(T, R, i) /\ Followed(T, "open", i)
      BY <2>1 DEF Tells, L
    <3>2. EntryTrue(T2, R2, i)
      BY <1>2, <1>5, <2>1, <3>1, EntryStays DEF L
    <3>3. Followed(T2, "open", i)
      <4>1. SUFFICES ASSUME T2[i].role = "Host"
                     PROVE  i + 1 \in 1..(L + 2) /\ T2[i + 1].role = "Emulator"
        BY <1>2 DEF Followed
      <4>2. i + 1 \in 1..L /\ T[i + 1].role = "Emulator"
        BY <1>4, <2>1, <3>1, <4>1 DEF Followed, L
      <4> QED BY <1>4, <4>2
    <3> QED BY <1>4, <2>1, <3>1, <3>2, <3>3
  <2>2. CASE i = L + 1
    <3>1. T2[i].role = "Host" /\ T2[i + 1].role = "Emulator"
      BY <1>0, <1>2, <1>4, <2>2
    <3> QED BY <1>2, <1>4, <2>2, <3>1 DEF EntryTrue, Followed
  <2>3. CASE i = L + 2
    <3>1. T2[i] = e /\ T2[i - 1] = h /\ i - 1 \in 1..(L + 2)
      BY <1>2, <1>4, <2>3
    <3>2. EntryTrue(T2, R2, i)
      BY <1>0, <1>2, <3>1 DEF EntryTrue
    <3> QED BY <1>0, <3>1, <3>2 DEF Followed
  <2> QED BY <1>4, <2>1, <2>2, <2>3
<1>9. \A i \in 1..L : IsDone(T2, i) <=> IsDone(T, i)
  BY <1>4 DEF IsDone
<1>10. InOrder(T2)
  <2>1. ASSUME NEW i \in 1..(L + 2), NEW j \in 1..(L + 2), i < j,
               IsDone(T2, i), IsDone(T2, j)
        PROVE  T2[i].says.id < T2[j].says.id
    <3>1. i \in 1..L /\ (j \in 1..L \/ j = L + 2)
      BY <1>3, <1>4, <1>7, <2>1
    <3>2. CASE j \in 1..L
      <4>1. T[i].says.id < T[j].says.id
        BY <1>9, <2>1, <3>1, <3>2 DEF Tells, InOrder, L
      <4> QED BY <1>4, <3>1, <3>2, <4>1
    <3>3. CASE j = L + 2
      <4>1. T[i].says.id \in 1..Len(R)
        BY <1>9, <2>1, <3>1, DoneCounts DEF L
      <4>2. T2[j].says.id = Len(R) + 1
        BY <1>0, <1>2, <1>7, <2>1, <3>3
      <4>3. T2[i] = T[i]
        BY <1>4, <3>1
      <4> QED BY <1>5, <4>1, <4>2, <4>3
    <3> QED BY <3>1, <3>2, <3>3
  <2> QED BY <1>2, <2>1 DEF InOrder
<1>11. ASSUME NEW n \in 1..Len(R2)
       PROVE  RunTold(T2, R2, "open", n)
  <2>1. CASE n \in 1..Len(R)
    <3>1. PICK i \in 1..L : IsDone(T, i) /\ T[i].says.id = n
      BY <2>1 DEF Tells, RunTold, L
    <3>2. i \in 1..(L + 2) /\ IsDone(T2, i) /\ T2[i].says.id = n
      BY <1>4, <1>9, <3>1
    <3> QED BY <1>2, <3>2 DEF RunTold
  <2>2. CASE n \notin 1..Len(R)
    <3>1. n = Len(R2) /\ Len(R2) = Len(R) + 1
      BY <1>5, <2>2
    <3>2. IsDone(T2, L + 2) /\ T2[L + 2].says.id = n
      BY <1>0, <1>2, <1>7, <3>1
    <3> QED BY <1>2, <1>4, <3>2 DEF RunTold
  <2> QED BY <2>1, <2>2
<1> QED BY <1>2, <1>6, <1>8, <1>10, <1>11 DEF Tells, T2

-----------------------------------------------------------------------------
(* Every step keeps the runs and tells the truth about them.               *)

SessionIInv == RunsInv /\ Tells(transcript, ran, session)

SaysThis(says, answer, kind, id, at, ready, queued) ==
  /\ says.answer = answer /\ says.kind = kind /\ says.id = id
  /\ says.at = at /\ says.ready = ready /\ says.queued = queued
  /\ says.low = {} /\ ~says.waiting

LEMMA AnswerIs ==
  ASSUME NEW answer, NEW kind, NEW id, NEW at, NEW ready, NEW queued
  PROVE  SaysThis(Answer(answer, kind, id, at, ready, queued),
                  answer, kind, id, at, ready, queued)
BY DEF Answer, SaysThis

LEMMA LoggedIs ==
  ASSUME NEW role, NEW says
  PROVE  /\ Logged(role, says).role = role /\ Logged(role, says).at = stamp
         /\ Logged(role, says).says = says
BY DEF Logged

LEMMA PlainlyIs ==
  ASSUME RunsInv, NEW answer
  PROVE  /\ Plainly(answer).answer = answer /\ Plainly(answer).kind = ""
         /\ Harmless(Plainly(answer))
<1>1. PICK none : none = ""
  OBVIOUS
<1>2. asserted = {} /\ waitingShown = FALSE
  BY DEF RunsInv, RunsTyped
<1>3. Plainly(answer) = [Answer(answer, none, 0, 0, 0, 0) EXCEPT
                           !.low = IF answer = "Status" THEN asserted ELSE {},
                           !.waiting = answer = "Status" /\ waitingShown]
  BY <1>1 DEF Plainly
<1> DEFINE plain == Plainly(answer)
<1>4. /\ plain.answer = answer /\ plain.kind = none /\ plain.queued = 0
      /\ plain.low = {} /\ ~plain.waiting
  BY <1>2, <1>3 DEF Answer
<1> HIDE DEF plain
<1>5. plain.queued <= 1
  BY <1>4
<1> QED BY <1>1, <1>4, <1>5 DEF Harmless, plain

(* Whatever is answered truly, the transcript stays true: with the answer  *)
(* in it, or with the request as its last entry.                           *)
LEMMA AnsweredTells ==
  ASSUME Tells(transcript, ran, "open"), session = "open",
         Grows(ran, ran'), NEW asked, NEW answer, Answered(asked, answer),
         Answers(Logged("Emulator", answer), Logged("Host", asked), ran, ran')
  PROVE  Tells(transcript', ran', session')
<1> DEFINE h == Logged("Host", asked)
           e == Logged("Emulator", answer)
<1>1. /\ e.role = "Emulator" /\ h.role = "Host"
      /\ e.at = h.at /\ e.says.kind = h.says.kind
      /\ Acknowledges(e.says, e.at, ran')
      /\ e.says.answer = "OK" <=> Len(ran') = Len(ran) + 1
      /\ e.says.answer = "OK" => e.says.id = Len(ran')
  BY DEF Answers
<1>2. \/ transcript' = transcript \o <<h, e>> /\ session' = session
      \/ transcript' = Append(transcript, h) /\ session' = "ended"
  BY DEF Answered
<1> HIDE DEF h, e
<1>3. CASE transcript' = transcript \o <<h, e>> /\ session' = session
  <2>1. Tells(transcript \o <<h, e>>, ran', "open")
    BY AnswerTold DEF h, e
  <2> QED BY <1>3, <2>1
<1>4. CASE transcript' = Append(transcript, h) /\ session' = "ended"
  <2>1. Len(ran') = Len(ran) + 1 =>
          h.says.kind = ran'[Len(ran')].kind /\ h.at = ran'[Len(ran')].stamp
    BY <1>1 DEF Acknowledges
  <2>2. Tells(Append(transcript, h), ran', "ended")
    BY <1>1, <2>1, RequestTold
  <2> QED BY <1>4, <2>2
<1> QED BY <1>2, <1>3, <1>4

\* What answers without a run tells nothing about one.
LEMMA PlainAnswered ==
  ASSUME SessionIInv, session = "open", NothingRuns,
         UNCHANGED <<clock, stamp>>,
         NEW asked, NEW answer, Answered(asked, answer),
         answer.kind = asked.kind, Harmless(answer), answer.answer # "OK",
         Refuses(answer, stamp, ran)
  PROVE  SessionIInv'
<1>1. RunsInv' /\ Longer(ran, ran') /\ ran' = ran
  BY RunsStay DEF SessionIInv, NothingRuns
<1> DEFINE h == Logged("Host", asked)
           e == Logged("Emulator", answer)
<1>2. /\ e.role = "Emulator" /\ h.role = "Host" /\ e.at = stamp /\ h.at = stamp
      /\ e.says = answer /\ h.says = asked
  BY LoggedIs
<1> HIDE DEF h, e
<1>3. Len(ran) # Len(ran) + 1 /\ Grows(ran, ran')
  BY <1>1 DEF Longer, Grows
<1>4. Answers(e, h, ran, ran')
  BY <1>1, <1>2, <1>3 DEF Answers, Acknowledges
<1>5. Tells(transcript', ran', session')
  BY <1>3, <1>4, AnsweredTells DEF SessionIInv, h, e
<1> QED BY <1>1, <1>5 DEF SessionIInv

LEMMA RunAnswered ==
  ASSUME SessionIInv, session = "open", NEW asked, Sensible(asked),
         IsRequest(asked), HandleSequence(asked), UNCHANGED <<clock, stamp>>
  PROVE  SessionIInv'
<1> DEFINE h == Logged("Host", asked)
           answer == Acknowledged(asked)
           e == Logged("Emulator", answer)
           made == RunOf(asked)
<1>1. RunToItsEnd(asked) /\ Answered(asked, answer) /\ RunsInv
  BY DEF HandleSequence, SessionIInv
<1>2. RunsInv' /\ Longer(ran, ran') /\ RunAdded(asked)
  BY <1>1, RunKept, RunAdds
<1>3. /\ ran' = Append(ran, made) /\ made \in Runs
      /\ clock + EndsIn(asked) + Spacing(asked.kind) = ReadyAgain(made)
      /\ Len(Enqueued(asked)) = 1 /\ commandCount' = commandCount + 1
  BY <1>2 DEF RunAdded
<1>4. /\ ran \in Seq(Runs) /\ commandCount = Len(ran) /\ Len(ran) \in Nat
      /\ stamp <= Millis(clock)
  BY <1>1 DEF RunsInv, RunsTyped
<1>5. made.kind = asked.kind /\ made.at = clock /\ made.stamp = stamp
  BY DEF RunOf
<1>6. /\ answer.answer = "OK" /\ answer.kind = asked.kind
      /\ answer.id = Len(ran) + 1
      /\ answer.low = {} /\ ~answer.waiting /\ answer.queued <= 1
      /\ answer.kind # "FaultRecovery" =>
           /\ answer.at = Millis(made.at)
           /\ answer.ready = Millis(ReadyAgain(made))
  <2>1. CASE asked.kind = "FaultRecovery"
    <3>1. answer = Answer("OK", asked.kind, commandCount', 0, 0, 0)
      BY <2>1 DEF Acknowledged
    <3>2. SaysThis(answer, "OK", asked.kind, commandCount', 0, 0, 0)
      BY <3>1, AnswerIs
    <3> HIDE DEF answer
    <3> QED BY <1>3, <1>4, <2>1, <3>2 DEF SaysThis
  <2>2. CASE asked.kind # "FaultRecovery"
    <3>1. PICK now, ready : now = Millis(clock) /\ ready = Millis(ReadyAgain(made))
      OBVIOUS
    <3>2. answer = Answer("OK", asked.kind, commandCount', now, ready, 1)
      BY <1>3, <2>2, <3>1 DEF Acknowledged
    <3>3. SaysThis(answer, "OK", asked.kind, commandCount', now, ready, 1)
      BY <3>2, AnswerIs
    <3> HIDE DEF answer
    <3> QED BY <1>3, <1>4, <1>5, <3>1, <3>3 DEF SaysThis
  <2> QED BY <2>1, <2>2
<1>7. /\ e.role = "Emulator" /\ h.role = "Host" /\ e.at = stamp /\ h.at = stamp
      /\ e.says = answer /\ h.says = asked
  BY LoggedIs
<1> HIDE DEF h, e, answer, made
<1>8. /\ Len(ran') = Len(ran) + 1 /\ ran'[Len(ran) + 1] = made
      /\ Len(ran) + 1 \in 1..Len(ran')
  BY <1>3, <1>4, AppendProperties
<1>9. Harmless(e.says)
  BY <1>6, <1>7 DEF Harmless
<1>10. Acknowledges(e.says, e.at, ran')
  <2>1. e.at = stamp /\ e.says = answer /\ stamp <= Millis(made.at)
    BY <1>4, <1>5, <1>7
  <2> QED BY <1>5, <1>6, <1>8, <2>1 DEF Acknowledges
<1>11. Refuses(e.says, e.at, ran')
  BY <1>6, <1>7 DEF Refuses
<1>12. Answers(e, h, ran, ran')
  BY <1>6, <1>7, <1>8, <1>9, <1>10, <1>11 DEF Answers
<1>13. Grows(ran, ran')
  BY <1>2, <1>8 DEF Grows
<1>14. Tells(transcript', ran', session')
  BY <1>1, <1>12, <1>13, AnsweredTells DEF SessionIInv, h, e
<1> QED BY <1>2, <1>14 DEF SessionIInv

\* A refusal for the cooldown names the end of what the last run is owed.
LEMMA RefusalAnswered ==
  ASSUME SessionIInv, session = "open", NEW asked, Sensible(asked),
         IsRequest(asked), HandleRefusal(asked), UNCHANGED <<clock, stamp>>
  PROVE  SessionIInv'
<1> DEFINE verdict == EmulatorVerdict(asked)
           again == clock + readyIn[asked.kind]
           ready == Millis(again)
           answer == Answer(verdict, asked.kind, 0, 0, ready, 0)
<1>1. NothingRuns /\ Answered(asked, answer) /\ RunsInv
  BY DEF HandleRefusal, SessionIInv
<1>2. asked.kind \in SequenceKinds
  BY DEF Sensible, IsRequest
<1>3. /\ clock \in Nat /\ readyIn[asked.kind] \in Nat
      /\ stamp \in Nat /\ stamp <= Millis(clock)
      /\ \A n \in 1..Len(ran) : ran[n].stamp <= stamp
  BY <1>1, <1>2 DEF RunsInv, RunsTyped
<1>4. verdict # "OK" /\ (verdict = "CooldownActive" => readyIn[asked.kind] > 0)
  BY DEF EmulatorVerdict, Verdict
<1>5. /\ answer.answer = verdict /\ answer.kind = asked.kind
      /\ answer.ready = ready /\ answer.queued = 0
      /\ answer.low = {} /\ ~answer.waiting
  <2> HIDE DEF verdict, ready
  <2>1. SaysThis(answer, verdict, asked.kind, 0, 0, ready, 0)
    BY AnswerIs
  <2> HIDE DEF answer
  <2> QED BY <2>1 DEF SaysThis
<1> HIDE DEF answer, verdict
<1>6. Harmless(answer)
  BY <1>5 DEF Harmless
<1>7. Refuses(answer, stamp, ran)
  <2>1. SUFFICES ASSUME verdict = "CooldownActive"
                 PROVE  /\ stamp <= ready
                        /\ \E n \in 1..Len(ran) :
                             /\ ran[n].kind = asked.kind
                             /\ ran[n].stamp <= stamp
                             /\ ready = Millis(ReadyAgain(ran[n]))
    BY <1>5 DEF Refuses
  <2>2. readyIn[asked.kind] # 0 /\ again \in Nat /\ clock <= again
    BY <1>3, <1>4, <2>1
  <2>3. \E n \in 1..Len(ran) : /\ ran[n].kind = asked.kind
                               /\ again = ReadyAgain(ran[n])
    BY <1>1, <1>2, <2>2 DEF RunsInv, Owed
  <2> HIDE DEF again
  <2>4. Millis(clock) <= ready /\ Millis(clock) \in Nat /\ ready \in Nat
    BY <1>3, <2>2, MillisIs, MillisOrder
  <2> HIDE DEF ready
  <2>5. stamp <= ready
    BY <1>3, <2>4
  <2> QED BY <1>3, <2>3, <2>5 DEF ready
<1> QED BY <1>1, <1>4, <1>5, <1>6, <1>7, PlainAnswered

\* A line or a completion the scheduler is not asked about.
LEMMA PlainlyAnswered ==
  ASSUME SessionIInv, session = "open", NothingRuns,
         UNCHANGED <<clock, stamp>>, NEW asked, asked.kind = "", NEW answer,
         answer \notin {"OK", "CooldownActive"},
         Answered(asked, Plainly(answer))
  PROVE  SessionIInv'
<1> DEFINE plain == Plainly(answer)
<1>1. /\ plain.answer = answer /\ plain.kind = asked.kind /\ Harmless(plain)
  BY PlainlyIs DEF SessionIInv
<1> HIDE DEF plain
<1>2. Refuses(plain, stamp, ran) /\ plain.answer # "OK"
  BY <1>1 DEF Refuses
<1> QED BY <1>1, <1>2, PlainAnswered DEF plain

\* Nothing happens, or the session ends with it.
LEMMA NothingAnswered ==
  ASSUME SessionIInv, session = "open", NothingRuns,
         UNCHANGED <<clock, stamp, transcript>>, session' \in {"open", "ended"}
  PROVE  SessionIInv'
<1>1. RunsInv' /\ ran' = ran
  BY RunsStay DEF SessionIInv, NothingRuns
<1>2. Tells(transcript, ran, session')
  BY NothingTold DEF SessionIInv
<1> QED BY <1>1, <1>2 DEF SessionIInv

LEMMA MeaningSensible ==
  ASSUME NEW line \in TypedLines, NEW asked \in Meanings(line)
  PROVE  Sensible(asked)
<1>1. line \in Seq(Tokens)
  BY EmulatorAssumption
<1>2. asked = AnswerOnly("Help") \/ asked = Understood(line)
  BY DEF Meanings
<1>3. CASE asked = AnswerOnly("Help")
  <2>1. "Help" \in PlainAnswers
    BY DEF PlainAnswers
  <2> QED BY <1>3, <2>1, AnswerSensible
<1>4. CASE asked = Understood(line)
  BY <1>1, <1>4, LineSensible
<1> QED BY <1>2, <1>3, <1>4

LEMMA CommandHandled ==
  ASSUME SessionIInv, session = "open", HandleCommand,
         UNCHANGED <<clock, stamp>>
  PROVE  SessionIInv'
<1>1. PICK line \in TypedLines : \E asked \in Meanings(line) :
        \/ RequestLost(asked)
        \/ IF asked.answer # "" THEN HandleAnswer(asked)
           ELSE HandleSequence(asked) \/ HandleRefusal(asked)
  BY DEF HandleCommand
<1>2. PICK asked \in Meanings(line) :
        \/ RequestLost(asked)
        \/ ~IsRequest(asked) /\ HandleAnswer(asked)
        \/ IsRequest(asked) /\ HandleSequence(asked)
        \/ IsRequest(asked) /\ HandleRefusal(asked)
  BY <1>1 DEF IsRequest
<1>3. Sensible(asked)
  BY MeaningSensible
<1>4. CASE RequestLost(asked)
  <2>1. /\ NothingRuns /\ UNCHANGED transcript
        /\ session' \in {"open", "ended"}
    BY <1>4 DEF RequestLost
  <2> QED BY <2>1, NothingAnswered
<1>5. CASE ~IsRequest(asked) /\ HandleAnswer(asked)
  <2>1. /\ NothingRuns /\ Answered(asked, Plainly(asked.answer))
    BY <1>5 DEF HandleAnswer
  <2>2. asked.kind = "" /\ asked.answer \in PlainAnswers
    BY <1>3, <1>5 DEF Sensible, IsRequest
  <2>3. asked.answer \notin {"OK", "CooldownActive"}
    BY <2>2 DEF PlainAnswers
  <2> QED BY <2>1, <2>2, <2>3, PlainlyAnswered
<1>6. CASE IsRequest(asked) /\ HandleSequence(asked)
  BY <1>3, <1>6, RunAnswered
<1>7. CASE IsRequest(asked) /\ HandleRefusal(asked)
  BY <1>3, <1>7, RefusalAnswered
<1> QED BY <1>2, <1>4, <1>5, <1>6, <1>7

LEMMA CompletionHandled ==
  ASSUME SessionIInv, session = "open", HandleCompletion,
         UNCHANGED <<clock, stamp>>
  PROVE  SessionIInv'
<1> DEFINE asked == AnswerOnly("Tab")
<1>1. /\ NothingRuns
      /\ \/ session' = "ended" /\ UNCHANGED transcript
         \/ \E found \in {"NoMatches", "Applied", "Suggestions"} :
              Answered(asked, Plainly(found))
  BY DEF HandleCompletion
<1>2. asked.kind = ""
  BY DEF AnswerOnly
<1> HIDE DEF asked
<1>3. CASE session' = "ended" /\ UNCHANGED transcript
  <2>1. session' \in {"open", "ended"}
    BY <1>3
  <2> QED BY <1>1, <1>3, <2>1, NothingAnswered
<1>4. CASE \E found \in {"NoMatches", "Applied", "Suggestions"} :
             Answered(asked, Plainly(found))
  <2>1. PICK found : /\ found \notin {"OK", "CooldownActive"}
                     /\ Answered(asked, Plainly(found))
    BY <1>4
  <2> QED BY <1>1, <1>2, <2>1, PlainlyAnswered
<1> QED BY <1>1, <1>3, <1>4

LEMMA SessionInitial == EmulatorInit => SessionIInv
<1> SUFFICES ASSUME EmulatorInit PROVE SessionIInv
  OBVIOUS
<1>1. RunsInv
  BY RunsStart
<1>2. transcript = <<>> /\ ran = <<>> /\ session = "open"
  BY DEF EmulatorInit
<1>3. transcript \in Seq({}) /\ Len(transcript) = 0 /\ Len(ran) = 0
  BY <1>2
<1>4. IsList(transcript)
  BY <1>3 DEF IsList
<1>5. Tells(transcript, ran, session)
  BY <1>2, <1>3, <1>4 DEF Tells, InOrder
<1> QED BY <1>1, <1>5 DEF SessionIInv

LEMMA SessionInductive ==
  SessionIInv /\ [EmulatorNext]_emulatorVars => SessionIInv'
<1> SUFFICES ASSUME SessionIInv, [EmulatorNext]_emulatorVars
             PROVE  SessionIInv'
  OBVIOUS
<1>1. CASE UNCHANGED emulatorVars
  <2>1. /\ UNCHANGED <<clock, stamp, session, transcript, ran>> /\ NothingRuns
    BY <1>1 DEF emulatorVars, NothingRuns
  <2>2. RunsInv'
    BY <2>1, RunsStay DEF SessionIInv
  <2> QED BY <2>1, <2>2 DEF SessionIInv
<1>2. CASE EmulatorNext
  <2>1. session = "open"
    BY <1>2 DEF EmulatorNext
  <2>2. CASE ReadLine
    <3>1. /\ NothingRuns /\ stamp' = Millis(clock)
          /\ UNCHANGED <<clock, session, transcript>>
      BY <2>2 DEF ReadLine
    <3>2. RunsInv' /\ UNCHANGED ran
      BY <3>1, RunsRead DEF SessionIInv, NothingRuns
    <3> QED BY <3>1, <3>2 DEF SessionIInv
  <2>3. CASE AnswerLine
    <3>1. /\ HandleCommand \/ HandleCompletion
          /\ UNCHANGED <<clock, stamp>>
      BY <2>3 DEF AnswerLine
    <3> QED BY <2>1, <3>1, CommandHandled, CompletionHandled
  <2>4. CASE CloseSession /\ UNCHANGED <<clock, reading, stamp>>
    <3>1. /\ NothingRuns /\ UNCHANGED transcript
          /\ session' \in {"open", "ended"}
      BY <2>4 DEF CloseSession
    <3> QED BY <2>1, <2>4, <3>1, NothingAnswered
  <2>5. CASE TimeGoesOn
    <3>1. RunsInv'
      BY <2>5, RunsWait DEF SessionIInv
    <3>2. UNCHANGED <<session, transcript, ran>>
      BY <2>5 DEF TimeGoesOn
    <3> QED BY <3>1, <3>2 DEF SessionIInv
  <2> QED BY <1>2, <2>2, <2>3, <2>4, <2>5 DEF EmulatorNext
<1> QED BY <1>1, <1>2

LEMMA SessionHolds == EmulatorSpec => []SessionIInv
BY SessionInitial, SessionInductive, PTL DEF EmulatorSpec

LEMMA TranscriptDomain ==
  ASSUME SessionIInv
  PROVE  /\ DOMAIN transcript = 1..Len(transcript) /\ Len(transcript) \in Nat
         /\ DOMAIN ran = 1..Len(ran) /\ Len(ran) \in Nat
<1>1. PICK U : transcript \in Seq(U)
  BY DEF SessionIInv, Tells, IsList
<1>2. ran \in Seq(Runs)
  BY DEF SessionIInv, RunsInv, RunsTyped
<1> QED BY <1>1, <1>2

(* Whatever lines are entered and whenever, and however fine the clock is: *)
(* a sequence accepted is told the moments of its request and of the end   *)
(* of its second, in whole milliseconds rounded down, no request of its    *)
(* kind is accepted before that end itself, and one refused for it is      *)
(* given the same millisecond and stamped no later (the transcript of      *)
(* emulator/src/session.rs against its cooldown tracker).                  *)
THEOREM AnnouncedIsKept == EmulatorSpec => []CooldownAsAnnounced
<1>1. SessionIInv => CooldownAsAnnounced
  <2> SUFFICES ASSUME SessionIInv PROVE CooldownAsAnnounced
    OBVIOUS
  <2>0. /\ DOMAIN transcript = 1..Len(transcript)
        /\ DOMAIN ran = 1..Len(ran) /\ Len(ran) \in Nat
    BY TranscriptDomain
  <2>1. \A n, m \in DOMAIN ran :
          n < m /\ ran[n].kind = ran[m].kind => ReadyAgain(ran[n]) <= ran[m].at
    BY <2>0 DEF SessionIInv, RunsInv, Owed
  <2>2. ASSUME NEW i \in DOMAIN transcript, transcript[i].role = "Emulator"
        PROVE  /\ Acknowledges(transcript[i].says, transcript[i].at, ran)
               /\ Refuses(transcript[i].says, transcript[i].at, ran)
    BY <2>0, <2>2 DEF SessionIInv, Tells, EntryTrue
  <2>3. ASSUME NEW i \in DOMAIN transcript, transcript[i].role = "Emulator",
               transcript[i].says.answer = "OK",
               transcript[i].says.kind # "FaultRecovery"
        PROVE  /\ transcript[i].says.at
                    = Millis(ran[transcript[i].says.id].at)
               /\ transcript[i].at <= transcript[i].says.at
               /\ transcript[i].says.ready
                    = Millis(ReadyAgain(ran[transcript[i].says.id]))
    BY <2>2, <2>3 DEF Acknowledges
  <2>4. ASSUME NEW i \in DOMAIN transcript, transcript[i].role = "Emulator",
               transcript[i].says.answer = "CooldownActive"
        PROVE  /\ transcript[i].at <= transcript[i].says.ready
               /\ \E n \in RunsBefore(transcript[i].says.kind, Len(ran)) :
                    /\ ran[n].stamp <= transcript[i].at
                    /\ transcript[i].says.ready = Millis(ReadyAgain(ran[n]))
    BY <2>2, <2>4 DEF Refuses, RunsBefore
  <2>5. ASSUME NEW kind \in SequenceKind
        PROVE  clock + readyIn[kind] \in {clock} \cup
                 {ReadyAgain(ran[n]) : n \in RunsBefore(kind, Len(ran))}
    <3>1. kind \in SequenceKinds /\ clock \in Nat
      BY KindsAre DEF SessionIInv, RunsInv, RunsTyped
    <3>2. CASE readyIn[kind] = 0
      BY <3>1, <3>2
    <3>3. CASE readyIn[kind] # 0
      <4>1. PICK n \in 1..Len(ran) :
              ran[n].kind = kind /\ clock + readyIn[kind] = ReadyAgain(ran[n])
        BY <3>1, <3>3 DEF SessionIInv, RunsInv, Owed
      <4>2. n \in RunsBefore(kind, Len(ran))
        BY <4>1 DEF RunsBefore
      <4> QED BY <4>1, <4>2
    <3> QED BY <3>2, <3>3
  <2> QED BY <2>1, <2>3, <2>4, <2>5 DEF CooldownAsAnnounced
<1> QED BY <1>1, SessionHolds, PTL

(* Whatever writes fail: the transcript pairs every request but the last   *)
(* with its answer, numbers the runs without a gap, and shows no line left *)
(* low, no recovery waiting and no queue behind the run (append_line and   *)
(* record_output of emulator/src/session.rs).                              *)
THEOREM TranscriptIsEvidence == EmulatorSpec => []TranscriptTellsAll
<1>1. SessionIInv => TranscriptTellsAll
  <2> SUFFICES ASSUME SessionIInv PROVE TranscriptTellsAll
    OBVIOUS
  <2> DEFINE L == Len(transcript)
             From(role) == {i \in DOMAIN transcript : transcript[i].role = role}
             done == {i \in From("Emulator") : transcript[i].says.answer = "OK"}
             IsOf(i, n) == /\ transcript[i].says.kind = ran[n].kind
                           /\ transcript[i].at = ran[n].stamp
  <2>0. /\ DOMAIN transcript = 1..L /\ L \in Nat
        /\ DOMAIN ran = 1..Len(ran) /\ Len(ran) \in Nat
    BY TranscriptDomain
  <2>1. /\ \A i \in 1..L : /\ EntryTrue(transcript, ran, i)
                           /\ Followed(transcript, session, i)
        /\ InOrder(transcript)
        /\ \A n \in 1..Len(ran) : RunTold(transcript, ran, session, n)
    BY DEF SessionIInv, Tells
  <2>2. /\ \A role, i : i \in From(role) <=>
             i \in 1..L /\ transcript[i].role = role
        /\ \A i : i \in done <=> i \in 1..L /\ IsDone(transcript, i)
    BY <2>0 DEF IsDone
  <2> HIDE DEF L, From, done
  <2>3. ASSUME NEW i \in From("Emulator")
        PROVE  /\ i - 1 \in From("Host")
               /\ transcript[i].at = transcript[i - 1].at
               /\ transcript[i].says.kind = transcript[i - 1].says.kind
               /\ transcript[i].says.low = {}
               /\ ~transcript[i].says.waiting
               /\ transcript[i].says.queued <= 1
    BY <2>1, <2>2 DEF EntryTrue, Harmless, L
  <2>4. ASSUME NEW i \in From("Host")
        PROVE  \/ i + 1 \in From("Emulator")
               \/ session = "ended" /\ i = Len(transcript)
    BY <2>1, <2>2 DEF Followed, L
  <2>5. ASSUME NEW i \in done
        PROVE  /\ transcript[i].says.id \in DOMAIN ran
               /\ IsOf(i, transcript[i].says.id)
    BY <2>0, <2>1, <2>2 DEF EntryTrue, Acknowledges, IsDone
  <2>6. ASSUME NEW i \in done, NEW j \in done, i < j
        PROVE  transcript[i].says.id < transcript[j].says.id
    BY <2>1, <2>2, <2>6 DEF InOrder, L
  <2>7. ASSUME NEW n \in DOMAIN ran
        PROVE  \/ \E i \in done : transcript[i].says.id = n
               \/ /\ n = Len(ran)
                  /\ \E i \in From("Host") : i = Len(transcript) /\ IsOf(i, n)
    <3>1. CASE \E i \in 1..L : IsDone(transcript, i)
                               /\ transcript[i].says.id = n
      BY <2>2, <3>1
    <3>2. CASE ~\E i \in 1..L : IsDone(transcript, i)
                                /\ transcript[i].says.id = n
      <4>1. /\ n = Len(ran) /\ L \in 1..L /\ transcript[L].role = "Host"
            /\ IsOf(L, n)
        BY <2>0, <2>1, <3>2 DEF RunTold, L
      <4>2. L \in From("Host")
        BY <2>2, <4>1
      <4> QED BY <4>1, <4>2 DEF L
    <3> QED BY <3>1, <3>2
  <2> QED BY <2>3, <2>4, <2>5, <2>6, <2>7
          DEF TranscriptTellsAll, From, done
<1> QED BY <1>1, SessionHolds, PTL

-----------------------------------------------------------------------------
(* The tokens of a console line.                                           *)

LEMMA KeywordsAre ==
  /\ Keywords = {"reboot", "recovery", "fault", "status", "help", "recover",
                 "now", "delay", "enter", "exit", "retries"}
  /\ DOMAIN Subcommands = {"recover"}
  /\ DOMAIN Spelling \ Suggestions = Keywords
  /\ Keywords \subseteq DOMAIN Spelling /\ Suggestions \subseteq DOMAIN Spelling
<1>1. DOMAIN Subcommands = {"recover"}
  BY DEF Subcommands
<1>2. \A k, t, v : Branch(k, t, v).keyword = k
  BY DEF Branch
<1>3. \A c, d : OptionalChoice(c, d).choices = c
  BY DEF OptionalChoice
<1>4. /\ RebootGrammar.choices =
           {Branch("now", "RebootNow", NoValue),
            Branch("delay", "RebootDelay", DurationValue)}
      /\ RecoveryGrammar.choices =
           {Branch("enter", "RecoveryEnter", NoValue),
            Branch("exit", "RecoveryExit", NoValue),
            Branch("now", "RecoveryNow", NoValue)}
      /\ FaultRecoverGrammar.choices =
           {Branch("retries", "FaultRetries", IntegerAssignment)}
  BY <1>3 DEF RebootGrammar, RecoveryGrammar, FaultRecoverGrammar
<1> DEFINE branches == RebootGrammar.choices \cup RecoveryGrammar.choices
                         \cup FaultRecoverGrammar.choices
           words == {b.keyword : b \in branches}
<1>5. words = {"now", "delay", "enter", "exit", "retries"}
  <2>1. branches =
          {Branch("now", "RebootNow", NoValue),
           Branch("delay", "RebootDelay", DurationValue),
           Branch("enter", "RecoveryEnter", NoValue),
           Branch("exit", "RecoveryExit", NoValue),
           Branch("now", "RecoveryNow", NoValue),
           Branch("retries", "FaultRetries", IntegerAssignment)}
    BY <1>4
  <2> HIDE DEF branches
  <2>2. ASSUME NEW k PROVE k \in words <=> \E b \in branches : b.keyword = k
    OBVIOUS
  <2> QED BY <1>2, <2>1, <2>2
<1>6. Keywords = {"reboot", "recovery", "fault", "status", "help", "recover",
                  "now", "delay", "enter", "exit", "retries"}
  <2>1. Keywords = DOMAIN Catalog \cup DOMAIN Subcommands \cup words
    BY DEF Keywords
  <2> HIDE DEF words
  <2> QED BY <1>1, <1>5, <2>1, CommandNames
<1>7. \A c \in Suggestions : c \notin Keywords
  BY <1>6 DEF Suggestions
<1> QED BY <1>1, <1>6, <1>7, CompletionAssumption

LEMMA WordsAreTokens ==
  /\ \A w \in STRING : /\ Word(w) \in Tokens
                       /\ Word(w).kind = "Ident" /\ Word(w).word = w
  /\ \A w \in Keywords : Word(w) \in Tokens
<1>1. \A w \in STRING : /\ Word(w) \in Tokens
                        /\ Word(w).kind = "Ident" /\ Word(w).word = w
  <2> SUFFICES ASSUME NEW w \in STRING
               PROVE  /\ Word(w) \in Tokens
                      /\ Word(w).kind = "Ident" /\ Word(w).word = w
    OBVIOUS
  <2>1. "Ident" \in TokenKinds
    BY DEF TokenKinds
  <2>2. /\ Word(w) \in TokenShapes /\ Word(w).kind = "Ident"
        /\ Word(w).word = w /\ Word(w).number = 0 /\ Word(w).unit = 0
    BY <2>1 DEF TokenShapes, Word, Token
  <2>3. Word(w) \in Tokens
    BY <2>2, TokenParts, Zenon
  <2> QED BY <2>2, <2>3
<1>2. Keywords \subseteq STRING
  BY KeywordsAre, CompletionAssumption
<1> QED BY <1>1, <1>2

LEMMA OtherTokens ==
  /\ \A n \in Nat : /\ IntegerOf(n) \in Tokens /\ IntegerOf(n).kind = "Integer"
                    /\ IntegerOf(n).number = n
  /\ Mark("Equals") \in Tokens /\ Mark("Equals").kind = "Equals"
<1>1. PICK none \in STRING : none = ""
  <2>1. PICK t \in Vocabulary : t.kind = "Duration"
    BY ConsoleLineAssumption
  <2>2. t \in Tokens /\ t.kind # "Ident"
    BY <2>1, ConsoleLineAssumption
  <2>3. t.word = ""
    BY <2>2, TokenParts, Zenon
  <2>4. t.word \in STRING
    BY <2>2, TokenFacts
  <2> QED BY <2>3, <2>4, Zenon
<1>2. \A kind, n : /\ Token(kind, none, n, 0).kind = kind
                   /\ Token(kind, none, n, 0).word = none
                   /\ Token(kind, none, n, 0).number = n
                   /\ Token(kind, none, n, 0).unit = 0
  BY DEF Token
<1>3. \A kind \in TokenKinds : \A n \in Nat :
        kind \in {"Integer", "Equals"} /\ (kind = "Equals" => n = 0)
        => Token(kind, none, n, 0) \in Tokens
  <2>1. SUFFICES ASSUME NEW kind \in TokenKinds, NEW n \in Nat,
                        kind \in {"Integer", "Equals"},
                        kind = "Equals" => n = 0
                 PROVE  Token(kind, none, n, 0) \in Tokens
    OBVIOUS
  <2> DEFINE t == Token(kind, none, n, 0)
  <2>2. t \in TokenShapes
    BY DEF TokenShapes, Token
  <2>3. /\ t.kind \notin {"Integer", "Duration"} => t.number = 0
        /\ t.kind # "Duration" => t.unit = 0
        /\ t.kind # "Ident" => t.word = none
    BY <1>2, <2>1
  <2> HIDE DEF t
  <2>4. t \in Tokens
    BY <1>1, <2>2, <2>3, TokenParts, Zenon
  <2> QED BY <2>4 DEF t
<1>4. /\ \A n : IntegerOf(n) = Token("Integer", none, n, 0)
      /\ Mark("Equals") = Token("Equals", none, 0, 0)
  BY <1>1 DEF IntegerOf, Mark
<1>5. "Integer" \in TokenKinds /\ "Equals" \in TokenKinds
  BY DEF TokenKinds
<1>6. \A n \in Nat : Token("Integer", none, n, 0) \in Tokens
  BY <1>3, <1>5
<1>7. Token("Equals", none, 0, 0) \in Tokens
  BY <1>3, <1>5
<1> QED BY <1>2, <1>4, <1>6, <1>7

\* What a line can come to hold: what is typed, and what a tab makes of it.
Typeable ==
  Vocabulary \cup {Word(w) : w \in Keywords} \cup {Mark("Equals")}
    \cup {IntegerOf(n) : n \in 1..3}

LEMMA TypeableIs ==
  ASSUME NEW t \in Typeable
  PROVE  /\ t \in Tokens /\ t.kind # "Eol"
         /\ t.kind = "Ident" => t \in Idents
         /\ t.kind = "Duration" /\ t.number <= MaxCount => t \in Durations
         /\ t.kind = "Integer" /\ t.number <= MaxRetries => t \in Retries
<1>1. CASE t \in Vocabulary
  <2>1. t \in Tokens /\ t.kind # "Eol" /\ t.number \in Nat
    BY <1>1, ConsoleLineAssumption, TokenFacts
  <2>2. t.number <= MaxRetries => t.number <= MaxCount
    BY <2>1, GrammarAssumption DEF MaxRetries
  <2> QED BY <1>1, <2>1, <2>2 DEF Idents, Durations, Numbers, Retries
<1>2. CASE t \in {Word(w) : w \in Keywords}
  <2>1. PICK w \in Keywords : t = Word(w)
    BY <1>2
  <2>2. w \in STRING
    BY KeywordsAre, CompletionAssumption
  <2>3. t \in Tokens /\ t.kind = "Ident"
    BY <2>1, <2>2, WordsAreTokens
  <2>4. t \in Idents
    BY <2>1, KeywordsAre DEF Idents
  <2> QED BY <2>3, <2>4
<1>3. CASE t = Mark("Equals")
  BY <1>3, OtherTokens
<1>4. CASE t \in {IntegerOf(n) : n \in 1..3}
  <2>1. PICK n \in 1..3 : t = IntegerOf(n)
    BY <1>4
  <2>2. t \in Tokens /\ t.kind = "Integer"
    BY <2>1, OtherTokens
  <2>3. t.number <= MaxRetries => t \in Retries
    BY <2>1 DEF Numbers, Retries
  <2> QED BY <2>2, <2>3
<1> QED BY <1>1, <1>2, <1>3, <1>4 DEF Typeable

LEMMA SentenceTokens ==
  /\ \A t \in Idents : t \in Typeable /\ t.kind = "Ident"
  /\ \A t \in Durations : /\ t \in Typeable /\ t.kind = "Duration"
                          /\ t.number <= MaxCount
  /\ \A t \in Numbers : t \in Typeable /\ t.kind = "Integer"
  /\ \A t \in Retries : t \in Numbers /\ t.number <= MaxRetries
  /\ \A w \in Keywords : Word(w) \in Typeable
  /\ Mark("Equals") \in Typeable /\ \A n \in 1..3 : IntegerOf(n) \in Typeable
<1>1. ASSUME NEW t \in Idents PROVE t \in Typeable /\ t.kind = "Ident"
  <2>1. CASE t \in Vocabulary
    BY <2>1 DEF Idents, Typeable, Word, Token
  <2>2. CASE t \notin Vocabulary
    <3>1. PICK w \in Keywords : t = Word(w)
      BY <2>2, KeywordsAre DEF Idents
    <3>2. w \in STRING
      BY KeywordsAre, CompletionAssumption
    <3> QED BY <3>1, <3>2, WordsAreTokens DEF Typeable
  <2> QED BY <2>1, <2>2
<1>2. ASSUME NEW t \in Numbers PROVE t \in Typeable /\ t.kind = "Integer"
  <2>1. CASE t \in Vocabulary /\ t.kind = "Integer"
    BY <2>1 DEF Typeable
  <2>2. CASE t \in {IntegerOf(n) : n \in 1..3}
    <3>1. PICK n \in 1..3 : t = IntegerOf(n)
      BY <2>2
    <3>2. t.kind = "Integer"
      BY <3>1, OtherTokens
    <3> QED BY <2>2, <3>2 DEF Typeable
  <2> QED BY <2>1, <2>2 DEF Numbers
<1> QED BY <1>1, <1>2 DEF Durations, Retries, Typeable

LEMMA LineOfTokens ==
  ASSUME NEW line \in Seq(Typeable)
  PROVE  /\ line \in Seq(Tokens) /\ Typed(line) /\ Len(line) \in Nat
         /\ \A i \in 1..Len(line) : line[i] \in Typeable
<1>1. Typeable \subseteq Tokens
  BY TypeableIs
<1>2. \A i \in 1..Len(line) : line[i] \in Typeable
  OBVIOUS
<1> QED BY <1>1, <1>2, TypeableIs, SeqMonotonic DEF Typed

LEMMA WordAtIs ==
  ASSUME NEW line \in Seq(Tokens), NEW i \in Nat \ {0}, NEW w \in STRING
  PROVE  WordAt(line, i, w) <=> i \in 1..Len(line) /\ line[i] = Word(w)
<1>1. ASSUME WordAt(line, i, w) PROVE i \in 1..Len(line) /\ line[i] = Word(w)
  <2>1. KindAt(line, i) = "Ident" /\ line[i].word = w
    BY <1>1 DEF WordAt
  <2>2. i \in 1..Len(line) /\ line[i] \in Tokens /\ line[i].kind = "Ident"
    BY <2>1, KindInLine
  <2> QED BY <2>1, <2>2, TokenFacts
<1>2. ASSUME i \in 1..Len(line), line[i] = Word(w) PROVE WordAt(line, i, w)
  <2>1. KindAt(line, i) = line[i].kind
    BY <1>2, TokenOfLine
  <2> QED BY <1>2, <2>1, WordsAreTokens DEF WordAt
<1> QED BY <1>1, <1>2

-----------------------------------------------------------------------------
(* The beginnings of sentences, by the tokens they are made of.            *)

LEMMA LineOf1 ==
  ASSUME NEW S, NEW a \in S, NEW line, line = <<a>>
  PROVE  /\ line \in Seq(S) /\ Len(line) = 1 /\ line[1] = a
         /\ KindAt(line, 2) = "end"
BY DEF KindAt

LEMMA LineOf2 ==
  ASSUME NEW S, NEW a \in S, NEW b \in S, NEW line, line = <<a, b>>
  PROVE  /\ line \in Seq(S) /\ Len(line) = 2 /\ line[1] = a /\ line[2] = b
         /\ KindAt(line, 3) = "end"
BY DEF KindAt

LEMMA LineOf3 ==
  ASSUME NEW S, NEW a \in S, NEW b \in S, NEW c \in S, NEW line,
         line = <<a, b, c>>
  PROVE  /\ line \in Seq(S) /\ Len(line) = 3
         /\ line[1] = a /\ line[2] = b /\ line[3] = c
OBVIOUS

LEMMA LineOf5 ==
  ASSUME NEW S, NEW a \in S, NEW b \in S, NEW c \in S, NEW d \in S, NEW e \in S,
         NEW line, line = <<a, b, c, d, e>>
  PROVE  /\ line \in Seq(S) /\ Len(line) = 5
         /\ line[1] = a /\ line[2] = b /\ line[3] = c
         /\ line[4] = d /\ line[5] = e
OBVIOUS

LEMMA LineIs ==
  ASSUME NEW S, NEW line \in Seq(S)
  PROVE  /\ Len(line) = 1 => line = <<line[1]>>
         /\ Len(line) = 2 => line = <<line[1], line[2]>>
         /\ Len(line) = 3 => line = <<line[1], line[2], line[3]>>
         /\ Len(line) = 5 =>
              line = <<line[1], line[2], line[3], line[4], line[5]>>
<1>0. \A i \in 1..Len(line) : line[i] \in S
  OBVIOUS
<1>1. CASE Len(line) = 1
  <2>1. line[1] \in S
    <3>1. 1 \in 1..1
      OBVIOUS
    <3> QED BY <1>0, <1>1, <3>1
  <2>2. PICK t : t = <<line[1]>>
    OBVIOUS
  <2>3. t \in Seq(S) /\ Len(t) = 1 /\ t[1] = line[1]
    BY <2>1, <2>2, LineOf1
  <2>4. \A i \in 1..Len(line) : line[i] = t[i]
    BY <1>1, <2>3
  <2>5. line = t
    BY <1>1, <2>3, <2>4, SeqEqual
  <2> QED BY <1>1, <2>2, <2>5
<1>2. CASE Len(line) = 2
  <2>1. line[1] \in S /\ line[2] \in S
    <3>1. 1 \in 1..2 /\ 2 \in 1..2
      OBVIOUS
    <3> QED BY <1>0, <1>2, <3>1
  <2>2. PICK t : t = <<line[1], line[2]>>
    OBVIOUS
  <2>3. t \in Seq(S) /\ Len(t) = 2 /\ t[1] = line[1] /\ t[2] = line[2]
    BY <2>1, <2>2, LineOf2
  <2>4. \A i \in 1..Len(line) : line[i] = t[i]
    BY <1>2, <2>3
  <2>5. line = t
    BY <1>2, <2>3, <2>4, SeqEqual
  <2> QED BY <1>2, <2>2, <2>5
<1>3. CASE Len(line) = 3
  <2>1. line[1] \in S /\ line[2] \in S /\ line[3] \in S
    <3>1. 1 \in 1..3 /\ 2 \in 1..3 /\ 3 \in 1..3
      OBVIOUS
    <3> QED BY <1>0, <1>3, <3>1
  <2>2. PICK t : t = <<line[1], line[2], line[3]>>
    OBVIOUS
  <2>3. /\ t \in Seq(S) /\ Len(t) = 3
        /\ t[1] = line[1] /\ t[2] = line[2] /\ t[3] = line[3]
    BY <2>1, <2>2, LineOf3
  <2>4. \A i \in 1..Len(line) : line[i] = t[i]
    BY <1>3, <2>3
  <2>5. line = t
    BY <1>3, <2>3, <2>4, SeqEqual
  <2> QED BY <1>3, <2>2, <2>5
<1>4. CASE Len(line) = 5
  <2>0. /\ \A i \in 1..Len(line) : line[i] \in S
        /\ 1 \in 1..5 /\ 2 \in 1..5 /\ 3 \in 1..5 /\ 4 \in 1..5 /\ 5 \in 1..5
    OBVIOUS
  <2>1. /\ line[1] \in S /\ line[2] \in S /\ line[3] \in S
        /\ line[4] \in S /\ line[5] \in S
    BY <1>4, <2>0
  <2>2. PICK t : t = <<line[1], line[2], line[3], line[4], line[5]>>
    OBVIOUS
  <2>3. /\ t \in Seq(S) /\ Len(t) = 5
        /\ t[1] = line[1] /\ t[2] = line[2] /\ t[3] = line[3]
        /\ t[4] = line[4] /\ t[5] = line[5]
    BY <2>1, <2>2, LineOf5
  <2>4. \A i \in 1..Len(line) : line[i] = t[i]
    BY <1>4, <2>3
  <2>5. line = t
    BY <1>4, <2>3, <2>4, SeqEqual
  <2> QED BY <1>4, <2>2, <2>5
<1> QED BY <1>1, <1>2, <1>3, <1>4, Zenon

\* The first n tokens of the line are the beginning of a sentence.
Begins(line, n) ==
  \/ n = 0
  \/ n = 1 /\ \E name \in DOMAIN Catalog : WordAt(line, 1, name)
  \/ n = 2 /\ WordAt(line, 1, "help") /\ KindAt(line, 2) = "Ident"
  \/ /\ n = 2 /\ WordAt(line, 1, "reboot")
     /\ WordAt(line, 2, "now") \/ WordAt(line, 2, "delay")
  \/ /\ n = 2 /\ WordAt(line, 1, "recovery")
     /\ \/ WordAt(line, 2, "enter") \/ WordAt(line, 2, "exit")
        \/ WordAt(line, 2, "now")
  \/ n = 2 /\ WordAt(line, 1, "fault") /\ WordAt(line, 2, "recover")
  \/ /\ n = 3 /\ WordAt(line, 1, "reboot") /\ WordAt(line, 2, "delay")
     /\ KindAt(line, 3) = "Duration" /\ line[3].number <= MaxCount
  \/ /\ n \in 3..5 /\ WordAt(line, 1, "fault") /\ WordAt(line, 2, "recover")
     /\ WordAt(line, 3, "retries")
     /\ n >= 4 => KindAt(line, 4) = "Equals"
     /\ n = 5 => KindAt(line, 5) = "Integer" /\ line[5].number <= MaxRetries

LEMMA PrefixIs ==
  ASSUME NEW line \in Seq(Tokens), NEW n \in 0..Len(line)
  PROVE  /\ SubSeq(line, 1, n) \in Seq(Tokens) /\ Len(SubSeq(line, 1, n)) = n
         /\ \A i \in 1..n : SubSeq(line, 1, n)[i] = line[i]
<1>1. n \in Nat /\ Len(line) \in Nat /\ n <= Len(line)
  OBVIOUS
<1>2. CASE n = 0
  <2>1. SubSeq(line, 1, n) = <<>>
    BY <1>2
  <2> QED BY <1>2, <2>1
<1>3. CASE n # 0
  <2>1. \A i \in 1..n : line[i] \in Tokens
    BY <1>1
  <2> QED BY <1>1, <1>3, <2>1
<1> QED BY <1>2, <1>3

LEMMA PrefixReads ==
  ASSUME NEW line \in Seq(Tokens), NEW n \in 0..Len(line), NEW i \in 1..n
  PROVE  /\ KindAt(SubSeq(line, 1, n), i) = KindAt(line, i)
         /\ SubSeq(line, 1, n)[i] = line[i]
         /\ \A w : WordAt(SubSeq(line, 1, n), i, w) <=> WordAt(line, i, w)
<1> DEFINE p == SubSeq(line, 1, n)
<1>1. Len(p) = n /\ p[i] = line[i] /\ i <= n /\ i <= Len(line)
  BY PrefixIs
<1> HIDE DEF p
<1>2. KindAt(p, i) = KindAt(line, i)
  BY <1>1 DEF KindAt
<1> QED BY <1>1, <1>2 DEF WordAt, p

LEMMA PrefixBegins ==
  ASSUME NEW line \in Seq(Tokens), NEW n \in 0..Len(line), NEW m \in 0..n
  PROVE  Begins(SubSeq(line, 1, n), m) <=> Begins(line, m)
<1> DEFINE p == SubSeq(line, 1, n)
<1>1. \A i \in 1..n : /\ KindAt(p, i) = KindAt(line, i) /\ p[i] = line[i]
                      /\ \A w : WordAt(p, i, w) <=> WordAt(line, i, w)
  BY PrefixReads
<1>2. n \in Nat /\ m \in Nat /\ m <= n
  OBVIOUS
<1> SUFFICES Begins(p, m) <=> Begins(line, m)
  OBVIOUS
<1> HIDE DEF p
<1> DEFINE Same(i) == KindAt(p, i) = KindAt(line, i) /\ p[i] = line[i]
<1>0. \A i \in 1..n : Same(i)
  BY <1>1
<1> HIDE DEF Same
<1>3. /\ m >= 1 => Same(1)
      /\ m >= 2 => Same(2)
      /\ m >= 3 => Same(3)
      /\ m >= 4 => Same(4)
      /\ m >= 5 => Same(5)
  BY <1>0, <1>2
<1>4. CASE m = 0
  BY <1>4 DEF Begins
<1>5. CASE m = 1
  <2>1. Same(1)
    BY <1>3, <1>5
  <2> QED BY <1>5, <2>1 DEF Begins, Same, WordAt
<1>6. CASE m = 2
  <2>1. Same(1) /\ Same(2)
    BY <1>3, <1>6
  <2> QED BY <1>6, <2>1 DEF Begins, Same, WordAt
<1>7. CASE m = 3
  <2>1. Same(1) /\ Same(2) /\ Same(3)
    BY <1>3, <1>7
  <2> QED BY <1>7, <2>1 DEF Begins, Same, WordAt
<1>8. CASE m = 4
  <2>1. Same(1) /\ Same(2) /\ Same(3) /\ Same(4)
    BY <1>3, <1>8
  <2> QED BY <1>8, <2>1 DEF Begins, Same, WordAt
<1>9. CASE m = 5
  <2>1. Same(1) /\ Same(2) /\ Same(3) /\ Same(4) /\ Same(5)
    BY <1>3, <1>9
  <2> QED BY <1>9, <2>1 DEF Begins, Same, WordAt
<1>10. CASE m > 5
  BY <1>2, <1>10 DEF Begins
<1> QED BY <1>2, <1>4, <1>5, <1>6, <1>7, <1>8, <1>9, <1>10

\* What begins a beginning is one.
LEMMA BeginsBefore ==
  ASSUME NEW line, NEW n, Begins(line, n), NEW m \in Nat, m <= n
  PROVE  Begins(line, m)
<1>1. "reboot" \in DOMAIN Catalog /\ "recovery" \in DOMAIN Catalog
      /\ "fault" \in DOMAIN Catalog /\ "help" \in DOMAIN Catalog
  BY CommandNames
<1>2. n \in 0..5
  BY DEF Begins
<1>3. CASE m = 0
  BY <1>3 DEF Begins
<1>4. CASE m = 1
  BY <1>1, <1>2, <1>4 DEF Begins
<1>5. CASE m = 2
  BY <1>2, <1>5 DEF Begins
<1>6. CASE m = 3
  BY <1>2, <1>6 DEF Begins
<1>7. CASE m = 4
  BY <1>2, <1>7 DEF Begins
<1>8. CASE m = 5
  BY <1>2, <1>8 DEF Begins
<1> QED BY <1>2, <1>3, <1>4, <1>5, <1>6, <1>7, <1>8

\* The sentences, one form after the other.
Says(line, command) ==
  \/ /\ line = <<Word("status")>>
     /\ command = Command("status", "", 0, {}, {})
  \/ /\ line = <<Word("help")>>
     /\ command = Command("help", "", 0, {}, {})
  \/ /\ line = <<Word("reboot")>>
     /\ command = Command("reboot", "RebootNow", 0, {}, {})
  \/ /\ line = <<Word("reboot"), Word("now")>>
     /\ command = Command("reboot", "RebootNow", 0, {}, {})
  \/ /\ line = <<Word("recovery")>>
     /\ command = Command("recovery", "RecoveryEnter", 0, {}, {})
  \/ /\ line = <<Word("recovery"), Word("enter")>>
     /\ command = Command("recovery", "RecoveryEnter", 0, {}, {})
  \/ /\ line = <<Word("recovery"), Word("exit")>>
     /\ command = Command("recovery", "RecoveryExit", 0, {}, {})
  \/ /\ line = <<Word("recovery"), Word("now")>>
     /\ command = Command("recovery", "RecoveryNow", 0, {}, {})
  \/ /\ line = <<Word("fault"), Word("recover")>>
     /\ command = Command("fault", "", 0, {}, {})
  \/ \E t \in Idents :
       /\ line = <<Word("help"), t>>
       /\ command = Command("help", "", 0, {}, {t.word})
  \/ \E t \in Durations :
       /\ line = <<Word("reboot"), Word("delay"), t>>
       /\ command = Command("reboot", "RebootDelay", t.number * t.unit, {}, {})
  \/ \E t \in Retries :
       /\ line = <<Word("fault"), Word("recover"), Word("retries"),
                   Mark("Equals"), t>>
       /\ command = Command("fault", "FaultRetries", 0, {t.number}, {})

LEMMA SentencesAre ==
  /\ \A s \in Readable : Says(s.line, s.command)
  /\ \A line, command : Says(line, command) =>
       \E s \in Readable : s.line = line /\ s.command = command
<1>1. \A l, c : Asks(l, c).line = l /\ Asks(l, c).command = c
  BY DEF Asks
<1>2. \A n, x, y :
        /\ Bare(n) = Command(n, "", 0, {}, {})
        /\ Choosing(n, x) = Command(n, x, 0, {}, {})
        /\ [Choosing(n, x) EXCEPT !.delay = y] = Command(n, x, y, {}, {})
        /\ [Choosing(n, x) EXCEPT !.retries = y] = Command(n, x, 0, y, {})
        /\ [Bare(n) EXCEPT !.topic = y] = Command(n, "", 0, {}, y)
  BY CommandsBuilt
<1> DEFINE
      Topical(t) == [Bare("help") EXCEPT !.topic = {t.word}]
      Delaying(t) == [Choosing("reboot", "RebootDelay") EXCEPT
                        !.delay = t.number * t.unit]
      Retrying(t) == [Choosing("fault", "FaultRetries") EXCEPT
                        !.retries = {t.number}]
      F1 == Asks(<<Word("status")>>, Bare("status"))
      F2 == Asks(<<Word("help")>>, Bare("help"))
      F3 == Asks(<<Word("reboot")>>, Choosing("reboot", "RebootNow"))
      F4 == Asks(<<Word("reboot"), Word("now")>>,
                 Choosing("reboot", "RebootNow"))
      F5 == Asks(<<Word("recovery")>>, Choosing("recovery", "RecoveryEnter"))
      F6 == Asks(<<Word("recovery"), Word("enter")>>,
                 Choosing("recovery", "RecoveryEnter"))
      F7 == Asks(<<Word("recovery"), Word("exit")>>,
                 Choosing("recovery", "RecoveryExit"))
      F8 == Asks(<<Word("recovery"), Word("now")>>,
                 Choosing("recovery", "RecoveryNow"))
      F9 == Asks(<<Word("fault"), Word("recover")>>, Bare("fault"))
      Topics == {Asks(<<Word("help"), t>>, Topical(t)) : t \in Idents}
      Delays1 == {Asks(<<Word("reboot"), Word("delay"), t>>, Delaying(t)) :
                    t \in Durations}
      Retries1 == {Asks(<<Word("fault"), Word("recover"), Word("retries"),
                          Mark("Equals"), t>>, Retrying(t)) : t \in Retries}
<1>3. Readable = {F1, F2, F3, F4, F5, F6, F7, F8, F9}
                   \cup Topics \cup Delays1 \cup Retries1
  BY DEF Readable, SentencesOver
<1>4. /\ \A t : Topical(t) = Command("help", "", 0, {}, {t.word})
      /\ \A t : Delaying(t)
                  = Command("reboot", "RebootDelay", t.number * t.unit, {}, {})
      /\ \A t : Retrying(t)
                  = Command("fault", "FaultRetries", 0, {t.number}, {})
  BY <1>2
<1> HIDE DEF Topical, Delaying, Retrying
<1>5. /\ Says(F1.line, F1.command) /\ Says(F2.line, F2.command)
      /\ Says(F3.line, F3.command)
      /\ Says(F4.line, F4.command) /\ Says(F5.line, F5.command)
      /\ Says(F6.line, F6.command)
      /\ Says(F7.line, F7.command) /\ Says(F8.line, F8.command)
      /\ Says(F9.line, F9.command)
  <2>0. \A l, c : Says(l, c) => Says(Asks(l, c).line, Asks(l, c).command)
    BY <1>1
  <2>1. Says(F1.line, F1.command)
    <3>1. Bare("status") = Command("status", "", 0, {}, {})
      BY <1>2, Zenon
    <3>2. Says(<<Word("status")>>, Bare("status"))
      BY <3>1, Zenon DEF Says
    <3> QED BY <2>0, <3>2, Zenon
  <2>2. Says(F2.line, F2.command)
    <3>1. Bare("help") = Command("help", "", 0, {}, {})
      BY <1>2, Zenon
    <3>2. Says(<<Word("help")>>, Bare("help"))
      BY <3>1, Zenon DEF Says
    <3> QED BY <2>0, <3>2, Zenon
  <2>3. Says(F3.line, F3.command)
    <3>1. Choosing("reboot", "RebootNow") =
            Command("reboot", "RebootNow", 0, {}, {})
      BY <1>2, Zenon
    <3>2. Says(<<Word("reboot")>>,
               Choosing("reboot", "RebootNow"))
      BY <3>1, Zenon DEF Says
    <3> QED BY <2>0, <3>2, Zenon
  <2>4. Says(F4.line, F4.command)
    <3>1. Choosing("reboot", "RebootNow") =
            Command("reboot", "RebootNow", 0, {}, {})
      BY <1>2, Zenon
    <3>2. Says(<<Word("reboot"), Word("now")>>,
               Choosing("reboot", "RebootNow"))
      BY <3>1, Zenon DEF Says
    <3> QED BY <2>0, <3>2, Zenon
  <2>5. Says(F5.line, F5.command)
    <3>1. Choosing("recovery", "RecoveryEnter") =
            Command("recovery", "RecoveryEnter", 0, {}, {})
      BY <1>2, Zenon
    <3>2. Says(<<Word("recovery")>>,
               Choosing("recovery", "RecoveryEnter"))
      BY <3>1, Zenon DEF Says
    <3> QED BY <2>0, <3>2, Zenon
  <2>6. Says(F6.line, F6.command)
    <3>1. Choosing("recovery", "RecoveryEnter") =
            Command("recovery", "RecoveryEnter", 0, {}, {})
      BY <1>2, Zenon
    <3>2. Says(<<Word("recovery"), Word("enter")>>,
               Choosing("recovery", "RecoveryEnter"))
      BY <3>1, Zenon DEF Says
    <3> QED BY <2>0, <3>2, Zenon
  <2>7. Says(F7.line, F7.command)
    <3>1. Choosing("recovery", "RecoveryExit") =
            Command("recovery", "RecoveryExit", 0, {}, {})
      BY <1>2, Zenon
    <3>2. Says(<<Word("recovery"), Word("exit")>>,
               Choosing("recovery", "RecoveryExit"))
      BY <3>1, Zenon DEF Says
    <3> QED BY <2>0, <3>2, Zenon
  <2>8. Says(F8.line, F8.command)
    <3>1. Choosing("recovery", "RecoveryNow") =
            Command("recovery", "RecoveryNow", 0, {}, {})
      BY <1>2, Zenon
    <3>2. Says(<<Word("recovery"), Word("now")>>,
               Choosing("recovery", "RecoveryNow"))
      BY <3>1, Zenon DEF Says
    <3> QED BY <2>0, <3>2, Zenon
  <2>9. Says(F9.line, F9.command)
    <3>1. Bare("fault") = Command("fault", "", 0, {}, {})
      BY <1>2, Zenon
    <3>2. Says(<<Word("fault"), Word("recover")>>, Bare("fault"))
      BY <3>1, Zenon DEF Says
    <3> QED BY <2>0, <3>2, Zenon
  <2> QED BY <2>1, <2>2, <2>3, <2>4, <2>5, <2>6, <2>7, <2>8, <2>9
<1>6. ASSUME NEW t \in Idents
      PROVE  Says(<<Word("help"), t>>, Topical(t))
  BY <1>4, Zenon DEF Says
<1>7. ASSUME NEW t \in Durations
      PROVE  Says(<<Word("reboot"), Word("delay"), t>>, Delaying(t))
  BY <1>4, Zenon DEF Says
<1>8. ASSUME NEW t \in Retries
      PROVE  Says(<<Word("fault"), Word("recover"), Word("retries"),
                    Mark("Equals"), t>>, Retrying(t))
  BY <1>4, Zenon DEF Says
<1> HIDE DEF F1, F2, F3, F4, F5, F6, F7, F8, F9, Topics, Delays1, Retries1
<1>9. ASSUME NEW s \in Topics \cup Delays1 \cup Retries1
      PROVE  Says(s.line, s.command)
  <2>1. CASE s \in Topics
    <3>1. PICK t \in Idents : s = Asks(<<Word("help"), t>>, Topical(t))
      BY <2>1 DEF Topics
    <3>2. /\ s.line = <<Word("help"), t>>
          /\ s.command = Topical(t)
      BY <1>1, <3>1, Zenon
    <3> QED BY <1>6, <3>2, Zenon
  <2>2. CASE s \in Delays1
    <3>1. PICK t \in Durations :
            s = Asks(<<Word("reboot"), Word("delay"), t>>, Delaying(t))
      BY <2>2 DEF Delays1
    <3>2. /\ s.line = <<Word("reboot"), Word("delay"), t>>
          /\ s.command = Delaying(t)
      BY <1>1, <3>1, Zenon
    <3> QED BY <1>7, <3>2, Zenon
  <2>3. CASE s \in Retries1
    <3>1. PICK t \in Retries :
            s = Asks(<<Word("fault"), Word("recover"), Word("retries"),
                       Mark("Equals"), t>>, Retrying(t))
      BY <2>3 DEF Retries1
    <3>2. /\ s.line = <<Word("fault"), Word("recover"), Word("retries"),
                       Mark("Equals"), t>>
          /\ s.command = Retrying(t)
      BY <1>1, <3>1, Zenon
    <3> QED BY <1>8, <3>2, Zenon
  <2> QED BY <1>9, <2>1, <2>2, <2>3
<1>10. \A s \in Readable : Says(s.line, s.command)
  BY <1>3, <1>5, <1>9
<1>11. ASSUME NEW line, NEW command, Says(line, command)
       PROVE  \E s \in Readable : s.line = line /\ s.command = command
  <2>1. SUFFICES Asks(line, command) \in Readable
    BY <1>1
  <2>2. CASE \E t \in Idents :
               /\ line = <<Word("help"), t>>
               /\ command = Command("help", "", 0, {}, {t.word})
    <3>1. Asks(line, command) \in Topics
      BY <1>4, <2>2, Zenon DEF Topics
    <3> QED BY <1>3, <3>1
  <2>3. CASE \E t \in Durations :
               /\ line = <<Word("reboot"), Word("delay"), t>>
               /\ command = Command("reboot", "RebootDelay",
                                    t.number * t.unit, {}, {})
    <3>1. Asks(line, command) \in Delays1
      BY <1>4, <2>3, Zenon DEF Delays1
    <3> QED BY <1>3, <3>1
  <2>4. CASE \E t \in Retries :
               /\ line = <<Word("fault"), Word("recover"), Word("retries"),
                           Mark("Equals"), t>>
               /\ command = Command("fault", "FaultRetries", 0,
                                    {t.number}, {})
    <3>1. Asks(line, command) \in Retries1
      BY <1>4, <2>4, Zenon DEF Retries1
    <3> QED BY <1>3, <3>1
  <2>5. CASE \/ /\ line = <<Word("status")>>
                /\ command = Command("status", "", 0, {}, {})
             \/ /\ line = <<Word("help")>>
                /\ command = Command("help", "", 0, {}, {})
             \/ /\ line = <<Word("reboot")>>
                /\ command = Command("reboot", "RebootNow", 0, {}, {})
             \/ /\ line = <<Word("reboot"), Word("now")>>
                /\ command = Command("reboot", "RebootNow", 0, {}, {})
             \/ /\ line = <<Word("recovery")>>
                /\ command = Command("recovery", "RecoveryEnter", 0, {}, {})
             \/ /\ line = <<Word("recovery"), Word("enter")>>
                /\ command = Command("recovery", "RecoveryEnter", 0, {}, {})
             \/ /\ line = <<Word("recovery"), Word("exit")>>
                /\ command = Command("recovery", "RecoveryExit", 0, {}, {})
             \/ /\ line = <<Word("recovery"), Word("now")>>
                /\ command = Command("recovery", "RecoveryNow", 0, {}, {})
             \/ /\ line = <<Word("fault"), Word("recover")>>
                /\ command = Command("fault", "", 0, {}, {})
    <3>1. Asks(line, command) \in {F1, F2, F3, F4, F5, F6, F7, F8, F9}
      BY <1>2, <2>5, Zenon DEF F1, F2, F3, F4, F5, F6, F7, F8, F9
    <3> QED BY <1>3, <3>1
  <2> QED BY <1>11, <2>2, <2>3, <2>4, <2>5, Zenon DEF Says
<1> QED BY <1>10, <1>11

LEMMA WordsThere ==
  ASSUME NEW line \in Seq(Tokens), NEW i \in Nat \ {0}, NEW w \in Keywords
  PROVE  WordAt(line, i, w) <=> i \in 1..Len(line) /\ line[i] = Word(w)
<1>1. w \in STRING
  BY KeywordsAre, CompletionAssumption
<1> QED BY <1>1, WordAtIs

\* A line of one word, of a word and a token, and so on.
LEMMA OneWord ==
  ASSUME NEW v \in Keywords, NEW line, line = <<Word(v)>>
  PROVE  /\ line \in Seq(Typeable) /\ Len(line) = 1 /\ WordAt(line, 1, v)
         /\ KindAt(line, 2) = "end"
<1>1. Word(v) \in Typeable
  BY SentenceTokens
<1>2. /\ line \in Seq(Typeable) /\ Len(line) = 1 /\ line[1] = Word(v)
      /\ KindAt(line, 2) = "end"
  BY <1>1, LineOf1
<1>3. line \in Seq(Tokens)
  BY <1>2, LineOfTokens
<1>5. \A i \in Nat \ {0} : \A x \in Keywords :
        WordAt(line, i, x) <=> i \in 1..Len(line) /\ line[i] = Word(x)
  BY <1>3, WordsThere, Zenon
<1>6. 1 \in Nat \ {0}
  OBVIOUS
<1>7. 1 \in 1..Len(line)
  BY <1>2
<1> QED BY <1>2, <1>5, <1>6, <1>7, Zenon

LEMMA WordAndToken ==
  ASSUME NEW v \in Keywords, NEW t \in Typeable, NEW line,
         line = <<Word(v), t>>
  PROVE  /\ line \in Seq(Typeable) /\ Len(line) = 2 /\ WordAt(line, 1, v)
         /\ line[2] = t /\ KindAt(line, 2) = t.kind /\ KindAt(line, 3) = "end"
<1>1. Word(v) \in Typeable
  BY SentenceTokens
<1>2. /\ line \in Seq(Typeable) /\ Len(line) = 2 /\ line[1] = Word(v)
      /\ line[2] = t /\ KindAt(line, 3) = "end"
  BY <1>1, LineOf2
<1>3. line \in Seq(Tokens)
  BY <1>2, LineOfTokens
<1>4. KindAt(line, 2) = t.kind
  BY <1>2 DEF KindAt
<1>5. \A i \in Nat \ {0} : \A x \in Keywords :
        WordAt(line, i, x) <=> i \in 1..Len(line) /\ line[i] = Word(x)
  BY <1>3, WordsThere, Zenon
<1>6. 1 \in Nat \ {0}
  OBVIOUS
<1>7. 1 \in 1..Len(line)
  BY <1>2
<1> QED BY <1>2, <1>4, <1>5, <1>6, <1>7, Zenon

LEMMA TwoWords ==
  ASSUME NEW v \in Keywords, NEW w \in Keywords, NEW line,
         line = <<Word(v), Word(w)>>
  PROVE  /\ line \in Seq(Typeable) /\ Len(line) = 2 /\ WordAt(line, 1, v)
         /\ WordAt(line, 2, w) /\ KindAt(line, 3) = "end"
<1>1. Word(w) \in Typeable
  BY SentenceTokens
<1>2. /\ line \in Seq(Typeable) /\ Len(line) = 2 /\ WordAt(line, 1, v)
      /\ line[2] = Word(w) /\ KindAt(line, 3) = "end"
  BY <1>1, WordAndToken
<1>3. line \in Seq(Tokens)
  BY <1>2, LineOfTokens
<1>5. \A i \in Nat \ {0} : \A x \in Keywords :
        WordAt(line, i, x) <=> i \in 1..Len(line) /\ line[i] = Word(x)
  BY <1>3, WordsThere, Zenon
<1>6. 1 \in Nat \ {0} /\ 2 \in Nat \ {0}
  OBVIOUS
<1>7. 1 \in 1..Len(line) /\ 2 \in 1..Len(line)
  BY <1>2
<1> QED BY <1>2, <1>5, <1>6, <1>7, Zenon

LEMMA WordsAndToken ==
  ASSUME NEW v \in Keywords, NEW w \in Keywords, NEW t \in Typeable, NEW line,
         line = <<Word(v), Word(w), t>>
  PROVE  /\ line \in Seq(Typeable) /\ Len(line) = 3 /\ WordAt(line, 1, v)
         /\ WordAt(line, 2, w) /\ line[3] = t /\ KindAt(line, 3) = t.kind
<1>1. Word(v) \in Typeable /\ Word(w) \in Typeable
  BY SentenceTokens
<1>2. /\ line \in Seq(Typeable) /\ Len(line) = 3 /\ line[1] = Word(v)
      /\ line[2] = Word(w) /\ line[3] = t
  BY <1>1, LineOf3
<1>3. line \in Seq(Tokens)
  BY <1>2, LineOfTokens
<1>4. KindAt(line, 3) = t.kind
  BY <1>2 DEF KindAt
<1>5. \A i \in Nat \ {0} : \A x \in Keywords :
        WordAt(line, i, x) <=> i \in 1..Len(line) /\ line[i] = Word(x)
  BY <1>3, WordsThere, Zenon
<1>6. 1 \in Nat \ {0} /\ 2 \in Nat \ {0}
  OBVIOUS
<1>7. 1 \in 1..Len(line) /\ 2 \in 1..Len(line)
  BY <1>2
<1> QED BY <1>2, <1>4, <1>5, <1>6, <1>7, Zenon

LEMMA Assignment ==
  ASSUME NEW u \in Keywords, NEW v \in Keywords, NEW w \in Keywords,
         NEW e \in Typeable, NEW t \in Typeable, NEW line,
         line = <<Word(u), Word(v), Word(w), e, t>>
  PROVE  /\ line \in Seq(Typeable) /\ Len(line) = 5
         /\ WordAt(line, 1, u) /\ WordAt(line, 2, v) /\ WordAt(line, 3, w)
         /\ KindAt(line, 4) = e.kind
         /\ line[5] = t /\ KindAt(line, 5) = t.kind
<1>1. Word(u) \in Typeable /\ Word(v) \in Typeable /\ Word(w) \in Typeable
  BY SentenceTokens
<1>2. /\ line \in Seq(Typeable) /\ Len(line) = 5 /\ line[1] = Word(u)
      /\ line[2] = Word(v) /\ line[3] = Word(w) /\ line[4] = e /\ line[5] = t
  BY <1>1, LineOf5
<1>3. line \in Seq(Tokens)
  BY <1>2, LineOfTokens
<1>4. KindAt(line, 4) = e.kind /\ KindAt(line, 5) = t.kind
  BY <1>2 DEF KindAt
<1>5. \A i \in Nat \ {0} : \A x \in Keywords :
        WordAt(line, i, x) <=> i \in 1..Len(line) /\ line[i] = Word(x)
  BY <1>3, WordsThere, Zenon
<1>6. 1 \in Nat \ {0} /\ 2 \in Nat \ {0} /\ 3 \in Nat \ {0}
  OBVIOUS
<1>7. 1 \in 1..Len(line) /\ 2 \in 1..Len(line) /\ 3 \in 1..Len(line)
  BY <1>2
<1> QED BY <1>2, <1>4, <1>5, <1>6, <1>7, Zenon

\* A sentence, read to its end.
IsRead(line, command) ==
  /\ line \in Seq(Typeable) /\ Len(line) \in {1, 2, 3, 5}
  /\ Reads(line, command, Len(line) + 1) /\ Begins(line, Len(line))

LEMMA SaysIsRead ==
  ASSUME NEW line, NEW command, Says(line, command)
  PROVE  IsRead(line, command)
<1>0. 1 + 1 = 2 /\ 2 + 1 = 3 /\ 3 + 1 = 4 /\ 5 + 1 = 6
  OBVIOUS
<1>1. ASSUME NEW v \in DOMAIN Catalog, line = <<Word(v)>>,
             Reads(line, command, 2)
      PROVE  IsRead(line, command)
  <2>1. v \in Keywords
    BY KeywordsAre, CommandNames
  <2>2. line \in Seq(Typeable) /\ Len(line) = 1 /\ WordAt(line, 1, v)
    BY <1>1, <2>1, OneWord
  <2>3. Begins(line, 1)
    BY <2>2 DEF Begins
  <2> QED BY <1>0, <1>1, <2>2, <2>3 DEF IsRead
<1>2. \A v \in Keywords : line = <<Word(v)>> =>
        WordAt(line, 1, v) /\ KindAt(line, 2) = "end"
  BY OneWord
<1>3. CASE /\ line = <<Word("status")>>
           /\ command = Command("status", "", 0, {}, {})
  <2>1. PICK v \in DOMAIN Catalog : v = "status"
    BY CommandNames
  <2>2. v \in Keywords
    BY KeywordsAre, CommandNames
  <2>3. WordAt(line, 1, v)
    BY <1>2, <1>3, <2>1, <2>2
  <2>4. Reads(line, command, 2)
    BY <1>3, <2>1, <2>3, Zenon DEF Reads
  <2> QED BY <1>1, <1>3, <2>1, <2>4
<1>4. CASE line = <<Word("help")>> /\ command = Command("help", "", 0, {}, {})
  <2>1. PICK v \in DOMAIN Catalog : v = "help"
    BY CommandNames
  <2>2. v \in Keywords
    BY KeywordsAre, CommandNames
  <2>3. WordAt(line, 1, v) /\ KindAt(line, 2) = "end"
    BY <1>2, <1>4, <2>1, <2>2
  <2>4. Reads(line, command, 2)
    BY <1>4, <2>1, <2>3, Zenon DEF Reads
  <2> QED BY <1>1, <1>4, <2>1, <2>4
<1>5. CASE /\ line = <<Word("reboot")>>
           /\ command = Command("reboot", "RebootNow", 0, {}, {})
  <2>1. PICK v \in DOMAIN Catalog : v = "reboot"
    BY CommandNames
  <2>2. v \in Keywords
    BY KeywordsAre, CommandNames
  <2>3. WordAt(line, 1, v) /\ KindAt(line, 2) = "end"
    BY <1>2, <1>5, <2>1, <2>2
  <2>4. Reads(line, command, 2)
    BY <1>5, <2>1, <2>3, Zenon DEF Reads
  <2> QED BY <1>1, <1>5, <2>1, <2>4
<1>6. CASE /\ line = <<Word("recovery")>>
           /\ command = Command("recovery", "RecoveryEnter", 0, {}, {})
  <2>1. PICK v \in DOMAIN Catalog : v = "recovery"
    BY CommandNames
  <2>2. v \in Keywords
    BY KeywordsAre, CommandNames
  <2>3. WordAt(line, 1, v) /\ KindAt(line, 2) = "end"
    BY <1>2, <1>6, <2>1, <2>2
  <2>4. Reads(line, command, 2)
    BY <1>6, <2>1, <2>3, Zenon DEF Reads
  <2> QED BY <1>1, <1>6, <2>1, <2>4
<1>7. ASSUME NEW v \in Keywords, NEW w \in Keywords,
             line = <<Word(v), Word(w)>>
      PROVE  /\ line \in Seq(Typeable) /\ Len(line) = 2 /\ WordAt(line, 1, v)
             /\ WordAt(line, 2, w) /\ KindAt(line, 3) = "end"
  BY <1>7, TwoWords
<1>8. ASSUME NEW w \in {"now", "enter", "exit", "recover"},
             NEW v \in Keywords, line = <<Word(v), Word(w)>>,
             Reads(line, command, 3), Begins(line, 2)
      PROVE  IsRead(line, command)
  <2>1. w \in Keywords
    BY KeywordsAre
  <2>2. line \in Seq(Typeable) /\ Len(line) = 2
    BY <1>7, <1>8, <2>1
  <2> QED BY <1>0, <1>8, <2>2 DEF IsRead
<1>9. CASE /\ line = <<Word("reboot"), Word("now")>>
           /\ command = Command("reboot", "RebootNow", 0, {}, {})
  <2>1. PICK v \in Keywords, w \in Keywords : v = "reboot" /\ w = "now"
    BY KeywordsAre
  <2>2. WordAt(line, 1, v) /\ WordAt(line, 2, w)
    BY <1>7, <1>9, <2>1
  <2>3. Reads(line, command, 3) /\ Begins(line, 2)
    BY <1>9, <2>1, <2>2, Zenon DEF Reads, Begins
  <2> QED BY <1>8, <1>9, <2>1, <2>3
<1>10. CASE /\ line = <<Word("recovery"), Word("enter")>>
            /\ command = Command("recovery", "RecoveryEnter", 0, {}, {})
  <2>1. PICK v \in Keywords, w \in Keywords : v = "recovery" /\ w = "enter"
    BY KeywordsAre
  <2>2. WordAt(line, 1, v) /\ WordAt(line, 2, w)
    BY <1>7, <1>10, <2>1
  <2>3. Reads(line, command, 3) /\ Begins(line, 2)
    BY <1>10, <2>1, <2>2, Zenon DEF Reads, Begins
  <2> QED BY <1>8, <1>10, <2>1, <2>3
<1>11. CASE /\ line = <<Word("recovery"), Word("exit")>>
            /\ command = Command("recovery", "RecoveryExit", 0, {}, {})
  <2>1. PICK v \in Keywords, w \in Keywords : v = "recovery" /\ w = "exit"
    BY KeywordsAre
  <2>2. WordAt(line, 1, v) /\ WordAt(line, 2, w)
    BY <1>7, <1>11, <2>1
  <2>3. Reads(line, command, 3) /\ Begins(line, 2)
    BY <1>11, <2>1, <2>2, Zenon DEF Reads, Begins
  <2> QED BY <1>8, <1>11, <2>1, <2>3
<1>12. CASE /\ line = <<Word("recovery"), Word("now")>>
            /\ command = Command("recovery", "RecoveryNow", 0, {}, {})
  <2>1. PICK v \in Keywords, w \in Keywords : v = "recovery" /\ w = "now"
    BY KeywordsAre
  <2>2. WordAt(line, 1, v) /\ WordAt(line, 2, w)
    BY <1>7, <1>12, <2>1
  <2>3. Reads(line, command, 3) /\ Begins(line, 2)
    BY <1>12, <2>1, <2>2, Zenon DEF Reads, Begins
  <2> QED BY <1>8, <1>12, <2>1, <2>3
<1>13. CASE /\ line = <<Word("fault"), Word("recover")>>
            /\ command = Command("fault", "", 0, {}, {})
  <2>1. PICK v \in Keywords, w \in Keywords : v = "fault" /\ w = "recover"
    BY KeywordsAre
  <2>2. WordAt(line, 1, v) /\ WordAt(line, 2, w) /\ KindAt(line, 3) = "end"
    BY <1>7, <1>13, <2>1
  <2>3. Reads(line, command, 3) /\ Begins(line, 2)
    BY <1>13, <2>1, <2>2, Zenon DEF Reads, Begins
  <2> QED BY <1>8, <1>13, <2>1, <2>3
<1>14. CASE \E t \in Idents : /\ line = <<Word("help"), t>>
                              /\ command = Command("help", "", 0, {}, {t.word})
  <2>1. PICK t \in Idents : /\ line = <<Word("help"), t>>
                            /\ command = Command("help", "", 0, {}, {t.word})
    BY <1>14
  <2>2. PICK v \in Keywords : v = "help"
    BY KeywordsAre
  <2>3. t \in Typeable /\ t.kind = "Ident"
    BY SentenceTokens
  <2>4. /\ line \in Seq(Typeable) /\ Len(line) = 2 /\ WordAt(line, 1, v)
        /\ line[2] = t /\ KindAt(line, 2) = "Ident"
    <3>1. line = <<Word(v), t>>
      BY <2>1, <2>2
    <3>2. /\ line \in Seq(Typeable) /\ Len(line) = 2 /\ WordAt(line, 1, v)
          /\ line[2] = t /\ KindAt(line, 2) = t.kind
      BY <2>3, <3>1, WordAndToken
    <3> QED BY <2>3, <3>2
  <2>5. Reads(line, command, 3) /\ Begins(line, 2)
    BY <2>1, <2>2, <2>4, Zenon DEF Reads, Begins
  <2> QED BY <1>0, <2>4, <2>5 DEF IsRead
<1>15. CASE \E t \in Durations :
              /\ line = <<Word("reboot"), Word("delay"), t>>
              /\ command = Command("reboot", "RebootDelay",
                                   t.number * t.unit, {}, {})
  <2>1. PICK t \in Durations :
          /\ line = <<Word("reboot"), Word("delay"), t>>
          /\ command = Command("reboot", "RebootDelay",
                               t.number * t.unit, {}, {})
    BY <1>15
  <2>2. PICK v \in Keywords, w \in Keywords : v = "reboot" /\ w = "delay"
    BY KeywordsAre
  <2>3. t \in Typeable /\ t.kind = "Duration" /\ t.number <= MaxCount
    BY SentenceTokens
  <2>4. /\ line \in Seq(Typeable) /\ Len(line) = 3 /\ WordAt(line, 1, v)
        /\ WordAt(line, 2, w) /\ line[3] = t /\ KindAt(line, 3) = "Duration"
    BY <2>1, <2>2, <2>3, WordsAndToken
  <2>5. line[3].number <= MaxCount /\ ~(line[3].number > MaxCount)
    <3>1. t.number \in Nat /\ MaxCount \in Nat
      BY <2>3, TypeableIs, TokenFacts, GrammarAssumption
    <3> QED BY <2>3, <2>4, <3>1
  <2>6. Reads(line, command, 4) /\ Begins(line, 3)
    BY <2>1, <2>2, <2>4, <2>5, Zenon DEF Reads, Begins
  <2> QED BY <1>0, <2>4, <2>6 DEF IsRead
<1>16. CASE \E t \in Retries :
              /\ line = <<Word("fault"), Word("recover"), Word("retries"),
                          Mark("Equals"), t>>
              /\ command = Command("fault", "FaultRetries", 0, {t.number}, {})
  <2>1. PICK t \in Retries :
          /\ line = <<Word("fault"), Word("recover"), Word("retries"),
                      Mark("Equals"), t>>
          /\ command = Command("fault", "FaultRetries", 0, {t.number}, {})
    BY <1>16
  <2>2. PICK u \in Keywords, v \in Keywords, w \in Keywords :
          u = "fault" /\ v = "recover" /\ w = "retries"
    BY KeywordsAre
  <2>3. t \in Typeable /\ t.kind = "Integer" /\ t.number <= MaxRetries
    BY SentenceTokens, Zenon
  <2>4. PICK e \in Typeable : e = Mark("Equals") /\ e.kind = "Equals"
    BY SentenceTokens, OtherTokens
  <2>5. /\ line \in Seq(Typeable) /\ Len(line) = 5
        /\ WordAt(line, 1, u) /\ WordAt(line, 2, v) /\ WordAt(line, 3, w)
        /\ KindAt(line, 4) = "Equals"
        /\ line[5] = t /\ KindAt(line, 5) = "Integer"
    BY <2>1, <2>2, <2>3, <2>4, Assignment
  <2>6. line[5].number <= MaxRetries /\ ~(line[5].number > MaxRetries)
    <3>1. t.number \in Nat /\ MaxRetries \in Nat
      BY <2>3, TypeableIs, TokenFacts DEF MaxRetries
    <3> QED BY <2>3, <2>5, <3>1
  <2>7. Reads(line, command, 6)
    BY <2>1, <2>2, <2>5, <2>6, Zenon DEF Reads
  <2>8. 5 \in 3..5
    OBVIOUS
  <2>9. Begins(line, 5)
    BY <2>2, <2>5, <2>6, <2>8, Zenon DEF Begins
  <2> QED BY <1>0, <2>5, <2>7, <2>9 DEF IsRead
<1> QED BY <1>3, <1>4, <1>5, <1>6, <1>9, <1>10, <1>11, <1>12, <1>13, <1>14,
           <1>15, <1>16, Zenon DEF Says

LEMMA ReadIsSaid ==
  ASSUME NEW line \in Seq(Typeable), NEW command,
         Reads(line, command, Len(line) + 1)
  PROVE  Says(line, command)
<1>0. /\ line \in Seq(Tokens) /\ Len(line) \in Nat
      /\ \A i \in 1..Len(line) : line[i] \in Typeable
  BY LineOfTokens
<1>1. ASSUME NEW i \in Nat \ {0}, NEW w \in Keywords, WordAt(line, i, w)
      PROVE  line[i] = Word(w)
  BY <1>0, <1>1, WordsThere
<1>2. \A w \in Keywords : /\ WordAt(line, 1, w) => line[1] = Word(w)
                          /\ WordAt(line, 2, w) => line[2] = Word(w)
                          /\ WordAt(line, 3, w) => line[3] = Word(w)
  BY <1>1
<1>3. /\ Len(line) + 1 = 2 => Len(line) = 1
      /\ Len(line) + 1 = 3 => Len(line) = 2
      /\ Len(line) + 1 = 4 => Len(line) = 3
      /\ Len(line) + 1 = 6 => Len(line) = 5
  <2>1. PICK n \in Nat : n = Len(line)
    BY <1>0
  <2>2. /\ n + 1 = 2 => n = 1
        /\ n + 1 = 3 => n = 2
        /\ n + 1 = 4 => n = 3
        /\ n + 1 = 6 => n = 5
    OBVIOUS
  <2> QED BY <2>1, <2>2, Zenon
<1>4. /\ Len(line) = 1 => line = <<line[1]>>
      /\ Len(line) = 2 => line = <<line[1], line[2]>>
      /\ Len(line) = 3 => line = <<line[1], line[2], line[3]>>
      /\ Len(line) = 5 => line = <<line[1], line[2], line[3], line[4], line[5]>>
  BY <1>0, LineIs
<1>5. PICK status \in Keywords, help \in Keywords, reboot \in Keywords,
           recovery \in Keywords, fault \in Keywords, recover \in Keywords :
        /\ status = "status" /\ help = "help" /\ reboot = "reboot"
        /\ recovery = "recovery" /\ fault = "fault" /\ recover = "recover"
  BY KeywordsAre
<1>6. PICK now \in Keywords, later \in Keywords, enter \in Keywords,
           exit \in Keywords, retries \in Keywords :
        /\ now = "now" /\ later = "delay" /\ enter = "enter" /\ exit = "exit"
        /\ retries = "retries"
  BY KeywordsAre
<1>7. CASE /\ WordAt(line, 1, "status") /\ Len(line) + 1 = 2
           /\ command = Command("status", "", 0, {}, {})
  <2>1. line = <<Word("status")>>
    BY <1>2, <1>3, <1>4, <1>5, <1>7, Zenon
  <2> QED BY <1>7, <2>1, Zenon DEF Says
<1>8. CASE /\ WordAt(line, 1, "help") /\ Len(line) + 1 = 2
           /\ command = Command("help", "", 0, {}, {})
  <2>1. line = <<Word("help")>>
    BY <1>2, <1>3, <1>4, <1>5, <1>8, Zenon
  <2> QED BY <1>8, <2>1, Zenon DEF Says
<1>9. CASE /\ WordAt(line, 1, "reboot") /\ Len(line) + 1 = 2
           /\ command = Command("reboot", "RebootNow", 0, {}, {})
  <2>1. line = <<Word("reboot")>>
    BY <1>2, <1>3, <1>4, <1>5, <1>9, Zenon
  <2> QED BY <1>9, <2>1, Zenon DEF Says
<1>10. CASE /\ WordAt(line, 1, "recovery") /\ Len(line) + 1 = 2
            /\ command = Command("recovery", "RecoveryEnter", 0, {}, {})
  <2>1. line = <<Word("recovery")>>
    BY <1>2, <1>3, <1>4, <1>5, <1>10, Zenon
  <2> QED BY <1>10, <2>1, Zenon DEF Says
<1>11. CASE /\ WordAt(line, 1, "reboot") /\ WordAt(line, 2, "now")
            /\ Len(line) + 1 = 3
            /\ command = Command("reboot", "RebootNow", 0, {}, {})
  <2>1. line = <<Word("reboot"), Word("now")>>
    BY <1>2, <1>3, <1>4, <1>5, <1>6, <1>11, Zenon
  <2> QED BY <1>11, <2>1, Zenon DEF Says
<1>12. CASE /\ WordAt(line, 1, "recovery") /\ WordAt(line, 2, "enter")
            /\ Len(line) + 1 = 3
            /\ command = Command("recovery", "RecoveryEnter", 0, {}, {})
  <2>1. line = <<Word("recovery"), Word("enter")>>
    BY <1>2, <1>3, <1>4, <1>5, <1>6, <1>12, Zenon
  <2> QED BY <1>12, <2>1, Zenon DEF Says
<1>13. CASE /\ WordAt(line, 1, "recovery") /\ WordAt(line, 2, "exit")
            /\ Len(line) + 1 = 3
            /\ command = Command("recovery", "RecoveryExit", 0, {}, {})
  <2>1. line = <<Word("recovery"), Word("exit")>>
    BY <1>2, <1>3, <1>4, <1>5, <1>6, <1>13, Zenon
  <2> QED BY <1>13, <2>1, Zenon DEF Says
<1>14. CASE /\ WordAt(line, 1, "recovery") /\ WordAt(line, 2, "now")
            /\ Len(line) + 1 = 3
            /\ command = Command("recovery", "RecoveryNow", 0, {}, {})
  <2>1. line = <<Word("recovery"), Word("now")>>
    BY <1>2, <1>3, <1>4, <1>5, <1>6, <1>14, Zenon
  <2> QED BY <1>14, <2>1, Zenon DEF Says
<1>15. CASE /\ WordAt(line, 1, "fault") /\ WordAt(line, 2, "recover")
            /\ Len(line) + 1 = 3
            /\ command = Command("fault", "", 0, {}, {})
  <2>1. line = <<Word("fault"), Word("recover")>>
    BY <1>2, <1>3, <1>4, <1>5, <1>15, Zenon
  <2> QED BY <1>15, <2>1, Zenon DEF Says
<1>16. CASE /\ WordAt(line, 1, "help") /\ KindAt(line, 2) = "Ident"
            /\ Len(line) + 1 = 3
            /\ command = Command("help", "", 0, {}, {line[2].word})
  <2>1. line = <<Word("help"), line[2]>>
    BY <1>2, <1>3, <1>4, <1>5, <1>16, Zenon
  <2>2. line[2] \in Typeable /\ line[2].kind = "Ident"
    <3>0. Len(line) = 2 /\ 2 \in 1..2
      <4>1. 2 \in 1..2
        OBVIOUS
      <4> QED BY <1>3, <1>16, <4>1, Zenon
    <3>1. 2 \in 1..Len(line)
      BY <3>0, Zenon
    <3>2. KindAt(line, 2) = line[2].kind
      BY <1>0, <3>1 DEF KindAt
    <3> QED BY <1>0, <1>16, <3>1, <3>2
  <2>3. line[2] \in Idents
    BY <2>2, TypeableIs
  <2> QED BY <1>16, <2>1, <2>3, Zenon DEF Says
<1>17. CASE /\ WordAt(line, 1, "reboot") /\ WordAt(line, 2, "delay")
            /\ Len(line) + 1 = 4
            /\ KindAt(line, 3) = "Duration" /\ ~(line[3].number > MaxCount)
            /\ command = Command("reboot", "RebootDelay",
                                 line[3].number * line[3].unit, {}, {})
  <2>1. line = <<Word("reboot"), Word("delay"), line[3]>>
    BY <1>2, <1>3, <1>4, <1>5, <1>6, <1>17, Zenon
  <2>2. line[3] \in Typeable /\ line[3].kind = "Duration"
    BY <1>0, <1>3, <1>17, KindInLine
  <2>3. line[3].number \in Nat /\ MaxCount \in Nat
    BY <2>2, TypeableIs, TokenFacts, GrammarAssumption
  <2>4. line[3].number <= MaxCount
    BY <1>17, <2>3
  <2>5. line[3] \in Durations
    BY <2>2, <2>4, TypeableIs
  <2> QED BY <1>17, <2>1, <2>5, Zenon DEF Says
<1>18. CASE /\ WordAt(line, 1, "fault") /\ WordAt(line, 2, "recover")
            /\ WordAt(line, 3, "retries") /\ Len(line) + 1 = 6
            /\ KindAt(line, 4) = "Equals"
            /\ KindAt(line, 5) = "Integer" /\ ~(line[5].number > MaxRetries)
            /\ command = Command("fault", "FaultRetries", 0,
                                 {line[5].number}, {})
  <2>1. /\ line[4] \in Tokens /\ line[4].kind = "Equals"
        /\ line[5] \in Typeable /\ line[5].kind = "Integer"
    <3>1. line[5] \in Typeable
      BY <1>0, <1>3, <1>18
    <3> QED BY <1>0, <1>18, <3>1, KindInLine
  <2>2. line[4] = Mark("Equals")
    BY <2>1, TokenFacts
  <2>3. line = <<Word("fault"), Word("recover"), Word("retries"),
                 Mark("Equals"), line[5]>>
    BY <1>2, <1>3, <1>4, <1>5, <1>6, <1>18, <2>2, Zenon
  <2>4. line[5].number \in Nat /\ MaxRetries \in Nat
    BY <2>1, TypeableIs, TokenFacts DEF MaxRetries
  <2>5. line[5].number <= MaxRetries
    BY <1>18, <2>4
  <2>6. line[5] \in Retries
    BY <2>1, <2>5, TypeableIs
  <2> QED BY <1>18, <2>3, <2>6, Zenon DEF Says
<1>19. ASSUME NEW i \in Nat \ {0}, KindAt(line, i) \in {"Eol", "end"}
       PROVE  i > Len(line)
  <2>1. KindAt(line, i) # "Eol"
    <3>1. CASE i \in 1..Len(line)
      BY <1>0, <3>1, TypeableIs DEF KindAt
    <3>2. CASE i \notin 1..Len(line)
      BY <1>0, <3>2 DEF KindAt
    <3> QED BY <3>1, <3>2
  <2>2. KindAt(line, i) = "end"
    BY <1>19, <2>1
  <2>3. CASE i \in 1..Len(line)
    <3>1. line[i].kind \in TokenKinds /\ line[i].kind = "end"
      BY <1>0, <2>2, <2>3, TypeableIs, TokenFacts DEF KindAt
    <3> QED BY <3>1 DEF TokenKinds
  <2> QED BY <1>0, <2>3
<1> QED BY <1>7, <1>8, <1>9, <1>10, <1>11, <1>12, <1>13, <1>14, <1>15, <1>16,
           <1>17, <1>18, Zenon DEF Reads

\* What is read of a line leaves no room for another reading,
LEMMA ReadsOnce ==
  ASSUME NEW line, NEW command, NEW at, Reads(line, command, at),
         NEW other, NEW there, Reads(line, other, there)
  PROVE  other = command /\ there = at
<1>1. CASE WordAt(line, 1, "status")
  BY <1>1 DEF Reads, WordAt
<1>2. CASE WordAt(line, 1, "help")
  BY <1>2 DEF Reads, WordAt
<1>3. CASE WordAt(line, 1, "reboot")
  BY <1>3 DEF Reads, WordAt
<1>4. CASE WordAt(line, 1, "recovery")
  BY <1>4 DEF Reads, WordAt
<1>5. CASE WordAt(line, 1, "fault")
  BY <1>5 DEF Reads, WordAt
<1> QED BY <1>1, <1>2, <1>3, <1>4, <1>5 DEF Reads

\* or for a wrong token.
LEMMA ReadsNotStops ==
  ASSUME NEW line, NEW command, NEW at, Reads(line, command, at), NEW there
  PROVE  ~Stops(line, there)
<1>0. DOMAIN Catalog = {"reboot", "recovery", "fault", "status", "help"}
  BY CommandNames
<1>1. CASE WordAt(line, 1, "status")
  BY <1>0, <1>1 DEF Stops, WordAt
<1>2. CASE WordAt(line, 1, "help")
  BY <1>0, <1>2 DEF Reads, Stops, WordAt
<1>3. CASE WordAt(line, 1, "reboot")
  BY <1>0, <1>3 DEF Reads, Stops, WordAt
<1>4. CASE WordAt(line, 1, "recovery")
  BY <1>0, <1>4 DEF Reads, Stops, WordAt
<1>5. CASE WordAt(line, 1, "fault")
  BY <1>0, <1>5 DEF Reads, Stops, WordAt
<1> QED BY <1>1, <1>2, <1>3, <1>4, <1>5 DEF Reads

-----------------------------------------------------------------------------
(* How far a line is the beginning of a sentence.                          *)

\* A line that a sentence goes on from.
LEMMA GoesOn ==
  ASSUME NEW line \in Seq(Typeable), NEW full, NEW command,
         Says(full, command), Len(line) <= Len(full),
         \A i \in 1..Len(line) : line[i] = full[i]
  PROVE  line \in Beginnings
<1> DEFINE n == Len(line)
<1>0. n \in Nat
  BY LineOfTokens
<1>1. full \in Seq(Typeable) /\ Len(full) \in {1, 2, 3, 5}
  BY SaysIsRead DEF IsRead
<1>4. PICK s \in Readable : s.line = full
  BY SentencesAre
<1>5. SubSeq(full, 1, n) = line
  <2>1. full \in Seq(Tokens) /\ line \in Seq(Tokens)
    BY <1>1, LineOfTokens
  <2>2. n \in 0..Len(full)
    BY <1>0, <1>1
  <2>3. /\ SubSeq(full, 1, n) \in Seq(Tokens) /\ Len(SubSeq(full, 1, n)) = n
        /\ \A i \in 1..n : SubSeq(full, 1, n)[i] = full[i]
    BY <2>1, <2>2, PrefixIs
  <2> QED BY <2>1, <2>3, SeqEqual
<1>6. n \in 0..Len(full)
  BY <1>0, <1>1
<1> HIDE DEF n
<1>7. line \in Prefixes(full)
  BY <1>5, <1>6 DEF Prefixes
<1> QED BY <1>4, <1>7 DEF Beginnings

LEMMA WholeLine ==
  ASSUME NEW line \in Seq(Typeable), NEW command,
         Reads(line, command, Len(line) + 1)
  PROVE  line \in Beginnings
<1>1. Says(line, command) /\ Len(line) \in Nat
  BY ReadIsSaid, LineOfTokens
<1> QED BY <1>1, GoesOn

LEMMA BeginningBegins ==
  ASSUME NEW line \in Beginnings
  PROVE  Begins(line, Len(line))
<1>1. PICK s \in Readable : line \in Prefixes(s.line)
  BY DEF Beginnings
<1>2. IsRead(s.line, s.command)
  BY SentencesAre, SaysIsRead
<1>3. s.line \in Seq(Typeable) /\ Begins(s.line, Len(s.line))
  BY <1>2 DEF IsRead
<1>4. s.line \in Seq(Tokens) /\ Len(s.line) \in Nat
  BY <1>3, LineOfTokens
<1>5. PICK m \in 0..Len(s.line) : line = SubSeq(s.line, 1, m)
  BY <1>1 DEF Prefixes
<1>7. Begins(s.line, m)
  BY <1>3, <1>4, <1>5, BeginsBefore
<1>8. Begins(SubSeq(s.line, 1, m), m) /\ Len(SubSeq(s.line, 1, m)) = m
  <2>1. m \in 0..m
    BY <1>5
  <2> QED BY <1>4, <1>5, <1>7, <2>1, PrefixBegins, PrefixIs
<1> QED BY <1>5, <1>8

\* The two sentences that have beginnings which are none themselves.
LEMMA LongSentences ==
  /\ \E t \in Durations : \E command :
       Says(<<Word("reboot"), Word("delay"), t>>, command)
  /\ \E t \in Retries : \E command :
       Says(<<Word("fault"), Word("recover"), Word("retries"),
              Mark("Equals"), t>>, command)
  /\ \E command : Says(<<Word("fault"), Word("recover")>>, command)
<1>1. PICK t \in Durations : TRUE
  BY ConsoleLineAssumption DEF Durations
<1>2. PICK u \in Retries : TRUE
  <2>1. IntegerOf(1) \in Numbers
    BY DEF Numbers
  <2>2. IntegerOf(1).number <= MaxRetries
    BY OtherTokens DEF MaxRetries
  <2> QED BY <2>1, <2>2 DEF Retries
<1>3. \E command : Says(<<Word("reboot"), Word("delay"), t>>, command)
  BY <1>1, Zenon DEF Says
<1>4. \E command : Says(<<Word("fault"), Word("recover"), Word("retries"),
                          Mark("Equals"), u>>, command)
  BY <1>2, Zenon DEF Says
<1>5. \E command : Says(<<Word("fault"), Word("recover")>>, command)
  BY Zenon DEF Says
<1> QED BY <1>1, <1>2, <1>3, <1>4, <1>5, Zenon

LEMMA BeginsBeginning ==
  ASSUME NEW line \in Seq(Typeable), Begins(line, Len(line))
  PROVE  line \in Beginnings
<1> DEFINE n == Len(line)
<1>0. /\ line \in Seq(Tokens) /\ n \in Nat
      /\ \A i \in 1..n : line[i] \in Typeable
  BY LineOfTokens
<1>1. ASSUME NEW i \in Nat \ {0}, NEW w \in Keywords, WordAt(line, i, w)
      PROVE  line[i] = Word(w)
  BY <1>0, <1>1, WordsThere
<1>2. \A w \in Keywords : /\ WordAt(line, 1, w) => line[1] = Word(w)
                          /\ WordAt(line, 2, w) => line[2] = Word(w)
                          /\ WordAt(line, 3, w) => line[3] = Word(w)
  BY <1>1
<1>3. PICK reboot \in Keywords, later \in Keywords, fault \in Keywords,
           recover \in Keywords, retries \in Keywords :
        /\ reboot = "reboot" /\ later = "delay"
        /\ fault = "fault" /\ recover = "recover" /\ retries = "retries"
  BY KeywordsAre
<1>4. KindAt(line, n + 1) = "end"
  BY <1>0 DEF KindAt
<1>5. /\ 0 + 1 = 1 /\ 1 + 1 = 2 /\ 2 + 1 = 3 /\ 3 + 1 = 4 /\ 5 + 1 = 6
  OBVIOUS
<1>6. ASSUME NEW command, Reads(line, command, n + 1) PROVE line \in Beginnings
  BY <1>6, WholeLine
<1>a. PICK d \in Durations : \E command :
        Says(<<Word("reboot"), Word("delay"), d>>, command)
  BY LongSentences, Zenon
<1>7. PICK delaying : Says(<<Word("reboot"), Word("delay"), d>>, delaying)
  BY <1>a
<1>b. PICK c \in Retries : \E command :
        Says(<<Word("fault"), Word("recover"), Word("retries"),
               Mark("Equals"), c>>, command)
  BY LongSentences, Zenon
<1>8. PICK retrying :
        Says(<<Word("fault"), Word("recover"), Word("retries"),
               Mark("Equals"), c>>, retrying)
  BY <1>b
<1>9. PICK recovered : Says(<<Word("fault"), Word("recover")>>, recovered)
  BY LongSentences, Zenon
<1> HIDE DEF n
<1>10. CASE n = 0
  <2>1. PICK full : full = <<Word("fault"), Word("recover")>>
    OBVIOUS
  <2>2. Says(full, recovered) /\ Len(full) = 2
    BY <1>9, <2>1
  <2>3. Len(line) = 0
    BY <1>10 DEF n
  <2>4. Len(line) <= Len(full) /\ \A i \in 1..Len(line) : line[i] = full[i]
    <3>1. 0 <= 2 /\ \A i \in 1..0 : line[i] = full[i]
      OBVIOUS
    <3> QED BY <2>2, <2>3, <3>1, Zenon
  <2> QED BY <2>2, <2>4, GoesOn
<1>11. CASE n = 1
  <2>0. Begins(line, 1)
    BY <1>11 DEF n
  <2>1. PICK name \in DOMAIN Catalog : WordAt(line, 1, name)
    BY <2>0 DEF Begins
  <2>2. KindAt(line, 2) = "end" /\ n + 1 = 2
    BY <1>4, <1>5, <1>11
  <2>3. CASE name # "fault"
    <3>1. name \in {"reboot", "recovery", "status", "help"}
      BY <2>3, CommandNames
    <3>2. \E command : Reads(line, command, 2)
      BY <2>1, <2>2, <3>1 DEF Reads
    <3> QED BY <1>6, <2>2, <3>2, Zenon
  <2>4. CASE name = "fault"
    <3>1. line[1] = Word("fault")
      BY <1>2, <1>3, <2>1, <2>4, Zenon
    <3>2. PICK full : full = <<Word("fault"), Word("recover")>>
      OBVIOUS
    <3>3. Says(full, recovered) /\ Len(full) = 2 /\ full[1] = Word("fault")
      BY <1>9, <3>2
    <3>4. Len(line) = 1
      BY <1>11 DEF n
    <3>5. Len(line) <= Len(full) /\ \A i \in 1..Len(line) : line[i] = full[i]
      <4>1. 1 <= 2 /\ \A i \in 1..1 : i = 1
        OBVIOUS
      <4> QED BY <3>1, <3>3, <3>4, <4>1, Zenon
    <3> QED BY <3>3, <3>5, GoesOn
  <2> QED BY <2>3, <2>4
<1>12. CASE n = 2 /\ WordAt(line, 1, "reboot") /\ WordAt(line, 2, "delay")
  <2>1. line[1] = Word("reboot") /\ line[2] = Word("delay")
    BY <1>2, <1>3, <1>12, Zenon
  <2>2. PICK full : full = <<Word("reboot"), Word("delay"), d>>
    OBVIOUS
  <2>3. /\ Says(full, delaying) /\ Len(full) = 3
        /\ full[1] = Word("reboot") /\ full[2] = Word("delay")
    BY <1>7, <2>2
  <2>4. Len(line) = 2
    BY <1>12 DEF n
  <2>5. Len(line) <= Len(full) /\ \A i \in 1..Len(line) : line[i] = full[i]
    <3>1. 2 <= 3 /\ \A i \in 1..2 : i = 1 \/ i = 2
      OBVIOUS
    <3> QED BY <2>1, <2>3, <2>4, <3>1, Zenon
  <2> QED BY <2>3, <2>5, GoesOn
<1>13. CASE n = 2 /\ ~(WordAt(line, 1, "reboot") /\ WordAt(line, 2, "delay"))
  <2>1. KindAt(line, 3) = "end" /\ n + 1 = 3
    BY <1>4, <1>5, <1>13
  <2>2. Begins(line, 2)
    BY <1>13 DEF n
  <2>3. \/ WordAt(line, 1, "help") /\ KindAt(line, 2) = "Ident"
        \/ WordAt(line, 1, "reboot") /\ WordAt(line, 2, "now")
        \/ /\ WordAt(line, 1, "recovery")
           /\ \/ WordAt(line, 2, "enter") \/ WordAt(line, 2, "exit")
              \/ WordAt(line, 2, "now")
        \/ WordAt(line, 1, "fault") /\ WordAt(line, 2, "recover")
    BY <1>13, <2>2 DEF Begins
  <2>4. \E command : Reads(line, command, 3)
    BY <2>1, <2>3, Zenon DEF Reads
  <2> QED BY <1>6, <2>1, <2>4, Zenon
<1>14. CASE n = 3 /\ WordAt(line, 1, "reboot")
  <2>1. Begins(line, 3) /\ n + 1 = 4
    BY <1>5, <1>14 DEF n
  <2>2. /\ WordAt(line, 2, "delay") /\ KindAt(line, 3) = "Duration"
        /\ line[3].number <= MaxCount
    BY <1>14, <2>1 DEF Begins, WordAt
  <2>3. ~(line[3].number > MaxCount)
    <3>1. line[3] \in Tokens
      BY <1>0, <2>2, KindInLine
    <3>2. line[3].number \in Nat /\ MaxCount \in Nat
      BY <3>1, TokenFacts, GrammarAssumption
    <3> QED BY <2>2, <3>2
  <2>4. \E command : Reads(line, command, 4)
    BY <1>14, <2>2, <2>3, Zenon DEF Reads
  <2> QED BY <1>6, <2>1, <2>4, Zenon
<1>15. CASE n \in {3, 4} /\ WordAt(line, 1, "fault")
  <2>1. Begins(line, n)
    BY DEF n
  <2>2. /\ WordAt(line, 2, "recover") /\ WordAt(line, 3, "retries")
        /\ n = 4 => KindAt(line, 4) = "Equals"
    BY <1>15, <2>1 DEF Begins, WordAt
  <2>3. /\ line[1] = Word("fault") /\ line[2] = Word("recover")
        /\ line[3] = Word("retries")
    BY <1>2, <1>3, <1>15, <2>2, Zenon
  <2>4. ASSUME n = 4 PROVE line[4] = Mark("Equals")
    <3>1. line[4] \in Tokens /\ line[4].kind = "Equals"
      BY <1>0, <2>2, <2>4, KindInLine
    <3> QED BY <3>1, TokenFacts
  <2>5. PICK full : full = <<Word("fault"), Word("recover"), Word("retries"),
                             Mark("Equals"), c>>
    OBVIOUS
  <2>6. /\ Says(full, retrying) /\ Len(full) = 5
        /\ full[1] = Word("fault") /\ full[2] = Word("recover")
        /\ full[3] = Word("retries") /\ full[4] = Mark("Equals")
    BY <1>8, <2>5
  <2>7. Len(line) <= Len(full) /\ \A i \in 1..Len(line) : line[i] = full[i]
    <3>1. CASE n = 3
      <4>1. 3 <= 5 /\ \A i \in 1..3 : i = 1 \/ i = 2 \/ i = 3
        OBVIOUS
      <4> QED BY <2>3, <2>6, <3>1, <4>1, Zenon DEF n
    <3>2. CASE n = 4
      <4>1. 4 <= 5 /\ \A i \in 1..4 : i = 1 \/ i = 2 \/ i = 3 \/ i = 4
        OBVIOUS
      <4> QED BY <2>3, <2>4, <2>6, <3>2, <4>1, Zenon DEF n
    <3> QED BY <1>15, <3>1, <3>2
  <2> QED BY <2>6, <2>7, GoesOn
<1>16. CASE n = 5
  <2>1. Begins(line, 5) /\ n + 1 = 6
    BY <1>5, <1>16 DEF n
  <2>2. /\ WordAt(line, 1, "fault") /\ WordAt(line, 2, "recover")
        /\ WordAt(line, 3, "retries") /\ KindAt(line, 4) = "Equals"
        /\ KindAt(line, 5) = "Integer" /\ line[5].number <= MaxRetries
    BY <2>1 DEF Begins
  <2>3. ~(line[5].number > MaxRetries)
    <3>1. line[5] \in Tokens
      BY <1>0, <2>2, KindInLine
    <3>2. line[5].number \in Nat /\ MaxRetries \in Nat
      BY <3>1, TokenFacts DEF MaxRetries
    <3> QED BY <2>2, <3>2
  <2>4. \E command : Reads(line, command, 6)
    BY <2>2, <2>3, Zenon DEF Reads
  <2> QED BY <1>6, <2>1, <2>4, Zenon
<1>17. \/ n \in {0, 1, 2, 5}
       \/ n = 3 /\ WordAt(line, 1, "reboot")
       \/ n \in {3, 4} /\ WordAt(line, 1, "fault")
  <2>1. Begins(line, n)
    BY DEF n
  <2>2. \A m \in Nat : Begins(line, m) =>
          \/ m \in {0, 1, 2, 5}
          \/ m = 3 /\ WordAt(line, 1, "reboot")
          \/ m \in {3, 4} /\ WordAt(line, 1, "fault")
    BY DEF Begins
  <2> QED BY <1>0, <2>1, <2>2
<1> QED BY <1>10, <1>11, <1>12, <1>13, <1>14, <1>15, <1>16, <1>17

\* Whether the first n tokens are the beginning of a sentence shows in them.
LEMMA BeginningsAre ==
  ASSUME NEW line \in Seq(Typeable), NEW n \in 0..Len(line)
  PROVE  SubSeq(line, 1, n) \in Beginnings <=> Begins(line, n)
<1> DEFINE p == SubSeq(line, 1, n)
<1>0. line \in Seq(Tokens) /\ n \in Nat /\ n \in 0..n
  BY LineOfTokens
<1>1. p \in Seq(Typeable) /\ Len(p) = n
  <2>1. Len(p) = n /\ \A i \in 1..n : p[i] = line[i]
    BY <1>0, PrefixIs
  <2>2. \A i \in 1..n : p[i] \in Typeable
    BY <1>0, <2>1, LineOfTokens
  <2>3. p = [i \in 1..n |-> p[i]]
    BY <1>0, <2>1
  <2> HIDE DEF p
  <2> QED BY <1>0, <2>1, <2>2, <2>3
<1>2. Begins(p, n) <=> Begins(line, n)
  BY <1>0, PrefixBegins
<1> HIDE DEF p
<1>3. p \in Beginnings <=> Begins(p, n)
  BY <1>1, BeginningBegins, BeginsBeginning
<1> QED BY <1>2, <1>3 DEF p

LEMMA SoundIs ==
  ASSUME NEW line \in Seq(Typeable), NEW m \in 0..Len(line), Begins(line, m),
         m < Len(line) => ~Begins(line, m + 1)
  PROVE  Sound(line) = m
<1> DEFINE S == {n \in 0..Len(line) : SubSeq(line, 1, n) \in Beginnings}
<1>0. Len(line) \in Nat /\ m \in Nat
  BY LineOfTokens
<1>1. Sound(line) = Max(S)
  BY DEF Sound
<1>2. \A n \in 0..Len(line) : n \in S <=> Begins(line, n)
  BY BeginningsAre
<1>3. S \subseteq 0..Len(line)
  OBVIOUS
<1> HIDE DEF S
<1>4. m \in S
  BY <1>2
<1>5. ASSUME NEW n \in S PROVE n <= m
  <2>1. Begins(line, n) /\ n \in 0..Len(line)
    BY <1>2, <1>3
  <2>2. CASE n > m
    <3>1. m + 1 \in Nat /\ m + 1 <= n /\ m < Len(line)
      BY <1>0, <2>1, <2>2
    <3> QED BY <2>1, <3>1, BeginsBefore
  <2> QED BY <1>0, <2>1, <2>2
<1>6. S \in SUBSET Nat
  BY <1>0, <1>3
<1> QED BY <1>1, <1>4, <1>5, <1>6, MaxIs

\* A token from the parser's place on, as a number.
LEMMA PlaceIs ==
  ASSUME NEW line \in Seq(Tokens)
  PROVE  /\ \A i \in Nat \ {0} : KindAt(line, i) # "end" => i <= Len(line)
         /\ \A i \in Nat \ {0} : \A w : WordAt(line, i, w) => i <= Len(line)
<1>1. ASSUME NEW i \in Nat \ {0}, KindAt(line, i) # "end" PROVE i <= Len(line)
  <2>1. i \in 1..Len(line) /\ Len(line) \in Nat
    BY <1>1, KindInLine
  <2> QED BY <2>1
<1>2. \A i, w : WordAt(line, i, w) => KindAt(line, i) # "end"
  BY DEF WordAt
<1> QED BY <1>1, <1>2

LEMMA StopsSound ==
  ASSUME NEW line \in Seq(Typeable), NEW at, Stops(line, at)
  PROVE  at \in Nat \ {0} /\ Sound(line) = at - 1
<1>0. line \in Seq(Tokens) /\ Len(line) \in Nat
  BY LineOfTokens
<1>1. at \in 1..5
  BY DEF Stops
<1>2. at - 1 <= Len(line)
  <2>1. 1 - 1 = 0 /\ 2 - 1 = 1 /\ 3 - 1 = 2 /\ 4 - 1 = 3 /\ 5 - 1 = 4
    OBVIOUS
  <2>2. /\ 1 \in Nat \ {0} /\ 2 \in Nat \ {0} /\ 3 \in Nat \ {0}
        /\ 4 \in Nat \ {0} /\ "Equals" # "end" /\ 0 <= Len(line)
    BY <1>0
  <2>3. \/ at = 1
        \/ at = 2 /\ \E w : WordAt(line, 1, w)
        \/ at = 3 /\ \E w : WordAt(line, 2, w)
        \/ at = 4 /\ WordAt(line, 3, "retries")
        \/ at = 5 /\ KindAt(line, 4) = "Equals"
    BY Zenon DEF Stops
  <2> QED BY <1>0, <2>1, <2>2, <2>3, PlaceIs, Zenon
<1>3. Begins(line, at - 1)
  <2>1. CASE at = 1
    BY <2>1 DEF Begins
  <2>2. CASE at = 2
    <3>1. \E name \in DOMAIN Catalog : WordAt(line, 1, name)
      BY <2>2, CommandNames DEF Stops
    <3> QED BY <2>2, <3>1 DEF Begins
  <2>3. CASE at = 3
    <3>1. \/ WordAt(line, 1, "reboot") /\ WordAt(line, 2, "delay")
          \/ WordAt(line, 1, "fault") /\ WordAt(line, 2, "recover")
      BY <2>3 DEF Stops
    <3> QED BY <2>3, <3>1 DEF Begins
  <2>4. CASE at = 4
    <3>1. /\ WordAt(line, 1, "fault") /\ WordAt(line, 2, "recover")
          /\ WordAt(line, 3, "retries")
      BY <2>4 DEF Stops
    <3> QED BY <2>4, <3>1 DEF Begins
  <2>5. CASE at = 5
    <3>1. /\ WordAt(line, 1, "fault") /\ WordAt(line, 2, "recover")
          /\ WordAt(line, 3, "retries") /\ KindAt(line, 4) = "Equals"
      BY <2>5 DEF Stops
    <3> QED BY <2>5, <3>1 DEF Begins
  <2> QED BY <1>1, <2>1, <2>2, <2>3, <2>4, <2>5
<1>4. ~Begins(line, at)
  <2>1. CASE at = 1
    BY <2>1, CommandNames DEF Begins, Stops
  <2>2. CASE at = 2
    BY <2>2 DEF Begins, Stops, WordAt
  <2>3. CASE at = 3
    <3>1. CASE WordAt(line, 1, "reboot")
      <4>1. /\ WordAt(line, 2, "delay")
            /\ KindAt(line, 3) = "Duration" => line[3].number > MaxCount
        BY <2>3, <3>1 DEF Stops, WordAt
      <4>2. KindAt(line, 3) = "Duration" => ~(line[3].number <= MaxCount)
        <5>1. ASSUME KindAt(line, 3) = "Duration"
              PROVE  ~(line[3].number <= MaxCount)
          <6>1. line[3].number \in Nat /\ MaxCount \in Nat
            BY <1>0, <5>1, KindInLine, TokenFacts, GrammarAssumption
          <6> QED BY <4>1, <5>1, <6>1
        <5> QED BY <5>1
      <4> QED BY <2>3, <3>1, <4>2 DEF Begins, WordAt
    <3>2. CASE ~WordAt(line, 1, "reboot")
      BY <2>3, <3>2 DEF Begins, Stops, WordAt
    <3> QED BY <3>1, <3>2
  <2>4. CASE at = 4
    BY <2>4 DEF Begins, Stops, WordAt
  <2>5. CASE at = 5
    <3>1. KindAt(line, 5) = "Integer" => line[5].number > MaxRetries
      BY <2>5 DEF Stops
    <3>2. KindAt(line, 5) = "Integer" => ~(line[5].number <= MaxRetries)
      <4>1. ASSUME KindAt(line, 5) = "Integer"
            PROVE  ~(line[5].number <= MaxRetries)
        <5>1. line[5].number \in Nat /\ MaxRetries \in Nat
          BY <1>0, <4>1, KindInLine, TokenFacts DEF MaxRetries
        <5> QED BY <3>1, <4>1, <5>1
      <4> QED BY <4>1
    <3> QED BY <2>5, <3>2 DEF Begins
  <2> QED BY <1>1, <2>1, <2>2, <2>3, <2>4, <2>5
<1>5. at - 1 \in 0..Len(line) /\ at - 1 + 1 = at
  BY <1>0, <1>1, <1>2
<1> QED BY <1>1, <1>3, <1>4, <1>5, SoundIs

LEMMA ReadsSound ==
  ASSUME NEW line \in Seq(Typeable), NEW command, NEW at,
         Reads(line, command, at)
  PROVE  /\ at \in Nat \ {0} /\ at - 1 <= Len(line)
         /\ at <= Len(line) => Sound(line) = at - 1
<1>0. /\ line \in Seq(Tokens) /\ Len(line) \in Nat
      /\ \A i \in 1..Len(line) : line[i] \in Typeable
  BY LineOfTokens
<1>1. at \in {2, 3, 4, 6}
  BY Zenon DEF Reads
<1>2. at - 1 <= Len(line)
  <2>1. 2 - 1 = 1 /\ 3 - 1 = 2 /\ 4 - 1 = 3 /\ 6 - 1 = 5
    OBVIOUS
  <2>2. /\ 1 \in Nat \ {0} /\ 2 \in Nat \ {0} /\ 3 \in Nat \ {0}
        /\ 5 \in Nat \ {0} /\ "Ident" # "end" /\ "Duration" # "end"
        /\ "Integer" # "end"
    OBVIOUS
  <2>3. \/ at = 2 /\ \E w : WordAt(line, 1, w)
        \/ at = 3 /\ \E w : WordAt(line, 2, w)
        \/ at = 3 /\ KindAt(line, 2) = "Ident"
        \/ at = 4 /\ KindAt(line, 3) = "Duration"
        \/ at = 6 /\ KindAt(line, 5) = "Integer"
    BY Zenon DEF Reads
  <2>4. /\ KindAt(line, 2) = "Ident" => 2 <= Len(line)
        /\ KindAt(line, 3) = "Duration" => 3 <= Len(line)
        /\ KindAt(line, 5) = "Integer" => 5 <= Len(line)
    BY <1>0, <2>2, PlaceIs, Zenon
  <2>5. /\ \A w : WordAt(line, 1, w) => 1 <= Len(line)
        /\ \A w : WordAt(line, 2, w) => 2 <= Len(line)
    BY <1>0, <2>2, PlaceIs, Zenon
  <2> QED BY <2>1, <2>3, <2>4, <2>5, Zenon
<1>3. ASSUME at <= Len(line) PROVE Begins(line, at - 1) /\ ~Begins(line, at)
  <2>1. KindAt(line, at) \notin {"Eol", "end"}
    <3>1. at \in 1..Len(line)
      BY <1>0, <1>1, <1>3
    <3>2. line[at].kind \in TokenKinds /\ line[at].kind # "Eol"
      BY <1>0, <3>1, TypeableIs, TokenFacts
    <3>3. KindAt(line, at) = line[at].kind
      BY <1>3 DEF KindAt
    <3> QED BY <3>2, <3>3 DEF TokenKinds
  <2>0. \/ at = 2 /\ WordAt(line, 1, "status")
        \/ at = 2 /\ KindAt(line, 2) \in {"Eol", "end"}
        \/ at = 3 /\ KindAt(line, 3) \in {"Eol", "end"}
        \/ /\ at = 3
           /\ \/ WordAt(line, 1, "help") /\ KindAt(line, 2) = "Ident"
              \/ WordAt(line, 1, "reboot") /\ WordAt(line, 2, "now")
              \/ /\ WordAt(line, 1, "recovery")
                 /\ \/ WordAt(line, 2, "enter") \/ WordAt(line, 2, "exit")
                    \/ WordAt(line, 2, "now")
        \/ at = 4 \/ at = 6
    BY Zenon DEF Reads
  <2>2. CASE at = 2
    <3>1. WordAt(line, 1, "status")
      BY <2>0, <2>1, <2>2
    <3> QED BY <2>2, <3>1, CommandNames DEF Begins, WordAt
  <2>3. CASE at = 3
    <3>1. \/ WordAt(line, 1, "help") /\ KindAt(line, 2) = "Ident"
          \/ WordAt(line, 1, "reboot") /\ WordAt(line, 2, "now")
          \/ /\ WordAt(line, 1, "recovery")
             /\ \/ WordAt(line, 2, "enter") \/ WordAt(line, 2, "exit")
                \/ WordAt(line, 2, "now")
      BY <2>0, <2>1, <2>3
    <3> QED BY <2>3, <3>1 DEF Begins, WordAt
  <2>4. CASE at = 4
    <3>1. /\ WordAt(line, 1, "reboot") /\ WordAt(line, 2, "delay")
          /\ KindAt(line, 3) = "Duration" /\ ~(line[3].number > MaxCount)
      BY <2>4 DEF Reads
    <3>2. line[3].number <= MaxCount
      <4>1. line[3].number \in Nat /\ MaxCount \in Nat
        BY <1>0, <3>1, KindInLine, TokenFacts, GrammarAssumption
      <4> QED BY <3>1, <4>1
    <3> QED BY <2>4, <3>1, <3>2 DEF Begins, WordAt
  <2>5. CASE at = 6
    <3>1. /\ WordAt(line, 1, "fault") /\ WordAt(line, 2, "recover")
          /\ WordAt(line, 3, "retries") /\ KindAt(line, 4) = "Equals"
          /\ KindAt(line, 5) = "Integer" /\ ~(line[5].number > MaxRetries)
      BY <2>5 DEF Reads
    <3>2. line[5].number <= MaxRetries
      <4>1. line[5].number \in Nat /\ MaxRetries \in Nat
        BY <1>0, <3>1, KindInLine, TokenFacts DEF MaxRetries
      <4> QED BY <3>1, <4>1
    <3> QED BY <2>5, <3>1, <3>2 DEF Begins
  <2> QED BY <1>1, <2>2, <2>3, <2>4, <2>5
<1>4. ASSUME at <= Len(line) PROVE Sound(line) = at - 1
  <2>1. at - 1 \in 0..Len(line) /\ at - 1 + 1 = at
    BY <1>0, <1>1, <1>2
  <2> QED BY <1>3, <1>4, <2>1, SoundIs
<1> QED BY <1>1, <1>2, <1>4

-----------------------------------------------------------------------------
(* What is accepted, and what is named as wrong.                           *)

\* A line whose tokens are all known.
Known(line) == \A n \in 1..Len(line) : line[n].kind # "Error"

Accepted(parsed) == parsed.error = ""

\* It is read to its end, or refused at the first token that is wrong.
LEMMA KnownParse ==
  ASSUME NEW line \in Seq(Typeable), Len(line) <= MaxTokens, Known(line)
  PROVE  \/ /\ Accepted(Parse(line))
            /\ Reads(line, Parse(line).command, Len(line) + 1)
         \/ /\ ~Accepted(Parse(line)) /\ Parse(line).at = Sound(line) + 1
            /\ \A command : ~Reads(line, command, Len(line) + 1)
<1> DEFINE parsed == ParseCommand(line)
<1>0. line \in Seq(Tokens) /\ Typed(line) /\ Len(line) \in Nat
  BY LineOfTokens
<1>1. \/ Accepted(parsed) /\ Reads(line, parsed.command, parsed.at)
      \/ ~Accepted(parsed) /\ Stops(line, parsed.at)
  BY <1>0, CommandRead DEF Accepted
<1>2. parsed.at \in Nat \ {0}
  BY <1>1, StopsSound, ReadsSound
<1>3. \/ /\ ~Accepted(parsed) \/ parsed.at > Len(line)
         /\ Parse(line) = parsed
      \/ /\ Accepted(parsed) /\ parsed.at <= Len(line)
         /\ Parse(line) = Failure("UnexpectedToken", parsed.at)
  BY <1>0, <1>2, ParseReads DEF Known, Accepted
<1> HIDE DEF parsed
<1>4. CASE ~Accepted(parsed)
  <2>1. Parse(line) = parsed /\ Stops(line, parsed.at)
    BY <1>1, <1>3, <1>4
  <2>2. Parse(line).at = Sound(line) + 1
    <3>1. Sound(line) = parsed.at - 1
      BY <2>1, StopsSound
    <3> QED BY <1>2, <2>1, <3>1
  <2>3. \A command : ~Reads(line, command, Len(line) + 1)
    BY <2>1, ReadsNotStops
  <2> QED BY <1>4, <2>1, <2>2, <2>3
<1>5. CASE Accepted(parsed) /\ parsed.at > Len(line)
  <2>1. Parse(line) = parsed /\ Reads(line, parsed.command, parsed.at)
    BY <1>0, <1>1, <1>2, <1>3, <1>5
  <2>2. parsed.at - 1 <= Len(line)
    BY <2>1, ReadsSound
  <2>3. parsed.at = Len(line) + 1
    BY <1>0, <1>2, <1>5, <2>2
  <2> QED BY <1>5, <2>1, <2>3
<1>6. CASE Accepted(parsed) /\ parsed.at <= Len(line)
  <2>1. /\ Parse(line) = Failure("UnexpectedToken", parsed.at)
        /\ Reads(line, parsed.command, parsed.at)
    BY <1>0, <1>1, <1>2, <1>3, <1>6
  <2>2. ~Accepted(Parse(line)) /\ Parse(line).at = parsed.at
    <3>1. \A at : /\ ~Accepted(Failure("UnexpectedToken", at))
                  /\ Failure("UnexpectedToken", at).at = at
      BY DEF Accepted, Failure
    <3> QED BY <2>1, <3>1, Zenon
  <2>3. Sound(line) = parsed.at - 1
    BY <1>6, <2>1, ReadsSound
  <2>4. Parse(line).at = Sound(line) + 1
    BY <1>2, <2>2, <2>3
  <2>5. \A command : ~Reads(line, command, Len(line) + 1)
    <3>1. parsed.at # Len(line) + 1
      BY <1>0, <1>2, <1>6
    <3> QED BY <2>1, <3>1, ReadsOnce
  <2> QED BY <2>2, <2>4, <2>5
<1> QED BY <1>0, <1>2, <1>4, <1>5, <1>6

LEMMA ReadIsKnown ==
  ASSUME NEW line \in Seq(Typeable), Begins(line, Len(line))
  PROVE  Known(line) /\ Len(line) <= MaxTokens
<1> DEFINE n == Len(line)
<1>0. n \in Nat
  BY LineOfTokens
<1>1. n \in 0..5
  <2>1. \A m : Begins(line, m) => m \in 0..5
    BY DEF Begins
  <2> QED BY <2>1
<1>2. n <= MaxTokens
  <2>1. MaxTokens \in Nat /\ MaxTokens >= 5
    BY ConsoleLineAssumption, GrammarAssumption, Zenon
  <2> HIDE DEF n
  <2> QED BY <1>1, <2>1
<1>3. \A i \in 1..n : line[i].kind = KindAt(line, i)
  BY <1>0 DEF KindAt
<1>4. \A i, w : WordAt(line, i, w) => KindAt(line, i) = "Ident"
  BY DEF WordAt
<1>5. ASSUME NEW i \in 1..n PROVE line[i].kind # "Error"
  <2>1. Begins(line, n)
    OBVIOUS
  <2> HIDE DEF n
  <2>2. i \in Nat /\ n \in Nat /\ 1 <= i /\ i <= n
    BY <1>0
  <2>3. KindAt(line, i) \in {"Ident", "Duration", "Equals", "Integer"}
    <3>1. n >= 1 => KindAt(line, 1) = "Ident"
      BY <1>4, <2>1 DEF Begins
    <3>2. n >= 2 => KindAt(line, 2) = "Ident"
      BY <1>4, <2>1 DEF Begins
    <3>3. n >= 3 => KindAt(line, 3) \in {"Ident", "Duration"}
      BY <1>4, <2>1 DEF Begins
    <3>4. n >= 4 => KindAt(line, 4) = "Equals"
      BY <2>1 DEF Begins
    <3>5. n >= 5 => KindAt(line, 5) = "Integer"
      BY <2>1 DEF Begins
    <3>6. i \in 1..5
      BY <1>1, <2>2
    <3> QED BY <2>2, <3>1, <3>2, <3>3, <3>4, <3>5, <3>6
  <2> QED BY <1>3, <2>3
<1> QED BY <1>2, <1>5 DEF Known

LEMMA Understanding ==
  ASSUME NEW line \in Seq(Typeable), Len(line) <= MaxTokens
  PROVE  /\ Accepted(Parse(line)) => \E s \in Readable : s.line = line
         /\ \A s \in Readable :
              s.line = line =>
                Accepted(Parse(line)) /\ Parse(line).command = s.command
<1>1. ASSUME NEW s \in Readable, s.line = line
      PROVE  Accepted(Parse(line)) /\ Parse(line).command = s.command
  <2>1. IsRead(line, s.command)
    BY <1>1, SentencesAre, SaysIsRead
  <2>2. Reads(line, s.command, Len(line) + 1) /\ Begins(line, Len(line))
    BY <2>1 DEF IsRead
  <2>3. Known(line)
    BY <2>2, ReadIsKnown
  <2>4. /\ Accepted(Parse(line))
        /\ Reads(line, Parse(line).command, Len(line) + 1)
    BY <2>2, <2>3, KnownParse
  <2> QED BY <2>2, <2>4, ReadsOnce
<1>2. ASSUME Accepted(Parse(line)) PROVE \E s \in Readable : s.line = line
  <2>1. Known(line)
    <3>1. FirstFrom(line, 1, {"Error"}) = 0
      <4>1. ASSUME FirstFrom(line, 1, {"Error"}) # 0 PROVE FALSE
        <5> DEFINE unknown == FirstFrom(line, 1, {"Error"})
        <5>1. \/ Parse(line) = Failure("TooManyTokens", MaxTokens + 1)
              \/ Parse(line) = Failure("InvalidToken", unknown)
          BY <4>1 DEF Parse
        <5> HIDE DEF unknown
        <5>2. \A at : /\ ~Accepted(Failure("TooManyTokens", at))
                      /\ ~Accepted(Failure("InvalidToken", at))
          BY DEF Accepted, Failure
        <5> QED BY <1>2, <5>1, <5>2
      <4> QED BY <4>1
    <3>2. line \in Seq(Tokens) /\ Len(line) \in Nat
      BY LineOfTokens
    <3>3. \A n \in 1..Len(line) : line[n].kind \notin {"Error"}
      BY <3>1, <3>2, NoneFound
    <3> QED BY <3>3 DEF Known
  <2>2. Reads(line, Parse(line).command, Len(line) + 1)
    BY <1>2, <2>1, KnownParse
  <2>3. Says(line, Parse(line).command)
    BY <2>2, ReadIsSaid
  <2> QED BY <2>3, SentencesAre
<1> QED BY <1>1, <1>2

\* A sentence for more retries than there is room for is refused for them.
LEMMA TooManyRetries ==
  ASSUME NEW t \in Numbers, ~(t.number <= MaxRetries), NEW line,
         line = <<Word("fault"), Word("recover"), Word("retries"),
                  Mark("Equals"), t>>
  PROVE  Parse(line).error = "InvalidInteger"
<1>1. PICK u \in Keywords, v \in Keywords, w \in Keywords :
        u = "fault" /\ v = "recover" /\ w = "retries"
  BY KeywordsAre
<1>2. t \in Typeable /\ t.kind = "Integer"
  BY SentenceTokens
<1>3. PICK e \in Typeable : e = Mark("Equals") /\ e.kind = "Equals"
  BY SentenceTokens, OtherTokens
<1>4. /\ line \in Seq(Typeable) /\ Len(line) = 5
      /\ WordAt(line, 1, u) /\ WordAt(line, 2, v) /\ WordAt(line, 3, w)
      /\ KindAt(line, 4) = "Equals"
      /\ line[5] = t /\ KindAt(line, 5) = "Integer"
  BY <1>1, <1>2, <1>3, Assignment
<1>5. line[5].number > MaxRetries
  <2>1. t.number \in Nat /\ MaxRetries \in Nat
    BY <1>2, TypeableIs, TokenFacts DEF MaxRetries
  <2> QED BY <1>4, <2>1
<1>6. line \in Seq(Tokens) /\ Typed(line)
  BY <1>4, LineOfTokens
<1>7. ParseNode(FaultGrammar, Bare("fault"), line, 2)
        = Failure("InvalidInteger", 5)
  <2>1. /\ WordAt(line, 2, "recover") /\ WordAt(line, 3, "retries")
        /\ KindAt(line, 3) \notin {"Eol", "end"}
    BY <1>1, <1>4 DEF WordAt
  <2> QED BY <1>4, <1>5, <1>6, <2>1, FaultReads
<1>8. ParseCommand(line) = Failure("InvalidInteger", 5)
  <2>1. WordAt(line, 1, "fault") /\ "fault" \in DOMAIN Catalog
    BY <1>1, <1>4, CommandNames
  <2>2. \A n : WordAt(line, 1, n) => n = "fault"
    BY <2>1 DEF WordAt
  <2>3. ParseCommand(line) = ParseNode(FaultGrammar, Bare("fault"), line, 2)
    BY <2>1, <2>2, CommandReads
  <2> QED BY <1>7, <2>3
<1>9. /\ ParseCommand(line).error = "InvalidInteger"
      /\ ParseCommand(line).at = 5
  BY <1>8, FailureIs
<1>10. /\ Len(line) <= MaxTokens
       /\ \A n \in 1..Len(line) : line[n].kind # "Error"
  <2>1. Len(line) <= MaxTokens
    BY <1>4, ConsoleLineAssumption, GrammarAssumption
  <2>2. \A n \in 1..Len(line) : line[n].kind = KindAt(line, n)
    BY <1>4 DEF KindAt
  <2>3. /\ KindAt(line, 1) = "Ident" /\ KindAt(line, 2) = "Ident"
        /\ KindAt(line, 3) = "Ident" /\ KindAt(line, 4) = "Equals"
        /\ KindAt(line, 5) = "Integer"
    BY <1>4 DEF WordAt
  <2>4. \A n \in 1..Len(line) : n \in {1, 2, 3, 4, 5}
    BY <1>4
  <2> QED BY <2>1, <2>2, <2>3, <2>4
<1>11. "InvalidInteger" # "" /\ ParseCommand(line).at \in Nat \ {0}
  BY <1>9
<1>12. Parse(line) = ParseCommand(line)
  BY <1>6, <1>9, <1>10, <1>11, ParseReads
<1> QED BY <1>9, <1>12

\* The sentences of the document: those that can be read, and those that
\* ask for too many retries.
LEMMA SentencesSplit ==
  /\ Readable \subseteq Sentences
  /\ \A s \in Sentences :
       \/ s \in Readable
       \/ \E t \in Numbers :
            /\ ~(t.number <= MaxRetries)
            /\ s.line = <<Word("fault"), Word("recover"), Word("retries"),
                         Mark("Equals"), t>>
            /\ s.command = Command("fault", "FaultRetries", 0, {t.number}, {})
<1> DEFINE Retry(t) ==
             Asks(<<Word("fault"), Word("recover"), Word("retries"),
                    Mark("Equals"), t>>,
                  [Choosing("fault", "FaultRetries") EXCEPT
                     !.retries = {t.number}])
<1>1. \E others : \A integers :
        SentencesOver(integers) = others \cup {Retry(t) : t \in integers}
  BY DEF SentencesOver
<1>2. PICK others : \A integers :
        SentencesOver(integers) = others \cup {Retry(t) : t \in integers}
  BY <1>1
<1>3. ASSUME NEW t
      PROVE  /\ Retry(t).line = <<Word("fault"), Word("recover"),
                                  Word("retries"), Mark("Equals"), t>>
             /\ Retry(t).command
                  = Command("fault", "FaultRetries", 0, {t.number}, {})
  <2>1. [Choosing("fault", "FaultRetries") EXCEPT !.retries = {t.number}]
          = Command("fault", "FaultRetries", 0, {t.number}, {})
    <3>1. \A n, x, y :
            /\ Bare(n) = Command(n, "", 0, {}, {})
            /\ Choosing(n, x) = Command(n, x, 0, {}, {})
            /\ [Choosing(n, x) EXCEPT !.delay = y] = Command(n, x, y, {}, {})
            /\ [Choosing(n, x) EXCEPT !.retries = y] = Command(n, x, 0, y, {})
            /\ [Bare(n) EXCEPT !.topic = y] = Command(n, "", 0, {}, y)
      BY CommandsBuilt
    <3> QED BY <3>1, Zenon
  <2> QED BY <2>1 DEF Asks
<1> HIDE DEF Retry
<1>4. /\ Sentences = others \cup {Retry(t) : t \in Numbers}
      /\ Readable = others \cup {Retry(t) : t \in Retries}
  BY <1>2 DEF Sentences, Readable
<1>5. \A t : t \in Retries <=> t \in Numbers /\ t.number <= MaxRetries
  BY DEF Retries
<1>6. Readable \subseteq Sentences
  BY <1>4, <1>5
<1>7. ASSUME NEW s \in Sentences, s \notin Readable
      PROVE  \E t \in Numbers : ~(t.number <= MaxRetries) /\ s = Retry(t)
  BY <1>4, <1>5, <1>7
<1> QED BY <1>3, <1>6, <1>7

\* A sentence that can be read asks for no more retries than there is room
\* for.
LEMMA ReadableRetries ==
  ASSUME NEW s \in Readable
  PROVE  ~\E n \in s.command.retries : n > MaxRetries
<1>1. Says(s.line, s.command)
  BY SentencesAre
<1>2. \A n, c, d, r, t : Command(n, c, d, r, t).retries = r
  BY CommandFields
<1>3. \/ s.command.retries = {}
      \/ \E t \in Retries : s.command.retries = {t.number}
  <2>1. \/ \E n, c, d, tt : s.command = Command(n, c, d, {}, tt)
        \/ \E t \in Retries : \E n, c :
             s.command = Command(n, c, 0, {t.number}, {})
    BY <1>1, Zenon DEF Says
  <2>2. ASSUME NEW n, NEW c, NEW d, NEW tt, s.command = Command(n, c, d, {}, tt)
        PROVE  s.command.retries = {}
    BY <1>2, <2>2, SMT
  <2>3. ASSUME NEW t \in Retries, NEW n, NEW c,
               s.command = Command(n, c, 0, {t.number}, {})
        PROVE  s.command.retries = {t.number}
    BY <1>2, <2>3, Zenon
  <2> QED BY <2>1, <2>2, <2>3, Zenon
<1>4. ASSUME NEW t \in Retries PROVE ~(t.number > MaxRetries)
  <2>1. t \in Typeable /\ t.number <= MaxRetries
    BY SentenceTokens
  <2>2. t.number \in Nat /\ MaxRetries \in Nat
    BY <2>1, TypeableIs, TokenFacts DEF MaxRetries
  <2> QED BY <2>1, <2>2
<1> QED BY <1>3, <1>4

TooLong(parsed) == parsed.error = "TooManyTokens"

LEMMA Refusing ==
  ASSUME NEW line \in Seq(Typeable),
         ~Accepted(Parse(line)), ~TooLong(Parse(line))
  PROVE  LET unknown == {n \in DOMAIN line : line[n].kind = "Error"}
         IN Parse(line).at = IF unknown # {} THEN Min(unknown)
                             ELSE Sound(line) + 1
<1> DEFINE unknown == {n \in DOMAIN line : line[n].kind = "Error"}
           first == FirstFrom(line, 1, {"Error"})
<1>0. line \in Seq(Tokens) /\ Len(line) \in Nat /\ MaxTokens \in Nat
  BY LineOfTokens, GrammarAssumption
<1>1. ~(Len(line) > MaxTokens)
  <2>1. \A at : TooLong(Failure("TooManyTokens", at))
    BY DEF TooLong, Failure
  <2> QED BY <2>1, Zenon DEF Parse
<1>2. DOMAIN line = 1..Len(line)
  BY <1>0
<1>3. CASE unknown = {}
  <2>1. Known(line)
    BY <1>2, <1>3, Zenon DEF Known
  <2>2. Len(line) <= MaxTokens
    <3>1. \A m, n \in Nat : ~(m > n) => m <= n
      OBVIOUS
    <3> QED BY <1>0, <1>1, <3>1, Zenon
  <2>3. Parse(line).at = Sound(line) + 1
    BY <2>1, <2>2, KnownParse
  <2> QED BY <1>3, <2>3
<1>4. CASE unknown # {}
  <2>1. unknown = {n \in 1..Len(line) : line[n].kind \in {"Error"}}
    BY <1>2
  <2>2. first = Min(unknown)
    BY <1>4, <2>1 DEF FirstFrom
  <2>3. first # 0
    <3>1. unknown \in SUBSET Nat /\ 0 \notin unknown
      BY <1>0, <1>2
    <3> HIDE DEF unknown, first
    <3> QED BY <1>4, <2>2, <3>1, MinOf
  <2>4. Parse(line) = Failure("InvalidToken", first)
    BY <1>1, <2>3, Zenon DEF Parse
  <2>5. Parse(line).at = first
    <3> HIDE DEF first
    <3>1. \A at : Failure("InvalidToken", at).at = at
      BY DEF Failure
    <3> QED BY <2>4, <3>1, Zenon
  <2> QED BY <1>4, <2>2, <2>5
<1> QED BY <1>3, <1>4

-----------------------------------------------------------------------------
(* What is offered behind a line.                                          *)

\* No line end is typed, so nothing is trimmed.
LEMMA NothingTrimmed ==
  ASSUME NEW line \in Seq(Typeable)
  PROVE  TrimTrailingEol(line) = line
<1> DEFINE kept == {n \in DOMAIN line : line[n].kind # "Eol"}
           n == Len(line)
<1>0. n \in Nat /\ DOMAIN line = 1..n /\ Typed(line)
  BY LineOfTokens
<1>1. kept = 1..n
  BY <1>0, Zenon DEF Typed
<1>2. TrimTrailingEol(line)
        = SubSeq(line, 1, IF kept = {} THEN 0 ELSE Max(kept))
  BY DEF TrimTrailingEol
<1> HIDE DEF kept
<1>3. (IF kept = {} THEN 0 ELSE Max(kept)) = n
  <2>1. CASE n = 0
    BY <1>0, <1>1, <2>1
  <2>2. CASE n # 0
    <3>1. n \in kept /\ kept \in SUBSET Nat /\ \A m \in kept : m <= n
      <4> HIDE DEF n
      <4> QED BY <1>0, <1>1, <2>2
    <3> HIDE DEF n
    <3> QED BY <3>1, MaxIs
  <2> QED BY <2>1, <2>2
<1>4. SubSeq(line, 1, n) = line
  <2>1. line \in Seq(Tokens) /\ n \in 0..Len(line)
    BY <1>0, LineOfTokens
  <2>2. /\ SubSeq(line, 1, n) \in Seq(Tokens) /\ Len(SubSeq(line, 1, n)) = n
        /\ \A i \in 1..n : SubSeq(line, 1, n)[i] = line[i]
    BY <2>1, PrefixIs
  <2> QED BY <2>1, <2>2, SeqEqual
<1> QED BY <1>2, <1>3, <1>4

LEMMA Expected ==
  /\ \A S : Expect(S).candidates = S /\ Expect(S).root = FALSE
  /\ Nothing.candidates = {} /\ Nothing.root = FALSE
  /\ Root.candidates = DOMAIN Catalog /\ Root.root = TRUE
BY DEF Expect, Nothing, Root

LEMMA ChoiceOpen ==
  ASSUME NEW choices, NEW default, NEW node,
         node = OptionalChoice(choices, default),
         NEW line, NEW i, \A b \in choices : ~WordAt(line, i, b.keyword)
  PROVE  EvaluateOptionalChoice(node, line, i)
           = Expect(UNION {Offered(b) : b \in choices})
<1>1. node.choices = choices
  BY DEF OptionalChoice
<1>2. Chosen(node, line, i) = {}
  BY NoneChosen
<1> QED BY <1>1, <1>2 DEF EvaluateOptionalChoice

LEMMA ChoiceMade ==
  ASSUME NEW choices, NEW default, NEW node,
         node = OptionalChoice(choices, default),
         NEW line, NEW i, NEW b \in choices, WordAt(line, i, b.keyword),
         \A c \in choices : c.keyword = b.keyword => c = b
  PROVE  EvaluateOptionalChoice(node, line, i)
           = EvaluateChoiceBranch(b, line, i + 1)
<1>1. /\ Chosen(node, line, i) # {}
      /\ (CHOOSE c \in Chosen(node, line, i) : TRUE) = b
  BY ChosenIs
<1> QED BY <1>1 DEF EvaluateOptionalChoice

LEMMA BranchOffers ==
  ASSUME NEW keyword, NEW tag, NEW line, NEW i \in Nat
  PROVE  /\ EvaluateChoiceBranch(Branch(keyword, tag, NoValue),
                                 line, i).candidates = {}
         /\ EvaluateChoiceBranch(Branch(keyword, tag, DurationValue),
                                 line, i).candidates = {}
         /\ \A c : c \in EvaluateChoiceBranch(
                           Branch(keyword, tag, IntegerAssignment),
                           line, i).candidates
              <=> /\ c \in Suggestions /\ c # keyword
                  /\ ~(KindAt(line, i) = "Equals"
                       /\ KindAt(line, i + 1) = "Integer")
<1>1. EvaluateChoiceBranch(Branch(keyword, tag, NoValue),
                           line, i).candidates = {}
  <2> DEFINE branch == Branch(keyword, tag, NoValue)
  <2>1. branch.value.tokens = <<>>
    BY DEF Branch, NoValue
  <2>2. Mismatches(branch.value.tokens, line, i) = {}
    BY <2>1 DEF Mismatches
  <2> HIDE DEF branch
  <2>3. EvaluateChoiceBranch(branch, line, i) = Nothing
    BY <2>2 DEF EvaluateChoiceBranch
  <2> QED BY <2>3, Expected DEF branch
<1>2. EvaluateChoiceBranch(Branch(keyword, tag, DurationValue),
                           line, i).candidates = {}
  <2> DEFINE branch == Branch(keyword, tag, DurationValue)
  <2>1. branch.value = DurationValue /\ branch.keyword = keyword
    BY DEF Branch
  <2> HIDE DEF branch
  <2>2. Offered(branch) \ {branch.keyword} = {}
    BY <2>1, ValuesDiffer DEF Offered
  <2>3. EvaluateChoiceBranch(branch, line, i) \in {Nothing, Expect({})}
    BY <2>2 DEF EvaluateChoiceBranch
  <2> QED BY <2>3, Expected DEF branch
<1>3. ASSUME NEW c
      PROVE  c \in EvaluateChoiceBranch(
                     Branch(keyword, tag, IntegerAssignment),
                     line, i).candidates
              <=> /\ c \in Suggestions /\ c # keyword
                  /\ ~(KindAt(line, i) = "Equals"
                       /\ KindAt(line, i + 1) = "Integer")
  <2> DEFINE branch == Branch(keyword, tag, IntegerAssignment)
             kinds == branch.value.tokens
             wrong == Mismatches(kinds, line, i)
  <2>1. /\ branch.value = IntegerAssignment /\ branch.keyword = keyword
        /\ kinds = << "Equals", "Integer" >>
    BY DEF Branch, IntegerAssignment
  <2>2. /\ DOMAIN kinds = {1, 2}
        /\ kinds[1] = "Equals" /\ kinds[2] = "Integer"
    BY <2>1
  <2>3. i + 1 - 1 = i /\ i + 2 - 1 = i + 1
    OBVIOUS
  <2>4. wrong = {} <=> /\ KindAt(line, i) = "Equals"
                       /\ KindAt(line, i + 1) = "Integer"
    <3>1. wrong = {n \in {1, 2} : KindAt(line, i + n - 1) # kinds[n]}
      BY <2>2 DEF Mismatches
    <3>2. /\ 1 \in wrong <=> KindAt(line, i + 1 - 1) # kinds[1]
          /\ 2 \in wrong <=> KindAt(line, i + 2 - 1) # kinds[2]
          /\ wrong \subseteq {1, 2}
      <4> HIDE DEF kinds, wrong
      <4> QED BY <3>1
    <3>3. wrong = {} <=> 1 \notin wrong /\ 2 \notin wrong
      <4> HIDE DEF wrong
      <4> QED BY <3>2
    <3> QED BY <2>2, <2>3, <3>2, <3>3
  <2>5. Offered(branch) = Suggestions
    <3> HIDE DEF branch
    <3> QED BY <2>1 DEF Offered
  <2>6. EvaluateChoiceBranch(branch, line, i)
          = IF wrong = {} THEN Nothing ELSE Expect(Suggestions \ {keyword})
    <3>1. EvaluateChoiceBranch(branch, line, i)
            = IF wrong = {} THEN Nothing
              ELSE Expect(Offered(branch) \ {branch.keyword})
      BY DEF EvaluateChoiceBranch
    <3> QED BY <2>1, <2>5, <3>1
  <2> HIDE DEF wrong, branch
  <2> QED BY <2>4, <2>6, Expected DEF branch
<1> QED BY <1>1, <1>2, <1>3

(* The candidate is one of those expected behind the line.                 *)
Follows(line, c) ==
  \/ c \in DOMAIN Catalog /\ \A name \in DOMAIN Catalog : ~WordAt(line, 1, name)
  \/ /\ c \in DOMAIN Catalog
     /\ WordAt(line, 1, "help") /\ KindAt(line, 2) # "Ident"
  \/ /\ c \in {"now", "delay"} /\ WordAt(line, 1, "reboot")
     /\ ~WordAt(line, 2, "now") /\ ~WordAt(line, 2, "delay")
  \/ /\ c \in {"enter", "exit", "now"} /\ WordAt(line, 1, "recovery")
     /\ ~WordAt(line, 2, "enter") /\ ~WordAt(line, 2, "exit")
     /\ ~WordAt(line, 2, "now")
  \/ /\ c = "recover" /\ WordAt(line, 1, "fault")
     /\ ~WordAt(line, 2, "recover")
  \/ /\ c \in Suggestions /\ WordAt(line, 1, "fault")
     /\ WordAt(line, 2, "recover")
     /\ ~(/\ WordAt(line, 3, "retries") /\ KindAt(line, 4) = "Equals"
          /\ KindAt(line, 5) = "Integer")

Expects(expected, line, c) == c \in expected.candidates <=> Follows(line, c)

LEMMA RebootOffers ==
  ASSUME NEW line, WordAt(line, 1, "reboot"), NEW c
  PROVE  Expects(EvaluateNode(RebootGrammar, line, 2), line, c)
<1> DEFINE now == Branch("now", "RebootNow", NoValue)
           later == Branch("delay", "RebootDelay", DurationValue)
           choices == {now, later}
           node == OptionalChoice(choices, "RebootNow")
           expected == EvaluateOptionalChoice(node, line, 2)
<1>0. 2 + 1 = 3 /\ 3 \in Nat
  OBVIOUS
<1>1. RebootGrammar = node
  BY DEF RebootGrammar
<1>2. EvaluateNode(RebootGrammar, line, 2) = expected
  <2>1. node.node = "OptionalChoice"
    BY DEF OptionalChoice
  <2> HIDE DEF node
  <2> QED BY <1>1, <2>1 DEF EvaluateNode
<1>n. PICK default : node = OptionalChoice(choices, default)
  OBVIOUS
<1>3. /\ now.keyword = "now" /\ later.keyword = "delay"
      /\ now.value = NoValue /\ later.value = DurationValue
  BY DEF Branch
<1>4. Follows(line, c) <=> /\ c \in {"now", "delay"}
                           /\ ~WordAt(line, 2, "now")
                           /\ ~WordAt(line, 2, "delay")
  BY CommandNames DEF Follows, WordAt
<1>5. CASE ~WordAt(line, 2, "now") /\ ~WordAt(line, 2, "delay")
  <2>1. \A b \in choices : ~WordAt(line, 2, b.keyword)
    BY <1>3, <1>5
  <2>2. expected = Expect(UNION {Offered(b) : b \in choices})
    <3> HIDE DEF choices, node
    <3> QED BY <1>n, <2>1, ChoiceOpen
  <2>3. Offered(now) = {"now"} /\ Offered(later) = {"delay"}
    <3> HIDE DEF now, later
    <3> QED BY <1>3, ValuesDiffer DEF Offered
  <2>4. UNION {Offered(b) : b \in choices} = {"now", "delay"}
    <3> HIDE DEF now, later
    <3> QED BY <2>3
  <2> HIDE DEF expected, choices, node
  <2>5. expected.candidates = {"now", "delay"}
    BY <2>2, <2>4, Expected
  <2> QED BY <1>2, <1>4, <1>5, <2>5 DEF Expects
<1>6. CASE WordAt(line, 2, "now") \/ WordAt(line, 2, "delay")
  <2>1. \A b \in choices : \A d \in choices : d.keyword = b.keyword => d = b
    <3>1. "now" # "delay"
      OBVIOUS
    <3> HIDE DEF now, later
    <3> QED BY <1>3, <3>1
  <2>2. expected.candidates = {}
    <3>1. CASE WordAt(line, 2, "now")
      <4>1. expected = EvaluateChoiceBranch(now, line, 2 + 1)
        <5>1. now \in choices /\ WordAt(line, 2, now.keyword)
          BY <1>3, <3>1
        <5> HIDE DEF now, choices, node
        <5> QED BY <1>n, <2>1, <5>1, ChoiceMade
      <4>2. expected = EvaluateChoiceBranch(now, line, 3)
        BY <1>0, <4>1
      <4> HIDE DEF expected
      <4> QED BY <1>0, <4>2, BranchOffers
    <3>2. CASE WordAt(line, 2, "delay")
      <4>1. expected = EvaluateChoiceBranch(later, line, 2 + 1)
        <5>1. later \in choices /\ WordAt(line, 2, later.keyword)
          BY <1>3, <3>2
        <5> HIDE DEF later, choices, node
        <5> QED BY <1>n, <2>1, <5>1, ChoiceMade
      <4>2. expected = EvaluateChoiceBranch(later, line, 3)
        BY <1>0, <4>1
      <4> HIDE DEF expected
      <4> QED BY <1>0, <4>2, BranchOffers
    <3> QED BY <1>6, <3>1, <3>2
  <2> HIDE DEF expected, choices, node
  <2> QED BY <1>2, <1>4, <1>6, <2>2 DEF Expects
<1> QED BY <1>5, <1>6

LEMMA RecoveryOffers ==
  ASSUME NEW line, WordAt(line, 1, "recovery"), NEW c
  PROVE  Expects(EvaluateNode(RecoveryGrammar, line, 2), line, c)
<1> DEFINE enter == Branch("enter", "RecoveryEnter", NoValue)
           exit == Branch("exit", "RecoveryExit", NoValue)
           now == Branch("now", "RecoveryNow", NoValue)
           choices == {enter, exit, now}
           node == OptionalChoice(choices, "RecoveryEnter")
           expected == EvaluateOptionalChoice(node, line, 2)
<1>0. 2 + 1 = 3 /\ 3 \in Nat
  OBVIOUS
<1>1. RecoveryGrammar = node
  BY DEF RecoveryGrammar
<1>2. EvaluateNode(RecoveryGrammar, line, 2) = expected
  <2>1. node.node = "OptionalChoice"
    BY DEF OptionalChoice
  <2> HIDE DEF node
  <2> QED BY <1>1, <2>1 DEF EvaluateNode
<1>n. PICK default : node = OptionalChoice(choices, default)
  OBVIOUS
<1>3. /\ enter.keyword = "enter" /\ exit.keyword = "exit" /\ now.keyword = "now"
      /\ enter.value = NoValue /\ exit.value = NoValue /\ now.value = NoValue
  BY DEF Branch
<1>4. Follows(line, c) <=> /\ c \in {"enter", "exit", "now"}
                           /\ ~WordAt(line, 2, "enter")
                           /\ ~WordAt(line, 2, "exit")
                           /\ ~WordAt(line, 2, "now")
  BY CommandNames DEF Follows, WordAt
<1>5. CASE /\ ~WordAt(line, 2, "enter") /\ ~WordAt(line, 2, "exit")
           /\ ~WordAt(line, 2, "now")
  <2>1. \A b \in choices : ~WordAt(line, 2, b.keyword)
    BY <1>3, <1>5
  <2>2. expected = Expect(UNION {Offered(b) : b \in choices})
    <3> HIDE DEF choices, node
    <3> QED BY <1>n, <2>1, ChoiceOpen
  <2>3. /\ Offered(enter) = {"enter"} /\ Offered(exit) = {"exit"}
        /\ Offered(now) = {"now"}
    <3> HIDE DEF enter, exit, now
    <3> QED BY <1>3, ValuesDiffer DEF Offered
  <2>4. UNION {Offered(b) : b \in choices} = {"enter", "exit", "now"}
    <3> HIDE DEF enter, exit, now
    <3> QED BY <2>3
  <2> HIDE DEF expected, choices, node
  <2>5. expected.candidates = {"enter", "exit", "now"}
    BY <2>2, <2>4, Expected
  <2> QED BY <1>2, <1>4, <1>5, <2>5 DEF Expects
<1>6. CASE \/ WordAt(line, 2, "enter") \/ WordAt(line, 2, "exit")
           \/ WordAt(line, 2, "now")
  <2>1. \A b \in choices : \A d \in choices : d.keyword = b.keyword => d = b
    <3>1. "now" # "enter" /\ "now" # "exit" /\ "enter" # "exit"
      OBVIOUS
    <3> HIDE DEF enter, exit, now
    <3> QED BY <1>3, <3>1
  <2>2. PICK b \in choices : WordAt(line, 2, b.keyword)
    BY <1>3, <1>6
  <2>3. expected = EvaluateChoiceBranch(b, line, 2 + 1)
    <3> HIDE DEF choices, node
    <3> QED BY <1>n, <2>1, <2>2, ChoiceMade
  <2>4. \E keyword, tag : b = Branch(keyword, tag, NoValue)
    OBVIOUS
  <2>5. expected = EvaluateChoiceBranch(b, line, 3)
    BY <1>0, <2>3
  <2> HIDE DEF expected, choices, node
  <2>6. expected.candidates = {}
    BY <1>0, <2>4, <2>5, BranchOffers
  <2> QED BY <1>2, <1>4, <1>6, <2>6 DEF Expects
<1> QED BY <1>5, <1>6

LEMMA FaultOffers ==
  ASSUME NEW line, WordAt(line, 1, "fault"), NEW c
  PROVE  Expects(EvaluateNode(FaultGrammar, line, 2), line, c)
<1> DEFINE assignment == Branch("retries", "FaultRetries", IntegerAssignment)
           choices == {assignment}
           node == OptionalChoice(choices, "")
           below == EvaluateOptionalChoice(node, line, 3)
<1>0. 2 + 1 = 3 /\ 3 + 1 = 4 /\ 4 + 1 = 5 /\ 4 \in Nat
  OBVIOUS
<1>1. Subcommands.recover = node /\ Subcommands["recover"] = node
  BY DEF Subcommands, FaultRecoverGrammar
<1>n. PICK default : node = OptionalChoice(choices, default)
  OBVIOUS
<1>2. EvaluateNode(FaultGrammar, line, 2) = EvaluateSubcommands(line, 2)
  <2>1. FaultGrammar.node = "Subcommands"
    BY DEF FaultGrammar
  <2> QED BY <2>1 DEF EvaluateNode
<1>3. Follows(line, c) <=>
        \/ c = "recover" /\ ~WordAt(line, 2, "recover")
        \/ /\ c \in Suggestions /\ WordAt(line, 2, "recover")
           /\ ~(/\ WordAt(line, 3, "retries") /\ KindAt(line, 4) = "Equals"
                /\ KindAt(line, 5) = "Integer")
  BY CommandNames DEF Follows, WordAt
<1>4. CASE ~WordAt(line, 2, "recover")
  <2>1. EvaluateSubcommands(line, 2) = Expect({"recover"})
    BY <1>4, KeywordsAre DEF EvaluateSubcommands, WordAt
  <2>2. EvaluateNode(FaultGrammar, line, 2).candidates = {"recover"}
    BY <1>2, <2>1, Expected
  <2> QED BY <1>3, <1>4, <2>2 DEF Expects
<1>5. CASE WordAt(line, 2, "recover")
  <2>1. EvaluateSubcommands(line, 2) = below
    <3>1. /\ KindAt(line, 2) = "Ident" /\ line[2].word \in DOMAIN Subcommands
          /\ line[2].word = "recover"
      BY <1>5, KeywordsAre DEF WordAt
    <3> HIDE DEF node
    <3> QED BY <1>0, <1>1, <3>1 DEF EvaluateSubcommands
  <2>2. assignment.keyword = "retries" /\ assignment.value = IntegerAssignment
    BY DEF Branch
  <2>3. CASE ~WordAt(line, 3, "retries")
    <3>1. \A b \in choices : ~WordAt(line, 3, b.keyword)
      BY <2>2, <2>3
    <3>2. below = Expect(UNION {Offered(b) : b \in choices})
      <4> HIDE DEF choices, node
      <4> QED BY <1>n, <3>1, ChoiceOpen
    <3>3. UNION {Offered(b) : b \in choices} = Suggestions
      <4>1. Offered(assignment) = Suggestions
        <5> HIDE DEF assignment
        <5> QED BY <2>2 DEF Offered
      <4> HIDE DEF assignment
      <4> QED BY <4>1
    <3> HIDE DEF below, choices, node
    <3>4. below.candidates = Suggestions
      BY <3>2, <3>3, Expected
    <3> QED BY <1>2, <1>3, <1>5, <2>1, <2>3, <3>4 DEF Expects
  <2>4. CASE WordAt(line, 3, "retries")
    <3>1. \A d \in choices : d.keyword = assignment.keyword => d = assignment
      OBVIOUS
    <3>2. below = EvaluateChoiceBranch(assignment, line, 3 + 1)
      <4>1. assignment \in choices /\ WordAt(line, 3, assignment.keyword)
        BY <2>2, <2>4
      <4> HIDE DEF assignment, choices, node
      <4> QED BY <1>n, <3>1, <4>1, ChoiceMade
    <3>3. below = EvaluateChoiceBranch(assignment, line, 4)
      BY <1>0, <3>2
    <3> HIDE DEF below, choices, node
    <3>4. c \in below.candidates <=>
            /\ c \in Suggestions /\ c # "retries"
            /\ ~(KindAt(line, 4) = "Equals" /\ KindAt(line, 4 + 1) = "Integer")
      BY <1>0, <3>3, BranchOffers
    <3>5. c \in Suggestions => c # "retries"
      BY DEF Suggestions
    <3>6. 4 + 1 = 5
      OBVIOUS
    <3>7. c \in below.candidates <=>
            /\ c \in Suggestions
            /\ ~(KindAt(line, 4) = "Equals" /\ KindAt(line, 5) = "Integer")
      BY <3>4, <3>5, <3>6
    <3> QED BY <1>2, <1>3, <1>5, <2>1, <2>4, <3>7 DEF Expects
  <2> QED BY <2>3, <2>4
<1> QED BY <1>4, <1>5

LEMMA HelpOffers ==
  ASSUME NEW line, WordAt(line, 1, "help"), NEW c
  PROVE  Expects(EvaluateNode(Topic, line, 2), line, c)
<1>1. EvaluateNode(Topic, line, 2) = EvaluateTopic(line, 2)
  <2>1. Topic.node = "Topic"
    BY DEF Topic
  <2> QED BY <2>1 DEF EvaluateNode
<1>2. EvaluateTopic(line, 2).candidates
        = IF KindAt(line, 2) = "Ident" THEN {} ELSE DOMAIN Catalog
  BY Expected DEF EvaluateTopic
<1>3. Follows(line, c) <=> c \in DOMAIN Catalog /\ KindAt(line, 2) # "Ident"
  BY CommandNames DEF Follows, WordAt
<1> QED BY <1>1, <1>2, <1>3 DEF Expects

LEMMA StatusOffers ==
  ASSUME NEW line, WordAt(line, 1, "status"), NEW c
  PROVE  Expects(EvaluateNode(End, line, 2), line, c)
<1>1. EvaluateNode(End, line, 2) = Nothing
  <2>1. End.node = "End"
    BY DEF End
  <2> QED BY <2>1 DEF EvaluateNode
<1>2. ~Follows(line, c)
  BY CommandNames DEF Follows, WordAt
<1> QED BY <1>1, <1>2, Expected DEF Expects

LEMMA OffersAre ==
  ASSUME NEW line \in Seq(Typeable), NEW c
  PROVE  Expects(DetermineExpectation(line), line, c)
<1>1. DetermineExpectation(line)
        = IF KindAt(line, 1) = "Ident" /\ line[1].word \in DOMAIN Catalog
          THEN EvaluateNode(Catalog[line[1].word], line, 2)
          ELSE Root
  BY NothingTrimmed DEF DetermineExpectation
<1>2. /\ Catalog["reboot"] = RebootGrammar
      /\ Catalog["recovery"] = RecoveryGrammar
      /\ Catalog["fault"] = FaultGrammar
      /\ Catalog["status"] = End /\ Catalog["help"] = Topic
  BY DEF Catalog
<1>3. ASSUME NEW name \in DOMAIN Catalog, WordAt(line, 1, name)
      PROVE  DetermineExpectation(line) = EvaluateNode(Catalog[name], line, 2)
  BY <1>1, <1>3 DEF WordAt
<1>4. CASE \A name \in DOMAIN Catalog : ~WordAt(line, 1, name)
  <2>1. DetermineExpectation(line) = Root
    BY <1>1, <1>4 DEF WordAt
  <2>2. Follows(line, c) <=> c \in DOMAIN Catalog
    BY <1>4, CommandNames DEF Follows
  <2> QED BY <2>1, <2>2, Expected DEF Expects
<1>5. CASE WordAt(line, 1, "reboot")
  BY <1>2, <1>3, <1>5, CommandNames, RebootOffers
<1>6. CASE WordAt(line, 1, "recovery")
  BY <1>2, <1>3, <1>6, CommandNames, RecoveryOffers
<1>7. CASE WordAt(line, 1, "fault")
  BY <1>2, <1>3, <1>7, CommandNames, FaultOffers
<1>8. CASE WordAt(line, 1, "status")
  BY <1>2, <1>3, <1>8, CommandNames, StatusOffers
<1>9. CASE WordAt(line, 1, "help")
  BY <1>2, <1>3, <1>9, CommandNames, HelpOffers
<1> QED BY <1>4, <1>5, <1>6, <1>7, <1>8, <1>9, CommandNames

-----------------------------------------------------------------------------
(* A line with the tokens of a candidate behind it.                        *)

Prolongs(longer, line) ==
  \A i \in 1..Len(line) :
    /\ longer[i] = line[i] /\ KindAt(longer, i) = KindAt(line, i)
    /\ \A w : WordAt(longer, i, w) <=> WordAt(line, i, w)

Extension(longer, line, more) ==
  /\ longer \in Seq(Typeable) /\ longer \in Seq(Tokens)
  /\ Len(longer) = Len(line) + Len(more)
  /\ Prolongs(longer, line)
  /\ \A i \in 1..Len(more) : longer[Len(line) + i] = more[i]

LEMMA Extended ==
  ASSUME NEW line \in Seq(Typeable), NEW more \in Seq(Typeable)
  PROVE  Extension(line \o more, line, more)
<1> DEFINE longer == line \o more
<1>0. Len(line) \in Nat /\ Len(more) \in Nat
  BY LineOfTokens
<1>1. /\ longer \in Seq(Typeable) /\ Len(longer) = Len(line) + Len(more)
      /\ \A i \in 1..Len(line) + Len(more) :
           longer[i] = IF i <= Len(line) THEN line[i] ELSE more[i - Len(line)]
  BY ConcatProperties
<1>2. ASSUME NEW i \in 1..Len(line)
      PROVE  /\ longer[i] = line[i] /\ KindAt(longer, i) = KindAt(line, i)
             /\ \A w : WordAt(longer, i, w) <=> WordAt(line, i, w)
  <2>1. /\ i \in 1..Len(line) + Len(more) /\ i <= Len(line)
        /\ i <= Len(line) + Len(more)
    BY <1>0
  <2>2. longer[i] = line[i]
    BY <1>1, <2>1
  <2>3. KindAt(longer, i) = KindAt(line, i)
    BY <1>1, <2>1, <2>2 DEF KindAt
  <2> QED BY <2>2, <2>3 DEF WordAt
<1>3. ASSUME NEW i \in 1..Len(more) PROVE longer[Len(line) + i] = more[i]
  <2>1. /\ Len(line) + i \in 1..Len(line) + Len(more)
        /\ ~(Len(line) + i <= Len(line)) /\ Len(line) + i - Len(line) = i
    BY <1>0
  <2> QED BY <1>1, <2>1
<1>4. longer \in Seq(Tokens)
  BY <1>1, LineOfTokens
<1> HIDE DEF longer
<1>5. Extension(longer, line, more)
  BY <1>1, <1>2, <1>3, <1>4 DEF Extension, Prolongs
<1> QED BY <1>5 DEF longer

LEMMA KeywordTokens ==
  ASSUME NEW c \in Keywords
  PROVE  TokensOf(c) = <<Word(c)>>
<1>1. c \notin Suggestions
  BY KeywordsAre
<1> QED BY <1>1 DEF TokensOf

LEMMA SuggestionTokens ==
  ASSUME NEW c \in Suggestions
  PROVE  \E k \in 1..3 :
           TokensOf(c) = <<Word("retries"), Mark("Equals"), IntegerOf(k)>>
<1> DEFINE k == CASE c = "retries=1" -> 1
                  [] c = "retries=2" -> 2
                  [] c = "retries=3" -> 3
<1>1. k \in 1..3
  BY DEF Suggestions
<1>2. TokensOf(c) = <<Word("retries"), Mark("Equals"), IntegerOf(k)>>
  BY DEF TokensOf
<1> HIDE DEF k
<1> QED BY <1>1, <1>2

LEMMA WithWord ==
  ASSUME NEW line \in Seq(Typeable), NEW c \in Keywords, NEW longer,
         longer = line \o TokensOf(c)
  PROVE  /\ longer \in Seq(Typeable) /\ Len(longer) = Len(line) + 1
         /\ Prolongs(longer, line)
         /\ WordAt(longer, Len(line) + 1, c)
<1>1. PICK more : more = <<Word(c)>>
  OBVIOUS
<1>2. more \in Seq(Typeable) /\ Len(more) = 1 /\ more[1] = Word(c)
  <2>1. Word(c) \in Typeable
    BY SentenceTokens
  <2> QED BY <1>1, <2>1, LineOf1
<1>3. longer = line \o more
  BY <1>1, KeywordTokens
<1>4. Len(line) \in Nat
  BY LineOfTokens
<1>5. /\ longer \in Seq(Typeable) /\ longer \in Seq(Tokens)
      /\ Len(longer) = Len(line) + Len(more)
      /\ Prolongs(longer, line)
      /\ \A i \in 1..Len(more) : longer[Len(line) + i] = more[i]
  <2>1. Extension(line \o more, line, more)
    BY <1>2, Extended
  <2> QED BY <1>3, <2>1 DEF Extension
<1>6. longer[Len(line) + 1] = Word(c)
  <2>1. 1 \in 1..1
    OBVIOUS
  <2> QED BY <1>2, <1>5, <2>1, Zenon
<1>7. /\ Len(line) + 1 \in Nat \ {0} /\ Len(line) + 1 \in 1..Len(longer)
      /\ Len(longer) = Len(line) + 1
  BY <1>2, <1>4, <1>5
<1>8. WordAt(longer, Len(line) + 1, c)
  BY <1>5, <1>6, <1>7, WordsThere, Zenon
<1> QED BY <1>5, <1>7, <1>8

LEMMA WithAssignment ==
  ASSUME NEW line \in Seq(Typeable), NEW c \in Suggestions, NEW longer,
         longer = line \o TokensOf(c)
  PROVE  /\ longer \in Seq(Typeable) /\ Len(longer) = Len(line) + 3
         /\ Prolongs(longer, line)
         /\ WordAt(longer, Len(line) + 1, "retries")
         /\ KindAt(longer, Len(line) + 2) = "Equals"
         /\ KindAt(longer, Len(line) + 3) = "Integer"
         /\ longer[Len(line) + 3].number <= MaxRetries
<1>1. PICK k \in 1..3 :
        TokensOf(c) = <<Word("retries"), Mark("Equals"), IntegerOf(k)>>
  BY SuggestionTokens
<1>2. PICK w \in Keywords : w = "retries"
  BY KeywordsAre
<1>3. PICK more : more = <<Word(w), Mark("Equals"), IntegerOf(k)>>
  OBVIOUS
<1>4. /\ more \in Seq(Typeable) /\ Len(more) = 3 /\ more[1] = Word(w)
      /\ more[2] = Mark("Equals") /\ more[3] = IntegerOf(k)
  <2>1. /\ Word(w) \in Typeable /\ Mark("Equals") \in Typeable
        /\ IntegerOf(k) \in Typeable
    BY SentenceTokens
  <2> QED BY <1>3, <2>1, LineOf3
<1>5. longer = line \o more
  BY <1>1, <1>2, <1>3
<1>6. Len(line) \in Nat
  BY LineOfTokens
<1>7. /\ longer \in Seq(Typeable) /\ longer \in Seq(Tokens)
      /\ Len(longer) = Len(line) + Len(more)
      /\ Prolongs(longer, line)
      /\ \A i \in 1..Len(more) : longer[Len(line) + i] = more[i]
  <2>1. Extension(line \o more, line, more)
    BY <1>4, Extended
  <2> QED BY <1>5, <2>1 DEF Extension
<1>8. /\ longer[Len(line) + 1] = Word(w)
      /\ longer[Len(line) + 2] = Mark("Equals")
      /\ longer[Len(line) + 3] = IntegerOf(k)
  <2>1. 1 \in 1..3 /\ 2 \in 1..3 /\ 3 \in 1..3
    OBVIOUS
  <2> QED BY <1>4, <1>7, <2>1, Zenon
<1>9. /\ Len(line) + 1 \in Nat \ {0} /\ Len(line) + 1 \in 1..Len(longer)
      /\ Len(line) + 2 \in 1..Len(longer) /\ Len(line) + 3 \in 1..Len(longer)
      /\ Len(longer) = Len(line) + 3
  BY <1>4, <1>6, <1>7
<1>10. WordAt(longer, Len(line) + 1, w)
  BY <1>7, <1>8, <1>9, WordsThere, Zenon
<1>11. \A i \in 1..Len(longer) : KindAt(longer, i) = longer[i].kind
  BY <1>7 DEF KindAt
<1>12. /\ KindAt(longer, Len(line) + 2) = "Equals"
       /\ KindAt(longer, Len(line) + 3) = "Integer"
       /\ longer[Len(line) + 3].number = k
  <2>1. k \in Nat
    OBVIOUS
  <2>2. /\ Mark("Equals").kind = "Equals" /\ IntegerOf(k).kind = "Integer"
        /\ IntegerOf(k).number = k
    BY <2>1, OtherTokens
  <2> QED BY <1>8, <1>9, <1>11, <2>2, Zenon
<1>13. longer[Len(line) + 3].number <= MaxRetries
  <2>1. k <= MaxRetries
    BY DEF MaxRetries
  <2> QED BY <1>12, <2>1
<1> QED BY <1>2, <1>7, <1>9, <1>10, <1>12, <1>13

\* What is expected behind the beginning of a sentence continues one.
LEMMA Continues ==
  ASSUME NEW line \in Seq(Typeable), Begins(line, Len(line)),
         NEW c, Follows(line, c)
  PROVE  \/ line \o TokensOf(c) \in Beginnings
         \/ c \in Suggestions /\ Contains(line, Word("retries"))
<1> DEFINE n == Len(line)
<1>0. n \in Nat /\ line \in Seq(Tokens)
  BY LineOfTokens
<1>1. PICK longer : longer = line \o TokensOf(c)
  OBVIOUS
<1>2. /\ 0 + 1 = 1 /\ 1 + 1 = 2 /\ 1 \in 1..1
      /\ 2 + 1 = 3 /\ 2 + 2 = 4 /\ 2 + 3 = 5 /\ 1 \in 1..2 /\ 2 \in 1..2
  OBVIOUS
<1>3. ASSUME c \in Keywords
      PROVE  /\ longer \in Seq(Typeable) /\ Len(longer) = n + 1
             /\ \A i \in 1..n : \A w :
                   WordAt(longer, i, w) <=> WordAt(line, i, w)
             /\ WordAt(longer, n + 1, c)
  BY <1>1, <1>3, WithWord DEF Prolongs
<1>4. ASSUME longer \in Seq(Typeable), Begins(longer, Len(longer))
      PROVE  line \o TokensOf(c) \in Beginnings
  BY <1>1, <1>4, BeginsBeginning
<1>5. Begins(line, n)
  OBVIOUS
<1>w. /\ \A w : WordAt(line, 2, w) => n >= 2
      /\ KindAt(line, 2) = "Ident" => n >= 2
  <2>1. 2 \in Nat \ {0} /\ "Ident" # "end"
    OBVIOUS
  <2> QED BY <1>0, <2>1, PlaceIs
<1>p. \A w : WordAt(line, 1, w) => n >= 1
  <2>1. 1 \in Nat \ {0}
    OBVIOUS
  <2> QED BY <1>0, <2>1, PlaceIs
<1> HIDE DEF n
<1>6. CASE /\ c \in DOMAIN Catalog
           /\ \A name \in DOMAIN Catalog : ~WordAt(line, 1, name)
  <2>1. n = 0
    BY <1>5, <1>6, CommandNames DEF Begins
  <2>2. c \in Keywords
    BY <1>6, CommandNames, KeywordsAre
  <2>3. longer \in Seq(Typeable) /\ Len(longer) = 1 /\ WordAt(longer, 1, c)
    BY <1>2, <1>3, <2>1, <2>2
  <2>4. Begins(longer, 1)
    BY <1>6, <2>3 DEF Begins
  <2> QED BY <1>4, <2>3, <2>4
<1>7. CASE /\ c \in DOMAIN Catalog
           /\ WordAt(line, 1, "help") /\ KindAt(line, 2) # "Ident"
  <2>2. n = 1
    BY <1>5, <1>7, <1>p DEF Begins, WordAt
  <2>3. c \in Keywords
    BY <1>7, CommandNames, KeywordsAre
  <2>4. /\ longer \in Seq(Typeable) /\ Len(longer) = 2 /\ WordAt(longer, 2, c)
        /\ WordAt(longer, 1, "help")
    BY <1>2, <1>3, <1>7, <2>2, <2>3, Zenon
  <2>5. Begins(longer, 2)
    BY <2>4 DEF Begins, WordAt
  <2> QED BY <1>4, <2>4, <2>5
<1>8. ASSUME NEW w \in {"reboot", "recovery", "fault"}, WordAt(line, 1, w),
             c \in Keywords, n = 1
      PROVE  /\ longer \in Seq(Typeable) /\ Len(longer) = 2
             /\ WordAt(longer, 1, w) /\ WordAt(longer, 2, c)
  BY <1>2, <1>3, <1>8, Zenon
<1>9. CASE /\ c \in {"now", "delay"} /\ WordAt(line, 1, "reboot")
           /\ ~WordAt(line, 2, "now") /\ ~WordAt(line, 2, "delay")
  <2>1. n = 1
    BY <1>5, <1>9, <1>p DEF Begins, WordAt
  <2>2. c \in Keywords
    BY <1>9, KeywordsAre
  <2>3. /\ longer \in Seq(Typeable) /\ Len(longer) = 2
        /\ WordAt(longer, 1, "reboot") /\ WordAt(longer, 2, c)
    BY <1>8, <1>9, <2>1, <2>2
  <2>4. Begins(longer, 2)
    BY <1>9, <2>3 DEF Begins
  <2> QED BY <1>4, <2>3, <2>4
<1>10. CASE /\ c \in {"enter", "exit", "now"} /\ WordAt(line, 1, "recovery")
            /\ ~WordAt(line, 2, "enter") /\ ~WordAt(line, 2, "exit")
            /\ ~WordAt(line, 2, "now")
  <2>1. n = 1
    BY <1>5, <1>10, <1>p DEF Begins, WordAt
  <2>2. c \in Keywords
    BY <1>10, KeywordsAre
  <2>3. /\ longer \in Seq(Typeable) /\ Len(longer) = 2
        /\ WordAt(longer, 1, "recovery") /\ WordAt(longer, 2, c)
    BY <1>8, <1>10, <2>1, <2>2
  <2>4. Begins(longer, 2)
    BY <1>10, <2>3 DEF Begins
  <2> QED BY <1>4, <2>3, <2>4
<1>11. CASE /\ c = "recover" /\ WordAt(line, 1, "fault")
            /\ ~WordAt(line, 2, "recover")
  <2>1. n = 1
    BY <1>5, <1>11, <1>p DEF Begins, WordAt
  <2>2. c \in Keywords
    BY <1>11, KeywordsAre
  <2>3. /\ longer \in Seq(Typeable) /\ Len(longer) = 2
        /\ WordAt(longer, 1, "fault") /\ WordAt(longer, 2, "recover")
    BY <1>8, <1>11, <2>1, <2>2
  <2>4. Begins(longer, 2)
    BY <2>3 DEF Begins
  <2> QED BY <1>4, <2>3, <2>4
<1>12. CASE c \in Suggestions /\ WordAt(line, 1, "fault")
            /\ WordAt(line, 2, "recover")
  <2>1. n >= 2
    BY <1>12, <1>w
  <2>2. CASE n = 2
    <3>1. /\ longer \in Seq(Typeable) /\ Len(longer) = n + 3
          /\ \A i \in 1..n : \A w : WordAt(longer, i, w) <=> WordAt(line, i, w)
          /\ WordAt(longer, n + 1, "retries")
          /\ KindAt(longer, n + 2) = "Equals"
          /\ KindAt(longer, n + 3) = "Integer"
          /\ longer[n + 3].number <= MaxRetries
      BY <1>1, <1>12, WithAssignment DEF Prolongs, n
    <3>2. /\ Len(longer) = 5
          /\ WordAt(longer, 1, "fault") /\ WordAt(longer, 2, "recover")
          /\ WordAt(longer, 3, "retries")
          /\ KindAt(longer, 4) = "Equals" /\ KindAt(longer, 5) = "Integer"
          /\ longer[5].number <= MaxRetries
      BY <1>2, <1>12, <2>2, <3>1, Zenon
    <3>3. Begins(longer, 5)
      BY <3>2 DEF Begins
    <3> QED BY <1>4, <3>1, <3>2, <3>3
  <2>3. CASE n # 2
    <3>1. n >= 3 /\ WordAt(line, 3, "retries")
      BY <1>0, <1>5, <1>12, <2>1, <2>3 DEF Begins, WordAt
    <3>2. PICK w \in Keywords : w = "retries"
      BY KeywordsAre
    <3>3. 3 \in 1..Len(line) /\ line[3] = Word(w)
      <4>1. 3 \in Nat \ {0}
        OBVIOUS
      <4>2. WordAt(line, 3, w)
        BY <3>1, <3>2
      <4> QED BY <1>0, <4>1, <4>2, WordsThere, Zenon
    <3>4. Contains(line, Word(w))
      BY <3>3 DEF Contains
    <3> QED BY <1>12, <3>2, <3>4, Zenon
  <2> QED BY <2>2, <2>3
<1> QED BY <1>6, <1>7, <1>9, <1>10, <1>11, <1>12, Zenon DEF Follows

\* Every candidate that continues one is expected there.
LEMMA Expectable ==
  ASSUME NEW line \in Seq(Typeable), NEW c \in DOMAIN Spelling,
         line \o TokensOf(c) \in Beginnings,
         line = <<Word("help")>> => c \in DOMAIN Catalog, c # "retries"
  PROVE  Follows(line, c)
<1> DEFINE n == Len(line)
<1>0. n \in Nat /\ line \in Seq(Tokens)
  BY LineOfTokens
<1>1. PICK longer : longer = line \o TokensOf(c)
  OBVIOUS
<1>2. Begins(longer, Len(longer))
  BY <1>1, BeginningBegins
<1>3. /\ \A w : WordAt(line, 1, w) => n >= 1
      /\ \A w : WordAt(line, 2, w) => n >= 2
      /\ \A w : WordAt(line, 3, w) => n >= 3
      /\ KindAt(line, 2) = "Ident" => n >= 2
  <2>1. 1 \in Nat \ {0} /\ 2 \in Nat \ {0} /\ 3 \in Nat \ {0} /\ "Ident" # "end"
    OBVIOUS
  <2> QED BY <1>0, <2>1, PlaceIs
<1>4. ASSUME n = 1, WordAt(line, 1, "help") PROVE c \in DOMAIN Catalog
  <2>1. PICK w \in Keywords : w = "help"
    BY KeywordsAre
  <2>2. line[1] = Word(w)
    <3>1. 1 \in Nat \ {0}
      OBVIOUS
    <3> QED BY <1>0, <1>4, <2>1, <3>1, WordsThere, Zenon
  <2>3. line = <<line[1]>>
    BY <1>4, LineIs
  <2> QED BY <2>1, <2>2, <2>3, Zenon
<1>5. CASE c \in Keywords
  <2>1. /\ Len(longer) = n + 1
        /\ \A i \in 1..n : /\ KindAt(longer, i) = KindAt(line, i)
                           /\ \A w : WordAt(longer, i, w) <=> WordAt(line, i, w)
        /\ WordAt(longer, n + 1, c)
    BY <1>1, <1>5, WithWord DEF Prolongs
  <2>2. /\ 0 + 1 = 1 /\ 1 + 1 = 2 /\ 2 + 1 = 3 /\ 3 + 1 = 4 /\ 4 + 1 = 5
        /\ 1 \in 1..1 /\ 1 \in 1..2 /\ 2 \in 1..2
    OBVIOUS
  <2>3. n <= 4
    <3>1. \A m : Begins(longer, m) => m \in 0..5
      BY DEF Begins
    <3> QED BY <1>0, <1>2, <2>1, <3>1
  <2> HIDE DEF n
  <2>4. CASE n = 0
    <3>1. Begins(longer, 1) /\ WordAt(longer, 1, c)
      BY <1>2, <2>1, <2>2, <2>4, Zenon
    <3>2. c \in DOMAIN Catalog
      BY <3>1 DEF Begins, WordAt
    <3>3. \A name : ~WordAt(line, 1, name)
      BY <1>3, <2>4
    <3> QED BY <3>2, <3>3, Zenon DEF Follows
  <2>5. CASE n = 1
    <3>1. /\ Begins(longer, 2) /\ WordAt(longer, 2, c)
          /\ \A w : WordAt(longer, 1, w) <=> WordAt(line, 1, w)
      BY <1>2, <2>1, <2>2, <2>5, Zenon
    <3>2. /\ \A w : ~WordAt(line, 2, w)
          /\ KindAt(line, 2) # "Ident"
      BY <1>3, <2>5
    <3>3. \/ WordAt(line, 1, "help")
          \/ WordAt(line, 1, "reboot") /\ c \in {"now", "delay"}
          \/ WordAt(line, 1, "recovery") /\ c \in {"enter", "exit", "now"}
          \/ WordAt(line, 1, "fault") /\ c = "recover"
      <4>1. Begins(longer, 2) /\ WordAt(longer, 2, c)
        BY <3>1
      <4>2. \/ WordAt(longer, 1, "help")
            \/ WordAt(longer, 1, "reboot") /\ c \in {"now", "delay"}
            \/ WordAt(longer, 1, "recovery") /\ c \in {"enter", "exit", "now"}
            \/ WordAt(longer, 1, "fault") /\ c = "recover"
        BY <4>1 DEF Begins, WordAt
      <4> QED BY <3>1, <4>2, Zenon
    <3>4. WordAt(line, 1, "help") => c \in DOMAIN Catalog
      BY <1>4, <2>5 DEF n
    <3> QED BY <3>2, <3>3, <3>4, Zenon DEF Follows
  <2>6. CASE n = 2
    <3>1. Begins(longer, 3) /\ WordAt(longer, 3, c)
      BY <1>2, <2>1, <2>2, <2>6, Zenon
    <3>2. KindAt(longer, 3) = "Ident" /\ ~WordAt(longer, 3, "retries")
      BY <3>1 DEF WordAt
    <3> QED BY <3>1, <3>2 DEF Begins
  <2>7. CASE n = 3
    <3>1. Begins(longer, 4) /\ WordAt(longer, 4, c)
      BY <1>2, <2>1, <2>2, <2>7, Zenon
    <3> QED BY <3>1 DEF Begins, WordAt
  <2>8. CASE n = 4
    <3>1. Begins(longer, 5) /\ WordAt(longer, 5, c)
      BY <1>2, <2>1, <2>2, <2>8, Zenon
    <3> QED BY <3>1 DEF Begins, WordAt
  <2> QED BY <1>0, <2>3, <2>4, <2>5, <2>6, <2>7, <2>8
<1>6. CASE c \in Suggestions
  <2>1. /\ Len(longer) = n + 3
        /\ \A i \in 1..n : \A w : WordAt(longer, i, w) <=> WordAt(line, i, w)
        /\ WordAt(longer, n + 1, "retries")
    BY <1>1, <1>6, WithAssignment DEF Prolongs
  <2>2. /\ 0 + 1 = 1 /\ 1 + 1 = 2 /\ 0 + 3 = 3 /\ 1 + 3 = 4 /\ 2 + 3 = 5
        /\ 1 \in 1..1 /\ 1 \in 1..2 /\ 2 \in 1..2
    OBVIOUS
  <2>3. n <= 2
    <3>1. \A m : Begins(longer, m) => m \in 0..5
      BY DEF Begins
    <3> QED BY <1>0, <1>2, <2>1, <3>1
  <2> HIDE DEF n
  <2>4. CASE n = 0
    <3>1. Begins(longer, 3) /\ WordAt(longer, 1, "retries")
      BY <1>2, <2>1, <2>2, <2>4, Zenon
    <3> QED BY <3>1 DEF Begins, WordAt
  <2>5. CASE n = 1
    <3>1. Begins(longer, 4) /\ WordAt(longer, 2, "retries")
      BY <1>2, <2>1, <2>2, <2>5, Zenon
    <3> QED BY <3>1 DEF Begins, WordAt
  <2>6. CASE n = 2
    <3>1. /\ Begins(longer, 5)
          /\ \A w : WordAt(longer, 1, w) <=> WordAt(line, 1, w)
          /\ \A w : WordAt(longer, 2, w) <=> WordAt(line, 2, w)
      BY <1>2, <2>1, <2>2, <2>6, Zenon
    <3>2. WordAt(longer, 1, "fault") /\ WordAt(longer, 2, "recover")
      BY <3>1 DEF Begins
    <3>3. ~WordAt(line, 3, "retries")
      BY <1>3, <2>6
    <3> QED BY <1>6, <3>1, <3>2, <3>3, Zenon DEF Follows
  <2> QED BY <1>0, <2>3, <2>4, <2>5, <2>6
<1> QED BY <1>5, <1>6, CompletionAssumption

LEMMA OptionsAre ==
  ASSUME NEW line \in Seq(Typeable), NEW prefix, NEW c
  PROVE  /\ c \in Options(line, prefix) =>
              Follows(line, c) /\ IsPrefix(prefix, Spelling[c])
         /\ /\ Known(line) /\ Len(line) <= MaxTokens
            /\ Follows(line, c) /\ IsPrefix(prefix, Spelling[c])
            => c \in Options(line, prefix)
<1> DEFINE candidates == DetermineExpectation(line).candidates
           fitting == {d \in candidates : StartsWith(d, prefix)}
<1>0. line \in Seq(Tokens) /\ Len(line) \in Nat /\ MaxTokens \in Nat
  BY LineOfTokens, GrammarAssumption
<1>1. c \in candidates <=> Follows(line, c)
  BY OffersAre DEF Expects
<1>2. Options(line, prefix)
        = IF Len(line) > MaxTokens \/ FirstFrom(line, 1, {"Error"}) # 0 THEN {}
          ELSE fitting
  BY DEF Options
<1>3. c \in fitting <=> c \in candidates /\ IsPrefix(prefix, Spelling[c])
  BY DEF StartsWith
<1> HIDE DEF candidates, fitting
<1>4. ASSUME Known(line), Len(line) <= MaxTokens
      PROVE  Options(line, prefix) = fitting
  <2>1. FirstFrom(line, 1, {"Error"}) = 0
    <3>1. \A n \in 1..Len(line) : line[n].kind \notin {"Error"}
      BY <1>4 DEF Known
    <3> QED BY <1>0, <3>1, NoneIsFound
  <2>2. ~(Len(line) > MaxTokens)
    BY <1>0, <1>4
  <2> QED BY <1>2, <2>1, <2>2
<1> QED BY <1>1, <1>2, <1>3, <1>4

\* What is offered is spelt.
LEMMA FollowsSpelt ==
  ASSUME NEW line, NEW c, Follows(line, c)
  PROVE  c \in Keywords \/ c \in Suggestions
BY KeywordsAre, CommandNames DEF Follows

\* Where anything is offered, the line is one the parser would read.
LEMMA OptionsKnown ==
  ASSUME NEW line \in Seq(Typeable), NEW prefix, NEW c \in Options(line, prefix)
  PROVE  Known(line) /\ Len(line) <= MaxTokens
<1>0. line \in Seq(Tokens) /\ Len(line) \in Nat /\ MaxTokens \in Nat
  BY LineOfTokens, GrammarAssumption
<1>1. ~(Len(line) > MaxTokens) /\ FirstFrom(line, 1, {"Error"}) = 0
  BY DEF Options
<1>2. Len(line) <= MaxTokens
  BY <1>0, <1>1
<1>3. \A n \in 1..Len(line) : line[n].kind \notin {"Error"}
  BY <1>0, <1>1, NoneFound
<1> QED BY <1>2, <1>3 DEF Known

-----------------------------------------------------------------------------
(* The letters of the word at the cursor.                                  *)

LEMMA CutIs ==
  ASSUME NEW S, NEW s \in Seq(S), NEW n \in 0..Len(s)
  PROVE  /\ SubSeq(s, 1, n) \in Seq(S) /\ Len(SubSeq(s, 1, n)) = n
         /\ \A i \in 1..n : SubSeq(s, 1, n)[i] = s[i]
<1>1. n \in Nat /\ Len(s) \in Nat /\ n <= Len(s)
  OBVIOUS
<1>2. CASE n = 0
  <2>1. SubSeq(s, 1, n) = <<>>
    BY <1>2
  <2> QED BY <1>2, <2>1
<1>3. CASE n # 0
  <2>1. \A i \in 1..n : s[i] \in S
    BY <1>1
  <2> QED BY <1>1, <1>3, <2>1
<1> QED BY <1>2, <1>3

LEMMA PrefixAt ==
  ASSUME NEW S, NEW s \in Seq(S), NEW t \in Seq(S)
  PROVE  IsPrefix(s, t) <=> /\ Len(s) <= Len(t)
                            /\ \A i \in 1..Len(s) : s[i] = t[i]
<1> DEFINE n == Len(s)
<1>0. n \in Nat /\ Len(t) \in Nat /\ n \in 0..Len(s)
  OBVIOUS
<1>1. /\ SubSeq(s, 1, n) \in Seq(S) /\ Len(SubSeq(s, 1, n)) = n
      /\ \A i \in 1..n : SubSeq(s, 1, n)[i] = s[i]
  BY <1>0, CutIs
<1>2. ASSUME n <= Len(t)
      PROVE  /\ SubSeq(t, 1, n) \in Seq(S) /\ Len(SubSeq(t, 1, n)) = n
             /\ \A i \in 1..n : SubSeq(t, 1, n)[i] = t[i]
  <2>1. n \in 0..Len(t)
    BY <1>0, <1>2
  <2> HIDE DEF n
  <2> QED BY <2>1, CutIs
<1>3. PICK a : a = SubSeq(s, 1, n)
  OBVIOUS
<1>4. PICK b : b = SubSeq(t, 1, n)
  OBVIOUS
<1>5. IsPrefix(s, t) <=> n <= Len(t) /\ a = b
  BY <1>3, <1>4 DEF IsPrefix
<1> HIDE DEF n
<1>6. a \in Seq(S) /\ Len(a) = n /\ \A i \in 1..n : a[i] = s[i]
  BY <1>1, <1>3
<1>7. ASSUME n <= Len(t) PROVE a = b <=> \A i \in 1..n : s[i] = t[i]
  <2>1. b \in Seq(S) /\ Len(b) = n /\ \A i \in 1..n : b[i] = t[i]
    BY <1>2, <1>4, <1>7
  <2>2. ASSUME \A i \in 1..n : s[i] = t[i] PROVE a = b
    BY <1>6, <2>1, <2>2, SeqEqual
  <2> QED BY <1>6, <2>1, <2>2
<1> QED BY <1>5, <1>7 DEF n

LEMMA PrefixesNest ==
  ASSUME NEW S, NEW s \in Seq(S), NEW t \in Seq(S), NEW u \in Seq(S)
  PROVE  /\ IsPrefix(s, s) /\ IsPrefix(<<>>, s)
         /\ IsPrefix(s, t) /\ IsPrefix(t, u) => IsPrefix(s, u)
         /\ IsPrefix(s, u) /\ IsPrefix(t, u) /\ Len(s) <= Len(t)
              => IsPrefix(s, t)
<1>0. Len(s) \in Nat /\ Len(t) \in Nat /\ Len(u) \in Nat
  OBVIOUS
<1>1. IsPrefix(s, s)
  BY <1>0, PrefixAt
<1>2. IsPrefix(<<>>, s)
  <2>1. <<>> \in Seq(S) /\ Len(<<>>) = 0
    BY EmptySeq
  <2>2. PICK e : e = <<>>
    OBVIOUS
  <2>3. e \in Seq(S) /\ Len(e) = 0
    BY <2>1, <2>2, Zenon
  <2>4. IsPrefix(e, s)
    <3>1. Len(e) <= Len(s) /\ \A i \in 1..Len(e) : e[i] = s[i]
      BY <1>0, <2>3
    <3> QED BY <2>3, <3>1, PrefixAt
  <2> QED BY <2>2, <2>4
<1>3. ASSUME IsPrefix(s, t), IsPrefix(t, u) PROVE IsPrefix(s, u)
  <2>1. /\ Len(s) <= Len(t) /\ \A i \in 1..Len(s) : s[i] = t[i]
        /\ Len(t) <= Len(u) /\ \A i \in 1..Len(t) : t[i] = u[i]
    BY <1>3, PrefixAt
  <2>2. Len(s) <= Len(u) /\ \A i \in 1..Len(s) : s[i] = u[i]
    BY <1>0, <2>1
  <2> QED BY <2>2, PrefixAt
<1>4. ASSUME IsPrefix(s, u), IsPrefix(t, u), Len(s) <= Len(t)
      PROVE  IsPrefix(s, t)
  <2>1. /\ \A i \in 1..Len(s) : s[i] = u[i]
        /\ \A i \in 1..Len(t) : t[i] = u[i]
    BY <1>4, PrefixAt
  <2>2. \A i \in 1..Len(s) : s[i] = t[i]
    BY <1>0, <1>4, <2>1
  <2> QED BY <1>4, <2>2, PrefixAt
<1> QED BY <1>1, <1>2, <1>3, <1>4

\* There is a longest common prefix, and it begins with every other.
LEMMA SharedIs ==
  ASSUME NEW options \in SUBSET DOMAIN Spelling, options # {}
  PROVE  /\ Shared(options) \in Seq(STRING)
         /\ \A c \in options : IsPrefix(Shared(options), Spelling[c])
         /\ \A w \in Seq(STRING) :
              (\A c \in options : IsPrefix(w, Spelling[c]))
              => Len(w) <= Len(Shared(options)) /\ IsPrefix(w, Shared(options))
<1> DEFINE S == {Spelling[c] : c \in options}
           P == CommonPrefixes(S)
           Longest(p) == \A other \in P : Len(other) <= Len(p)
<1>1. \A c \in options : Spelling[c] \in Seq(STRING) /\ Spelling[c] \in S
  BY CompletionAssumption
<1>2. S \subseteq Seq(STRING) /\ S # {}
  BY <1>1
<1>3. \A p : p \in P <=> /\ \E t \in S : p \in Prefixes(t)
                         /\ \A t \in S : IsPrefix(p, t)
  <2> HIDE DEF S
  <2> QED BY DEF CommonPrefixes
<1>4. Shared(options) = CHOOSE longest \in P : Longest(longest)
  BY DEF Shared, LongestCommonPrefix
<1>5. ASSUME NEW t \in Seq(STRING), NEW p
      PROVE  /\ p \in Prefixes(t) => p \in Seq(STRING)
             /\ p \in Seq(STRING) /\ IsPrefix(p, t) => p \in Prefixes(t)
  <2>0. Len(t) \in Nat
    OBVIOUS
  <2>1. ASSUME p \in Prefixes(t) PROVE p \in Seq(STRING)
    <3>1. PICK l \in 0..Len(t) : p = SubSeq(t, 1, l)
      BY <2>1 DEF Prefixes
    <3> QED BY <3>1, CutIs
  <2>2. ASSUME p \in Seq(STRING), IsPrefix(p, t) PROVE p \in Prefixes(t)
    <3>1. Len(p) \in 0..Len(t)
      BY <2>0, <2>2 DEF IsPrefix
    <3>2. SubSeq(p, 1, Len(p)) = p
      <4>1. /\ SubSeq(p, 1, Len(p)) \in Seq(STRING)
            /\ Len(SubSeq(p, 1, Len(p))) = Len(p)
            /\ \A i \in 1..Len(p) : SubSeq(p, 1, Len(p))[i] = p[i]
        <5>1. Len(p) \in 0..Len(p)
          BY <2>2
        <5> QED BY <2>2, <5>1, CutIs
      <4> QED BY <2>2, <4>1, SeqEqual
    <3>3. p = SubSeq(t, 1, Len(p))
      BY <2>2, <3>2 DEF IsPrefix
    <3> QED BY <3>1, <3>3 DEF Prefixes
  <2> QED BY <2>1, <2>2
<1> HIDE DEF S, P
<1>6. PICK t \in S : t \in Seq(STRING)
  BY <1>2
<1>7. \A p \in P : p \in Seq(STRING) /\ \A u \in S : IsPrefix(p, u)
  BY <1>2, <1>3, <1>5
<1>8. \A w \in Seq(STRING) : (\A u \in S : IsPrefix(w, u)) => w \in P
  BY <1>3, <1>5, <1>6
<1>9. \E longest \in P : Longest(longest)
  <2> DEFINE lengths == {Len(p) : p \in P}
  <2>1. lengths \in SUBSET Nat
    BY <1>7
  <2>2. lengths # {}
    <3>1. PICK e \in Seq(STRING) : e = <<>>
      BY EmptySeq, Zenon
    <3>2. \A u \in S : IsPrefix(e, u)
      BY <1>2, <3>1, PrefixesNest
    <3>3. e \in P
      BY <1>8, <3>2
    <3> QED BY <3>3
  <2>3. Len(t) \in Nat /\ \A n \in lengths : n <= Len(t)
    BY <1>6, <1>7 DEF IsPrefix
  <2>4. PICK m \in lengths : \A n \in lengths : n <= m
    <3> HIDE DEF lengths
    <3> QED BY <2>1, <2>2, <2>3, GreatestNumber
  <2>5. PICK p \in P : m = Len(p)
    OBVIOUS
  <2>6. \A other \in P : Len(other) <= Len(p)
    BY <2>4, <2>5
  <2> QED BY <2>6
<1>10. Shared(options) \in P /\ Longest(Shared(options))
  <2> HIDE DEF Longest
  <2> QED BY <1>4, <1>9
<1>11. \A w \in Seq(STRING) : (\A u \in S : IsPrefix(w, u)) =>
         Len(w) <= Len(Shared(options)) /\ IsPrefix(w, Shared(options))
  <2>1. SUFFICES ASSUME NEW w \in Seq(STRING), \A u \in S : IsPrefix(w, u)
                 PROVE  /\ Len(w) <= Len(Shared(options))
                        /\ IsPrefix(w, Shared(options))
    OBVIOUS
  <2>2. Len(w) <= Len(Shared(options))
    BY <1>8, <1>10, <2>1
  <2>3. Shared(options) \in Seq(STRING) /\ IsPrefix(Shared(options), t)
    BY <1>7, <1>10
  <2>4. IsPrefix(w, t)
    BY <2>1
  <2> QED BY <1>6, <2>2, <2>3, <2>4, PrefixesNest
<1>12. \A u \in S : \E c \in options : u = Spelling[c]
  BY DEF S
<1> QED BY <1>1, <1>7, <1>10, <1>11, <1>12

LEMMA OptionsSpelt ==
  ASSUME NEW line \in Seq(Typeable), NEW prefix
  PROVE  /\ Options(line, prefix) \in SUBSET DOMAIN Spelling
         /\ Cardinality(Options(line, prefix)) = 1
              => \E c : Options(line, prefix) = {c}
<1> DEFINE options == Options(line, prefix)
<1>1. options \subseteq Keywords \cup Suggestions
  BY OptionsAre, FollowsSpelt
<1>2. \A a, b, c : IsFiniteSet({a, b, c})
  <2>1. ASSUME NEW a, NEW b, NEW c PROVE IsFiniteSet({a, b, c})
    <3>1. IsFiniteSet({a})
      BY FS_Singleton
    <3>2. IsFiniteSet({a} \cup {b})
      BY <3>1, FS_AddElement
    <3>3. IsFiniteSet(({a} \cup {b}) \cup {c})
      BY <3>2, FS_AddElement
    <3>4. ({a} \cup {b}) \cup {c} = {a, b, c}
      OBVIOUS
    <3> QED BY <3>3, <3>4
  <2> QED BY <2>1
<1>3. IsFiniteSet(options)
  <2> DEFINE A == {"reboot", "recovery", "fault"}
             B == {"status", "help", "recover"}
             C == {"now", "delay", "enter"}
             D == {"exit", "retries", "exit"}
  <2>1. Keywords = ((A \cup B) \cup C) \cup D
    BY KeywordsAre
  <2>2. /\ IsFiniteSet(A) /\ IsFiniteSet(B) /\ IsFiniteSet(C)
        /\ IsFiniteSet(D)
    BY <1>2
  <2>3. IsFiniteSet(Suggestions)
    BY <1>2 DEF Suggestions
  <2> HIDE DEF A, B, C, D
  <2>4. IsFiniteSet(A \cup B)
    BY <2>2, FS_Union
  <2>5. IsFiniteSet((A \cup B) \cup C)
    BY <2>2, <2>4, FS_Union
  <2>6. IsFiniteSet(Keywords)
    BY <2>1, <2>2, <2>5, FS_Union
  <2>7. IsFiniteSet(Keywords \cup Suggestions)
    BY <2>3, <2>6, FS_Union
  <2> HIDE DEF options
  <2> QED BY <1>1, <2>7, FS_Subset
<1> HIDE DEF options
<1>4. Cardinality(options) = 1 => \E c : options = {c}
  BY <1>3, FS_Singleton
<1>5. options \in SUBSET DOMAIN Spelling
  BY <1>1, KeywordsAre
<1> QED BY <1>4, <1>5 DEF options

-----------------------------------------------------------------------------
(* Every line the editors can make.                                        *)

LineTyped == tokens \in Seq(Typeable) /\ word \in Seq(STRING)

LEMMA LongerTyped ==
  ASSUME NEW line \in Seq(Typeable), NEW c \in DOMAIN Spelling
  PROVE  line \o TokensOf(c) \in Seq(Typeable)
<1>1. PICK longer : longer = line \o TokensOf(c)
  OBVIOUS
<1>2. CASE c \in Keywords
  BY <1>1, <1>2, WithWord
<1>3. CASE c \in Suggestions
  BY <1>1, <1>3, WithAssignment
<1> QED BY <1>2, <1>3, CompletionAssumption

LEMMA LineTypedInv == LineSpec => []LineTyped
<1>1. LineInit => LineTyped
  <2>1. <<>> \in Seq(Typeable) /\ <<>> \in Seq(STRING)
    BY EmptySeq
  <2> QED BY <2>1, Zenon DEF LineInit, LineTyped
<1>2. LineTyped /\ [LineNext]_lineVars => LineTyped'
  <2>1. SUFFICES ASSUME LineTyped, [LineNext]_lineVars PROVE LineTyped'
    OBVIOUS
  <2>2. tokens \in Seq(Typeable) /\ word \in Seq(STRING)
    BY <2>1 DEF LineTyped
  <2>3. CASE TypeToken
    <3>1. PICK t \in Vocabulary : tokens' = Append(tokens, t)
      BY <2>3 DEF TypeToken
    <3>2. t \in Typeable
      BY DEF Typeable
    <3>3. tokens' \in Seq(Typeable)
      BY <2>2, <3>1, <3>2, AppendProperties
    <3>4. word' = word
      BY <2>3 DEF TypeToken
    <3> QED BY <2>2, <3>3, <3>4 DEF LineTyped
  <2>4. CASE TypeLetter
    <3>1. PICK c \in DOMAIN Spelling :
            /\ IsStrictPrefix(word, Spelling[c])
            /\ word' = SubSeq(Spelling[c], 1, Len(word) + 1)
      BY <2>4 DEF TypeLetter
    <3>2. PICK s \in Seq(STRING) : s = Spelling[c]
      BY CompletionAssumption
    <3>3. IsPrefix(word, s) /\ word # s
      BY <3>1, <3>2 DEF IsStrictPrefix
    <3>4. Len(word) <= Len(s) /\ \A i \in 1..Len(word) : word[i] = s[i]
      BY <2>2, <3>3, PrefixAt
    <3>5. Len(word) # Len(s)
      BY <2>2, <3>3, <3>4, SeqEqual
    <3>6. Len(word) + 1 \in 0..Len(s)
      BY <2>2, <3>4, <3>5
    <3>7. SubSeq(s, 1, Len(word) + 1) \in Seq(STRING)
      BY <3>6, CutIs
    <3>8. word' \in Seq(STRING) /\ tokens' = tokens
      BY <2>4, <3>1, <3>2, <3>7 DEF TypeLetter
    <3> QED BY <2>2, <3>8 DEF LineTyped
  <2>5. CASE EndWord
    <3>1. PICK c \in DOMAIN Spelling : tokens' = tokens \o TokensOf(c)
      BY <2>5 DEF EndWord
    <3>2. tokens' \in Seq(Typeable)
      BY <2>2, <3>1, LongerTyped
    <3>3. word' \in Seq(STRING)
      BY <2>5, EmptySeq, Zenon DEF EndWord
    <3> QED BY <3>2, <3>3 DEF LineTyped
  <2>6. CASE Backspace
    <3>1. word # <<>> /\ word' = SubSeq(word, 1, Len(word) - 1)
      BY <2>6 DEF Backspace, Front
    <3>2. Len(word) \in Nat \ {0}
      BY <2>2, <3>1, EmptySeq, Zenon
    <3>3. Len(word) - 1 \in 0..Len(word)
      BY <3>2
    <3>4. word' \in Seq(STRING) /\ tokens' = tokens
      BY <2>2, <2>6, <3>1, <3>3, CutIs DEF Backspace
    <3> QED BY <2>2, <3>4 DEF LineTyped
  <2>7. CASE FirmwareTab
    <3> DEFINE options == Options(tokens, word)
    <3>1. /\ Cardinality(options) = 1 /\ word' = Shared(options)
          /\ tokens' = tokens
      BY <2>7 DEF FirmwareTab
    <3>2. options \in SUBSET DOMAIN Spelling /\ \E c : options = {c}
      BY <2>2, <3>1, OptionsSpelt
    <3> HIDE DEF options
    <3>3. word' \in Seq(STRING)
      BY <3>1, <3>2, SharedIs
    <3> QED BY <2>2, <3>1, <3>3 DEF LineTyped
  <2>8. CASE EmulatorTab
    <3> DEFINE options == Options(tokens, word)
    <3>1. /\ options # {}
          /\ \/ /\ word' = <<>>
                /\ \E c \in options : tokens' = tokens \o TokensOf(c)
             \/ word' = Shared(options) /\ tokens' = tokens
      BY <2>8 DEF EmulatorTab
    <3>2. options \in SUBSET DOMAIN Spelling
      BY <2>2, OptionsSpelt
    <3> HIDE DEF options
    <3>3. word' \in Seq(STRING)
      <4>1. <<>> \in Seq(STRING)
        BY EmptySeq
      <4>2. Shared(options) \in Seq(STRING)
        BY <3>1, <3>2, SharedIs
      <4> QED BY <3>1, <4>1, <4>2, Zenon
    <3>4. tokens' \in Seq(Typeable)
      BY <2>2, <3>1, <3>2, LongerTyped
    <3> QED BY <3>3, <3>4 DEF LineTyped
  <2>9. CASE UNCHANGED lineVars
    BY <2>2, <2>9 DEF LineTyped, lineVars
  <2> QED BY <2>1, <2>3, <2>4, <2>5, <2>6, <2>7, <2>8, <2>9 DEF LineNext
<1> QED BY <1>1, <1>2, PTL DEF LineSpec

(* Whatever may be typed and however it was edited: only a line that the   *)
(* grammar document allows is accepted, and each that it allows is read as *)
(* the command the document has it ask for, unless it asks for more        *)
(* retries than 8 bits hold; such a line, which the document allows too    *)
(* (cli-grammar.md:24), is refused for the integer (parse and              *)
(* parse_integer of grammar.rs).                                           *)
THEOREM GrammarIsImplemented == LineSpec => []LinesAreUnderstood
<1>1. LineTyped => LinesAreUnderstood
  <2>1. SUFFICES ASSUME LineTyped, Len(tokens) <= MaxTokens
                 PROVE  /\ Accepted(Parse(tokens)) => Sentence(tokens)
                        /\ \A s \in Sentences : s.line = tokens =>
                             IF \E n \in s.command.retries : n > MaxRetries
                             THEN Parse(tokens).error = "InvalidInteger"
                             ELSE /\ Accepted(Parse(tokens))
                                  /\ Parse(tokens).command = s.command
    BY DEF LinesAreUnderstood, Accepted
  <2>2. tokens \in Seq(Typeable)
    BY <2>1 DEF LineTyped
  <2>3. /\ Accepted(Parse(tokens)) => \E s \in Readable : s.line = tokens
        /\ \A s \in Readable : s.line = tokens =>
             Accepted(Parse(tokens)) /\ Parse(tokens).command = s.command
    BY <2>1, <2>2, Understanding
  <2>4. Accepted(Parse(tokens)) => Sentence(tokens)
    BY <2>3, SentencesSplit DEF Sentence
  <2>5. ASSUME NEW s \in Sentences, s.line = tokens
        PROVE  IF \E n \in s.command.retries : n > MaxRetries
               THEN Parse(tokens).error = "InvalidInteger"
               ELSE /\ Accepted(Parse(tokens))
                    /\ Parse(tokens).command = s.command
    <3>1. CASE s \in Readable
      BY <2>3, <2>5, <3>1, ReadableRetries
    <3>2. CASE s \notin Readable
      <4>1. PICK t \in Numbers :
              /\ ~(t.number <= MaxRetries)
              /\ s.line = <<Word("fault"), Word("recover"), Word("retries"),
                           Mark("Equals"), t>>
              /\ s.command = Command("fault", "FaultRetries", 0,
                                     {t.number}, {})
        BY <3>2, SentencesSplit, Zenon
      <4>2. Parse(tokens).error = "InvalidInteger"
        BY <2>5, <4>1, TooManyRetries
      <4>3. s.command.retries = {t.number}
        BY <4>1, CommandFields
      <4>4. t.number > MaxRetries
        <5>1. t \in Typeable
          BY SentenceTokens
        <5>2. t.number \in Nat /\ MaxRetries \in Nat
          BY <5>1, TypeableIs, TokenFacts DEF MaxRetries
        <5> QED BY <4>1, <5>2
      <4> QED BY <4>2, <4>3, <4>4
    <3> QED BY <3>1, <3>2
  <2> QED BY <2>4, <2>5
<1> QED BY <1>1, LineTypedInv, PTL

(* A refused line is refused for its first unknown token, or else for the  *)
(* first that no readable sentence could have there (unexpected of         *)
(* grammar.rs).                                                            *)
THEOREM FirstWrongIsNamed == LineSpec => []ErrorsNameTheFirstWrongToken
<1>1. LineTyped => ErrorsNameTheFirstWrongToken
  <2>1. SUFFICES ASSUME LineTyped,
                        ~Accepted(Parse(tokens)), ~TooLong(Parse(tokens))
                 PROVE  LET unknown == {n \in DOMAIN tokens :
                                          tokens[n].kind = "Error"}
                        IN Parse(tokens).at = IF unknown # {} THEN Min(unknown)
                                              ELSE Sound(tokens) + 1
    BY DEF ErrorsNameTheFirstWrongToken, Accepted, TooLong
  <2>2. tokens \in Seq(Typeable)
    BY <2>1 DEF LineTyped
  <2> QED BY <2>1, <2>2, Refusing
<1> QED BY <1>1, LineTypedInv, PTL

(* What a tab offers behind the beginning of a sentence is the beginning   *)
(* of one again, but for the assignment behind its own keyword (the        *)
(* candidates of completion.rs against the productions of grammar.rs).     *)
THEOREM OffersContinue == LineSpec => []OffersContinueTheLine
<1>1. LineTyped => OffersContinueTheLine
  <2>1. SUFFICES ASSUME LineTyped, tokens \in Beginnings,
                        NEW c \in Options(tokens, word)
                 PROVE  \/ tokens \o TokensOf(c) \in Beginnings
                        \/ /\ c \in Suggestions
                           /\ Contains(tokens, Word("retries"))
    BY DEF OffersContinueTheLine
  <2>2. tokens \in Seq(Typeable)
    BY <2>1 DEF LineTyped
  <2>3. Begins(tokens, Len(tokens)) /\ Follows(tokens, c)
    BY <2>1, <2>2, BeginningBegins, OptionsAre
  <2> QED BY <2>2, <2>3, Continues
<1> QED BY <1>1, LineTypedInv, PTL

LEMMA OfferProlongs ==
  ASSUME NEW line \in Seq(Typeable), NEW c \in Keywords \cup Suggestions,
         NEW longer, longer = line \o TokensOf(c)
  PROVE  /\ longer \in Seq(Typeable) /\ Prolongs(longer, line)
         /\ Len(line) <= Len(longer)
<1>1. /\ longer \in Seq(Typeable) /\ Prolongs(longer, line)
      /\ (Len(longer) = Len(line) + 1 \/ Len(longer) = Len(line) + 3)
  <2>1. CASE c \in Keywords
    BY <2>1, WithWord
  <2>2. CASE c \in Suggestions
    BY <2>2, WithAssignment
  <2> QED BY <2>1, <2>2
<1>2. PICK n \in Nat : n = Len(line)
  BY LineOfTokens
<1>3. n <= n + 1 /\ n <= n + 3
  OBVIOUS
<1> QED BY <1>1, <1>2, <1>3

LEMMA ExpectableIsKnown ==
  ASSUME NEW line \in Seq(Typeable), NEW c \in Keywords \cup Suggestions,
         line \o TokensOf(c) \in Beginnings
  PROVE  Known(line) /\ Len(line) <= MaxTokens
<1>1. PICK longer : longer = line \o TokensOf(c)
  OBVIOUS
<1>2. /\ longer \in Seq(Typeable) /\ Prolongs(longer, line)
      /\ Len(line) <= Len(longer)
  BY <1>1, OfferProlongs
<1>3. Begins(longer, Len(longer))
  BY <1>1, BeginningBegins
<1>4. Known(longer) /\ Len(longer) <= MaxTokens
  BY <1>2, <1>3, ReadIsKnown
<1>5. Len(line) \in Nat /\ Len(longer) \in Nat /\ MaxTokens \in Nat
  BY <1>2, LineOfTokens, GrammarAssumption
<1>6. Known(line)
  BY <1>2, <1>4, <1>5 DEF Known, Prolongs
<1> QED BY <1>2, <1>4, <1>5, <1>6

(* Every keyword that may come next is offered, at every letter of it.     *)
THEOREM NoWordIsMissing == LineSpec => []EveryWordIsOffered
<1>1. LineTyped => EveryWordIsOffered
  <2>1. SUFFICES ASSUME LineTyped, NEW c \in DOMAIN Spelling,
                        tokens \o TokensOf(c) \in Beginnings,
                        IsPrefix(word, Spelling[c]),
                        tokens = <<Word("help")>> => c \in DOMAIN Catalog,
                        c # "retries"
                 PROVE  c \in Options(tokens, word)
    BY DEF EveryWordIsOffered
  <2>2. tokens \in Seq(Typeable)
    BY <2>1 DEF LineTyped
  <2>3. Follows(tokens, c)
    BY <2>1, <2>2, Expectable
  <2>4. Known(tokens) /\ Len(tokens) <= MaxTokens
    <3>1. c \in Keywords \cup Suggestions
      BY <2>1, CompletionAssumption
    <3> QED BY <2>1, <2>2, <3>1, ExpectableIsKnown
  <2> QED BY <2>1, <2>2, <2>3, <2>4, OptionsAre
<1> QED BY <1>1, LineTypedInv, PTL

LEMMA TabStep ==
  ASSUME LineTyped, FirmwareTab \/ EmulatorTab
  PROVE  \/ /\ IsPrefix(word, word') /\ UNCHANGED tokens
            /\ Options(tokens', word') = Options(tokens, word)
         \/ /\ Cardinality(Options(tokens, word)) = 1 /\ word' = <<>>
            /\ \A c \in Options(tokens, word) : tokens' = tokens \o TokensOf(c)
<1> DEFINE options == Options(tokens, word)
<1>1. tokens \in Seq(Typeable) /\ word \in Seq(STRING)
  BY DEF LineTyped
<1>2. /\ options \in SUBSET DOMAIN Spelling
      /\ Cardinality(options) = 1 => \E c : options = {c}
  BY <1>1, OptionsSpelt
<1>3. options # {}
  <2>1. CASE FirmwareTab
    <3>1. Cardinality(options) = 1
      BY <2>1 DEF FirmwareTab
    <3> HIDE DEF options
    <3> QED BY <1>2, <3>1
  <2>2. CASE EmulatorTab
    BY <2>2 DEF EmulatorTab
  <2> QED BY <2>1, <2>2
<1>4. \/ word' = Shared(options) /\ tokens' = tokens
      \/ /\ Cardinality(options) = 1 /\ word' = <<>>
         /\ \E c \in options : tokens' = tokens \o TokensOf(c)
  BY DEF FirmwareTab, EmulatorTab, AppendSpace
<1>5. CASE word' = Shared(options) /\ tokens' = tokens
  <2>1. PICK shared : shared = Shared(options)
    OBVIOUS
  <2>2. \A c \in options : IsPrefix(word, Spelling[c])
    BY <1>1, OptionsAre
  <2>3. /\ shared \in Seq(STRING) /\ IsPrefix(word, shared)
        /\ \A c \in options : IsPrefix(shared, Spelling[c])
    <3> HIDE DEF options
    <3> QED BY <1>1, <1>2, <1>3, <2>1, <2>2, SharedIs
  <2>4. \A c \in DOMAIN Spelling : Spelling[c] \in Seq(STRING)
    BY CompletionAssumption
  <2>5. ASSUME NEW c PROVE c \in Options(tokens, shared) <=> c \in options
    <3>1. ASSUME c \in options PROVE c \in Options(tokens, shared)
      <4>1. Follows(tokens, c) /\ IsPrefix(shared, Spelling[c])
        BY <1>1, <2>3, <3>1, OptionsAre
      <4>2. Known(tokens) /\ Len(tokens) <= MaxTokens
        BY <1>1, <3>1, OptionsKnown
      <4> QED BY <1>1, <4>1, <4>2, OptionsAre
    <3>2. ASSUME c \in Options(tokens, shared) PROVE c \in options
      <4>1. Follows(tokens, c) /\ IsPrefix(shared, Spelling[c])
        BY <1>1, <3>2, OptionsAre
      <4>2. Known(tokens) /\ Len(tokens) <= MaxTokens
        BY <1>1, <3>2, OptionsKnown
      <4>3. Spelling[c] \in Seq(STRING)
        BY <1>1, <2>4, <3>2, OptionsSpelt
      <4>4. IsPrefix(word, Spelling[c])
        BY <1>1, <2>3, <4>1, <4>3, PrefixesNest
      <4> QED BY <1>1, <4>1, <4>2, <4>4, OptionsAre
    <3> QED BY <3>1, <3>2
  <2>6. Options(tokens, shared) = options
    <3> HIDE DEF options
    <3> QED BY <2>5
  <2> QED BY <1>5, <2>1, <2>3, <2>6
<1>6. CASE /\ Cardinality(options) = 1 /\ word' = <<>>
           /\ \E c \in options : tokens' = tokens \o TokensOf(c)
  <2> HIDE DEF options
  <2>1. \A c \in options : tokens' = tokens \o TokensOf(c)
    BY <1>2, <1>6
  <2> QED BY <1>6, <2>1 DEF options
<1> QED BY <1>4, <1>5, <1>6

(* A tab of the firmware types nothing while several options match.  A tab *)
(* of either editor keeps what was typed and every option there was, or    *)
(* types the only option and the space behind it (handle_completion of     *)
(* firmware/src/repl/mod.rs, apply_replacement of emulator/src/main.rs).   *)
THEOREM TabsKeepOptions == LineSpec => TabKeepsOptions
<1>1. LineTyped /\ [LineNext]_lineVars =>
        [/\ FirmwareTab => Cardinality(Options(tokens, word)) = 1
         /\ FirmwareTab \/ EmulatorTab =>
              \/ /\ IsPrefix(word, word') /\ UNCHANGED tokens
                 /\ Options(tokens', word') = Options(tokens, word)
              \/ /\ Cardinality(Options(tokens, word)) = 1 /\ word' = <<>>
                 /\ \A c \in Options(tokens, word) :
                      tokens' = tokens \o TokensOf(c)]_lineVars
  <2>1. FirmwareTab => Cardinality(Options(tokens, word)) = 1
    BY DEF FirmwareTab
  <2> QED BY <2>1, TabStep
<1>2. LineSpec => [][LineNext]_lineVars
  BY PTL DEF LineSpec
<1> QED BY <1>1, <1>2, LineTypedInv, PTL DEF TabKeepsOptions

=============================================================================
