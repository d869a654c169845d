---------------------------- MODULE ConsoleLine ----------------------------
(***************************************************************************)
(* A console line as it is typed: the tokens before the word at the cursor *)
(* and what there is of that word.  The firmware's tab completes the word  *)
(* only when a single option is left (handle_completion of firmware/src/   *)
(* repl/mod.rs); the emulator's also types what several options share, and *)
(* the space after a command (apply_replacement of emulator/src/main.rs).  *)
(***************************************************************************)
EXTENDS Completion

CONSTANTS
  Vocabulary,  \* the tokens that are typed whole; no line end is among them,
               \* since both editors take it for themselves
  MaxStrays    \* bound on the tokens typed after the first that is wrong

\* The longest sentence fits the token buffer, and a duration that is not too
\* long can be typed.
ASSUME ConsoleLineAssumption ==
  /\ MaxTokens >= 5 /\ MaxStrays \in Nat
  /\ Vocabulary \subseteq {t \in Tokens : t.kind # "Eol"}
  /\ \E t \in Vocabulary : t.kind = "Duration" /\ t.number <= MaxCount

VARIABLES
  tokens,  \* the tokens before the cursor's word
  word     \* the letters of that word typed so far

lineVars == <<tokens, word>>

\* The tokens a completed word stands for.
TokensOf(candidate) ==
  IF candidate \notin Suggestions THEN <<Word(candidate)>>
  ELSE <<Word("retries"), Mark("Equals"),
         IntegerOf(CASE candidate = "retries=1" -> 1
                     [] candidate = "retries=2" -> 2
                     [] candidate = "retries=3" -> 3)>>

-----------------------------------------------------------------------------
(* The language of specs/001-build-orin-controller/contracts/              *)
(* cli-grammar.md: every line it allows, and what the line asks for.       *)

Asks(line, command) == [line |-> line, command |-> command]

Durations == {t \in Vocabulary : t.kind = "Duration" /\ t.number <= MaxCount}
Numbers   == {t \in Vocabulary : t.kind = "Integer" /\ t.number <= MaxCount}
              \cup {IntegerOf(n) : n \in 1..3}
Idents    == {t \in Vocabulary : t.kind = "Ident"}
              \cup {Word(w) : w \in DOMAIN Spelling \ Suggestions}

Choosing(name, choice) == [Bare(name) EXCEPT !.choice = choice]

SentencesOver(integers) ==
  {Asks(<<Word("status")>>, Bare("status")),
   Asks(<<Word("help")>>, Bare("help")),
   Asks(<<Word("reboot")>>, Choosing("reboot", "RebootNow")),
   Asks(<<Word("reboot"), Word("now")>>, Choosing("reboot", "RebootNow")),
   Asks(<<Word("recovery")>>, Choosing("recovery", "RecoveryEnter")),
   Asks(<<Word("recovery"), Word("enter")>>,
        Choosing("recovery", "RecoveryEnter")),
   Asks(<<Word("recovery"), Word("exit")>>,
        Choosing("recovery", "RecoveryExit")),
   Asks(<<Word("recovery"), Word("now")>>, Choosing("recovery", "RecoveryNow")),
   Asks(<<Word("fault"), Word("recover")>>, Bare("fault"))}
  \cup {Asks(<<Word("help"), t>>, [Bare("help") EXCEPT !.topic = {t.word}]) :
          t \in Idents}
  \cup {Asks(<<Word("reboot"), Word("delay"), t>>,
             [Choosing("reboot", "RebootDelay") EXCEPT
                !.delay = t.number * t.unit]) : t \in Durations}
  \cup {Asks(<<Word("fault"), Word("recover"), Word("retries"),
               Mark("Equals"), t>>,
             [Choosing("fault", "FaultRetries") EXCEPT
                !.retries = {t.number}]) : t \in integers}

\* An integer has up to 32 bits (:24).
Sentences == SentencesOver(Numbers)

\* Those whose number of retries the parser has room for.
Retries  == {t \in Numbers : t.number <= MaxRetries}
Readable == SentencesOver(Retries)

Sentence(line) == \E s \in Sentences : s.line = line

\* The lines that more tokens could make a readable sentence of.
Beginnings == UNION {Prefixes(s.line) : s \in Readable}

Viable(line) == line \in Beginnings

\* The number of tokens up to which a line is as it should be.
Sound(line) ==
  LET beginnings == Beginnings
  IN Max({n \in 0..Len(line) : SubSeq(line, 1, n) \in beginnings})

-----------------------------------------------------------------------------
LineInit == tokens = <<>> /\ word = <<>>

TypeToken ==
  /\ word = <<>>
  /\ Len(tokens) - Sound(tokens) < MaxStrays \/ Viable(tokens)
  /\ Len(tokens) <= MaxTokens
  /\ \E t \in Vocabulary : tokens' = Append(tokens, t)
  /\ UNCHANGED word

\* Bounded to lines that are still right.
TypeLetter ==
  /\ Viable(tokens)
  /\ \E c \in DOMAIN Spelling :
       /\ IsStrictPrefix(word, Spelling[c])
       /\ word' = SubSeq(Spelling[c], 1, Len(word) + 1)
  /\ UNCHANGED tokens

EndWord ==
  /\ \E c \in DOMAIN Spelling :
       word = Spelling[c] /\ tokens' = tokens \o TokensOf(c)
  /\ word' = <<>>

Backspace ==
  /\ word # <<>>
  /\ word' = Front(word)
  /\ UNCHANGED tokens

FirmwareTab ==
  LET options == Options(tokens, word)
  IN /\ Cardinality(options) = 1
     /\ word' = Shared(options)
     /\ UNCHANGED tokens

EmulatorTab ==
  LET options == Options(tokens, word)
  IN /\ options # {} /\ Replaces(word, options)
     /\ IF AppendSpace(tokens, options)
        THEN /\ word' = <<>>
             /\ \E c \in options : tokens' = tokens \o TokensOf(c)
        ELSE word' = Shared(options) /\ UNCHANGED tokens

LineNext ==
  TypeToken \/ TypeLetter \/ EndWord \/ Backspace \/ FirmwareTab \/ EmulatorTab

LineSpec == LineInit /\ [][LineNext]_lineVars

-----------------------------------------------------------------------------
(* cli-grammar.md:29, "hands them to the winnow parser, which applies the  *)
(* productions above": only what the grammar allows is accepted, and it is *)
(* read as what it asks for, but for one kind of sentence.  The document   *)
(* allows integers of 32 bits (:24), and a line that asks for more retries *)
(* than 8 bits hold is refused, for the integer.                           *)
LinesAreUnderstood ==
  LET parsed == Parse(tokens)
  IN Len(tokens) <= MaxTokens =>
       /\ parsed.error = "" => Sentence(tokens)
       /\ \A s \in Sentences : s.line = tokens =>
            IF \E n \in s.command.retries : n > MaxRetries
            THEN parsed.error = "InvalidInteger"
            ELSE parsed.error = "" /\ parsed.command = s.command

(* A line that is refused is refused for the first token that no readable  *)
(* sentence could have there, and called unfinished only if more of it     *)
(* could still be accepted; but an unknown token anywhere is named first.  *)
ErrorsNameTheFirstWrongToken ==
  LET parsed  == Parse(tokens)
      unknown == {n \in DOMAIN tokens : tokens[n].kind = "Error"}
  IN parsed.error \notin {"", "TooManyTokens"} =>
       parsed.at = IF unknown # {} THEN Min(unknown) ELSE Sound(tokens) + 1

(* catalog.rs:3, "The parser and completion engine interpret the same      *)
(* structure": what is offered after the beginning of a sentence goes on   *)
(* with one.  Behind `retries' alone it does not: the engine offers the    *)
(* whole assignment again.                                                 *)
OffersContinueTheLine ==
  LET beginnings == Beginnings
  IN tokens \in beginnings =>
       \A c \in Options(tokens, word) :
         \/ tokens \o TokensOf(c) \in beginnings
         \/ c \in Suggestions /\ Contains(tokens, Word("retries"))

(* Conversely every keyword that may come next is among what is offered,   *)
(* however much of it has been typed.  (`retries' is offered with a value, *)
(* and of the topics of `help' only the commands are.)                     *)
EveryWordIsOffered ==
  LET options    == Options(tokens, word)
      beginnings == Beginnings
  IN \A c \in DOMAIN Spelling :
       /\ tokens \o TokensOf(c) \in beginnings /\ IsPrefix(word, Spelling[c])
       /\ tokens = <<Word("help")>> => c \in DOMAIN Catalog
       /\ c # "retries"
       => c \in options

(* cli-grammar.md:37, "When multiple matches exist, the REPL emits them as *)
(* a columnized list and leaves the buffer unchanged": the firmware's tab  *)
(* keeps that rule, the emulator's does not, and types the letters all of  *)
(* them share.  Either tab only ever adds letters, and leaves every word   *)
(* that was offered before it within reach.                                *)
TabKeepsOptions ==
  [][/\ FirmwareTab => Cardinality(Options(tokens, word)) = 1
     /\ FirmwareTab \/ EmulatorTab =>
          \/ /\ IsPrefix(word, word') /\ UNCHANGED tokens
             /\ Options(tokens', word') = Options(tokens, word)
          \/ /\ Cardinality(Options(tokens, word)) = 1 /\ word' = <<>>
             /\ \A c \in Options(tokens, word) :
                  tokens' = tokens \o TokensOf(c)]_lineVars
=============================================================================
