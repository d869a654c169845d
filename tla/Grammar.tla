------------------------------ MODULE Grammar ------------------------------
(***************************************************************************)
(* The console language of controller-core/src/repl: the catalog of        *)
(* commands (catalog.rs) and the parser that interprets it (grammar.rs).   *)
(*                                                                         *)
(* A line is a sequence of tokens, what `lex' makes of it.  Words are      *)
(* compared without case, so they are kept in lower case.  Every `next'    *)
(* of the catalog is END, and END takes no token, so branches carry none.  *)
(***************************************************************************)
EXTENDS Naturals, Sequences, FiniteSetsExt

CONSTANTS
  MaxTokens,  \* MAX_TOKENS
  MaxCount    \* u32::MAX, the most a duration literal may count

MaxRetries == 255    \* u8::MAX, the most parse_integer takes

ASSUME GrammarAssumption ==
  MaxTokens \in Nat /\ MaxCount \in Nat /\ MaxRetries <= MaxCount

TokenKinds == {"Duration", "Integer", "Ident", "Flag", "Equals", "Comma",
               "Eol", "Error"}

\* What the parser reads of a lexeme: the word of an identifier, the number
\* of an integer, the number and the unit (1 or 1000 ms) of a duration.
Token(kind, word, number, unit) ==
  [kind |-> kind, word |-> word, number |-> number, unit |-> unit]

\* Only a literal has a number, a duration a unit, and an identifier a word.
Tokens ==
  {t \in [kind : TokenKinds, word : STRING, number : Nat, unit : {0, 1, 1000}] :
     /\ t.kind \notin {"Integer", "Duration"} => t.number = 0
     /\ t.kind # "Duration" => t.unit = 0
     /\ t.kind # "Ident" => t.word = ""}

Word(word)            == Token("Ident", word, 0, 0)
IntegerOf(number)     == Token("Integer", "", number, 0)
DurationOf(number, u) == Token("Duration", "", number, u)
Mark(kind)            == Token(kind, "", 0, 0)

-----------------------------------------------------------------------------
(* The catalog.  `tokens' are the kinds of token a value takes, in order;  *)
(* the number is in the last of them.                                      *)

NoValue           == [tokens |-> <<>>, limit |-> 0, error |-> ""]
DurationValue     == [tokens |-> <<"Duration">>, limit |-> MaxCount,
                      error |-> "InvalidDuration"]
IntegerAssignment == [tokens |-> <<"Equals", "Integer">>,
                      limit |-> MaxRetries, error |-> "InvalidInteger"]

Branch(keyword, tag, value) ==
  [keyword |-> keyword, tag |-> tag, value |-> value]

End == [node |-> "End", choices |-> {}, default |-> ""]
Topic == [node |-> "Topic", choices |-> {}, default |-> ""]

\* A default of "" is None.
OptionalChoice(choices, default) ==
  [node |-> "OptionalChoice", choices |-> choices, default |-> default]

RebootGrammar ==
  OptionalChoice({Branch("now", "RebootNow", NoValue),
                  Branch("delay", "RebootDelay", DurationValue)}, "RebootNow")

RecoveryGrammar ==
  OptionalChoice({Branch("enter", "RecoveryEnter", NoValue),
                  Branch("exit", "RecoveryExit", NoValue),
                  Branch("now", "RecoveryNow", NoValue)}, "RecoveryEnter")

FaultRecoverGrammar ==
  OptionalChoice({Branch("retries", "FaultRetries", IntegerAssignment)}, "")

Subcommands == [recover |-> FaultRecoverGrammar]

\* FAULT_GRAMMAR; its choices are the subcommands.
FaultGrammar == [node |-> "Subcommands", choices |-> {}, default |-> ""]

Catalog ==
  [reboot |-> RebootGrammar, recovery |-> RecoveryGrammar,
   fault |-> FaultGrammar, status |-> End, help |-> Topic]

-----------------------------------------------------------------------------
(* A command: its name, the tag of the choice made ("" for none), and what *)
(* came with it.  An option is a set of at most one element.               *)

Bare(name) ==
  [name |-> name, choice |-> "", delay |-> 0, retries |-> {}, topic |-> {}]

\* A parse that got to token `at', or failed there.
Success(command, at) == [error |-> "", command |-> command, at |-> at]
Failure(error, at)   == [error |-> error, command |-> Bare(""), at |-> at]

KindAt(line, i) == IF i <= Len(line) THEN line[i].kind ELSE "end"

\* GrammarError::unexpected
Unexpected(line, i) ==
  Failure(IF i <= Len(line) THEN "UnexpectedToken" ELSE "UnexpectedEnd", i)

\* The places, counted from `i', where the tokens are not of these kinds.
Mismatches(kinds, line, i) ==
  {n \in DOMAIN kinds : KindAt(line, i + n - 1) # kinds[n]}

(* apply_choice *)
Apply(command, branch, token) ==
  [command EXCEPT
     !.choice = branch.tag,
     !.delay = IF branch.value = DurationValue
               THEN token.number * token.unit ELSE @,
     !.retries = IF branch.value = IntegerAssignment
                 THEN {token.number} ELSE @]

(* parse_choice_branch: parse_value, then apply_choice.  Without a value   *)
(* the last token is the keyword, and its number 0 is within the limit.    *)
ParseChoiceBranch(command, branch, line, i) ==
  LET value == branch.value
      wrong == Mismatches(value.tokens, line, i)
      last  == i + Len(value.tokens) - 1
  IN IF wrong # {} THEN Unexpected(line, i + Min(wrong) - 1)
     ELSE IF line[last].number > value.limit THEN Failure(value.error, last)
     ELSE Success(Apply(command, branch, line[last]), last + 1)

Chosen(node, line, i) ==
  {b \in node.choices : KindAt(line, i) = "Ident" /\ b.keyword = line[i].word}

ParseOptionalChoiceEol(node, command, line, i) ==     \* mutant: the default
  IF KindAt(line, i) = "Eol"                           \* needs a line end
  THEN Success([command EXCEPT !.choice = node.default], i)
  ELSE IF Chosen(node, line, i) = {} THEN Unexpected(line, i)
  ELSE ParseChoiceBranch(command,
         CHOOSE b \in Chosen(node, line, i) : TRUE, line, i + 1)

ParseOptionalChoice(node, command, line, i) ==
  IF KindAt(line, i) \in {"Eol", "end"}
  THEN Success([command EXCEPT !.choice = node.default], i)
  ELSE IF Chosen(node, line, i) = {} THEN Unexpected(line, i)
  ELSE ParseChoiceBranch(command,
         CHOOSE b \in Chosen(node, line, i) : TRUE, line, i + 1)

ParseTopic(command, line, i) ==
  CASE KindAt(line, i) = "Ident" ->
         Success([command EXCEPT !.topic = {line[i].word}], i + 1)
    [] KindAt(line, i) \in {"Eol", "end"} -> Success(command, i)
    [] OTHER -> Unexpected(line, i)

(* parse_subcommands; a subcommand is an optional choice. *)
ParseSubcommands(command, line, i) ==
  IF KindAt(line, i) = "Ident" /\ line[i].word \in DOMAIN Subcommands
  THEN ParseOptionalChoice(Subcommands[line[i].word], command, line, i + 1)
  ELSE Unexpected(line, i)

ParseNode(node, command, line, i) ==
  CASE node.node = "End" -> Success(command, i)
    [] node.node = "OptionalChoice" ->
         ParseOptionalChoice(node, command, line, i)
    [] node.node = "Subcommands" -> ParseSubcommands(command, line, i)
    [] node.node = "Topic" -> ParseTopic(command, line, i)

(* command *)
ParseCommand(line) ==
  IF KindAt(line, 1) = "Ident" /\ line[1].word \in DOMAIN Catalog
  THEN ParseNode(Catalog[line[1].word], Bare(line[1].word), line, 2)
  ELSE Unexpected(line, 1)

FirstFrom(line, i, kinds) ==
  LET found == {n \in i..Len(line) : line[n].kind \in kinds}
  IN IF found = {} THEN 0 ELSE Min(found)

TrailingLast(line, i) ==     \* mutant: looks at the last token only
  IF i <= Len(line) /\ line[Len(line)].kind # "Eol" THEN Len(line) ELSE 0

\* The first token after a command that is not an end of line, or 0.
Trailing(line, i) == FirstFrom(line, i, TokenKinds \ {"Eol"})

(* parse, with the limit of lex on tokens. *)
Parse(line) ==
  LET unknown == FirstFrom(line, 1, {"Error"})
      parsed  == ParseCommand(line)
      extra   == Trailing(line, parsed.at)
  IN IF Len(line) > MaxTokens THEN Failure("TooManyTokens", MaxTokens + 1)
     ELSE IF unknown # 0 THEN Failure("InvalidToken", unknown)
     ELSE IF parsed.error # "" \/ extra = 0 THEN parsed
     ELSE Failure("UnexpectedToken", extra)
=============================================================================
