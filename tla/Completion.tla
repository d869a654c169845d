----------------------------- MODULE Completion -----------------------------
(***************************************************************************)
(* CompletionEngine of controller-core/src/repl/completion.rs: what may    *)
(* follow the tokens before the cursor, found by walking the same catalog  *)
(* as the parser, filtered by the beginning of the word at the cursor.     *)
(*                                                                         *)
(* An expectation is kept as what collect_candidates makes of it, and      *)
(* whether it is Root.  Every `next' of the catalog is END, which expects  *)
(* nothing; so a choice's default makes no difference to it.               *)
(***************************************************************************)
EXTENDS Grammar, SequencesExt

CONSTANTS
  Spelling  \* the letters of every word and suggestion

Suggestions == {"retries=1", "retries=2", "retries=3"}

\* The words of the catalog.
Keywords ==
  DOMAIN Catalog \cup DOMAIN Subcommands
    \cup {b.keyword : b \in RebootGrammar.choices \cup RecoveryGrammar.choices
                                \cup FaultRecoverGrammar.choices}

ASSUME CompletionAssumption ==
  /\ DOMAIN Spelling = Keywords \cup Suggestions
  /\ DOMAIN Spelling \subseteq STRING
  /\ \A c \in DOMAIN Spelling : Spelling[c] \in Seq(STRING)

Expect(candidates) == [root |-> FALSE, candidates |-> candidates]

Nothing == Expect({})
Root    == [root |-> TRUE, candidates |-> DOMAIN Catalog]

\* collect_candidates of Choices
Offered(branch) ==
  IF branch.value = IntegerAssignment THEN Suggestions ELSE {branch.keyword}

(* evaluate_choice_branch and evaluate_value; no duration is suggested. *)
EvaluateChoiceBranch(branch, line, i) ==
  IF Mismatches(branch.value.tokens, line, i) = {} THEN Nothing
  ELSE Expect(Offered(branch) \ {branch.keyword})

EvaluateChoiceStays(node, line, i) ==     \* mutant: a choice is not used up
  Expect(UNION {Offered(b) : b \in node.choices})

EvaluateOptionalChoice(node, line, i) ==
  IF Chosen(node, line, i) = {}
  THEN Expect(UNION {Offered(b) : b \in node.choices})
  ELSE EvaluateChoiceBranch(CHOOSE b \in Chosen(node, line, i) : TRUE,
                            line, i + 1)

EvaluateSubcommands(line, i) ==
  IF KindAt(line, i) = "Ident" /\ line[i].word \in DOMAIN Subcommands
  THEN EvaluateOptionalChoice(Subcommands[line[i].word], line, i + 1)
  ELSE Expect(DOMAIN Subcommands)

EvaluateTopic(line, i) ==
  IF KindAt(line, i) = "Ident" THEN Nothing ELSE Expect(DOMAIN Catalog)

EvaluateNode(node, line, i) ==
  CASE node.node = "End" -> Nothing
    [] node.node = "OptionalChoice" -> EvaluateOptionalChoice(node, line, i)
    [] node.node = "Subcommands" -> EvaluateSubcommands(line, i)
    [] node.node = "Topic" -> EvaluateTopic(line, i)

\* trim_trailing_eol
TrimTrailingEol(line) ==
  LET kept == {n \in DOMAIN line : line[n].kind # "Eol"}
  IN SubSeq(line, 1, IF kept = {} THEN 0 ELSE Max(kept))

(* determine_expectation, for tokens that lex and hold no error. *)
DetermineExpectation(line) ==
  LET tokens == TrimTrailingEol(line)
  IN IF KindAt(tokens, 1) = "Ident" /\ tokens[1].word \in DOMAIN Catalog
     THEN EvaluateNode(Catalog[tokens[1].word], tokens, 2)
     ELSE Root

StartsWithAll(candidate, prefix) ==     \* mutant: only a whole word matches
  Spelling[candidate] = prefix

StartsWith(candidate, prefix) == IsPrefix(prefix, Spelling[candidate])

(* complete: the options for the word that begins with `prefix' after      *)
(* `line'.                                                                 *)
Options(line, prefix) ==
  IF Len(line) > MaxTokens \/ FirstFrom(line, 1, {"Error"}) # 0 THEN {}
  ELSE {c \in DetermineExpectation(line).candidates : StartsWith(c, prefix)}

SharedOfOne(options) ==     \* mutant: the first option, not what all share
  Spelling[CHOOSE c \in options : TRUE]

\* longest_common_prefix
Shared(options) == LongestCommonPrefix({Spelling[c] : c \in options})

(* The replacement of complete: the one option, or what several share if   *)
(* that is more than was typed.                                            *)
Replaces(prefix, options) ==
  Cardinality(options) = 1 \/ Len(Shared(options)) > Len(prefix)

(* should_append_space: after a command that expects something. *)
AppendSpace(line, options) ==
  /\ Cardinality(options) = 1
  /\ DetermineExpectation(line).root
  /\ \E c \in options :
       DetermineExpectation(<<Word(c)>>).candidates # {}
=============================================================================
