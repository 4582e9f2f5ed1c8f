---------------------------- MODULE ConfigParser ----------------------------
(***************************************************************************)
(* NginxConfigParser (config_parser.h/.cc) as operators on its state, and  *)
(* the NginxConfig it builds.                                              *)
(*                                                                         *)
(* A text is a sequence of characters; letters that always come together   *)
(* ("path", "/a", "8080") are one character.  A word is the sequence of    *)
(* its letters.  The blocks of a configuration are numbered, 1 being the   *)
(* file itself, and the statements of all blocks are kept in one sequence, *)
(* in the order they are made: those of block b are its statements_.       *)
(***************************************************************************)
EXTENDS Naturals, Sequences, SequencesExt

Blank == {" ", "\n", "\r"}

\* What ends a word; a carriage return does not.
Delimiters == {" ", "\n", ";", "{", "}"}

TopBlock == 1
NoBlock == 0

(***************************************************************************)
(* lex and value belong to ParseToken, last and stack to Parse (block_num  *)
(* is Len(stack) - 1); tokens is a history of the tokens Parse was given.  *)
(***************************************************************************)
ParserStart ==
  [lex |-> "initial", value |-> <<>>,
   last |-> "start", stack |-> <<TopBlock>>, blocks |-> 1, statements |-> <<>>,
   error |-> FALSE, tokens |-> <<>>]

Statement(block, word) == [block |-> block, tokens |-> <<word>>, child |-> NoBlock]

-----------------------------------------------------------------------------
(***************************************************************************)
(* One round of Parse's loop, for each type of token.                      *)
(***************************************************************************)
Failed(p) == [p EXCEPT !.error = TRUE]

Given(p, type, word) == [p EXCEPT !.last = type, !.tokens = Append(@, word)]

\* The word goes to the last statement that was made, or to a new one.
Word(p, word) ==
  LET n == Len(p.statements)
      statements ==
        IF p.last = "normal"
          THEN [p.statements EXCEPT ![n].tokens = Append(@, word)]
          ELSE Append(p.statements, Statement(Last(p.stack), word))
  IN  [Given(p, "normal", word) EXCEPT !.statements = statements]

EndStatement(p) ==
  IF p.last = "normal" THEN Given(p, "end", <<";">>) ELSE Failed(p)

StartBlock(p) ==
  LET b == p.blocks + 1
  IN  IF p.last # "normal" THEN Failed(p)
      ELSE [Given(p, "open", <<"{">>) EXCEPT
              !.blocks = b,
              !.statements[Len(p.statements)].child = b,
              !.stack = Append(@, b)]

\* Mutant: all blocks are left.
EndBlock_All(p) ==
  IF Len(p.stack) = 1 \/ p.last \notin {"end", "close"} THEN Failed(p)
  ELSE [Given(p, "close", <<"}">>) EXCEPT !.stack = <<TopBlock>>]

EndBlock(p) ==
  IF Len(p.stack) = 1 \/ p.last \notin {"end", "close"} THEN Failed(p)
  ELSE [Given(p, "close", <<"}">>) EXCEPT !.stack = Front(@)]

-----------------------------------------------------------------------------
(***************************************************************************)
(* ParseToken, one character at a time; value is the token so far.         *)
(***************************************************************************)
Initial(p, c) ==
  CASE c = ";" -> EndStatement(p)
    [] c = "{" -> StartBlock(p)
    [] c = "}" -> EndBlock(p)
    [] c = "#" -> [p EXCEPT !.lex = "comment"]
    [] c = "'" -> [p EXCEPT !.lex = "quote", !.value = <<c>>]
    [] c \in Blank -> p
    [] OTHER -> [p EXCEPT !.lex = "normal", !.value = <<c>>]

Returned(p) == [p EXCEPT !.lex = "initial", !.value = <<>>]

\* Double quotes are as single ones.
Quote(p, c) ==
  IF c = "'" THEN Word(Returned(p), Append(p.value, c))
             ELSE [p EXCEPT !.value = Append(@, c)]

Comment(p, c) == IF c \in {"\n", "\r"} THEN Returned(p) ELSE p

\* The delimiter is put back and read again.
Normal(p, c) ==
  IF c \in Delimiters THEN Initial(Word(Returned(p), p.value), c)
                      ELSE [p EXCEPT !.value = Append(@, c)]

ParseToken(p, c) ==
  CASE p.error -> p
    [] ~p.error /\ p.lex = "initial" -> Initial(p, c)
    [] ~p.error /\ p.lex = "quote" -> Quote(p, c)
    [] ~p.error /\ p.lex = "comment" -> Comment(p, c)
    [] ~p.error /\ p.lex = "normal" -> Normal(p, c)

Parse(p, text) == FoldLeft(ParseToken, p, text)

\* At the end of the file a word that nothing has ended is dropped.
Accepts(p) ==
  /\ ~p.error
  /\ p.lex # "quote"
  /\ p.last \in {"end", "close"} /\ Len(p.stack) = 1

-----------------------------------------------------------------------------
(***************************************************************************)
(* The configuration, and how it is printed (ToString): as a sequence of   *)
(* tokens.  A statement is known by its number.                            *)
(***************************************************************************)
Block(p, b) == {n \in DOMAIN p.statements : p.statements[n].block = b}

Written(s, printed) ==
  s.tokens \o IF s.child = NoBlock THEN << <<";">> >>
              ELSE << <<"{">> >> \o printed[s.child] \o << <<"}">> >>

\* A block has a larger number than the block of its statement.
Serialized(p) ==
  LET Printed[b \in TopBlock..p.blocks] ==
        FoldLeft(LAMBDA text, s : IF s.block = b THEN text \o Written(s, Printed) ELSE text,
                 <<>>, p.statements)
  IN  Printed[TopBlock]
=============================================================================
