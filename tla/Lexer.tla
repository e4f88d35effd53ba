------------------------------- MODULE Lexer -------------------------------
(***************************************************************************)
(* The tokens of a text (starpls_lexer): what the cursor returns until the *)
(* end, and what they should be.                                           *)
(***************************************************************************)
EXTENDS Cursor

\* tokenize: the iterator calls advance_token until Eof.
Iterate(text, cu) == IF Finished(text, cu) THEN cu ELSE AdvanceToken(text, cu)

\* After so many calls of the iterator the end is reached, whatever the text.
MostCalls(text) == 2 * Len(text) + 1

AfterCalls(text) ==
  LET After[n \in 0..MostCalls(text)] == IF n = 0 THEN Start ELSE Iterate(text, After[n - 1])
  IN  After[MostCalls(text)]

Tokenize(text) == AfterCalls(text).tokens

-----------------------------------------------------------------------------
(***************************************************************************)
(* What the tokens of a text should be.  A line begins after a Newline     *)
(* token, and counts if it has more than white space.                      *)
(***************************************************************************)
StartOf(tokens, i) ==
  LET Starts[k \in 1..Len(tokens) + 1] == IF k = 1 THEN 1 ELSE Starts[k - 1] + tokens[k - 1].len
  IN  Starts[i]

Lines(text, tokens) ==
  {p \in {1} \cup {StartOf(tokens, i + 1) : i \in {i \in DOMAIN tokens : tokens[i].kind = "Newline"}} :
     At(text, Skip(text, p, Blank)) \notin {"nl", "eof"}}

Columns(text, line) ==
  LET blanks == SubSeq(text, line, Skip(text, line, Blank) - 1)
  IN  Cardinality({p \in DOMAIN blanks : blanks[p] = "sp"})
        + 4 * Cardinality({p \in DOMAIN blanks : blanks[p] = "tab"})

\* The columns of the lines that a line is nested in, and its own.
Levels(text, tokens, line) ==
  LET lines == {p \in Lines(text, tokens) : p <= line}
  IN  {Columns(text, p) : p \in {p \in lines : \A k \in lines : p <= k => Columns(text, k) >= Columns(text, p)}}
        \ {0}

\* INDENTs and DEDENTs among some tokens.
Count(tokens, kind, from, to) == Cardinality({i \in from..to : tokens[i].kind = kind})

\* The blocks that a parser is in after some tokens.
Depth(tokens, n) == Count(tokens, "Indent", 1, n) - Count(tokens, "Dedent", 1, n)

\* The tokens before a line's first that is not white space.
Before(text, tokens, line) ==
  Cardinality({i \in DOMAIN tokens : StartOf(tokens, i + 1) <= Skip(text, line, Blank)})
=============================================================================
