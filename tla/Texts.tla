------------------------------- MODULE Texts -------------------------------
(***************************************************************************)
(* A text in an editor: any text, one after another, and what a parser     *)
(* relies on in its tokens.                                                *)
(***************************************************************************)
EXTENDS Lexer

VARIABLE text

TextInit == text \in Seq(Char)
TextNext == text' \in Seq(Char)
TextSpec == TextInit /\ [][TextNext]_text

-----------------------------------------------------------------------------
\* The cursor is at the end.  Its tokens leave nothing out, only DEDENTs are
\* empty, and no block is closed that is not open or is open at the end.
Whole(cu) ==
  LET tokens == cu.tokens
  IN  /\ Finished(text, cu)
      /\ StartOf(tokens, Len(tokens) + 1) = Len(text) + 1
      /\ \A i \in DOMAIN tokens :
           /\ tokens[i].kind # "Dedent" => tokens[i].len > 0
           /\ Depth(tokens, i) >= 0
      /\ Depth(tokens, Len(tokens)) = 0

\* The iterator ends: its calls are enough for the text.  The tokens are the
\* text: they leave nothing out, only DEDENTs are empty, and no block is closed
\* that is not open or is open at the end.
TokensAreTheText == Whole(AfterCalls(text))

\* From one line to the next there is a DEDENT for each column the first was
\* nested at and the second is not, and an INDENT for a new one.
Nested(tokens) ==
  LET lines    == Lines(text, tokens)
      Seen(p)  == Before(text, tokens, p)
      Nest(p)  == Levels(text, tokens, p)
      Following(p) == {q \in lines : p < q /\ ~\E r \in lines : p < r /\ r < q}
  IN  \A p \in lines : \A q \in Following(p) :
        /\ Count(tokens, "Dedent", Seen(p) + 1, Seen(q)) = Cardinality(Nest(p) \ Nest(q))
        /\ Count(tokens, "Indent", Seen(p) + 1, Seen(q)) = Cardinality(Nest(q) \ Nest(p))

Consistent(tokens) == \A i \in DOMAIN tokens : tokens[i].consistent

\* If each DEDENT is consistent, then from one line to the next there is a
\* DEDENT for each column the first was nested at and the second is not, and an
\* INDENT for a new one; whatever blank lines, brackets, strings, comments and
\* continued lines are between them.  A line of only a comment counts as a line,
\* as in the lexer: the columns it starts at open and close blocks.
LinesAreNested ==
  LET Holds(tokens) == Consistent(tokens) => Nested(tokens)
  IN  Holds(Tokenize(text))
=============================================================================
