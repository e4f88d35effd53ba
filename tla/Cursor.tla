------------------------------- MODULE Cursor ------------------------------
(***************************************************************************)
(* The lexer's cursor (starpls_lexer): layout, brackets, comments and      *)
(* strings.  A character is a member of Char: a letter stands for any that *)
(* is a token by itself.                                                   *)
(***************************************************************************)
EXTENDS Integers, Sequences, FiniteSets

Char   == {"sp", "tab", "cr", "nl", "(", ")", "[", "]", "#", "quote", "\\", "letter"}
Blank  == {"sp", "tab", "cr"}
Closer == [c \in {"(", "["} |-> IF c = "(" THEN ")" ELSE "]"]

\* Cursor::first, second and third, from a position on.
At(text, p) == IF p <= Len(text) THEN text[p] ELSE "eof"
Reads(text, p, chars) == \A k \in DOMAIN chars : At(text, p + k - 1) = chars[k]
AtNewline(text, p)    == Reads(text, p, <<"nl">>) \/ Reads(text, p, <<"cr", "nl">>)

\* eat_while: where the first character outside a set is.
Skip(text, p, chars) ==
  CHOOSE k \in p..Len(text) + 1 :
    /\ At(text, k) \notin chars
    /\ \A j \in p..k - 1 : text[j] \in chars

\* A backslash before a newline, and how long it is.
Continuation(text, p) ==
  IF Reads(text, p, <<"\\", "nl">>) THEN 2
  ELSE IF Reads(text, p, <<"\\", "cr", "nl">>) THEN 3 ELSE 0

\* eat_whitespace stops at what is neither white nor in a continuation.
EatWhitespace(text, p, newline_allowed) ==
  LET White(k) == At(text, k) \in Blank \/ (newline_allowed /\ At(text, k) = "nl")
      Stops(k) == /\ ~White(k) /\ Continuation(text, k) = 0
                  /\ \A m \in p..k - 1 : m + Continuation(text, m) <= k
  IN  CHOOSE k \in p..Len(text) + 1 : Stops(k) /\ \A m \in p..k - 1 : ~Stops(m)

(***************************************************************************)
(* Cursor::string.  closing_streak counts the quotes in a row; an escaped  *)
(* character is skipped and leaves the count as it is.                     *)
(***************************************************************************)
Literal(next, terminated, triple_quoted) ==
  [next |-> next, terminated |-> terminated, triple_quoted |-> triple_quoted]

\* From the character at a place, and the quotes before it, on to the next.
NextInString(text, s) ==
  LET k       == s[1]
      escaped == IF Continuation(text, k) > 0 THEN Continuation(text, k)
                 ELSE IF At(text, k + 1) \in {"\\", "quote"} THEN 2 ELSE 0
  IN  IF At(text, k) = "\\" /\ escaped > 0 THEN <<k + escaped, s[2]>>
      ELSE <<k + 1, IF At(text, k) = "quote" THEN s[2] + 1 ELSE 0>>

\* A string of one line ends where its line does.
String(text, p) ==
  LET triple_quoted == Reads(text, p, <<"quote", "quote">>)
      Breaks(k)     == ~triple_quoted /\ AtNewline(text, k)
      From[s \in (1..Len(text) + 1) \X (0..2)] ==
        LET c    == At(text, s[1])
            next == NextInString(text, s)
        IN  CASE c = "eof" -> Literal(s[1], FALSE, triple_quoted)
              [] c = "quote" /\ (~triple_quoted \/ s[2] = 2) -> Literal(s[1] + 1, TRUE, triple_quoted)
              [] OTHER -> IF Breaks(next[1]) THEN Literal(next[1], FALSE, triple_quoted)
                          ELSE From[next]
  IN  IF Breaks(p) THEN Literal(p, FALSE, triple_quoted)
      ELSE From[IF triple_quoted THEN <<p + 2, 0>> ELSE <<p, 0>>]

-----------------------------------------------------------------------------
(***************************************************************************)
(* The cursor, and the tokens it has returned.  A token begins at `start`; *)
(* `remaining` counts the DEDENTs to come.                                 *)
(***************************************************************************)
Start == [state |-> "BeforeLeadingSpaces", pos |-> 1, start |-> 1, indents |-> <<>>,
          closers |-> <<>>, remaining |-> 0, consistent |-> TRUE, tokens |-> <<>>]

Token(kind, len, consistent) == [kind |-> kind, len |-> len, consistent |-> consistent]

Top(indents) == IF indents = <<>> THEN 0 ELSE indents[Len(indents)]

Emit(cu, kind, pos) ==
  [cu EXCEPT !.tokens = Append(@, Token(kind, pos - cu.start, TRUE)), !.pos = pos, !.start = pos]

\* Levels are popped until the top is no deeper than the line.
StartDedenting(cu, indent, pos) ==
  LET Kept(n) == SubSeq(cu.indents, 1, n)
      left    == CHOOSE n \in 0..Len(cu.indents) :
                   /\ Top(Kept(n)) <= indent
                   /\ \A k \in n + 1..Len(cu.indents) : Top(Kept(k)) > indent
      kept    == Kept(left)
  IN  [cu EXCEPT !.indents = kept, !.pos = pos, !.state = "Dedenting",
                 !.remaining = Len(cu.indents) - Len(kept), !.consistent = Top(kept) = indent]

\* The last of them has the white space, and says whether it fits a level.
Dedent(cu) ==
  IF cu.remaining = 1
  THEN [cu EXCEPT !.tokens = Append(@, Token("Dedent", cu.pos - cu.start, cu.consistent)),
                  !.start = cu.pos, !.remaining = 0, !.state = "AfterLeadingSpaces"]
  ELSE [cu EXCEPT !.tokens = Append(@, Token("Dedent", 0, TRUE)), !.remaining = @ - 1]

\* A space counts for one, a tab for four, a carriage return for nothing.
Width(blanks) ==
  LET Blanks(c) == {i \in DOMAIN blanks : blanks[i] = c}
  IN  Cardinality(Blanks("sp")) + 4 * Cardinality(Blanks("tab"))

Indentation(cu, width, pos) ==
  LET after == [cu EXCEPT !.state = "AfterLeadingSpaces"]
  IN  CASE width = Top(cu.indents) ->
             IF pos = cu.start THEN after ELSE Emit(after, "Whitespace", pos)
        [] width > Top(cu.indents) ->
             Emit([after EXCEPT !.indents = Append(@, width)], "Indent", pos)
        [] OTHER -> StartDedenting(cu, width, pos)

\* Mutant: a line of white space only is indented like any other.
LeadingSpacesOfAny(text, cu) ==
  LET pos == Skip(text, cu.pos, Blank)
  IN  Indentation(cu, Width(SubSeq(text, cu.pos, pos - 1)), pos)

\* A line of white space only keeps the level.
LeadingSpaces(text, cu) ==
  LET pos   == Skip(text, cu.pos, Blank)
      width == IF At(text, pos) \in {"nl", "eof"} THEN Top(cu.indents)
               ELSE Width(SubSeq(text, cu.pos, pos - 1))
  IN  Indentation(cu, width, pos)

\* A closer that is not the one awaited closes nothing.
CloseBlock(cu, c) ==
  IF cu.closers # <<>> /\ cu.closers[Len(cu.closers)] = c
  THEN [cu EXCEPT !.closers = SubSeq(@, 1, Len(@) - 1)] ELSE cu

Scan(text, cu) ==
  LET c    == At(text, cu.pos)
      next == cu.pos + 1
      open == cu.closers # <<>>
  IN  CASE c = "nl" /\ ~open    -> Emit([cu EXCEPT !.state = "BeforeLeadingSpaces"], "Newline", next)
        [] c \in Blank \/ (c = "nl" /\ open)
                                -> Emit(cu, "Whitespace", EatWhitespace(text, next, open))
        [] c = "\\" /\ Continuation(text, cu.pos) > 0
                                -> Emit(cu, "Whitespace",
                                        EatWhitespace(text, cu.pos + Continuation(text, cu.pos), open))
        [] c = "#"              -> Emit(cu, "Comment", Skip(text, next, Char \ {"nl"}))
        [] c \in DOMAIN Closer  -> Emit([cu EXCEPT !.closers = Append(@, Closer[c])], c, next)
        [] c \in {")", "]"}     -> Emit(CloseBlock(cu, c), c, next)
        [] c = "quote"          -> Emit(cu, "Literal", String(text, next).next)
        [] OTHER                -> Emit(cu, c, next)

\* Mutant: the blocks that are open at the end are left open.
FinishedAtEnd(text, cu) == cu.state = "AfterLeadingSpaces" /\ cu.pos > Len(text)

\* Whatever is left at the end is dedented.
Finished(text, cu) == /\ cu.state = "AfterLeadingSpaces" /\ cu.pos > Len(text)
                      /\ cu.indents = <<>>

DedentAtEof(cu) ==
  [cu EXCEPT !.indents = SubSeq(@, 1, Len(@) - 1), !.tokens = Append(@, Token("Dedent", 0, TRUE))]

AdvanceToken(text, cu) ==
  CASE cu.state = "BeforeLeadingSpaces" -> LeadingSpaces(text, cu)
    [] cu.state = "Dedenting"           -> Dedent(cu)
    [] OTHER -> IF cu.pos > Len(text) THEN DedentAtEof(cu) ELSE Scan(text, cu)
=============================================================================
