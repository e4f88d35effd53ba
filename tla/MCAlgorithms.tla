---------------------------- MODULE MCAlgorithms ----------------------------
(***************************************************************************)
(* The algorithms of the front end on every small input.  what says which  *)
(* algorithm the input is for: a program of lines for CodeFlow, a function *)
(* and a call of it for CallSlots, a text in chunks for Lexer, tokens in   *)
(* phrases or a type comment for Parser, statements for Lower, Scopes and  *)
(* Resolver, an expression for Types and Infer.  The input grows until the *)
(* bound of its kind.  The states are the inputs, and the properties       *)
(* compare what an algorithm makes of each with a definition of its own.   *)
(***************************************************************************)
EXTENDS CodeFlow, Calls, Texts

Parsing == INSTANCE Parser
Starlark == INSTANCE StarlarkGrammar
Resolving == INSTANCE Resolver
Lexical   == INSTANCE StarlarkNames

CONSTANTS MaxLines, MaxParams, MaxArgs, MaxChunks, MaxPhrases, MaxTypeTokens, MaxStatements, MaxExprs, MaxInt

ASSUME BoundsAssumption ==
  {MaxLines, MaxParams, MaxArgs, MaxChunks, MaxPhrases, MaxTypeTokens, MaxStatements, MaxExprs, MaxInt} \subseteq Nat

VARIABLES what, input
vars == <<what, input, calls, text>>

InputOf(kind) == IF what = kind THEN input ELSE <<>>

program == InputOf("program")

Typing  == INSTANCE MCTypes WITH stack <- InputOf("expression")

\* What Lexer's text is made of, for its layout.
Chunks == {<<"letter">>, <<"nl", "letter">>, <<"nl", "sp", "letter">>,
           <<"nl", "sp", "sp", "letter">>, <<"nl", "tab", "letter">>, <<"nl">>, <<"cr", "nl">>,
           <<"nl", "sp">>, <<"sp">>, <<"(">>, <<")">>, <<"]">>, <<"#">>, <<"quote">>, <<"\\">>}

\* What Parser's tokens are made of: tokens, and the beginnings that take more
\* of them than a bound allows.
Phrases ==
  { <<tok>> : tok \in {"ident", "STRING", "(", ")", "]", "}", ",", ".", ":", ";", "=", "*", "**", "not",
                      "in", "if", "else", "lambda", "return", "load", "\n", "DEDENT", "ERROR", "COMMENT"} }
  \cup {<<"\n", "INDENT">>, <<"load", "(", "STRING">>, <<"def", "ident", "(">>, <<")", ":">>,
        <<"for", "ident", "in", "ident">>, <<"elif", "ident", ":">>, <<"ident", "(">>, <<"[", "ident">>,
        <<"{", "ident", ":", "ident">>, <<"if", "WHITESPACE", "ident", ":", "\n", "INDENT", "pass">>}

TypeTokens == {"ident", "None", "(", ")", "[", "]", ",", ".", "|", "->", "...", "*", "**", "ignore",
               "ERROR", "WHITESPACE"}

Ended(toks) == toks \o <<"\n">>
SuiteOf(toks) == toks \o <<":", "\n", "INDENT">>

\* Type comments, and lines with some: at which offsets they name what type.
CommentBody == ("# x" :> <<"x">>) @@ ("# _y | None" :> <<"_y", "|", "None">>) @@ ("# x._y[x, ...]" :>
  <<"x", ".", "_y", "[", "x", ",", "...", "]">>) @@ ("# (_y, *x) -> None" :> <<"(", "_y", ",", "*", "x", ")", "->", "None">>)

Path(name)  == [is |-> "Path", segments |-> <<name>>, generic |-> FALSE, args |-> <<>>]
NoneType    == [is |-> "Name", name |-> "None"]
OptionalY   == [is |-> "Union", types |-> <<Path("_y"), NoneType>>]
GenericX    == [is |-> "Path", segments |-> <<"x", "_y">>, generic |-> TRUE, args |-> <<Path("x"), [is |-> "Ellipsis"]>>]

TypedLines ==
  (Ended(<<"x", "=", "_y", "# _y | None">>) :> {<<0, OptionalY>>})
  @@ (Ended(<<"_y", "=", "x", ";", "x", "=", "_y", "# x._y[x, ...]">>) :> {<<4, GenericX>>})
  @@ (Ended(<<"def", "_y", "(", "x", ",", "# x", "*", "_y", "# _y | None", ")", ":", "x", "=", "_y", "# x">>)
        :> {<<3, Path("x")>>, <<7, OptionalY>>, <<15, Path("x")>>})
  @@ (SuiteOf(<<"def", "x", "(", "_y", ",", "# x", "*", "x", ")">>) \o Ended(<<"# (_y, *x) -> None">>)
        :> {<<0, NoneType>>, <<3, Path("x")>>, <<7, Path("x")>>})

\* What statements are made of: names, bound and used in every way.
StatementLines ==
  DOMAIN TypedLines \cup
  { Ended(<<"x">>),
    Ended(<<"(", "x", ",", "x", ".", "_y", "[", "_y", ":", ":", "x", "]", ")", "+=", "x", "if", "_y", "else", "x">>),
    Ended(<<"return", "[", "{", "x", ":", "_y", "for", "x", "in", "_y", "for", "_y", "in", "x", "}",
            "for", "x", "in", "x", "if", "_y", "]">>),
    Ended(<<"x", "(", "_y", ",", "_y", "=", "lambda", "_y", "=", "x", ":", "[", "x", "not", "in", "_y", "]", ",",
            "*", "(", "_y", ")", ",", "**", "-", "x", "[", "'m'", "]", ")">>),
    Ended(<<"load", "(", "'m'", ",", "_y", "=", "'x'", ")">>),
    Ended(<<"def", "_y", "(", "x", "=", "_y", ")", ":", "x", "(", "{", "_y", ":", "x", "}", ")">>),
    SuiteOf(<<"for", "x", "in", "_y">>), SuiteOf(<<"if", "x">>),
    <<"DEDENT">>}

Number(toks, kinds) == Cardinality({i \in DOMAIN toks : toks[i] \in kinds})

\* The lexer closes at the end of a text the blocks that are open.
OpenBlocks(toks) == Number(toks, {"INDENT"}) - Number(toks, {"DEDENT"})
source == LET phrases == FlattenSeq(InputOf("tokens") \o InputOf("statements"))
          IN  phrases \o [i \in 1..OpenBlocks(phrases) |-> "DEDENT"]
Inputs(toks) == SelectSeq(toks, LAMBDA tok : tok \notin {"WHITESPACE", "COMMENT"})

\* There are no lines in brackets, and a block closes after a line.
Lexes(toks) ==
  \A i \in DOMAIN toks :
    LET before == SubSeq(toks, 1, i - 1)
    IN  /\ toks[i] \in {"\n", "DEDENT"} =>
             Number(before, {"(", "[", "{"}) <= Number(before, {")", "]", "}"})
        /\ toks[i] = "DEDENT" => /\ OpenBlocks(before) > 0
                                /\ Last(before) \in {"\n", "DEDENT"}

Init == /\ what \in {"program", "call", "text", "tokens", "comment", "statements", "expression"}
        /\ input = <<>> /\ fn = <<>> /\ call = <<>> /\ text = <<>>

\* Where a line may stand, in a program that parses.
Fits(line) ==
  LET open == OpenAt(program, Len(program) + 1)
      In(kinds) == \E k \in DOMAIN open : program[open[k]] \in kinds
  IN  CASE line = "end"  -> open # <<>>
        [] line = "else" -> /\ open # <<>> /\ program[Last(open)] = "if"
                            /\ ~\E k \in Last(open)..Len(program) :
                                 program[k] = "else" /\ OpenAt(program, k) = open
        [] line \in {"break", "continue"} -> In({"for", "forx"})
        [] line = "return" -> In({"def"})
        [] OTHER -> TRUE

Add(kind, bound, items) ==
  /\ what = kind /\ Len(input) < bound
  /\ \E item \in items : input' = Append(input, item)
  /\ UNCHANGED <<what, calls>>

AddLine      == Add("program", MaxLines, {line \in Line : Fits(line)}) /\ UNCHANGED text
AddChunk     == Add("text", MaxChunks, Chunks) /\ text' = FlattenSeq(input')
AddPhrase    == Add("tokens", MaxPhrases, Phrases) /\ Lexes(FlattenSeq(input')) /\ UNCHANGED text
AddTypeToken == Add("comment", MaxTypeTokens, TypeTokens) /\ UNCHANGED text

AddParam == /\ what = "call" /\ call = <<>> /\ Len(fn) < MaxParams
            /\ \E param \in Param : WellFormed(Append(fn, param)) /\ fn' = Append(fn, param)
            /\ UNCHANGED <<what, input, call, text>>

AddArg   == /\ what = "call" /\ Len(call) < MaxArgs
            /\ \E arg \in Arg : call' = Append(call, arg)
            /\ UNCHANGED <<what, input, fn, text>>

AddStatement == Add("statements", MaxStatements, StatementLines) /\ Lexes(FlattenSeq(input')) /\ UNCHANGED text

AddExpr  == /\ what = "expression"
            /\ \E stack \in Typing!Pushed \cup Typing!Combined : input' = stack
            /\ UNCHANGED <<what, calls, text>>

Next == AddLine \/ AddParam \/ AddArg \/ AddChunk \/ AddPhrase \/ AddTypeToken \/ AddStatement \/ AddExpr

Spec == Init /\ [][Next]_vars

-----------------------------------------------------------------------------
(***************************************************************************)
(* Code flow.                                                              *)
(***************************************************************************)

\* What a name may be bound to where it is used, on any path of the program
\* (through branches, loops left early, calls that never return and functions
\* called later), is in the type that infer_name finds.  Excepted: what a later
\* line of the same scope assigns and a loop brings back.
FlowSeesEveryPath ==
  LET cfg   == CodeFlowGraph(program)
      reach == Reach(program, TRUE)
  IN  what = "program" => \A i \in Uses(program) : \A value \in reach[i] \ {Unbound} :
        value < i \/ ScopeAt(program, value) # ScopeAt(program, i) =>
          value \in InferName(program, cfg, i)

\* infer_name takes a name in code that is reached for possibly unbound only
\* if a path leads there on which it is not bound.  A return does not end a
\* path in the graph, nor here.
UnboundHasAPath ==
  LET cfg   == CodeFlowGraph(program)
      reach == Reach(program, FALSE)
  IN  what = "program" => \A i \in Uses(program) :
        reach[i] # {} /\ Unbound \in InferName(program, cfg, i) => Unbound \in reach[i]

\* walk_stmts reports "Code is unreachable" of no statement that the program
\* can reach.
OnlyDeadCodeIsReported ==
  LET cfg   == CodeFlowGraph(program)
      reach == Reach(program, TRUE)
  IN  what = "program" => \A i \in ReportedIn(cfg, TopLevel(program)) : reach[i] = {}

-----------------------------------------------------------------------------
(***************************************************************************)
(* Trees.                                                                  *)
(***************************************************************************)

KindOf(tok) == CASE tok \in {"x", "_y"} -> "ident" [] tok \in {"'m'", "'x'"} -> "STRING"
                 [] tok = "-" -> "+" [] tok \in DOMAIN CommentBody -> "COMMENT" [] OTHER -> tok
Tokens(toks, body) == [i \in DOMAIN toks |->
  [kind |-> KindOf(toks[i]), text |-> IF toks[i] = "'x'" THEN "x" ELSE toks[i], body |-> body[i]]]
Plain(toks) == Tokens(toks, [i \in DOMAIN toks |-> <<>>])
Text(toks)  == Tokens(toks, [i \in DOMAIN toks |->
  IF toks[i] \in DOMAIN CommentBody THEN Plain(CommentBody[toks[i]]) ELSE <<>>])

\* small_stmt has no case of `load'.
LoadsBeginLines ==
  LET toks == Inputs(source)
  IN  \A i \in 2..Len(toks) : toks[i] = "load" => toks[i - 1] \in {"\n", "INDENT", "DEDENT"}

StepsOf(tree, step) == SelectSeq(tree, LAMBDA s : s.step = step)

IsTreeOf(tree, toks) ==
  LET leaves   == StepsOf(tree, "token")
      Below(i) == Len(StepsOf(SubSeq(tree, 1, i), "start")) - Len(StepsOf(SubSeq(tree, 1, i), "finish"))
  IN  /\ Head(tree) = [step |-> "start", kind |-> "MODULE"]
      /\ \A i \in DOMAIN tree : (Below(i) = 0) = (i = Len(tree))
      /\ [i \in DOMAIN leaves |-> leaves[i].kind] = toks

\* The tree of a text is a tree, a MODULE, and its tokens are those of the
\* text in their order: with the trivia that the rules do not see, the tokens
\* that no rule accepts, and those of a type comment.
TreeIsTheText ==
  LET comment == [kind |-> "COMMENT", text |-> "", body |-> Text(input)]
  IN  /\ what = "comment" /\ input # <<>> =>
           IsTreeOf(Parsing!ParseModule(<<comment>>), <<"TYPE_COMMENT_PREFIX">> \o input)
      /\ what = "tokens" /\ LoadsBeginLines => IsTreeOf(Parsing!ParseModule(Text(source)), Parsing!Kinds(Text(source)))

\* The parser finds an error in a text exactly when the grammar that the
\* comments of its rules give does not derive it.  Excepted: load statements,
\* which must begin a line and need not end it.
AcceptsItsGrammar ==
  LET toks   == Inputs(source)
      parsed == Parsing!Parse(toks)
      EndsLine(i) == \A j \in i..Len(toks) - 1 :
                       toks[j] = ")" /\ (\A k \in i..j - 1 : toks[k] # ")") => toks[j + 1] = "\n"
  IN  /\ what = "tokens" /\ LoadsBeginLines
      /\ \A i \in DOMAIN toks : toks[i] = "load" => EndsLine(i)
      => (\A i \in DOMAIN parsed.events : parsed.events[i].event # "error")
           = Starlark!Derives("File", toks)

Body(toks)  == Front(Tail(Parsing!Steps(Parsing!Parse(toks).events)))
NextTokens  == <<"def", "ident", "(", ")", ":", "pass">>
NextBody    == Body(NextTokens)

\* An error does not reach beyond its line: what follows a line or a block is
\* read as it would be by itself.
LinesRecover ==
  LET toks == Inputs(source)
  IN  /\ what = "tokens" /\ LoadsBeginLines
      /\ Lexes(toks \o <<"\n">>)
      => IsSuffix(NextBody, Body(toks \o <<"\n">> \o NextTokens))

\* statements.rs says that a small statement is "Guaranteed by `simple_stmt` and
\* `small_stmt` that we will match one of the above cases."  Violated: a load
\* statement that does not begin a line.
ParserDoesNotPanic == ~Parsing!Parse(Inputs(source)).panic

-----------------------------------------------------------------------------
(***************************************************************************)
(* Names.                                                                  *)
(***************************************************************************)
ReadAs(toks) == Parsing!ParseModule(Text(toks))
HirOf(steps) == Resolving!lower_module(Resolving!TreeOf(steps))

\* The properties are about a text that parses.
Parses(steps) == what = "statements" /\ StepsOf(steps, "error") = <<>>

Ids(seq) == {seq[i].id : i \in DOMAIN seq}

IsExactFor(nodes, exprs, stmts) ==
  LET NodesOf(kinds) == SelectSeq(nodes, LAMBDA n : n.kind \in kinds)
      found == SelectSeq(exprs, LAMBDA e : e.id # 0)
      of    == NodesOf(Resolving!Expression)
  IN  /\ Len(found) = Len(of) /\ Ids(found) = Ids(of) /\ Len(exprs) = Len(found)
      /\ Cardinality({<<of[i].kind, of[i].start, of[i].end>> : i \in DOMAIN of}) = Len(of)
      /\ Ids(NodesOf(Resolving!Statement \ Resolving!Expression)) \subseteq Ids(stmts)

IsExactIn(tree, top) == IsExactFor(Resolving!descendants(tree), Resolving!AllExprs(top), Resolving!AllStmts(top))

\* Each statement and each expression of a text that parses is in the HIR once,
\* and no two of a kind have the same range, by which the code finds them.
SourceMapIsExact ==
  LET steps == ReadAs(source) IN Parses(steps) => IsExactIn(Resolving!TreeOf(steps), HirOf(steps).top_level)

\* A type comment is its prefix and the tokens of its body.
Length(toks) ==
  LET Wide(tok) == IF tok = "DEDENT" THEN 0 ELSE IF tok \in DOMAIN CommentBody THEN 1 + Len(CommentBody[tok]) ELSE 1
  IN  FoldLeft(LAMBDA n, tok : n + Wide(tok), 0, toks)

TypesWritten ==
  LET StartOfLine(i) == Length(FlattenSeq(SubSeq(input, 1, i - 1)))
  IN  UNION {{<<StartOfLine(i) + t[1], t[2]>> : t \in TypedLines[input[i]]} :
               i \in {j \in DOMAIN input : input[j] \in DOMAIN TypedLines}}

TypesRead(stmts) ==
  LET defs   == {s \in stmts : s.is = "Def"}
      Params == UNION {ToSet(s.params) : s \in defs}
  IN  {<<s.lhs.start, s.type>> : s \in {s \in stmts : s.is = "Assign" /\ s.typed}}
      \cup {<<p.start, p.type>> : p \in {p \in Params : p.type # Resolving!Unknown}}
      \cup {<<s.start, s.ret>> : s \in {s \in defs : s.ret # Resolving!Unknown}}

\* Each type comment gives its type to what it stands by, an assignment, a
\* parameter or a function, and to nothing else.
TypeCommentsAreRead ==
  LET steps == ReadAs(source) IN Parses(steps) => TypesRead(ToSet(Resolving!AllStmts(HirOf(steps).top_level))) = TypesWritten

\* The uses of names by Starlark's rules, but those in defaults of lambdas,
\* which are recorded in no scope.
LambdaDefaults(hir) ==
  UNION {{d.id : d \in ToSet(Resolving!AllOfEach(Resolving!Defaults(e.params)))} :
           e \in ToSet(Resolving!AllExprs(hir.top_level))}
UsesIn(hir, events) ==
  {i \in DOMAIN events : events[i].does = "use" /\ events[i].id \notin LambdaDefaults(hir)}
IdsOf(events, set) == {events[j].id : j \in set}

ResolvesLexically(hir, scopes, events) ==
  LET Found(i) == Ids(Resolving!resolve_name(scopes, Resolving!new_for(scopes, <<"expr", events[i].id>>), events[i].name))
      Global(name) == {j \in DOMAIN events : /\ events[j].does = "bind" /\ events[j].name = name
                                             /\ Len(events[j].path) = 1}
  IN  /\ \A i \in UsesIn(hir, events) :
           LET happened == IdsOf(events, Lexical!Happened(events, i))
               later    == IdsOf(events, {j \in Lexical!Variable(events, i) : events[j].loop})
           IN  IF Lexical!BlockOf(events, i) = 0 THEN Found(i) = {}
               ELSE happened # {} => happened \subseteq Found(i) /\ Found(i) \subseteq happened \cup later
      /\ \A name \in {"x", "_y"} :
           \A j \in Global(name) : (\A k \in Global(name) : k <= j) /\ ~events[j].load =>
             Ids(Resolving!resolve_export(scopes, name))
               = IF name \in Resolving!Private THEN {} ELSE {events[j].id}

ResolvesIn(hir) == ResolvesLexically(hir, Resolving!new_for_module(hir), Lexical!Events(hir))

\* A name resolves to the bindings, of the variable that it refers to by
\* Starlark's rules, that may have happened, and to nothing if there is no such
\* variable; a load of it from another file to the last.  Excepted: a name used
\* before its variable is bound, and one in a default of a lambda.  The
\* variable of a for statement counts as bound from the last binding before it.
NamesResolveLexically ==
  LET steps == ReadAs(source) IN Parses(steps) => ResolvesIn(HirOf(steps))

UsesWhatIsRead(uses, scopes, events, unused) ==
  \A i \in uses :
    LET happened == IdsOf(events, Lexical!Happened(events, i))
        from     == Ids(Resolving!infer_name(scopes, events[i]))
    IN  /\ happened \subseteq from
        /\ happened # {} \/ Lexical!BlockOf(events, i) \in {0, 1} =>
             from \subseteq IdsOf(events, Lexical!Variable(events, i))
        /\ happened \cap unused = {}

UsesWhatIsReadBy(hir, scopes, events) ==
  UsesWhatIsRead(UsesIn(hir, events), scopes, events, Resolving!report_unused_definitions(scopes, hir))
UsesWhatIsReadIn(hir) == UsesWhatIsReadBy(hir, Resolving!new_for_module(hir), Lexical!Events(hir))

\* The type of a name is made from bindings of the variable that it refers to,
\* and from all that may have happened, even where a variable of the block of
\* the name is not bound yet; so that nothing that is read is reported as not
\* accessed.  Excepted as above; a lambda is taken to be called where it is.
ReadDefinitionsAreUsed ==
  LET steps == ReadAs(source) IN Parses(steps) => UsesWhatIsReadIn(HirOf(steps))

Suites(s) == CASE s.is \in {"Def", "For"} -> {s.stmts} [] s.is = "If" -> {s.if_stmts, s.else_stmts} [] OTHER -> {}

PlacesOf(hir) ==
  LET blocks == {hir.top_level} \cup UNION {Suites(s) : s \in ToSet(Resolving!AllStmts(hir.top_level))}
      IsName(s) == s.is = "Expr" /\ s.expr.is = "Name"
  IN  UNION {{b[i].expr : i \in {j \in 2..Len(b) : IsName(b[j]) /\ Suites(b[j - 1]) = {}}} : b \in blocks}

OfferedIn(scopes, hir, offset) ==
  {DOMAIN Resolving!module_defs(scopes, chain, FALSE) : chain \in Resolving!new_for_offset(scopes, hir, offset)}

\* The source with nothing where the expression is.
WithoutExpr(e) ==
  LET TokenAt(offset) == CHOOSE i \in DOMAIN source :
        source[i] # "DEDENT" /\ Length(SubSeq(source, 1, i - 1)) = offset
  IN  [source EXCEPT ![TokenAt(e.start)] = "WHITESPACE"]

Offered(hir, offset) == OfferedIn(Resolving!new_for_module(hir), hir, offset)

OffersWhatResolves(scopes, places) ==
  LET Resolves(e, name) == Resolving!resolve_name(scopes, Resolving!new_for(scopes, <<"expr", e.id>>), name) # <<>>
  IN  \A e \in places :
        Offered(HirOf(ReadAs(WithoutExpr(e))), e.start) = {{name \in {"x", "_y"} : Resolves(e, name)}}

OffersWhatResolvesIn(hir) == OffersWhatResolves(Resolving!new_for_module(hir), PlacesOf(hir))

\* Completions offer at an empty place the names that resolve when one is
\* written there as a statement, and no others.  Excepted: where no statement
\* is before it in its block, or one with a suite, which ends there.
CompletionsResolve ==
  LET steps == ReadAs(source) IN Parses(steps) => OffersWhatResolvesIn(HirOf(steps))

-----------------------------------------------------------------------------
(***************************************************************************)
(* Types.                                                                  *)
(***************************************************************************)

\* Whatever an expression evaluates to is a value of the type that is inferred
\* for it, if those of its parts are of theirs.
TypesAreSound == Typing!Sound

\* An operator, an index or a slice, a comprehension's iterable, or a name, that
\* is reported fails for some of the values that its operands' types say there are.
\* Excepted, as the code knows no rule for them: unions, but of unary operators,
\* and Sequences; sums of tuples; in of what may only be iterated over; and an
\* index of a tuple that may be anything.
ReportsAreErrors == Typing!ReportedRightly

\* An assignment of an expression to a variable with a type comment is reported
\* only if it can have a value that the comment does not allow, and not reported
\* only if it can have one that it does, or that stands for one: a string for a
\* label, 0 and 1 for booleans.  Excepted: expressions of which not all is known,
\* and dictionaries and ranges as Iterables.
AssignmentsAreJudged == Typing!AssignedRightly
=============================================================================
