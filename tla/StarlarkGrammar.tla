-------------------------- MODULE StarlarkGrammar --------------------------
(***************************************************************************)
(* The grammar that the comments of starpls_parser/src/grammar give, as    *)
(* data, and what it derives: the reference of Parser.  Where a comment's  *)
(* rule is left-recursive (Test) the rule here derives the same.           *)
(***************************************************************************)
EXTENDS Integers, Sequences

T(tok)   == [is |-> "token", tok |-> tok]
N(rule)  == [is |-> "rule", rule |-> rule]
S(parts) == [is |-> "sequence", parts |-> parts]
A(parts) == [is |-> "one_of", parts |-> parts]
R(part)  == [is |-> "repeated", part |-> part]
O(part)  == A({part, S(<<>>)})
List(part) == S(<<part, R(S(<<T(","), part>>))>>)

Binop == A({T("or"), T("=="), T("in"), S(<<T("not"), T("in")>>), T("+"), T("*")})

Derivation == [
  File       |-> R(A({N("Statement"), T("\n")})),
  Statement  |-> A({N("DefStmt"), N("IfStmt"), N("ForStmt"), N("SimpleStmt")}),
  DefStmt    |-> S(<<T("def"), T("ident"), T("("), O(S(<<N("Parameters"), O(T(","))>>)), T(")"), T(":"), N("Suite")>>),
  IfStmt     |-> S(<<T("if"), N("Test"), T(":"), N("Suite"),
                     R(S(<<T("elif"), N("Test"), T(":"), N("Suite")>>)),
                     O(S(<<T("else"), T(":"), N("Suite")>>))>>),
  ForStmt    |-> S(<<T("for"), N("LoopVariables"), T("in"), N("Expression"), T(":"), N("Suite")>>),
  \* The lexer leaves out the last newline of a text that has none.
  SimpleStmt |-> S(<<N("SmallStmt"), R(S(<<T(";"), N("SmallStmt")>>)), O(T(";")), A({T("\n"), [is |-> "end"]})>>),
  SmallStmt  |-> A({S(<<T("return"), O(N("Expression"))>>), T("break"), T("continue"), T("pass"),
                    N("AssignStmt"), N("Expression"), N("LoadStmt")}),
  LoadStmt   |-> S(<<T("load"), T("("), T("STRING"),
                     R(S(<<T(","), O(S(<<T("ident"), T("=")>>)), T("STRING")>>)), O(T(",")), T(")")>>),
  AssignStmt |-> S(<<N("Expression"), A({T("="), T("+=")}), N("Expression")>>),
  Suite      |-> A({S(<<T("\n"), R(T("\n")), T("INDENT"), R(A({N("Statement"), T("\n")})), T("DEDENT")>>),
                    N("SimpleStmt")}),
  LoopVariables |-> List(N("PrimaryExpr")),
  Parameters |-> List(N("Parameter")),
  Parameter  |-> A({S(<<T("ident"), O(S(<<T("="), N("Test")>>))>>), S(<<T("*"), O(T("ident"))>>),
                    S(<<T("**"), T("ident")>>)}),
  Expression |-> List(N("Test")),
  Test       |-> S(<<A({N("PrimaryExpr"), S(<<A({T("+"), T("~"), T("not")}), N("Test")>>), N("LambdaExpr")}),
                     R(A({S(<<Binop, N("Test")>>), S(<<T("if"), N("Test"), T("else"), N("Test")>>)}))>>),
  LambdaExpr |-> S(<<T("lambda"), O(S(<<N("Parameters"), O(T(","))>>)), T(":"), N("Test")>>),
  PrimaryExpr |-> S(<<N("Operand"), R(A({S(<<T("."), T("ident")>>), N("CallSuffix"), N("SliceSuffix")}))>>),
  CallSuffix |-> S(<<T("("), O(S(<<List(N("Argument")), O(T(","))>>)), T(")")>>),
  Argument   |-> A({S(<<O(A({T("*"), T("**"), S(<<T("ident"), T("=")>>)})), N("Test")>>)}),
  SliceSuffix |-> S(<<T("["), A({N("Expression"),
                     S(<<O(N("Expression")), T(":"), O(N("Test")), O(S(<<T(":"), O(N("Test"))>>))>>)}), T("]")>>),
  Operand    |-> A({T("ident"), T("INT"), T("STRING"), T("None"), N("ListExpr"), N("DictExpr"),
                    S(<<T("("), O(S(<<N("Expression"), O(T(","))>>)), T(")")>>)}),
  ListExpr   |-> S(<<T("["), O(A({S(<<N("Expression"), O(T(","))>>), S(<<N("Test"), N("Clauses")>>)})), T("]")>>),
  DictExpr   |-> S(<<T("{"), O(A({S(<<List(N("Entry")), O(T(","))>>), S(<<N("Entry"), N("Clauses")>>)})), T("}")>>),
  Entry      |-> S(<<N("Test"), T(":"), N("Test")>>),
  Clauses    |-> R(A({S(<<T("for"), N("LoopVariables"), T("in"), N("Test")>>), S(<<T("if"), N("Test")>>)}))]

\* Where a derivation of part that starts at i may end.
RECURSIVE Ends(_, _, _), EndsOfAll(_, _, _), EndsOfRepeated(_, _, _)
Ends(toks, part, i) ==
  CASE part.is = "token"    -> IF i <= Len(toks) /\ toks[i] = part.tok THEN {i + 1} ELSE {}
    [] part.is = "end"      -> IF i > Len(toks) \/ toks[i] = "DEDENT" THEN {i} ELSE {}
    [] part.is = "rule"     -> Ends(toks, Derivation[part.rule], i)
    [] part.is = "one_of"   -> UNION {Ends(toks, p, i) : p \in part.parts}
    [] part.is = "sequence" -> EndsOfAll(toks, part.parts, {i})
    [] part.is = "repeated" -> EndsOfRepeated(toks, part.part, {i})

EndsOfAll(toks, parts, from) ==
  IF parts = <<>> \/ from = {} THEN from
  ELSE EndsOfAll(toks, Tail(parts), UNION {Ends(toks, Head(parts), i) : i \in from})

EndsOfRepeated(toks, part, from) ==
  LET more == UNION {Ends(toks, part, i) : i \in from} \cup from
  IN  IF more = from THEN from ELSE EndsOfRepeated(toks, part, more)

Derives(rule, toks) == Len(toks) + 1 \in Ends(toks, N(rule), 1)
=============================================================================
