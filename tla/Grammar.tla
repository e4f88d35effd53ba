------------------------------ MODULE Grammar ------------------------------
(***************************************************************************)
(* The rules of the parser (starpls_parser/src/grammar), as data: a rule   *)
(* is the sequence of what its function does, which Parser executes.  A    *)
(* token is its SyntaxKind, where one stands for all that no rule tells    *)
(* apart: INT for the literals, `or', `==', `+' and `*' for the operators   *)
(* of ten levels that differ in nothing else.                              *)
(***************************************************************************)
EXTENDS Sequences

Token ==
  {"INT", "STRING", "ident", "None", "(", ")", "[", "]", "{", "}", ",", ".", ":", ";", "=", "+=",
   "or", "not", "in", "==", "|", "+", "*", "~", "**", "lambda", "if", "elif",
   "else", "for", "def", "load", "return", "break", "continue", "pass", "\n", "INDENT", "DEDENT",
   "->", "...", "ignore", "ERROR"}

PRIMARY_EXPR_START   == {"INT", "STRING", "None", "ident", "(", "[", "{"}
EXPR_START           == PRIMARY_EXPR_START \cup {"+", "~", "not", "lambda"}
ARGUMENT_START       == EXPR_START \cup {"**", "*"}
PARAMETER_START      == {"ident", "*", "**"}
SMALL_STMT_START     == EXPR_START \cup {"return", "break", "continue", "pass", "load"}
SUITE_START          == SMALL_STMT_START \cup {"\n"}
STMT_RECOVERY_ANY    == {} \* Mutant: nothing stops the recovery from an error.
STMT_RECOVERY        == {"\n"}
TYPE_START           == {"ident", "..."}
PARAMETER_TYPE_START == TYPE_START \cup {"*", "**"}

(***************************************************************************)
(* What a rule does.  A lookahead is a set of sequences of sets: the token *)
(* at pos is in the first of a sequence, the one after it in the second.   *)
(***************************************************************************)
Start           == [do |-> "start"]
Complete(kind)  == [do |-> "complete", kind |-> kind]
Abandon         == [do |-> "abandon"]
Precede         == [do |-> "precede"]
Bump(kind)      == [do |-> "bump", kind |-> kind]
BumpAny         == [do |-> "bump_any"]
Error           == [do |-> "error"]
Recover(stop)   == [do |-> "error_recover_until", stop |-> stop]
Call(rule)      == [do |-> "call", rule |-> rule]
\* Return None, or what was completed last.
NoNode          == [do |-> "none"]
Return          == [do |-> "return"]
Unreachable     == [do |-> "unreachable"]
When(ahead, then, otherwise) ==
  [do |-> "when", ahead |-> ahead, then |-> then, otherwise |-> otherwise]
WhenNone(then)     == [do |-> "when_none", then |-> then]
While(ahead, body) == [do |-> "while", ahead |-> ahead, body |-> body, from |-> 0]

In(kinds)       == { <<kinds>> }
At(kind)        == In({kind})
NotIn(kinds)    == In(Token \ kinds)
InThen(kinds, then) == { <<kinds, then>> }

Eat(kind)            == When(At(kind), <<Bump(kind)>>, <<>>)
Optional(kinds, rule) == When(In(kinds), <<Call(rule)>>, <<>>)
Commas(kinds, rule)  == While(InThen({","}, kinds), <<Bump(","), Call(rule)>>)
Node(tok)            == <<Start, Bump(tok)>>
Leaf(tok, kind)      == Node(tok) \o <<Complete(kind), Return>>

\* Without what must come next, the node ends there.
Fail(stop, kind)        == <<Recover(stop), Complete(kind), Return>>
Expect(ahead, kind)     == When(ahead, <<>>, Fail(STMT_RECOVERY, kind))
ExpectToken(tok, kind)  == When(At(tok), <<Bump(tok)>>, Fail(STMT_RECOVERY, kind))
Close(tok)              == When(At(tok), <<Bump(tok)>>, <<Recover(STMT_RECOVERY)>>)
Suite                   == When(In(SUITE_START), <<Call("suite")>>, <<Recover(STMT_RECOVERY)>>)

-----------------------------------------------------------------------------
(***************************************************************************)
(* Statements.                                                             *)
(***************************************************************************)

module == <<Start, While(In(Token), <<Call("statement")>>), Complete("MODULE")>>

statement == <<
  When(At("def"), <<Call("def_stmt"), Return>>, <<>>),
  When(At("if"), <<Call("if_stmt"), Return>>, <<>>),
  When(At("for"), <<Call("for_stmt"), Return>>, <<>>),
  When(At("load"), <<Call("load_stmt"), Return>>, <<>>),
  When(In(SMALL_STMT_START), <<Call("simple_stmt"), Return>>, <<>>),
  When(At("\n"), <<BumpAny, Return>>, <<>>),
  When(At("INDENT"), <<Call("error_block"), Return>>, <<>>),
  Recover(STMT_RECOVERY)>>

def_stmt == Node("def") \o <<
  Call("name"), WhenNone(Fail(STMT_RECOVERY, "DEF_STMT")),
  When(At("("),
    <<Start, Bump("("), Optional(PARAMETER_START, "parameters"),
      When(At(")"), <<Bump(")"), Complete("PARAMETERS")>>,
                    <<Recover(STMT_RECOVERY), Complete("PARAMETERS"), Complete("DEF_STMT"), Return>>)>>,
    <<Expect(At(":"), "DEF_STMT"), Error>>),
  ExpectToken(":", "DEF_STMT"), Suite, Complete("DEF_STMT")>>

if_or_elif(tok) == Node(tok) \o <<
  Call("test"), WhenNone(<<Complete("IF_STMT"), Return>>),
  ExpectToken(":", "IF_STMT"), Suite,
  When(At("elif"), <<Call("elif_stmt")>>,
    <<When(At("else"), <<Bump("else"), When(At(":"), <<Bump(":"), Suite>>, <<Recover(STMT_RECOVERY)>>)>>,
                       <<>>)>>),
  Complete("IF_STMT")>>

for_stmt == Node("for") \o <<
  Expect(In(PRIMARY_EXPR_START), "FOR_STMT"), Call("loop_variables"),
  ExpectToken("in", "FOR_STMT"),
  Expect(In(EXPR_START), "FOR_STMT"), Call("expression"),
  \* Without a colon it is an IF_STMT.
  ExpectToken(":", "IF_STMT"), Suite, Complete("FOR_STMT")>>

simple_stmt == <<
  Call("small_stmt"),
  While(InThen({";"}, SMALL_STMT_START), <<Bump(";"), Call("small_stmt")>>),
  Eat(";"),
  When(In({"DEDENT", "\n"}), <<Eat("\n")>>,
    <<When(In(Token), <<Recover(STMT_RECOVERY)>>, <<>>)>>)>>

\* There is no case of `load'.
small_stmt == <<
  When(At("return"), <<Call("return_stmt"), Return>>, <<>>),
  When(At("break"), Leaf("break", "BREAK_STMT"), <<>>),
  When(At("continue"), Leaf("continue", "CONTINUE_STMT"), <<>>),
  When(At("pass"), Leaf("pass", "PASS_STMT"), <<>>),
  When(In(EXPR_START), <<Call("assign_or_expr_stmt"), Return>>, <<>>),
  Unreachable>>

return_stmt == Node("return") \o <<Optional(EXPR_START, "expression"), Complete("RETURN_STMT")>>

load_stmt == Node("load") \o <<
  ExpectToken("(", "LOAD_STMT"),
  Expect(At("STRING"), "LOAD_STMT"), Start, Bump("STRING"), Complete("LOAD_MODULE"),
  Commas({"ident", "STRING"}, "load_item"), Eat(","),
  ExpectToken(")", "LOAD_STMT"), Complete("LOAD_STMT")>>

load_item == <<
  Start,
  When(At("STRING"), <<Bump("STRING"), Complete("DIRECT_LOAD_ITEM"), Return>>, <<>>),
  Call("name"),
  When(At("="), <<Bump("="), When(At("STRING"), <<Bump("STRING")>>, <<Error>>)>>, <<Error>>),
  Complete("ALIASED_LOAD_ITEM")>>

assign_or_expr_stmt == <<
  Call("expression"),
  When(In({"=", "+="}), <<>>, <<Return>>),
  Precede, BumpAny,
  Expect(In(EXPR_START), "ASSIGN_STMT"), Call("expression"), Complete("ASSIGN_STMT")>>

suite == <<
  Start,
  When(At("\n"),
    <<While(At("\n"), <<Bump("\n")>>),
      When(At("INDENT"),
        <<Bump("INDENT"), While(NotIn({"DEDENT"}), <<Call("statement")>>),
          When(At("DEDENT"), <<Bump("DEDENT")>>, <<Error>>)>>,
        <<Error>>)>>,
    <<When(In(SMALL_STMT_START), <<Call("simple_stmt")>>, <<Unreachable>>)>>),
  Complete("SUITE")>>

loop_variables == <<
  Start, Call("primary_expr"), Commas(PRIMARY_EXPR_START, "primary_expr"), Complete("LOOP_VARIABLES")>>

error_block == <<Start, Error, Bump("INDENT"), Call("skip_block"), Complete("ERROR")>>
skip_block  == <<
  While(In(Token),
    <<When(At("INDENT"), <<BumpAny, Call("skip_block")>>,
        <<When(At("DEDENT"), <<BumpAny, Return>>, <<BumpAny>>)>>)>>)>>

-----------------------------------------------------------------------------
(***************************************************************************)
(* Expressions.                                                            *)
(***************************************************************************)

binary_expr(ahead, next) == <<
  Call(next), WhenNone(<<NoNode>>),
  While(ahead, <<Precede, When(At("not"), <<BumpAny>>, <<>>), BumpAny, Call(next),
                 Complete("BINARY_EXPR")>>)>>

\* The one level with an operator of two tokens.
COMP_TOKENS == In({"==", "in"}) \cup InThen({"not"}, {"in"})

if_expr == <<
  Call("or_expr"), WhenNone(<<NoNode>>),
  When(At("if"), <<Precede, Bump("if"), Call("test")>>, <<Return>>),
  ExpectToken("else", "IF_EXPR"), Call("test"), Complete("IF_EXPR")>>

unary_expr == <<
  When(In({"+", "~", "not"}), <<Start, BumpAny, Call("unary_expr"), Complete("UNARY_EXPR")>>,
                              <<Call("primary_expr")>>)>>

primary_expr == <<
  Call("operand_expr"), WhenNone(<<NoNode>>),
  While(In({"(", ".", "["}),
    <<Precede, When(At("("), <<Call("call_expr")>>,
                 <<When(At("."), <<Call("dot_expr")>>, <<Call("slice_or_index_expr")>>)>>)>>)>>

call_expr == <<
  Start, Bump("("), Optional(ARGUMENT_START, "arguments"),
  When(At(")"), <<Bump(")"), Complete("ARGUMENTS")>>, <<Complete("ARGUMENTS"), Recover(STMT_RECOVERY)>>),
  Complete("CALL_EXPR")>>

dot_expr == <<
  Bump("."), Call("name"), WhenNone(<<Recover(STMT_RECOVERY)>>), Complete("DOT_EXPR")>>

slice_or_index_expr == <<
  Bump("["),
  When(At("]"), <<Bump("]"), Error, Complete("INDEX_EXPR"), Return>>, <<>>),
  Optional(EXPR_START, "expression"),
  When(At(":"),
    <<Bump(":"), Optional(EXPR_START, "test"),
      When(At(":"), <<Bump(":"), Optional(EXPR_START, "test")>>, <<>>),
      Close("]"), Complete("SLICE_EXPR")>>,
    <<Close("]"), Complete("INDEX_EXPR")>>)>>

operand_expr == <<
  When(In({"INT", "STRING", "None"}), <<Start, BumpAny, Complete("LITERAL_EXPR"), Return>>, <<>>),
  When(At("ident"), Leaf("ident", "NAME_REF"), <<>>),
  When(At("("), <<Call("paren_expr"), Return>>, <<>>),
  When(At("["), <<Call("list_expr_or_comp"), Return>>, <<>>),
  When(At("{"), <<Call("dict_expr_or_comp"), Return>>, <<>>),
  When(At("lambda"), <<Call("lambda_expr"), Return>>, <<>>),
  Recover(STMT_RECOVERY), NoNode>>

\* Mutant: a lambda of no parameters does not need its colon.
lambda_expr_bare == Node("lambda") \o <<
  When(In(PARAMETER_START), <<Start, Call("parameters"), Complete("PARAMETERS")>>, <<>>),
  Eat(":"), Call("test"), Complete("LAMBDA_EXPR")>>

lambda_expr == Node("lambda") \o <<
  When(In(PARAMETER_START), <<Start, Call("parameters"), Complete("PARAMETERS")>>, <<>>),
  ExpectToken(":", "LAMBDA_EXPR"), Call("test"), Complete("LAMBDA_EXPR")>>

\* tuple_or_paren_expr, without parentheses and with.  A comma that no
\* expression follows makes a tuple only in parentheses.
expression == <<
  When(In(EXPR_START), <<Start, Call("test")>>, <<Unreachable>>),
  When(At(","), <<>>, <<WhenNone(<<Unreachable>>), Abandon, Return>>),
  When(InThen({","}, EXPR_START), <<Commas(EXPR_START, "test"), Complete("TUPLE_EXPR")>>,
                                  <<Complete("PAREN_EXPR")>>)>>
paren_expr == Node("(") \o <<
  When(At(")"), <<Bump(")"), Complete("TUPLE_EXPR"), Return>>, <<>>),
  Call("test"),
  When(At(")"), <<Bump(")"), Complete("PAREN_EXPR"), Return>>, <<>>),
  Commas(EXPR_START, "test"), Eat(","), Close(")"), Complete("TUPLE_EXPR")>>

\* A list and a dict differ in their brackets and in what an element is.
brackets(open, close, element, expr, comp) == Node(open) \o <<
  When(At(close), <<Bump(close), Complete(expr), Return>>, <<>>),
  Call(element),
  When(In({"for", "if"}), <<Call("comp_clauses"), Close(close), Complete(comp)>>,
                          <<Commas(EXPR_START, element), Eat(","), Close(close), Complete(expr)>>)>>

comp_clauses == <<
  While(In({"for", "if"}),
    <<When(At("if"), <<Start, BumpAny, Call("or_expr"), Complete("COMP_CLAUSE_IF")>>,
        <<Start, Bump("for"), Expect(In(PRIMARY_EXPR_START), "COMP_CLAUSE_FOR"), Call("loop_variables"),
          ExpectToken("in", "COMP_CLAUSE_FOR"), Call("or_expr"), Complete("COMP_CLAUSE_FOR")>>)>>)>>

entry == <<
  Start, Call("test"), When(At(":"), <<Bump(":"), Call("test")>>, <<Recover(STMT_RECOVERY)>>),
  Complete("DICT_ENTRY")>>

name == <<When(At("ident"), Leaf("ident", "NAME"), <<NoNode>>)>>

-----------------------------------------------------------------------------
(***************************************************************************)
(* Arguments and parameters.                                               *)
(***************************************************************************)

arguments == <<Call("argument"), Commas(ARGUMENT_START, "argument"), Eat(",")>>

argument == <<
  Start,
  When(At("*"), <<BumpAny, Call("test"), Complete("UNPACKED_LIST_ARGUMENT"), Return>>, <<>>),
  When(At("**"), <<BumpAny, Call("test"), Complete("UNPACKED_DICT_ARGUMENT"), Return>>, <<>>),
  When(InThen({"ident"}, {"="}),
    <<Call("name"), Bump("="), Call("test"), Complete("KEYWORD_ARGUMENT"), Return>>, <<>>),
  Call("test"), Complete("SIMPLE_ARGUMENT")>>

parameters == <<Call("parameter"), Commas(PARAMETER_START, "parameter"), Eat(",")>>

parameter == <<
  Start,
  When(At("*"), <<BumpAny, Call("name"), Complete("ARGS_LIST_PARAMETER"), Return>>, <<>>),
  When(At("**"), <<BumpAny, Call("name"), WhenNone(<<Error>>), Complete("KWARGS_DICT_PARAMETER"), Return>>,
                 <<>>),
  When(At("ident"), <<Call("name")>>, <<Unreachable>>),
  When(At("="), <<Bump("="), When(In(EXPR_START), <<Call("test")>>, <<Error>>)>>, <<>>),
  Complete("SIMPLE_PARAMETER")>>

-----------------------------------------------------------------------------
(***************************************************************************)
(* Type comments.  Nothing stops their recovery: they are one line.        *)
(***************************************************************************)

type_comment_body == <<
  Start,
  When(At("ignore"), <<Start, Bump("ignore"), Complete("IGNORE_TYPE")>>,
    <<When(At("("), <<Call("function_type")>>, <<Call("union_type")>>)>>),
  When(In(Token), <<Recover({})>>, <<>>),
  Complete("TYPE_COMMENT_BODY")>>

\* Up to a bracket that closes.
types == <<
  When(NotIn({"]"}), <<Call("union_type")>>, <<Return>>),
  While(NotIn({"]"}),
    <<When(At(","), <<Bump(",")>>, <<Recover({}), Return>>),
      When(In(TYPE_START), <<Call("union_type")>>, <<Recover({}), Return>>)>>)>>

parameter_types == <<Call("parameter_type"), Commas(PARAMETER_TYPE_START, "parameter_type")>>

parameter_type == <<
  Start,
  When(At("*"), <<BumpAny, Call("union_type"), Complete("ARGS_LIST_PARAMETER_TYPE"), Return>>, <<>>),
  When(At("**"), <<BumpAny, Call("union_type"), Complete("KWARGS_DICT_PARAMETER_TYPE"), Return>>, <<>>),
  When(At("..."), <<BumpAny, Complete("SIMPLE_PARAMETER_TYPE"), Return>>, <<>>),
  When(At("ident"), <<Call("union_type"), Complete("SIMPLE_PARAMETER_TYPE")>>, <<Unreachable>>)>>

union_type == <<
  Call("type_"), WhenNone(<<Return>>),
  When(At("|"), <<Precede>>, <<Return>>),
  While(At("|"), <<Bump("|"), Call("type_")>>),
  Complete("UNION_TYPE")>>

type_ == <<
  When(At("None"), Leaf("None", "NONE_TYPE"), <<>>),
  When(At("..."), Leaf("...", "ELLIPSIS_TYPE"), <<>>),
  When(At("ident"), <<Call("path_type"), Return>>, <<>>),
  When(At("("), <<Call("function_type"), Return>>, <<>>),
  Recover({}), NoNode>>

path_type == <<
  Start, Call("path_segment"),
  While(At("."), <<Bump("."), When(At("ident"), <<Call("path_segment")>>, Fail({}, "PATH_TYPE"))>>),
  When(At("["), <<Start, Bump("["), Call("types"), Eat("]"), Complete("GENERIC_ARGUMENTS")>>, <<>>),
  Complete("PATH_TYPE")>>

function_type == Node("(") \o <<
  When(In(TYPE_START), <<Start, Call("parameter_types"), Complete("PARAMETER_TYPES")>>, <<>>),
  When(At(")"), <<Bump(")")>>, Fail({}, "FUNCTION_TYPE")),
  When(At("->"), <<Bump("->")>>, Fail({}, "FUNCTION_TYPE")),
  Call("type_"), Complete("FUNCTION_TYPE")>>

path_segment == Leaf("ident", "PATH_SEGMENT")

-----------------------------------------------------------------------------
Rules == [
  module |-> module, statement |-> statement, def_stmt |-> def_stmt, if_stmt |-> if_or_elif("if"),
  elif_stmt |-> if_or_elif("elif"), for_stmt |-> for_stmt, simple_stmt |-> simple_stmt,
  small_stmt |-> small_stmt, return_stmt |-> return_stmt, load_stmt |-> load_stmt,
  load_item |-> load_item, assign_or_expr_stmt |-> assign_or_expr_stmt, suite |-> suite,
  loop_variables |-> loop_variables, error_block |-> error_block, skip_block |-> skip_block,
  test |-> if_expr, or_expr |-> binary_expr(At("or"), "comparison_expr"),
  comparison_expr |-> binary_expr(COMP_TOKENS, "term_expr"),
  term_expr |-> binary_expr(At("+"), "factor_expr"),
  factor_expr |-> binary_expr(At("*"), "unary_expr"), unary_expr |-> unary_expr,
  primary_expr |-> primary_expr, call_expr |-> call_expr, dot_expr |-> dot_expr,
  slice_or_index_expr |-> slice_or_index_expr, operand_expr |-> operand_expr,
  lambda_expr |-> lambda_expr, expression |-> expression, paren_expr |-> paren_expr,
  list_expr_or_comp |-> brackets("[", "]", "test", "LIST_EXPR", "LIST_COMP"),
  dict_expr_or_comp |-> brackets("{", "}", "entry", "DICT_EXPR", "DICT_COMP"),
  comp_clauses |-> comp_clauses, entry |-> entry, name |-> name, arguments |-> arguments,
  argument |-> argument, parameters |-> parameters, parameter |-> parameter,
  type_comment_body |-> type_comment_body, types |-> types, parameter_types |-> parameter_types,
  parameter_type |-> parameter_type, union_type |-> union_type, type_ |-> type_,
  path_type |-> path_type, function_type |-> function_type, path_segment |-> path_segment]
=============================================================================
