------------------------------- MODULE Syntax -------------------------------
(***************************************************************************)
(* The syntax tree of a module and what its typed nodes give access to     *)
(* (starpls_syntax/src/ast.rs).  An element of the tree is a token, or a   *)
(* node with its children; both have a kind and a range of offsets, and a  *)
(* node the number of the step that started it as its id.                  *)
(***************************************************************************)
EXTENDS Integers, SequencesExt

None == [kind |-> "none", id |-> 0, start |-> 0, end |-> 0, children |-> <<>>]

(***************************************************************************)
(* The steps of Parser, applied: the nodes that are open, outermost first. *)
(* A token is one wide, but a DEDENT is empty.                             *)
(***************************************************************************)
Width(kind) == IF kind = "DEDENT" THEN 0 ELSE 1

AddChild(open, element) == [open EXCEPT ![Len(open)].children = Append(@, element),
                                        ![Len(open)].end = element.end]

Apply(open, step, id) ==
  LET at == Last(open).end
  IN  CASE step.step = "start"  ->
             Append(open, [kind |-> step.kind, id |-> id, start |-> at, end |-> at, children |-> <<>>])
        [] step.step = "finish" -> AddChild(Front(open), Last(open))
        [] step.step = "token"  ->
             AddChild(open, [kind |-> step.kind, id |-> 0, start |-> at, end |-> at + Width(step.kind),
                             children |-> <<>>, text |-> step.text])
        [] step.step = "error"  -> open

\* Until the outermost is finished.
RECURSIVE ApplyAll(_, _, _)
ApplyAll(open, steps, id) ==
  IF id > 1 /\ Len(open) = 1 THEN open ELSE ApplyAll(Apply(open, steps[id], id), steps, id + 1)

TreeOf(steps) == Head(ApplyAll(<<None>>, steps, 1)[1].children)

-----------------------------------------------------------------------------
(***************************************************************************)
(* The kinds that an enum of nodes casts.                                  *)
(***************************************************************************)
Expression == {"NAME_REF", "LITERAL_EXPR", "IF_EXPR", "UNARY_EXPR", "BINARY_EXPR", "LAMBDA_EXPR",
               "LIST_EXPR", "LIST_COMP", "DICT_EXPR", "DICT_COMP", "TUPLE_EXPR", "PAREN_EXPR",
               "DOT_EXPR", "CALL_EXPR", "INDEX_EXPR", "SLICE_EXPR"}
Statement  == {"DEF_STMT", "IF_STMT", "FOR_STMT", "RETURN_STMT", "BREAK_STMT", "CONTINUE_STMT",
               "PASS_STMT", "ASSIGN_STMT", "LOAD_STMT"} \cup Expression
Argument   == {"SIMPLE_ARGUMENT", "KEYWORD_ARGUMENT", "UNPACKED_LIST_ARGUMENT", "UNPACKED_DICT_ARGUMENT"}
Parameter  == {"SIMPLE_PARAMETER", "ARGS_LIST_PARAMETER", "KWARGS_DICT_PARAMETER"}
CompClause == {"COMP_CLAUSE_FOR", "COMP_CLAUSE_IF"}
LoadItem   == {"DIRECT_LOAD_ITEM", "ALIASED_LOAD_ITEM"}
\* A FUNCTION_TYPE is not a Type.
Type          == {"PATH_TYPE", "UNION_TYPE", "NONE_TYPE", "ELLIPSIS_TYPE"}
ParameterType == {"SIMPLE_PARAMETER_TYPE", "ARGS_LIST_PARAMETER_TYPE", "KWARGS_DICT_PARAMETER_TYPE"}

(***************************************************************************)
(* Access to children: all of some kinds, the one after n of them, and the *)
(* text of the first token of a kind.                                      *)
(***************************************************************************)
children(node, kinds) == SelectSeq(node.children, LAMBDA c : c.kind \in kinds)

nth(node, kinds, n) ==
  LET found == children(node, kinds) IN IF n < Len(found) THEN found[n + 1] ELSE None
child(node, kinds)  == nth(node, kinds, 0)

token(node, kind)   == LET t == child(node, {kind}) IN IF t = None THEN "" ELSE t.text

IsNode(element) == element.id # 0

RECURSIVE descendants(_)
descendants(node) ==
  << node >> \o FlattenSeq([i \in DOMAIN node.children |->
                  IF IsNode(node.children[i]) THEN descendants(node.children[i]) ELSE <<>>])

-----------------------------------------------------------------------------
(***************************************************************************)
(* Nodes whose children of one kind have several parts.                    *)
(***************************************************************************)
lhs(node)       == nth(node, Expression, 0)
rhs(node)       == nth(node, Expression, 1)
if_suite(node)  == nth(node, {"SUITE"}, 0)
else_suite(node) == nth(node, {"SUITE"}, 1)

\* Mutant: of an if expression, the test is taken for the value.
if_expr_swapped(node) == <<nth(node, Expression, 1), nth(node, Expression, 1), nth(node, Expression, 2)>>

\* The value, the test and the other value.
if_expr(node)   == <<nth(node, Expression, 0), nth(node, Expression, 1), nth(node, Expression, 2)>>

\* Parts of a slice, by the colons between them.
Colons(node, i) == Len(children([node EXCEPT !.children = SubSeq(@, 1, i)], {":"}))
Between(node, colons) ==
  LET at == SelectSeq([i \in DOMAIN node.children |-> i],
                      LAMBDA i : node.children[i].kind \in Expression /\ Colons(node, i) = colons)
  IN  [i \in DOMAIN at |-> node.children[at[i]]]
OrNone(found, n) == IF n < Len(found) THEN found[n + 1] ELSE None
slice_start(node) == OrNone(Between(node, 0), 1)
slice_end(node)   == OrNone(Between(node, 1), 0)
slice_step(node)  == OrNone(Between(node, 2), 0)

-----------------------------------------------------------------------------
(***************************************************************************)
(* Comments.  Siblings are elements of the parent; those of the i-th child *)
(* that its type comment is looked for in end before some kind.            *)
(***************************************************************************)
FirstBefore(parent, i, kinds) ==
  LET stops == {j \in i..Len(parent.children) : parent.children[j].kind \in kinds}
      last  == IF stops = {} THEN Len(parent.children) ELSE (CHOOSE j \in stops : \A k \in stops : j <= k) - 1
  IN  child([parent EXCEPT !.children = SubSeq(@, i, last)], {"TYPE_COMMENT"})

assign_type_comment(parent, i)    == FirstBefore(parent, i, {";", "\n"})
parameter_type_comment(parent, i) == FirstBefore(parent, i + 1, {")"} \cup Parameter)

\* A suite's, where it is the first node of the suite.
suite_type_comment(suite) ==
  LET nodes == SelectSeq(suite.children, IsNode)
  IN  IF nodes # <<>> /\ Head(nodes).kind = "TYPE_COMMENT" THEN Head(nodes) ELSE None

type_(comment)         == child(child(comment, {"TYPE_COMMENT_BODY"}), Type)
function_type(comment) == child(child(comment, {"TYPE_COMMENT_BODY"}), {"FUNCTION_TYPE"})

spec(def) == function_type(suite_type_comment(child(def, {"SUITE"})))
type_ignore_comment_positions(module) ==
  {n.start : n \in {m \in ToSet(descendants(module)) : m.kind = "IGNORE_TYPE"}}

\* LiteralExpr::kind, of a string: a docstring is the first literal of a suite.
LiteralToken(node) == (SelectSeq(node.children, LAMBDA c : ~IsNode(c)))[1]
doc(def) ==
  LET literal == child(child(def, {"SUITE"}), {"LITERAL_EXPR"})
  IN  IF literal # None /\ LiteralToken(literal).kind = "STRING" THEN LiteralToken(literal).text ELSE ""
=============================================================================
