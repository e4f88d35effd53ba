------------------------------- MODULE Lower -------------------------------
(***************************************************************************)
(* The HIR of a module (starpls_hir/src/def.rs) and the lowering of the    *)
(* syntax tree to it (def/lower.rs).  What the code allocates in an arena  *)
(* and finds again by its pointer (a kind and a range) has here the id and *)
(* the range of its node; an expression that is missing has the id 0.      *)
(***************************************************************************)
EXTENDS Syntax

\* parts are the expressions directly in it, in the order of walk_child_exprs;
\* a comprehension's clauses come before them.
Expr(is, node, parts) ==
  [is |-> is, id |-> node.id, kind |-> node.kind, start |-> node.start, end |-> node.end,
   parts |-> parts, name |-> "", params |-> <<>>, clauses |-> <<>>]
Missing == Expr("Missing", None, <<>>)

MissingName == "[missing name]"
NameOf(node) == LET text == token(node, "ident") IN IF text = "" THEN MissingName ELSE text
lower_name_opt(node)   == NameOf(child(node, {"NAME"}))

-----------------------------------------------------------------------------
(***************************************************************************)
(* Types of comments.                                                      *)
(***************************************************************************)
Unknown == [is |-> "Unknown"]

RECURSIVE lower_type(_)
lower_types(nodes) == [i \in DOMAIN nodes |-> lower_type(nodes[i])]
lower_type(node) ==
  CASE node.kind = "PATH_TYPE" ->
         LET segments == children(node, {"PATH_SEGMENT"})
             generic  == child(node, {"GENERIC_ARGUMENTS"})
         IN  [is |-> "Path", segments |-> [i \in DOMAIN segments |-> token(segments[i], "ident")],
              generic |-> generic # None, args |-> lower_types(children(generic, Type))]
    [] node.kind = "UNION_TYPE"    -> [is |-> "Union", types |-> lower_types(children(node, Type))]
    [] node.kind = "NONE_TYPE"     -> [is |-> "Name", name |-> "None"]
    [] node.kind = "ELLIPSIS_TYPE" -> [is |-> "Ellipsis"]
    [] node = None                 -> Unknown

lower_type_comment(comment) == lower_type(type_(comment))

\* Mutant: the types of a function's comment are those of its simple parameters.
lower_func_type_simple(func) ==
  LET params == children(child(func, {"PARAMETER_TYPES"}), {"SIMPLE_PARAMETER_TYPE"})
  IN  [params |-> [i \in DOMAIN params |-> lower_type(child(params[i], Type))],
       ret    |-> lower_type(child(func, Type))]

lower_func_type(func) ==
  LET params == children(child(func, {"PARAMETER_TYPES"}), ParameterType)
  IN  [params |-> [i \in DOMAIN params |-> lower_type(child(params[i], Type))],
       ret    |-> lower_type(child(func, Type))]

-----------------------------------------------------------------------------
(***************************************************************************)
(* Expressions.                                                            *)
(***************************************************************************)
RECURSIVE lower_expr(_)
lower_expr_opt(node) == IF node = None THEN Missing ELSE lower_expr(node)
lower_exprs(nodes)   == [i \in DOMAIN nodes |-> lower_expr(nodes[i])]
lower_first(node)    == lower_expr_opt(child(node, Expression))
lower_expr_maybe(node) == IF node = None THEN <<>> ELSE << lower_expr(node) >>

lower_loop_variables_opt(node) == lower_exprs(children(child(node, {"LOOP_VARIABLES"}), Expression))

lower_entry(entry) == << lower_expr_opt(lhs(entry)), lower_expr_opt(rhs(entry)) >>

lower_comp_clauses(node) ==
  LET clauses == children(node, CompClause)
      Clause(c) == IF c.kind = "COMP_CLAUSE_IF" THEN [is |-> "If", test |-> lower_first(c)]
                   ELSE [is |-> "For", iterable |-> lower_first(c), targets |-> lower_loop_variables_opt(c)]
  IN  [i \in DOMAIN clauses |-> Clause(clauses[i])]

\* A keyword's name is not looked up: an argument is its expression.
lower_args_opt(node) ==
  LET args == children(node, Argument) IN [i \in DOMAIN args |-> lower_first(args[i])]

(***************************************************************************)
(* Parameters.  type is the comment's, or the one that the comment of the  *)
(* function gives the parameter of this index.                             *)
(***************************************************************************)
lower_param(params, i, types, index) ==
  LET param   == params.children[i]
      comment == parameter_type_comment(params, i)
  IN  [is |-> param.kind, id |-> param.id, start |-> param.start, name |-> lower_name_opt(param),
       default |-> IF param.kind = "SIMPLE_PARAMETER" THEN lower_expr_maybe(child(param, Expression)) ELSE <<>>,
       type |-> IF comment # None THEN lower_type_comment(comment)
                ELSE IF index \in DOMAIN types THEN types[index] ELSE Unknown]

Indices(node, kinds) ==
  SelectSeq([i \in DOMAIN node.children |-> i], LAMBDA i : node.children[i].kind \in kinds)

lower_params_opt(node, types) ==
  LET params == child(node, {"PARAMETERS"})
      at     == Indices(params, Parameter)
  IN  [k \in DOMAIN at |-> lower_param(params, at[k], types, k)]

lower_expr(node) ==
  LET kind == node.kind
      all  == children(node, Expression)
  IN  CASE kind = "NAME_REF"     -> [Expr("Name", node, <<>>) EXCEPT !.name = NameOf(node)]
        [] kind = "LITERAL_EXPR" -> Expr("Literal", node, <<>>)
        [] kind = "IF_EXPR"      ->
             Expr("If", node, [i \in 1..3 |-> lower_expr_opt(if_expr(node)[i])])
        [] kind = "UNARY_EXPR"   -> Expr("Unary", node, << lower_first(node) >>)
        [] kind = "BINARY_EXPR"  -> Expr("Binary", node, << lower_expr_opt(lhs(node)), lower_expr_opt(rhs(node)) >>)
        [] kind = "LAMBDA_EXPR"  ->
             [Expr("Lambda", node, << lower_first(node) >>) EXCEPT !.params = lower_params_opt(node, <<>>)]
        [] kind = "LIST_EXPR"    -> Expr("List", node, lower_exprs(all))
        [] kind = "TUPLE_EXPR"   -> Expr("Tuple", node, lower_exprs(all))
        [] kind = "PAREN_EXPR"   -> Expr("Paren", node, << lower_first(node) >>)
        [] kind = "LIST_COMP"    ->
             [Expr("ListComp", node, << lower_first(node) >>) EXCEPT !.clauses = lower_comp_clauses(node)]
        [] kind = "DICT_EXPR"    ->
             LET entries == children(node, {"DICT_ENTRY"})
             IN  Expr("Dict", node, FlattenSeq([i \in DOMAIN entries |-> lower_entry(entries[i])]))
        [] kind = "DICT_COMP"    ->
             [Expr("DictComp", node, lower_entry(child(node, {"DICT_ENTRY"})))
               EXCEPT !.clauses = lower_comp_clauses(node)]
        [] kind = "DOT_EXPR"     ->
             [Expr("Dot", node, << lower_first(node) >>) EXCEPT !.name = lower_name_opt(node)]
        [] kind = "CALL_EXPR"    ->
             Expr("Call", node, << lower_first(node) >> \o lower_args_opt(child(node, {"ARGUMENTS"})))
        [] kind = "INDEX_EXPR"   -> Expr("Index", node, << lower_expr_opt(lhs(node)), lower_expr_opt(rhs(node)) >>)
        [] kind = "SLICE_EXPR"   ->
             Expr("Slice", node, << lower_first(node) >> \o lower_expr_maybe(slice_start(node))
                                   \o lower_expr_maybe(slice_end(node)) \o lower_expr_maybe(slice_step(node)))

-----------------------------------------------------------------------------
(***************************************************************************)
(* Statements.  One is the i-th child of its parent, which has the comment *)
(* that follows an assignment.                                             *)
(***************************************************************************)
Stmt(is, node) == [is |-> is, id |-> node.id, start |-> node.start, end |-> node.end]

lower_load_items(stmt) ==
  LET items == children(stmt, LoadItem)
      Item(n) == LET name == token(n, "STRING")
                 IN  [id |-> n.id, loads |-> name,
                      name |-> IF n.kind = "DIRECT_LOAD_ITEM" THEN name ELSE lower_name_opt(n)]
  IN  [i \in DOMAIN items |-> Item(items[i])]

RECURSIVE lower_stmt(_, _)
lower_stmts(node) ==
  LET at == Indices(node, Statement) IN [k \in DOMAIN at |-> lower_stmt(node, at[k])]

lower_stmt(parent, i) ==
  LET node == parent.children[i]
      kind == node.kind
  IN  CASE kind = "DEF_STMT" ->
             LET comment == spec(node)
                 func    == lower_func_type(comment)
             IN  Stmt("Def", node) @@
                 [name |-> lower_name_opt(node), doc |-> doc(node), ret |-> func.ret,
                  params |-> lower_params_opt(node, func.params),
                  stmts |-> lower_stmts(child(node, {"SUITE"}))]
        [] kind = "IF_STMT" ->
             LET elif == Indices(node, {"IF_STMT"})
             IN  Stmt("If", node) @@
                 [test |-> lower_first(node), if_stmts |-> lower_stmts(if_suite(node)),
                  else_stmts |-> IF elif # <<>> THEN << lower_stmt(node, Head(elif)) >>
                                 ELSE lower_stmts(else_suite(node))]
        [] kind = "FOR_STMT" ->
             Stmt("For", node) @@
             [iterable |-> lower_first(node), targets |-> lower_loop_variables_opt(node),
              stmts |-> lower_stmts(child(node, {"SUITE"}))]
        [] kind = "ASSIGN_STMT" ->
             LET comment == assign_type_comment(parent, i)
             IN  Stmt("Assign", node) @@
                 [lhs |-> lower_expr_opt(lhs(node)), rhs |-> lower_expr_opt(rhs(node)),
                  typed |-> comment # None, type |-> lower_type_comment(comment)]
        [] kind = "LOAD_STMT"     -> Stmt("Load", node) @@ [items |-> lower_load_items(node)]
        [] kind = "RETURN_STMT"   -> Stmt("Return", node) @@ [expr |-> lower_expr_maybe(child(node, Expression))]
        [] kind = "BREAK_STMT"    -> Stmt("Break", node)
        [] kind = "CONTINUE_STMT" -> Stmt("Continue", node)
        [] kind = "PASS_STMT"     -> Stmt("Pass", node)
        [] kind \in Expression    -> Stmt("Expr", node) @@ [expr |-> lower_expr(node)]

lower_module(tree) ==
  [id |-> tree.id, start |-> tree.start, end |-> tree.end, top_level |-> lower_stmts(tree),
   type_ignore_comment_positions |-> type_ignore_comment_positions(tree)]

-----------------------------------------------------------------------------
(***************************************************************************)
(* All of the HIR.                                                         *)
(***************************************************************************)
RECURSIVE AllOf(_)
AllOfEach(exprs)  == FlattenSeq([i \in DOMAIN exprs |-> AllOf(exprs[i])])
Clauses(clauses)  == FlattenSeq([i \in DOMAIN clauses |->
                       IF clauses[i].is = "If" THEN << clauses[i].test >>
                       ELSE << clauses[i].iterable >> \o clauses[i].targets])
Defaults(params)  == FlattenSeq([i \in DOMAIN params |-> params[i].default])
AllOf(expr)       == << expr >> \o AllOfEach(Defaults(expr.params) \o Clauses(expr.clauses) \o expr.parts)

RECURSIVE AllStmts(_)
AllStmts(stmts) ==
  LET In(s) == CASE s.is \in {"Def", "For"} -> AllStmts(s.stmts)
                 [] s.is = "If" -> AllStmts(s.if_stmts) \o AllStmts(s.else_stmts)
                 [] OTHER -> <<>>
  IN  FlattenSeq([i \in DOMAIN stmts |-> << stmts[i] >> \o In(stmts[i])])

\* The expressions directly in a statement.
ExprsIn(s) ==
  CASE s.is = "Def"    -> Defaults(s.params)
    [] s.is = "If"     -> << s.test >>
    [] s.is = "For"    -> << s.iterable >> \o s.targets
    [] s.is = "Assign" -> << s.lhs, s.rhs >>
    [] s.is \in {"Return", "Expr"} -> IF s.is = "Expr" THEN << s.expr >> ELSE s.expr
    [] OTHER -> <<>>

AllExprs(stmts) ==
  LET all == AllStmts(stmts) IN FlattenSeq([i \in DOMAIN all |-> AllOfEach(ExprsIn(all[i]))])
=============================================================================
