------------------------------- MODULE Scopes -------------------------------
(***************************************************************************)
(* The scopes of a module (starpls_hir/src/def/scope.rs).  A statement     *)
(* that binds names opens a scope in the one before it, so that a scope    *)
(* holds what is bound where it is recorded.  The bodies of functions are  *)
(* collected later, in the last scope of the statements around them.       *)
(***************************************************************************)
EXTENDS Lower

\* What is recorded by an expression, a statement or the module.
ExprKey(e) == <<"expr", e.id>>
StmtKey(s) == <<"stmt", s.id>>
ModuleKey  == <<"module", 0>>

\* defs is in the order of the bindings.  not_assignable is what a diagnostic
\* says "Expression is not assignable" of.
Scope(execution_scope, parent) == [defs |-> <<>>, execution_scope |-> execution_scope, parent |-> parent]
NewScopes ==
  [scopes |-> << Scope(ModuleKey, 0) >>, by_hir |-> <<>>, by_execution_scope |-> <<>>, deferred |-> <<>>,
   curr_execution_scope |-> ModuleKey, current |-> 1, functions |-> <<>>, not_assignable |-> {}]

Put(f, key, value) == (key :> value) @@ f

alloc_scope(c) ==
  [c EXCEPT !.scopes = Append(@, Scope(c.curr_execution_scope, c.current)), !.current = Len(c.scopes) + 1]
add_decl(c, name, is, id) ==
  [c EXCEPT !.scopes[c.current].defs = Append(@, [name |-> name, is |-> is, id |-> id])]
record(c, key)            == [c EXCEPT !.by_hir = Put(@, key, c.current)]
finish_execution_scope(c) == [c EXCEPT !.by_execution_scope = Put(@, c.curr_execution_scope, c.current)]

\* Back to where c was, after what is not of its scope.
Return(after, c) == [after EXCEPT !.current = c.current, !.curr_execution_scope = c.curr_execution_scope]
In(c, execution_scope) == [c EXCEPT !.curr_execution_scope = execution_scope]

AddParams(c, params) == FoldLeft(LAMBDA b, p : add_decl(b, p.name, "Parameter", p.id), c, params)

-----------------------------------------------------------------------------
RECURSIVE collect_expr(_, _, _), Each(_, _, _)
Each(c, exprs, source) ==
  IF exprs = <<>> THEN c ELSE Each(collect_expr(c, Head(exprs), source), Tail(exprs), source)

collect_comp_clauses(c, clauses) ==
  LET Clause(b, clause) ==
        IF clause.is = "If" THEN collect_expr(b, clause.test, FALSE)
        ELSE Each(alloc_scope(collect_expr(b, clause.iterable, FALSE)), clause.targets, TRUE)
  IN  FoldLeft(Clause, c, clauses)

\* With a source the expression is what is assigned to.
collect_expr(c, e, source) ==
  CASE e.is = "Missing" -> c
    [] e.is = "Name" -> record(IF source THEN add_decl(c, e.name, "Variable", e.id) ELSE c, ExprKey(e))
    [] e.is \in {"List", "Tuple", "Paren"} -> record(Each(c, e.parts, source), ExprKey(e))
    [] source /\ e.is \in {"Dot", "Index", "Slice"} -> record(Each(c, e.parts, FALSE), ExprKey(e))
    [] source /\ e.is \notin {"Missing", "Name", "List", "Tuple", "Paren", "Dot", "Index", "Slice"} ->
         [c EXCEPT !.not_assignable = @ \cup {e.id}]
    [] ~source /\ e.is = "Lambda" ->
         LET body == Each(AddParams(alloc_scope(In(c, <<"lambda", e.id>>)), e.params), e.parts, FALSE)
         IN  record(Return(finish_execution_scope(body), c), ExprKey(e))
    [] ~source /\ e.is \in {"ListComp", "DictComp"} ->
         LET body == Each(collect_comp_clauses(In(c, <<"comp", e.id>>), e.clauses), e.parts, FALSE)
         IN  record(Return(finish_execution_scope(body), c), ExprKey(e))
    [] ~source /\ e.is \notin {"Missing", "Name", "List", "Tuple", "Paren", "Lambda", "ListComp", "DictComp"} ->
         record(Each(c, e.parts, FALSE), ExprKey(e))

-----------------------------------------------------------------------------
(***************************************************************************)
(* Statements.  functions are those of the statements being collected.     *)
(***************************************************************************)
RECURSIVE collect_stmt(_, _), collect_stmts(_, _)
collect_stmts(c, stmts) ==
  IF stmts = <<>> THEN c ELSE collect_stmts(collect_stmt(c, Head(stmts)), Tail(stmts))

collect_stmt(c, s) ==
  CASE s.is = "Def" ->
         LET params == Each(c, Defaults(s.params), FALSE)
             named  == add_decl(alloc_scope(params), s.name, "Function", s.id)
         IN  record([named EXCEPT !.functions = Append(@, s)], StmtKey(s))
    [] s.is = "If" ->
         record(collect_stmts(collect_stmts(collect_expr(c, s.test, FALSE), s.if_stmts), s.else_stmts), StmtKey(s))
    [] s.is = "For" ->
         record(collect_stmts(Each(collect_expr(c, s.iterable, FALSE), s.targets, TRUE), s.stmts), StmtKey(s))
    [] s.is = "Assign" ->
         record(collect_expr(alloc_scope(collect_expr(c, s.rhs, FALSE)), s.lhs, TRUE), StmtKey(s))
    [] s.is = "Load" ->
         record(FoldLeft(LAMBDA b, item : add_decl(b, item.name, "LoadItem", item.id), alloc_scope(c), s.items),
                StmtKey(s))
    [] s.is \in {"Return", "Expr"} -> record(Each(c, ExprsIn(s), FALSE), StmtKey(s))
    [] s.is \in {"Break", "Continue", "Pass"} -> c

\* Mutant: a function is collected where it is defined.
collect_stmts_defer_early(c, stmts) ==
  LET Defer(b, s) ==
        LET d == collect_stmt(b, s)
        IN  [d EXCEPT !.deferred = @ \o [i \in DOMAIN d.functions |-> [parent |-> d.current, def |-> d.functions[i]]],
                      !.functions = <<>>]
  IN  finish_execution_scope(FoldLeft(Defer, c, stmts))

collect_stmts_defer(c, stmts) ==
  LET d == collect_stmts([c EXCEPT !.functions = <<>>], stmts)
  IN  finish_execution_scope(
        [d EXCEPT !.deferred = @ \o [i \in DOMAIN d.functions |-> [parent |-> d.current, def |-> d.functions[i]]]])

RECURSIVE collect_deferred(_)
collect_deferred(c) ==
  IF c.deferred = <<>> THEN c
  ELSE LET next == Head(c.deferred)
           at   == [In(c, <<"def", next.def.id>>) EXCEPT !.deferred = Tail(@), !.current = next.parent]
       IN  collect_deferred(collect_stmts_defer(AddParams(alloc_scope(at), next.def.params), next.def.stmts))

new_for_module(module) ==
  collect_deferred(record(collect_stmts_defer(NewScopes, module.top_level), ModuleKey))
=============================================================================
