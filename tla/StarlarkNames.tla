--------------------------- MODULE StarlarkNames ---------------------------
(***************************************************************************)
(* What a name refers to by the rules of Starlark: the reference of Scopes *)
(* and Resolver.  The file, a function, a lambda and a comprehension are   *)
(* blocks.  A name refers to the variable of the innermost block around it *)
(* that binds it anywhere; a comprehension's first iterable and the        *)
(* defaults of parameters are outside of its block.  A module is what its  *)
(* evaluation does, in order: uses and bindings, each in a path of blocks, *)
(* innermost first, with the body of a function where it is defined.       *)
(***************************************************************************)
EXTENDS Lower

Does(what, e, path) == << [does |-> what, name |-> e.name, id |-> e.id, path |-> path, loop |-> FALSE, load |-> FALSE] >>
Within(kind, e, path) == << <<kind, e.id>> >> \o path

Then(Of(_), items) == FlattenSeq([i \in DOMAIN items |-> Of(items[i])])
BindAll(items, path) == Then(LAMBDA item : Does("bind", item, path), items)

RECURSIVE Evaluate(_, _)
EvaluateAll(exprs, path) == Then(LAMBDA e : Evaluate(e, path), exprs)

RECURSIVE Assigned(_, _)
Assigned(e, path) ==
  CASE e.is = "Name" -> Does("bind", e, path)
    [] e.is \in {"List", "Tuple", "Paren"} -> Then(LAMBDA p : Assigned(p, path), e.parts)
    [] e.is \notin {"Name", "List", "Tuple", "Paren"} -> EvaluateAll(e.parts, path)
AssignedAll(exprs, path) == Then(LAMBDA e : Assigned(e, path), exprs)

Evaluate(e, path) ==
  CASE e.is = "Missing" -> <<>>
    [] e.is = "Name"    -> Does("use", e, path)
    [] e.is = "Lambda"  ->
         LET inner == Within("lambda", e, path)
         IN  EvaluateAll(Defaults(e.params), path) \o BindAll(e.params, inner) \o EvaluateAll(e.parts, inner)
    [] e.is \in {"ListComp", "DictComp"} ->
         LET inner == Within("comp", e, path)
             Clause(i) == IF e.clauses[i].is = "If" THEN Evaluate(e.clauses[i].test, inner)
                          ELSE Evaluate(e.clauses[i].iterable, IF i = 1 THEN path ELSE inner)
                               \o AssignedAll(e.clauses[i].targets, inner)
         IN  FlattenSeq([i \in DOMAIN e.clauses |-> Clause(i)]) \o EvaluateAll(e.parts, inner)
    [] OTHER -> EvaluateAll(e.parts, path)

RECURSIVE Execute(_, _)
ExecuteAll(stmts, path) == Then(LAMBDA s : Execute(s, path), stmts)
Execute(s, path) ==
  CASE s.is = "Def"    ->
         LET inner == Within("def", s, path)
         IN  EvaluateAll(Defaults(s.params), path) \o Does("bind", s, path)
             \o BindAll(s.params, inner) \o ExecuteAll(s.stmts, inner)
    [] s.is = "If"     -> Evaluate(s.test, path) \o ExecuteAll(s.if_stmts, path) \o ExecuteAll(s.else_stmts, path)
    [] s.is = "For"    ->
         LET targets == AssignedAll(s.targets, path)
         IN  Evaluate(s.iterable, path) \o [i \in DOMAIN targets |-> [targets[i] EXCEPT !.loop = TRUE]]
             \o ExecuteAll(s.stmts, path)
    [] s.is = "Assign" -> Evaluate(s.rhs, path) \o Assigned(s.lhs, path)
    [] s.is = "Load"   ->
         LET items == BindAll(s.items, path) IN [i \in DOMAIN items |-> [items[i] EXCEPT !.load = TRUE]]
    [] OTHER           -> EvaluateAll(ExprsIn(s), path)

Events(module) == ExecuteAll(module.top_level, << <<"file", 0>> >>)

-----------------------------------------------------------------------------
\* The bindings of the name of a use, in the k-th block around it.
BoundIn(events, i, k) ==
  {j \in DOMAIN events : /\ events[j].does = "bind" /\ events[j].name = events[i].name
                        /\ Head(events[j].path) = events[i].path[k]}

\* The block of the variable, 0 if there is none.
BlockOf(events, i) ==
  LET blocks == {k \in DOMAIN events[i].path : BoundIn(events, i, k) # {}}
  IN  IF blocks = {} THEN 0 ELSE CHOOSE k \in blocks : \A l \in blocks : k <= l

Variable(events, i) == IF BlockOf(events, i) = 0 THEN {} ELSE BoundIn(events, i, BlockOf(events, i))

\* Its bindings that may have happened: those before it, or all if the use is
\* in a function called later.
Happened(events, i) ==
  LET k == BlockOf(events, i)
  IN  {j \in Variable(events, i) : j < i \/ \E l \in 1..k - 1 : events[i].path[l][1] = "def"}
=============================================================================
