------------------------------ MODULE CodeFlow ------------------------------
(***************************************************************************)
(* The code flow graph of a file (starpls_hir def/codeflow.rs) and what    *)
(* inference reads from it: the type of a name where it is used, and the   *)
(* code that is unreachable (typeck/infer.rs, behind                       *)
(* --experimental_use_code_flow_analysis).                                 *)
(*                                                                         *)
(* A program is about one name, x, and is written as a sequence of lines:  *)
(*   assign  x = ...             comp  [x for x in ...]                    *)
(*   fail    fail(), of type Never      if, else, for, def   open a block  *)
(*   forx    for x in ...: opens a block       end  closes the last block  *)
(* and break, continue and return.  A line's number is the id of its       *)
(* statement and stands for the type of what the line assigns to x.        *)
(***************************************************************************)
EXTENDS Integers, Sequences, FiniteSets, TLC

Opening == {"if", "for", "forx", "def"}
Line    == Opening \cup {"else", "end", "assign", "comp", "fail", "break", "continue", "return"}

(***************************************************************************)
(* The statements of a text.  The code comes with errors, so a block may   *)
(* be empty or not be closed.                                              *)
(***************************************************************************)
RECURSIVE Block(_, _), Statement(_, _)

Statement(text, i) ==
  LET nothing == [stmts |-> <<>>, next |-> i]
      body    == IF text[i] \in Opening THEN Block(text, i + 1) ELSE nothing
      has_else == /\ text[i] = "if"
                  /\ body.next <= Len(text) /\ text[body.next] = "else"
      orelse  == IF has_else THEN Block(text, body.next + 1) ELSE [nothing EXCEPT !.next = body.next]
  IN  [id |-> i, kind |-> text[i], body |-> body.stmts,
       has_else |-> has_else, orelse |-> orelse.stmts, next |-> orelse.next + 1]

\* `next` is the line that ends the block.
Block(text, i) ==
  IF i > Len(text) \/ text[i] \in {"else", "end"}
  THEN [stmts |-> <<>>, next |-> i]
  ELSE LET s    == Statement(text, i)
           rest == Block(text, s.next)
       IN  [stmts |-> <<s>> \o rest.stmts, next |-> rest.next]

TopLevel(text) == Block(text, 1).stmts

\* The blocks that are open at a line, those of an `if` closed by its `else`.
RECURSIVE OpenAt(_, _)
OpenAt(text, i) ==
  IF i = 1 THEN <<>>
  ELSE LET open == OpenAt(text, i - 1)
           line == text[i - 1]
       IN  IF line \in Opening THEN Append(open, i - 1)
           ELSE IF line = "end" THEN SubSeq(open, 1, Len(open) - 1)
           ELSE open

\* Execution scopes: a def by its line, the module as 0.
Module == 0
ScopeAt(text, i) ==
  LET open == OpenAt(text, i)
      defs == {k \in DOMAIN open : text[open[k]] = "def"}
  IN  IF defs = {} THEN Module ELSE open[CHOOSE k \in defs : \A j \in defs : j <= k]

\* A comprehension is an execution scope of its own.
CompScope == -1

-----------------------------------------------------------------------------
(***************************************************************************)
(* CodeFlowLoweringContext.  `at` is hir_to_flow_node; an antecedent is    *)
(* kept once, so antecedents are a set.                                    *)
(***************************************************************************)
Unreachable == 1

Node(kind, id, scope, antecedents) ==
  [kind |-> kind, id |-> id, scope |-> scope, antecedents |-> antecedents]

NewContext ==
  [nodes |-> <<Node("Unreachable", 0, Module, {}), Node("Start", 0, Module, {})>>,
   at |-> <<>>, curr |-> 2, break |-> Unreachable, continue |-> Unreachable]

NewNode(cx, node)  == [cx EXCEPT !.nodes = Append(@, node)]
LastNode(cx)       == Len(cx.nodes)
Goto(cx, n)        == [cx EXCEPT !.curr = n]
\* Mutant: what follows a statement does not see it.
NewCurrUnseen(cx, kind, id, scope) == NewNode(cx, Node(kind, id, scope, {cx.curr}))

NewCurr(cx, kind, id, scope) ==
  Goto(NewNode(cx, Node(kind, id, scope, {cx.curr})), LastNode(cx) + 1)

\* Mutant: a path is kept only if it is the first into its node.
PushFirst(cx, n, antecedent) ==
  IF cx.nodes[n].antecedents = {} THEN [cx EXCEPT !.nodes[n].antecedents = {antecedent} \ {Unreachable}]
  ELSE cx

PushAntecedent(cx, n, antecedent) ==
  [cx EXCEPT !.nodes[n].antecedents = @ \cup ({antecedent} \ {Unreachable})]

\* finish_branch_or_loop_node
Finish(cx, n) ==
  Goto(cx, IF cx.nodes[n].antecedents = {} THEN Unreachable ELSE n)

\* break and continue.  Unreachable as a target is None.
Jump(cx, target) ==
  Goto(IF target = Unreachable THEN cx ELSE PushAntecedent(cx, target, cx.curr), Unreachable)

RECURSIVE LowerStmts(_, _, _), LowerStmt(_, _, _)

LowerStmts(cx, stmts, scope) ==
  IF stmts = <<>> THEN cx
  ELSE LET done == LowerStmt(cx, Head(stmts), scope)
       IN  IF done.curr = Unreachable THEN done ELSE LowerStmts(done, Tail(stmts), scope)

LowerDef(cx, s) ==
  LET start == NewNode(cx, Node("Start", s.id, s.id, {}))
  IN  Goto(LowerStmts(Goto(start, LastNode(start)), s.body, s.id), cx.curr)

\* Mutant: an `if` without an `else` is taken to run its body.
LowerIfTaken(cx, s, scope) ==
  LET new  == NewNode(cx, Node("Branch", s.id, scope, {}))
      post == LastNode(new)
      then == LowerStmts(new, s.body, scope)
      back == PushAntecedent(then, post, then.curr)
      else == LowerStmts(Goto(back, cx.curr), s.orelse, scope)
  IN  Finish(IF s.has_else THEN PushAntecedent(else, post, else.curr) ELSE back, post)

LowerIf(cx, s, scope) ==
  LET new  == NewNode(cx, Node("Branch", s.id, scope, {}))
      post == LastNode(new)
      then == LowerStmts(new, s.body, scope)
      back == PushAntecedent(then, post, then.curr)
      else == IF s.has_else THEN LowerStmts(Goto(back, cx.curr), s.orelse, scope)
              ELSE Goto(back, cx.curr)
  IN  Finish(PushAntecedent(else, post, else.curr), post)

LowerFor(cx, s, scope) ==
  LET bound == IF s.kind = "forx" THEN NewCurr(cx, "Assign", s.id, scope) ELSE cx
      pre   == LastNode(bound) + 1
      post  == pre + 1
      new   == NewNode(NewNode(bound, Node("Loop", s.id, scope, {bound.curr})),
                       Node("Branch", s.id, scope, {}))
      body  == LowerStmts([new EXCEPT !.curr = pre, !.break = post, !.continue = pre],
                          s.body, scope)
      wired == PushAntecedent(PushAntecedent(body, pre, body.curr), post, pre)
  IN  [Finish(wired, post) EXCEPT !.break = cx.break, !.continue = cx.continue]

LowerStmt(cx0, s, scope) ==
  LET cx == [cx0 EXCEPT !.at = @ @@ (s.id :> cx0.curr)]
  IN  CASE s.kind = "assign"         -> NewCurr(cx, "Assign", s.id, scope)
        [] s.kind = "comp"           -> NewCurr(cx, "Assign", s.id, CompScope)
        [] s.kind = "fail"           -> NewCurr(cx, "Call", s.id, scope)
        [] s.kind = "def"            -> LowerDef(cx, s)
        [] s.kind = "if"             -> LowerIf(cx, s, scope)
        [] s.kind \in {"for", "forx"} -> LowerFor(cx, s, scope)
        [] s.kind = "break"          -> Jump(cx, cx.break)
        [] s.kind = "continue"       -> Jump(cx, cx.continue)
        [] OTHER                     -> cx

CodeFlowGraph(text) == LowerStmts(NewContext, TopLevel(text), Module)

-----------------------------------------------------------------------------
(***************************************************************************)
(* Inference.  A type is the set of the lines whose values it unites, and  *)
(* of Unbound; without a member it is Never.                               *)
(***************************************************************************)
Unbound  == 0
Never    == {}
Fallback == {-1}

\* The lines that assign to x in a scope.
AssignedIn(text, scope) ==
  {i \in DOMAIN text : text[i] \in {"assign", "forx"} /\ ScopeAt(text, i) = scope}

\* The scope whose assignments a name in a scope refers to.
RECURSIVE DefScope(_, _)
DefScope(text, scope) ==
  IF scope = Module \/ AssignedIn(text, scope) # {} THEN scope
  ELSE DefScope(text, ScopeAt(text, scope))

\* Assignments and defs, as they are collected, open a Scope inside the last; a
\* for adds its target to the Scope it is in.
ScopeBefore(text, i) ==
  Cardinality({k \in 1..i - 1 : text[k] \in {"assign", "def"} /\ ScopeAt(text, k) = ScopeAt(text, i)})

DeclaredIn(text, i) == ScopeBefore(text, i) + (IF text[i] = "assign" THEN 1 ELSE 0)

\* The effective type of x where a statement begins: of its assignments, those
\* in a later Scope are skipped.
EffectiveTy(text, i) ==
  LET scope == ScopeAt(text, i)
      def   == DefScope(text, scope)
  IN  {j \in AssignedIn(text, def) : def = scope => DeclaredIn(text, j) <= ScopeBefore(text, i)}

RECURSIVE InferRef(_, _, _, _)
InferRef(nodes, scope, start, n) ==
  LET node  == nodes[n]
      types == {InferRef(nodes, scope, start, a) : a \in node.antecedents}
  IN  CASE node.kind = "Start"       -> start
        [] node.kind = "Assign"      -> IF node.scope = scope THEN {node.id} ELSE UNION types
        [] node.kind = "Branch"      -> IF Fallback \in types THEN Fallback ELSE UNION types
        [] node.kind = "Loop"        -> Fallback
        [] OTHER                     -> Never

\* The type of x where a statement begins.
InferName(text, cfg, i) ==
  LET scope     == ScopeAt(text, i)
      start     == IF DefScope(text, scope) # scope THEN EffectiveTy(text, i) ELSE {Unbound}
      flow      == IF i \in DOMAIN cfg.at THEN InferRef(cfg.nodes, scope, start, cfg.at[i])
                                          ELSE Never
  IN  IF flow = Fallback THEN EffectiveTy(text, i) ELSE flow

RECURSIVE ExistsFlowPath(_, _, _)
ExistsFlowPath(nodes, from, to) ==
  \/ from = to
  \/ nodes[from].kind = "Loop"
  \/ /\ nodes[from].kind \in {"Assign", "Branch"}
     /\ \E a \in nodes[from].antecedents : ExistsFlowPath(nodes, a, to)

\* walk_stmts: from the first statement that no path leads to, the rest of a block.
Reported(cfg, stmts) ==
  LET At(k)   == cfg.at[stmts[k].id]
      Cut(k)  == \/ stmts[k].id \notin DOMAIN cfg.at
                 \/ k > 1 /\ ~ExistsFlowPath(cfg.nodes, At(k), At(k - 1))
  IN  {stmts[k].id : k \in {k \in DOMAIN stmts : \E j \in 1..k : Cut(j)}}

\* The statements of a block and of the blocks in it, reported on their own.
RECURSIVE ReportedIn(_, _)
ReportedIn(cfg, stmts) ==
  Reported(cfg, stmts)
    \cup UNION {ReportedIn(cfg, stmts[k].body) \cup ReportedIn(cfg, stmts[k].orelse)
                 : k \in DOMAIN stmts}

-----------------------------------------------------------------------------
(***************************************************************************)
(* What the program does.  Run gives, for the values x may have before     *)
(* some statements, those it may have at each of them, after them, and     *)
(* where they leave a loop or go on with it; `stops` says whether return   *)
(* ends the run, as it does, or is passed over, as the graph has it.       *)
(***************************************************************************)
RECURSIVE Run(_, _, _, _), RunStmt(_, _, _, _), RunLoop(_, _, _, _)

Through(values) == [out |-> values, break |-> {}, continue |-> {}, at |-> <<>>]

Join(r, s) == [out |-> r.out \cup s.out, break |-> r.break \cup s.break,
               continue |-> r.continue \cup s.continue, at |-> r.at @@ s.at]

Run(text, stmts, values, stops) ==
  IF stmts = <<>> THEN Through(values)
  ELSE LET first == RunStmt(text, Head(stmts), values, stops)
           rest  == Run(text, Tail(stmts), first.out, stops)
       IN  [Join(first, rest) EXCEPT !.out = rest.out]

\* An iteration leads to another until no value is new.
RunLoop(text, s, values, stops) ==
  LET bound == IF s.kind = "forx" /\ values # {} THEN {s.id} ELSE values
      once  == Run(text, s.body, bound, stops)
      again == values \cup once.out \cup once.continue
  IN  IF again = values
      THEN [out |-> values \cup once.break, break |-> {}, continue |-> {}, at |-> once.at]
      ELSE RunLoop(text, s, again, stops)

\* A function may be called any time after it is defined.
Called(text, s, values) ==
  IF values = {} THEN {}
  ELSE IF AssignedIn(text, s.id) # {} THEN {Unbound}
  ELSE AssignedIn(text, DefScope(text, s.id))

RunStmt(text, s, values, stops) ==
  LET r == CASE s.kind = "assign"   -> Through(IF values = {} THEN {} ELSE {s.id})
             [] s.kind = "fail"     -> Through({})
             [] s.kind = "return"   -> Through(IF stops THEN {} ELSE values)
             [] s.kind = "break"    -> [Through({}) EXCEPT !.break = values]
             [] s.kind = "continue" -> [Through({}) EXCEPT !.continue = values]
             [] s.kind = "if"       -> Join(Run(text, s.body, values, stops),
                                            Run(text, s.orelse, values, stops))
             [] s.kind \in {"for", "forx"} -> RunLoop(text, s, values, stops)
             [] s.kind = "def"      ->
                  [Through(values) EXCEPT !.at = Run(text, s.body, Called(text, s, values), stops).at]
             [] OTHER               -> Through(values)
  IN  [r EXCEPT !.at = @ @@ (s.id :> values)]

Reach(text, stops) == Run(text, TopLevel(text), {Unbound}, stops).at

\* The statements where x can be asked for, and is known.
Uses(text) == {i \in DOMAIN Reach(text, TRUE) : AssignedIn(text, DefScope(text, ScopeAt(text, i))) # {}}
=============================================================================
