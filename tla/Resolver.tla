------------------------------ MODULE Resolver ------------------------------
(***************************************************************************)
(* Names in the scopes of a module (starpls_hir/src/def/resolver.rs).      *)
(***************************************************************************)
EXTENDS Scopes

\* The names that begin with an underscore, of those that there are.
Private == {"_y"}

\* The innermost first.  There is none of what was recorded nowhere.
RECURSIVE scope_chain(_, _)
scope_chain(s, scope) == IF scope = 0 THEN <<>> ELSE << scope >> \o scope_chain(s, s.scopes[scope].parent)

scope_for_hir_id(s, key) == IF key \in DOMAIN s.by_hir THEN s.by_hir[key] ELSE 0
new_for(s, key)          == scope_chain(s, scope_for_hir_id(s, key))

DefsOf(s, scope, name) == SelectSeq(s.scopes[scope].defs, LAMBDA def : def.name = name)
DefsIn(s, chain, name) ==
  FlattenSeq([i \in DOMAIN chain |->
    LET defs == DefsOf(s, chain[i], name)
    IN  [k \in DOMAIN defs |->
           defs[k] @@ [scope |-> chain[i], execution_scope |-> s.scopes[chain[i]].execution_scope]]])

\* All bindings of the innermost execution scope that has one.
resolve_name(s, chain, name) ==
  LET defs   == DefsIn(s, chain, name)
      others == {i \in DOMAIN defs : defs[i].execution_scope # Head(defs).execution_scope}
  IN  IF others = {} THEN defs ELSE SubSeq(defs, 1, Min(others) - 1)

-----------------------------------------------------------------------------
(***************************************************************************)
(* Inference (typeck/infer.rs) looks a name up from the last scope of its  *)
(* execution scope, and skips what is bound in scopes after its own.       *)
(***************************************************************************)
new_for_hir_execution_scope(s, key) ==
  LET scope == scope_for_hir_id(s, key)
  IN  IF scope = 0 THEN <<>> ELSE scope_chain(s, s.by_execution_scope[s.scopes[scope].execution_scope])

\* Mutant: what is bound in the scope of the name itself is skipped too.
infer_name_strictly(s, e) ==
  SelectSeq(resolve_name(s, new_for_hir_execution_scope(s, ExprKey(e)), e.name),
            LAMBDA def : def.scope < scope_for_hir_id(s, ExprKey(e)))

\* The bindings that the type of a name is made from.
infer_name(s, e) ==
  SelectSeq(resolve_name(s, new_for_hir_execution_scope(s, ExprKey(e)), e.name),
            LAMBDA def : def.scope <= scope_for_hir_id(s, ExprKey(e)))

(***************************************************************************)
(* What is reported as not accessed: a variable that is not global, or a   *)
(* function, if no other name of the file is inferred from it.             *)
(***************************************************************************)
definition_is_used(s, names) ==
  UNION {{def.id : def \in {d \in ToSet(infer_name(s, names[i])) : d.id # names[i].id}} : i \in DOMAIN names}

\* The definitions that are unused until a name is inferred from them.
Unread(s) ==
  LET Local == {i \in DOMAIN s.scopes : s.scopes[i].execution_scope # ModuleKey}
      DefsOfKind(scopes, kinds) == {def \in UNION {ToSet(s.scopes[i].defs) : i \in scopes} : def.is \in kinds}
  IN  DefsOfKind(Local, {"Variable", "Function"})
      \cup {def \in DefsOfKind(DOMAIN s.scopes, {"Variable", "Function"}) : def.name \in Private}

report_unused_definitions(s, module) ==
  LET names == SelectSeq(AllExprs(module.top_level), LAMBDA e : e.is = "Name")
  IN  {def.id : def \in Unread(s)} \ definition_is_used(s, names)

-----------------------------------------------------------------------------
(***************************************************************************)
(* What other files may load: a name is looked up from the end of the      *)
(* file, scope by scope, and is exported if its last binding there is.     *)
(***************************************************************************)
resolve_export(s, name) ==
  LET found == SelectSeq(new_for(s, ModuleKey),
                 LAMBDA scope : LET defs == DefsOf(s, scope, name)
                                IN  defs # <<>> /\ Last(defs).is \in {"Variable", "Function"})
  IN  IF name \in Private \/ found = <<>> THEN <<>> ELSE << Last(DefsOf(s, Head(found), name)) >>

\* The first binding of each name in the innermost scope that has it.
module_defs(s, chain, filter_unexported) ==
  LET names == {def.name : def \in UNION {ToSet(s.scopes[chain[i]].defs) : i \in DOMAIN chain}}
      shown == names \ ({MissingName} \cup (IF filter_unexported THEN Private ELSE {}))
  IN  [name \in shown |-> Head(DefsIn(s, chain, name))]

(***************************************************************************)
(* The scope at an offset: of the smallest range around it, or of what was *)
(* recorded nearest before it within that range.  Ranges that are equal,   *)
(* those of an expression statement, have the same scope.                  *)
(***************************************************************************)
Ranges(s, module) ==
  LET exprs == AllExprs(module.top_level)
      stmts == AllStmts(module.top_level)
      Of(hir, key) == IF key \in DOMAIN s.by_hir
                      THEN {[start |-> hir.start, end |-> hir.end, scope |-> s.by_hir[key]]} ELSE {}
  IN  Of(module, ModuleKey)
      \cup UNION {Of(exprs[i], ExprKey(exprs[i])) : i \in DOMAIN exprs}
      \cup UNION {Of(stmts[i], StmtKey(stmts[i])) : i \in DOMAIN stmts}

ContainsRange(outer, inner) == outer.start <= inner.start /\ inner.end <= outer.end

\* Those that no other is after: max_by keeps a last one.
find_nearest_predecessor(ranges, within, offset) ==
  LET before == {r \in ranges : /\ r.start <= offset /\ ContainsRange(within, r)
                               /\ <<r.start, r.end>> # <<within.start, within.end>>}
      After(l, r) == \/ ContainsRange(l, r) /\ ~ContainsRange(r, l)
                     \/ ~ContainsRange(l, r) /\ ~ContainsRange(r, l) /\ l.start > r.start
  IN  {r.scope : r \in {x \in before : ~\E y \in before : After(y, x)}}

\* Mutant: the smallest range decides alone.
new_for_offset_smallest(s, module, offset) ==
  LET around == {r \in Ranges(s, module) : r.start <= offset /\ offset <= r.end}
      within == CHOOSE r \in around : \A q \in around : r.end - r.start <= q.end - q.start
  IN  { scope_chain(s, within.scope) }

\* More than one where the order of a hash map decides.
new_for_offset(s, module, offset) ==
  LET around == {r \in Ranges(s, module) : r.start <= offset /\ offset <= r.end}
      within == {r \in around : \A q \in around : r.end - r.start <= q.end - q.start}
      Scopes_(r) == LET near == find_nearest_predecessor(Ranges(s, module), r, offset)
                    IN  IF near = {} THEN {r.scope} ELSE near
  IN  {scope_chain(s, scope) : scope \in UNION {Scopes_(r) : r \in within}}
=============================================================================
