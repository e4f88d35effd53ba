------------------------------ MODULE MCTypes ------------------------------
(***************************************************************************)
(* Every small expression for MCAlgorithms, and what its type must be.  An *)
(* expression is built from its leaves: literals, and names of variables   *)
(* that a comment gives a type.  stack has the expressions that are still  *)
(* to be put together.                                                     *)
(***************************************************************************)
EXTENDS Infer, StarlarkValues

\* The most expressions in one, with itself.
CONSTANT MaxExprs

VARIABLE stack

RECURSIVE SizeOf(_)
SizeOf(exprs) == FoldLeft(LAMBDA n, e : n + 1 + SizeOf(e.parts), 0, exprs)
size == SizeOf(stack)

Ref(name)         == [is |-> "Path", segments |-> <<name>>, generic |-> FALSE, args |-> <<>>]
Of(name, args)    == [is |-> "Path", segments |-> <<name>>, generic |-> TRUE, args |-> args]
Either(types)     == [is |-> "Union", types |-> types]
None              == [is |-> "Name", name |-> "None"]
Ellipsis          == [is |-> "Ellipsis"]
int               == Ref("int")
string            == Ref("string")

s  == AString(<<"s">>)

\* Type comments of variables, each with some of the values of the variable.
Variables ==
  {<<Either(<<int, string>>), {AnInt(1), s}>>,
   <<Either(<<Either(<<int, None>>), None>>), {AnInt(0), NoneValue}>>,
   <<Ref("bool"), {ABool(TRUE), ABool(FALSE)}>>,
   <<Ref("Label"), {LabelValue}>>,
   <<Of("list", <<Either(<<int, string>>)>>), {AList(<<>>), AList(<<s, AnInt(0)>>)}>>,
   <<Of("tuple", <<int, Ellipsis>>), {ATuple(<<>>), ATuple(<<AnInt(2), AnInt(0)>>)}>>,
   <<Of("tuple", <<string, int>>), {ATuple(<<s, AnInt(1)>>)}>>,
   <<Of("dict", <<string, int>>), {ADict(<<>>), ADict(<<<<s, AnInt(0)>>>>)}>>,
   <<Of("Iterable", <<int>>), {AList(<<AnInt(2)>>), ARange(2), ADict(<<<<AnInt(MaxInt + 2), s>>>>)}>>,
   <<Of("Sequence", <<string>>), {AList(<<s>>), ATuple(<<s, s>>)}>>,
   <<Ref("range"), {ARange(0), ARange(3)}>>,
   <<Ref("Any"), {s, AnInt(1)}>>}

\* Variables that no comment is about: one is never assigned, one only on a path.
Unassigned ==
  {<<UnboundTy, {Fail}>>, <<union(<<IntTy(<<>>), UnboundTy>>), {AnInt(1), Fail}>>}

Literals == {AnInt(0), AnInt(1), AnInt(MaxInt), AnInt(MaxInt + 1), AnInt(MaxUInt + 1), s, ABool(TRUE), NoneValue, Float, ABytes(<<AnInt(1)>>)}

\* id tells the expressions apart.  A name has its variable's values.
Expr(is, op, parts) ==
  [is |-> is, id |-> size + 1, op |-> op, parts |-> parts, literal |-> NoneValue,
   values |-> {}, type |-> UnboundTy, targets |-> 1]
Name(type, values) == [Expr("Name", "", <<>>) EXCEPT !.type = type, !.values = values]

Leaves ==
  {[Expr("Literal", "", <<>>) EXCEPT !.literal = l] : l \in Literals}
  \cup {[Expr("Literal", "0x", <<>>) EXCEPT !.literal = AnInt(2)]}
  \cup {Name(resolve_type_ref(x[1]).ty, x[2]) : x \in Variables}
  \cup {Name(x[1], x[2]) : x \in Unassigned}
  \cup {Expr(is, "", <<>>) : is \in {"List", "Tuple", "Dict"}}

\* What may be made of parts: in the order of the source, so that of an If the
\* second is the condition.
Forms(parts) ==
  LET With(is, ops) == {Expr(is, op, parts) : op \in ops}
  IN  CASE Len(parts) = 1 ->
             With("Unary", {"-", "~", "not"}) \cup With("List", {""}) \cup With("Tuple", {""}) \cup With("Slice", {""})
             \cup {[Expr("ListComp", "", parts) EXCEPT !.targets = n] : n \in 1..2}
        [] Len(parts) = 2 ->
             With("Binary", {"+", "*", "/", "%", "|", "in", "==", "or", "and"}) \cup With("Index", {""})
             \cup With("List", {""}) \cup With("Tuple", {""}) \cup With("Dict", {""}) \cup With("Slice", {""})
        [] Len(parts) = 3 -> With("If", {""}) \cup With("Slice", {""})

\* n expressions, with one more, can still become one: a form takes up to three.
CanEnd(n) == size + 1 + (n \div 2) <= MaxExprs

Pushed   == IF CanEnd(Len(stack) + 1) THEN {Append(stack, e) : e \in Leaves} ELSE {}
Combined == UNION {LET rest == Len(stack) - n
                   IN  {Append(SubSeq(stack, 1, rest), e) : e \in Forms(SubSeq(stack, rest + 1, Len(stack)))}
                     : n \in {k \in 1..3 : k <= Len(stack) /\ CanEnd(Len(stack) - k + 1)}}

-----------------------------------------------------------------------------
\* What the uses of names in an expression may be, each any of its values.
RECURSIVE Environments(_), EnvironmentsOf(_)
EnvironmentsOf(exprs) ==
  IF exprs = <<>> THEN {<<>>}
  ELSE {first @@ rest : first \in Environments(Head(exprs)), rest \in EnvironmentsOf(Tail(exprs))}
Environments(e) ==
  IF e.is = "Name" THEN {e.id :> v : v \in e.values} ELSE EnvironmentsOf(e.parts)

\* What e evaluates to, in some run: a value or Fail.
Outcomes(e) == {Evaluate(e, env) : env \in Environments(e)}
Values(e)   == Outcomes(e) \ {Fail}
Type(e)     == infer_expr(e).ty

HaveType(values, ty) == \A v \in values : HasType(v, ty)
IsTyped(e)           == HaveType(Values(e), Type(e))

\* The properties are about an expression that is complete.
Whole == Len(stack) = 1
whole == stack[1]

Members(ty)   == IF Is(ty, "union") THEN ToSet(ty.union) ELSE {ty}
IsOne(ty, kinds) == \E kind \in kinds : Is(ty, kind)

\* Of each member of its type there is a value that has no other's, and is not
\* just empty.
Cover(values, members) ==
  \A m \in members : \E v \in values : {k \in members : HasType(v, k)} = {m}
IsExact(e) == Cover(Values(e) \ {AList(<<>>), ATuple(<<>>), ADict(<<>>)}, Members(Type(e)))

\* The types in a type.
RECURSIVE Within(_)
Within(ty) ==
  LET Inside(tys) == {ty} \cup UNION {Within(tys[i]) : i \in DOMAIN tys}
  IN  CASE Is(ty, "union") -> Inside(ty.union)
        [] Is(ty, "tuple") -> Inside(ty.tuple)
        [] Is(ty, "key")   -> Inside(<< ty.key, ty.value >>)
        [] IsOne(ty, {"list", "tupleOf", "iterable", "sequence"}) -> Inside(<< ItemsOf(ty) >>)
        [] IsOne(ty, {"plain", "int", "bool", "string"}) -> {ty}

-----------------------------------------------------------------------------
\* What infer_expr types as it is not: an integer with a prefix or that is no u64,
\* a slice that is not a list, a quotient of integers, a sum of two Sequences, and
\* a sum that is no i64.
Mistyped(e) ==
  LET ty(i)   == Type(e.parts[i])
      Both(kind) == \A i \in DOMAIN e.parts : Is(ty(i), kind)
  IN  \/ e.is = "Literal" /\ Has(e.literal, "int") /\ (e.op # "" \/ e.literal.int > MaxUInt)
      \/ e.is = "Slice" /\ (ty(1) = RangeTy \/ IsOne(ty(1), {"tuple", "tupleOf", "sequence"}))
      \/ e.is = "Binary" /\ e.op = "/" /\ Both("int")
      \/ e.is = "Binary" /\ e.op = "+" /\ Both("sequence")
      \/ e.is = "Binary" /\ e.op = "+" /\ Both("int") /\ \E v \in Values(e) : v.int > MaxInt

Sound ==
  Whole /\ ~Mistyped(whole) /\ (\A i \in DOMAIN whole.parts : IsTyped(whole.parts[i])) => IsTyped(whole)

ReportedRightly ==
  LET e        == whole
      ty(i)    == Type(e.parts[i])
      Operands == DOMAIN e.parts \cap IF e.is = "Binary" THEN {1, 2} ELSE {1}
      NoRule == \/ e.is # "Unary" /\ \E i \in Operands : IsOne(ty(i), {"union", "sequence"})
                \/ e.is = "ListComp" /\ Is(sub_ty(ty(1)).ty, "union")
                \/ e.is = "Binary" /\ e.op = "+" /\ \A i \in Operands : IsOne(ty(i), {"tuple", "tupleOf"})
                \/ e.is = "Binary" /\ e.op = "in" /\ (ty(2) = RangeTy \/ Is(ty(2), "iterable"))
                \/ e.is = "Index" /\ Is(ty(1), "tuple") /\ ty(2) \in {AnyTy, UnknownTy}
  IN  /\ Whole /\ ~infer_expr(e).ok /\ ~NoRule
      /\ \A i \in DOMAIN e.parts : IsTyped(e.parts[i]) /\ IsExact(e.parts[i])
      => Fail \in Outcomes(e)

TypeIsCertain(ty, within) ==
  {AnyTy, UnknownTy, NeverTy} \cap within = {} /\ \A t \in within \ {ty} : ~Is(t, "union")

JudgedRightly(ty, values, ref) ==
  IF Assigns(ty, ref) THEN \E v \in values : Fits(v, ref, TRUE)
  ELSE \/ ref.is = "Path" /\ Head(ref.segments) \in {"Iterable", "Sequence"} /\ (ty = RangeTy \/ Is(ty, "key"))
       \/ \E v \in values : ~Fits(v, ref, FALSE)

AssignedRightly ==
  LET ty     == Type(whole)
      values == Values(whole)
  IN  Whole /\ HaveType(values, ty) /\ IsExact(whole) /\ TypeIsCertain(ty, Within(ty)) =>
        \A x \in Variables : JudgedRightly(ty, values, x[1])
=============================================================================
