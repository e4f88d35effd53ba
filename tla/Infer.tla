------------------------------- MODULE Infer -------------------------------
(***************************************************************************)
(* The type of an expression from the types of its parts                   *)
(* (starpls_hir/src/typeck/infer.rs), and whether a diagnostic is added    *)
(* for it.  An expression is the HIR's (Lower.Expr) with its operator, its *)
(* literal (the operator is then its prefix, 0x or none), and for a name   *)
(* the type that its variable has.  Field access and calls are left out.   *)
(***************************************************************************)
EXTENDS Types

\* The largest integer of an i64, a natural number, and of a u64.
CONSTANT MaxInt
MaxUInt == 2 * MaxInt + 1

Inferred(ty) == [ty |-> ty, ok |-> TRUE]
Reported     == [ty |-> UnknownTy, ok |-> FALSE]

Has(lit, field) == field \in DOMAIN lit

\* Int::value: a number that begins with 0 is read as octal, be it 0x or 0o.  What
\* cannot be read, or is no u64, is taken for 0 by the HIR.
from_ast_literal(lit, prefix) == IF prefix # "" \/ lit.int > MaxUInt THEN 0 ELSE lit.int

\* A literal that is no i64 is some integer.
infer_literal(lit, prefix) ==
  CASE Has(lit, "int")    -> LET value == from_ast_literal(lit, prefix)
                             IN  IntTy(IF value <= MaxInt THEN << value >> ELSE <<>>)
    [] Has(lit, "float")  -> FloatTy
    [] Has(lit, "string") -> StringTy(<< lit.string >>)
    [] Has(lit, "bytes")  -> BytesTy
    [] Has(lit, "bool")   -> BoolTy(<< lit.bool >>)
    [] Has(lit, "none")   -> NoneTy

\* Mutant: the type of the first stands for all.
get_first_type(tys) == IF tys = <<>> THEN UnknownTy ELSE normalize(tys[1])

get_common_type(tys) ==
  LET first == normalize(tys[1])
  IN  IF tys # <<>> /\ \A i \in DOMAIN tys : Eq(normalize(tys[i]), first) THEN first ELSE UnknownTy

infer_dict(keys, values, id) ==
  DictTy(IF keys = <<>> THEN UnknownTy ELSE union(keys), get_common_type(values), << id >>)

-----------------------------------------------------------------------------
(***************************************************************************)
(* Operators.                                                              *)
(***************************************************************************)
RECURSIVE check_unary_expr(_, _)
check_unary_expr(ty, op) ==
  LET members == IF Is(ty, "union") THEN [i \in DOMAIN ty.union |-> check_unary_expr(ty.union[i], op)] ELSE <<>>
  IN  CASE op = "not" -> Inferred(BoolTy(<<>>))
        [] op # "not" /\ Is(ty, "int") -> Inferred(IntTy(<<>>))
        [] op = "-" /\ ty = FloatTy -> Inferred(FloatTy)
        [] op # "not" /\ ty \in {UnknownTy, AnyTy} -> Inferred(UnknownTy)
        [] op # "not" /\ Is(ty, "union") /\ (\A i \in DOMAIN members : members[i].ok) -> Inferred(union(Tys(members)))
        [] OTHER -> Reported

\* The sum of two literals is taken in the machine's integers: it wraps in a
\* release build, and panics in a debug build.
Wrapped(n) == IF n > MaxInt THEN n - 2 * (MaxInt + 1) ELSE n

infer_arith(op, lhs, rhs) ==
  LET Both(field) == Is(lhs, field) /\ Is(rhs, field)
      Numbers     == \A ty \in {lhs, rhs} : Is(ty, "int") \/ ty = FloatTy
      Listed(ty)  == \E f \in {"list", "sequence", "iterable"} : Is(ty, f)
      Element(ty) == ty[CHOOSE f \in DOMAIN ty : TRUE]
      Repeats(ty) == ty = BytesTy \/ \E f \in {"string", "list", "tuple", "tupleOf"} : Is(ty, f)
      Repeated(ty) == IF Is(ty, "string") THEN StringTy(<<>>)
                      ELSE IF Is(ty, "tuple") THEN TupleOfTy(union(ty.tuple)) ELSE ty
      Sum(a, b)   == IF a # <<>> /\ b # <<>> THEN << Wrapped(a[1] + b[1]) >> ELSE <<>>
      Joined(a, b) == IF a # <<>> /\ b # <<>> THEN << a[1] \o b[1] >> ELSE <<>>
  IN  CASE op = "+" /\ Both("string") -> Inferred(StringTy(Joined(lhs.string, rhs.string)))
        [] op = "%" /\ Is(lhs, "string") -> Inferred(StringTy(<<>>))
        [] op = "+" /\ lhs = BytesTy /\ rhs = BytesTy -> Inferred(BytesTy)
        [] op = "+" /\ Listed(lhs) /\ Listed(rhs) -> Inferred(ListTy(union(<< Element(lhs), Element(rhs) >>)))
        [] op = "*" /\ Repeats(lhs) /\ Is(rhs, "int") -> Inferred(Repeated(lhs))
        [] op = "*" /\ Is(lhs, "int") /\ Repeats(rhs) -> Inferred(Repeated(rhs))
        [] Both("int") -> Inferred(IntTy(IF op = "+" THEN Sum(lhs.int, rhs.int) ELSE <<>>))
        [] Numbers /\ ~Both("int") -> Inferred(FloatTy)
        [] OTHER -> Reported

infer_bitwise(op, lhs, rhs) ==
  CASE Is(lhs, "int") /\ Is(rhs, "int") -> Inferred(IntTy(<<>>))
    [] op = "|" /\ Is(lhs, "key") /\ Is(rhs, "key") ->
         Inferred(DictTy(union(<< lhs.key, rhs.key >>), union(<< lhs.value, rhs.value >>), <<>>))
    [] OTHER -> Reported

\* Mutant: in is not known for dictionaries.
IsContainer_listed(ty) == ty = BytesTy \/ \E f \in {"list", "tuple", "tupleOf", "string", "sequence"} : Is(ty, f)
IsContainer(ty) == ty = BytesTy \/ \E f \in {"list", "tuple", "tupleOf", "key", "string", "sequence"} : Is(ty, f)
IsFalse(ty)     == ty \in {BoolTy(<<FALSE>>), IntTy(<<0>>), NoneTy, TupleTy(<<>>)}

IsBool(ty)      == Is(ty, "bool") /\ ty.bool # <<>>
infer_or(lhs, rhs) ==
  IF IsBool(lhs) /\ IsBool(rhs) THEN BoolTy(<< lhs.bool[1] \/ rhs.bool[1] >>)
  ELSE IF IsFalse(lhs) THEN rhs ELSE union(<< lhs, rhs >>)
infer_and(lhs, rhs) ==
  IF IsBool(lhs) /\ IsBool(rhs) THEN BoolTy(<< lhs.bool[1] /\ rhs.bool[1] >>)
  ELSE IF IsFalse(lhs) THEN lhs ELSE union(<< lhs, rhs >>)

Arithmetic == {"+", "-", "*", "/", "//", "%"}
Bitwise    == {"&", "|", "^", "<<", ">>"}

infer_binary_expr(op, lhs, rhs) ==
  IF {lhs, rhs} \cap {AnyTy, UnknownTy} # {} THEN Inferred(UnknownTy)
  ELSE CASE op \in Arithmetic -> infer_arith(op, lhs, rhs)
         [] op \in Bitwise    -> infer_bitwise(op, lhs, rhs)
         [] op \in {"in", "not in"} -> [ty |-> BoolTy(<<>>), ok |-> IsContainer(rhs)]
         [] op = "or"  -> Inferred(infer_or(lhs, rhs))
         [] op = "and" -> Inferred(infer_and(lhs, rhs))
         [] op \in {"==", "!=", "<", ">", "<=", ">="} -> Inferred(BoolTy(<<>>))

-----------------------------------------------------------------------------
(***************************************************************************)
(* Elements.                                                               *)
(***************************************************************************)

\* By what type each kind may be indexed, and what it then gives.
infer_tuple_index(tys, index) ==
  IF ~Is(index, "int") THEN Reported
  ELSE IF index.int = <<>> THEN Inferred(union(tys))
  ELSE IF index.int[1] + 1 \in DOMAIN tys THEN Inferred(tys[index.int[1] + 1])
  ELSE Reported

infer_index(lhs, index) ==
  LET By(expected, value) == IF assign_tys(index, expected) THEN Inferred(value) ELSE Reported
      int == IntTy(<<>>)
  IN  CASE Is(lhs, "tuple")   -> infer_tuple_index(lhs.tuple, index)
        [] Is(lhs, "tupleOf") -> By(int, lhs.tupleOf)
        [] Is(lhs, "list")    -> By(int, lhs.list)
        [] Is(lhs, "key")     -> By(lhs.key, lhs.value)
        [] Is(lhs, "string")  -> By(int, StringTy(<<>>))
        [] lhs \in {BytesTy, RangeTy} -> By(int, int)
        [] lhs \in {AnyTy, UnknownTy}     -> Inferred(UnknownTy)
        [] OTHER -> Reported

infer_slice(lhs, bounds) ==
  LET sliced == CASE Is(lhs, "string")   -> Inferred(StringTy(<<>>))
                  [] lhs = BytesTy       -> Inferred(BytesTy)
                  [] Is(lhs, "tuple")    -> Inferred(union(lhs.tuple))
                  [] Is(lhs, "tupleOf")  -> Inferred(ListTy(lhs.tupleOf))
                  [] lhs = RangeTy       -> Inferred(ListTy(IntTy(<<>>)))
                  [] Is(lhs, "list")     -> Inferred(lhs)
                  [] Is(lhs, "sequence") -> Inferred(ListTy(lhs.sequence))
                  [] lhs \in {UnknownTy, AnyTy} -> Inferred(UnknownTy)
                  [] OTHER -> Reported
      IsBound(ty) == assign_tys(ty, IntTy(<<>>)) \/ assign_tys(ty, NoneTy)
  IN  [sliced EXCEPT !.ok = @ /\ \A i \in DOMAIN bounds : IsBound(bounds[i])]

\* What a for clause gives its variables.
known(ty) == IF is_unbound(ty) THEN UnknownTy ELSE ty

sub_ty(source) ==
  CASE \E f \in {"list", "tupleOf", "iterable", "sequence"} : Is(source, f) -> Inferred(source[CHOOSE f \in DOMAIN source : TRUE])
    [] Is(source, "tuple") -> Inferred(union(source.tuple))
    [] Is(source, "key")   -> Inferred(source.key)
    [] source \in {AnyTy, UnknownTy} -> Inferred(source)
    [] source = RangeTy    -> Inferred(IntTy(<<>>))
    [] OTHER -> Reported

\* The type of the i-th of n variables.
assign_exprs_source_ty(source, n, i) ==
  CASE Is(source, "list")    -> Inferred(source.list)
    [] Is(source, "tupleOf") -> Inferred(source.tupleOf)
    [] Is(source, "tuple")   -> [ty |-> IF i \in DOMAIN source.tuple THEN source.tuple[i] ELSE UnknownTy,
                                 ok |-> Len(source.tuple) = n]
    [] source \in {AnyTy, UnknownTy} -> Inferred(UnknownTy)
    [] OTHER -> Reported

\* [x for .., x in iterable], with n variables.
infer_comp(iterable, n) ==
  LET item == sub_ty(known(iterable))
      last == assign_exprs_source_ty(item.ty, n, n)
      x    == IF n = 1 \/ ~item.ok THEN item ELSE last
  IN  [x EXCEPT !.ty = ListTy(@)]

-----------------------------------------------------------------------------
RECURSIVE infer_expr(_)
infer_expr(e) ==
  LET tys == [i \in DOMAIN e.parts |-> infer_expr(e.parts[i]).ty]
      From(first) == [i \in 1..(Len(tys) + 2 - first) \div 2 |-> tys[first + 2 * (i - 1)]]
  IN  CASE e.is = "Name"     -> [ty |-> e.type, ok |-> ~is_possibly_unbound(e.type)]
        [] e.is = "Literal"  -> Inferred(infer_literal(e.literal, e.op))
        [] e.is = "List"     -> Inferred(ListTy(get_common_type(tys)))
        [] e.is = "Tuple"    -> Inferred(TupleTy(tys))
        [] e.is = "Dict"     -> Inferred(infer_dict(From(1), From(2), e.id))
        [] e.is = "Unary"    -> check_unary_expr(tys[1], e.op)
        [] e.is = "Binary"   -> infer_binary_expr(e.op, tys[1], tys[2])
        [] e.is = "Index"    -> infer_index(tys[1], tys[2])
        [] e.is = "Slice"    -> infer_slice(tys[1], Tail(tys))
        [] e.is = "If"       -> Inferred(union(<< tys[1], tys[3] >>))
        [] e.is = "ListComp" -> infer_comp(tys[1], e.targets)

(***************************************************************************)
(* Whether what has the type ty may be assigned to a variable that a       *)
(* comment gives a type.                                                   *)
(***************************************************************************)
Assigns(ty, ref) ==
  LET expected == resolve_type_ref(ref)
  IN  expected.errors = 0 => assign_tys(known(ty), expected.ty)
=============================================================================
