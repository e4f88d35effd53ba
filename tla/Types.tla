------------------------------- MODULE Types -------------------------------
(***************************************************************************)
(* Types (starpls_hir/src/typeck.rs): what a type comment names, what a    *)
(* union keeps, and which types may be assigned to which.  A type is a     *)
(* record whose fields tell its kind, with an optional value of a literal  *)
(* as a sequence of at most one.  Types of Bazel but Label, functions and  *)
(* providers are left out.                                                 *)
(***************************************************************************)
EXTENDS Integers, TLC, SequencesExt

Plain(kind) == [plain |-> kind]
UnboundTy == Plain("Unbound")
UnknownTy == Plain("Unknown")
AnyTy     == Plain("Any")
NeverTy   == Plain("Never")
NoneTy    == Plain("None")
FloatTy == Plain("float")
BytesTy == Plain("bytes")
RangeTy == Plain("range")
LabelTy   == Plain("Label")

BoolTy(value)   == [bool |-> value]
IntTy(value)    == [int |-> value]
StringTy(value) == [string |-> value]
ListTy(ty)      == [list |-> ty]
TupleTy(tys)    == [tuple |-> tys]
TupleOfTy(ty)   == [tupleOf |-> ty]

\* literal is the expression that a dictionary is known to come from.
DictTy(key, value, literal) == [key |-> key, value |-> value, literal |-> literal]

Is(ty, field) == field \in DOMAIN ty

-----------------------------------------------------------------------------
(***************************************************************************)
(* Unions.                                                                 *)
(***************************************************************************)
normalize(ty) == IF Is(ty, "bool") THEN BoolTy(<<>>)
                 ELSE IF Is(ty, "int") THEN IntTy(<<>>)
                 ELSE IF Is(ty, "string") THEN StringTy(<<>>)
                 ELSE ty

RECURSIVE Eq(_, _)
Eq(ty1, ty2) ==
  \/ Is(ty1, "key") /\ Is(ty2, "key") /\ ty1.key = ty2.key /\ ty1.value = ty2.value
  \/ /\ Is(ty1, "union") /\ Is(ty2, "union") /\ Len(ty1.union) = Len(ty2.union)
     /\ \A i \in DOMAIN ty1.union : \E j \in DOMAIN ty2.union : Eq(ty1.union[i], ty2.union[j])
  \/ ty1 = ty2

\* The members that may be in the union of tys: none is a union, none is Never.
Flat(tys) ==
  LET Members(ty) == IF Is(ty, "union") THEN ty.union ELSE IF ty = NeverTy THEN <<>> ELSE << ty >>
  IN  FlattenSeq([i \in DOMAIN tys |-> Members(tys[i])])

\* Those that are equal to none before them.
Unique(tys) ==
  LET kept == SelectSeq([i \in DOMAIN tys |-> i], LAMBDA i : ~\E j \in 1..i - 1 : Eq(tys[i], tys[j]))
  IN  [k \in DOMAIN kept |-> tys[kept[k]]]

OneOf(tys) ==
  CASE Len(tys) = 0 -> NeverTy
    [] Len(tys) = 1 -> tys[1]
    [] Len(tys) > 1 -> [union |-> tys]

\* Mutant: a union keeps the first of its members only.
union_of_first(tys) == IF tys = <<>> THEN NeverTy ELSE normalize(tys[1])

Normalized(tys) == [i \in DOMAIN tys |-> normalize(tys[i])]
union(tys)      == OneOf(Unique(Normalized(Flat(tys))))

is_unbound(ty)          == ty = UnboundTy
is_possibly_unbound(ty) == is_unbound(ty) \/ (Is(ty, "union") /\ UnboundTy \in ToSet(ty.union))

-----------------------------------------------------------------------------
(***************************************************************************)
(* The type that a comment names, and how many errors are in it.  ref is   *)
(* the HIR's: a path of one segment with its arguments, if generic, a      *)
(* union, None, or an ellipsis.                                            *)
(***************************************************************************)
NamedTypes ==
  ("Any" :> AnyTy) @@ ("Unknown" :> UnknownTy) @@ ("None" :> NoneTy) @@ ("bool" :> BoolTy(<<>>))
  @@ ("int" :> IntTy(<<>>)) @@ ("float" :> FloatTy) @@ ("string" :> StringTy(<<>>))
  @@ ("bytes" :> BytesTy) @@ ("range" :> RangeTy) @@ ("Label" :> LabelTy)

Without(ty) == [ty |-> ty, errors |-> 0]
Tys(all)    == [i \in DOMAIN all |-> all[i].ty]
Errors(all) == FoldLeft(LAMBDA n, r : n + r.errors, 0, all)

RECURSIVE resolve_type_ref(_)
ResolveAll(refs) == [i \in DOMAIN refs |-> resolve_type_ref(refs[i])]

resolve_single_arg_type_constructor(args, kind) ==
  LET first == IF args = <<>> THEN Without(UnknownTy) ELSE resolve_type_ref(args[1])
  IN  [ty |-> (kind :> first.ty), errors |-> first.errors + IF Len(args) > 1 THEN 1 ELSE 0]

resolve_dict(args) ==
  LET all == ResolveAll(SubSeq(args, 1, 2))
  IN  IF Len(args) < 2 THEN Without(DictTy(AnyTy, AnyTy, <<>>))
      ELSE [ty |-> DictTy(all[1].ty, all[2].ty, <<>>), errors |-> Errors(all)]

resolve_tuple(generic, args) ==
  LET all == ResolveAll(args)
  IN  IF ~generic THEN Without(TupleOfTy(UnknownTy))
      ELSE IF Len(args) = 2 /\ args[2].is = "Ellipsis"
        THEN [ty |-> TupleOfTy(all[1].ty), errors |-> all[1].errors]
      ELSE [ty |-> TupleTy(Tys(all)), errors |-> Errors(all)]

resolve_path(ref) ==
  LET name == Head(ref.segments)
      args == ref.args
      UnionOf(refs) == LET all == ResolveAll(refs) IN [ty |-> union(Tys(all)), errors |-> Errors(all)]
  IN  CASE name \in DOMAIN NamedTypes -> Without(NamedTypes[name])
        [] name = "list"     -> resolve_single_arg_type_constructor(args, "list")
        [] name = "Iterable" -> resolve_single_arg_type_constructor(args, "iterable")
        [] name = "Sequence" -> resolve_single_arg_type_constructor(args, "sequence")
        [] name = "dict"     -> resolve_dict(args)
        [] name = "tuple"    -> resolve_tuple(ref.generic, args)
        [] name = "Union"    -> UnionOf(args)
        [] name \notin DOMAIN NamedTypes \cup {"list", "Iterable", "Sequence", "dict", "tuple", "Union"} ->
             [ty |-> UnknownTy, errors |-> 1]

resolve_type_ref(ref) ==
  CASE ref.is = "Path"     -> resolve_path(ref)
    [] ref.is = "Name"     -> Without(NoneTy)
    [] ref.is = "Union"    -> LET all == ResolveAll(ref.types)
                              IN  [ty |-> union(Tys(all)), errors |-> Errors(all)]
    [] ref.is = "Ellipsis" -> [ty |-> UnknownTy, errors |-> 1]
    [] ref.is = "Unknown"  -> Without(UnknownTy)

-----------------------------------------------------------------------------
(***************************************************************************)
(* Assignability.                                                          *)
(***************************************************************************)

\* The kinds with one argument, and to which of them each may be assigned.
Covariant == ({"list"} \X {"list", "iterable", "sequence"}) \cup ({"tupleOf"} \X {"tupleOf", "iterable", "sequence"})
             \cup ({"sequence"} \X {"list", "iterable", "sequence"}) \cup {<<"iterable", "iterable">>}

RECURSIVE assign_tys(_, _)

\* Mutant: the types of keys are not looked at.
assign_dict_values(source, target) == assign_tys(source.value, target.value)

assign_dict(source, target) ==
  assign_tys(source.key, target.key) /\ assign_tys(source.value, target.value)

assign_tys(source, target) ==
  LET Both(field) == Is(source, field) /\ Is(target, field)
      AnyOf(tys, Assigns(_)) == \E i \in DOMAIN tys : Assigns(tys[i])
      ToTarget(ty) == IF Is(target, "union") THEN AnyOf(target.union, LAMBDA t : assign_tys(ty, t))
                      ELSE assign_tys(ty, target)
  IN  \/ source = target
      \/ {source, target} \cap {AnyTy, UnknownTy} # {}
      \/ \E c \in Covariant : Is(source, c[1]) /\ Is(target, c[2]) /\ assign_tys(source[c[1]], target[c[2]])
      \/ \E to \in {"iterable", "sequence", "tupleOf"} :
           /\ Is(source, "tuple") /\ Is(target, to)
           /\ \A i \in DOMAIN source.tuple : assign_tys(source.tuple[i], target[to])
      \/ /\ Both("tuple") /\ Len(source.tuple) = Len(target.tuple)
         /\ \A i \in DOMAIN source.tuple : assign_tys(source.tuple[i], target.tuple[i])
      \/ Both("key") /\ assign_dict(source, target)
      \/ Is(source, "string") /\ target = LabelTy
      \/ source = LabelTy /\ Is(target, "string")
      \/ Is(source, "int") /\ source.int \in {<<0>>, <<1>>} /\ Is(target, "bool")
      \/ Both("union") /\ \A i \in DOMAIN source.union : ToTarget(source.union[i])
      \/ Is(target, "union") /\ ~Is(source, "union") /\ ToTarget(source)
      \/ Is(source, "union") /\ ~Is(target, "union") /\ AnyOf(source.union, ToTarget)
      \/ Both("string") \/ Both("bool") \/ Both("int")
=============================================================================
