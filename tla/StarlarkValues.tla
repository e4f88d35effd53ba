-------------------------- MODULE StarlarkValues --------------------------
(***************************************************************************)
(* What an expression evaluates to by the rules of Starlark, and which     *)
(* values a type stands for: the reference of Types and Infer.  A value is *)
(* a record whose field tells its kind; what the types do not tell apart   *)
(* is left out: one float, and an integer for the bits of two.             *)
(***************************************************************************)
EXTENDS Types

Fail  == [fail |-> 0]
AnInt(n)  == [int |-> n]
ABool(b) == [bool |-> b]
AString(chars) == [string |-> chars]
AList(items)   == [list |-> items]
ATuple(items)  == [tuple |-> items]
ADict(entries) == [dict |-> entries]
NoneValue  == [none |-> 0]
Float      == [float |-> 0]
LabelValue == [label |-> 0]
ARange(n)   == [range |-> [i \in 1..n |-> AnInt(i - 1)]]
ABytes(items) == [bytes |-> items]

IsA(v, kinds) == DOMAIN v \cap kinds # {}
KindOf(v)     == CHOOSE kind \in DOMAIN v : TRUE
ItemsOf(v)    == v[KindOf(v)]

\* What can be iterated over, and indexed and sliced by position.
Iterates(v) == IsA(v, {"list", "tuple", "range", "dict"})
Elements(v) == IF IsA(v, {"dict"}) THEN [i \in DOMAIN v.dict |-> v.dict[i][1]] ELSE ItemsOf(v)
ByPosition  == {"list", "tuple", "range", "string", "bytes"}

RECURSIVE Hashable(_)
Hashable(v) == /\ ~IsA(v, {"list", "dict"})
               /\ IsA(v, {"tuple"}) => \A i \in DOMAIN v.tuple : Hashable(v.tuple[i])

Truth(v) == CASE IsA(v, {"bool"}) -> v.bool
              [] IsA(v, {"int"})  -> v.int # 0
              [] IsA(v, {"none"}) -> FALSE
              [] IsA(v, {"float", "label"}) -> TRUE
              [] IsA(v, ByPosition \cup {"dict"}) -> ItemsOf(v) # <<>>

-----------------------------------------------------------------------------
Negate(n) == 0 - n
Quotient(a, b)  == IF b > 0 THEN a \div b ELSE Negate(a) \div Negate(b)
Remainder(a, b) == a - b * Quotient(a, b)

Arith(op, a, b) ==
  CASE op = "+" -> AnInt(a + b)
    [] op = "-" -> AnInt(a - b)
    [] op = "*" -> AnInt(a * b)
    [] op = "/" -> IF b = 0 THEN Fail ELSE Float
    [] op = "//" -> IF b = 0 THEN Fail ELSE AnInt(Quotient(a, b))
    [] op = "%" -> IF b = 0 THEN Fail ELSE AnInt(Remainder(a, b))

Repeat(v, n) == [v EXCEPT ![KindOf(v)] = FlattenSeq([i \in 1..n |-> @])]

Arithmetical(op, a, b) ==
  CASE IsA(a, {"int"}) /\ IsA(b, {"int"}) -> Arith(op, a.int, b.int)
    [] IsA(a, {"int", "float"}) /\ IsA(b, {"int", "float"}) /\ ~(IsA(a, {"int"}) /\ IsA(b, {"int"})) ->
         IF b = AnInt(0) /\ op \in {"/", "//", "%"} THEN Fail ELSE Float
    [] op = "+" /\ KindOf(a) = KindOf(b) /\ IsA(a, {"string", "bytes", "list", "tuple"}) ->
         [a EXCEPT ![KindOf(a)] = @ \o ItemsOf(b)]
    [] op = "*" /\ IsA(a, ByPosition \ {"range"}) /\ IsA(b, {"int"}) -> Repeat(a, b.int)
    [] op = "*" /\ IsA(a, {"int"}) /\ IsA(b, ByPosition \ {"range"}) -> Repeat(b, a.int)
    [] op = "%" /\ IsA(a, {"string"}) -> a
    [] OTHER -> Fail

Put(entries, entry) ==
  IF \E i \in DOMAIN entries : entries[i][1] = entry[1]
  THEN [i \in DOMAIN entries |-> IF entries[i][1] = entry[1] THEN entry ELSE entries[i]]
  ELSE Append(entries, entry)

IsIn(a, b) ==
  CASE Iterates(b) -> ABool(a \in ToSet(Elements(b)))
    [] IsA(b, {"string", "bytes"}) /\ KindOf(a) = KindOf(b) ->
         ABool(\E i \in 1..Len(ItemsOf(b)) + 1 : SubSeq(ItemsOf(b), i, i + Len(ItemsOf(a)) - 1) = ItemsOf(a))
    [] IsA(b, {"bytes"}) /\ IsA(a, {"int"}) -> ABool(a \in ToSet(b.bytes))
    [] OTHER -> Fail

Operate(op, a, b) ==
  CASE op \in {"+", "-", "*", "/", "//", "%"} -> Arithmetical(op, a, b)
    [] op = "|" -> IF IsA(a, {"int"}) /\ IsA(b, {"int"}) THEN a
                   ELSE IF IsA(a, {"dict"}) /\ IsA(b, {"dict"}) THEN ADict(FoldLeft(Put, a.dict, b.dict))
                   ELSE Fail
    [] op = "in" -> IsIn(a, b)
    [] op = "==" -> ABool(a = b)
    [] op = "or"  -> IF Truth(a) THEN a ELSE b
    [] op = "and" -> IF Truth(a) THEN b ELSE a

Apply(op, v) ==
  CASE op = "not" -> ABool(~Truth(v))
    [] op = "-" /\ IsA(v, {"int"})   -> AnInt(Negate(v.int))
    [] op = "-" /\ IsA(v, {"float"}) -> v
    [] op = "~" /\ IsA(v, {"int"})   -> AnInt(Negate(v.int) - 1)
    [] OTHER -> Fail

-----------------------------------------------------------------------------
Item(v, i) == IF IsA(v, {"string"}) THEN AString(<< v.string[i] >>) ELSE ItemsOf(v)[i]

Index(v, index) ==
  IF IsA(v, {"dict"})
  THEN IF index \in ToSet(Elements(v)) THEN v.dict[CHOOSE i \in DOMAIN v.dict : v.dict[i][1] = index][2] ELSE Fail
  ELSE IF IsA(v, ByPosition) /\ IsA(index, {"int"})
  THEN LET i == IF index.int < 0 THEN index.int + Len(ItemsOf(v)) ELSE index.int
       IN  IF i + 1 \in DOMAIN ItemsOf(v) THEN Item(v, i + 1) ELSE Fail
  ELSE Fail

Slice(v, bounds) ==
  LET Bound(i, default) ==
        IF i > Len(bounds) \/ bounds[i] = NoneValue THEN default
        ELSE IF bounds[i].int < 0 THEN bounds[i].int + Len(ItemsOf(v)) ELSE bounds[i].int
  IN  IF ~IsA(v, ByPosition) \/ \E i \in DOMAIN bounds : ~IsA(bounds[i], {"int", "none"}) THEN Fail
      ELSE LET start == IF Bound(1, 0) < 0 THEN 0 ELSE Bound(1, 0)
               end   == IF Bound(2, Len(ItemsOf(v))) < Len(ItemsOf(v)) THEN Bound(2, Len(ItemsOf(v))) ELSE Len(ItemsOf(v))
           IN  [v EXCEPT ![KindOf(v)] = SubSeq(@, start + 1, end)]

\* [x for .., x in v]
Comprehend(v, n) ==
  LET items == Elements(v)
      Unpacks(item) == n = 1 \/ (Iterates(item) /\ Len(Elements(item)) = n)
  IN  IF ~Iterates(v) THEN Fail
      ELSE IF \E i \in DOMAIN items : ~Unpacks(items[i]) THEN Fail
      ELSE AList([i \in DOMAIN items |-> IF n = 1 THEN items[i] ELSE Elements(items[i])[n]])

\* Names have the values that env gives their uses.  Where values is not
\* needed, the part is not evaluated.
RECURSIVE Evaluate(_, _)
Evaluate(e, env) ==
  LET V(i) == Evaluate(e.parts[i], env)
      all  == [i \in DOMAIN e.parts |-> V(i)]
      keys == {i \in DOMAIN all : i % 2 = 1}
  IN  IF e.is = "Name" THEN env[e.id]
      ELSE IF e.is = "Literal" THEN e.literal
      ELSE IF e.is = "If"
        THEN IF V(2) = Fail THEN Fail ELSE IF Truth(V(2)) THEN V(1) ELSE V(3)
      ELSE IF e.is = "Binary" /\ e.op \in {"and", "or"} /\ V(1) # Fail /\ Truth(V(1)) = (e.op = "or") THEN V(1)
      ELSE IF \E i \in DOMAIN all : all[i] = Fail THEN Fail
      ELSE CASE e.is = "List"   -> AList(all)
             [] e.is = "Tuple"  -> ATuple(all)
             [] e.is = "Unary"  -> Apply(e.op, all[1])
             [] e.is = "Binary" -> Operate(e.op, all[1], all[2])
             [] e.is = "Index"  -> Index(all[1], all[2])
             [] e.is = "Slice"  -> Slice(all[1], Tail(all))
             [] e.is = "ListComp" -> Comprehend(all[1], e.targets)
             [] e.is = "Dict"   ->
                  IF \E i \in keys : ~Hashable(all[i]) \/ \E j \in keys : i < j /\ all[i] = all[j] THEN Fail
                  ELSE ADict([i \in 1..Len(all) \div 2 |-> << all[2 * i - 1], all[2 * i] >>])

-----------------------------------------------------------------------------
(***************************************************************************)
(* The values of a type that was inferred.                                 *)
(***************************************************************************)
RECURSIVE HasType(_, _)
HasType(v, ty) ==
  LET All(items, t) == \A i \in DOMAIN items : HasType(items[i], t)
      Literal(kind) == IsA(v, {kind}) /\ (ty[kind] # <<>> => v[kind] = ty[kind][1])
  IN  CASE ty \in {UnknownTy, AnyTy} -> TRUE
        [] ty \in {NeverTy, UnboundTy} -> FALSE
        [] ty = NoneTy -> v = NoneValue
        [] ty = LabelTy -> v = LabelValue
        [] ty \in {FloatTy, BytesTy, RangeTy} -> IsA(v, {ty.plain})
        [] Is(ty, "int")    -> Literal("int")
        [] Is(ty, "bool")   -> Literal("bool")
        [] Is(ty, "string") -> Literal("string")
        [] Is(ty, "list")   -> IsA(v, {"list"}) /\ All(v.list, ty.list)
        [] Is(ty, "tupleOf") -> IsA(v, {"tuple"}) /\ All(v.tuple, ty.tupleOf)
        [] Is(ty, "tuple")  -> /\ IsA(v, {"tuple"}) /\ Len(v.tuple) = Len(ty.tuple)
                               /\ \A i \in DOMAIN v.tuple : HasType(v.tuple[i], ty.tuple[i])
        [] Is(ty, "key")    -> /\ IsA(v, {"dict"})
                               /\ \A i \in DOMAIN v.dict : HasType(v.dict[i][1], ty.key) /\ HasType(v.dict[i][2], ty.value)
        [] Is(ty, "iterable") -> Iterates(v) /\ All(Elements(v), ty.iterable)
        [] Is(ty, "sequence") -> IsA(v, {"list", "tuple", "range"}) /\ All(Elements(v), ty.sequence)
        [] Is(ty, "union")  -> \E i \in DOMAIN ty.union : HasType(v, ty.union[i])

(***************************************************************************)
(* The values that a type comment allows.  Loosely, a string may stand for *)
(* a label and a label for a string, and 0 and 1 for booleans.             *)
(***************************************************************************)
RECURSIVE Fits(_, _, _)
Fits(v, ref, loosely) ==
  LET Arg(item, i) == i \in DOMAIN ref.args => Fits(item, ref.args[i], loosely)
      All(i)       == \A k \in DOMAIN Elements(v) : Arg(Elements(v)[k], i)
      Variable     == ~ref.generic \/ (Len(ref.args) = 2 /\ ref.args[2].is = "Ellipsis")
      Named(name)  ==
        CASE name = "Any"   -> TRUE
          [] name = "bool"  -> IsA(v, {"bool"}) \/ (loosely /\ v \in {AnInt(0), AnInt(1)})
          [] name \in {"string", "Label"} ->
               IF loosely THEN IsA(v, {"string", "label"}) ELSE IsA(v, {IF name = "Label" THEN "label" ELSE name})
          [] name \in {"int", "float", "bytes", "range"} -> IsA(v, {name})
          [] name = "None"  -> v = NoneValue
          [] name = "list"  -> IsA(v, {"list"}) /\ All(1)
          [] name = "Iterable" -> Iterates(v) /\ All(1)
          [] name = "Sequence" -> IsA(v, {"list", "tuple", "range"}) /\ All(1)
          [] name = "dict"  -> IsA(v, {"dict"}) /\ \A i \in DOMAIN v.dict : Arg(v.dict[i][1], 1) /\ Arg(v.dict[i][2], 2)
          [] name = "tuple" -> /\ IsA(v, {"tuple"})
                               /\ IF Variable THEN All(1)
                                  ELSE /\ Len(v.tuple) = Len(ref.args)
                                       /\ \A i \in DOMAIN v.tuple : Arg(v.tuple[i], i)
          [] name = "Union" -> \E i \in DOMAIN ref.args : Fits(v, ref.args[i], loosely)
  IN  CASE ref.is = "Path"  -> Named(Head(ref.segments))
        [] ref.is = "Name"  -> v = NoneValue
        [] ref.is = "Union" -> \E i \in DOMAIN ref.types : Fits(v, ref.types[i], loosely)
=============================================================================
