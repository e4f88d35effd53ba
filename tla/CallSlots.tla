----------------------------- MODULE CallSlots -----------------------------
(***************************************************************************)
(* The arguments of a call and the parameters of a function of the file:   *)
(* Slots (starpls_hir typeck/call.rs), the diagnostics that inference      *)
(* draws from them and the parameter that signature help points at         *)
(* (typeck/infer.rs).                                                      *)
(***************************************************************************)
EXTENDS Naturals, Sequences, FiniteSets, SequencesExt

CONSTANT Names

Param == [kind : {"simple"}, name : Names, optional : BOOLEAN]
         \cup [kind : {"args", "bare", "kwargs"}]
Arg   == [kind : {"simple", "unpacked_list", "unpacked_dict"}]
         \cup [kind : {"keyword"}, name : Names]

Simple(p) == p.kind = "simple"

First(K) == CHOOSE k \in K : \A j \in K : k <= j

(***************************************************************************)
(* A slot has the providers of its parameter; a slot without is Missing,   *)
(* and only those of *args and **kwargs have more than one.                *)
(***************************************************************************)
Single(i)     == [kind |-> "single", arg |-> i]
ArgsList(i)   == [kind |-> "args_list", arg |-> i]
KwargsDict(i) == [kind |-> "kwargs_dict", arg |-> i]

\* Mutant: a parameter after * or *args takes positional arguments.
AnySlot(params, k) ==
  [param |-> params[k], positional |-> Simple(params[k]), providers |-> {}]

\* What follows * or *args is given by name.
Slot(params, k) ==
  [param |-> params[k],
   positional |-> Simple(params[k]) /\ \A j \in 1..k : params[j].kind \notin {"args", "bare"},
   providers |-> {}]

\* Nothing follows **kwargs.
Slots(params) ==
  LET ends == {k \in DOMAIN params : params[k].kind = "kwargs"}
  IN  [k \in 1..(IF ends = {} THEN Len(params) ELSE First(ends)) |-> Slot(params, k)]

TakesPositional(slot) ==
  \/ slot.positional /\ slot.providers = {}
  \/ slot.param.kind = "args"

\* Mutant: a keyword argument goes to its parameter even if that has a value.
TakesAnyKeyword(slot, name) ==
  \/ slot.param.kind = "kwargs"
  \/ Simple(slot.param) /\ slot.param.name = name

\* A value that ** may hold gives way to one that is written.
TakesKeyword(slot, name) ==
  \/ slot.param.kind = "kwargs"
  \/ /\ Simple(slot.param) /\ slot.param.name = name
     /\ \A p \in slot.providers : p.kind = "kwargs_dict"

Provide(slot, provider) ==
  [slot EXCEPT !.providers = IF Simple(slot.param) THEN {provider} ELSE @ \cup {provider}]

(***************************************************************************)
(* assign_args: the slots, the unexpected arguments and the active slot, 0 *)
(* while there is none.  active_arg is an argument's index, or one more    *)
(* than the last has.                                                      *)
(***************************************************************************)
AssignOne(st, i, K, active_arg) ==
  IF K = {} THEN [st EXCEPT !.errors = @ \cup {i}]
  ELSE [st EXCEPT !.slots[First(K)] = Provide(@, Single(i)),
                  !.active = IF i = active_arg /\ @ = 0 THEN First(K) ELSE @]

PositionalSlots(st) == {k \in DOMAIN st.slots : TakesPositional(st.slots[k])}

AssignPositional(st, arg, i, active_arg) ==
  CASE arg.kind = "simple"        -> AssignOne(st, i, PositionalSlots(st), active_arg)
    [] arg.kind = "unpacked_list" ->
         [st EXCEPT !.slots = [k \in DOMAIN @ |-> IF TakesPositional(@[k])
                                                  THEN Provide(@[k], ArgsList(i)) ELSE @[k]]]
    [] OTHER -> st

KeywordSlots(st, name) == {k \in DOMAIN st.slots : TakesKeyword(st.slots[k], name)}

AssignKeyword(st, arg, i, active_arg) ==
  CASE arg.kind = "keyword" ->
         AssignOne(st, i, KeywordSlots(st, arg.name), active_arg)
    [] arg.kind = "unpacked_dict" ->
         [st EXCEPT !.slots = [k \in DOMAIN @ |-> IF @[k].param.kind \in {"simple", "kwargs"}
                                                  THEN Provide(@[k], KwargsDict(i)) ELSE @[k]]]
    [] OTHER -> st

NoneAssigned(params) == [slots |-> Slots(params), errors |-> {}, active |-> 0]

\* A pass over the arguments.
ForEach(args, Assign(_, _), start) ==
  LET after[i \in 0..Len(args)] == IF i = 0 THEN start ELSE Assign(after[i - 1], i)
  IN  after[Len(args)]

\* Mutant: keyword arguments are assigned as they are met.
AssignInOrder(params, args, active_arg) ==
  ForEach(args, LAMBDA st, i : AssignKeyword(AssignPositional(st, args[i], i, active_arg),
                                             args[i], i, active_arg),
          NoneAssigned(params))

AllPositional(params, args, active_arg) ==
  ForEach(args, LAMBDA st, i : AssignPositional(st, args[i], i, active_arg), NoneAssigned(params))

AllAssigned(params, args, active_arg) ==
  ForEach(args, LAMBDA st, i : AssignKeyword(st, args[i], i, active_arg),
          AllPositional(params, args, active_arg))

\* An argument about to be written is taken for a positional one.
AssignArgs(params, args, active_arg) ==
  LET st   == AllAssigned(params, args, active_arg)
      fake == PositionalSlots(st)
  IN  IF active_arg = Len(args) + 1 /\ st.active = 0 /\ fake # {}
      THEN [st EXCEPT !.active = First(fake)] ELSE st

-----------------------------------------------------------------------------
\* infer_expr of a call: the arguments and the parameters it complains of.
Named(arg) == arg.kind \in {"keyword", "unpacked_dict"}

Misplaced(args) ==
  {i \in DOMAIN args : ~Named(args[i]) /\ \E j \in 1..i - 1 : Named(args[j])}

MissingParams(slots) ==
  {k \in DOMAIN slots : /\ Simple(slots[k].param) /\ ~slots[k].param.optional
                        /\ slots[k].providers = {}}

Accepted(params, args) ==
  LET st == AssignArgs(params, args, 0)
  IN  Misplaced(args) = {} /\ st.errors = {} /\ MissingParams(st.slots) = {}

\* resolve_call_expr_active_param, 0 for none.
ActiveParam(params, args, active_arg) ==
  LET keyword == {i \in DOMAIN args : args[i].kind = "keyword"}
      dict    == {i \in DOMAIN args : args[i].kind = "unpacked_dict"}
      Late(i) == /\ ~Named(args[i])
                 /\ \/ \E j \in keyword : j < i
                    \/ i = active_arg /\ \E j \in dict : j < i
  IN  IF \/ \E i \in DOMAIN args : Late(i)
         \/ active_arg = Len(args) + 1 /\ keyword \cup dict # {}
      THEN 0 ELSE AssignArgs(params, args, active_arg).active

-----------------------------------------------------------------------------
(***************************************************************************)
(* How a call binds when it runs (PEP 3102), with n positional arguments   *)
(* and the names that each argument gives.                                 *)
(***************************************************************************)
WellFormed(params) ==
  /\ \A j, k \in DOMAIN params : j < k =>
       /\ params[j].kind # "kwargs"
       /\ params[j].kind \in {"args", "bare"} => params[k].kind \notin {"args", "bare"}
       /\ Simple(params[j]) /\ Simple(params[k]) => params[j].name # params[k].name

Has(params, kind) == \E k \in DOMAIN params : params[k].kind = kind

ByPosition(params) ==
  {k \in DOMAIN params : Simple(params[k]) /\ \A j \in 1..k : params[j].kind \in {"simple", "kwargs"}}

ParamOf(params, name) == {k \in DOMAIN params : Simple(params[k]) /\ params[k].name = name}

Binds(params, n, names) ==
  LET filled == {k \in ByPosition(params) : k <= n}
      given  == {k \in DOMAIN params : \E i \in DOMAIN names : \E name \in names[i] : k \in ParamOf(params, name)}
  IN  /\ n <= Cardinality(ByPosition(params)) \/ Has(params, "args")
      /\ \A i, j \in DOMAIN names : i # j => names[i] \cap names[j] = {}
      /\ filled \cap given = {}
      /\ \A i \in DOMAIN names : \A name \in names[i] : ParamOf(params, name) # {} \/ Has(params, "kwargs")
      /\ \A k \in DOMAIN params : Simple(params[k]) => params[k].optional \/ k \in filled \cup given

Lists(args) == {i \in DOMAIN args : args[i].kind = "unpacked_list"}
Dicts(args) == {i \in DOMAIN args : args[i].kind = "unpacked_dict"}

\* The names of each argument, with those that the unpacked dictionaries hold.
GivenNames(args, held) ==
  [i \in DOMAIN args |-> CASE args[i].kind = "unpacked_dict" -> held[i]
                           [] args[i].kind = "keyword"       -> {args[i].name}
                           [] OTHER                          -> {}]

Place(args, i) == Cardinality({j \in 1..i : args[j].kind = "simple"})

\* Some contents of the unpacked arguments bind.  Lists that hold more than the
\* function has parameters bind as those do that hold as much.
CanBind(params, args) ==
  /\ Misplaced(args) = {}
  /\ \E more \in IF Lists(args) = {} THEN {0} ELSE 0..Len(params) :
     \E held \in [Dicts(args) -> SUBSET Names] :
       Binds(params, Place(args, Len(args)) + more, GivenNames(args, held))

\* The parameter that an argument that is written out is bound to.
BoundTo(params, args, i) ==
  LET called == IF args[i].kind = "keyword" THEN ParamOf(params, args[i].name)
                ELSE {k \in ByPosition(params) : k = Place(args, i)}
      rest   == IF args[i].kind = "keyword" THEN "kwargs" ELSE "args"
  IN  First(IF called # {} THEN called ELSE {k \in DOMAIN params : params[k].kind = rest})
=============================================================================
