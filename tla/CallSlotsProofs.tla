--------------------------- MODULE CallSlotsProofs ---------------------------
(***************************************************************************)
(* Theorems about calls, for every function and any number of arguments,   *)
(* unpacked ones included: which are accepted, and which parameter an      *)
(* argument goes to.                                                       *)
(***************************************************************************)
EXTENDS Calls, FiniteSetTheorems, WellFoundedInduction, TLAPS

-----------------------------------------------------------------------------
\* A set of natural numbers has a least member.
LEMMA Least ==
  ASSUME NEW S, S \subseteq Nat, S # {}
  PROVE  \E m \in S : \A k \in S : m <= k
<1> DEFINE R == {ss \in Nat \X Nat : ss[1] < ss[2]}
<1>1. IsWellFoundedOn(R, Nat)
  BY NatLessThanWellFounded DEF OpToRel
<1>2. PICK m \in S : \A k \in S : ~(<<k, m>> \in R)
  <2> HIDE DEF R
  <2> QED
    BY <1>1, WFMin
<1>3. ASSUME NEW k \in S PROVE m <= k
  <2>1. <<k, m>> \in R <=> k < m
    OBVIOUS
  <2> QED
    BY <1>2, <2>1
<1> QED
  BY <1>3

\* What is true of 0, and of the next number if of one, is true of all.
LEMMA Induction ==
  ASSUME NEW S, 0 \in S, \A n \in Nat : n \in S => n + 1 \in S
  PROVE  Nat \subseteq S
<1> SUFFICES ASSUME NEW x \in Nat, x \notin S PROVE FALSE
  OBVIOUS
<1>1. PICK m \in Nat \ S : \A k \in Nat \ S : m <= k
  BY Least
<1>2. m # 0 /\ m - 1 \in Nat /\ m - 1 \in S
  BY <1>1
<1> QED
  BY <1>1, <1>2

-----------------------------------------------------------------------------
(***************************************************************************)
(* A pass.  Its states are those of a function that is built step by step, *)
(* where a step is known at the states that the pass may reach.            *)
(***************************************************************************)
\* f has the states of a pass with n steps.
Passes(f, n, start, step) ==
  f = [i \in 0..n |-> IF i = 0 THEN start ELSE step[<<f[i - 1], i>>]]

\* Each step leads from where one may be before it to where one may be after.
Leads(n, start, step, May) ==
  start \in May[0] /\ \A i \in 1..n : \A st \in May[i - 1] : step[<<st, i>>] \in May[i]

\* A pass exists, and stays where it may be.
LEMMA Pass ==
  ASSUME NEW n \in Nat, NEW start, NEW step, NEW May, Leads(n, start, step, May)
  PROVE  \E f : Passes(f, n, start, step) /\ \A i \in 0..n : f[i] \in May[i]
<1> DEFINE Good(f, m) == Passes(f, m, start, step) /\ \A i \in 0..m : f[i] \in May[i]
           Ok == {m \in Nat : m <= n => \E f : Good(f, m)}
<1>1. 0 \in Ok
  <2> DEFINE f == [i \in 0..0 |-> start]
  <2>1. Passes(f, 0, start, step)
    BY DEF Passes
  <2>2. \A i \in 0..0 : f[i] \in May[i]
    BY DEF Leads
  <2> HIDE DEF f
  <2> QED
    BY <2>1, <2>2
<1>2. ASSUME NEW m \in Nat, m \in Ok PROVE m + 1 \in Ok
  <2> SUFFICES ASSUME m + 1 <= n PROVE \E f : Good(f, m + 1)
    OBVIOUS
  <2>1. PICK f : Good(f, m)
    BY <1>2
  <2> DEFINE g == [i \in 0..m + 1 |-> IF i = m + 1 THEN step[<<f[m], m + 1>>] ELSE f[i]]
  <2>2. \A i \in 0..m : i \in 0..m + 1 /\ i # m + 1 /\ g[i] = f[i]
    OBVIOUS
  <2>3. g[m + 1] = step[<<f[m], m + 1>>]
    OBVIOUS
  <2>4. \A i \in 0..m : f[i] = IF i = 0 THEN start ELSE step[<<f[i - 1], i>>]
    BY <2>1 DEF Passes
  <2>5. \A i \in 0..m + 1 : g[i] = IF i = 0 THEN start ELSE step[<<g[i - 1], i>>]
    <3> TAKE i \in 0..m + 1
    <3>1. CASE i = m + 1
      <4>1. m \in 0..m /\ i - 1 = m /\ i # 0
        BY <3>1
      <4> QED
        BY <2>2, <2>3, <3>1, <4>1
    <3>2. CASE i # m + 1
      <4>1. i \in 0..m /\ (i # 0 => i - 1 \in 0..m)
        BY <3>2
      <4> HIDE DEF g
      <4> QED
        BY <2>2, <2>4, <4>1
    <3> QED
      BY <3>1, <3>2
  <2>6. g = [i \in 0..m + 1 |-> g[i]]
    OBVIOUS
  <2> HIDE DEF g
  <2>7. Passes(g, m + 1, start, step)
    BY <2>5, <2>6 DEF Passes
  <2>8. ASSUME NEW i \in 0..m + 1 PROVE g[i] \in May[i]
    <3>1. CASE i = m + 1
      <4>1. f[m] \in May[m] /\ m + 1 \in 1..n /\ (m + 1) - 1 = m
        BY <2>1
      <4> QED
        BY <2>3, <3>1, <4>1 DEF Leads
    <3>2. CASE i # m + 1
      BY <2>1, <2>2, <3>2
    <3> QED
      BY <3>1, <3>2
  <2> QED
    BY <2>7, <2>8
<1> HIDE DEF Ok
<1>3. n \in Ok
  BY <1>1, <1>2, Induction
<1> QED
  BY <1>3 DEF Ok

\* f has the states of a pass, given what comes next after each.
Follows(f, n, start, next) == f = [i \in 0..n |-> IF i = 0 THEN start ELSE next[i]]

LeadsOn(f, n, start, next, May) ==
  start \in May[0] /\ \A i \in 1..n : f[i - 1] \in May[i - 1] => next[i] \in May[i]

\* Every pass that exists stays where it may be.
LEMMA PassStays ==
  ASSUME NEW n \in Nat, NEW start, NEW f, NEW next, NEW May,
         Follows(f, n, start, next), LeadsOn(f, n, start, next, May)
  PROVE  f[n] \in May[n]
<1> DEFINE Ok == {m \in Nat : m <= n => f[m] \in May[m]}
<1>1. 0 \in Ok
  BY DEF Follows, LeadsOn
<1>2. ASSUME NEW m \in Nat, m \in Ok PROVE m + 1 \in Ok
  <2> SUFFICES ASSUME m + 1 <= n PROVE f[m + 1] \in May[m + 1]
    OBVIOUS
  <2>1. m + 1 \in 1..n /\ (m + 1) - 1 = m /\ f[m + 1] = next[m + 1]
    BY DEF Follows
  <2>2. f[m] \in May[m]
    BY <1>2
  <2> QED
    BY <2>1, <2>2 DEF LeadsOn
<1> HIDE DEF Ok
<1>3. n \in Ok
  BY <1>1, <1>2, Induction
<1> QED
  BY <1>3 DEF Ok

\* The pass over the positional arguments.
LEMMA PositionalPass ==
  ASSUME NEW params, NEW args, Len(args) \in Nat, NEW active_arg, NEW May,
         NoneAssigned(params) \in May[0],
         \A i \in 1..Len(args) : \A st \in May[i - 1] :
           AssignPositional(st, args[i], i, active_arg) \in May[i]
  PROVE  AllPositional(params, args, active_arg) \in May[Len(args)]
<1> DEFINE n == Len(args)
           start == NoneAssigned(params)
           States == UNION {May[i] : i \in 0..n}
           step == [si \in States \X (1..n) |-> AssignPositional(si[1], args[si[2]], si[2], active_arg)]
           Body(f) == [i \in 0..n |-> IF i = 0 THEN start
                                      ELSE AssignPositional(f[i - 1], args[i], i, active_arg)]
           after == CHOOSE f : f = Body(f)
<1>1. \A i \in 1..n : \A st \in May[i - 1] :
        step[<<st, i>>] = AssignPositional(st, args[i], i, active_arg)
  <2> TAKE i \in 1..n
  <2> TAKE st \in May[i - 1]
  <2>1. i - 1 \in 0..n
    OBVIOUS
  <2>2. <<st, i>> \in States \X (1..n)
    BY <2>1
  <2> QED
    BY <2>2
<1> HIDE DEF step
<1>2. Leads(n, start, step, May)
  BY <1>1 DEF Leads
<1>3. PICK f : Passes(f, n, start, step) /\ \A i \in 0..n : f[i] \in May[i]
  BY <1>2, Pass
<1>4. f = Body(f)
  <2>1. \A i \in 0..n : i # 0 => step[<<f[i - 1], i>>] = AssignPositional(f[i - 1], args[i], i, active_arg)
    <3> TAKE i \in 0..n
    <3> HAVE i # 0
    <3>1. i \in 1..n /\ i - 1 \in 0..n
      OBVIOUS
    <3> QED
      BY <1>1, <1>3, <3>1
  <2> QED
    BY <1>3, <2>1 DEF Passes
<1>5. after = Body(after)
  BY <1>4
<1>6. AllPositional(params, args, active_arg) = after[n]
  BY DEF AllPositional, ForEach
<1> HIDE DEF after
<1> DEFINE next == [i \in 1..n |-> AssignPositional(after[i - 1], args[i], i, active_arg)]
<1>7. Follows(after, n, start, next)
  BY <1>5 DEF Follows
<1>8. \A i \in 1..n : after[i - 1] \in May[i - 1] => next[i] \in May[i]
  OBVIOUS
<1>9. LeadsOn(after, n, start, next, May)
  BY <1>8 DEF LeadsOn
<1> HIDE DEF next, start
<1> QED
  BY <1>6, <1>7, <1>9, PassStays

\* The pass over the keyword arguments.
LEMMA KeywordPass ==
  ASSUME NEW params, NEW args, Len(args) \in Nat, NEW active_arg, NEW May,
         AllPositional(params, args, active_arg) \in May[0],
         \A i \in 1..Len(args) : \A st \in May[i - 1] :
           AssignKeyword(st, args[i], i, active_arg) \in May[i]
  PROVE  AllAssigned(params, args, active_arg) \in May[Len(args)]
<1> DEFINE n == Len(args)
           start == AllPositional(params, args, active_arg)
           States == UNION {May[i] : i \in 0..n}
           step == [si \in States \X (1..n) |-> AssignKeyword(si[1], args[si[2]], si[2], active_arg)]
           Body(f) == [i \in 0..n |-> IF i = 0 THEN start
                                      ELSE AssignKeyword(f[i - 1], args[i], i, active_arg)]
           after == CHOOSE f : f = Body(f)
<1>1. \A i \in 1..n : \A st \in May[i - 1] :
        step[<<st, i>>] = AssignKeyword(st, args[i], i, active_arg)
  <2> TAKE i \in 1..n
  <2> TAKE st \in May[i - 1]
  <2>1. i - 1 \in 0..n
    OBVIOUS
  <2>2. <<st, i>> \in States \X (1..n)
    BY <2>1
  <2> QED
    BY <2>2
<1> HIDE DEF step
<1>2. Leads(n, start, step, May)
  BY <1>1 DEF Leads
<1>3. PICK f : Passes(f, n, start, step) /\ \A i \in 0..n : f[i] \in May[i]
  BY <1>2, Pass
<1>4. f = Body(f)
  <2>1. \A i \in 0..n : i # 0 => step[<<f[i - 1], i>>] = AssignKeyword(f[i - 1], args[i], i, active_arg)
    <3> TAKE i \in 0..n
    <3> HAVE i # 0
    <3>1. i \in 1..n /\ i - 1 \in 0..n
      OBVIOUS
    <3> QED
      BY <1>1, <1>3, <3>1
  <2> QED
    BY <1>3, <2>1 DEF Passes
<1>5. after = Body(after)
  BY <1>4
<1>6. AllAssigned(params, args, active_arg) = after[n]
  BY DEF AllAssigned, ForEach
<1> HIDE DEF after
<1> DEFINE next == [i \in 1..n |-> AssignKeyword(after[i - 1], args[i], i, active_arg)]
<1>7. Follows(after, n, start, next)
  BY <1>5 DEF Follows
<1>8. \A i \in 1..n : after[i - 1] \in May[i - 1] => next[i] \in May[i]
  OBVIOUS
<1>9. LeadsOn(after, n, start, next, May)
  BY <1>8 DEF LeadsOn
<1> HIDE DEF next, start
<1> QED
  BY <1>6, <1>7, <1>9, PassStays

-----------------------------------------------------------------------------

-----------------------------------------------------------------------------
(***************************************************************************)
(* A call that has its arguments in order, n of them by position.          *)
(***************************************************************************)
Ordered(params, args, n) ==
  /\ params \in Seq(Param) /\ WellFormed(params) /\ args \in Seq(Arg) /\ n \in 0..Len(args)
  /\ \A i \in 1..n : args[i].kind \in {"simple", "unpacked_list"}
  /\ \A i \in n + 1..Len(args) : args[i].kind \in {"keyword", "unpacked_dict"}

\* The parameters of a kind.
OfKind(params, kind) == {k \in DOMAIN params : params[k].kind = kind}

\* There is an unpacked argument of a kind among the first d.
Spread(args, d, kind) == \E e \in 1..d : args[e].kind = kind

\* The parameters whose places the first d arguments take.
Filled(params, args, d) ==
  {k \in ByPosition(params) : k <= Place(args, d) \/ Spread(args, d, "unpacked_list")}

\* An argument after from, and not after to, has the name of the parameter.
Told(params, args, k, from, to) ==
  \E i \in from + 1..to : args[i].kind = "keyword" /\ params[k].name = args[i].name

\* The parameters that the first d arguments give no value.
Unset(params, args, d) ==
  {k \in DOMAIN params :
     /\ Simple(params[k]) /\ k \notin Filled(params, args, d)
     /\ ~Told(params, args, k, 0, d) /\ ~Spread(args, d, "unpacked_dict")}

\* Those that they give no value, or one that may be in an unpacked dictionary.
Soft(params, args, d) ==
  {k \in DOMAIN params :
     /\ Simple(params[k])
     /\ \/ k \notin Filled(params, args, d) /\ ~Told(params, args, k, 0, d)
        \/ \E e \in 1..d : args[e].kind = "unpacked_dict" /\ ~Told(params, args, k, e, d)}

\* The parameter that the argument by position after the first d goes to, and the
\* one that the argument i goes to, if any.
ByPlace(params, args, d) ==
  IF Place(args, d) + 1 \in ByPosition(params) /\ ~Spread(args, d, "unpacked_list")
  THEN {Place(args, d) + 1} ELSE OfKind(params, "args")
ByName(params, args, i) ==
  IF ParamOf(params, args[i].name) \cap Soft(params, args, i - 1) # {}
  THEN ParamOf(params, args[i].name) \cap Soft(params, args, i - 1) ELSE OfKind(params, "kwargs")
Owners(params, args, i) ==
  CASE args[i].kind = "simple"  -> ByPlace(params, args, i - 1)
    [] args[i].kind = "keyword" -> ByName(params, args, i)
    [] OTHER                    -> {}

WrittenOut(arg) == arg.kind \in {"simple", "keyword"}
Lost(params, args, i) == WrittenOut(args[i]) /\ Owners(params, args, i) = {}
Kept(params, args, i) == WrittenOut(args[i]) /\ Owners(params, args, i) # {}

Provider == [kind : {"single", "args_list", "kwargs_dict"}, arg : Nat]

SlotRecord == [param : Param, positional : BOOLEAN, providers : SUBSET Provider]

Progress(params) == [slots : [DOMAIN params -> SlotRecord], errors : SUBSET Nat, active : Nat]

AllSoft(slot) == \A p \in slot.providers : p.kind = "kwargs_dict"

\* Where the passes are after d arguments: which slots are empty or hold what an
\* unpacked dictionary may have; an argument that is written out and goes to none
\* is unexpected, and the active slot is that of the active argument.
After(params, args, active_arg, d) ==
  {st \in Progress(params) :
     /\ \A k \in DOMAIN params :
          /\ st.slots[k].param = params[k]
          /\ st.slots[k].positional <=> k \in ByPosition(params)
          /\ Simple(params[k]) =>
               /\ st.slots[k].providers = {} <=> k \in Unset(params, args, d)
               /\ AllSoft(st.slots[k]) <=> k \in Soft(params, args, d)
     /\ st.errors = {i \in 1..d : Lost(params, args, i)}
     /\ st.active = IF active_arg \in 1..d /\ Kept(params, args, active_arg)
                    THEN First(Owners(params, args, active_arg)) ELSE 0}

\* The first of a set is its least.
LEMMA FirstIs ==
  ASSUME NEW K, K \subseteq Nat, NEW w \in K, \A k \in K : w <= k
  PROVE  First(K) = w
<1>1. \A v \in K : (\A k \in K : v <= k) => v = w
  <2> TAKE v \in K
  <2> HAVE \A k \in K : v <= k
  <2>1. v <= w /\ w <= v /\ v \in Nat /\ w \in Nat
    OBVIOUS
  <2> QED
    BY <2>1
<1> QED
  BY <1>1 DEF First

\* What a function that may be defined has for parameters: those by position
\* come first, one at most is *args or *, and **kwargs is the last.
LEMMA ParamsAre ==
  ASSUME NEW params \in Seq(Param), WellFormed(params)
  PROVE  /\ Len(params) \in Nat /\ DOMAIN params = 1..Len(params)
         /\ \A k \in DOMAIN params : /\ params[k] \in Param
                                     /\ params[k].kind \in {"simple", "args", "bare", "kwargs"}
         /\ \A k \in ByPosition(params) : /\ k \in DOMAIN params /\ params[k].kind = "simple"
                                          /\ \A j \in 1..k : j \in ByPosition(params)
         /\ \A k \in OfKind(params, "args") : \A j \in ByPosition(params) : j < k
         /\ \A j, k \in OfKind(params, "args") : j = k
         /\ \A j, k \in OfKind(params, "kwargs") : j = k
         /\ \A k \in OfKind(params, "kwargs") : \A j \in DOMAIN params : j <= k
         /\ \A j, k \in DOMAIN params :
              Simple(params[j]) /\ Simple(params[k]) /\ params[j].name = params[k].name => j = k
<1>1. Len(params) \in Nat /\ DOMAIN params = 1..Len(params) /\ \A k \in DOMAIN params : params[k] \in Param
  OBVIOUS
<1>2. \A k \in DOMAIN params : params[k].kind \in {"simple", "args", "bare", "kwargs"}
  BY <1>1 DEF Param
<1>3. ASSUME NEW j \in DOMAIN params, NEW k \in DOMAIN params, j < k
      PROVE  /\ params[j].kind # "kwargs"
             /\ params[j].kind \in {"args", "bare"} => params[k].kind \notin {"args", "bare"}
             /\ Simple(params[j]) /\ Simple(params[k]) => params[j].name # params[k].name
  BY <1>3 DEF WellFormed
<1>4. ASSUME NEW k \in ByPosition(params)
      PROVE  /\ k \in DOMAIN params /\ params[k].kind = "simple"
             /\ \A j \in 1..k : j \in ByPosition(params)
  <2>1. /\ k \in DOMAIN params /\ params[k].kind = "simple"
        /\ \A j \in 1..k : params[j].kind \in {"simple", "kwargs"}
    BY DEF ByPosition, Simple
  <2>2. ASSUME NEW j \in 1..k PROVE j \in ByPosition(params)
    <3>1. j \in DOMAIN params /\ \A i \in 1..j : i \in 1..k
      BY <1>1, <2>1
    <3>2. params[j].kind = "simple"
      <4>1. j < k \/ j = k
        BY <1>1, <2>1
      <4> QED
        BY <1>3, <2>1, <3>1, <4>1
    <3> QED
      BY <2>1, <3>1, <3>2 DEF ByPosition, Simple
  <2> QED
    BY <2>1, <2>2
<1>5. ASSUME NEW k \in OfKind(params, "args"), NEW j \in ByPosition(params) PROVE j < k
  <2>1. k \in DOMAIN params /\ params[k].kind = "args" /\ j \in DOMAIN params
    BY <1>4 DEF OfKind
  <2>2. ~(k \in 1..j)
    BY <1>4, <2>1
  <2> QED
    BY <1>1, <2>1, <2>2
<1>6. \A j, k \in OfKind(params, "args") : j = k
  <2> TAKE j, k \in OfKind(params, "args")
  <2>1. /\ j \in DOMAIN params /\ params[j].kind = "args"
        /\ k \in DOMAIN params /\ params[k].kind = "args"
    BY DEF OfKind
  <2>2. ~(j < k) /\ ~(k < j)
    BY <1>3, <2>1
  <2> QED
    BY <1>1, <2>1, <2>2
<1>7. ASSUME NEW k \in OfKind(params, "kwargs"), NEW j \in DOMAIN params PROVE j <= k
  <2>1. k \in DOMAIN params /\ params[k].kind = "kwargs"
    BY DEF OfKind
  <2>2. ~(k < j)
    BY <1>3, <2>1
  <2> QED
    BY <1>1, <2>1, <2>2
<1>8. \A j, k \in OfKind(params, "kwargs") : j = k
  <2> TAKE j, k \in OfKind(params, "kwargs")
  <2>1. j \in DOMAIN params /\ k \in DOMAIN params
    BY DEF OfKind
  <2>2. j <= k /\ k <= j
    BY <1>7, <2>1
  <2> QED
    BY <1>1, <2>1, <2>2
<1>9. \A j, k \in DOMAIN params :
        Simple(params[j]) /\ Simple(params[k]) /\ params[j].name = params[k].name => j = k
  <2> TAKE j, k \in DOMAIN params
  <2> HAVE Simple(params[j]) /\ Simple(params[k]) /\ params[j].name = params[k].name
  <2>1. ~(j < k) /\ ~(k < j)
    BY <1>3
  <2> QED
    BY <1>1, <2>1
<1> QED
  BY <1>1, <1>2, <1>4, <1>5, <1>6, <1>7, <1>8, <1>9

\* A function of the file has a slot for each parameter.
LEMMA SlotsAre ==
  ASSUME NEW params \in Seq(Param), WellFormed(params)
  PROVE  /\ Slots(params) = [k \in DOMAIN params |-> Slot(params, k)]
         /\ \A k \in DOMAIN params :
              /\ Slot(params, k) \in SlotRecord /\ Slot(params, k).param = params[k]
              /\ Slot(params, k).positional <=> k \in ByPosition(params)
              /\ Slot(params, k).providers = {}
<1> DEFINE ends == OfKind(params, "kwargs")
<1>1. Len(params) \in Nat /\ DOMAIN params = 1..Len(params)
  BY ParamsAre
<1>2. Slots(params) = [k \in 1..(IF ends = {} THEN Len(params) ELSE First(ends)) |-> Slot(params, k)]
  BY DEF Slots, OfKind
<1>3. ends # {} => First(ends) = Len(params)
  <2> SUFFICES ASSUME ends # {} PROVE First(ends) = Len(params)
    OBVIOUS
  <2>1. PICK w : w \in ends
    OBVIOUS
  <2>2. w \in DOMAIN params /\ ends \subseteq DOMAIN params
    BY <2>1 DEF OfKind
  <2>3. \A k \in ends : w = k
    BY <2>1, ParamsAre
  <2>4. w = Len(params)
    <3>1. Len(params) \in DOMAIN params /\ w <= Len(params)
      BY <1>1, <2>2
    <3>2. Len(params) <= w
      BY <2>1, <3>1, ParamsAre
    <3> QED
      BY <1>1, <2>2, <3>1, <3>2
  <2>5. ends \subseteq Nat /\ \A k \in ends : w <= k
    BY <1>1, <2>2, <2>3
  <2> HIDE DEF ends
  <2> QED
    BY <2>1, <2>4, <2>5, FirstIs
<1>4. ASSUME NEW k \in DOMAIN params
      PROVE  /\ Slot(params, k) \in SlotRecord /\ Slot(params, k).param = params[k]
             /\ Slot(params, k).positional <=> k \in ByPosition(params)
             /\ Slot(params, k).providers = {}
  <2>1. params[k] \in Param /\ \A j \in 1..k : params[j].kind \in {"simple", "args", "bare", "kwargs"}
    BY <1>1, ParamsAre
  <2>2. /\ Slot(params, k).param = params[k] /\ Slot(params, k).providers = {}
        /\ Slot(params, k).positional =
             (Simple(params[k]) /\ \A j \in 1..k : params[j].kind \notin {"args", "bare"})
    BY DEF Slot
  <2>3. Slot(params, k).positional <=> k \in ByPosition(params)
    BY <2>1, <2>2 DEF ByPosition
  <2>4. Slot(params, k) \in SlotRecord
    BY <2>1 DEF Slot, SlotRecord
  <2> QED
    BY <2>2, <2>3, <2>4
<1> HIDE DEF ends
<1>5. 1..(IF ends = {} THEN Len(params) ELSE First(ends)) = DOMAIN params
  BY <1>1, <1>3
<1> QED
  BY <1>2, <1>4, <1>5

-----------------------------------------------------------------------------
\* The parameters by position are the first ones, as many as they are.
LEMMA Positions ==
  ASSUME NEW params \in Seq(Param), WellFormed(params)
  PROVE  /\ Cardinality(ByPosition(params)) \in 0..Len(params)
         /\ ByPosition(params) = 1..Cardinality(ByPosition(params))
<1> DEFINE P == ByPosition(params)
           Ends == {j \in Nat : j + 1 \notin P}
<1>1. /\ Len(params) \in Nat /\ \A k \in P : k \in 1..Len(params)
      /\ \A k \in P : \A j \in 1..k : j \in P
  BY ParamsAre
<1>2. Len(params) \in Ends
  BY <1>1
<1>3. PICK q \in Ends : \A j \in Ends : q <= j
  <2>1. Ends \subseteq Nat /\ Ends # {}
    BY <1>2
  <2> HIDE DEF Ends
  <2> QED
    BY <2>1, Least
<1>4. q \in Nat /\ q + 1 \notin P /\ q <= Len(params)
  BY <1>2, <1>3
<1>5. ASSUME NEW k \in P PROVE k \in 1..q
  <2>1. k \in Nat /\ k >= 1 /\ q + 1 \notin 1..k
    BY <1>1, <1>4
  <2> QED
    BY <1>4, <2>1
<1>6. ASSUME NEW k \in 1..q PROVE k \in P
  <2>1. k - 1 \in Nat /\ ~(q <= k - 1) /\ (k - 1) + 1 = k
    BY <1>4
  <2> QED
    BY <1>3, <2>1
<1>7. P = 1..q
  BY <1>5, <1>6
<1> HIDE DEF P
<1>8. Cardinality(P) = q
  BY <1>4, <1>7, FS_Interval
<1> QED
  BY <1>1, <1>4, <1>7, <1>8 DEF P

\* The place of an argument counts the simple ones.
LEMMA PlaceIs ==
  ASSUME NEW args, NEW i \in Nat
  PROVE  /\ Place(args, 0) = 0 /\ Place(args, i) \in Nat
         /\ args[i + 1].kind = "simple" => Place(args, i + 1) = Place(args, i) + 1
         /\ args[i + 1].kind # "simple" => Place(args, i + 1) = Place(args, i)
         /\ \A j \in 0..i : Place(args, j) <= Place(args, i)
<1> DEFINE Of(j) == {h \in 1..j : args[h].kind = "simple"}
<1>1. ASSUME NEW j \in Nat PROVE IsFiniteSet(Of(j)) /\ Cardinality(Of(j)) \in Nat
  <2>1. IsFiniteSet(1..j)
    BY FS_Interval
  <2>2. IsFiniteSet(Of(j))
    BY <2>1, FS_Subset
  <2> HIDE DEF Of
  <2> QED
    BY <2>2, FS_CardinalityType
<1>2. Place(args, 0) = 0
  <2>1. {h \in 1..0 : args[h].kind = "simple"} = {}
    OBVIOUS
  <2> QED
    BY <2>1, FS_EmptySet DEF Place
<1>3. args[i + 1].kind = "simple" => Place(args, i + 1) = Place(args, i) + 1
  <2> SUFFICES ASSUME args[i + 1].kind = "simple" PROVE Place(args, i + 1) = Place(args, i) + 1
    OBVIOUS
  <2>1. Of(i + 1) = Of(i) \cup {i + 1} /\ i + 1 \notin Of(i)
    <3>1. 1..i + 1 = (1..i) \cup {i + 1} /\ i + 1 \notin 1..i
      OBVIOUS
    <3> QED
      BY <3>1
  <2>2. IsFiniteSet(Of(i))
    BY <1>1
  <2> HIDE DEF Of
  <2>3. Cardinality(Of(i + 1)) = Cardinality(Of(i)) + 1
    BY <2>1, <2>2, FS_AddElement
  <2> QED
    BY <2>3 DEF Place, Of
<1>4. args[i + 1].kind # "simple" => Place(args, i + 1) = Place(args, i)
  <2> SUFFICES ASSUME args[i + 1].kind # "simple" PROVE Place(args, i + 1) = Place(args, i)
    OBVIOUS
  <2>1. Of(i + 1) = Of(i)
    <3>1. 1..i + 1 = (1..i) \cup {i + 1}
      OBVIOUS
    <3> QED
      BY <3>1
  <2> QED
    BY <2>1 DEF Place
<1>5. ASSUME NEW j \in 0..i PROVE Place(args, j) <= Place(args, i)
  <2>1. Of(j) \subseteq Of(i) /\ j \in Nat
    OBVIOUS
  <2>2. IsFiniteSet(Of(i))
    BY <1>1
  <2> HIDE DEF Of
  <2>3. Cardinality(Of(j)) <= Cardinality(Of(i))
    BY <2>1, <2>2, FS_Subset
  <2> QED
    BY <2>3 DEF Place, Of
<1>6. Place(args, i) \in Nat
  BY <1>1 DEF Place
<1> QED
  BY <1>2, <1>3, <1>4, <1>5, <1>6

\* The last simple argument has the place of all.
LEMMA LastPlace ==
  ASSUME NEW args, NEW d \in Nat, Place(args, d) # 0
  PROVE  \E i \in 1..d : args[i].kind = "simple" /\ Place(args, i) = Place(args, d)
<1> DEFINE Ok == {m \in Nat : Place(args, m) # 0 =>
                    \E i \in 1..m : args[i].kind = "simple" /\ Place(args, i) = Place(args, m)}
<1>1. 0 \in Ok
  BY PlaceIs
<1>2. ASSUME NEW m \in Nat, m \in Ok PROVE m + 1 \in Ok
  <2> SUFFICES ASSUME Place(args, m + 1) # 0
               PROVE  \E i \in 1..m + 1 : args[i].kind = "simple" /\ Place(args, i) = Place(args, m + 1)
    OBVIOUS
  <2>1. m + 1 \in 1..m + 1 /\ \A i \in 1..m : i \in 1..m + 1
    OBVIOUS
  <2>2. CASE args[m + 1].kind = "simple"
    BY <2>1, <2>2
  <2>3. CASE args[m + 1].kind # "simple"
    <3>1. Place(args, m + 1) = Place(args, m)
      BY <2>3, PlaceIs
    <3> QED
      BY <1>2, <2>1, <3>1
  <2> QED
    BY <2>2, <2>3
<1> HIDE DEF Ok
<1>3. d \in Ok
  BY <1>1, <1>2, Induction
<1> QED
  BY <1>3 DEF Ok

\* What the parts of a call that is in order are.
LEMMA OrderedIs ==
  ASSUME NEW params, NEW args, NEW n, Ordered(params, args, n)
  PROVE  /\ params \in Seq(Param) /\ WellFormed(params) /\ args \in Seq(Arg)
         /\ Len(args) \in Nat /\ DOMAIN args = 1..Len(args) /\ n \in 0..Len(args) /\ n \in Nat
         /\ \A i \in 1..n : args[i].kind \in {"simple", "unpacked_list"}
         /\ \A i \in n + 1..Len(args) : args[i].kind \in {"keyword", "unpacked_dict"}
         /\ \A i \in 1..Len(args) : args[i].kind \in {"simple", "unpacked_list"} => i <= n
         /\ \A i \in 1..Len(args) : args[i].kind \in {"keyword", "unpacked_dict"} => i > n
         /\ DOMAIN params \subseteq Nat
<1>1. /\ params \in Seq(Param) /\ WellFormed(params) /\ args \in Seq(Arg)
      /\ Len(args) \in Nat /\ DOMAIN args = 1..Len(args) /\ n \in 0..Len(args) /\ n \in Nat
      /\ DOMAIN params \subseteq Nat
  BY DEF Ordered
<1>2. \A i \in 1..n : args[i].kind \in {"simple", "unpacked_list"}
  BY DEF Ordered
<1>3. \A i \in n + 1..Len(args) : args[i].kind \in {"keyword", "unpacked_dict"}
  BY DEF Ordered
<1>4. ASSUME NEW i \in 1..Len(args)
      PROVE  /\ i <= n => i \in 1..n
             /\ ~(i <= n) => i \in n + 1..Len(args) /\ i > n
  <2>1. Len(args) \in Nat /\ n \in Nat
    BY <1>1
  <2> QED
    BY <2>1
<1> QED
  BY <1>1, <1>2, <1>3, <1>4

\* While the arguments are by position, the parameters that they do not fill have
\* no value.
LEMMA SetsByPlace ==
  ASSUME NEW params, NEW args, NEW n, Ordered(params, args, n), NEW d \in 0..n, NEW k \in DOMAIN params
  PROVE  /\ k \in Unset(params, args, d) <=> Simple(params[k]) /\ k \notin Filled(params, args, d)
         /\ k \in Soft(params, args, d) <=> Simple(params[k]) /\ k \notin Filled(params, args, d)
<1>1. n \in Nat /\ \A i \in 1..n : args[i].kind \in {"simple", "unpacked_list"}
  BY OrderedIs
<1>2. \A i \in 1..d : i \in 1..n
  BY <1>1
<1>3. ~Told(params, args, k, 0, d) /\ ~Spread(args, d, "unpacked_dict")
  <2>1. 0 + 1..d = 1..d
    OBVIOUS
  <2> QED
    BY <1>1, <1>2, <2>1 DEF Told, Spread
<1> QED
  BY <1>1, <1>2, <1>3 DEF Unset, Soft

\* A keyword argument gives the parameter of its name a value.
LEMMA SetsByName ==
  ASSUME NEW params, NEW args, NEW d \in Nat \ {0}, args[d].kind = "keyword", NEW k \in DOMAIN params
  PROVE  /\ Filled(params, args, d) = Filled(params, args, d - 1)
         /\ Simple(params[k]) =>
              /\ k \in Unset(params, args, d) <=>
                   k \in Unset(params, args, d - 1) /\ params[k].name # args[d].name
              /\ k \in Soft(params, args, d) <=>
                   k \in Soft(params, args, d - 1) /\ params[k].name # args[d].name
<1>1. d - 1 \in Nat /\ (d - 1) + 1 = d /\ 1..d = (1..d - 1) \cup {d}
  OBVIOUS
<1>2. Place(args, d) = Place(args, d - 1)
  BY <1>1, PlaceIs
<1>3. \A kind \in {"unpacked_list", "unpacked_dict"} : Spread(args, d, kind) <=> Spread(args, d - 1, kind)
  BY <1>1 DEF Spread
<1>4. Filled(params, args, d) = Filled(params, args, d - 1)
  BY <1>2, <1>3 DEF Filled
<1>5. ASSUME NEW e \in 0..d - 1
      PROVE  Told(params, args, k, e, d) <=> Told(params, args, k, e, d - 1) \/ params[k].name = args[d].name
  <2>1. e + 1..d = (e + 1..d - 1) \cup {d}
    OBVIOUS
  <2> QED
    BY <2>1 DEF Told
<1>6. 0 \in 0..d - 1 /\ \A e \in 1..d - 1 : e \in 0..d - 1
  OBVIOUS
<1>7. Simple(params[k]) =>
        (k \in Unset(params, args, d) <=> k \in Unset(params, args, d - 1) /\ params[k].name # args[d].name)
  BY <1>3, <1>4, <1>5, <1>6 DEF Unset
<1> DEFINE Held(c) == \E e \in 1..c : args[e].kind = "unpacked_dict" /\ ~Told(params, args, k, e, c)
<1>8. Held(d) <=> Held(d - 1) /\ params[k].name # args[d].name
  BY <1>1, <1>5, <1>6
<1>9. \A c \in Nat : k \in Soft(params, args, c) <=>
        /\ Simple(params[k])
        /\ \/ k \notin Filled(params, args, c) /\ ~Told(params, args, k, 0, c)
           \/ Held(c)
  BY DEF Soft
<1> HIDE DEF Held
<1>10. Simple(params[k]) =>
        (k \in Soft(params, args, d) <=> k \in Soft(params, args, d - 1) /\ params[k].name # args[d].name)
  BY <1>1, <1>4, <1>5, <1>6, <1>8, <1>9
<1> QED
  BY <1>4, <1>7, <1>10

\* An unpacked dictionary may have any.
LEMMA SetsByDict ==
  ASSUME NEW params, NEW args, NEW d \in Nat \ {0}, args[d].kind = "unpacked_dict",
         NEW k \in DOMAIN params, Simple(params[k])
  PROVE  k \notin Unset(params, args, d) /\ k \in Soft(params, args, d)
<1>1. d \in 1..d /\ d + 1..d = {}
  OBVIOUS
<1>2. Spread(args, d, "unpacked_dict")
  BY <1>1 DEF Spread
<1>3. ~Told(params, args, k, d, d)
  BY <1>1 DEF Told
<1> QED
  BY <1>1, <1>2, <1>3 DEF Unset, Soft

\* An argument by position fills its place, and an unpacked list all of them.
LEMMA FilledStep ==
  ASSUME NEW params, NEW args, NEW n, Ordered(params, args, n), NEW d \in 1..n, NEW k \in DOMAIN params
  PROVE  /\ args[d].kind = "simple" =>
              (k \in Filled(params, args, d) <=>
                 \/ k \in Filled(params, args, d - 1)
                 \/ k \in ByPosition(params) /\ k \in ByPlace(params, args, d - 1))
         /\ args[d].kind = "unpacked_list" =>
              (k \in Filled(params, args, d) <=> k \in ByPosition(params))
<1> DEFINE P == ByPosition(params)
           p == Place(args, d - 1)
<1>1. /\ n \in Nat /\ d - 1 \in Nat /\ (d - 1) + 1 = d /\ d \in 1..d /\ 1..d = (1..d - 1) \cup {d} /\ k \in Nat
      /\ p \in Nat
  BY OrderedIs, PlaceIs
<1>2. args[d].kind = "unpacked_list" => (k \in Filled(params, args, d) <=> k \in P)
  BY <1>1 DEF Filled, Spread
<1>3. ASSUME args[d].kind = "simple"
      PROVE  k \in Filled(params, args, d) <=>
               k \in Filled(params, args, d - 1) \/ (k \in P /\ k \in ByPlace(params, args, d - 1))
  <2>1. Place(args, d) = p + 1
    BY <1>1, <1>3, PlaceIs
  <2>2. Spread(args, d, "unpacked_list") <=> Spread(args, d - 1, "unpacked_list")
    BY <1>1, <1>3 DEF Spread
  <2>3. k \in P => k \notin OfKind(params, "args")
    BY DEF ByPosition, OfKind, Simple
  <2> HIDE DEF p
  <2>4. k <= p + 1 <=> k <= p \/ k = p + 1
    BY <1>1
  <2>5. k \in P /\ k \in ByPlace(params, args, d - 1) <=>
          k \in P /\ k = p + 1 /\ ~Spread(args, d - 1, "unpacked_list")
    BY <2>3 DEF ByPlace, p
  <2> QED
    BY <2>1, <2>2, <2>4, <2>5 DEF Filled, p
<1> QED
  BY <1>2, <1>3

-----------------------------------------------------------------------------
\* An argument goes to one parameter, or to none.
LEMMA OwnersAre ==
  ASSUME NEW params \in Seq(Param), WellFormed(params), NEW args
  PROVE  /\ \A d : /\ ByPlace(params, args, d) \subseteq DOMAIN params
                   /\ \A v, w \in ByPlace(params, args, d) : v = w
         /\ \A i : /\ ByName(params, args, i) \subseteq DOMAIN params
                   /\ \A v, w \in ByName(params, args, i) : v = w
         /\ \A i : /\ Owners(params, args, i) \subseteq DOMAIN params
                   /\ \A v, w \in Owners(params, args, i) : v = w
         /\ DOMAIN params \subseteq Nat
<1>1. /\ OfKind(params, "args") \subseteq DOMAIN params /\ OfKind(params, "kwargs") \subseteq DOMAIN params
      /\ DOMAIN params \subseteq Nat /\ ByPosition(params) \subseteq DOMAIN params
  BY DEF ByPosition, OfKind
<1>2. \A v, w \in OfKind(params, "args") : v = w
  BY ParamsAre
<1>3. \A v, w \in OfKind(params, "kwargs") : v = w
  BY ParamsAre
<1>4. ASSUME NEW d
      PROVE  /\ ByPlace(params, args, d) \subseteq DOMAIN params
             /\ \A v, w \in ByPlace(params, args, d) : v = w
  <2> DEFINE p == Place(args, d) + 1
  <2>1. \/ ByPlace(params, args, d) = {p} /\ p \in ByPosition(params)
        \/ ByPlace(params, args, d) = OfKind(params, "args")
    BY DEF ByPlace
  <2> HIDE DEF p
  <2> QED
    BY <1>1, <1>2, <2>1
<1>5. ASSUME NEW i
      PROVE  /\ ByName(params, args, i) \subseteq DOMAIN params
             /\ \A v, w \in ByName(params, args, i) : v = w
  <2> DEFINE F == ParamOf(params, args[i].name)
  <2>1. F \subseteq DOMAIN params /\ \A v \in F : Simple(params[v]) /\ params[v].name = args[i].name
    BY DEF ParamOf
  <2>2. \A v, w \in F : v = w
    <3> HIDE DEF F
    <3> QED
      BY <2>1, ParamsAre
  <2>3. ByName(params, args, i) \subseteq F \/ ByName(params, args, i) = OfKind(params, "kwargs")
    BY DEF ByName
  <2> HIDE DEF F
  <2> QED
    BY <1>1, <1>3, <2>1, <2>2, <2>3
<1>6. ASSUME NEW i
      PROVE  /\ Owners(params, args, i) \subseteq DOMAIN params
             /\ \A v, w \in Owners(params, args, i) : v = w
  <2>1. \/ Owners(params, args, i) = ByPlace(params, args, i - 1)
        \/ Owners(params, args, i) = ByName(params, args, i)
        \/ Owners(params, args, i) = {}
    <3>1. CASE args[i].kind = "simple"
      BY <3>1 DEF Owners
    <3>2. CASE args[i].kind = "keyword"
      BY <3>2 DEF Owners
    <3>3. CASE args[i].kind \notin {"simple", "keyword"}
      BY <3>3 DEF Owners
    <3> QED
      BY <3>1, <3>2, <3>3
  <2> QED
    BY <1>4, <1>5, <2>1
<1> QED
  BY <1>1, <1>4, <1>5, <1>6

\* The first of such a set is its member.
LEMMA FirstOwner ==
  ASSUME NEW K, K \subseteq Nat, \A v, w \in K : v = w, NEW w \in K
  PROVE  First(K) = w
<1>1. \A k \in K : w <= k
  <2> TAKE k \in K
  <2>1. w = k /\ w \in Nat
    OBVIOUS
  <2> QED
    BY <2>1
<1> QED
  BY <1>1, FirstIs

\* What a pass has done, in parts.
LEMMA AfterIs ==
  ASSUME NEW params, NEW args, NEW active_arg, NEW d, NEW st
  PROVE  st \in After(params, args, active_arg, d) <=>
           /\ st \in Progress(params)
           /\ \A k \in DOMAIN params :
                /\ st.slots[k].param = params[k]
                /\ st.slots[k].positional <=> k \in ByPosition(params)
                /\ Simple(params[k]) =>
                     /\ st.slots[k].providers = {} <=> k \in Unset(params, args, d)
                     /\ AllSoft(st.slots[k]) <=> k \in Soft(params, args, d)
           /\ st.errors = {i \in 1..d : Lost(params, args, i)}
           /\ st.active = IF active_arg \in 1..d /\ Kept(params, args, active_arg)
                          THEN First(Owners(params, args, active_arg)) ELSE 0
BY Zenon DEF After

\* A provider more in a slot.
LEMMA ProvideIs ==
  ASSUME NEW slot \in SlotRecord, NEW p \in Provider
  PROVE  /\ Provide(slot, p) \in SlotRecord
         /\ Provide(slot, p).param = slot.param
         /\ Provide(slot, p).positional = slot.positional
         /\ Simple(slot.param) => Provide(slot, p).providers = {p}
<1> DEFINE new == IF Simple(slot.param) THEN {p} ELSE slot.providers \cup {p}
<1>1. new \in SUBSET Provider /\ (Simple(slot.param) => new = {p})
  BY DEF SlotRecord
<1>2. Provide(slot, p) = [slot EXCEPT !.providers = new]
  BY DEF Provide
<1> HIDE DEF new
<1> QED
  BY <1>1, <1>2 DEF SlotRecord

\* What the providers are, and that one which is not an unpacked dictionary's is
\* not soft.
LEMMA ProvidersAre ==
  ASSUME NEW i \in Nat
  PROVE  /\ Single(i) \in Provider /\ Single(i).kind # "kwargs_dict"
         /\ ArgsList(i) \in Provider /\ ArgsList(i).kind # "kwargs_dict"
         /\ KwargsDict(i) \in Provider /\ KwargsDict(i).kind = "kwargs_dict"
BY DEF Single, ArgsList, KwargsDict, Provider

\* The slots of a state are those of the parameters.
SlotsFit(params, args, slots, d) ==
  \A k \in DOMAIN params :
    /\ slots[k].param = params[k]
    /\ slots[k].positional <=> k \in ByPosition(params)
    /\ Simple(params[k]) =>
         /\ slots[k].providers = {} <=> k \in Unset(params, args, d)
         /\ AllSoft(slots[k]) <=> k \in Soft(params, args, d)

\* The unexpected arguments and the active slot are those of the first d.
StatusFits(params, args, active_arg, errors, active, d) ==
  /\ errors = {i \in 1..d : Lost(params, args, i)}
  /\ active = IF active_arg \in 1..d /\ Kept(params, args, active_arg)
              THEN First(Owners(params, args, active_arg)) ELSE 0

\* An argument that is written out takes the slot of its owner alone.
TakesOne(params, args, j) ==
  \A k \in DOMAIN params : Simple(params[k]) =>
    /\ k \in Unset(params, args, j) <=> k \in Unset(params, args, j - 1) /\ k \notin Owners(params, args, j)
    /\ k \in Soft(params, args, j) <=> k \in Soft(params, args, j - 1) /\ k \notin Owners(params, args, j)

\* A state after d arguments, from its parts.
LEMMA Reached ==
  ASSUME NEW params, NEW args, NEW active_arg, NEW d,
         NEW slots \in [DOMAIN params -> SlotRecord], SlotsFit(params, args, slots, d),
         NEW errors \in SUBSET Nat, NEW active \in Nat,
         StatusFits(params, args, active_arg, errors, active, d)
  PROVE  [slots |-> slots, errors |-> errors, active |-> active] \in After(params, args, active_arg, d)
<1> DEFINE st == [slots |-> slots, errors |-> errors, active |-> active]
<1>1. st \in Progress(params) /\ st.slots = slots /\ st.errors = errors /\ st.active = active
  BY DEF Progress
<1> HIDE DEF st
<1>2. st \in After(params, args, active_arg, d)
  BY <1>1, AfterIs DEF SlotsFit, StatusFits
<1> QED
  BY <1>2 DEF st

\* The parts of a state after d arguments.
LEMMA PartsAre ==
  ASSUME NEW params, NEW args, NEW active_arg, NEW d, NEW st \in After(params, args, active_arg, d)
  PROVE  /\ st = [slots |-> st.slots, errors |-> st.errors, active |-> st.active]
         /\ st.slots \in [DOMAIN params -> SlotRecord] /\ DOMAIN st.slots = DOMAIN params
         /\ st.errors \in SUBSET Nat /\ st.active \in Nat
         /\ SlotsFit(params, args, st.slots, d)
         /\ StatusFits(params, args, active_arg, st.errors, st.active, d)
<1>1. st \in Progress(params)
  BY AfterIs
<1>2. /\ st = [slots |-> st.slots, errors |-> st.errors, active |-> st.active]
      /\ st.slots \in [DOMAIN params -> SlotRecord] /\ DOMAIN st.slots = DOMAIN params
      /\ st.errors \in SUBSET Nat /\ st.active \in Nat
  BY <1>1 DEF Progress
<1>3. SlotsFit(params, args, st.slots, d)
  BY AfterIs DEF SlotsFit
<1>4. StatusFits(params, args, active_arg, st.errors, st.active, d)
  BY AfterIs DEF StatusFits
<1> QED
  BY <1>2, <1>3, <1>4

\* An argument is assigned to the first slot that takes it, if that is the one
\* it goes to, or is unexpected if it goes to none.
LEMMA AssignOneStep ==
  ASSUME NEW params \in Seq(Param), WellFormed(params), NEW args, NEW active_arg \in Nat,
         NEW j \in Nat \ {0}, WrittenOut(args[j]), TakesOne(params, args, j),
         NEW st \in After(params, args, active_arg, j - 1), NEW K,
         K = {} <=> Owners(params, args, j) = {},
         K # {} => First(K) \in Owners(params, args, j)
  PROVE  AssignOne(st, j, K, active_arg) \in After(params, args, active_arg, j)
<1> DEFINE O(i) == Owners(params, args, i)
           D == DOMAIN params
           Bad(i) == Lost(params, args, i)
           Good(i) == Kept(params, args, i)
<1>1. /\ st = [slots |-> st.slots, errors |-> st.errors, active |-> st.active]
      /\ st.slots \in [D -> SlotRecord] /\ st.errors \in SUBSET Nat /\ st.active \in Nat
      /\ SlotsFit(params, args, st.slots, j - 1)
      /\ st.errors = {i \in 1..j - 1 : Bad(i)}
      /\ st.active = IF active_arg \in 1..j - 1 /\ Good(active_arg) THEN First(O(active_arg)) ELSE 0
  BY PartsAre DEF StatusFits
<1>2. O(j) \subseteq D /\ D \subseteq Nat /\ \A v, w \in O(j) : v = w
  BY OwnersAre
<1>3. \A w \in O(j) : First(O(j)) = w
  <2>1. O(j) \subseteq Nat
    BY <1>2
  <2> HIDE DEF O
  <2> QED
    BY <1>2, <2>1, FirstOwner
<1>4. 1..j = (1..j - 1) \cup {j} /\ j \notin 1..j - 1 /\ 1..j \subseteq Nat
  OBVIOUS
<1>5. Bad(j) <=> O(j) = {}
  BY DEF Lost
<1>6. Good(j) <=> O(j) # {}
  BY DEF Kept
<1> HIDE DEF O, Bad, Good
<1>7. CASE K = {}
  <2> DEFINE errors == st.errors \cup {j}
  <2>1. AssignOne(st, j, K, active_arg) = [slots |-> st.slots, errors |-> errors, active |-> st.active]
    BY <1>1, <1>7 DEF AssignOne
  <2>2. O(j) = {}
    BY <1>7 DEF O
  <2>3. errors = {i \in 1..j : Bad(i)} /\ errors \in SUBSET Nat
    BY <1>1, <1>4, <1>5, <2>2
  <2>4. st.active = IF active_arg \in 1..j /\ Good(active_arg) THEN First(O(active_arg)) ELSE 0
    BY <1>1, <1>4, <1>6, <2>2
  <2>5. SlotsFit(params, args, st.slots, j)
    BY <1>1, <2>2 DEF SlotsFit, TakesOne, O
  <2> HIDE DEF errors
  <2>6. StatusFits(params, args, active_arg, errors, st.active, j)
    BY <2>3, <2>4 DEF StatusFits, O, Bad, Good
  <2>7. st.slots \in [D -> SlotRecord] /\ errors \in SUBSET Nat /\ st.active \in Nat
    BY <1>1, <2>3
  <2>8. [slots |-> st.slots, errors |-> errors, active |-> st.active] \in After(params, args, active_arg, j)
    BY <2>5, <2>6, <2>7, Reached
  <2> QED
    BY <2>1, <2>8
<1>8. CASE K # {}
  <2> DEFINE w == First(K)
             slot == Provide(st.slots[w], Single(j))
             active == IF j = active_arg /\ st.active = 0 THEN w ELSE st.active
             slots == [st.slots EXCEPT ![w] = slot]
  <2>1. w \in O(j) /\ w \in D /\ First(O(j)) = w
    BY <1>2, <1>3, <1>8 DEF O
  <2>2. AssignOne(st, j, K, active_arg) = [slots |-> slots, errors |-> st.errors, active |-> active]
    BY <1>1, <1>8 DEF AssignOne
  <2>3. /\ slot \in SlotRecord /\ slot.param = params[w]
        /\ slot.positional <=> w \in ByPosition(params)
        /\ Simple(params[w]) => slot.providers # {} /\ ~AllSoft(slot)
    <3>1. st.slots[w] \in SlotRecord /\ st.slots[w].param = params[w]
          /\ (st.slots[w].positional <=> w \in ByPosition(params))
      BY <1>1, <2>1 DEF SlotsFit
    <3>2. Single(j) \in Provider /\ Single(j).kind # "kwargs_dict"
      BY ProvidersAre
    <3> HIDE DEF w
    <3>3. /\ slot \in SlotRecord /\ slot.param = params[w]
          /\ slot.positional = st.slots[w].positional
          /\ Simple(params[w]) => slot.providers = {Single(j)}
      BY <3>1, <3>2, ProvideIs
    <3> QED
      BY <3>1, <3>2, <3>3 DEF AllSoft
  <2>4. active \in Nat /\ active = IF active_arg \in 1..j /\ Good(active_arg)
                                   THEN First(O(active_arg)) ELSE 0
    <3>1. w \in Nat /\ active \in Nat
      BY <1>1, <1>2, <2>1
    <3>2. CASE active_arg = j
      <4>1. st.active = 0 /\ Good(active_arg) /\ First(O(active_arg)) = w
        BY <1>1, <1>4, <1>6, <2>1, <3>2
      <4> QED
        BY <1>4, <3>1, <3>2, <4>1
    <3>3. CASE active_arg # j
      <4>1. active = st.active /\ (active_arg \in 1..j <=> active_arg \in 1..j - 1)
        BY <1>4, <3>3
      <4> QED
        BY <1>1, <3>1, <4>1
    <3> QED
      BY <3>2, <3>3
  <2>5. st.errors = {i \in 1..j : Bad(i)}
    BY <1>1, <1>4, <1>5, <2>1
  <2> HIDE DEF w, slot, active
  <2>6. slots \in [D -> SlotRecord]
    BY <1>1, <2>1, <2>3
  <2>7. ASSUME NEW k \in D
        PROVE  /\ slots[k].param = params[k]
               /\ slots[k].positional <=> k \in ByPosition(params)
               /\ Simple(params[k]) =>
                    /\ slots[k].providers = {} <=> k \in Unset(params, args, j)
                    /\ AllSoft(slots[k]) <=> k \in Soft(params, args, j)
    <3>1. CASE k = w
      <4>1. slots[k] = slot
        BY <1>1, <2>1, <3>1
      <4>2. Simple(params[k]) => k \notin Unset(params, args, j) /\ k \notin Soft(params, args, j)
        BY <2>1, <3>1 DEF TakesOne, O
      <4> QED
        BY <2>1, <2>3, <3>1, <4>1, <4>2
    <3>2. CASE k # w
      <4>1. slots[k] = st.slots[k] /\ k \notin O(j)
        BY <1>1, <1>2, <2>1, <3>2
      <4>2. Simple(params[k]) =>
              /\ k \in Unset(params, args, j) <=> k \in Unset(params, args, j - 1)
              /\ k \in Soft(params, args, j) <=> k \in Soft(params, args, j - 1)
        BY <4>1 DEF TakesOne, O
      <4> QED
        BY <1>1, <4>1, <4>2 DEF SlotsFit
    <3> QED
      BY <3>1, <3>2
  <2> HIDE DEF slots
  <2>8. SlotsFit(params, args, slots, j)
    BY <2>7 DEF SlotsFit
  <2>9. StatusFits(params, args, active_arg, st.errors, active, j)
    BY <2>4, <2>5 DEF StatusFits, O, Bad, Good
  <2>10. st.errors \in SUBSET Nat /\ active \in Nat
    BY <1>1, <2>4
  <2>11. [slots |-> slots, errors |-> st.errors, active |-> active] \in After(params, args, active_arg, j)
    BY <2>6, <2>8, <2>9, <2>10, Reached
  <2> QED
    BY <2>2, <2>11
<1> QED
  BY <1>7, <1>8

\* A simple argument takes the slot of its owner alone.
LEMMA TakesOneByPlace ==
  ASSUME NEW params, NEW args, NEW n, Ordered(params, args, n), NEW j \in 1..n, args[j].kind = "simple"
  PROVE  TakesOne(params, args, j)
<1>1. j \in 0..n /\ j - 1 \in 0..n
  BY OrderedIs
<1>2. Owners(params, args, j) = ByPlace(params, args, j - 1)
  BY DEF Owners
<1>3. ASSUME NEW k \in DOMAIN params, Simple(params[k])
      PROVE  /\ k \in Unset(params, args, j) <=>
                  k \in Unset(params, args, j - 1) /\ k \notin Owners(params, args, j)
             /\ k \in Soft(params, args, j) <=>
                  k \in Soft(params, args, j - 1) /\ k \notin Owners(params, args, j)
  <2>1. k \in Filled(params, args, j) <=>
          \/ k \in Filled(params, args, j - 1)
          \/ k \in ByPosition(params) /\ k \in ByPlace(params, args, j - 1)
    BY FilledStep
  <2>2. k \in ByPlace(params, args, j - 1) => k \in ByPosition(params)
    <3>1. k \notin OfKind(params, "args")
      BY <1>3 DEF OfKind, Simple
    <3> QED
      BY <3>1 DEF ByPlace
  <2>3. /\ k \in Unset(params, args, j) <=> k \notin Filled(params, args, j)
        /\ k \in Soft(params, args, j) <=> k \notin Filled(params, args, j)
    BY <1>1, <1>3, SetsByPlace
  <2>4. /\ k \in Unset(params, args, j - 1) <=> k \notin Filled(params, args, j - 1)
        /\ k \in Soft(params, args, j - 1) <=> k \notin Filled(params, args, j - 1)
    BY <1>1, <1>3, SetsByPlace
  <2> QED
    BY <1>2, <2>1, <2>2, <2>3, <2>4
<1> QED
  BY <1>3 DEF TakesOne

\* A parameter without a value may have one in an unpacked dictionary.
LEMMA UnsetIsSoft ==
  ASSUME NEW params, NEW args, NEW d
  PROVE  Unset(params, args, d) \subseteq Soft(params, args, d)
BY DEF Unset, Soft

\* A keyword argument takes the slot of its owner alone.
LEMMA TakesOneByName ==
  ASSUME NEW params, NEW args, NEW j \in Nat \ {0}, args[j].kind = "keyword"
  PROVE  TakesOne(params, args, j)
<1> DEFINE F == ParamOf(params, args[j].name) \cap Soft(params, args, j - 1)
<1>1. Owners(params, args, j) = IF F # {} THEN F ELSE OfKind(params, "kwargs")
  BY DEF Owners, ByName
<1>2. ASSUME NEW k \in DOMAIN params, Simple(params[k])
      PROVE  /\ k \in Unset(params, args, j) <=>
                  k \in Unset(params, args, j - 1) /\ k \notin Owners(params, args, j)
             /\ k \in Soft(params, args, j) <=>
                  k \in Soft(params, args, j - 1) /\ k \notin Owners(params, args, j)
  <2>1. k \notin OfKind(params, "kwargs")
    BY <1>2 DEF OfKind, Simple
  <2>2. k \in F <=> params[k].name = args[j].name /\ k \in Soft(params, args, j - 1)
    BY <1>2 DEF ParamOf
  <2>3. k \in Unset(params, args, j - 1) => k \in Soft(params, args, j - 1)
    BY UnsetIsSoft
  <2>4. /\ k \in Unset(params, args, j) <=>
             k \in Unset(params, args, j - 1) /\ params[k].name # args[j].name
        /\ k \in Soft(params, args, j) <=>
             k \in Soft(params, args, j - 1) /\ params[k].name # args[j].name
    BY <1>2, SetsByName
  <2> HIDE DEF F
  <2>5. k \in Owners(params, args, j) <=> k \in F
    BY <1>1, <2>1
  <2> QED
    BY <2>2, <2>3, <2>4, <2>5
<1> QED
  BY <1>2 DEF TakesOne

\* The first slot that takes a positional argument is that of the next place,
\* or of *args.
LEMMA PlacesAre ==
  ASSUME NEW params, NEW args, NEW n, Ordered(params, args, n), NEW active_arg,
         NEW d \in 0..n, NEW st \in After(params, args, active_arg, d)
  PROVE  /\ \A k \in DOMAIN params : TakesPositional(st.slots[k]) <=>
              k \in ByPosition(params) \ Filled(params, args, d) \/ k \in OfKind(params, "args")
         /\ PositionalSlots(st) = {} <=> ByPlace(params, args, d) = {}
         /\ PositionalSlots(st) # {} => First(PositionalSlots(st)) \in ByPlace(params, args, d)
<1> DEFINE D == DOMAIN params
           P == ByPosition(params)
           A == OfKind(params, "args")
           K == PositionalSlots(st)
           p == Place(args, d) + 1
           B == ByPlace(params, args, d)
           free == P \ Filled(params, args, d)
<1>1. /\ params \in Seq(Param) /\ WellFormed(params) /\ n \in Nat /\ d \in Nat /\ D \subseteq Nat
  BY OrderedIs
<1>2. p \in Nat /\ Place(args, d) \in Nat
  BY <1>1, PlaceIs
<1>3. /\ DOMAIN st.slots = D
      /\ \A k \in D : /\ st.slots[k].param = params[k]
                      /\ st.slots[k].positional <=> k \in P
                      /\ Simple(params[k]) => (st.slots[k].providers = {} <=> k \in Unset(params, args, d))
  BY PartsAre DEF SlotsFit
<1>4. /\ \A k \in P : k \in D /\ params[k].kind = "simple" /\ \A i \in 1..k : i \in P
      /\ \A k \in A : k \in D /\ params[k].kind = "args" /\ \A i \in P : i < k
      /\ \A v, w \in A : v = w
  BY <1>1, ParamsAre DEF OfKind
<1>5. ASSUME NEW k \in D PROVE TakesPositional(st.slots[k]) <=> k \in free \/ k \in A
  <2>1. k \in A <=> params[k].kind = "args"
    BY DEF OfKind
  <2>2. Simple(params[k]) => (k \in Unset(params, args, d) <=> k \notin Filled(params, args, d))
    BY SetsByPlace
  <2>3. k \in P => Simple(params[k])
    BY <1>4 DEF Simple
  <2> QED
    BY <1>3, <2>1, <2>2, <2>3 DEF TakesPositional
<1>6. K = free \cup A
  BY <1>3, <1>4, <1>5 DEF PositionalSlots
<1>7. B = IF p \in P /\ ~Spread(args, d, "unpacked_list") THEN {p} ELSE A
  BY DEF ByPlace
<1>8. \A k \in P : k \in free <=> k >= p /\ ~Spread(args, d, "unpacked_list")
  <2> TAKE k \in P
  <2>1. k \in Nat /\ (k >= p <=> ~(k <= Place(args, d)))
    BY <1>1, <1>2, <1>4
  <2> HIDE DEF p
  <2> QED
    BY <2>1 DEF Filled
<1> HIDE DEF K, B, p, free
<1>9. CASE p \in P /\ ~Spread(args, d, "unpacked_list")
  <2>1. K \subseteq Nat /\ p \in K
    <3>1. free \subseteq P /\ P \subseteq Nat /\ A \subseteq Nat
      BY <1>1, <1>4 DEF free
    <3>2. p >= p
      BY <1>2
    <3>3. p \in free
      BY <1>8, <1>9, <3>2
    <3> QED
      BY <1>6, <3>1, <3>3
  <2>2. \A k \in K : p <= k
    <3> TAKE k \in K
    <3>1. CASE k \in free
      <4>1. k \in P
        BY <3>1 DEF free
      <4> QED
        BY <1>1, <1>2, <1>4, <1>8, <3>1, <4>1
    <3>2. CASE k \in A
      BY <1>1, <1>2, <1>4, <1>9, <3>2
    <3> QED
      BY <1>6, <3>1, <3>2
  <2>3. First(K) = p
    BY <2>1, <2>2, FirstIs
  <2> QED
    BY <1>5, <1>7, <1>9, <2>1, <2>3 DEF K, B, free
<1>10. CASE ~(p \in P /\ ~Spread(args, d, "unpacked_list"))
  <2>1. free = {}
    <3> SUFFICES ASSUME NEW k \in free PROVE FALSE
      OBVIOUS
    <3>1. k \in P /\ k \in Nat /\ k >= p /\ ~Spread(args, d, "unpacked_list")
      BY <1>1, <1>4, <1>8 DEF free
    <3>2. p \in 1..k
      BY <1>2, <3>1 DEF p
    <3> QED
      BY <1>4, <1>10, <3>1, <3>2
  <2>2. K = A /\ B = A
    BY <1>6, <1>7, <1>10, <2>1
  <2>3. ASSUME NEW v \in K PROVE First(K) = v
    BY <1>1, <1>4, <2>2, FirstOwner
  <2> QED
    BY <1>5, <2>2, <2>3 DEF K, B, free
<1> QED
  BY <1>9, <1>10

\* The first slot that takes a keyword argument is that of its name, unless it
\* has been given, or of **kwargs.
LEMMA NamesAre ==
  ASSUME NEW params \in Seq(Param), WellFormed(params), NEW args, NEW active_arg,
         NEW j, NEW st \in After(params, args, active_arg, j - 1)
  PROVE  /\ KeywordSlots(st, args[j].name) = {} <=> ByName(params, args, j) = {}
         /\ KeywordSlots(st, args[j].name) # {} =>
              First(KeywordSlots(st, args[j].name)) \in ByName(params, args, j)
<1> DEFINE K == KeywordSlots(st, args[j].name)
           D == DOMAIN params
           R == OfKind(params, "kwargs")
           F == ParamOf(params, args[j].name) \cap Soft(params, args, j - 1)
           B == ByName(params, args, j)
<1>1. /\ DOMAIN st.slots = D /\ D \subseteq Nat
      /\ \A k \in D : /\ st.slots[k].param = params[k]
                      /\ Simple(params[k]) => (AllSoft(st.slots[k]) <=> k \in Soft(params, args, j - 1))
  BY PartsAre DEF SlotsFit
<1>2. /\ \A k \in R : k \in D /\ params[k].kind = "kwargs" /\ \A i \in D : i <= k
      /\ \A v, w \in R : v = w
  BY ParamsAre DEF OfKind
<1>3. F \subseteq D /\ \A v, w \in F : v = w
  <2>1. \A v \in F : v \in D /\ Simple(params[v]) /\ params[v].name = args[j].name
    BY DEF ParamOf
  <2> HIDE DEF F
  <2>2. \A v, w \in F : v = w
    BY <2>1, ParamsAre
  <2> QED
    BY <2>1, <2>2
<1>4. K = F \cup R
  <2>1. ASSUME NEW k \in D PROVE TakesKeyword(st.slots[k], args[j].name) <=> k \in F \/ k \in R
    <3>1. TakesKeyword(st.slots[k], args[j].name) <=>
            \/ params[k].kind = "kwargs"
            \/ Simple(params[k]) /\ params[k].name = args[j].name /\ AllSoft(st.slots[k])
      BY <1>1 DEF TakesKeyword, AllSoft
    <3>2. k \in R <=> params[k].kind = "kwargs"
      BY DEF OfKind
    <3>3. k \in F <=> /\ Simple(params[k]) /\ params[k].name = args[j].name
                      /\ k \in Soft(params, args, j - 1)
      BY DEF ParamOf
    <3> HIDE DEF F, R
    <3> QED
      BY <1>1, <3>1, <3>2, <3>3
  <2> QED
    BY <1>1, <1>2, <1>3, <2>1 DEF KeywordSlots
<1>5. B = IF F # {} THEN F ELSE R
  BY DEF ByName
<1> HIDE DEF K, B, F, R
<1>6. CASE F # {}
  <2>1. PICK v : v \in F
    BY <1>6
  <2>2. v \in K /\ K \subseteq Nat
    BY <1>1, <1>2, <1>3, <1>4, <2>1
  <2>3. \A k \in K : v <= k
    <3> TAKE k \in K
    <3>1. v \in Nat /\ k \in Nat
      BY <2>2
    <3>2. k \in F => k = v
      BY <1>3, <2>1
    <3>3. k \in R => v <= k
      BY <1>2, <1>3, <2>1
    <3> QED
      BY <1>4, <3>1, <3>2, <3>3
  <2>4. First(K) = v
    BY <2>2, <2>3, FirstIs
  <2> QED
    BY <1>5, <1>6, <2>1, <2>2, <2>4 DEF K, B
<1>7. CASE F = {}
  <2>1. B = R /\ K = R
    BY <1>4, <1>5, <1>7
  <2>2. ASSUME NEW v \in K PROVE First(K) = v
    BY <1>1, <1>2, <2>1, FirstOwner
  <2> QED
    BY <2>1, <2>2 DEF K, B
<1> QED
  BY <1>6, <1>7

\* An unpacked argument changes the slots alone.
LEMMA Broadcast ==
  ASSUME NEW params, NEW args, NEW active_arg, NEW j \in Nat \ {0}, ~WrittenOut(args[j]),
         NEW st \in After(params, args, active_arg, j - 1),
         NEW slots \in [DOMAIN params -> SlotRecord], SlotsFit(params, args, slots, j)
  PROVE  [st EXCEPT !.slots = slots] \in After(params, args, active_arg, j)
<1>1. /\ st = [slots |-> st.slots, errors |-> st.errors, active |-> st.active]
      /\ st.errors \in SUBSET Nat /\ st.active \in Nat
      /\ StatusFits(params, args, active_arg, st.errors, st.active, j - 1)
  BY PartsAre
<1>2. [st EXCEPT !.slots = slots] = [slots |-> slots, errors |-> st.errors, active |-> st.active]
  BY <1>1
<1>3. 1..j = (1..j - 1) \cup {j}
  OBVIOUS
<1>4. ~Lost(params, args, j) /\ ~Kept(params, args, j)
  BY DEF Lost, Kept
<1> DEFINE errors == st.errors
           active == st.active
<1>5. errors \in SUBSET Nat /\ active \in Nat /\ StatusFits(params, args, active_arg, errors, active, j - 1)
  BY <1>1
<1>6. [st EXCEPT !.slots = slots] = [slots |-> slots, errors |-> errors, active |-> active]
  BY <1>2
<1> HIDE DEF errors, active
<1>7. StatusFits(params, args, active_arg, errors, active, j)
  <2>1. errors = {i \in 1..j : Lost(params, args, i)}
    BY <1>3, <1>4, <1>5 DEF StatusFits
  <2>2. active_arg \in 1..j /\ Kept(params, args, active_arg)
          <=> active_arg \in 1..j - 1 /\ Kept(params, args, active_arg)
    BY <1>3, <1>4
  <2> QED
    BY <1>5, <2>1, <2>2 DEF StatusFits
<1>8. [slots |-> slots, errors |-> errors, active |-> active] \in After(params, args, active_arg, j)
  BY <1>5, <1>7, Reached
<1> QED
  BY <1>6, <1>8

\* An unpacked list may give every parameter by position that has no value one.
LEMMA ListStep ==
  ASSUME NEW params, NEW args, NEW n, Ordered(params, args, n), NEW active_arg,
         NEW j \in 1..n, args[j].kind = "unpacked_list", NEW st \in After(params, args, active_arg, j - 1)
  PROVE  AssignPositional(st, args[j], j, active_arg) \in After(params, args, active_arg, j)
<1> DEFINE D == DOMAIN params
           P == ByPosition(params)
           old == st.slots
           slots == [k \in DOMAIN old |-> IF TakesPositional(old[k])
                                          THEN Provide(old[k], ArgsList(j)) ELSE old[k]]
<1>1. /\ j \in Nat \ {0} /\ j - 1 \in 0..n /\ j \in 0..n /\ j \in Nat
  BY OrderedIs
<1>2. AssignPositional(st, args[j], j, active_arg) = [st EXCEPT !.slots = slots]
  BY DEF AssignPositional
<1>3. old \in [D -> SlotRecord] /\ DOMAIN old = D /\ SlotsFit(params, args, old, j - 1)
  BY PartsAre
<1>4. \A k \in D : TakesPositional(old[k]) <=>
        k \in P \ Filled(params, args, j - 1) \/ k \in OfKind(params, "args")
  BY <1>1, PlacesAre
<1> HIDE DEF old
<1>5. ArgsList(j) \in Provider /\ ArgsList(j).kind # "kwargs_dict"
  BY <1>1, ProvidersAre
<1>6. \A k \in D : /\ Provide(old[k], ArgsList(j)) \in SlotRecord
                   /\ Provide(old[k], ArgsList(j)).param = old[k].param
                   /\ Provide(old[k], ArgsList(j)).positional = old[k].positional
                   /\ Simple(old[k].param) => Provide(old[k], ArgsList(j)).providers = {ArgsList(j)}
  BY <1>3, <1>5, ProvideIs
<1>7. slots \in [D -> SlotRecord]
  BY <1>3, <1>6
<1>8. ASSUME NEW k \in D
      PROVE  /\ slots[k].param = params[k]
             /\ slots[k].positional <=> k \in P
             /\ Simple(params[k]) =>
                  /\ slots[k].providers = {} <=> k \in Unset(params, args, j)
                  /\ AllSoft(slots[k]) <=> k \in Soft(params, args, j)
  <2>1. /\ old[k].param = params[k]
        /\ old[k].positional <=> k \in P
        /\ Simple(params[k]) =>
             /\ old[k].providers = {} <=> k \in Unset(params, args, j - 1)
             /\ AllSoft(old[k]) <=> k \in Soft(params, args, j - 1)
    BY <1>3 DEF SlotsFit
  <2>2. /\ k \in Unset(params, args, j - 1) <=> Simple(params[k]) /\ k \notin Filled(params, args, j - 1)
        /\ k \in Soft(params, args, j - 1) <=> Simple(params[k]) /\ k \notin Filled(params, args, j - 1)
    BY <1>1, SetsByPlace
  <2>3. /\ k \in Unset(params, args, j) <=> Simple(params[k]) /\ k \notin Filled(params, args, j)
        /\ k \in Soft(params, args, j) <=> Simple(params[k]) /\ k \notin Filled(params, args, j)
    BY <1>1, SetsByPlace
  <2>4. k \in Filled(params, args, j) <=> k \in P
    BY FilledStep
  <2>5. Simple(params[k]) => k \notin OfKind(params, "args")
    BY DEF OfKind, Simple
  <2>6. CASE TakesPositional(old[k])
    <3>1. slots[k] = Provide(old[k], ArgsList(j))
      BY <1>3, <2>6
    <3>2. Simple(params[k]) => slots[k].providers # {} /\ ~AllSoft(slots[k])
      BY <1>5, <1>6, <2>1, <3>1 DEF AllSoft
    <3>3. Simple(params[k]) => k \in P
      BY <1>4, <2>5, <2>6
    <3> HIDE DEF slots
    <3> QED
      BY <1>6, <2>1, <2>3, <2>4, <3>1, <3>2, <3>3
  <2>7. CASE ~TakesPositional(old[k])
    <3>1. slots[k] = old[k]
      BY <1>3, <2>7
    <3>2. k \in P => k \in Filled(params, args, j - 1)
      BY <1>4, <2>7
    <3>3. k \in Filled(params, args, j - 1) => k \in P
      BY DEF Filled
    <3> HIDE DEF slots
    <3> QED
      BY <2>1, <2>2, <2>3, <2>4, <3>1, <3>2, <3>3
  <2> QED
    BY <2>6, <2>7
<1> HIDE DEF slots
<1>9. SlotsFit(params, args, slots, j)
  BY <1>8 DEF SlotsFit
<1>10. ~WrittenOut(args[j])
  BY DEF WrittenOut
<1> QED
  BY <1>1, <1>2, <1>7, <1>9, <1>10, Broadcast

\* An unpacked dictionary may give any parameter a value.
LEMMA DictStep ==
  ASSUME NEW params, NEW args, NEW active_arg, NEW j \in Nat \ {0}, args[j].kind = "unpacked_dict",
         NEW st \in After(params, args, active_arg, j - 1)
  PROVE  AssignKeyword(st, args[j], j, active_arg) \in After(params, args, active_arg, j)
<1> DEFINE D == DOMAIN params
           P == ByPosition(params)
           old == st.slots
           slots == [k \in DOMAIN old |-> IF old[k].param.kind \in {"simple", "kwargs"}
                                          THEN Provide(old[k], KwargsDict(j)) ELSE old[k]]
<1>1. AssignKeyword(st, args[j], j, active_arg) = [st EXCEPT !.slots = slots]
  BY DEF AssignKeyword
<1>2. old \in [D -> SlotRecord] /\ DOMAIN old = D /\ SlotsFit(params, args, old, j - 1)
  BY PartsAre
<1> HIDE DEF old
<1>3. KwargsDict(j) \in Provider /\ KwargsDict(j).kind = "kwargs_dict"
  BY ProvidersAre
<1>4. \A k \in D : /\ Provide(old[k], KwargsDict(j)) \in SlotRecord
                   /\ Provide(old[k], KwargsDict(j)).param = old[k].param
                   /\ Provide(old[k], KwargsDict(j)).positional = old[k].positional
                   /\ Simple(old[k].param) => Provide(old[k], KwargsDict(j)).providers = {KwargsDict(j)}
  BY <1>2, <1>3, ProvideIs
<1>5. slots \in [D -> SlotRecord]
  BY <1>2, <1>4
<1>6. ASSUME NEW k \in D
      PROVE  /\ slots[k].param = params[k]
             /\ slots[k].positional <=> k \in P
             /\ Simple(params[k]) =>
                  /\ slots[k].providers = {} <=> k \in Unset(params, args, j)
                  /\ AllSoft(slots[k]) <=> k \in Soft(params, args, j)
  <2>1. /\ old[k].param = params[k]
        /\ old[k].positional <=> k \in P
    BY <1>2 DEF SlotsFit
  <2>2. slots[k] = old[k] \/ slots[k] = Provide(old[k], KwargsDict(j))
    BY <1>2
  <2>3. Simple(params[k]) => slots[k] = Provide(old[k], KwargsDict(j))
    BY <1>2, <2>1 DEF Simple
  <2>4. Simple(params[k]) => k \notin Unset(params, args, j) /\ k \in Soft(params, args, j)
    BY SetsByDict
  <2> HIDE DEF slots
  <2>5. Simple(params[k]) => slots[k].providers # {} /\ AllSoft(slots[k])
    BY <1>3, <1>4, <2>1, <2>3 DEF AllSoft
  <2> QED
    BY <1>4, <2>1, <2>2, <2>4, <2>5
<1> HIDE DEF slots
<1>7. SlotsFit(params, args, slots, j)
  BY <1>6 DEF SlotsFit
<1>8. ~WrittenOut(args[j])
  BY DEF WrittenOut
<1> QED
  BY <1>1, <1>5, <1>7, <1>8, Broadcast

\* Before the passes no slot has a provider.
LEMMA NoneIs ==
  ASSUME NEW params, NEW args, NEW n, Ordered(params, args, n), NEW active_arg
  PROVE  NoneAssigned(params) \in After(params, args, active_arg, 0)
<1> DEFINE slots == [k \in DOMAIN params |-> Slot(params, k)]
<1>1. params \in Seq(Param) /\ WellFormed(params) /\ 0 \in 0..n
  BY OrderedIs
<1>2. NoneAssigned(params) = [slots |-> slots, errors |-> {}, active |-> 0]
  BY <1>1, SlotsAre DEF NoneAssigned
<1>3. \A k \in DOMAIN params :
        /\ Slot(params, k) \in SlotRecord /\ Slot(params, k).param = params[k]
        /\ Slot(params, k).positional <=> k \in ByPosition(params)
        /\ Slot(params, k).providers = {}
  BY <1>1, SlotsAre
<1>4. slots \in [DOMAIN params -> SlotRecord]
  BY <1>3
<1>5. Filled(params, args, 0) = {}
  <2>1. 1..0 = {} /\ Place(args, 0) = 0
    BY PlaceIs
  <2>2. \A k \in ByPosition(params) : ~(k <= 0)
    <3>1. \A k \in ByPosition(params) : k \in 1..Len(params)
      BY <1>1, ParamsAre
    <3> QED
      BY <3>1
  <2> QED
    BY <2>1, <2>2 DEF Filled, Spread
<1>6. \A k \in DOMAIN params : Simple(params[k]) =>
        k \in Unset(params, args, 0) /\ k \in Soft(params, args, 0)
  BY <1>1, <1>5, SetsByPlace
<1>7. \A k \in DOMAIN params : slots[k] = Slot(params, k) /\ slots[k].providers = {} /\ AllSoft(slots[k])
  BY <1>3 DEF AllSoft
<1>8. SlotsFit(params, args, slots, 0)
  <2> HIDE DEF slots
  <2> QED
    BY <1>3, <1>6, <1>7 DEF SlotsFit
<1>9. StatusFits(params, args, active_arg, {}, 0, 0)
  <2>1. 1..0 = {}
    OBVIOUS
  <2> QED
    BY <2>1 DEF StatusFits
<1> HIDE DEF slots
<1>10. [slots |-> slots, errors |-> {}, active |-> 0] \in After(params, args, active_arg, 0)
  BY <1>4, <1>8, <1>9, Reached
<1> QED
  BY <1>2, <1>10

\* The two passes: each argument is where it goes.
LEMMA PassesAre ==
  ASSUME NEW params, NEW args, NEW n, Ordered(params, args, n), NEW active_arg \in Nat
  PROVE  AllAssigned(params, args, active_arg) \in After(params, args, active_arg, Len(args))
<1> DEFINE m == Len(args)
           At(d) == After(params, args, active_arg, d)
           First1 == [i \in 0..m |-> At(IF i <= n THEN i ELSE n)]
           Second == [i \in 0..m |-> At(IF i <= n THEN n ELSE i)]
<1>1. /\ m \in Nat /\ n \in 0..m /\ n \in Nat /\ params \in Seq(Param) /\ WellFormed(params)
      /\ \A i \in 1..n : args[i].kind \in {"simple", "unpacked_list"}
      /\ \A i \in n + 1..m : args[i].kind \in {"keyword", "unpacked_dict"}
  BY OrderedIs
<1>2. AllPositional(params, args, active_arg) \in First1[m]
  <2>1. NoneAssigned(params) \in First1[0]
    BY <1>1, NoneIs
  <2>2. ASSUME NEW i \in 1..m, NEW st \in First1[i - 1]
        PROVE  AssignPositional(st, args[i], i, active_arg) \in First1[i]
    <3>1. CASE i <= n
      <4>1. st \in At(i - 1) /\ First1[i] = At(i) /\ i \in Nat \ {0} /\ i \in 1..n /\ i - 1 \in 0..n
        BY <1>1, <3>1
      <4>2. CASE args[i].kind = "simple"
        <5>1. AssignPositional(st, args[i], i, active_arg) = AssignOne(st, i, PositionalSlots(st), active_arg)
          BY <4>2 DEF AssignPositional
        <5>2. Owners(params, args, i) = ByPlace(params, args, i - 1)
          BY <4>2 DEF Owners
        <5>3. /\ PositionalSlots(st) = {} <=> Owners(params, args, i) = {}
              /\ PositionalSlots(st) # {} => First(PositionalSlots(st)) \in Owners(params, args, i)
          BY <4>1, <5>2, PlacesAre
        <5>4. TakesOne(params, args, i) /\ WrittenOut(args[i])
          BY <4>1, <4>2, TakesOneByPlace DEF WrittenOut
        <5>5. AssignOne(st, i, PositionalSlots(st), active_arg) \in At(i)
          BY <1>1, <4>1, <5>3, <5>4, AssignOneStep
        <5> QED
          BY <4>1, <5>1, <5>5
      <4>3. CASE args[i].kind = "unpacked_list"
        BY <4>1, <4>3, ListStep
      <4> QED
        BY <1>1, <4>1, <4>2, <4>3
    <3>2. CASE ~(i <= n)
      <4>1. st \in At(n) /\ First1[i] = At(n) /\ i \in n + 1..m
        BY <1>1, <3>2
      <4>2. AssignPositional(st, args[i], i, active_arg) = st
        BY <1>1, <4>1 DEF AssignPositional
      <4> QED
        BY <4>1, <4>2
    <3> QED
      BY <3>1, <3>2
  <2> HIDE DEF First1
  <2> QED
    BY <1>1, <2>1, <2>2, PositionalPass
<1>3. AllAssigned(params, args, active_arg) \in Second[m]
  <2>1. AllPositional(params, args, active_arg) \in Second[0]
    BY <1>1, <1>2
  <2>2. ASSUME NEW i \in 1..m, NEW st \in Second[i - 1]
        PROVE  AssignKeyword(st, args[i], i, active_arg) \in Second[i]
    <3>1. CASE i <= n
      <4>1. st \in At(n) /\ Second[i] = At(n) /\ i \in 1..n
        BY <1>1, <3>1
      <4>2. AssignKeyword(st, args[i], i, active_arg) = st
        BY <1>1, <4>1 DEF AssignKeyword
      <4> QED
        BY <4>1, <4>2
    <3>2. CASE ~(i <= n)
      <4> DEFINE K == KeywordSlots(st, args[i].name)
      <4>1. st \in At(i - 1) /\ Second[i] = At(i) /\ i \in n + 1..m /\ i \in Nat \ {0}
        BY <1>1, <3>2
      <4>2. CASE args[i].kind = "keyword"
        <5>1. AssignKeyword(st, args[i], i, active_arg) = AssignOne(st, i, K, active_arg)
          BY <4>2 DEF AssignKeyword
        <5>2. Owners(params, args, i) = ByName(params, args, i)
          BY <4>2 DEF Owners
        <5>3. /\ K = {} <=> Owners(params, args, i) = {}
              /\ K # {} => First(K) \in Owners(params, args, i)
          <6>1. st \in After(params, args, active_arg, i - 1) /\ params \in Seq(Param) /\ WellFormed(params)
            BY <1>1, <4>1
          <6> QED
            BY <5>2, <6>1, NamesAre
        <5>4. TakesOne(params, args, i) /\ WrittenOut(args[i])
          BY <4>1, <4>2, TakesOneByName DEF WrittenOut
        <5> HIDE DEF K
        <5>5. AssignOne(st, i, K, active_arg) \in At(i)
          BY <1>1, <4>1, <5>3, <5>4, AssignOneStep
        <5> QED
          BY <4>1, <5>1, <5>5
      <4>3. CASE args[i].kind = "unpacked_dict"
        BY <4>1, <4>3, DictStep
      <4> QED
        BY <1>1, <4>1, <4>2, <4>3
    <3> QED
      BY <3>1, <3>2
  <2> HIDE DEF Second
  <2> QED
    BY <1>1, <2>1, <2>2, KeywordPass
<1>4. Second[m] = At(m)
  BY <1>1
<1> QED
  BY <1>3, <1>4

-----------------------------------------------------------------------------
\* The arguments by position come before those by name if none is misplaced.
LEMMA InOrder ==
  ASSUME NEW params \in Seq(Param), WellFormed(params), NEW args \in Seq(Arg), Misplaced(args) = {}
  PROVE  \E n \in 0..Len(args) : Ordered(params, args, n)
<1> DEFINE m == Len(args)
           named == {i \in 1..m : Named(args[i])}
<1>1. m \in Nat /\ DOMAIN args = 1..m /\ named \subseteq Nat
  OBVIOUS
<1>2. ASSUME NEW i \in 1..m
      PROVE  /\ ~Named(args[i]) => args[i].kind \in {"simple", "unpacked_list"}
             /\ Named(args[i]) => args[i].kind \in {"keyword", "unpacked_dict"}
  <2>1. args[i] \in Arg
    OBVIOUS
  <2>2. args[i].kind \in {"simple", "unpacked_list", "unpacked_dict", "keyword"}
    BY <2>1 DEF Arg
  <2> QED
    BY <2>2 DEF Named
<1>3. CASE named = {}
  <2>1. /\ m \in 0..m /\ m + 1..m = {}
        /\ \A i \in 1..m : args[i].kind \in {"simple", "unpacked_list"}
    BY <1>1, <1>2, <1>3
  <2>2. Ordered(params, args, m)
    BY <2>1 DEF Ordered
  <2> QED
    BY <2>1, <2>2
<1>4. CASE named # {}
  <2>1. PICK w \in named : \A k \in named : w <= k
    <3> HIDE DEF named
    <3> QED
      BY <1>1, <1>4, Least
  <2>2. w - 1 \in 0..m /\ w \in 1..m /\ Named(args[w])
    BY <1>1, <2>1
  <2>3. ASSUME NEW i \in 1..w - 1 PROVE args[i].kind \in {"simple", "unpacked_list"}
    <3>1. i \in 1..m /\ ~(w <= i)
      BY <1>1, <2>2
    <3> QED
      BY <1>1, <1>2, <2>1, <3>1
  <2>4. ASSUME NEW i \in (w - 1) + 1..m PROVE args[i].kind \in {"keyword", "unpacked_dict"}
    <3>1. CASE i = w
      BY <1>2, <2>2, <3>1
    <3>2. CASE i # w
      <4>1. i \in 1..m /\ w \in 1..i - 1
        BY <1>1, <2>2, <3>2
      <4>2. Named(args[i])
        BY <1>1, <2>2, <4>1 DEF Misplaced
      <4> QED
        BY <1>2, <4>1, <4>2
    <3> QED
      BY <3>1, <3>2
  <2>5. Ordered(params, args, w - 1)
    BY <2>2, <2>3, <2>4 DEF Ordered
  <2> QED
    BY <2>2, <2>5
<1> QED
  BY <1>3, <1>4

\* What the arguments by name leave filled is what those by position fill.
LEMMA FilledIs ==
  ASSUME NEW params, NEW args, NEW n, Ordered(params, args, n), NEW d \in n..Len(args)
  PROVE  /\ Place(args, d) = Place(args, n)
         /\ Spread(args, d, "unpacked_list") <=> Lists(args) # {}
         /\ Filled(params, args, d) = Filled(params, args, n)
<1>1. /\ Len(args) \in Nat /\ DOMAIN args = 1..Len(args) /\ n \in Nat /\ d \in Nat
      /\ \A i \in 1..Len(args) : args[i].kind \in {"simple", "unpacked_list"} => i <= n
      /\ n \in 0..Len(args)
  BY OrderedIs
<1>2. \A i \in 1..d : i \in 1..Len(args)
  BY <1>1
<1>3. \A i \in 1..Len(args) : i <= n => i \in 1..n /\ i \in 1..d
  BY <1>1
<1>4. \A i \in 1..n : i \in 1..d
  BY <1>1
<1>5. {i \in 1..d : args[i].kind = "simple"} = {i \in 1..n : args[i].kind = "simple"}
  BY <1>1, <1>2, <1>3, <1>4
<1>6. Place(args, d) = Place(args, n)
  BY <1>5 DEF Place
<1>7. /\ Spread(args, d, "unpacked_list") <=> Lists(args) # {}
      /\ Spread(args, n, "unpacked_list") <=> Lists(args) # {}
  BY <1>1, <1>2, <1>3, <1>4 DEF Spread, Lists
<1> QED
  BY <1>6, <1>7 DEF Filled

\* When a call that is in order is accepted.
LEMMA AcceptedIs ==
  ASSUME NEW params, NEW args, NEW n, Ordered(params, args, n)
  PROVE  /\ Misplaced(args) = {}
         /\ Accepted(params, args) <=>
              /\ \A i \in 1..Len(args) : ~Lost(params, args, i)
              /\ \A k \in DOMAIN params :
                   Simple(params[k]) /\ ~params[k].optional => k \notin Unset(params, args, Len(args))
<1> DEFINE st == AllAssigned(params, args, 0)
<1>1. /\ Len(args) \in Nat /\ DOMAIN args = 1..Len(args) /\ n \in Nat
      /\ \A i \in 1..Len(args) : args[i].kind \in {"simple", "unpacked_list"} => i <= n
      /\ \A i \in 1..Len(args) : args[i].kind \in {"keyword", "unpacked_dict"} => i > n
      /\ args \in Seq(Arg)
  BY OrderedIs
<1>2. Misplaced(args) = {}
  <2> SUFFICES ASSUME NEW i \in Misplaced(args) PROVE FALSE
    OBVIOUS
  <2>1. i \in 1..Len(args) /\ ~Named(args[i]) /\ \E j \in 1..i - 1 : Named(args[j])
    BY <1>1 DEF Misplaced
  <2>2. PICK j \in 1..i - 1 : Named(args[j])
    BY <2>1
  <2>3. j \in 1..Len(args) /\ j < i
    BY <1>1, <2>1
  <2>4. args[i].kind \in {"simple", "unpacked_list"}
    <3>1. args[i] \in Arg
      BY <1>1, <2>1
    <3>2. args[i].kind \in {"simple", "unpacked_list", "unpacked_dict", "keyword"}
      BY <3>1 DEF Arg
    <3> QED
      BY <2>1, <3>2 DEF Named
  <2>5. i <= n /\ j > n
    BY <1>1, <2>1, <2>2, <2>3, <2>4 DEF Named
  <2>6. i \in Nat /\ j \in Nat /\ n \in Nat
    BY <1>1, <2>1, <2>3
  <2> QED
    BY <2>3, <2>5, <2>6
<1>3. AssignArgs(params, args, 0) = st
  <2>1. 0 # Len(args) + 1
    BY <1>1
  <2> QED
    BY <2>1 DEF AssignArgs
<1>4. st \in After(params, args, 0, Len(args))
  BY PassesAre
<1> HIDE DEF st
<1>5. /\ DOMAIN st.slots = DOMAIN params
      /\ \A k \in DOMAIN params :
           /\ st.slots[k].param = params[k]
           /\ Simple(params[k]) => (st.slots[k].providers = {} <=> k \in Unset(params, args, Len(args)))
      /\ st.errors = {i \in 1..Len(args) : Lost(params, args, i)}
  BY <1>4, PartsAre DEF SlotsFit, StatusFits
<1>6. MissingParams(st.slots) = {} <=>
        \A k \in DOMAIN params :
          Simple(params[k]) /\ ~params[k].optional => k \notin Unset(params, args, Len(args))
  BY <1>5 DEF MissingParams
<1>7. st.errors = {} <=> \A i \in 1..Len(args) : ~Lost(params, args, i)
  BY <1>5
<1> QED
  BY <1>2, <1>3, <1>6, <1>7 DEF Accepted

\* The parameters that some names give a value.
GivenBy(params, names) ==
  {k \in DOMAIN params : \E i \in DOMAIN names : \E name \in names[i] : k \in ParamOf(params, name)}

\* What it is that names bind, in parts.
LEMMA BindsIs ==
  ASSUME NEW params, NEW n, NEW names
  PROVE  Binds(params, n, names) <=>
           /\ n <= Cardinality(ByPosition(params)) \/ Has(params, "args")
           /\ \A i, j \in DOMAIN names : i # j => names[i] \cap names[j] = {}
           /\ {k \in ByPosition(params) : k <= n} \cap GivenBy(params, names) = {}
           /\ \A i \in DOMAIN names : \A name \in names[i] :
                ParamOf(params, name) # {} \/ Has(params, "kwargs")
           /\ \A k \in DOMAIN params : Simple(params[k]) =>
                params[k].optional \/ k \in {l \in ByPosition(params) : l <= n} \cup GivenBy(params, names)
BY Zenon DEF Binds, GivenBy

\* No simple argument follows an unpacked list, and no keyword of a parameter by
\* position does.
ListsAreLast(params, args) ==
  \A i \in Lists(args), j \in DOMAIN args : i < j =>
    /\ args[j].kind # "simple"
    /\ args[j].kind = "keyword" => ParamOf(params, args[j].name) \cap ByPosition(params) = {}

\* The arguments bind, the unpacked lists with so many elements and the unpacked
\* dictionaries with these names.
BindsWith(params, args, more, held) ==
  more \in Nat /\ Binds(params, Place(args, Len(args)) + more, GivenNames(args, held))

\* The name of a keyword argument is among those given.
LEMMA GivenNamesAre ==
  ASSUME NEW args, NEW held
  PROVE  /\ DOMAIN GivenNames(args, held) = DOMAIN args
         /\ \A i \in DOMAIN args :
              /\ args[i].kind = "keyword" => GivenNames(args, held)[i] = {args[i].name}
              /\ args[i].kind = "unpacked_dict" => GivenNames(args, held)[i] = held[i]
              /\ args[i].kind \notin {"keyword", "unpacked_dict"} => GivenNames(args, held)[i] = {}
<1>1. DOMAIN GivenNames(args, held) = DOMAIN args
  BY DEF GivenNames
<1>2. ASSUME NEW i \in DOMAIN args
      PROVE  /\ args[i].kind = "keyword" => GivenNames(args, held)[i] = {args[i].name}
             /\ args[i].kind = "unpacked_dict" => GivenNames(args, held)[i] = held[i]
             /\ args[i].kind \notin {"keyword", "unpacked_dict"} => GivenNames(args, held)[i] = {}
  <2>1. GivenNames(args, held)[i] = CASE args[i].kind = "unpacked_dict" -> held[i]
                                      [] args[i].kind = "keyword"       -> {args[i].name}
                                      [] OTHER                          -> {}
    BY DEF GivenNames
  <2> QED
    BY <2>1
<1> QED
  BY <1>1, <1>2

\* In a call that binds, the parameter of a name is free for the argument.
LEMMA NamesAreFree ==
  ASSUME NEW params, NEW args, NEW n, Ordered(params, args, n), NEW more, NEW held,
         BindsWith(params, args, more, held), ListsAreLast(params, args),
         NEW j \in 1..Len(args), args[j].kind = "keyword", NEW k \in ParamOf(params, args[j].name)
  PROVE  k \in Soft(params, args, j - 1)
<1> DEFINE m == Len(args)
           P == ByPosition(params)
           names == GivenNames(args, held)
           total == Place(args, m) + more
<1>1. /\ m \in Nat /\ DOMAIN args = 1..m /\ n \in 0..m /\ n \in Nat /\ j > n
      /\ \A i \in 1..m : args[i].kind \in {"simple", "unpacked_list"} => i <= n
      /\ DOMAIN params \subseteq Nat
  BY OrderedIs
<1>2. /\ k \in DOMAIN params /\ Simple(params[k]) /\ params[k].name = args[j].name
  BY DEF ParamOf
<1>3. /\ more \in Nat
      /\ \A i, h \in DOMAIN names : i # h => names[i] \cap names[h] = {}
      /\ {l \in P : l <= total} \cap GivenBy(params, names) = {}
  BY BindsIs DEF BindsWith
<1>4. /\ DOMAIN names = 1..m
      /\ \A i \in 1..m : args[i].kind = "keyword" => names[i] = {args[i].name}
  BY <1>1, GivenNamesAre
<1> HIDE DEF names
<1>5. k \in GivenBy(params, names)
  <2>1. args[j].name \in names[j]
    BY <1>4
  <2> QED
    BY <1>2, <1>4, <2>1 DEF GivenBy
<1>6. j - 1 \in n..m /\ n \in n..m /\ m \in n..m /\ 1..j - 1 \subseteq 1..m /\ j \notin 1..j - 1
  BY <1>1
<1>7. Place(args, j - 1) = Place(args, m) /\ Place(args, m) \in Nat
  <2>1. Place(args, j - 1) = Place(args, n) /\ Place(args, m) = Place(args, n)
    BY <1>6, FilledIs
  <2> QED
    BY <1>1, <2>1, PlaceIs
<1>8. k \notin Filled(params, args, j - 1)
  <2> SUFFICES ASSUME k \in Filled(params, args, j - 1) PROVE FALSE
    OBVIOUS
  <2>1. k \in P /\ k \in Nat
    BY <1>1 DEF Filled, ByPosition
  <2>2. CASE Spread(args, j - 1, "unpacked_list")
    <3>1. PICK e \in 1..j - 1 : args[e].kind = "unpacked_list"
      BY <2>2 DEF Spread
    <3>2. e \in Lists(args) /\ e < j
      BY <1>1, <1>6, <3>1 DEF Lists
    <3>3. ParamOf(params, args[j].name) \cap P = {}
      BY <1>1, <3>2 DEF ListsAreLast
    <3> QED
      BY <2>1, <3>3
  <2>3. CASE ~Spread(args, j - 1, "unpacked_list")
    <3>1. k <= Place(args, j - 1)
      BY <2>3 DEF Filled
    <3>2. k <= total
      BY <1>3, <1>7, <2>1, <3>1
    <3> HIDE DEF total
    <3> QED
      BY <1>3, <1>5, <2>1, <3>2
  <2> QED
    BY <2>2, <2>3
<1>9. ~Told(params, args, k, 0, j - 1)
  <2> SUFFICES ASSUME Told(params, args, k, 0, j - 1) PROVE FALSE
    OBVIOUS
  <2>1. PICK i \in 0 + 1..j - 1 : args[i].kind = "keyword" /\ params[k].name = args[i].name
    BY DEF Told
  <2>2. i \in 1..m /\ i # j
    BY <1>6, <2>1
  <2>3. names[i] = {args[i].name} /\ names[j] = {args[j].name}
    BY <1>4, <2>1, <2>2
  <2>4. names[i] \cap names[j] = {}
    BY <1>3, <1>4, <2>2
  <2> QED
    BY <1>2, <2>1, <2>3, <2>4
<1> QED
  BY <1>2, <1>8, <1>9 DEF Soft

\* A call that binds is accepted, unless something that an unpacked list may hold
\* follows it: an argument by position has a place or *args, and a name that is
\* given once, and not by position as well, is free.
LEMMA BoundIsAccepted ==
  ASSUME NEW params, NEW args, NEW n, Ordered(params, args, n), NEW more, NEW held,
         BindsWith(params, args, more, held), more = 0 \/ Lists(args) # {},
         ListsAreLast(params, args)
  PROVE  Accepted(params, args)
<1> DEFINE m == Len(args)
           P == ByPosition(params)
           names == GivenNames(args, held)
           total == Place(args, m) + more
<1>1. /\ m \in Nat /\ DOMAIN args = 1..m /\ n \in 0..m /\ n \in Nat
      /\ params \in Seq(Param) /\ WellFormed(params) /\ DOMAIN params \subseteq Nat
      /\ \A i \in 1..m : args[i].kind \in {"simple", "unpacked_list"} => i <= n
  BY OrderedIs
<1>2. /\ more \in Nat
      /\ total <= Cardinality(P) \/ Has(params, "args")
      /\ \A i \in DOMAIN names : \A name \in names[i] : ParamOf(params, name) # {} \/ Has(params, "kwargs")
      /\ \A k \in DOMAIN params : Simple(params[k]) =>
           params[k].optional \/ k \in {l \in P : l <= total} \cup GivenBy(params, names)
  BY BindsIs DEF BindsWith
<1>3. /\ DOMAIN names = 1..m
      /\ \A i \in 1..m : /\ args[i].kind = "keyword" => names[i] = {args[i].name}
                         /\ args[i].kind \notin {"keyword", "unpacked_dict"} => names[i] = {}
  BY <1>1, GivenNamesAre
<1> HIDE DEF names
<1>4. Place(args, m) \in Nat /\ Cardinality(P) \in Nat /\ P = 1..Cardinality(P) /\ P \subseteq DOMAIN params
  <2>1. Cardinality(P) \in 0..Len(params) /\ P = 1..Cardinality(P) /\ Len(params) \in Nat
    BY <1>1, Positions
  <2>2. Place(args, m) \in Nat
    BY <1>1, PlaceIs
  <2>3. P \subseteq DOMAIN params
    BY DEF ByPosition
  <2> QED
    BY <2>1, <2>2, <2>3
<1>5. ASSUME NEW i \in 1..m, args[i].kind = "simple" PROVE Owners(params, args, i) # {}
  <2> DEFINE p == Place(args, i - 1) + 1
  <2>1. Owners(params, args, i) = ByPlace(params, args, i - 1)
    BY <1>5 DEF Owners
  <2>2. ~Spread(args, i - 1, "unpacked_list")
    <3> SUFFICES ASSUME NEW e \in 1..i - 1, args[e].kind = "unpacked_list" PROVE FALSE
      BY DEF Spread
    <3>1. e \in Lists(args) /\ e < i /\ i \in DOMAIN args
      BY <1>1 DEF Lists
    <3> QED
      BY <1>5, <3>1 DEF ListsAreLast
  <2>3. p \in Nat /\ p >= 1 /\ p <= Place(args, m)
    <3>1. i - 1 \in Nat /\ (i - 1) + 1 = i /\ i \in 0..m
      BY <1>1
    <3>2. Place(args, i - 1) \in Nat
      BY <3>1, PlaceIs
    <3>3. Place(args, i) = Place(args, i - 1) + 1
      BY <1>5, <3>1, PlaceIs
    <3>4. Place(args, i) <= Place(args, m)
      BY <1>1, <3>1, PlaceIs
    <3> QED
      BY <3>2, <3>3, <3>4
  <2>4. CASE p \in P
    BY <2>1, <2>2, <2>4 DEF ByPlace
  <2>5. CASE p \notin P
    <3>1. ~(total <= Cardinality(P))
      <4> HIDE DEF P, p
      <4> QED
        BY <1>2, <1>4, <2>3, <2>5
    <3>2. OfKind(params, "args") # {}
      BY <1>2, <3>1 DEF Has, OfKind
    <3> QED
      BY <2>1, <2>5, <3>2 DEF ByPlace
  <2> QED
    BY <2>4, <2>5
<1>6. ASSUME NEW i \in 1..m, args[i].kind = "keyword" PROVE Owners(params, args, i) # {}
  <2>1. Owners(params, args, i) = ByName(params, args, i)
    BY <1>6 DEF Owners
  <2>2. ParamOf(params, args[i].name) # {} \/ Has(params, "kwargs")
    <3>1. args[i].name \in names[i]
      BY <1>3, <1>6
    <3> QED
      BY <1>2, <1>3, <3>1
  <2>3. ParamOf(params, args[i].name) \subseteq Soft(params, args, i - 1)
    BY <1>6, NamesAreFree
  <2>4. Has(params, "kwargs") => OfKind(params, "kwargs") # {}
    BY DEF Has, OfKind
  <2> QED
    BY <2>1, <2>2, <2>3, <2>4 DEF ByName
<1>7. ASSUME NEW k \in DOMAIN params, Simple(params[k]), ~params[k].optional
      PROVE  k \notin Unset(params, args, m)
  <2>1. CASE k \in P /\ k <= total
    <3>1. Filled(params, args, m) = Filled(params, args, n)
          /\ (Spread(args, m, "unpacked_list") <=> Lists(args) # {})
      <4>1. m \in n..m
        BY <1>1
      <4> QED
        BY <4>1, FilledIs
    <3>2. k \in Filled(params, args, m)
      <4>1. CASE more = 0
        <5>1. total = Place(args, m)
          BY <1>4, <4>1
        <5> HIDE DEF total
        <5> QED
          BY <2>1, <5>1 DEF Filled
      <4>2. CASE Lists(args) # {}
        BY <2>1, <3>1, <4>2 DEF Filled
      <4> QED
        BY <4>1, <4>2
    <3> QED
      BY <3>2 DEF Unset
  <2>2. CASE k \in GivenBy(params, names)
    <3>1. PICK i \in 1..m : \E name \in names[i] : k \in ParamOf(params, name)
      BY <1>3, <2>2 DEF GivenBy
    <3>2. 0 + 1..m = 1..m
      BY <1>1
    <3>3. CASE args[i].kind = "keyword"
      <4>1. params[k].name = args[i].name
        BY <1>3, <3>1, <3>3 DEF ParamOf
      <4>2. Told(params, args, k, 0, m)
        BY <3>2, <3>3, <4>1 DEF Told
      <4> QED
        BY <4>2 DEF Unset
    <3>4. CASE args[i].kind = "unpacked_dict"
      BY <3>4 DEF Unset, Spread
    <3> QED
      BY <1>3, <3>1, <3>3, <3>4
  <2> QED
    BY <1>2, <1>7, <2>1, <2>2
<1>8. \A i \in 1..m : ~Lost(params, args, i)
  BY <1>5, <1>6 DEF Lost, WrittenOut
<1> QED
  BY <1>7, <1>8, AcceptedIs

\* No keyword argument follows an unpacked dictionary.
DictsAreLast(args) == \A i \in Dicts(args), j \in DOMAIN args : i < j => args[j].kind # "keyword"

\* In a call that is accepted, a keyword argument gives a value to the parameter
\* of its name, which none gave before, unless **kwargs or ** has it.
LEMMA NamesAreOnce ==
  ASSUME NEW params, NEW args, NEW n, Ordered(params, args, n),
         Accepted(params, args), ~Has(params, "kwargs"), DictsAreLast(args),
         NEW j \in 1..Len(args), args[j].kind = "keyword"
  PROVE  \E k \in ParamOf(params, args[j].name) :
           k \notin Filled(params, args, Len(args)) /\ ~Told(params, args, k, 0, j - 1)
<1> DEFINE m == Len(args)
           F == ParamOf(params, args[j].name) \cap Soft(params, args, j - 1)
<1>1. m \in Nat /\ DOMAIN args = 1..m /\ n \in 0..m /\ n \in Nat /\ j > n
  BY OrderedIs
<1>2. F # {}
  <2>1. OfKind(params, "kwargs") = {}
    BY DEF Has, OfKind
  <2>2. Owners(params, args, j) = IF F # {} THEN F ELSE OfKind(params, "kwargs")
    BY DEF Owners, ByName
  <2>3. ~Lost(params, args, j)
    BY AcceptedIs
  <2> HIDE DEF F
  <2> QED
    BY <2>1, <2>2, <2>3 DEF Lost, WrittenOut
<1>3. PICK k \in F : TRUE
  BY <1>2
<1>4. \A e \in 1..j - 1 : args[e].kind # "unpacked_dict"
  <2> SUFFICES ASSUME NEW e \in 1..j - 1, args[e].kind = "unpacked_dict" PROVE FALSE
    OBVIOUS
  <2>1. e \in Dicts(args) /\ e < j /\ j \in DOMAIN args
    BY <1>1 DEF Dicts
  <2> QED
    BY <2>1 DEF DictsAreLast
<1>5. k \notin Filled(params, args, j - 1) /\ ~Told(params, args, k, 0, j - 1)
  BY <1>3, <1>4 DEF Soft
<1>6. Filled(params, args, j - 1) = Filled(params, args, m)
  <2>1. j - 1 \in n..m /\ m \in n..m
    BY <1>1
  <2>2. Filled(params, args, j - 1) = Filled(params, args, n)
    BY <2>1, FilledIs
  <2>3. Filled(params, args, m) = Filled(params, args, n)
    BY <2>1, FilledIs
  <2> QED
    BY <2>2, <2>3
<1> QED
  BY <1>3, <1>5, <1>6

\* In a call that is accepted, the arguments by position have a place or *args;
\* unpacked lists may fill the places that are left.
LEMMA PlacesAreEnough ==
  ASSUME NEW params, NEW args, NEW n, Ordered(params, args, n), Accepted(params, args)
  PROVE  \E more \in IF Lists(args) = {} THEN {0} ELSE 0..Len(params) :
           /\ Place(args, Len(args)) + more \in Nat
           /\ \/ Place(args, Len(args)) + more <= Cardinality(ByPosition(params))
              \/ Has(params, "args")
           /\ {k \in ByPosition(params) : k <= Place(args, Len(args)) + more}
                = Filled(params, args, Len(args))
<1> DEFINE m == Len(args)
           P == ByPosition(params)
           S == Place(args, m)
           q == Cardinality(P)
           more == IF Lists(args) # {} /\ S <= q THEN q - S ELSE 0
<1>1. /\ m \in Nat /\ DOMAIN args = 1..m /\ n \in 0..m /\ n \in Nat
      /\ params \in Seq(Param) /\ WellFormed(params) /\ DOMAIN params \subseteq Nat
  BY OrderedIs
<1>2. S \in Nat /\ q \in Nat /\ q <= Len(params) /\ P = 1..q /\ Len(params) \in Nat
  <2>1. q \in 0..Len(params) /\ P = 1..q /\ Len(params) \in Nat
    BY <1>1, Positions
  <2>2. S \in Nat
    BY <1>1, PlaceIs
  <2> QED
    BY <2>1, <2>2
<1>3. Spread(args, m, "unpacked_list") <=> Lists(args) # {}
  <2>1. m \in n..m
    BY <1>1
  <2> QED
    BY <2>1, FilledIs
<1>4. S <= q \/ Has(params, "args")
  <2> SUFFICES ASSUME ~(S <= q), ~Has(params, "args") PROVE FALSE
    OBVIOUS
  <2>1. PICK i \in 1..m : args[i].kind = "simple" /\ Place(args, i) = S
    <3>1. S # 0
      BY <1>2
    <3> QED
      BY <1>1, <3>1, LastPlace
  <2>2. Place(args, i - 1) + 1 = S
    <3>1. i - 1 \in Nat /\ (i - 1) + 1 = i
      OBVIOUS
    <3> QED
      BY <2>1, <3>1, PlaceIs
  <2>3. S \notin P
    <3> HIDE DEF S, q, P
    <3> QED
      BY <1>2
  <2>4. OfKind(params, "args") = {}
    BY DEF Has, OfKind
  <2>5. Owners(params, args, i) = {}
    BY <2>1, <2>2, <2>3, <2>4 DEF Owners, ByPlace
  <2>6. ~Lost(params, args, i)
    BY AcceptedIs
  <2> QED
    BY <2>1, <2>5, <2>6 DEF Lost, WrittenOut
<1> HIDE DEF S, q, P
<1>5. more \in IF Lists(args) = {} THEN {0} ELSE 0..Len(params)
  BY <1>2
<1>6. /\ S + more \in Nat
      /\ S <= q => S + more <= q
      /\ Lists(args) # {} => S + more >= q
      /\ Lists(args) = {} => S + more = S
  BY <1>2
<1> HIDE DEF more
<1>7. \A k \in P : k <= S + more <=> k <= S \/ Lists(args) # {}
  <2> TAKE k \in P
  <2>1. k \in Nat /\ k <= q
    BY <1>2
  <2>2. CASE Lists(args) = {}
    BY <1>6, <2>2
  <2>3. CASE Lists(args) # {}
    BY <1>2, <1>6, <2>1, <2>3
  <2> QED
    BY <2>2, <2>3
<1>8. {k \in P : k <= S + more} = Filled(params, args, m)
  BY <1>3, <1>7 DEF Filled, P, S
<1>9. S + more <= q \/ Has(params, "args")
  BY <1>4, <1>6
<1> QED
  BY <1>5, <1>6, <1>8, <1>9 DEF S, q, P

\* A call that is accepted binds, unless a keyword argument follows an unpacked
\* dictionary or **kwargs takes a name given twice: the first dictionary may hold
\* the values that are missing.
LEMMA AcceptedIsBound ==
  ASSUME NEW params, NEW args, NEW n, Ordered(params, args, n),
         Accepted(params, args), ~Has(params, "kwargs"), DictsAreLast(args)
  PROVE  CanBind(params, args)
<1> DEFINE m == Len(args)
           P == ByPosition(params)
           full == Filled(params, args, m)
           open == {k \in DOMAIN params : /\ Simple(params[k]) /\ k \notin full
                                          /\ ~Told(params, args, k, 0, m)}
           first == CHOOSE e \in Dicts(args) : TRUE
           held == [e \in Dicts(args) |-> IF e = first THEN {params[k].name : k \in open} ELSE {}]
           names == GivenNames(args, held)
<1>1. /\ m \in Nat /\ DOMAIN args = 1..m /\ n \in 0..m /\ n \in Nat
      /\ params \in Seq(Param) /\ WellFormed(params)
  BY OrderedIs
<1>2. PICK more \in IF Lists(args) = {} THEN {0} ELSE 0..Len(params) :
        /\ Place(args, m) + more \in Nat
        /\ Place(args, m) + more <= Cardinality(P) \/ Has(params, "args")
        /\ {k \in P : k <= Place(args, m) + more} = full
  BY PlacesAreEnough
<1>3. held \in [Dicts(args) -> SUBSET Names]
  <2>1. ASSUME NEW k \in open PROVE params[k].name \in Names
    <3>1. params[k] \in Param /\ params[k].kind = "simple"
      BY <1>1 DEF Simple
    <3> QED
      BY <3>1 DEF Param
  <2> HIDE DEF open
  <2> QED
    BY <2>1
<1>4. /\ DOMAIN names = 1..m
      /\ \A i \in 1..m :
           /\ args[i].kind = "keyword" => names[i] = {args[i].name}
           /\ args[i].kind = "unpacked_dict" => names[i] = held[i]
           /\ args[i].kind \notin {"keyword", "unpacked_dict"} => names[i] = {}
  <2> HIDE DEF held
  <2> QED
    BY <1>1, GivenNamesAre
<1>5. \A i \in 1..m : args[i].kind = "unpacked_dict" =>
        /\ i \in Dicts(args)
        /\ i = first => names[i] = {params[k].name : k \in open}
        /\ i # first => names[i] = {}
  <2> TAKE i \in 1..m
  <2> HAVE args[i].kind = "unpacked_dict"
  <2>1. i \in Dicts(args)
    BY <1>1 DEF Dicts
  <2> HIDE DEF open, first, names
  <2> QED
    BY <1>4, <2>1
<1> HIDE DEF names, held
<1>6. ASSUME NEW i \in 1..m, args[i].kind = "keyword"
      PROVE  \E k \in ParamOf(params, args[i].name) : k \notin full /\ ~Told(params, args, k, 0, i - 1)
  BY <1>6, NamesAreOnce
<1>7. \A v, w \in DOMAIN params :
        Simple(params[v]) /\ Simple(params[w]) /\ params[v].name = params[w].name => v = w
  BY <1>1, ParamsAre
<1>8. ASSUME NEW i \in 1..m, NEW h \in 1..m, i < h, NEW name \in names[i], name \in names[h]
      PROVE  FALSE
  <2>1. /\ args[i].kind \in {"keyword", "unpacked_dict"}
        /\ args[h].kind \in {"keyword", "unpacked_dict"}
    BY <1>4, <1>8
  <2>2. CASE args[i].kind = "keyword" /\ args[h].kind = "keyword"
    <3>1. args[i].name = args[h].name
      BY <1>4, <1>8, <2>2
    <3>2. PICK k \in ParamOf(params, args[h].name) : ~Told(params, args, k, 0, h - 1)
      BY <1>6, <2>2
    <3>3. i \in 0 + 1..h - 1
      BY <1>8
    <3>4. Told(params, args, k, 0, h - 1)
      BY <2>2, <3>1, <3>2, <3>3 DEF Told, ParamOf
    <3> QED
      BY <3>2, <3>4
  <2>3. ASSUME NEW e \in 1..m, NEW f \in 1..m, args[e].kind = "keyword",
               args[f].kind = "unpacked_dict", name \in names[e], name \in names[f]
        PROVE  FALSE
    <3>1. name = args[e].name
      BY <1>4, <2>3
    <3>2. name \in {params[k].name : k \in open}
      BY <1>5, <2>3
    <3>3. PICK k \in open : params[k].name = args[e].name
      BY <3>1, <3>2
    <3>4. 0 + 1..m = 1..m
      BY <1>1
    <3>5. Told(params, args, k, 0, m)
      BY <2>3, <3>3, <3>4 DEF Told
    <3> QED
      BY <3>5
  <2>4. CASE args[i].kind = "unpacked_dict" /\ args[h].kind = "unpacked_dict"
    <3>1. i = first /\ h = first
      BY <1>5, <1>8, <2>4
    <3> QED
      BY <1>8, <3>1
  <2> QED
    BY <1>8, <2>1, <2>2, <2>3, <2>4
<1>9. \A i, h \in DOMAIN names : i # h => names[i] \cap names[h] = {}
  <2> SUFFICES ASSUME NEW i \in 1..m, NEW h \in 1..m, i # h, NEW name \in names[i], name \in names[h]
               PROVE  FALSE
    BY <1>4
  <2>1. i < h \/ h < i
    OBVIOUS
  <2> QED
    BY <1>8, <2>1
<1>10. ASSUME NEW i \in 1..m, NEW name \in names[i]
       PROVE  \E k \in ParamOf(params, name) : k \notin full
  <2>1. CASE args[i].kind = "keyword"
    BY <1>4, <1>6, <2>1
  <2>2. CASE args[i].kind = "unpacked_dict"
    <3>1. PICK k \in open : name = params[k].name
      BY <1>5, <2>2
    <3>2. k \in ParamOf(params, name) /\ k \notin full
      BY <3>1 DEF ParamOf
    <3> QED
      BY <3>2
  <2> QED
    BY <1>4, <2>1, <2>2
<1>11. full \cap GivenBy(params, names) = {}
  <2> SUFFICES ASSUME NEW k \in full, k \in GivenBy(params, names) PROVE FALSE
    OBVIOUS
  <2>1. PICK i \in 1..m : \E name \in names[i] : k \in ParamOf(params, name)
    BY <1>4 DEF GivenBy
  <2>2. PICK name \in names[i] : k \in ParamOf(params, name)
    BY <2>1
  <2>3. PICK v \in ParamOf(params, name) : v \notin full
    BY <1>10
  <2>4. v = k
    BY <1>7, <2>2, <2>3 DEF ParamOf
  <2> QED
    BY <2>3, <2>4
<1>12. \A i \in DOMAIN names : \A name \in names[i] : ParamOf(params, name) # {} \/ Has(params, "kwargs")
  BY <1>4, <1>10
<1>13. ASSUME NEW k \in DOMAIN params, Simple(params[k]), ~params[k].optional, k \notin full
       PROVE  k \in GivenBy(params, names)
  <2>1. k \in ParamOf(params, params[k].name)
    BY <1>13 DEF ParamOf
  <2>2. CASE Told(params, args, k, 0, m)
    <3>1. PICK i \in 1..m : args[i].kind = "keyword" /\ params[k].name = args[i].name
      <4>1. 0 + 1..m = 1..m
        BY <1>1
      <4> QED
        BY <2>2, <4>1 DEF Told
    <3>2. params[k].name \in names[i]
      BY <1>4, <3>1
    <3> QED
      BY <1>4, <2>1, <3>2 DEF GivenBy
  <2>3. CASE ~Told(params, args, k, 0, m)
    <3>1. k \in open /\ params[k].name \in {params[l].name : l \in open}
      BY <1>13, <2>3
    <3>2. Spread(args, m, "unpacked_dict")
      <4>1. k \notin Unset(params, args, m)
        BY <1>13, AcceptedIs
      <4> QED
        BY <1>13, <2>3, <4>1 DEF Unset
    <3>3. first \in Dicts(args)
      <4>1. Dicts(args) # {}
        BY <1>1, <3>2 DEF Dicts, Spread
      <4> QED
        BY <4>1
    <3>4. first \in 1..m /\ args[first].kind = "unpacked_dict"
      BY <1>1, <3>3 DEF Dicts
    <3> HIDE DEF first, open
    <3>5. params[k].name \in names[first]
      BY <1>5, <3>1, <3>4
    <3> QED
      BY <1>4, <2>1, <3>4, <3>5 DEF GivenBy
  <2> QED
    BY <2>2, <2>3
<1> HIDE DEF full, open, first, P
<1> DEFINE total == Place(args, m) + more
<1>14. /\ total <= Cardinality(ByPosition(params)) \/ Has(params, "args")
       /\ {k \in ByPosition(params) : k <= total} = full
  BY <1>2 DEF P
<1> HIDE DEF total
<1>15. \A k \in DOMAIN params : Simple(params[k]) =>
         params[k].optional \/ k \in {l \in ByPosition(params) : l <= total} \cup GivenBy(params, names)
  BY <1>13, <1>14
<1>16. Binds(params, total, names)
  BY <1>9, <1>11, <1>12, <1>14, <1>15, BindsIs
<1>17. Misplaced(args) = {}
  BY AcceptedIs
<1> QED
  BY <1>2, <1>3, <1>16, <1>17 DEF CanBind, total, names

\* What a call that binds binds with.
LEMMA BoundWith ==
  ASSUME NEW params \in Seq(Param), NEW args, CanBind(params, args)
  PROVE  /\ Misplaced(args) = {}
         /\ \E more, held : BindsWith(params, args, more, held) /\ (more = 0 \/ Lists(args) # {})
<1>1. /\ Misplaced(args) = {}
      /\ \E more \in IF Lists(args) = {} THEN {0} ELSE 0..Len(params) :
           \E held \in [Dicts(args) -> SUBSET Names] :
             Binds(params, Place(args, Len(args)) + more, GivenNames(args, held))
  BY DEF CanBind
<1>2. PICK more \in IF Lists(args) = {} THEN {0} ELSE 0..Len(params) :
        \E held \in [Dicts(args) -> SUBSET Names] :
          Binds(params, Place(args, Len(args)) + more, GivenNames(args, held))
  BY <1>1
<1>3. PICK held \in [Dicts(args) -> SUBSET Names] :
        Binds(params, Place(args, Len(args)) + more, GivenNames(args, held))
  BY <1>2
<1>4. more \in Nat /\ (more = 0 \/ Lists(args) # {})
  BY <1>2
<1> QED
  BY <1>1, <1>3, <1>4 DEF BindsWith

\* A call has a diagnostic of its arguments if and only if it cannot be bound,
\* where no keyword follows an unpacked dictionary, the function has no **kwargs,
\* and nothing that a list may hold follows it.
LEMMA Judged ==
  ASSUME NEW params \in Seq(Param), WellFormed(params), NEW args \in Seq(Arg)
  PROVE  /\ Accepted(params, args) /\ ~Has(params, "kwargs") /\ DictsAreLast(args) => CanBind(params, args)
         /\ CanBind(params, args) /\ ListsAreLast(params, args) => Accepted(params, args)
<1>1. CASE Misplaced(args) = {}
  <2>1. PICK n : Ordered(params, args, n)
    BY <1>1, InOrder
  <2>2. Accepted(params, args) /\ ~Has(params, "kwargs") /\ DictsAreLast(args) => CanBind(params, args)
    BY <2>1, AcceptedIsBound
  <2>3. ASSUME CanBind(params, args), ListsAreLast(params, args) PROVE Accepted(params, args)
    <3>1. PICK more, held : BindsWith(params, args, more, held) /\ (more = 0 \/ Lists(args) # {})
      BY <2>3, BoundWith
    <3> QED
      BY <2>1, <2>3, <3>1, BoundIsAccepted
  <2> QED
    BY <2>2, <2>3
<1>2. CASE Misplaced(args) # {}
  BY <1>2 DEF CanBind, Accepted
<1> QED
  BY <1>1, <1>2

\* In every call, of any function, the diagnostics of the arguments are those of a
\* call that cannot be bound when it runs.
THEOREM CallsAreAlwaysJudged == CallSpec => []CallsAreJudged
<1>1. CallInit => CallOK
  BY DEF CallInit
<1>2. CallOK /\ [CallNext]_calls => CallOK'
  BY DEF CallNext, CallOK, calls
<1>3. CallOK => CallsAreJudged
  <2> SUFFICES ASSUME CallOK PROVE CallsAreJudged
    OBVIOUS
  <2>1. fn \in Seq(Param) /\ WellFormed(fn) /\ call \in Seq(Arg)
    BY DEF CallOK
  <2>2. NamesAreTold <=> ~Has(fn, "kwargs") /\ DictsAreLast(call)
    BY DEF NamesAreTold, DictsAreLast
  <2>3. SlotsAreFree <=> ListsAreLast(fn, call)
    BY DEF SlotsAreFree, ListsAreLast
  <2> QED
    BY <2>1, <2>2, <2>3, Judged DEF CallsAreJudged
<1> QED
  BY <1>1, <1>2, <1>3, PTL DEF CallSpec

-----------------------------------------------------------------------------
\* The parameter that an argument of a call that binds goes to is the one it is
\* bound to.
LEMMA OwnerIsBound ==
  ASSUME NEW params, NEW args, NEW n, Ordered(params, args, n), CanBind(params, args),
         Lists(args) = {}, NEW i \in 1..Len(args), args[i].kind # "unpacked_dict"
  PROVE  /\ Kept(params, args, i)
         /\ First(Owners(params, args, i)) = BoundTo(params, args, i)
<1>1. /\ params \in Seq(Param) /\ WellFormed(params) /\ args \in Seq(Arg)
      /\ DOMAIN args = 1..Len(args) /\ Len(args) \in Nat
  BY OrderedIs
<1>2. ListsAreLast(params, args)
  BY DEF ListsAreLast
<1>3. WrittenOut(args[i])
  <2>1. args[i].kind \in {"simple", "unpacked_list", "unpacked_dict", "keyword"}
    <3>1. args[i] \in Arg
      BY <1>1
    <3> QED
      BY <3>1 DEF Arg
  <2>2. args[i].kind # "unpacked_list"
    BY <1>1 DEF Lists
  <2> QED
    BY <2>1, <2>2 DEF WrittenOut
<1>4. Kept(params, args, i)
  <2>1. Accepted(params, args)
    BY <1>1, <1>2, Judged
  <2>2. ~Lost(params, args, i)
    BY <2>1, AcceptedIs
  <2> QED
    BY <1>3, <2>2 DEF Kept, Lost
<1>5. CASE args[i].kind = "simple"
  <2> DEFINE p == Place(args, i)
             called == {k \in ByPosition(params) : k = p}
             rest == OfKind(params, "args")
  <2>1. BoundTo(params, args, i) = First(IF called # {} THEN called ELSE rest)
    BY <1>5 DEF BoundTo, OfKind
  <2>2. Place(args, i - 1) + 1 = p
    <3>1. i - 1 \in Nat /\ (i - 1) + 1 = i
      OBVIOUS
    <3> QED
      BY <1>5, <3>1, PlaceIs
  <2>3. ~Spread(args, i - 1, "unpacked_list")
    <3>1. \A e \in 1..i - 1 : e \in 1..Len(args)
      BY <1>1
    <3> QED
      BY <1>1, <3>1 DEF Spread, Lists
  <2>4. Owners(params, args, i) = IF p \in ByPosition(params) THEN {p} ELSE rest
    BY <1>5, <2>2, <2>3 DEF Owners, ByPlace
  <2>5. called = IF p \in ByPosition(params) THEN {p} ELSE {}
    OBVIOUS
  <2> HIDE DEF p, called, rest
  <2>6. Owners(params, args, i) = IF called # {} THEN called ELSE rest
    BY <2>4, <2>5
  <2> QED
    BY <1>4, <2>1, <2>6
<1>6. CASE args[i].kind = "keyword"
  <2> DEFINE called == ParamOf(params, args[i].name)
             rest == OfKind(params, "kwargs")
             F == called \cap Soft(params, args, i - 1)
  <2>1. BoundTo(params, args, i) = First(IF called # {} THEN called ELSE rest)
    BY <1>6 DEF BoundTo, OfKind
  <2>2. Owners(params, args, i) = IF F # {} THEN F ELSE rest
    BY <1>6 DEF Owners, ByName
  <2>3. F = called
    <3>1. PICK more, held : BindsWith(params, args, more, held)
      BY <1>1, BoundWith
    <3>2. \A k \in called : k \in Soft(params, args, i - 1)
      BY <1>2, <1>6, <3>1, NamesAreFree
    <3> HIDE DEF called
    <3> QED
      BY <3>2
  <2> HIDE DEF called, rest, F
  <2> QED
    BY <1>4, <2>1, <2>2, <2>3
<1> QED
  BY <1>3, <1>5, <1>6 DEF WrittenOut

\* No argument of a call that is in order follows one that it may not follow.
LEMMA ActiveIs ==
  ASSUME NEW params, NEW args \in Seq(Arg), Misplaced(args) = {}, NEW i,
         i = Len(args) + 1 => \A j \in DOMAIN args : ~Named(args[j])
  PROVE  ActiveParam(params, args, i) = AssignArgs(params, args, i).active
<1> DEFINE keyword == {j \in DOMAIN args : args[j].kind = "keyword"}
           dict    == {j \in DOMAIN args : args[j].kind = "unpacked_dict"}
           Late(h) == /\ ~Named(args[h])
                      /\ \/ \E j \in keyword : j < h
                         \/ h = i /\ \E j \in dict : j < h
<1>1. ASSUME NEW h \in DOMAIN args, ~Named(args[h]), NEW j \in DOMAIN args, Named(args[j]), j < h
      PROVE  FALSE
  <2>1. j \in 1..h - 1
    <3>1. DOMAIN args = 1..Len(args) /\ Len(args) \in Nat
      OBVIOUS
    <3>2. j \in Nat /\ h \in Nat /\ 1 <= j
      BY <3>1
    <3> QED
      BY <1>1, <3>2
  <2> QED
    BY <1>1, <2>1 DEF Misplaced
<1>2. \A j \in keyword \cup dict : j \in DOMAIN args /\ Named(args[j])
  BY DEF Named
<1>3. ActiveParam(params, args, i) =
        IF \/ \E h \in DOMAIN args : Late(h)
           \/ i = Len(args) + 1 /\ keyword \cup dict # {}
        THEN 0 ELSE AssignArgs(params, args, i).active
  BY DEF ActiveParam
<1> HIDE DEF keyword, dict
<1>4. \A h \in DOMAIN args : ~Late(h)
  BY <1>1, <1>2
<1>5. i = Len(args) + 1 => keyword \cup dict = {}
  BY <1>2
<1> HIDE DEF Late
<1> QED
  BY <1>3, <1>4, <1>5

\* The parameter that signature help points at for an argument is the one that it
\* is bound to.
LEMMA ActiveOfAnArgument ==
  ASSUME NEW params \in Seq(Param), WellFormed(params), NEW args \in Seq(Arg),
         CanBind(params, args), Lists(args) = {}, NEW i \in DOMAIN args, args[i].kind # "unpacked_dict"
  PROVE  ActiveParam(params, args, i) = BoundTo(params, args, i)
<1> DEFINE st == AllAssigned(params, args, i)
<1>1. Len(args) \in Nat /\ i \in Nat /\ i \in 1..Len(args) /\ i # Len(args) + 1
  OBVIOUS
<1>2. Misplaced(args) = {}
  BY BoundWith
<1>3. PICK n : Ordered(params, args, n)
  BY <1>2, InOrder
<1>4. AssignArgs(params, args, i) = st
  BY <1>1 DEF AssignArgs
<1>5. st \in After(params, args, i, Len(args))
  BY <1>1, <1>3, PassesAre
<1> HIDE DEF st
<1>6. Kept(params, args, i) /\ First(Owners(params, args, i)) = BoundTo(params, args, i)
  BY <1>1, <1>3, OwnerIsBound
<1>7. st.active = BoundTo(params, args, i)
  BY <1>1, <1>5, <1>6, PartsAre DEF StatusFits
<1>8. ActiveParam(params, args, i) = AssignArgs(params, args, i).active
  BY <1>1, <1>2, ActiveIs
<1> QED
  BY <1>4, <1>7, <1>8

\* The parameter that signature help points at for an argument about to be
\* written is the one that the next by position would be bound to.
LEMMA ActiveOfTheNext ==
  ASSUME NEW params \in Seq(Param), WellFormed(params), NEW args \in Seq(Arg),
         NEW longer, longer = Append(args, [kind |-> "simple"]),
         CanBind(params, longer), Lists(args) = {}
  PROVE  ActiveParam(params, args, Len(args) + 1) = BoundTo(params, longer, Len(args) + 1)
<1> DEFINE m == Len(args)
           st == AllAssigned(params, args, m + 1)
           K == PositionalSlots(st)
           B == ByPlace(params, args, m)
<1>1. /\ m \in Nat /\ m + 1 \in Nat /\ longer \in Seq(Arg) /\ Len(longer) = m + 1 /\ DOMAIN args = 1..m
      /\ longer[m + 1].kind = "simple" /\ \A i \in 1..m : longer[i] = args[i]
  <2>1. [kind |-> "simple"] \in Arg
    BY DEF Arg
  <2> QED
    BY <2>1
<1>2. Misplaced(longer) = {}
  BY <1>1, BoundWith
<1>3. PICK l : Ordered(params, longer, l)
  BY <1>1, <1>2, InOrder
<1>4. l = m + 1 /\ \A i \in 1..m : args[i].kind \in {"simple", "unpacked_list"}
  <2>1. l \in 0..m + 1 /\ l \in Nat /\ m + 1 <= l
    <3>1. m + 1 \in 1..Len(longer) /\ longer[m + 1].kind \in {"simple", "unpacked_list"}
      BY <1>1
    <3>2. /\ l \in 0..Len(longer)
          /\ \A i \in l + 1..Len(longer) : longer[i].kind \in {"keyword", "unpacked_dict"}
      BY <1>3 DEF Ordered
    <3>3. m + 1 \notin l + 1..Len(longer)
      BY <3>1, <3>2
    <3> QED
      BY <1>1, <3>2, <3>3
  <2>2. l = m + 1 /\ 1..m \subseteq 1..l
    BY <1>1, <2>1
  <2>3. \A i \in 1..l : longer[i].kind \in {"simple", "unpacked_list"}
    BY <1>3, OrderedIs
  <2> QED
    BY <1>1, <2>2, <2>3
<1>5. Ordered(params, args, m) /\ Misplaced(args) = {}
  <2>1. m \in 0..m /\ m + 1..m = {}
    BY <1>1
  <2>2. Ordered(params, args, m)
    BY <1>4, <2>1 DEF Ordered
  <2> QED
    BY <2>2, AcceptedIs
<1>6. st \in After(params, args, m + 1, m)
  BY <1>1, <1>5, PassesAre
<1>7. AssignArgs(params, args, m + 1) =
        IF st.active = 0 /\ K # {} THEN [st EXCEPT !.active = First(K)] ELSE st
  BY DEF AssignArgs
<1>8. /\ K = {} <=> B = {}
      /\ K # {} => First(K) \in B
  <2>1. m \in 0..m
    BY <1>1
  <2> HIDE DEF st
  <2> QED
    BY <1>5, <1>6, <2>1, PlacesAre
<1>9. Owners(params, longer, m + 1) = B
  <2>1. Owners(params, longer, m + 1) = ByPlace(params, longer, m)
    <3>1. (m + 1) - 1 = m
      BY <1>1
    <3> QED
      BY <1>1, <3>1 DEF Owners
  <2>2. Place(longer, m) = Place(args, m)
    <3>1. {j \in 1..m : longer[j].kind = "simple"} = {j \in 1..m : args[j].kind = "simple"}
      BY <1>1
    <3> QED
      BY <3>1 DEF Place
  <2>3. Spread(longer, m, "unpacked_list") <=> Spread(args, m, "unpacked_list")
    BY <1>1 DEF Spread
  <2> QED
    BY <2>1, <2>2, <2>3 DEF ByPlace
<1>10. Kept(params, longer, m + 1) /\ First(B) = BoundTo(params, longer, m + 1)
  <2>1. Lists(longer) = {}
    <3> SUFFICES ASSUME NEW i \in 1..m + 1, longer[i].kind = "unpacked_list" PROVE FALSE
      BY <1>1 DEF Lists
    <3>1. i \in 1..m
      <4>1. i # m + 1
        BY <1>1
      <4> QED
        BY <1>1, <4>1
    <3>2. i \in Lists(args)
      BY <1>1, <3>1 DEF Lists
    <3> QED
      BY <3>2
  <2>2. m + 1 \in 1..Len(longer) /\ longer[m + 1].kind # "unpacked_dict"
    BY <1>1
  <2> HIDE DEF B
  <2> QED
    BY <1>3, <1>9, <2>1, <2>2, OwnerIsBound
<1>11. B # {} /\ B \subseteq Nat /\ \A v, w \in B : v = w
  <2>1. B # {}
    BY <1>9, <1>10 DEF Kept
  <2>2. B \subseteq DOMAIN params /\ (\A v, w \in B : v = w) /\ DOMAIN params \subseteq Nat
    BY OwnersAre
  <2> QED
    BY <2>1, <2>2
<1>12. st.active = 0 /\ st = [slots |-> st.slots, errors |-> st.errors, active |-> st.active]
  <2>1. m + 1 \notin 1..m
    BY <1>1
  <2> HIDE DEF st
  <2> QED
    BY <1>6, <2>1, PartsAre DEF StatusFits
<1> HIDE DEF st, K, B
<1>13. AssignArgs(params, args, m + 1).active = First(K)
  <2>1. AssignArgs(params, args, m + 1) = [st EXCEPT !.active = First(K)]
    BY <1>7, <1>8, <1>11, <1>12
  <2> QED
    BY <1>12, <2>1
<1>14. First(B) = First(K)
  BY <1>8, <1>11, FirstOwner
<1>15. ActiveParam(params, args, m + 1) = AssignArgs(params, args, m + 1).active
  <2>1. \A j \in DOMAIN args : ~Named(args[j])
    BY <1>1, <1>4 DEF Named
  <2> QED
    BY <1>5, <2>1, ActiveIs
<1> QED
  BY <1>10, <1>13, <1>14, <1>15

\* In every call that can be bound, of any function, signature help points at the
\* parameter that an argument is bound to when the call runs.
THEOREM ActiveParamIsAlwaysBound == CallSpec => []ActiveParamIsBound
<1>1. CallInit => CallOK
  BY DEF CallInit
<1>2. CallOK /\ [CallNext]_calls => CallOK'
  BY DEF CallNext, CallOK, calls
<1>3. CallOK => ActiveParamIsBound
  <2> SUFFICES ASSUME CallOK PROVE ActiveParamIsBound
    OBVIOUS
  <2>1. fn \in Seq(Param) /\ WellFormed(fn) /\ call \in Seq(Arg)
    BY DEF CallOK
  <2>2. ASSUME NEW i \in DOMAIN call, CanBind(fn, call), Lists(call) = {}, call[i].kind # "unpacked_dict"
        PROVE  ActiveParam(fn, call, i) = BoundTo(fn, call, i)
    BY <2>1, <2>2, ActiveOfAnArgument
  <2>3. ASSUME CanBind(fn, Written), Lists(call) = {}
        PROVE  ActiveParam(fn, call, Len(call) + 1) = BoundTo(fn, Written, Len(call) + 1)
    BY <2>1, <2>3, ActiveOfTheNext DEF Written
  <2> QED
    BY <2>2, <2>3 DEF ActiveParamIsBound
<1> QED
  BY <1>1, <1>2, <1>3, PTL DEF CallSpec
=============================================================================
