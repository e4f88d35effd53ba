--------------------------- MODULE InferenceProofs ---------------------------
(***************************************************************************)
(* Theorems about Inference for every graph of loads, any number of jobs   *)
(* and of changes: its type invariant, that cached types are fresh, that   *)
(* the diagnostics of a file's only File are of its text, and that the     *)
(* circular imports it reports are real.                                   *)
(***************************************************************************)
EXTENDS Inference, SequenceTheorems, TLAPS

\* A frame of the calls is replaced at the top, and nowhere else.
LEMMA WithTopIs ==
  ASSUME NEW calls \in Seq(Call), calls # <<>>, NEW t \in Call
  PROVE  /\ WithTop(calls, t) \in Seq(Call)
         /\ Len(WithTop(calls, t)) = Len(calls) /\ Len(calls) \in Nat \ {0}
         /\ DOMAIN WithTop(calls, t) = 1..Len(calls)
         /\ \A i \in 1..Len(calls) - 1 : WithTop(calls, t)[i] = calls[i]
         /\ WithTop(calls, t)[Len(calls)] = t
BY DEF WithTop

\* A return takes the top off; the caller is done, and has seen more texts.
LEMMA ReturnedIs ==
  ASSUME NEW calls \in Seq(Call), calls # <<>>, NEW texts \in Texts
  PROVE  /\ Returned(calls, texts) \in Seq(Call)
         /\ Len(Returned(calls, texts)) = Len(calls) - 1 /\ Len(calls) \in Nat \ {0}
         /\ DOMAIN Returned(calls, texts) = 1..Len(calls) - 1
         /\ \A i \in 1..Len(calls) - 2 : Returned(calls, texts)[i] = calls[i]
         /\ Len(calls) > 1 =>
              Returned(calls, texts)[Len(calls) - 1] =
                [calls[Len(calls) - 1] EXCEPT !.at = "done", !.texts = @ \cup texts]
<1> DEFINE n == Len(calls)
           caller == calls[n - 1]
           u == [caller EXCEPT !.at = "done", !.texts = @ \cup texts]
<1>1. n \in Nat \ {0}
  OBVIOUS
<1>2. CASE n = 1
  BY <1>2 DEF Returned
<1>3. CASE n # 1
  <2>1. n > 1 /\ n - 1 \in 1..n
    <3> HIDE DEF n
    <3> QED
      BY <1>1, <1>3
  <2>2. caller \in Call
    BY <2>1, ElementOfSeq
  <2>3. u \in Call
    BY <2>2 DEF Call, Texts
  <2>4. Without(calls) \in Seq(Call) /\ Len(Without(calls)) = n - 1
        /\ \A i \in 1..n - 1 : Without(calls)[i] = calls[i]
    <3>1. /\ 1 \in Int /\ n - 1 \in Int /\ 1 <= n - 1 /\ (n - 1) - 1 + 1 = n - 1
          /\ \A i \in 1..n - 1 : calls[i] \in Call /\ 1 + i - 1 = i
      BY <1>1, <2>1
    <3> HIDE DEF n
    <3>2. /\ SubSeq(calls, 1, n - 1) \in Seq(Call)
          /\ Len(SubSeq(calls, 1, n - 1)) = n - 1
          /\ \A i \in 1..n - 1 : SubSeq(calls, 1, n - 1)[i] = calls[i]
      BY <3>1, SubSeqProperties
    <3> QED
      BY <3>2 DEF Without, n
  <2>5. Without(calls) # <<>>
    BY <2>1, <2>4
  <2>6. Returned(calls, texts) = WithTop(Without(calls), u)
    BY <1>3 DEF Returned
  <2> HIDE DEF u
  <2>7. /\ WithTop(Without(calls), u) \in Seq(Call)
        /\ Len(WithTop(Without(calls), u)) = n - 1
        /\ DOMAIN WithTop(Without(calls), u) = 1..n - 1
        /\ \A i \in 1..n - 2 : WithTop(Without(calls), u)[i] = calls[i]
        /\ WithTop(Without(calls), u)[n - 1] = u
    <3> DEFINE w == Without(calls)
    <3> HIDE DEF w, n
    <3>1. w \in Seq(Call) /\ w # <<>> /\ Len(w) = n - 1 /\ u \in Call
      BY <2>3, <2>4, <2>5 DEF w
    <3>2. /\ WithTop(w, u) \in Seq(Call) /\ Len(WithTop(w, u)) = Len(w)
          /\ DOMAIN WithTop(w, u) = 1..Len(w)
          /\ \A i \in 1..Len(w) - 1 : WithTop(w, u)[i] = w[i]
          /\ WithTop(w, u)[Len(w)] = u
      BY <3>1, WithTopIs
    <3>3. \A i \in 1..n - 2 : i \in 1..(n - 1) - 1 /\ i \in 1..n - 1
      BY <1>1
    <3> QED
      BY <2>4, <3>1, <3>2, <3>3 DEF w
  <2> QED
    BY <1>1, <2>6, <2>7 DEF u
<1> QED
  BY <1>2, <1>3

\* What a record with two fields replaced keeps and gets.
LEMMA CallerIs ==
  ASSUME NEW t \in Call, NEW texts \in Texts
  PROVE  LET u == [t EXCEPT !.at = "done", !.texts = @ \cup texts]
         IN  /\ u \in Call /\ u.of = t.of /\ u.via = t.via
             /\ u.at = "done" /\ u.texts = t.texts \cup texts
BY DEF Call, Texts

\* What a call becomes by a step of its own.
LEMMA CallIs ==
  ASSUME NEW t \in Call, NEW at \in {"expr", "name", "callee", "done"}
  PROVE  /\ LET u == [t EXCEPT !.at = at]
            IN  u \in Call /\ u.of = t.of /\ u.at = at /\ u.texts = t.texts /\ u.via = t.via
         /\ \A texts \in Texts :
              LET u == [t EXCEPT !.at = at, !.texts = texts]
              IN  u \in Call /\ u.of = t.of /\ u.at = at /\ u.texts = texts /\ u.via = t.via
         /\ \A via \in Int :
              LET u == [t EXCEPT !.at = at, !.via = via]
              IN  u \in Call /\ u.of = t.of /\ u.at = at /\ u.texts = t.texts /\ u.via = via
BY DEF Call

\* A File's text is a set of texts, and a circle is an integer.
LEMMA TextIs ==
  /\ \A h, text \in Nat : {<<h, text>>} \in Texts
  /\ Circle \in Int /\ Circle < 0
BY DEF Texts, Circle

\* A new call is at its expression.
LEMMA FrameIs ==
  ASSUME NEW h \in Nat
  PROVE  /\ Frame(h) \in Call /\ Frame(h).of = h /\ Frame(h).at = "expr"
         /\ Frame(h).texts = {} /\ Frame(h).via = 0
BY DEF Frame, Call, Texts

\* A call more, on top.
LEMMA PushIs ==
  ASSUME NEW S, NEW calls \in Seq(S), NEW t \in S
  PROVE  /\ Append(calls, t) \in Seq(S) /\ Len(Append(calls, t)) = Len(calls) + 1
         /\ DOMAIN Append(calls, t) = 1..Len(calls) + 1
         /\ Len(calls) \in Nat
         /\ Append(calls, t)[Len(calls) + 1] = t
         /\ \A i \in 1..Len(calls) : Append(calls, t)[i] = calls[i]
OBVIOUS

\* The elements of the calls after each of the three moves.
LEMMA MovedElements ==
  ASSUME NEW calls \in Seq(Call), calls # <<>>
  PROVE  /\ \A t \in Call : Elements(WithTop(calls, t)) \subseteq Elements(calls) \cup {t}
         /\ \A t \in Call : Elements(Append(calls, t)) = Elements(calls) \cup {t}
         /\ \A texts \in Texts : \A u \in Elements(Returned(calls, texts)) :
              \/ u \in Elements(calls)
              \/ \E i \in 1..Len(calls) - 1 :
                   u = [calls[i] EXCEPT !.at = "done", !.texts = @ \cup texts]
<1> DEFINE n == Len(calls)
<1>1. n \in Nat \ {0} /\ DOMAIN calls = 1..n
  OBVIOUS
<1>2. ASSUME NEW t \in Call PROVE Elements(WithTop(calls, t)) \subseteq Elements(calls) \cup {t}
  <2>1. DOMAIN WithTop(calls, t) = 1..n
    BY WithTopIs
  <2>2. \A i \in 1..n : i \in 1..n - 1 \/ i = n
    <3> HIDE DEF n
    <3> QED
      BY <1>1
  <2>3. (\A i \in 1..n - 1 : WithTop(calls, t)[i] = calls[i]) /\ WithTop(calls, t)[n] = t
    BY WithTopIs
  <2>4. \A i \in 1..n - 1 : i \in 1..n
    <3> HIDE DEF n
    <3> QED
      BY <1>1
  <2> HIDE DEF n
  <2>5. ASSUME NEW i \in 1..n PROVE WithTop(calls, t)[i] \in Elements(calls) \cup {t}
    BY <1>1, <2>2, <2>3, <2>4 DEF Elements
  <2> QED
    BY <2>1, <2>5 DEF Elements
<1>3. ASSUME NEW t \in Call PROVE Elements(Append(calls, t)) = Elements(calls) \cup {t}
  <2>1. DOMAIN Append(calls, t) = 1..n + 1 /\ n + 1 \in 1..n + 1
    BY <1>1
  <2>2. \A i \in 1..n + 1 : i \in 1..n \/ i = n + 1
    BY <1>1
  <2>3. Elements(Append(calls, t)) \subseteq Elements(calls) \cup {t}
    BY <1>1, <2>1, <2>2, PushIs DEF Elements
  <2>4. \A i \in 1..n : i \in 1..n + 1
    BY <1>1
  <2>5. Elements(calls) \subseteq Elements(Append(calls, t))
    BY <1>1, <2>1, <2>4, PushIs DEF Elements
  <2>6. t \in Elements(Append(calls, t))
    BY <2>1, PushIs DEF Elements
  <2> QED
    BY <2>3, <2>5, <2>6
<1>4. ASSUME NEW texts \in Texts, NEW u \in Elements(Returned(calls, texts))
      PROVE  \/ u \in Elements(calls)
             \/ \E i \in 1..n - 1 : u = [calls[i] EXCEPT !.at = "done", !.texts = @ \cup texts]
  <2>1. DOMAIN Returned(calls, texts) = 1..n - 1
    BY ReturnedIs
  <2>2. PICK i \in 1..n - 1 : u = Returned(calls, texts)[i]
    BY <1>4, <2>1 DEF Elements
  <2>3. i \in 1..n /\ (i \in 1..n - 2 \/ (i = n - 1 /\ n > 1))
    <3> HIDE DEF n
    <3> QED
      BY <1>1, <2>2
  <2>4. CASE i \in 1..n - 2
    <3>1. u = calls[i]
      BY <2>2, <2>4, ReturnedIs
    <3> QED
      BY <1>1, <2>3, <3>1 DEF Elements
  <2>5. CASE i = n - 1 /\ n > 1
    <3>1. u = [calls[n - 1] EXCEPT !.at = "done", !.texts = @ \cup texts]
      BY <2>2, <2>5, ReturnedIs
    <3> QED
      BY <2>2, <2>5, <3>1
  <2> QED
    BY <2>3, <2>4, <2>5
<1> QED
  BY <1>2, <1>3, <1>4

-----------------------------------------------------------------------------
(***************************************************************************)
(* Types.                                                                  *)
(***************************************************************************)

\* What is known of the Files.
LEMMA InputFacts ==
  ASSUME IInv, NEW h \in DOMAIN inputs
  PROVE  /\ h \in Nat \ {0} /\ h <= Len(inputs) /\ Len(inputs) \in Nat
         /\ inputs[h] \in Input /\ IdOf(h) \in FileIds /\ inputs[h].text \in Nat
         /\ \A about \in {"expr", "undefined", "circle"} :
              DiagnosticOf(h, about) \in Diagnostic
<1>1. inputs \in Seq(Input)
  BY DEF IInv, TypeOK
<1>2. DOMAIN inputs = 1..Len(inputs) /\ Len(inputs) \in Nat
  BY <1>1, LenProperties
<1>3. inputs[h] \in Input
  BY <1>1, <1>2, ElementOfSeq
<1>4. h \in Nat \ {0} /\ h <= Len(inputs)
  BY <1>2
<1> QED
  BY <1>2, <1>3, <1>4 DEF Input, IdOf, DiagnosticOf, Diagnostic

\* What is known of a call that is being inferred.
LEMMA TopFacts ==
  ASSUME IInv, NEW j \in Jobs, Infers(j)
  PROVE  /\ jobs[j].calls \in Seq(Call) /\ jobs[j].calls # <<>>
         /\ Len(jobs[j].calls) \in Nat \ {0}
         /\ Top(j) = jobs[j].calls[Len(jobs[j].calls)]
         /\ Top(j) \in Call /\ Top(j) \in Elements(jobs[j].calls)
         /\ Top(j).of \in DOMAIN inputs /\ Top(j).of \in Nat \ {0}
         /\ IdOf(Top(j).of) \in FileIds /\ inputs[Top(j).of].text \in Nat
         /\ jobs[j].phase = "infer" /\ owner = j
         /\ ~Updated
<1>1. jobs[j].calls \in Seq(Call)
  BY DEF IInv, TypeOK, Job
<1>2. Len(jobs[j].calls) \in Nat \ {0} /\ jobs[j].calls # <<>>
  BY <1>1 DEF Infers
<1>3. Top(j) = jobs[j].calls[Len(jobs[j].calls)] /\ Top(j) \in Call
      /\ Top(j) \in Elements(jobs[j].calls)
  BY <1>1, <1>2 DEF Top, Elements
<1>4. Top(j).of \in DOMAIN inputs
  BY <1>3 DEF IInv, HandlesExist
<1>5. jobs[j].phase = "infer" /\ owner = j /\ ~Updated
  BY DEF Infers, IInv, JobShape, HoldsSnapshot
<1> QED
  BY <1>1, <1>2, <1>3, <1>4, <1>5, InputFacts

\* What SetCalls does to the jobs.
LEMMA SetCallsIs ==
  ASSUME TypeOK, NEW j \in Jobs, NEW calls \in Seq(Call), SetCalls(j, calls)
  PROVE  /\ jobs' \in [Jobs -> Job] /\ jobs'[j].calls = calls
         /\ \A k \in Jobs : /\ k # j => jobs'[k] = jobs[k]
                            /\ jobs'[k].phase = jobs[k].phase
                            /\ jobs'[k].file = jobs[k].file
                            /\ jobs'[k].prelude = jobs[k].prelude
                            /\ jobs'[k].of = jobs[k].of
                            /\ jobs'[k].result = jobs[k].result
         /\ UNCHANGED <<main, change, documents, prelude, cancelled, owner, changes>>
<1>1. jobs \in [Jobs -> Job] /\ jobs' = [jobs EXCEPT ![j].calls = calls]
  BY DEF TypeOK, SetCalls
<1>2. \A q \in Job :
        /\ [q EXCEPT !.calls = calls] \in Job
        /\ [q EXCEPT !.calls = calls].calls = calls
        /\ [q EXCEPT !.calls = calls].phase = q.phase
        /\ [q EXCEPT !.calls = calls].file = q.file
        /\ [q EXCEPT !.calls = calls].prelude = q.prelude
        /\ [q EXCEPT !.calls = calls].of = q.of
        /\ [q EXCEPT !.calls = calls].result = q.result
  BY DEF Job
<1>3. jobs'[j] = [jobs[j] EXCEPT !.calls = calls]
  BY <1>1
<1>4. \A k \in Jobs : k # j => jobs'[k] = jobs[k]
  BY <1>1
<1>5. jobs' \in [Jobs -> Job]
  BY <1>1, <1>2
<1> QED
  BY <1>1, <1>2, <1>3, <1>4, <1>5 DEF SetCalls

\* What a text of a file may load.
LEMMA LoadsAre ==
  ASSUME NEW f \in FileIds, NEW d \in Loads[f]
  PROVE  d \in FileIds \cup {None, Panic}
<1>1. Loads[f] \subseteq FileIds \cup {None, Panic}
  BY LoadsAssumption
<1> QED
  BY <1>1

\* The File a load leads to is there, after it has been loaded.
LEMMA LoadedIs ==
  ASSUME IInv, NEW g \in FileIds, LoadFile(g)
  PROVE  /\ inputs' \in Seq(Input) /\ files' \in [FileIds -> Nat]
         /\ LoadedFile(g) \in DOMAIN inputs' /\ inputs'[LoadedFile(g)].id = g
         /\ LoadedFile(g) \in Nat \ {0} /\ files'[g] = LoadedFile(g)
         /\ \A h \in DOMAIN inputs : h \in DOMAIN inputs' /\ inputs'[h] = inputs[h]
         /\ \A f \in FileIds : files[f] # 0 \/ f # g => files'[f] = files[f]
         /\ LoadedFile(g) \in DOMAIN inputs => LoadedFile(g) = files[g] /\ files[g] # 0
<1>1. inputs \in Seq(Input) /\ files \in [FileIds -> Nat] /\ Len(inputs) \in Nat
      /\ DOMAIN inputs = 1..Len(inputs)
  <2>1. inputs \in Seq(Input) /\ files \in [FileIds -> Nat]
    BY DEF IInv, TypeOK
  <2> QED
    BY <2>1, LenProperties
<1>2. CASE files[g] = 0
  <2> PICK d \in Loads[g] : inputs' = Append(inputs, [id |-> g, text |-> 0, loads |-> d])
    BY <1>2 DEF LoadFile
  <2> DEFINE input == [id |-> g, text |-> 0, loads |-> d]
  <2>1. input \in Input /\ input.id = g
    BY LoadsAre DEF Input
  <2>2. inputs' = Append(inputs, input)
        /\ files' = [files EXCEPT ![g] = Len(inputs) + 1]
        /\ LoadedFile(g) = Len(inputs) + 1
    BY <1>2 DEF LoadFile, LoadedFile
  <2>3. DOMAIN inputs' = 1..Len(inputs) + 1 /\ inputs' \in Seq(Input)
    BY <1>1, <2>1, <2>2
  <2> HIDE DEF input
  <2>4. inputs'[Len(inputs) + 1] = input
        /\ \A h \in 1..Len(inputs) : inputs'[h] = inputs[h]
    BY <1>1, <2>1, <2>2, PushIs
  <2> QED
    BY <1>1, <1>2, <2>1, <2>2, <2>3, <2>4
<1>3. CASE files[g] # 0
  BY <1>1, <1>3 DEF LoadFile, LoadedFile, IInv, HandlesExist, IdOf
<1> QED
  BY <1>2, <1>3

\* What is known of the Files that the change and the prelude are about.
LEMMA FileFacts ==
  ASSUME IInv
  PROVE  /\ inputs \in Seq(Input) /\ files \in [FileIds -> Nat]
         /\ Len(inputs) \in Nat /\ DOMAIN inputs = 1..Len(inputs)
         /\ \A f \in FileIds : files[f] # 0 => files[f] \in DOMAIN inputs /\ IdOf(files[f]) = f
         /\ change \in Change /\ changes \in Nat
         /\ change.kind # "none" => change.file \in FileIds
<1>1. inputs \in Seq(Input) /\ files \in [FileIds -> Nat] /\ change \in Change /\ changes \in Nat
  BY DEF IInv, TypeOK
<1>2. \A f \in FileIds : files[f] # 0 => files[f] \in DOMAIN inputs /\ IdOf(files[f]) = f
  BY DEF IInv, HandlesExist
<1>3. change.kind # "none" => change.file \in FileIds
  BY <1>1 DEF Change, NoChange
<1> QED
  BY <1>1, <1>2, <1>3, LenProperties

\* The File an Update is of is there, with its id.
LEMMA UpdateIs ==
  ASSUME IInv, UpdateFile
  PROVE  /\ inputs' \in Seq(Input) /\ DOMAIN inputs' = DOMAIN inputs
         /\ \A h \in DOMAIN inputs : inputs'[h].id = inputs[h].id
<1> DEFINE i == files[change.file]
<1>1. change.kind = "Update" /\ i # 0
  BY DEF UpdateFile, WriteWaits, IInv, MainShape
<1> PICK g \in Loads[change.file] :
         inputs' = [inputs EXCEPT ![i] = [id |-> change.file, text |-> changes, loads |-> g]]
  BY DEF UpdateFile
<1> DEFINE input == [id |-> change.file, text |-> changes, loads |-> g]
<1>2. i \in DOMAIN inputs /\ IdOf(i) = change.file /\ input \in Input
  BY <1>1, FileFacts, LoadsAre DEF Input
<1>3. inputs' = [inputs EXCEPT ![i] = input]
  OBVIOUS
<1>4. inputs \in Seq(Input) /\ i \in 1..Len(inputs) /\ DOMAIN inputs = 1..Len(inputs)
  BY <1>2, FileFacts
<1> HIDE DEF i, input
<1>5. /\ inputs' \in Seq(Input) /\ Len(inputs') = Len(inputs)
      /\ \A h \in 1..Len(inputs) : inputs'[h] = IF h = i THEN input ELSE inputs[h]
  BY <1>2, <1>3, <1>4, ExceptSeq
<1>6. DOMAIN inputs' = 1..Len(inputs)
  BY <1>5, LenProperties
<1>7. input.id = inputs[i].id
  BY <1>2 DEF input, IdOf
<1> QED
  BY <1>4, <1>5, <1>6, <1>7

\* A new File is the last of the inputs.
LEMMA CreateIs ==
  ASSUME IInv, CreateFile
  PROVE  /\ inputs' \in Seq(Input) /\ files' \in [FileIds -> Nat]
         /\ \A h \in DOMAIN inputs : h \in DOMAIN inputs' /\ inputs'[h] = inputs[h]
         /\ files'[change.file] \in DOMAIN inputs' /\ files'[change.file] # 0
         /\ inputs'[files'[change.file]].id = change.file
         /\ \A f \in FileIds : f # change.file => files'[f] = files[f]
         /\ change.file \in FileIds
<1> PICK g \in Loads[change.file] :
         inputs' = Append(inputs, [id |-> change.file, text |-> changes, loads |-> g])
  BY DEF CreateFile
<1> DEFINE input == [id |-> change.file, text |-> changes, loads |-> g]
<1>1. change.file \in FileIds /\ input \in Input
  BY FileFacts, LoadsAre DEF CreateFile, Input
<1>2. inputs' = Append(inputs, input) /\ files' = [files EXCEPT ![change.file] = Len(inputs) + 1]
  BY DEF CreateFile
<1>3. inputs \in Seq(Input) /\ Len(inputs) \in Nat /\ DOMAIN inputs = 1..Len(inputs)
      /\ files \in [FileIds -> Nat]
  BY FileFacts
<1> HIDE DEF input
<1>4. inputs' \in Seq(Input) /\ DOMAIN inputs' = 1..Len(inputs) + 1
      /\ inputs'[Len(inputs) + 1] = input
      /\ \A h \in 1..Len(inputs) : inputs'[h] = inputs[h]
  BY <1>1, <1>2, <1>3, PushIs
<1>5. files'[change.file] = Len(inputs) + 1 /\ files' \in [FileIds -> Nat]
      /\ \A f \in FileIds : f # change.file => files'[f] = files[f]
  BY <1>1, <1>2, <1>3
<1>6. input.id = change.file
  BY DEF input
<1> QED
  BY <1>1, <1>3, <1>4, <1>5, <1>6

\* The moves of a query that is inferring; the others are its beginning and end.
Moves(j) == \/ UseCached(j) \/ InferExpr(j) \/ OwnName(j) \/ NameInPrelude(j)
            \/ LoadItem(j) \/ Conclude(j)

\* Its other ends.
GivesUp(j) == Unwind(j) \/ PanicCaught(j)

\* The load that a name leads to.
LEMMA LoadItemIs ==
  ASSUME IInv, NEW j \in Jobs, LoadItem(j)
  PROVE  LET f == Top(j).of
             g == inputs[f].loads
         IN  /\ Infers(j) /\ Top(j).at = "name" /\ f \in DOMAIN inputs
             /\ g \in FileIds /\ LoadFile(g) /\ IdOf(f) \notin BuildFiles
             /\ Needs(f) = g
<1>1. Infers(j) /\ Top(j).at = "name" /\ LoadFile(inputs[Top(j).of].loads)
      /\ inputs[Top(j).of].loads \in FileIds /\ IdOf(Top(j).of) \notin BuildFiles
  BY DEF LoadItem, InferAt
<1>2. Top(j).of \in DOMAIN inputs /\ IdOf(Top(j).of) \in FileIds
  BY <1>1, TopFacts
<1> QED
  BY <1>1, <1>2 DEF Needs

\* The File of the prelude that a job's snapshot has.
LEMMA PreludeIs ==
  ASSUME IInv, NEW j \in Jobs
  PROVE  /\ PreludeFile(j) \in Nat
         /\ PreludeFile(j) # 0 => /\ prelude /\ Prelude \in FileIds
                                  /\ PreludeFile(j) = files[Prelude]
                                  /\ PreludeFile(j) \in DOMAIN inputs
                                  /\ IdOf(PreludeFile(j)) = Prelude
<1>1. CASE jobs[j].prelude
  <2>1. prelude /\ Prelude \in FileIds /\ files[Prelude] # 0
    BY <1>1 DEF IInv, JobShape, MainShape
  <2>2. PreludeFile(j) = files[Prelude]
    BY <1>1 DEF PreludeFile
  <2> QED
    BY <2>1, <2>2, FileFacts
<1>2. CASE ~jobs[j].prelude
  BY <1>2 DEF PreludeFile
<1> QED
  BY <1>1, <1>2

\* Every step that infers changes the calls of one job in one of three ways.
LEMMA MoveIs ==
  ASSUME IInv, NEW j \in Jobs, Moves(j)
  PROVE  LET calls == jobs[j].calls
         IN  /\ Infers(j)
             /\ \/ \E u \in Call :
                     /\ u.of = Top(j).of
                     /\ \/ SetCalls(j, WithTop(calls, u))
                        \/ \E h \in Nat : SetCalls(j, Append(WithTop(calls, u), Frame(h)))
                \/ \E texts \in Texts : SetCalls(j, Returned(calls, texts))
<1> DEFINE calls == jobs[j].calls
           t == Top(j)
<1>1. Infers(j)
  BY DEF Moves, UseCached, InferExpr, OwnName, NameInPrelude, LoadItem, Conclude, InferAt
<1>2. t \in Call /\ t.of \in Nat \ {0} /\ inputs[t.of].text \in Nat
  BY <1>1, TopFacts
<1> HIDE DEF t
<1>4. CASE UseCached(j)
  <2>1. PICK e \in cx.types : SetCalls(j, Returned(calls, e.texts))
    BY <1>4 DEF UseCached
  <2>2. e.texts \in Texts
    BY DEF IInv, TypeOK, Entry
  <2> QED
    BY <1>1, <2>1, <2>2
<1>5. CASE InferExpr(j)
  <2> DEFINE texts == {<<t.of, inputs[t.of].text>>}
             u == [t EXCEPT !.at = "name", !.texts = texts]
  <2>1. u \in Call /\ u.of = t.of
    <3>1. texts \in Texts
      BY <1>2, TextIs
    <3> HIDE DEF texts
    <3> QED
      BY <1>2, <3>1 DEF Call
  <2>2. SetCalls(j, WithTop(calls, u))
    BY <1>5 DEF InferExpr, t
  <2> HIDE DEF u
  <2> QED
    BY <1>1, <2>1, <2>2 DEF t
<1>6. CASE OwnName(j)
  <2> DEFINE u == [t EXCEPT !.at = "done"]
  <2>1. u \in Call /\ u.of = t.of
    BY <1>2, CallIs
  <2>2. SetCalls(j, WithTop(calls, u))
    BY <1>6 DEF OwnName, t
  <2> HIDE DEF u
  <2> QED
    BY <1>1, <2>1, <2>2 DEF t
<1>7. CASE NameInPrelude(j)
  <2> DEFINE h == PreludeFile(j)
             at == IF h = 0 THEN "done" ELSE "callee"
             u == [t EXCEPT !.at = at, !.via = h]
  <2>1. h \in Nat /\ h \in Int /\ at \in {"done", "callee"}
    BY PreludeIs
  <2>3. SetCalls(j, WithTop(calls, u)) \/ SetCalls(j, Append(WithTop(calls, u), Frame(h)))
    BY <1>7 DEF NameInPrelude, t
  <2> HIDE DEF h, at
  <2>2. u \in Call /\ u.of = t.of
    BY <1>2, <2>1 DEF Call
  <2> HIDE DEF u
  <2> QED
    BY <1>1, <2>1, <2>2, <2>3 DEF t
<1>8. CASE LoadItem(j)
  <2> DEFINE h == LoadedFile(inputs[t.of].loads)
             u == [t EXCEPT !.at = "done", !.via = Circle]
             v == [t EXCEPT !.at = "callee", !.via = h]
  <2>1. h \in Nat
    BY <1>8, LoadItemIs, LoadedIs DEF t
  <2>3. SetCalls(j, WithTop(calls, u)) \/ SetCalls(j, Append(WithTop(calls, v), Frame(h)))
    BY <1>8 DEF LoadItem, t
  <2> HIDE DEF h
  <2>2. u \in Call /\ u.of = t.of /\ v \in Call /\ v.of = t.of
    <3>1. h \in Int /\ Circle \in Int
      BY <2>1, TextIs
    <3> QED
      BY <1>2, <3>1 DEF Call
  <2> HIDE DEF u, v
  <2> QED
    BY <1>1, <2>1, <2>2, <2>3 DEF t
<1>9. CASE Conclude(j)
  <2>1. t.texts \in Texts /\ SetCalls(j, Returned(calls, t.texts))
    BY <1>2, <1>9 DEF Conclude, Call, t
  <2> QED
    BY <1>1, <2>1
<1> QED
  BY <1>4, <1>5, <1>6, <1>7, <1>8, <1>9 DEF Moves

\* So the calls keep their type, and nothing else of a job changes.
LEMMA MovedJobs ==
  ASSUME IInv, NEW j \in Jobs, Moves(j)
  PROVE  /\ jobs' \in [Jobs -> Job] /\ jobs'[j].calls \in Seq(Call)
         /\ \A k \in Jobs : /\ k # j => jobs'[k] = jobs[k]
                            /\ jobs'[k].phase = jobs[k].phase
                            /\ jobs'[k].file = jobs[k].file
                            /\ jobs'[k].prelude = jobs[k].prelude
                            /\ jobs'[k].of = jobs[k].of
                            /\ jobs'[k].result = jobs[k].result
         /\ jobs'[j].calls # <<>> => jobs'[j].calls[1].of = jobs[j].calls[1].of
         /\ UNCHANGED <<main, change, documents, prelude, cancelled, owner, changes>>
<1> DEFINE calls == jobs[j].calls
           Ok(c) == c \in Seq(Call) /\ (c # <<>> => c[1].of = calls[1].of)
<1>1. /\ calls \in Seq(Call) /\ calls # <<>> /\ Len(calls) \in Nat \ {0}
      /\ Top(j) = calls[Len(calls)]
  BY MoveIs, TopFacts
<1> HIDE DEF calls
<1>2. ASSUME NEW u \in Call, u.of = Top(j).of, NEW h \in Nat
      PROVE  Ok(WithTop(calls, u)) /\ Ok(Append(WithTop(calls, u), Frame(h)))
  <2> DEFINE w == WithTop(calls, u)
  <2>1. w \in Seq(Call) /\ Len(w) = Len(calls)
        /\ (\A i \in 1..Len(calls) - 1 : w[i] = calls[i]) /\ w[Len(calls)] = u
    BY <1>1, WithTopIs
  <2> HIDE DEF w
  <2>2. w[1].of = calls[1].of
    <3>1. CASE Len(calls) = 1
      BY <1>1, <1>2, <2>1, <3>1
    <3>2. CASE Len(calls) # 1
      <4>1. \A n \in Nat \ {0} : n # 1 => 1 \in 1..n - 1
        OBVIOUS
      <4>2. 1 \in 1..Len(calls) - 1
        BY <1>1, <3>2, <4>1
      <4> QED
        BY <2>1, <4>2
    <3> QED
      BY <3>1, <3>2
  <2>3. Append(w, Frame(h)) \in Seq(Call)
        /\ \A i \in 1..Len(w) : Append(w, Frame(h))[i] = w[i]
    BY <2>1, FrameIs, PushIs
  <2>4. 1 \in 1..Len(w)
    BY <1>1, <2>1
  <2> QED
    BY <2>1, <2>2, <2>3, <2>4 DEF w
<1>3. ASSUME NEW texts \in Texts PROVE Ok(Returned(calls, texts))
  <2> DEFINE r == Returned(calls, texts)
             n == Len(calls)
  <2>1. /\ r \in Seq(Call) /\ Len(r) = n - 1 /\ n \in Nat \ {0}
        /\ \A i \in 1..n - 2 : r[i] = calls[i]
        /\ n > 1 => r[n - 1] = [calls[n - 1] EXCEPT !.at = "done", !.texts = @ \cup texts]
    BY <1>1, ReturnedIs
  <2> HIDE DEF r, n
  <2>2. ASSUME r # <<>> PROVE r[1].of = calls[1].of
    <3>1. n > 1
      <4>1. Len(r) # 0
        BY <2>1, <2>2, EmptySeq
      <4> QED
        BY <2>1, <4>1
    <3>2. CASE n = 2
      <4>1. calls[1] \in Call
        <5>1. 1 \in 1..Len(calls)
          BY <2>1, <3>1 DEF n
        <5> QED
          BY <1>1, <5>1, ElementOfSeq
      <4> DEFINE u == [calls[1] EXCEPT !.at = "done", !.texts = @ \cup texts]
      <4>2. u.of = calls[1].of
        BY <4>1, CallerIs
      <4>3. r[1] = u
        BY <2>1, <3>2
      <4> HIDE DEF u
      <4> QED
        BY <4>2, <4>3
    <3>3. CASE n # 2
      <4>1. 1 \in 1..n - 2
        BY <2>1, <3>1, <3>3
      <4> QED
        BY <2>1, <4>1
    <3> QED
      BY <3>2, <3>3
  <2> QED
    BY <2>1, <2>2 DEF r
<1>4. TypeOK
  BY DEF IInv
<1>5. PICK c : SetCalls(j, c) /\ Ok(c)
  BY <1>2, <1>3, MoveIs DEF calls
<1> QED
  BY <1>4, <1>5, SetCallsIs DEF calls

\* The InferenceContext has its type.
Context == [types : SUBSET Entry, stack : Seq(Nat), diagnostics : SUBSET Diagnostic]

\* The top call of j becomes u, which may wait for a call of h, or returns.
Advanced(j, u) ==
  u \in Call /\ u.of = Top(j).of /\ jobs'[j].calls = WithTop(jobs[j].calls, u)
Descended(j, u, h) ==
  /\ u \in Call /\ u.of = Top(j).of /\ u.at = "callee" /\ u.texts = Top(j).texts
  /\ h \in Nat \ {0} /\ u.via = h
  /\ jobs'[j].calls = Append(WithTop(jobs[j].calls, u), Frame(h))
Left(j, texts) ==
  texts \in Texts /\ jobs'[j].calls = Returned(jobs[j].calls, texts)

\* What the step of each action does, field by field.
LEMMA UseCachedIs ==
  ASSUME IInv, NEW j \in Jobs, UseCached(j)
  PROVE  /\ Infers(j) /\ Top(j).at = "expr" /\ UNCHANGED <<inputs, files, cx>>
         /\ \E e \in cx.types : e.of = Top(j).of /\ Left(j, e.texts)
<1>1. Infers(j) /\ Top(j).at = "expr" /\ UNCHANGED <<inputs, files, cx>>
  BY DEF UseCached, InferAt
<1>2. PICK e \in cx.types : e.of = Top(j).of /\ SetCalls(j, Returned(jobs[j].calls, e.texts))
  BY DEF UseCached
<1>3. e.texts \in Texts /\ TypeOK
  BY DEF IInv, TypeOK, Entry
<1>4. Returned(jobs[j].calls, e.texts) \in Seq(Call)
  BY <1>1, <1>3, TopFacts, ReturnedIs
<1>5. jobs'[j].calls = Returned(jobs[j].calls, e.texts)
  BY <1>2, <1>3, <1>4, SetCallsIs
<1> QED
  BY <1>1, <1>2, <1>3, <1>5 DEF Left

\* An expression is inferred: it is reported, and its name is next.
LEMMA InferExprIs ==
  ASSUME IInv, NEW j \in Jobs, InferExpr(j)
  PROVE  /\ Infers(j) /\ Top(j).at = "expr" /\ UNCHANGED <<inputs, files>> /\ ~cancelled
         /\ cx' \in Context /\ cx'.types = cx.types /\ cx'.stack = cx.stack
         /\ cx'.diagnostics = cx.diagnostics \cup {DiagnosticOf(Top(j).of, "expr")}
         /\ \E u \in Call : /\ Advanced(j, u) /\ u.at = "name" /\ u.via = Top(j).via
                            /\ u.texts = {<<Top(j).of, inputs[Top(j).of].text>>}
<1> DEFINE t == Top(j)
           texts == {<<t.of, inputs[t.of].text>>}
           u == [t EXCEPT !.at = "name", !.texts = texts]
           d == DiagnosticOf(t.of, "expr")
<1>1. Infers(j) /\ t.at = "expr" /\ UNCHANGED <<inputs, files>> /\ ~cancelled
      /\ cx' = [cx EXCEPT !.diagnostics = @ \cup {d}] /\ SetCalls(j, WithTop(jobs[j].calls, u))
  BY DEF InferExpr, InferAt
<1>2. t \in Call /\ texts \in Texts /\ d \in Diagnostic
  BY <1>1, TopFacts, InputFacts, TextIs
<1>3. cx \in Context /\ TypeOK
  BY DEF IInv, TypeOK, Context
<1> HIDE DEF t, texts, d
<1>4. u \in Call /\ u.of = t.of /\ u.at = "name" /\ u.via = t.via /\ u.texts = texts
  BY <1>2 DEF Call
<1>5. cx' \in Context /\ cx'.types = cx.types /\ cx'.stack = cx.stack
      /\ cx'.diagnostics = cx.diagnostics \cup {d}
  BY <1>1, <1>2, <1>3 DEF Context
<1> HIDE DEF u
<1>6. jobs'[j].calls = WithTop(jobs[j].calls, u)
  <2>1. WithTop(jobs[j].calls, u) \in Seq(Call)
    BY <1>1, <1>4, TopFacts, WithTopIs
  <2> QED
    BY <1>1, <1>3, <2>1, SetCallsIs
<1> QED
  BY <1>1, <1>4, <1>5, <1>6 DEF Advanced, t, texts, d

\* A file that loads nothing finds its name in itself.
LEMMA OwnNameIs ==
  ASSUME IInv, NEW j \in Jobs, OwnName(j)
  PROVE  /\ Infers(j) /\ Top(j).at = "name" /\ UNCHANGED <<inputs, files, cx>>
         /\ inputs[Top(j).of].loads = None
         /\ \E u \in Call : /\ Advanced(j, u) /\ u.at = "done" /\ u.via = Top(j).via
                            /\ u.texts = Top(j).texts
<1> DEFINE t == Top(j)
           u == [t EXCEPT !.at = "done"]
<1>1. Infers(j) /\ t.at = "name" /\ UNCHANGED <<inputs, files, cx>>
      /\ inputs[t.of].loads = None /\ SetCalls(j, WithTop(jobs[j].calls, u))
  BY DEF OwnName, InferAt
<1>2. t \in Call /\ TypeOK
  BY <1>1, TopFacts DEF IInv
<1> HIDE DEF t
<1>3. u \in Call /\ u.of = t.of /\ u.at = "done" /\ u.via = t.via /\ u.texts = t.texts
  BY <1>2 DEF Call
<1> HIDE DEF u
<1>4. jobs'[j].calls = WithTop(jobs[j].calls, u)
  <2>1. WithTop(jobs[j].calls, u) \in Seq(Call)
    BY <1>1, <1>3, TopFacts, WithTopIs
  <2> QED
    BY <1>1, <1>2, <2>1, SetCallsIs
<1> QED
  BY <1>1, <1>3, <1>4 DEF Advanced, t

\* A BUILD file asks the prelude, or reports the name where there is none.
LEMMA NameInPreludeIs ==
  ASSUME IInv, NEW j \in Jobs, NameInPrelude(j)
  PROVE  /\ Infers(j) /\ Top(j).at = "name" /\ UNCHANGED <<inputs, files>>
         /\ IdOf(Top(j).of) \in BuildFiles
         /\ cx' \in Context /\ cx'.types = cx.types /\ cx'.stack = cx.stack
         /\ \/ /\ cx'.diagnostics = cx.diagnostics \cup {DiagnosticOf(Top(j).of, "undefined")}
               /\ \E u \in Call : /\ Advanced(j, u) /\ u.at = "done" /\ u.via = 0
                                  /\ u.texts = Top(j).texts
            \/ /\ cx' = cx /\ PreludeFile(j) # 0
               /\ \E u \in Call : Descended(j, u, PreludeFile(j))
<1> DEFINE t == Top(j)
           h == PreludeFile(j)
           calls == jobs[j].calls
           at == IF h = 0 THEN "done" ELSE "callee"
           u == [t EXCEPT !.at = at, !.via = h]
           d == DiagnosticOf(t.of, "undefined")
<1>1. Infers(j) /\ t.at = "name" /\ UNCHANGED <<inputs, files>> /\ IdOf(t.of) \in BuildFiles
      /\ SetCalls(j, IF h = 0 THEN WithTop(calls, u) ELSE Append(WithTop(calls, u), Frame(h)))
      /\ cx' = IF h = 0 THEN [cx EXCEPT !.diagnostics = @ \cup {d}] ELSE cx
  BY DEF NameInPrelude, InferAt
<1>2. t \in Call /\ d \in Diagnostic /\ h \in Nat
  BY <1>1, TopFacts, InputFacts, PreludeIs
<1>3. cx \in Context /\ TypeOK
  BY DEF IInv, TypeOK, Context
<1>4. at \in {"done", "callee"} /\ (h = 0 => at = "done") /\ (h # 0 => at = "callee")
  OBVIOUS
<1> HIDE DEF t, d, h, at
<1>5. u \in Call /\ u.of = t.of /\ u.at = at /\ u.via = h /\ u.texts = t.texts
  <2>1. at \in {"expr", "name", "callee", "done"} /\ h \in Int
    BY <1>2, <1>4
  <2> QED
    BY <1>2, <2>1 DEF Call
<1> HIDE DEF u
<1>6. WithTop(calls, u) \in Seq(Call) /\ Append(WithTop(calls, u), Frame(h)) \in Seq(Call)
  BY <1>1, <1>2, <1>5, TopFacts, WithTopIs, FrameIs, PushIs
<1>7. CASE h = 0
  <2>1. jobs'[j].calls = WithTop(calls, u)
    BY <1>1, <1>3, <1>6, <1>7, SetCallsIs
  <2>2. cx' \in Context /\ cx'.types = cx.types /\ cx'.stack = cx.stack
        /\ cx'.diagnostics = cx.diagnostics \cup {d}
    BY <1>1, <1>2, <1>3, <1>7 DEF Context
  <2> QED
    BY <1>1, <1>4, <1>5, <1>7, <2>1, <2>2 DEF Advanced, t, d
<1>8. CASE h # 0
  <2>1. jobs'[j].calls = Append(WithTop(calls, u), Frame(h))
    BY <1>1, <1>3, <1>6, <1>8, SetCallsIs
  <2>2. Descended(j, u, h)
    BY <1>2, <1>4, <1>5, <1>8, <2>1 DEF Descended, t
  <2> QED
    BY <1>1, <1>3, <1>5, <1>8, <2>2 DEF t, h
<1> QED
  BY <1>7, <1>8

\* An expression that is done gives its entry to the cache, and leaves.
LEMMA ConcludeIs ==
  ASSUME IInv, NEW j \in Jobs, Conclude(j)
  PROVE  /\ Infers(j) /\ Top(j).at = "done" /\ UNCHANGED <<inputs, files>>
         /\ cx' \in Context /\ cx'.diagnostics = cx.diagnostics
         /\ cx'.types = cx.types \cup
              {[of |-> Top(j).of, texts |-> Top(j).texts, via |-> Top(j).via]}
         /\ IsLoading(Top(j)) => cx'.stack = SubSeq(cx.stack, 1, Len(cx.stack) - 1)
         /\ ~IsLoading(Top(j)) => cx'.stack = cx.stack
         /\ Left(j, Top(j).texts)
<1> DEFINE t == Top(j)
           e == [of |-> t.of, texts |-> t.texts, via |-> t.via]
           stack == IF IsLoading(t) THEN SubSeq(cx.stack, 1, Len(cx.stack) - 1) ELSE cx.stack
<1>1. Infers(j) /\ t.at = "done" /\ UNCHANGED <<inputs, files>>
      /\ SetCalls(j, Returned(jobs[j].calls, t.texts))
  BY DEF Conclude, InferAt
<1>2. cx' = [cx EXCEPT !.types = @ \cup {e}, !.stack = stack]
  BY DEF Conclude, IsLoading
<1>3. t \in Call
  BY <1>1, TopFacts
<1>4. cx \in Context /\ TypeOK
  BY DEF IInv, TypeOK, Context
<1>5. stack \in Seq(Nat)
  <2>1. cx.stack \in Seq(Nat) /\ Len(cx.stack) \in Nat
    BY <1>4 DEF Context
  <2>2. \A i \in 1..Len(cx.stack) - 1 : cx.stack[i] \in Nat
    BY <2>1
  <2> QED
    BY <2>1, <2>2, SubSeqProperties
<1> HIDE DEF t, stack
<1>6. e \in Entry /\ t.texts \in Texts
  BY <1>3 DEF Call, Entry
<1> HIDE DEF e
<1>7. cx' \in Context /\ cx'.types = cx.types \cup {e} /\ cx'.stack = stack
      /\ cx'.diagnostics = cx.diagnostics
  BY <1>2, <1>4, <1>5, <1>6 DEF Context
<1>8. Returned(jobs[j].calls, t.texts) \in Seq(Call)
  BY <1>1, <1>6, TopFacts, ReturnedIs
<1>9. jobs'[j].calls = Returned(jobs[j].calls, t.texts)
  BY <1>1, <1>4, <1>8, SetCallsIs
<1> QED
  BY <1>1, <1>6, <1>7, <1>9 DEF Left, t, e, stack

\* A load reports a circle, finds nothing, or descends into the loaded file.
LEMMA LoadItemMoves ==
  ASSUME IInv, NEW j \in Jobs, LoadItem(j)
  PROVE  LET f == Top(j).of
             h == LoadedFile(inputs[f].loads)
         IN  /\ cx' \in Context /\ cx'.types = cx.types
             /\ \/ /\ IsCircle(j, h) /\ cx'.stack = cx.stack
                   /\ cx'.diagnostics = cx.diagnostics \cup
                        {DiagnosticOf(k, "circle") :
                           k \in ({f} \cup (IF h = f THEN {} ELSE Elements(cx.stack)))}
                   /\ \E u \in Call : /\ Advanced(j, u) /\ u.at = "done" /\ u.via = Circle
                                      /\ u.texts = Top(j).texts
                \/ /\ ~IsCircle(j, h) /\ cx'.stack = Append(cx.stack, f)
                   /\ cx'.diagnostics = cx.diagnostics
                   /\ \E u \in Call : Descended(j, u, h)
<1> DEFINE t == Top(j)
           calls == jobs[j].calls
           f == t.of
           h == LoadedFile(inputs[f].loads)
           u == [t EXCEPT !.at = "done", !.via = Circle]
           v == [t EXCEPT !.at = "callee", !.via = h]
           ds == {DiagnosticOf(k, "circle") :
                    k \in ({f} \cup (IF h = f THEN {} ELSE Elements(cx.stack)))}
<1>1. CASE IsCircle(j, h)
  <2>1. SetCalls(j, WithTop(calls, u)) /\ cx' = [cx EXCEPT !.diagnostics = @ \cup ds]
    BY <1>1 DEF LoadItem
  <2>2. Infers(j) /\ t \in Call /\ Circle \in Int
    BY LoadItemIs, TopFacts, TextIs
  <2>3. cx \in Context /\ TypeOK
    BY DEF IInv, TypeOK, Context
  <2>4. ds \subseteq Diagnostic
    <3>1. f \in DOMAIN inputs /\ Elements(cx.stack) \subseteq DOMAIN inputs
      BY LoadItemIs DEF IInv, HandlesExist
    <3>2. ASSUME NEW k \in DOMAIN inputs PROVE DiagnosticOf(k, "circle") \in Diagnostic
      <4>1. "circle" \in {"expr", "undefined", "circle"}
        OBVIOUS
      <4> QED
        BY <4>1, InputFacts
    <3> QED
      BY <3>1, <3>2
  <2> HIDE DEF t, ds
  <2>5. u \in Call /\ u.of = t.of /\ u.at = "done" /\ u.via = Circle /\ u.texts = t.texts
    BY <2>2 DEF Call
  <2> HIDE DEF u
  <2>6. cx' \in Context /\ cx'.types = cx.types /\ cx'.stack = cx.stack
        /\ cx'.diagnostics = cx.diagnostics \cup ds
    BY <2>1, <2>3, <2>4 DEF Context
  <2>7. WithTop(calls, u) \in Seq(Call)
    BY <2>2, <2>5, TopFacts, WithTopIs
  <2>8. Advanced(j, u)
    BY <2>1, <2>3, <2>5, <2>7, SetCallsIs DEF Advanced, t
  <2> QED
    BY <1>1, <2>5, <2>6, <2>8 DEF t, ds
<1>2. CASE ~IsCircle(j, h)
  <2>1. SetCalls(j, Append(WithTop(calls, v), Frame(h))) /\ cx' = [cx EXCEPT !.stack = Append(@, f)]
    BY <1>2 DEF LoadItem
  <2>2. Infers(j) /\ t \in Call /\ h \in Nat \ {0} /\ f \in Nat
    BY LoadItemIs, LoadedIs, TopFacts
  <2>3. cx \in Context /\ TypeOK
    BY DEF IInv, TypeOK, Context
  <2> HIDE DEF h
  <2>5. v \in Call /\ v.of = t.of /\ v.at = "callee" /\ v.via = h /\ v.texts = t.texts
    <3> HIDE DEF t
    <3>1. h \in Int
      BY <2>2
    <3> QED
      BY <2>2, <3>1 DEF Call
  <2> HIDE DEF v, f
  <2>6. cx' \in Context /\ cx'.types = cx.types /\ cx'.stack = Append(cx.stack, f)
        /\ cx'.diagnostics = cx.diagnostics
    <3>1. Append(cx.stack, f) \in Seq(Nat)
      BY <2>2, <2>3, PushIs DEF Context
    <3> QED
      BY <2>1, <2>3, <3>1 DEF Context
  <2>7. Append(WithTop(calls, v), Frame(h)) \in Seq(Call)
    BY <2>2, <2>5, TopFacts, WithTopIs, FrameIs, PushIs
  <2>8. Descended(j, v, h)
    BY <2>1, <2>2, <2>3, <2>5, <2>7, SetCallsIs DEF Descended
  <2> QED
    BY <1>2, <2>5, <2>6, <2>8 DEF h, f
<1> QED
  BY <1>1, <1>2

\* The steps, those of a query apart.
LEMMA StepIs ==
  ASSUME Next
  PROVE  \/ \E f \in FileIds : DidOpen(f) \/ DidChange(f)
         \/ ForceAnalysis \/ CreateFile \/ UpdateFile \/ NoFiles \/ DropGuard \/ SetPrelude
         \/ \E j \in Jobs : \/ \E f \in FileIds : Query(j, f)
                            \/ GetFile(j) \/ Lock(j) \/ Moves(j)
                            \/ Collect(j) \/ GivesUp(j) \/ Deliver(j)
BY DEF Next, Client, ApplyChange, Worker, Infer, Moves, GivesUp

\* A query's beginning and end: of the jobs, its own alone changes.
JobOnly(j) ==
  /\ jobs' \in [Jobs -> Job]
  /\ \A k \in Jobs : k # j => jobs'[k] = jobs[k]
  /\ UNCHANGED <<main, change, documents, inputs, files, prelude, cancelled, cx, changes>>

Kept(j) == /\ jobs'[j].file = jobs[j].file /\ jobs'[j].prelude = jobs[j].prelude
           /\ jobs'[j].calls = jobs[j].calls /\ jobs'[j].result = jobs[j].result

\* A free job is a job.
LEMMA FreeIs ==
  FreeJob \in Job /\ FreeJob.phase = "free" /\ FreeJob.file = None /\ ~FreeJob.prelude
  /\ FreeJob.of = 0 /\ FreeJob.calls = <<>> /\ FreeJob.result = {}
<1>1. <<>> \in Seq(Call)
  OBVIOUS
<1> QED
  BY <1>1 DEF FreeJob, Job

\* A query begins with a snapshot of the prelude, while no change is applied.
LEMMA QueryIs ==
  ASSUME IInv, NEW j \in Jobs, NEW f \in FileIds, Query(j, f)
  PROVE  /\ JobOnly(j) /\ owner' = owner /\ main = "idle" /\ jobs[j].phase = "free"
         /\ jobs'[j].phase = "queued" /\ jobs'[j].file = f /\ jobs'[j].prelude = prelude
         /\ jobs'[j].of = 0 /\ jobs'[j].calls = <<>> /\ jobs'[j].result = {}
<1> DEFINE q == [FreeJob EXCEPT !.phase = "queued", !.file = f, !.prelude = prelude]
<1>1. jobs \in [Jobs -> Job] /\ prelude \in BOOLEAN
  BY DEF IInv, TypeOK
<1>2. /\ q \in Job /\ q.phase = "queued" /\ q.file = f /\ q.prelude = prelude
      /\ q.of = 0 /\ q.calls = <<>> /\ q.result = {}
  BY <1>1, FreeIs DEF Job
<1>3. jobs' = [jobs EXCEPT ![j] = q] /\ owner' = owner /\ main = "idle" /\ jobs[j].phase = "free"
      /\ UNCHANGED <<main, change, documents, inputs, files, prelude, cancelled, cx, changes>>
  BY DEF Query, dbVars
<1> HIDE DEF q
<1> QED
  BY <1>1, <1>2, <1>3 DEF JobOnly

\* A query reads the active File of its file id.
LEMMA GetFileIs ==
  ASSUME IInv, NEW j \in Jobs, GetFile(j)
  PROVE  /\ JobOnly(j) /\ owner' = owner /\ jobs[j].phase = "queued" /\ Kept(j)
         /\ jobs[j].calls = <<>> /\ jobs[j].file \in FileIds
         /\ jobs'[j].of = files[jobs[j].file]
         /\ jobs'[j].phase = IF jobs'[j].of = 0 THEN "collected" ELSE "waiting"
<1> DEFINE h == files[jobs[j].file]
           phase == IF h = 0 THEN "collected" ELSE "waiting"
           q == [jobs[j] EXCEPT !.of = h, !.phase = phase]
<1>1. jobs \in [Jobs -> Job] /\ jobs[j].phase = "queued"
  BY DEF IInv, TypeOK, GetFile
<1>2. jobs[j].calls = <<>> /\ jobs[j].file \in FileIds /\ h \in Nat
  BY <1>1, FileFacts DEF IInv, JobShape
<1>3. jobs' = [jobs EXCEPT ![j] = q] /\ owner' = owner
      /\ UNCHANGED <<main, change, documents, inputs, files, prelude, cancelled, cx, changes>>
  BY <1>1 DEF GetFile, dbVars
<1>4. phase \in {"collected", "waiting"}
  OBVIOUS
<1> HIDE DEF h, phase
<1>5. /\ q \in Job /\ q.phase = phase /\ q.file = jobs[j].file /\ q.prelude = jobs[j].prelude
      /\ q.of = h /\ q.calls = jobs[j].calls /\ q.result = jobs[j].result
  BY <1>1, <1>2, <1>4 DEF Job
<1> HIDE DEF q
<1> QED
  BY <1>1, <1>2, <1>3, <1>5 DEF JobOnly, Kept, h, phase

\* A query gets the mutex when nobody has it.
LEMMA LockIs ==
  ASSUME IInv, NEW j \in Jobs, Lock(j)
  PROVE  /\ JobOnly(j) /\ owner = None /\ owner' = j /\ jobs[j].phase = "waiting"
         /\ jobs'[j].phase = "infer" /\ jobs'[j].file = jobs[j].file
         /\ jobs'[j].prelude = jobs[j].prelude /\ jobs'[j].of = jobs[j].of
         /\ jobs[j].of \in DOMAIN inputs /\ jobs[j].of \in Nat /\ Frame(jobs[j].of) \in Call
         /\ jobs'[j].calls = <<Frame(jobs[j].of)>> /\ jobs'[j].result = jobs[j].result
<1> DEFINE calls == <<Frame(jobs[j].of)>>
           q == [jobs[j] EXCEPT !.phase = "infer", !.calls = calls]
<1>1. jobs \in [Jobs -> Job] /\ jobs[j].phase = "waiting"
  BY DEF IInv, TypeOK, Lock
<1>2. jobs[j].of \in DOMAIN inputs /\ jobs[j].of \in Nat
  BY <1>1, InputFacts DEF IInv, JobShape
<1>3. Frame(jobs[j].of) \in Call /\ calls \in Seq(Call)
  BY <1>2, FrameIs
<1>4. jobs' = [jobs EXCEPT ![j] = q] /\ owner = None /\ owner' = j
      /\ UNCHANGED <<main, change, documents, inputs, files, prelude, cancelled, cx, changes>>
  BY <1>1 DEF Lock, dbVars
<1> HIDE DEF calls
<1>5. /\ q \in Job /\ q.phase = "infer" /\ q.file = jobs[j].file /\ q.prelude = jobs[j].prelude
      /\ q.of = jobs[j].of /\ q.calls = calls /\ q.result = jobs[j].result
  BY <1>1, <1>3 DEF Job
<1> HIDE DEF q
<1> QED
  BY <1>1, <1>2, <1>3, <1>4, <1>5 DEF JobOnly, calls

\* A query that has inferred its File takes the diagnostics of its file id.
LEMMA CollectIs ==
  ASSUME IInv, NEW j \in Jobs, Collect(j)
  PROVE  /\ JobOnly(j) /\ owner = j /\ owner' = None /\ jobs[j].phase = "infer"
         /\ jobs[j].calls = <<>> /\ jobs'[j].phase = "collected"
         /\ jobs'[j].file = jobs[j].file /\ jobs'[j].prelude = jobs[j].prelude
         /\ jobs'[j].calls = <<>>
         /\ jobs'[j].result = {d \in cx.diagnostics : d.file = jobs[j].file}
<1> DEFINE result == {d \in cx.diagnostics : d.file = jobs[j].file}
           q == [jobs[j] EXCEPT !.phase = "collected", !.result = result]
<1>1. jobs \in [Jobs -> Job] /\ cx.diagnostics \subseteq Diagnostic
  BY DEF IInv, TypeOK
<1>2. jobs[j].phase = "infer" /\ jobs[j].calls = <<>> /\ owner = j
  BY DEF Collect, IInv, JobShape
<1>3. jobs' = [jobs EXCEPT ![j] = q] /\ owner' = None
      /\ UNCHANGED <<main, change, documents, inputs, files, prelude, cancelled, cx, changes>>
  BY <1>1 DEF Collect, dbVars
<1>4. result \in SUBSET Diagnostic
  BY <1>1
<1> HIDE DEF result
<1>5. /\ q \in Job /\ q.phase = "collected" /\ q.file = jobs[j].file /\ q.calls = jobs[j].calls
      /\ q.prelude = jobs[j].prelude /\ q.result = result
  BY <1>1, <1>4 DEF Job
<1> HIDE DEF q
<1> QED
  BY <1>1, <1>2, <1>3, <1>5 DEF JobOnly, result

\* A query that is cancelled or panics gives up its calls and the mutex.
LEMMA GivesUpIs ==
  ASSUME IInv, NEW j \in Jobs, GivesUp(j)
  PROVE  /\ JobOnly(j) /\ owner = j /\ owner' = None /\ jobs[j].phase = "infer"
         /\ jobs'[j] = FreeJob /\ (cancelled \/ InferPanics(j))
<1>1. jobs[j].phase = "infer" /\ GiveUp(j)
  BY DEF GivesUp, Unwind, PanicCaught, MayUnwind, InferPanics, InferAt, Infers
<1>2. cancelled \/ InferPanics(j)
  <2>1. WriteWaits => main = "apply"
    BY DEF WriteWaits
  <2> QED
    BY <2>1 DEF GivesUp, Unwind, PanicCaught, MayUnwind, IInv, MainShape
<1>3. jobs \in [Jobs -> Job] /\ jobs' = [jobs EXCEPT ![j] = FreeJob] /\ owner' = None
      /\ UNCHANGED <<main, change, documents, inputs, files, prelude, cancelled, cx, changes>>
  BY <1>1 DEF GiveUp, IInv, TypeOK, dbVars
<1> QED
  BY <1>1, <1>2, <1>3, FreeIs DEF JobOnly, IInv, JobShape

\* A query that has collected is free again.
LEMMA DeliverIs ==
  ASSUME IInv, NEW j \in Jobs, Deliver(j)
  PROVE  JobOnly(j) /\ owner' = owner /\ jobs[j].phase = "collected" /\ jobs'[j] = FreeJob
<1>1. jobs \in [Jobs -> Job] /\ jobs' = [jobs EXCEPT ![j] = FreeJob] /\ owner' = owner
      /\ jobs[j].phase = "collected"
      /\ UNCHANGED <<main, change, documents, inputs, files, prelude, cancelled, cx, changes>>
  BY DEF Deliver, IInv, TypeOK, dbVars
<1> QED
  BY <1>1, FreeIs DEF JobOnly

-----------------------------------------------------------------------------
(***************************************************************************)
(* The calls and the stack of loads, as the inputs give the Files their    *)
(* needs: CallShape and StackIsOf of any inputs, stack and calls.          *)
(***************************************************************************)
LoadsIn(ins, t) == t.via > 0 /\ ins[t.of].id \notin BuildFiles

NeedsIn(ins, h) == IF ins[h].id \in BuildFiles THEN Prelude ELSE ins[h].loads

EndlessIn(ins, S) ==
  \A h \in S : ins[h].loads = Panic \/ \E k \in S : ins[k].id = NeedsIn(ins, h)

NeverEndsIn(ins, h) == \E S \in SUBSET DOMAIN ins : h \in S /\ EndlessIn(ins, S)

StackOf(ins, stack, calls) ==
  \E at \in [DOMAIN stack -> {0} \cup DOMAIN calls] :
    /\ \A i, k \in DOMAIN stack : i < k => at[i] = 0 \/ at[i] < at[k]
    /\ \A i \in DOMAIN stack :
         IF at[i] = 0 THEN NeverEndsIn(ins, stack[i]) ELSE stack[i] = calls[at[i]].of
    /\ \A n \in DOMAIN calls : LoadsIn(ins, calls[n]) <=> \E i \in DOMAIN stack : at[i] = n

\* They are those of Inference.
LEMMA StackIsThat ==
  ASSUME NEW calls
  PROVE  /\ StackIsOf(calls) <=> StackOf(inputs, cx.stack, calls)
         /\ \A h : NeverEnds(h) <=> NeverEndsIn(inputs, h)
         /\ \A h : Needs(h) = NeedsIn(inputs, h)
<1>1. \A h : NeverEnds(h) <=> NeverEndsIn(inputs, h)
  BY DEF NeverEnds, NeverEndsIn, Endless, EndlessIn, Needs, NeedsIn, IdOf
<1>2. \A t : IsLoading(t) <=> LoadsIn(inputs, t)
  BY DEF IsLoading, LoadsIn, IdOf
<1>3. StackIsOf(calls) <=> StackOf(inputs, cx.stack, calls)
  BY <1>1, <1>2 DEF StackIsOf, StackOf
<1> QED
  BY <1>1, <1>3 DEF Needs, NeedsIn, IdOf

ShapeOf(ins, calls) ==
  /\ \A i \in DOMAIN calls : calls[i].at \in {"expr", "name"} => calls[i].via = 0
  /\ \A i \in 1..Len(calls) - 1 :
       calls[i].at = "callee" /\ NeedsIn(ins, calls[i].of) = ins[calls[i + 1].of].id

\* What never ends goes on so with the Files of other inputs.
GoOn(ins, jns) == \A h : NeverEndsIn(ins, h) => NeverEndsIn(jns, h)

\* So it is where the Files are there still and no text of one has changed.
LEMMA GoOnIs ==
  ASSUME NEW ins, NEW jns, \A h \in DOMAIN ins : h \in DOMAIN jns /\ jns[h] = ins[h]
  PROVE  GoOn(ins, jns)
<1> SUFFICES ASSUME NEW h, NeverEndsIn(ins, h) PROVE NeverEndsIn(jns, h)
  BY DEF GoOn
<1>1. PICK S \in SUBSET DOMAIN ins : h \in S /\ EndlessIn(ins, S)
  BY DEF NeverEndsIn
<1>2. S \in SUBSET DOMAIN jns /\ \A k \in S : jns[k] = ins[k]
  OBVIOUS
<1>3. EndlessIn(jns, S)
  BY <1>1, <1>2 DEF EndlessIn, NeedsIn
<1> QED
  BY <1>1, <1>2, <1>3 DEF NeverEndsIn

\* The stack stays that of the calls if none begins or ends a load.
LEMMA StackKept ==
  ASSUME NEW ins, NEW jns, NEW stack, NEW calls, NEW c, StackOf(ins, stack, calls),
         GoOn(ins, jns), 0 \notin DOMAIN c,
         \A i \in DOMAIN calls \cap DOMAIN c :
           c[i].of = calls[i].of /\ (LoadsIn(jns, c[i]) <=> LoadsIn(ins, calls[i])),
         \A i \in DOMAIN calls \ DOMAIN c : ~LoadsIn(ins, calls[i]),
         \A i \in DOMAIN c \ DOMAIN calls : ~LoadsIn(jns, c[i])
  PROVE  StackOf(jns, stack, c)
<1>1. PICK at \in [DOMAIN stack -> {0} \cup DOMAIN calls] :
        /\ \A i, k \in DOMAIN stack : i < k => at[i] = 0 \/ at[i] < at[k]
        /\ \A i \in DOMAIN stack :
             IF at[i] = 0 THEN NeverEndsIn(ins, stack[i]) ELSE stack[i] = calls[at[i]].of
        /\ \A n \in DOMAIN calls : LoadsIn(ins, calls[n]) <=> \E i \in DOMAIN stack : at[i] = n
  BY DEF StackOf
<1>2. \A i \in DOMAIN stack : at[i] = 0 \/ at[i] \in DOMAIN calls \cap DOMAIN c
  BY <1>1
<1>3. at \in [DOMAIN stack -> {0} \cup DOMAIN c]
  BY <1>1, <1>2
<1>4. \A i \in DOMAIN stack :
        IF at[i] = 0 THEN NeverEndsIn(jns, stack[i]) ELSE stack[i] = c[at[i]].of
  <2> SUFFICES ASSUME NEW i \in DOMAIN stack
               PROVE  IF at[i] = 0 THEN NeverEndsIn(jns, stack[i]) ELSE stack[i] = c[at[i]].of
    OBVIOUS
  <2>1. CASE at[i] = 0
    BY <1>1, <2>1 DEF GoOn
  <2>2. CASE at[i] # 0
    BY <1>1, <1>2, <2>2
  <2> QED
    BY <2>1, <2>2
<1>5. ASSUME NEW n \in DOMAIN c
      PROVE  LoadsIn(jns, c[n]) <=> \E i \in DOMAIN stack : at[i] = n
  <2>1. CASE n \in DOMAIN calls
    BY <1>1, <2>1
  <2>2. CASE n \notin DOMAIN calls
    BY <1>2, <2>2
  <2> QED
    BY <2>1, <2>2
<1> QED
  BY <1>1, <1>3, <1>4, <1>5 DEF StackOf

\* A load that begins at the top goes on the stack.
LEMMA StackPushed ==
  ASSUME NEW ins, NEW jns, NEW stack \in Seq(Nat), NEW n \in Nat \ {0}, NEW m \in Nat, n <= m,
         NEW calls, NEW c, DOMAIN calls = 1..n, DOMAIN c = 1..m,
         StackOf(ins, stack, calls), GoOn(ins, jns),
         \A i \in 1..n - 1 :
           c[i].of = calls[i].of /\ (LoadsIn(jns, c[i]) <=> LoadsIn(ins, calls[i])),
         ~LoadsIn(ins, calls[n]), LoadsIn(jns, c[n]),
         \A i \in n + 1..m : ~LoadsIn(jns, c[i])
  PROVE  StackOf(jns, Append(stack, c[n].of), c)
<1> DEFINE l == Len(stack)
           s == Append(stack, c[n].of)
<1>1. PICK at \in [DOMAIN stack -> {0} \cup DOMAIN calls] :
        /\ \A i, k \in DOMAIN stack : i < k => at[i] = 0 \/ at[i] < at[k]
        /\ \A i \in DOMAIN stack :
             IF at[i] = 0 THEN NeverEndsIn(ins, stack[i]) ELSE stack[i] = calls[at[i]].of
        /\ \A k \in DOMAIN calls : LoadsIn(ins, calls[k]) <=> \E i \in DOMAIN stack : at[i] = k
  BY DEF StackOf
<1>2. l \in Nat /\ DOMAIN stack = 1..l
  BY LenProperties
<1>3. DOMAIN s = 1..l + 1 /\ s[l + 1] = c[n].of /\ \A i \in 1..l : s[i] = stack[i]
  OBVIOUS
<1> HIDE DEF l, s
<1>4. \A i \in 1..l : at[i] \in 0..n - 1
  <2> SUFFICES ASSUME NEW i \in 1..l PROVE at[i] \in 0..n - 1
    OBVIOUS
  <2>1. at[i] = 0 \/ at[i] \in 1..n
    BY <1>1, <1>2
  <2>2. at[i] # n
    BY <1>1, <1>2
  <2> QED
    BY <2>1, <2>2
<1> DEFINE new == [i \in 1..l + 1 |-> IF i = l + 1 THEN n ELSE at[i]]
<1>5. \A i \in 1..l : new[i] = at[i] /\ i \in 1..l + 1 /\ i # l + 1
  BY <1>2
<1>6. new[l + 1] = n /\ l + 1 \in 1..l + 1
  BY <1>2
<1>7. \A i \in 1..l + 1 : i \in 1..l \/ i = l + 1
  BY <1>2
<1>8. \A i \in 1..l + 1 : new[i] \in 0..n /\ new[i] \in {0} \cup 1..m
  <2>1. \A k \in 0..n : k \in {0} \cup 1..m
    OBVIOUS
  <2>2. \A k \in 0..n - 1 : k \in 0..n
    OBVIOUS
  <2>3. n \in 0..n
    OBVIOUS
  <2> HIDE DEF new
  <2> QED
    BY <1>4, <1>5, <1>6, <1>7, <2>1, <2>2, <2>3
<1>9. new \in [DOMAIN s -> {0} \cup DOMAIN c]
  BY <1>3, <1>8
<1> HIDE DEF new
<1>10. ASSUME NEW i \in DOMAIN s, NEW k \in DOMAIN s, i < k PROVE new[i] = 0 \/ new[i] < new[k]
  <2>1. i \in 1..l
    BY <1>2, <1>3, <1>10
  <2>2. CASE k \in 1..l
    BY <1>1, <1>2, <1>5, <1>10, <2>1, <2>2
  <2>3. CASE k = l + 1
    <3>1. new[i] \in 0..n - 1 /\ new[k] = n
      BY <1>4, <1>5, <1>6, <2>1, <2>3
    <3> QED
      BY <3>1
  <2> QED
    BY <1>3, <1>7, <2>2, <2>3
<1>11. \A i \in DOMAIN s :
         IF new[i] = 0 THEN NeverEndsIn(jns, s[i]) ELSE s[i] = c[new[i]].of
  <2>1. ASSUME NEW i \in 1..l
        PROVE  IF new[i] = 0 THEN NeverEndsIn(jns, s[i]) ELSE s[i] = c[new[i]].of
    <3>1. s[i] = stack[i] /\ new[i] = at[i] /\ i \in DOMAIN stack
      BY <1>2, <1>3, <1>5
    <3>2. CASE at[i] = 0
      BY <1>1, <3>1, <3>2 DEF GoOn
    <3>3. CASE at[i] # 0
      <4>1. s[i] = calls[at[i]].of
        BY <1>1, <3>1, <3>3
      <4>2. at[i] \in 1..n - 1
        BY <1>4, <3>3
      <4> QED
        BY <3>1, <3>3, <4>1, <4>2
    <3> QED
      BY <3>2, <3>3
  <2>2. new[l + 1] # 0 /\ s[l + 1] = c[new[l + 1]].of
    BY <1>3, <1>6
  <2> QED
    BY <1>3, <1>7, <2>1, <2>2
<1>12. \A k \in DOMAIN c : LoadsIn(jns, c[k]) <=> \E i \in DOMAIN s : new[i] = k
  <2>1. ASSUME NEW k \in 1..n - 1
        PROVE  LoadsIn(jns, c[k]) <=> \E i \in DOMAIN s : new[i] = k
    <3>1. k \in 1..n /\ k # n
      OBVIOUS
    <3>2. LoadsIn(jns, c[k]) <=> \E i \in 1..l : at[i] = k
      BY <1>1, <1>2, <3>1
    <3>3. (\E i \in 1..l : at[i] = k) <=> \E i \in 1..l + 1 : new[i] = k
      BY <1>5, <1>6, <1>7, <3>1
    <3> QED
      BY <1>3, <3>2, <3>3
  <2>2. \E i \in DOMAIN s : new[i] = n
    BY <1>3, <1>6
  <2>3. ASSUME NEW k \in n + 1..m PROVE ~\E i \in DOMAIN s : new[i] = k
    <3>1. k \notin 0..n
      OBVIOUS
    <3> QED
      BY <1>3, <1>8, <3>1
  <2>4. \A k \in 1..m : k \in 1..n - 1 \/ k = n \/ k \in n + 1..m
    OBVIOUS
  <2> QED
    BY <2>1, <2>2, <2>3, <2>4
<1> QED
  BY <1>9, <1>10, <1>11, <1>12 DEF StackOf, s

\* A load that ends at the top is the last of the stack.
LEMMA StackPopped ==
  ASSUME NEW ins, NEW jns, NEW stack \in Seq(Nat), NEW n \in Nat \ {0},
         NEW calls, NEW c, DOMAIN calls = 1..n, DOMAIN c = 1..n - 1,
         StackOf(ins, stack, calls), GoOn(ins, jns), LoadsIn(ins, calls[n]),
         \A i \in 1..n - 1 :
           c[i].of = calls[i].of /\ (LoadsIn(jns, c[i]) <=> LoadsIn(ins, calls[i]))
  PROVE  StackOf(jns, SubSeq(stack, 1, Len(stack) - 1), c)
<1> DEFINE l == Len(stack)
           s == SubSeq(stack, 1, l - 1)
<1>1. PICK at \in [DOMAIN stack -> {0} \cup DOMAIN calls] :
        /\ \A i, k \in DOMAIN stack : i < k => at[i] = 0 \/ at[i] < at[k]
        /\ \A i \in DOMAIN stack :
             IF at[i] = 0 THEN NeverEndsIn(ins, stack[i]) ELSE stack[i] = calls[at[i]].of
        /\ \A k \in DOMAIN calls : LoadsIn(ins, calls[k]) <=> \E i \in DOMAIN stack : at[i] = k
  BY DEF StackOf
<1>2. l \in Nat /\ DOMAIN stack = 1..l
  BY LenProperties
<1>3. PICK e \in 1..l : at[e] = n
  <2>1. n \in 1..n
    OBVIOUS
  <2> QED
    BY <1>1, <1>2, <2>1
<1>4. DOMAIN s = 1..l - 1 /\ \A i \in 1..l - 1 : s[i] = stack[i] /\ i \in 1..l
  <2>1. 1 \in Int /\ l - 1 \in Int /\ (1 <= l - 1 \/ 1 > l - 1)
    BY <1>2
  <2>2. \A i \in 1..l - 1 : stack[i] \in Nat /\ i \in 1..l
    BY <1>2
  <2>3. l >= 1
    BY <1>2, <1>3
  <2> QED
    BY <1>2, <2>2, <2>3
<1> HIDE DEF l, s
<1>5. e = l
  <2> SUFFICES ASSUME e # l PROVE FALSE
    OBVIOUS
  <2>1. l \in 1..l /\ e < l
    BY <1>2, <1>3
  <2>2. at[e] < at[l] /\ at[l] \in 0..n
    BY <1>1, <1>2, <1>3, <2>1
  <2> QED
    BY <1>3, <2>2
<1>6. \A i \in 1..l - 1 : at[i] \in 0..n - 1
  <2> SUFFICES ASSUME NEW i \in 1..l - 1 PROVE at[i] \in 0..n - 1
    OBVIOUS
  <2>1. i \in 1..l /\ l \in 1..l /\ i < l
    BY <1>2
  <2>2. at[i] = 0 \/ (at[i] < at[l] /\ at[i] \in 1..n)
    BY <1>1, <1>2, <2>1
  <2> QED
    BY <1>3, <1>5, <2>2
<1> DEFINE new == [i \in 1..l - 1 |-> at[i]]
<1>7. new \in [DOMAIN s -> {0} \cup DOMAIN c] /\ \A i \in 1..l - 1 : new[i] = at[i]
  BY <1>4, <1>6
<1> HIDE DEF new
<1>8. \A i, k \in DOMAIN s : i < k => new[i] = 0 \/ new[i] < new[k]
  BY <1>1, <1>2, <1>4, <1>7
<1>9. \A i \in DOMAIN s :
        IF new[i] = 0 THEN NeverEndsIn(jns, s[i]) ELSE s[i] = c[new[i]].of
  <2> SUFFICES ASSUME NEW i \in 1..l - 1
               PROVE  IF new[i] = 0 THEN NeverEndsIn(jns, s[i]) ELSE s[i] = c[new[i]].of
    BY <1>4
  <2>1. s[i] = stack[i] /\ new[i] = at[i] /\ i \in DOMAIN stack
    BY <1>2, <1>4, <1>7
  <2>2. CASE at[i] = 0
    BY <1>1, <2>1, <2>2 DEF GoOn
  <2>3. CASE at[i] # 0
    <3>1. s[i] = calls[at[i]].of
      BY <1>1, <2>1, <2>3
    <3>2. at[i] \in 1..n - 1
      BY <1>6, <2>3
    <3> QED
      BY <2>1, <2>3, <3>1, <3>2
  <2> QED
    BY <2>2, <2>3
<1>10. ASSUME NEW k \in DOMAIN c
       PROVE  LoadsIn(jns, c[k]) <=> \E i \in DOMAIN s : new[i] = k
  <2>1. k \in 1..n /\ k # n
    OBVIOUS
  <2>2. LoadsIn(jns, c[k]) <=> \E i \in 1..l : at[i] = k
    BY <1>1, <1>2, <2>1
  <2>3. \A i \in 1..l : i \in 1..l - 1 \/ i = l
    BY <1>2
  <2>4. (\E i \in 1..l : at[i] = k) <=> \E i \in 1..l - 1 : new[i] = k
    BY <1>3, <1>4, <1>5, <1>7, <2>1, <2>3
  <2> QED
    BY <1>4, <2>2, <2>4
<1> QED
  BY <1>7, <1>8, <1>9, <1>10 DEF StackOf, s, l

-----------------------------------------------------------------------------
(***************************************************************************)
(* What a step does to the Files: they grow, and keep their ids.           *)
(***************************************************************************)
FilesGrow ==
  /\ inputs' \in Seq(Input) /\ files' \in [FileIds -> Nat]
  /\ \A h \in DOMAIN inputs : h \in DOMAIN inputs' /\ inputs'[h].id = inputs[h].id
  /\ \A f \in FileIds : files[f] # 0 => files'[f] # 0
  /\ \A f \in FileIds :
       files'[f] # 0 => files'[f] \in DOMAIN inputs' /\ inputs'[files'[f]].id = f

\* But for a change, they keep their texts, and their files have them.
FilesStay ==
  /\ \A h \in DOMAIN inputs : inputs'[h] = inputs[h]
  /\ \A f \in FileIds : files[f] # 0 => files'[f] = files[f]

\* Files that are not touched grow, and stay.
LEMMA SameFiles ==
  ASSUME IInv, UNCHANGED <<inputs, files>>
  PROVE  FilesGrow /\ FilesStay
BY FileFacts DEF FilesGrow, FilesStay, IdOf

\* A step of inference adds a File at most.
LEMMA MovedFiles ==
  ASSUME IInv, NEW j \in Jobs, Moves(j)
  PROVE  FilesGrow /\ FilesStay
<1>1. CASE LoadItem(j)
  <2> DEFINE g == inputs[Top(j).of].loads
  <2>1. g \in FileIds /\ LoadFile(g)
    BY <1>1, LoadItemIs
  <2> HIDE DEF g
  <2>2. /\ inputs' \in Seq(Input) /\ files' \in [FileIds -> Nat]
        /\ LoadedFile(g) \in DOMAIN inputs' /\ inputs'[LoadedFile(g)].id = g
        /\ files'[g] = LoadedFile(g) /\ files'[g] # 0
        /\ \A h \in DOMAIN inputs : h \in DOMAIN inputs' /\ inputs'[h] = inputs[h]
        /\ \A f \in FileIds : files[f] # 0 \/ f # g => files'[f] = files[f]
    BY <2>1, LoadedIs
  <2>3. FilesStay
    BY <2>2 DEF FilesStay
  <2>4. ASSUME NEW f \in FileIds, files'[f] # 0
        PROVE  files'[f] \in DOMAIN inputs' /\ inputs'[files'[f]].id = f
    <3>1. CASE f = g
      BY <2>2, <3>1
    <3>2. CASE f # g
      <4>1. files'[f] = files[f]
        BY <2>2, <3>2
      <4>2. files[f] \in DOMAIN inputs /\ inputs[files[f]].id = f
        BY <2>4, <4>1, FileFacts DEF IdOf
      <4> QED
        BY <2>2, <4>1, <4>2
    <3> QED
      BY <3>1, <3>2
  <2> QED
    BY <2>2, <2>3, <2>4 DEF FilesGrow
<1>2. CASE ~LoadItem(j)
  <2>1. UNCHANGED <<inputs, files>>
    BY <1>2 DEF Moves, UseCached, InferExpr, OwnName, NameInPrelude, Conclude
  <2> QED
    BY <2>1, SameFiles
<1> QED
  BY <1>1, <1>2

\* A File made anew leaves the texts of the others.
LEMMA CreatedFiles ==
  ASSUME IInv, CreateFile
  PROVE  FilesGrow /\ \A h \in DOMAIN inputs : inputs'[h] = inputs[h]
<1>1. /\ inputs' \in Seq(Input) /\ files' \in [FileIds -> Nat]
      /\ \A h \in DOMAIN inputs : h \in DOMAIN inputs' /\ inputs'[h] = inputs[h]
      /\ files'[change.file] \in DOMAIN inputs' /\ files'[change.file] # 0
      /\ inputs'[files'[change.file]].id = change.file
      /\ \A f \in FileIds : f # change.file => files'[f] = files[f]
  BY CreateIs
<1>2. ASSUME NEW f \in FileIds, files'[f] # 0
      PROVE  files'[f] \in DOMAIN inputs' /\ inputs'[files'[f]].id = f
  <2>1. CASE f = change.file
    BY <1>1, <2>1
  <2>2. CASE f # change.file
    <3>1. files'[f] = files[f]
      BY <1>1, <2>2
    <3>2. files[f] \in DOMAIN inputs /\ inputs[files[f]].id = f
      BY <1>2, <3>1, FileFacts DEF IdOf
    <3> QED
      BY <1>1, <3>1, <3>2
  <2> QED
    BY <2>1, <2>2
<1>3. \A f \in FileIds : files[f] # 0 => files'[f] # 0
  BY <1>1
<1> QED
  BY <1>1, <1>2, <1>3 DEF FilesGrow

\* An update changes a text, and no id.
LEMMA UpdatedFiles ==
  ASSUME IInv, UpdateFile
  PROVE  FilesGrow
<1>1. /\ inputs' \in Seq(Input) /\ DOMAIN inputs' = DOMAIN inputs
      /\ \A h \in DOMAIN inputs : inputs'[h].id = inputs[h].id
  BY UpdateIs
<1>2. files' = files
  BY DEF UpdateFile
<1>3. files \in [FileIds -> Nat]
      /\ \A f \in FileIds : files[f] # 0 => files[f] \in DOMAIN inputs /\ inputs[files[f]].id = f
  BY FileFacts DEF IdOf
<1> QED
  BY <1>1, <1>2, <1>3 DEF FilesGrow

\* No step takes a File away or changes whose it is.
LEMMA FilesGrowAlways ==
  ASSUME IInv, [Next]_vars
  PROVE  FilesGrow
<1>1. CASE UNCHANGED vars
  BY <1>1, SameFiles DEF vars, dbVars
<1>2. CASE Next
  <2>1. CASE UNCHANGED <<inputs, files>>
    BY <2>1, SameFiles
  <2>2. CASE ~UNCHANGED <<inputs, files>>
    <3>1. \/ CreateFile \/ UpdateFile \/ \E j \in Jobs : Moves(j)
      BY <1>2, <2>2, StepIs DEF DidOpen, DidChange, ForceAnalysis, BeginApply, NoFiles, DropGuard,
         SetPrelude, Query, GetFile, Lock, Collect, GivesUp, Unwind, PanicCaught, GiveUp,
         Deliver, dbVars
    <3> QED
      BY <3>1, CreatedFiles, UpdatedFiles, MovedFiles
  <2> QED
    BY <2>1, <2>2
<1> QED
  BY <1>1, <1>2

\* The main thread's steps leave the context and the queries alone, but for
\* the reset at the end.
LEMMA MainIs ==
  ASSUME IInv, \/ \E f \in FileIds : DidOpen(f) \/ DidChange(f)
               \/ ForceAnalysis \/ CreateFile \/ UpdateFile \/ NoFiles \/ SetPrelude
  PROVE  UNCHANGED <<owner, cx, jobs>>
BY DEF DidOpen, DidChange, ForceAnalysis, BeginApply, CreateFile, UpdateFile, NoFiles, SetPrelude

\* The steps that begin a change.
LEMMA BeginIs ==
  ASSUME IInv, \/ \E f \in FileIds : DidOpen(f) \/ DidChange(f)
               \/ ForceAnalysis
  PROVE  /\ main = "idle" /\ main' = "apply" /\ cancelled' = TRUE /\ ~Updated /\ ~Updated'
         /\ UNCHANGED <<inputs, files, prelude, owner, cx, jobs>>
         /\ change' \in Change /\ changes' \in Nat /\ documents' \in SUBSET FileIds
<1>1. NoChange \in Change /\ change \in Change /\ changes \in Nat /\ documents \in SUBSET FileIds
  BY DEF IInv, TypeOK, Change
<1>2. \A f \in FileIds : [kind |-> "Create", file |-> f] \in Change
                         /\ [kind |-> "Update", file |-> f] \in Change
  BY DEF Change
<1>3. PICK c \in Change : BeginApply(c)
  BY <1>1, <1>2 DEF DidOpen, DidChange, ForceAnalysis
<1>4. /\ main = "idle" /\ main' = "apply" /\ cancelled' = TRUE /\ change' = c
      /\ UNCHANGED <<inputs, files, prelude, owner, cx, jobs>>
  BY <1>3 DEF BeginApply
<1>5. changes' \in {changes, changes + 1}
      /\ \A f \in documents' : f \in documents \cup FileIds
  BY DEF DidOpen, DidChange, ForceAnalysis
<1>6. changes' \in Nat /\ documents' \in SUBSET FileIds
  BY <1>1, <1>5
<1> QED
  BY <1>3, <1>4, <1>6 DEF Updated

-----------------------------------------------------------------------------
\* Type correctness is kept.
LEMMA TypeKept ==
  ASSUME IInv, [Next]_vars
  PROVE  TypeOK'
<1>1. TypeOK /\ FilesGrow
  BY FilesGrowAlways DEF IInv
<1>2. inputs' \in Seq(Input) /\ files' \in [FileIds -> Nat]
  BY <1>1 DEF FilesGrow
<1> DEFINE Rest == /\ main' \in {"idle", "apply", "drop guard", "prelude"}
                   /\ change' \in Change /\ documents' \in SUBSET FileIds
                   /\ prelude' \in BOOLEAN /\ cancelled' \in BOOLEAN
                   /\ owner' \in Jobs \cup {None}
                   /\ cx' \in Context /\ jobs' \in [Jobs -> Job] /\ changes' \in Nat
<1>3. SUFFICES Rest
  BY <1>2 DEF TypeOK, Context
<1>4. NoChange \in Change
  BY DEF Change
<1>5. CASE UNCHANGED vars
  BY <1>1, <1>5 DEF TypeOK, Context, vars, dbVars
<1>6. CASE Next
  <2>1. CASE \/ \E f \in FileIds : DidOpen(f) \/ DidChange(f)
             \/ ForceAnalysis
    BY <1>1, <2>1, BeginIs DEF TypeOK, Context
  <2>2. CASE CreateFile \/ UpdateFile \/ NoFiles \/ SetPrelude
    BY <1>1, <1>4, <2>2 DEF TypeOK, Context, CreateFile, UpdateFile, NoFiles, SetPrelude, dbVars
  <2>3. CASE DropGuard
    <3>1. Reset \in Context
      <4>1. <<>> \in Seq(Nat)
        OBVIOUS
      <4> QED
        BY <4>1 DEF Reset, EmptyContext, Context
    <3> QED
      BY <1>1, <2>3, <3>1 DEF TypeOK, DropGuard, dbVars
  <2>4. ASSUME NEW j \in Jobs,
               \/ \E f \in FileIds : Query(j, f)
               \/ GetFile(j) \/ Lock(j) \/ Collect(j) \/ GivesUp(j) \/ Deliver(j)
        PROVE  Rest
    <3>1. JobOnly(j) /\ owner' \in {owner, j, None}
      BY <2>4, QueryIs, GetFileIs, LockIs, CollectIs, GivesUpIs, DeliverIs
    <3> QED
      BY <1>1, <3>1 DEF JobOnly, TypeOK, Context
  <2>5. ASSUME NEW j \in Jobs, Moves(j) PROVE Rest
    <3>1. cx \in Context
      BY <1>1 DEF TypeOK, Context
    <3>2. cx' \in Context
      BY <2>5, <3>1, UseCachedIs, InferExprIs, OwnNameIs, NameInPreludeIs, LoadItemMoves, ConcludeIs
         DEF Moves
    <3>3. jobs' \in [Jobs -> Job]
          /\ UNCHANGED <<main, change, documents, prelude, cancelled, owner, changes>>
      BY <2>5, MovedJobs
    <3> QED
      BY <1>1, <3>2, <3>3 DEF TypeOK
  <2> QED
    BY <1>6, <2>1, <2>2, <2>3, <2>4, <2>5, StepIs
<1> QED
  BY <1>5, <1>6

\* The main thread's part of the invariant is kept.
LEMMA MainKept ==
  ASSUME IInv, [Next]_vars
  PROVE  MainShape'
<1> DEFINE Docs(m, c, ds, fs) ==
             \A f \in ds : \/ fs[f] # 0
                           \/ m = "apply" /\ c = [kind |-> "Create", file |-> f]
           Is(m, c, ds, fs, p, raised) ==
             /\ raised <=> m \in {"apply", "drop guard"}
             /\ Docs(m, c, ds, fs)
             /\ c.kind = "Update" => fs[c.file] # 0
             /\ c.kind = "Create" /\ m # "apply" => fs[c.file] # 0
             /\ p => Prelude \in FileIds /\ fs[Prelude] # 0
<1>1. Is(main, change, documents, files, prelude, cancelled)
  BY DEF IInv, MainShape
<1>2. SUFFICES Is(main', change', documents', files', prelude', cancelled')
  BY DEF MainShape
<1>3. /\ documents \subseteq FileIds
      /\ change.kind # "none" => change.file \in FileIds
      /\ change.kind \in {"none", "Create", "Update"}
      /\ NoChange.kind = "none"
      /\ \A f \in FileIds : files[f] # 0 => files'[f] # 0
  <2>1. change \in Change /\ (change.kind # "none" => change.file \in FileIds)
    BY FileFacts
  <2>2. change.kind \in {"none", "Create", "Update"} /\ NoChange.kind = "none"
    BY <2>1 DEF Change, NoChange
  <2>3. documents \subseteq FileIds
    BY DEF IInv, TypeOK
  <2> QED
    BY <2>1, <2>2, <2>3, FilesGrowAlways DEF FilesGrow
<1>4. \A f : [kind |-> "Create", file |-> f].kind = "Create"
             /\ [kind |-> "Create", file |-> f].file = f
             /\ [kind |-> "Update", file |-> f].kind = "Update"
             /\ [kind |-> "Update", file |-> f].file = f
  OBVIOUS
<1>5. CASE UNCHANGED <<main, change, documents, prelude, cancelled>>
  BY <1>1, <1>3, <1>5
<1>6. ASSUME NEW f \in FileIds, DidOpen(f)
      PROVE  Is(main', change', documents', files', prelude', cancelled')
  <2>1. /\ documents' = documents \cup {f} /\ change' = [kind |-> "Create", file |-> f]
        /\ main = "idle" /\ main' = "apply" /\ cancelled' = TRUE
        /\ files' = files /\ prelude' = prelude
    BY <1>6 DEF DidOpen, BeginApply
  <2>2. Docs(main', change', documents', files')
    BY <1>1, <2>1
  <2> QED
    BY <1>1, <1>4, <2>1, <2>2
<1>7. ASSUME NEW f \in FileIds, DidChange(f)
      PROVE  Is(main', change', documents', files', prelude', cancelled')
  <2>1. /\ documents' = documents /\ change' = [kind |-> "Update", file |-> f]
        /\ main = "idle" /\ main' = "apply" /\ cancelled' = TRUE /\ f \in documents
        /\ files' = files /\ prelude' = prelude
    BY <1>7 DEF DidChange, BeginApply
  <2>2. files[f] # 0
    BY <1>1, <2>1
  <2> QED
    BY <1>1, <1>4, <2>1, <2>2
<1>8. CASE ForceAnalysis
  <2>1. /\ documents' = documents /\ change' = NoChange
        /\ main = "idle" /\ main' = "apply" /\ cancelled' = TRUE
        /\ files' = files /\ prelude' = prelude
    BY <1>8 DEF ForceAnalysis, BeginApply
  <2> QED
    BY <1>1, <1>3, <2>1
<1>9. CASE CreateFile
  <2>1. /\ UNCHANGED <<change, documents, prelude, cancelled>> /\ main = "apply"
        /\ main' = "drop guard" /\ change.kind = "Create"
    BY <1>9 DEF CreateFile
  <2>2. change.file \in FileIds /\ files'[change.file] # 0
    BY <1>9, CreateIs
  <2>3. Docs(main', change', documents', files')
    BY <1>1, <1>3, <1>4, <2>1, <2>2
  <2> QED
    BY <1>1, <1>3, <2>1, <2>2, <2>3
<1>10. CASE UpdateFile \/ NoFiles
  <2>1. /\ UNCHANGED <<change, documents, files, prelude, cancelled>> /\ main = "apply"
        /\ main' = "drop guard" /\ change.kind # "Create"
    BY <1>10 DEF UpdateFile, WriteWaits, NoFiles, dbVars
  <2>2. Docs(main', change', documents', files')
    BY <1>1, <1>4, <2>1
  <2> QED
    BY <1>1, <2>1, <2>2
<1>11. CASE DropGuard
  <2>1. /\ UNCHANGED <<change, documents, files, prelude>> /\ main = "drop guard"
        /\ main' = "prelude" /\ cancelled' = FALSE
    BY <1>11 DEF DropGuard, dbVars
  <2> QED
    BY <1>1, <2>1
<1>12. CASE SetPrelude
  <2>1. /\ UNCHANGED <<documents, files, cancelled>> /\ main = "prelude" /\ main' = "idle"
        /\ change' = NoChange
        /\ prelude' = (prelude \/ change = [kind |-> "Create", file |-> Prelude])
    BY <1>12 DEF SetPrelude
  <2>2. change = [kind |-> "Create", file |-> Prelude]
          => Prelude \in FileIds /\ files[Prelude] # 0
    BY <1>1, <1>3, <1>4, <2>1
  <2> QED
    BY <1>1, <1>3, <2>1, <2>2
<1>13. ASSUME NEW j \in Jobs,
              \/ \E f \in FileIds : Query(j, f)
              \/ GetFile(j) \/ Lock(j) \/ Moves(j) \/ Collect(j) \/ GivesUp(j) \/ Deliver(j)
       PROVE  UNCHANGED <<main, change, documents, prelude, cancelled>>
  BY <1>13, QueryIs, GetFileIs, LockIs, CollectIs, GivesUpIs, DeliverIs, MovedJobs DEF JobOnly
<1>14. CASE UNCHANGED vars
  BY <1>5, <1>14 DEF vars, dbVars
<1> HIDE DEF Is
<1> QED
  BY <1>5, <1>6, <1>7, <1>8, <1>9, <1>10, <1>11, <1>12, <1>13, <1>14, StepIs

\* A prelude stays set.
LEMMA PreludeStays ==
  ASSUME IInv, [Next]_vars
  PROVE  prelude => prelude'
<1>1. CASE UNCHANGED prelude
  BY <1>1
<1>2. CASE SetPrelude
  BY <1>2 DEF SetPrelude
<1>3. CASE UNCHANGED vars
  BY <1>1, <1>3 DEF vars, dbVars
<1>4. ASSUME NEW j \in Jobs,
             \/ \E f \in FileIds : Query(j, f)
             \/ GetFile(j) \/ Lock(j) \/ Moves(j) \/ Collect(j) \/ GivesUp(j) \/ Deliver(j)
      PROVE  UNCHANGED prelude
  BY <1>4, QueryIs, GetFileIs, LockIs, CollectIs, GivesUpIs, DeliverIs, MovedJobs DEF JobOnly
<1>5. CASE \/ \E f \in FileIds : DidOpen(f) \/ DidChange(f)
           \/ ForceAnalysis
  BY <1>1, <1>5, BeginIs
<1>6. CASE CreateFile \/ UpdateFile \/ NoFiles \/ DropGuard
  BY <1>1, <1>6 DEF CreateFile, UpdateFile, NoFiles, DropGuard, dbVars
<1> QED
  BY <1>1, <1>2, <1>3, <1>4, <1>5, <1>6, StepIs

\* The queries' part of it is kept.
LEMMA JobsKept ==
  ASSUME IInv, [Next]_vars
  PROVE  JobShape'
<1> DEFINE Is(q, p, ins) ==
             /\ q.prelude => p
             /\ q.phase # "free" => q.file \in FileIds
             /\ q.phase \in {"waiting", "infer"} => q.of \in DOMAIN ins /\ ins[q.of].id = q.file
             /\ q.calls # <<>> => q.phase = "infer" /\ q.calls[1].of = q.of
             /\ q.result # {} => q.phase = "collected"
<1>1. \A k \in Jobs : (owner = k <=> jobs[k].phase = "infer") /\ Is(jobs[k], prelude, inputs)
  BY DEF IInv, JobShape, IdOf
<1>2. Updated => \A k \in Jobs : jobs[k].phase = "free"
  BY DEF IInv, JobShape, HoldsSnapshot
<1>3. SUFFICES /\ \A k \in Jobs : (owner' = k <=> jobs'[k].phase = "infer")
                                  /\ Is(jobs'[k], prelude', inputs')
               /\ Updated' => \A k \in Jobs : jobs'[k].phase = "free"
  BY DEF JobShape, IdOf, HoldsSnapshot
<1>4. (prelude => prelude') /\ \A q \in Job : Is(q, prelude, inputs) => Is(q, prelude', inputs')
  <2>1. prelude => prelude'
    BY PreludeStays
  <2>2. \A h \in DOMAIN inputs : h \in DOMAIN inputs' /\ inputs'[h].id = inputs[h].id
    BY FilesGrowAlways DEF FilesGrow
  <2> QED
    BY <2>1, <2>2
<1>5. jobs \in [Jobs -> Job] /\ None \notin Jobs
  BY LoadsAssumption DEF IInv, TypeOK
<1>6. \A k \in Jobs : Is(jobs[k], prelude', inputs')
  BY <1>1, <1>4, <1>5
<1>7. CASE UNCHANGED <<main, change, jobs, owner>>
  BY <1>1, <1>2, <1>6, <1>7 DEF Updated
<1>8. CASE (\E f \in FileIds : DidOpen(f) \/ DidChange(f)) \/ ForceAnalysis
  BY <1>1, <1>6, <1>8, BeginIs
<1>9. CASE CreateFile \/ NoFiles \/ DropGuard \/ SetPrelude
  <2>1. UNCHANGED <<jobs, owner>> /\ ~Updated'
    BY <1>9 DEF CreateFile, NoFiles, DropGuard, SetPrelude, Updated
  <2> QED
    BY <1>1, <1>6, <2>1
<1>10. CASE UpdateFile
  <2>1. UNCHANGED <<jobs, owner>> /\ \A k \in Jobs : jobs[k].phase = "free"
    BY <1>10 DEF UpdateFile, HoldsSnapshot
  <2> QED
    BY <1>1, <1>6, <2>1
<1>11. ASSUME NEW j \in Jobs,
              \/ \E f \in FileIds : Query(j, f)
              \/ GetFile(j) \/ Lock(j) \/ Moves(j) \/ Collect(j) \/ GivesUp(j) \/ Deliver(j)
       PROVE  /\ \A k \in Jobs : (owner' = k <=> jobs'[k].phase = "infer")
                                 /\ Is(jobs'[k], prelude', inputs')
              /\ Updated' => \A k \in Jobs : jobs'[k].phase = "free"
  <2>1. UNCHANGED <<main, change>> /\ \A k \in Jobs : k # j => jobs'[k] = jobs[k]
    BY <1>11, QueryIs, GetFileIs, LockIs, CollectIs, GivesUpIs, DeliverIs, MovedJobs DEF JobOnly
  <2>2. ~Updated
    <3>1. CASE \E f \in FileIds : Query(j, f)
      BY <3>1, QueryIs DEF Updated
    <3>2. CASE Moves(j)
      BY <1>2, <3>2, MoveIs, TopFacts
    <3>3. CASE GetFile(j) \/ Lock(j) \/ Collect(j) \/ GivesUp(j) \/ Deliver(j)
      BY <1>2, <3>3, GetFileIs, LockIs, CollectIs, GivesUpIs, DeliverIs
    <3> QED
      BY <1>11, <3>1, <3>2, <3>3
  <2>3. ~Updated'
    BY <2>1, <2>2 DEF Updated
  <2> SUFFICES /\ \A k \in Jobs : (owner' = k <=> jobs'[k].phase = "infer")
               /\ Is(jobs'[j], prelude', inputs')
    BY <1>6, <2>1, <2>3
  <2>4. CASE \E f \in FileIds : Query(j, f)
    <3>1. PICK f \in FileIds : Query(j, f)
      BY <2>4
    <3>2. /\ owner' = owner /\ jobs[j].phase = "free" /\ jobs'[j].phase = "queued"
          /\ jobs'[j].file = f /\ jobs'[j].prelude = prelude /\ jobs'[j].calls = <<>>
          /\ jobs'[j].result = {}
      BY <3>1, QueryIs
    <3> QED
      BY <1>1, <1>4, <2>1, <3>2
  <2>5. CASE GetFile(j)
    <3>1. /\ owner' = owner /\ jobs[j].phase = "queued" /\ Kept(j) /\ jobs[j].file \in FileIds
          /\ inputs' = inputs /\ jobs[j].calls = <<>>
          /\ jobs'[j].of = files[jobs[j].file]
          /\ jobs'[j].phase = IF jobs'[j].of = 0 THEN "collected" ELSE "waiting"
      BY <2>5, GetFileIs DEF JobOnly
    <3>2. jobs'[j].of # 0 => jobs'[j].of \in DOMAIN inputs /\ inputs[jobs'[j].of].id = jobs[j].file
      BY <3>1, FileFacts DEF IdOf
    <3> QED
      BY <1>1, <1>4, <2>1, <3>1, <3>2 DEF Kept
  <2>6. CASE Lock(j)
    <3>1. /\ owner = None /\ owner' = j /\ jobs[j].phase = "waiting" /\ jobs'[j].phase = "infer"
          /\ jobs'[j].file = jobs[j].file /\ jobs'[j].prelude = jobs[j].prelude
          /\ jobs'[j].of = jobs[j].of /\ jobs[j].of \in Nat
          /\ jobs'[j].calls = <<Frame(jobs[j].of)>> /\ jobs'[j].result = jobs[j].result
      BY <2>6, LockIs
    <3>2. jobs'[j].calls[1].of = jobs'[j].of
      BY <3>1, FrameIs
    <3>3. \A k \in Jobs : jobs[k].phase # "infer"
      BY <1>1, <1>5, <3>1
    <3>4. \A k \in Jobs : (owner' = k <=> jobs'[k].phase = "infer")
      BY <2>1, <3>1, <3>3
    <3>5. Is(jobs'[j], prelude', inputs')
      BY <1>1, <1>6, <3>1, <3>2
    <3> QED
      BY <3>4, <3>5
  <2>7. CASE Moves(j)
    <3>1. /\ owner' = owner /\ jobs'[j].phase = jobs[j].phase /\ jobs'[j].file = jobs[j].file
          /\ jobs'[j].prelude = jobs[j].prelude /\ jobs'[j].of = jobs[j].of
          /\ jobs'[j].result = jobs[j].result
          /\ jobs'[j].calls # <<>> => jobs'[j].calls[1].of = jobs[j].calls[1].of
          /\ jobs[j].calls # <<>>
      BY <2>7, MovedJobs, MoveIs, TopFacts
    <3> QED
      BY <1>1, <1>6, <2>1, <3>1
  <2>8. CASE Collect(j)
    <3>1. /\ owner = j /\ owner' = None /\ jobs[j].phase = "infer" /\ jobs'[j].phase = "collected"
          /\ jobs'[j].file = jobs[j].file /\ jobs'[j].prelude = jobs[j].prelude
          /\ jobs'[j].calls = <<>>
      BY <2>8, CollectIs
    <3> QED
      BY <1>1, <1>5, <1>6, <2>1, <3>1
  <2>9. CASE GivesUp(j)
    <3>1. owner = j /\ owner' = None /\ jobs'[j] = FreeJob
      BY <2>9, GivesUpIs
    <3> QED
      BY <1>1, <1>5, <2>1, <3>1, FreeIs
  <2>10. CASE Deliver(j)
    <3>1. owner' = owner /\ jobs[j].phase = "collected" /\ jobs'[j] = FreeJob
      BY <2>10, DeliverIs
    <3> QED
      BY <1>1, <2>1, <3>1, FreeIs
  <2> QED
    BY <1>11, <2>4, <2>5, <2>6, <2>7, <2>8, <2>9, <2>10
<1> HIDE DEF Is
<1>12. CASE UNCHANGED vars
  BY <1>7, <1>12 DEF vars
<1> QED
  BY <1>8, <1>9, <1>10, <1>11, <1>12, StepIs

\* The calls after a step that infers: old ones, the one that moved, a new one.
LEMMA MovedCalls ==
  ASSUME IInv, NEW j \in Jobs, Infers(j)
  PROVE  LET calls == jobs[j].calls
             new   == Elements(jobs'[j].calls)
         IN  /\ \A u \in Call : Advanced(j, u) => new \subseteq Elements(calls) \cup {u}
             /\ \A u \in Call : \A h \in Nat :
                  Descended(j, u, h) => new \subseteq Elements(calls) \cup {u, Frame(h)}
             /\ \A texts \in Texts : Left(j, texts) => \A v \in new :
                  \/ v \in Elements(calls)
                  \/ \E c \in Elements(calls) :
                       /\ c.at = "callee" /\ v.of = c.of /\ v.via = c.via
                       /\ v.at = "done" /\ v.texts = c.texts \cup texts
<1> DEFINE calls == jobs[j].calls
           new == Elements(jobs'[j].calls)
<1>1. calls \in Seq(Call) /\ calls # <<>> /\ Len(calls) \in Nat \ {0}
  BY TopFacts
<1>2. \A i \in 1..Len(calls) - 1 : calls[i] \in Call /\ calls[i] \in Elements(calls)
                                   /\ calls[i].at = "callee"
  <2>1. \A i \in 1..Len(calls) - 1 : calls[i].at = "callee"
    BY DEF IInv, CallShape
  <2>2. \A i \in 1..Len(calls) - 1 : i \in 1..Len(calls)
    BY <1>1
  <2>3. DOMAIN calls = 1..Len(calls)
    BY <1>1, LenProperties
  <2> HIDE DEF calls
  <2> QED
    BY <1>1, <2>1, <2>2, <2>3, ElementOfSeq DEF Elements
<1> HIDE DEF calls
<1>3. ASSUME NEW u \in Call, Advanced(j, u) PROVE new \subseteq Elements(calls) \cup {u}
  BY <1>1, <1>3, MovedElements DEF Advanced, calls
<1>4. ASSUME NEW u \in Call, NEW h \in Nat, Descended(j, u, h)
      PROVE  new \subseteq Elements(calls) \cup {u, Frame(h)}
  <2> DEFINE w == WithTop(calls, u)
  <2>1. w \in Seq(Call) /\ w # <<>> /\ Elements(w) \subseteq Elements(calls) \cup {u}
    <3>1. w \in Seq(Call) /\ Len(w) = Len(calls)
      BY <1>1, WithTopIs
    <3>2. w # <<>>
      <4> HIDE DEF w
      <4> QED
        BY <1>1, <3>1
    <3> QED
      BY <1>1, <3>1, <3>2, MovedElements
  <2>2. jobs'[j].calls = Append(w, Frame(h)) /\ Frame(h) \in Call
    BY <1>4, FrameIs DEF Descended, calls
  <2> HIDE DEF w
  <2>3. Elements(Append(w, Frame(h))) = Elements(w) \cup {Frame(h)}
    BY <2>1, <2>2, MovedElements
  <2> QED
    BY <2>1, <2>2, <2>3
<1>5. ASSUME NEW texts \in Texts, Left(j, texts), NEW v \in new
      PROVE  \/ v \in Elements(calls)
             \/ \E c \in Elements(calls) :
                  /\ c.at = "callee" /\ v.of = c.of /\ v.via = c.via
                  /\ v.at = "done" /\ v.texts = c.texts \cup texts
  <2>1. \/ v \in Elements(calls)
        \/ \E i \in 1..Len(calls) - 1 :
             v = [calls[i] EXCEPT !.at = "done", !.texts = @ \cup texts]
    BY <1>1, <1>5, MovedElements DEF Left, calls
  <2> SUFFICES ASSUME NEW i \in 1..Len(calls) - 1,
                      v = [calls[i] EXCEPT !.at = "done", !.texts = @ \cup texts]
               PROVE  \E c \in Elements(calls) :
                        /\ c.at = "callee" /\ v.of = c.of /\ v.via = c.via
                        /\ v.at = "done" /\ v.texts = c.texts \cup texts
    BY <2>1
  <2>2. calls[i] \in Call /\ calls[i] \in Elements(calls) /\ calls[i].at = "callee"
    BY <1>2
  <2> QED
    BY <2>2, CallerIs
<1> QED
  BY <1>3, <1>4, <1>5 DEF calls

\* What is true of the context and of the calls stays so in a step that does
\* not infer: of the calls, the one that begins is new.
LEMMA QuietContext ==
  ASSUME IInv, [Next]_vars, ~\E j \in Jobs : Moves(j)
  PROVE  /\ cx' = cx \/ (DropGuard /\ cx' = EmptyContext)
         /\ \A k \in Jobs : \/ jobs'[k].calls = jobs[k].calls
                            \/ jobs'[k].calls = <<>>
                            \/ /\ Lock(k) /\ jobs[k].of \in DOMAIN inputs /\ jobs[k].of \in Nat
                               /\ jobs'[k].calls = <<Frame(jobs[k].of)>>
         /\ \A k \in Jobs : jobs'[k].phase = "infer" => jobs'[k] = jobs[k] \/ Lock(k)
<1> DEFINE Is == /\ cx' = cx \/ (DropGuard /\ cx' = EmptyContext)
                 /\ \A k \in Jobs :
                      \/ jobs'[k].calls = jobs[k].calls
                      \/ jobs'[k].calls = <<>>
                      \/ /\ Lock(k) /\ jobs[k].of \in DOMAIN inputs /\ jobs[k].of \in Nat
                         /\ jobs'[k].calls = <<Frame(jobs[k].of)>>
                 /\ \A k \in Jobs : jobs'[k].phase = "infer" => jobs'[k] = jobs[k] \/ Lock(k)
<1> SUFFICES Is
  OBVIOUS
<1>1. CASE UNCHANGED <<cx, jobs>>
  BY <1>1
<1>2. CASE UNCHANGED vars
  BY <1>1, <1>2 DEF vars
<1>3. CASE \/ \E f \in FileIds : DidOpen(f) \/ DidChange(f)
           \/ ForceAnalysis \/ CreateFile \/ UpdateFile \/ NoFiles \/ SetPrelude
  BY <1>1, <1>3, MainIs
<1>4. CASE DropGuard
  <2>1. jobs' = jobs /\ cx' = EmptyContext
    BY <1>4 DEF DropGuard, Reset
  <2> QED
    BY <1>4, <2>1
<1>5. ASSUME NEW j \in Jobs,
             \/ \E f \in FileIds : Query(j, f)
             \/ GetFile(j) \/ Lock(j) \/ Collect(j) \/ GivesUp(j) \/ Deliver(j)
      PROVE  Is
  <2>1. cx' = cx /\ \A k \in Jobs : k # j => jobs'[k] = jobs[k]
    BY <1>5, QueryIs, GetFileIs, LockIs, CollectIs, GivesUpIs, DeliverIs DEF JobOnly
  <2>2. \/ jobs'[j].calls = jobs[j].calls
        \/ jobs'[j].calls = <<>>
        \/ /\ Lock(j) /\ jobs[j].of \in DOMAIN inputs /\ jobs[j].of \in Nat
           /\ jobs'[j].calls = <<Frame(jobs[j].of)>>
    BY <1>5, QueryIs, GetFileIs, LockIs, CollectIs, GivesUpIs, DeliverIs, FreeIs DEF Kept
  <2>3. jobs'[j].phase = "infer" => Lock(j)
    BY <1>5, QueryIs, GetFileIs, CollectIs, GivesUpIs, DeliverIs, FreeIs
  <2> QED
    BY <2>1, <2>2, <2>3
<1> HIDE DEF Is
<1> QED
  BY <1>2, <1>3, <1>4, <1>5, StepIs

\* A frame's or a cached type's Files are there.
Here(D, t) == {t.of} \cup {s[1] : s \in t.texts} \subseteq D

\* No handle is left dangling.
LEMMA HandlesKept ==
  ASSUME IInv, [Next]_vars
  PROVE  HandlesExist'
<1> DEFINE D == DOMAIN inputs
           E == DOMAIN inputs'
<1>1. FilesGrow /\ D \subseteq E
  BY FilesGrowAlways DEF FilesGrow
<1>2. /\ \A e \in cx.types : Here(D, e)
      /\ \A k \in Jobs : \A t \in Elements(jobs[k].calls) : Here(D, t)
      /\ Elements(cx.stack) \subseteq D
  BY DEF IInv, HandlesExist, Here
<1>3. SUFFICES /\ \A e \in cx'.types : Here(E, e)
               /\ \A k \in Jobs : \A t \in Elements(jobs'[k].calls) : Here(E, t)
               /\ Elements(cx'.stack) \subseteq E
  BY <1>1 DEF HandlesExist, Here, FilesGrow, IdOf
<1> HIDE DEF D, E
<1>4. \A t : Here(D, t) => Here(E, t)
  BY <1>1 DEF Here
<1>5. CASE ~\E j \in Jobs : Moves(j)
  <2>1. /\ cx' = cx \/ cx' = EmptyContext
        /\ \A k \in Jobs : \/ jobs'[k].calls \in {jobs[k].calls, <<>>}
                           \/ /\ jobs[k].of \in D /\ jobs[k].of \in Nat
                              /\ jobs'[k].calls = <<Frame(jobs[k].of)>>
    BY <1>5, QuietContext DEF D
  <2>2. EmptyContext.types = {} /\ EmptyContext.stack = <<>>
    BY DEF EmptyContext
  <2>3. Elements(<<>>) = {}
    BY DEF Elements
  <2>4. \A h \in D : h \in Nat => \A t \in Elements(<<Frame(h)>>) : Here(D, t)
    <3> SUFFICES ASSUME NEW h \in D, h \in Nat PROVE \A t \in Elements(<<Frame(h)>>) : Here(D, t)
      OBVIOUS
    <3>1. Elements(<<Frame(h)>>) = {Frame(h)}
      BY DEF Elements
    <3>2. Here(D, Frame(h))
      BY FrameIs DEF Here
    <3> QED
      BY <3>1, <3>2
  <2>5. \A k \in Jobs : \A t \in Elements(jobs'[k].calls) : Here(D, t)
    BY <1>2, <2>1, <2>3, <2>4
  <2>6. (\A e \in cx'.types : Here(D, e)) /\ Elements(cx'.stack) \subseteq D
    BY <1>2, <2>1, <2>2, <2>3
  <2> QED
    BY <1>1, <1>4, <2>5, <2>6 DEF D, E
<1>6. ASSUME NEW j \in Jobs, Moves(j)
      PROVE  /\ \A e \in cx'.types : Here(E, e)
             /\ \A k \in Jobs : \A t \in Elements(jobs'[k].calls) : Here(E, t)
             /\ Elements(cx'.stack) \subseteq E
  <2> DEFINE t == Top(j)
             new == Elements(jobs'[j].calls)
             calls == jobs[j].calls
  <2>1. /\ Infers(j) /\ t \in Call /\ t \in Elements(calls) /\ t.of \in D /\ t.of \in Nat
    BY <1>6, MoveIs, TopFacts DEF D
  <2>2. Here(D, t) /\ \A c \in Elements(calls) : Here(E, c)
    BY <1>2, <1>4, <2>1
  <2>3. \A k \in Jobs : k # j => jobs'[k].calls = jobs[k].calls
    BY <1>6, MovedJobs
  <2> SUFFICES /\ \A e \in cx'.types : Here(E, e)
               /\ \A c \in new : Here(E, c)
               /\ Elements(cx'.stack) \subseteq E
    BY <1>2, <1>4, <2>3
  <2> HIDE DEF t, new, calls
  <2>4. ASSUME NEW u \in Call, Advanced(j, u), Here(E, u)
        PROVE  \A c \in new : Here(E, c)
    BY <2>1, <2>2, <2>4, MovedCalls DEF new, calls
  <2>5. ASSUME NEW u \in Call, NEW h \in E, h \in Nat, Descended(j, u, h)
        PROVE  \A c \in new : Here(E, c)
    <3>1. u.of = t.of /\ u.texts = t.texts
      BY <2>5 DEF Descended, t
    <3>2. Here(E, u)
      BY <1>4, <2>2, <3>1 DEF Here
    <3>3. Here(E, Frame(h))
      BY <2>5, FrameIs DEF Here
    <3>4. new \subseteq Elements(calls) \cup {u, Frame(h)}
      BY <2>1, <2>5, MovedCalls DEF new, calls
    <3> QED
      BY <2>2, <3>2, <3>3, <3>4
  <2>6. ASSUME NEW texts \in Texts, Left(j, texts), {s[1] : s \in texts} \subseteq E
        PROVE  \A c \in new : Here(E, c)
    <3> SUFFICES ASSUME NEW v \in new PROVE Here(E, v)
      OBVIOUS
    <3>1. \/ v \in Elements(calls)
          \/ \E c \in Elements(calls) : v.of = c.of /\ v.texts = c.texts \cup texts
      BY <2>1, <2>6, MovedCalls DEF new, calls
    <3> QED
      BY <2>2, <2>6, <3>1 DEF Here
  <2>7. CASE UseCached(j)
    <3>1. PICK e \in cx.types : Left(j, e.texts)
      BY <2>7, UseCachedIs
    <3>2. cx' = cx /\ e.texts \in Texts /\ {s[1] : s \in e.texts} \subseteq E
      BY <1>2, <1>4, <2>7, <3>1, UseCachedIs DEF Here, Left
    <3> QED
      BY <1>1, <1>2, <1>4, <2>6, <3>1, <3>2 DEF D, E
  <2>8. CASE InferExpr(j)
    <3>1. PICK u \in Call : Advanced(j, u) /\ u.texts = {<<t.of, inputs[t.of].text>>}
      BY <2>8, InferExprIs DEF t
    <3>2. Here(E, u)
      <4>1. u.of = t.of /\ t.of \in E
        BY <1>1, <2>1, <3>1 DEF Advanced, t, D, E
      <4> QED
        BY <3>1, <4>1 DEF Here
    <3>3. cx'.types = cx.types /\ cx'.stack = cx.stack
      BY <2>8, InferExprIs
    <3> QED
      BY <1>1, <1>2, <1>4, <2>4, <3>1, <3>2, <3>3 DEF D, E
  <2>9. CASE OwnName(j) \/ NameInPrelude(j)
    <3>1. cx'.types = cx.types /\ cx'.stack = cx.stack
      BY <2>9, OwnNameIs, NameInPreludeIs
    <3>2. \/ \E u \in Call : Advanced(j, u) /\ u.texts = t.texts
          \/ PreludeFile(j) # 0 /\ \E u \in Call : Descended(j, u, PreludeFile(j))
      BY <2>9, OwnNameIs, NameInPreludeIs DEF t
    <3>3. ASSUME NEW u \in Call, Advanced(j, u), u.texts = t.texts PROVE \A c \in new : Here(E, c)
      <4>1. u.of = t.of
        BY <3>3 DEF Advanced, t
      <4>2. Here(E, u)
        BY <1>4, <2>2, <3>3, <4>1 DEF Here
      <4> QED
        BY <2>4, <3>3, <4>2
    <3>4. PreludeFile(j) # 0 => PreludeFile(j) \in E /\ PreludeFile(j) \in Nat
      BY <1>1, PreludeIs DEF D, E
    <3> QED
      BY <1>1, <1>2, <1>4, <2>5, <3>1, <3>2, <3>3, <3>4 DEF D, E
  <2>10. CASE LoadItem(j)
    <3> DEFINE h == LoadedFile(inputs[t.of].loads)
    <3>1. h \in E /\ h \in Nat
      BY <2>10, LoadItemIs, LoadedIs DEF t, E
    <3>2. /\ cx'.types = cx.types
          /\ \/ cx'.stack = cx.stack /\ \E u \in Call : Advanced(j, u) /\ u.texts = t.texts
             \/ cx'.stack = Append(cx.stack, t.of) /\ \E u \in Call : Descended(j, u, h)
      BY <2>10, LoadItemMoves DEF t
    <3> HIDE DEF h
    <3>3. ASSUME NEW u \in Call, Advanced(j, u), u.texts = t.texts PROVE \A c \in new : Here(E, c)
      <4>1. u.of = t.of
        BY <3>3 DEF Advanced, t
      <4>2. Here(E, u)
        BY <1>4, <2>2, <3>3, <4>1 DEF Here
      <4> QED
        BY <2>4, <3>3, <4>2
    <3>4. Elements(Append(cx.stack, t.of)) \subseteq E
      <4>1. cx.stack \in Seq(Nat)
        BY DEF IInv, TypeOK
      <4>2. \A i \in DOMAIN Append(cx.stack, t.of) :
              \/ Append(cx.stack, t.of)[i] = t.of
              \/ i \in DOMAIN cx.stack /\ Append(cx.stack, t.of)[i] = cx.stack[i]
        BY <2>1, <4>1
      <4> QED
        BY <1>1, <1>2, <2>1, <4>2 DEF Elements, D, E
    <3> QED
      BY <1>1, <1>2, <1>4, <2>5, <3>1, <3>2, <3>3, <3>4 DEF D, E
  <2>11. CASE Conclude(j)
    <3>1. /\ cx'.types = cx.types \cup {[of |-> t.of, texts |-> t.texts, via |-> t.via]}
          /\ cx'.stack \in {cx.stack, SubSeq(cx.stack, 1, Len(cx.stack) - 1)}
          /\ Left(j, t.texts)
      BY <2>11, ConcludeIs DEF t
    <3>2. Here(E, [of |-> t.of, texts |-> t.texts, via |-> t.via]) /\ t.texts \in Texts
          /\ {s[1] : s \in t.texts} \subseteq E
      BY <1>4, <2>1, <2>2 DEF Here, Call
    <3>3. Elements(cx'.stack) \subseteq Elements(cx.stack)
      <4>1. cx.stack \in Seq(Nat)
        BY DEF IInv, TypeOK
      <4>2. Len(cx.stack) \in Nat /\ DOMAIN cx.stack = 1..Len(cx.stack)
        BY <4>1, LenProperties
      <4>3. \A i \in 1..Len(cx.stack) - 1 : i \in 1..Len(cx.stack)
        BY <4>2
      <4>4. \A i \in DOMAIN SubSeq(cx.stack, 1, Len(cx.stack) - 1) :
              i \in 1..Len(cx.stack) /\ SubSeq(cx.stack, 1, Len(cx.stack) - 1)[i] = cx.stack[i]
        BY <4>1, <4>2
      <4> QED
        BY <3>1, <4>2, <4>4 DEF Elements
    <3> QED
      BY <1>1, <1>2, <1>4, <2>6, <3>1, <3>2, <3>3 DEF D, E
  <2> QED
    BY <1>6, <2>7, <2>8, <2>9, <2>10, <2>11 DEF Moves
<1> QED
  BY <1>5, <1>6

\* The shape of the calls survives each of their moves.
SameFilesOf(ins, jns, calls) == \A i \in 1..Len(calls) : jns[calls[i].of] = ins[calls[i].of]

\* Files that are added do not matter to it,
LEMMA ShapeStays ==
  ASSUME NEW ins, NEW jns, NEW calls \in Seq(Call), ShapeOf(ins, calls), SameFilesOf(ins, jns, calls)
  PROVE  ShapeOf(jns, calls)
<1>1. Len(calls) \in Nat /\ DOMAIN calls = 1..Len(calls)
  BY LenProperties
<1>2. \A i \in 1..Len(calls) - 1 : i \in 1..Len(calls) /\ i + 1 \in 1..Len(calls)
  BY <1>1
<1> QED
  BY <1>1, <1>2 DEF ShapeOf, SameFilesOf, NeedsIn

\* nor does a call that goes on;
LEMMA ShapeAdvanced ==
  ASSUME NEW ins, NEW calls \in Seq(Call), calls # <<>>, ShapeOf(ins, calls), NEW u \in Call,
         u.of = calls[Len(calls)].of, u.at \in {"expr", "name"} => u.via = 0
  PROVE  ShapeOf(ins, WithTop(calls, u))
<1> DEFINE c == WithTop(calls, u)
           n == Len(calls)
<1>1. /\ Len(c) = n /\ n \in Nat \ {0} /\ DOMAIN c = 1..n
      /\ \A i \in 1..n - 1 : c[i] = calls[i]
      /\ c[n] = u /\ DOMAIN calls = 1..n
  <2>1. DOMAIN calls = 1..Len(calls)
    BY LenProperties
  <2>2. /\ Len(WithTop(calls, u)) = Len(calls) /\ Len(calls) \in Nat \ {0}
        /\ DOMAIN WithTop(calls, u) = 1..Len(calls)
        /\ \A i \in 1..Len(calls) - 1 : WithTop(calls, u)[i] = calls[i]
        /\ WithTop(calls, u)[Len(calls)] = u
    BY WithTopIs
  <2> HIDE DEF c, n
  <2> QED
    BY <2>1, <2>2 DEF c, n
<1> HIDE DEF c, n
<1>2. \A i \in 1..n : i \in 1..n - 1 \/ i = n
  BY <1>1
<1>3. \A i \in 1..n - 1 : i \in 1..n /\ (i + 1 \in 1..n - 1 \/ i + 1 = n)
  BY <1>1
<1>4. \A i \in 1..n : c[i].at \in {"expr", "name"} => c[i].via = 0
  BY <1>1, <1>2, <1>3 DEF ShapeOf
<1>5. \A i \in 1..n - 1 : c[i] = calls[i] /\ c[i + 1].of = calls[i + 1].of
  BY <1>1, <1>3 DEF n
<1>6. \A i \in 1..n - 1 :
        calls[i].at = "callee" /\ NeedsIn(ins, calls[i].of) = ins[calls[i + 1].of].id
  BY DEF ShapeOf, n
<1>7. \A i \in 1..n - 1 :
        c[i].at = "callee" /\ NeedsIn(ins, c[i].of) = ins[c[i + 1].of].id
  BY <1>5, <1>6
<1> QED
  BY <1>1, <1>4, <1>7 DEF ShapeOf, c

\* a call of the file that is needed keeps it,
LEMMA ShapePushed ==
  ASSUME NEW ins, NEW calls \in Seq(Call), calls # <<>>, ShapeOf(ins, calls), NEW h \in Nat,
         calls[Len(calls)].at = "callee", NeedsIn(ins, calls[Len(calls)].of) = ins[h].id
  PROVE  ShapeOf(ins, Append(calls, Frame(h)))
<1> DEFINE c == Append(calls, Frame(h))
           n == Len(calls)
<1>1. /\ Len(c) = n + 1 /\ n \in Nat \ {0} /\ DOMAIN c = 1..n + 1
      /\ \A i \in 1..n : c[i] = calls[i]
      /\ c[n + 1] = Frame(h) /\ DOMAIN calls = 1..n
  BY FrameIs, PushIs
<1>2. calls[n].at = "callee" /\ NeedsIn(ins, calls[n].of) = ins[h].id
  OBVIOUS
<1>3. Frame(h).via = 0 /\ Frame(h).of = h
  BY FrameIs
<1>4. \A i \in 1..n - 1 :
        calls[i].at = "callee" /\ NeedsIn(ins, calls[i].of) = ins[calls[i + 1].of].id
  BY DEF ShapeOf
<1> HIDE DEF c, n
<1>5. \A i \in 1..n + 1 : c[i].at \in {"expr", "name"} => c[i].via = 0
  <2>1. \A i \in 1..n + 1 : i \in 1..n \/ i = n + 1
    BY <1>1
  <2> QED
    BY <1>1, <1>3, <2>1 DEF ShapeOf
<1>6. ASSUME NEW i \in 1..n
      PROVE  c[i].at = "callee" /\ NeedsIn(ins, c[i].of) = ins[c[i + 1].of].id
  <2>1. CASE i = n
    <3>1. c[i] = calls[n] /\ c[i + 1] = Frame(h)
      BY <1>1, <2>1
    <3> QED
      BY <1>2, <1>3, <3>1
  <2>2. CASE i # n
    <3>1. i \in 1..n - 1 /\ i + 1 \in 1..n
      BY <1>1, <2>2
    <3> QED
      BY <1>1, <1>4, <3>1
  <2> QED
    BY <2>1, <2>2
<1>7. (n + 1) - 1 = n
  BY <1>1
<1> QED
  BY <1>1, <1>5, <1>6, <1>7 DEF ShapeOf, c

\* and so does a return.
LEMMA ShapeLeft ==
  ASSUME NEW ins, NEW calls \in Seq(Call), calls # <<>>, ShapeOf(ins, calls), NEW texts \in Texts
  PROVE  ShapeOf(ins, Returned(calls, texts))
<1> DEFINE c == Returned(calls, texts)
           n == Len(calls)
<1>1. /\ Len(c) = n - 1 /\ n \in Nat \ {0} /\ DOMAIN c = 1..n - 1
      /\ \A i \in 1..n - 2 : c[i] = calls[i]
      /\ DOMAIN calls = 1..n
      /\ n > 1 => c[n - 1] = [calls[n - 1] EXCEPT !.at = "done", !.texts = @ \cup texts]
  <2>1. DOMAIN calls = 1..Len(calls)
    BY LenProperties
  <2>2. /\ Len(Returned(calls, texts)) = Len(calls) - 1 /\ Len(calls) \in Nat \ {0}
        /\ DOMAIN Returned(calls, texts) = 1..Len(calls) - 1
        /\ \A i \in 1..Len(calls) - 2 : Returned(calls, texts)[i] = calls[i]
        /\ Len(calls) > 1 =>
             Returned(calls, texts)[Len(calls) - 1] =
               [calls[Len(calls) - 1] EXCEPT !.at = "done", !.texts = @ \cup texts]
    BY ReturnedIs
  <2> HIDE DEF c, n
  <2> QED
    BY <2>1, <2>2 DEF c, n
<1>2. \A i \in 1..n - 1 :
        calls[i].at = "callee" /\ NeedsIn(ins, calls[i].of) = ins[calls[i + 1].of].id
  BY DEF ShapeOf
<1>3. \A i \in 1..n : calls[i] \in Call
  BY LenProperties, ElementOfSeq
<1> HIDE DEF c, n
<1>4. n > 1 => c[n - 1].at = "done" /\ c[n - 1].of = calls[n - 1].of
  <2> SUFFICES ASSUME n > 1 PROVE c[n - 1].at = "done" /\ c[n - 1].of = calls[n - 1].of
    OBVIOUS
  <2> DEFINE t == calls[n - 1]
  <2>1. t \in Call
    <3>1. n - 1 \in 1..n
      BY <1>1
    <3> QED
      BY <1>3, <3>1
  <2>2. c[n - 1] = [t EXCEPT !.at = "done", !.texts = @ \cup texts]
    BY <1>1
  <2> HIDE DEF t
  <2> DEFINE u == [t EXCEPT !.at = "done", !.texts = @ \cup texts]
  <2>3. u.at = "done" /\ u.of = t.of
    BY <2>1, CallerIs
  <2> HIDE DEF u
  <2> QED
    BY <2>2, <2>3 DEF t, u
<1>5. \A i \in 1..n - 1 : n > 1 /\ i \in 1..n /\ (i \in 1..n - 2 \/ i = n - 1)
  BY <1>1
<1>6. \A i \in 1..n - 1 : c[i].at \in {"expr", "name"} => c[i].via = 0
  BY <1>1, <1>4, <1>5 DEF ShapeOf
<1>7. \A i \in 1..n - 1 : c[i].of = calls[i].of
  BY <1>1, <1>4, <1>5
<1>8. ASSUME NEW i \in 1..(n - 1) - 1
      PROVE  c[i].at = "callee" /\ NeedsIn(ins, c[i].of) = ins[c[i + 1].of].id
  <2>1. i \in 1..n - 2 /\ i \in 1..n - 1 /\ i + 1 \in 1..n - 1
    BY <1>1
  <2> QED
    BY <1>1, <1>2, <1>7, <2>1
<1> QED
  BY <1>1, <1>6, <1>8 DEF ShapeOf, c

\* No step but an update changes a text, and then there are no calls.
LEMMA FilesKeepTexts ==
  ASSUME IInv, [Next]_vars
  PROVE  /\ UpdateFile \/ \A h \in DOMAIN inputs : h \in DOMAIN inputs' /\ inputs'[h] = inputs[h]
         /\ UpdateFile => \A k \in Jobs : jobs[k].phase = "free" /\ jobs[k].calls = <<>>
         /\ \A k \in Jobs : SameFilesOf(inputs, inputs', jobs[k].calls)
<1>1. ASSUME ~UpdateFile
      PROVE  \A h \in DOMAIN inputs : h \in DOMAIN inputs' /\ inputs'[h] = inputs[h]
  <2>1. CASE UNCHANGED inputs
    BY <2>1
  <2>2. CASE ~UNCHANGED inputs
    <3>1. CreateFile \/ \E j \in Jobs : Moves(j)
      BY <1>1, <2>2, StepIs DEF DidOpen, DidChange, ForceAnalysis, BeginApply, NoFiles, DropGuard,
         SetPrelude, Query, GetFile, Lock, Collect, GivesUp, Unwind, PanicCaught, GiveUp,
         Deliver, vars, dbVars
    <3> QED
      BY <3>1, CreatedFiles, MovedFiles DEF FilesGrow, FilesStay
  <2> QED
    BY <2>1, <2>2
<1>2. ASSUME UpdateFile, NEW k \in Jobs
      PROVE  jobs[k].phase = "free" /\ jobs[k].calls = <<>>
  BY <1>2 DEF UpdateFile, HoldsSnapshot, IInv, JobShape
<1>3. ASSUME NEW k \in Jobs PROVE SameFilesOf(inputs, inputs', jobs[k].calls)
  <2>1. jobs[k].calls \in Seq(Call)
    BY DEF IInv, TypeOK, Job
  <2>2. DOMAIN jobs[k].calls = 1..Len(jobs[k].calls)
    BY <2>1, LenProperties
  <2>3. CASE UpdateFile
    BY <1>2, <2>2, <2>3 DEF SameFilesOf
  <2>4. CASE ~UpdateFile
    <3>1. \A t \in Elements(jobs[k].calls) : inputs'[t.of] = inputs[t.of]
      BY <1>1, <2>4 DEF IInv, HandlesExist
    <3> QED
      BY <2>2, <3>1 DEF SameFilesOf, Elements
  <2> QED
    BY <2>3, <2>4
<1> QED
  BY <1>1, <1>2, <1>3

\* The shape of the calls is kept.
LEMMA CallsKept ==
  ASSUME IInv, [Next]_vars
  PROVE  CallShape'
<1>1. \A k \in Jobs : ShapeOf(inputs, jobs[k].calls) /\ jobs[k].calls \in Seq(Call)
  <2>1. \A k \in Jobs : ShapeOf(inputs, jobs[k].calls)
    BY DEF IInv, CallShape, ShapeOf, Needs, NeedsIn, IdOf
  <2>2. jobs \in [Jobs -> Job]
    BY DEF IInv, TypeOK
  <2> QED
    BY <2>1, <2>2 DEF Job
<1>2. SUFFICES \A k \in Jobs : ShapeOf(inputs', jobs'[k].calls)
  BY DEF CallShape, ShapeOf, Needs, NeedsIn, IdOf
<1>3. \A k \in Jobs : SameFilesOf(inputs, inputs', jobs[k].calls)
  BY FilesKeepTexts
<1>4. \A k \in Jobs : ShapeOf(inputs', jobs[k].calls)
  BY <1>1, <1>3, ShapeStays
<1>5. CASE ~\E j \in Jobs : Moves(j)
  <2>1. ShapeOf(inputs', <<>>)
    BY DEF ShapeOf
  <2>2. ASSUME NEW h \in Nat PROVE ShapeOf(inputs', <<Frame(h)>>)
    BY FrameIs DEF ShapeOf
  <2> QED
    BY <1>4, <1>5, <2>1, <2>2, QuietContext
<1>6. ASSUME NEW j \in Jobs, Moves(j) PROVE ShapeOf(inputs', jobs'[j].calls)
  <2> DEFINE t == Top(j)
             calls == jobs[j].calls
  <2>1. /\ Infers(j) /\ calls \in Seq(Call) /\ calls # <<>> /\ t = calls[Len(calls)]
        /\ Len(calls) \in Nat \ {0} /\ DOMAIN calls = 1..Len(calls) /\ t.of \in DOMAIN inputs
    BY <1>6, MoveIs, TopFacts, LenProperties
  <2>2. inputs'[t.of] = inputs[t.of]
    BY <1>6, <2>1, MovedFiles DEF FilesStay
  <2>3. t.at \in {"expr", "name"} => t.via = 0
    <3>1. Len(calls) \in DOMAIN calls
      BY <2>1
    <3> QED
      BY <1>1, <2>1, <3>1 DEF ShapeOf
  <2> HIDE DEF t, calls
  <2>4. ASSUME NEW u \in Call, Advanced(j, u), u.at \in {"expr", "name"} => u.via = 0
        PROVE  ShapeOf(inputs', jobs'[j].calls)
    BY <1>4, <2>1, <2>4, ShapeAdvanced DEF Advanced, t, calls
  <2>5. ASSUME NEW u \in Call, NEW h \in Nat, Descended(j, u, h),
               Needs(t.of) = inputs'[h].id
        PROVE  ShapeOf(inputs', jobs'[j].calls)
    <3> DEFINE w == WithTop(calls, u)
    <3>1. u.of = t.of /\ u.at = "callee" /\ jobs'[j].calls = Append(w, Frame(h))
      BY <2>5 DEF Descended, t, calls
    <3>2. ShapeOf(inputs', w)
      BY <1>4, <2>1, <3>1, ShapeAdvanced DEF t, calls
    <3>3. w \in Seq(Call) /\ Len(w) = Len(calls) /\ w[Len(calls)] = u
      BY <2>1, WithTopIs
    <3> HIDE DEF w
    <3>4. w # <<>> /\ w[Len(w)] = u
      BY <2>1, <3>3
    <3> QED
      BY <2>2, <2>5, <3>1, <3>2, <3>3, <3>4, ShapePushed DEF Needs, NeedsIn, IdOf
  <2>6. ASSUME NEW texts \in Texts, Left(j, texts) PROVE ShapeOf(inputs', jobs'[j].calls)
    BY <1>4, <2>1, <2>6, ShapeLeft DEF Left, calls
  <2>7. CASE UseCached(j) \/ Conclude(j)
    <3>1. \E texts : Left(j, texts)
      BY <2>7, UseCachedIs, ConcludeIs
    <3> QED
      BY <2>6, <3>1 DEF Left
  <2>8. CASE InferExpr(j)
    <3>1. t.at = "expr" /\ \E u \in Call : Advanced(j, u) /\ u.at = "name" /\ u.via = t.via
      BY <2>8, InferExprIs DEF t
    <3> QED
      BY <2>3, <2>4, <3>1
  <2>9. CASE OwnName(j)
    <3>1. \E u \in Call : Advanced(j, u) /\ u.at = "done"
      BY <2>9, OwnNameIs
    <3> QED
      BY <2>4, <3>1
  <2>10. CASE NameInPrelude(j)
    <3> DEFINE h == PreludeFile(j)
    <3>1. \/ \E u \in Call : Advanced(j, u) /\ u.at = "done"
          \/ h # 0 /\ \E u \in Call : Descended(j, u, h)
      BY <2>10, NameInPreludeIs
    <3>2. h \in Nat /\ (h # 0 => Needs(t.of) = inputs'[h].id)
      <4>1. IdOf(t.of) \in BuildFiles /\ inputs' = inputs
        BY <2>10, NameInPreludeIs DEF t
      <4> QED
        BY <4>1, PreludeIs DEF Needs, IdOf
    <3> HIDE DEF h
    <3> QED
      BY <2>4, <2>5, <3>1, <3>2
  <2>11. CASE LoadItem(j)
    <3> DEFINE h == LoadedFile(inputs[t.of].loads)
    <3>1. \/ \E u \in Call : Advanced(j, u) /\ u.at = "done"
          \/ \E u \in Call : Descended(j, u, h)
      BY <2>11, LoadItemMoves DEF t
    <3>2. h \in Nat /\ Needs(t.of) = inputs'[h].id
      BY <2>11, LoadItemIs, LoadedIs DEF t
    <3> HIDE DEF h
    <3> QED
      BY <2>4, <2>5, <3>1, <3>2
  <2> QED
    BY <1>6, <2>7, <2>8, <2>9, <2>10, <2>11 DEF Moves
<1>7. ASSUME NEW j \in Jobs, Moves(j) PROVE \A k \in Jobs : ShapeOf(inputs', jobs'[k].calls)
  BY <1>4, <1>6, <1>7, MovedJobs
<1> QED
  BY <1>5, <1>7

\* The stack of loads follows the calls in each of their moves.
LEMMA StackAdvanced ==
  ASSUME NEW ins, NEW jns, NEW stack, NEW calls \in Seq(Call), calls # <<>>,
         StackOf(ins, stack, calls), GoOn(ins, jns),
         SameFilesOf(ins, jns, calls), NEW u \in Call,
         u.of = calls[Len(calls)].of, ~LoadsIn(ins, calls[Len(calls)]), ~LoadsIn(jns, u)
  PROVE  /\ StackOf(jns, stack, WithTop(calls, u))
         /\ \A h \in Nat : StackOf(jns, stack, Append(WithTop(calls, u), Frame(h)))
<1> DEFINE c == WithTop(calls, u)
           n == Len(calls)
           top == calls[n]
<1>1. /\ c \in Seq(Call) /\ Len(c) = n /\ n \in Nat \ {0} /\ DOMAIN c = 1..n
      /\ (\A i \in 1..n - 1 : c[i] = calls[i]) /\ c[n] = u
  BY WithTopIs
<1>2. DOMAIN calls = 1..n /\ u.of = top.of /\ ~LoadsIn(ins, top)
  BY LenProperties
<1>3. \A i \in 1..n : LoadsIn(jns, calls[i]) <=> LoadsIn(ins, calls[i])
  BY DEF SameFilesOf, LoadsIn
<1> HIDE DEF c, n
<1>4. ASSUME NEW i \in 1..n
      PROVE  c[i].of = calls[i].of /\ (LoadsIn(jns, c[i]) <=> LoadsIn(ins, calls[i]))
  <2>1. CASE i = n
    BY <1>1, <1>2, <2>1
  <2>2. CASE i # n
    <3>1. i \in 1..n - 1
      BY <1>1, <2>2
    <3> QED
      BY <1>1, <1>3, <3>1
  <2> QED
    BY <2>1, <2>2
<1>5. StackOf(jns, stack, c)
  <2>1. 0 \notin DOMAIN c
    BY <1>1
  <2> QED
    BY <1>1, <1>2, <1>4, <2>1, StackKept
<1>6. ASSUME NEW h \in Nat PROVE StackOf(jns, stack, Append(c, Frame(h)))
  <2> DEFINE d == Append(c, Frame(h))
  <2>1. /\ DOMAIN d = 1..n + 1 /\ d[n + 1] = Frame(h)
        /\ \A i \in 1..n : d[i] = c[i]
    BY <1>1, FrameIs, PushIs
  <2>2. ~LoadsIn(jns, Frame(h))
    BY FrameIs DEF LoadsIn
  <2> HIDE DEF d
  <2>3. \A i \in 1..n + 1 : i \in 1..n \/ i = n + 1
    BY <1>1
  <2>4. \A i \in DOMAIN c \cap DOMAIN d :
          d[i].of = c[i].of /\ (LoadsIn(jns, d[i]) <=> LoadsIn(jns, c[i]))
    BY <1>1, <2>1
  <2>5. \A i \in 1..n : i \in 1..n + 1
    BY <1>1
  <2>6. \A i \in DOMAIN c \ DOMAIN d : ~LoadsIn(jns, c[i])
    BY <1>1, <2>1, <2>5
  <2>7. \A i \in DOMAIN d \ DOMAIN c : ~LoadsIn(jns, d[i])
    BY <1>1, <2>1, <2>2, <2>3
  <2>8. 0 \notin DOMAIN d
    BY <1>1, <2>1
  <2> QED
    BY <1>5, <2>4, <2>6, <2>7, <2>8, StackKept DEF d, GoOn
<1> QED
  BY <1>5, <1>6 DEF c

\* A call that loads is put on the stack, and the call it makes is not yet.
LEMMA StackDescended ==
  ASSUME NEW ins, NEW jns, NEW stack \in Seq(Nat), NEW calls \in Seq(Call), calls # <<>>,
         StackOf(ins, stack, calls), GoOn(ins, jns),
         SameFilesOf(ins, jns, calls), NEW u \in Call, NEW h \in Nat,
         u.of = calls[Len(calls)].of, ~LoadsIn(ins, calls[Len(calls)]), LoadsIn(jns, u)
  PROVE  StackOf(jns, Append(stack, u.of), Append(WithTop(calls, u), Frame(h)))
<1> DEFINE w == WithTop(calls, u)
           n == Len(calls)
           c == Append(w, Frame(h))
           top == calls[n]
<1>1. /\ w \in Seq(Call) /\ Len(w) = n /\ n \in Nat \ {0}
      /\ (\A i \in 1..n - 1 : w[i] = calls[i]) /\ w[n] = u
  BY WithTopIs
<1>2. DOMAIN calls = 1..n /\ u.of = top.of /\ ~LoadsIn(ins, top)
  BY LenProperties
<1>3. \A i \in 1..n : LoadsIn(jns, calls[i]) <=> LoadsIn(ins, calls[i])
  BY DEF SameFilesOf, LoadsIn
<1> HIDE DEF w, n
<1>4. /\ DOMAIN c = 1..n + 1 /\ c[n + 1] = Frame(h)
      /\ \A i \in 1..n : c[i] = w[i]
  BY <1>1, FrameIs, PushIs
<1> HIDE DEF c
<1>5. \A i \in 1..n - 1 : i \in 1..n
  BY <1>1
<1>6. \A i \in 1..n - 1 :
        c[i].of = calls[i].of /\ (LoadsIn(jns, c[i]) <=> LoadsIn(ins, calls[i]))
  BY <1>1, <1>3, <1>4, <1>5
<1>7. c[n] = u
  BY <1>1, <1>4
<1>8. \A i \in n + 1..n + 1 : ~LoadsIn(jns, c[i])
  <2>1. ~LoadsIn(jns, Frame(h))
    BY FrameIs DEF LoadsIn
  <2>2. \A i \in n + 1..n + 1 : i = n + 1
    BY <1>1
  <2> QED
    BY <1>4, <2>1, <2>2
<1>9. n + 1 \in Nat /\ n <= n + 1
  BY <1>1
<1>10. StackOf(jns, Append(stack, c[n].of), c)
  <2> DEFINE m == n + 1
  <2>1. m \in Nat /\ n <= m /\ DOMAIN c = 1..m /\ \A i \in n + 1..m : ~LoadsIn(jns, c[i])
    BY <1>4, <1>8, <1>9
  <2>2. LoadsIn(jns, c[n])
    BY <1>7
  <2> HIDE DEF m
  <2> QED
    BY <1>1, <1>2, <1>6, <2>1, <2>2, StackPushed
<1> QED
  BY <1>7, <1>10 DEF c, w

\* A call that returns is on the top of the stack if it loads.
LEMMA StackLeft ==
  ASSUME NEW ins, NEW jns, NEW stack \in Seq(Nat), NEW calls \in Seq(Call), calls # <<>>,
         StackOf(ins, stack, calls), GoOn(ins, jns),
         SameFilesOf(ins, jns, calls), NEW texts \in Texts
  PROVE  LET c == Returned(calls, texts)
         IN  IF LoadsIn(ins, calls[Len(calls)])
             THEN StackOf(jns, SubSeq(stack, 1, Len(stack) - 1), c)
             ELSE StackOf(jns, stack, c)
<1> DEFINE c == Returned(calls, texts)
           n == Len(calls)
           top == calls[n]
<1>1. DOMAIN calls = 1..n /\ n \in Nat \ {0}
  BY LenProperties, ReturnedIs
<1>2. DOMAIN c = 1..n - 1
      /\ (\A i \in 1..n - 2 : c[i] = calls[i])
      /\ (n > 1 => c[n - 1] = [calls[n - 1] EXCEPT !.at = "done", !.texts = @ \cup texts])
  BY ReturnedIs
<1>3. \A i \in 1..n : (LoadsIn(jns, calls[i]) <=> LoadsIn(ins, calls[i])) /\ calls[i] \in Call
  <2>1. \A i \in 1..n : calls[i] \in Call
    BY <1>1, ElementOfSeq
  <2> QED
    BY <2>1 DEF SameFilesOf, LoadsIn
<1> HIDE DEF c, n
<1>4. ASSUME NEW i \in 1..n - 1
      PROVE  c[i].of = calls[i].of /\ (LoadsIn(jns, c[i]) <=> LoadsIn(ins, calls[i]))
  <2>1. i \in 1..n
    BY <1>1
  <2>2. CASE i \in 1..n - 2
    BY <1>2, <1>3, <2>1, <2>2
  <2>3. CASE i \notin 1..n - 2
    <3> DEFINE t == calls[i]
    <3>1. i = n - 1 /\ n > 1
      BY <1>1, <2>3
    <3>2. t \in Call
      BY <1>3, <2>1
    <3>3. c[i] = [t EXCEPT !.at = "done", !.texts = @ \cup texts]
      BY <1>2, <3>1
    <3> HIDE DEF t
    <3>4. c[i].of = t.of /\ c[i].via = t.via
      BY <3>2, <3>3 DEF Call
    <3>5. LoadsIn(jns, c[i]) <=> LoadsIn(jns, t)
      BY <3>4 DEF LoadsIn
    <3> QED
      BY <1>3, <2>1, <3>4, <3>5 DEF t
  <2> QED
    BY <2>2, <2>3
<1>5. CASE LoadsIn(ins, top)
  <2> HIDE DEF top
  <2>1. StackOf(jns, SubSeq(stack, 1, Len(stack) - 1), c)
    BY <1>1, <1>2, <1>4, <1>5, StackPopped DEF top
  <2> QED
    BY <1>5, <2>1 DEF c, n, top
<1>6. CASE ~LoadsIn(ins, top)
  <2>1. \A i \in 1..n : i \in 1..n - 1 \/ i = n
    BY <1>1
  <2>2. \A i \in 1..n - 1 : i \in 1..n
    BY <1>1
  <2>3. \A i \in DOMAIN calls \ DOMAIN c : ~LoadsIn(ins, calls[i])
    BY <1>1, <1>2, <1>6, <2>1
  <2>4. DOMAIN c \ DOMAIN calls = {}
    BY <1>1, <1>2, <2>2
  <2>5. 0 \notin DOMAIN c
    BY <1>2
  <2>6. StackOf(jns, stack, c)
    BY <1>2, <1>4, <2>3, <2>4, <2>5, StackKept
  <2> QED
    BY <1>6, <2>6 DEF c, n, top
<1> QED
  BY <1>5, <1>6

\* The stack is that of the calls of a query that has begun.
LEMMA StackOfBegun ==
  ASSUME IInv, NEW j \in Jobs, Infers(j), ~cancelled \/ Top(j).at # "expr"
  PROVE  StackOf(inputs, cx.stack, jobs[j].calls)
<1>1. StackIsOf(jobs[j].calls) \/ (cancelled /\ NotBegun(jobs[j].calls))
  BY DEF Infers, IInv, StackShape
<1>2. ~(cancelled /\ NotBegun(jobs[j].calls))
  BY TopFacts DEF NotBegun
<1> QED
  BY <1>1, <1>2, StackIsThat

\* What the calls of a step that infers know of the ids, before and after.
LEMMA TopLoads ==
  ASSUME IInv, NEW j \in Jobs, Moves(j)
  PROVE  /\ SameFilesOf(inputs, inputs', jobs[j].calls) /\ GoOn(inputs, inputs')
         /\ Top(j).at \in {"expr", "name"} => Top(j).via = 0 /\ ~LoadsIn(inputs, Top(j))
         /\ inputs'[Top(j).of].id = IdOf(Top(j).of)
         /\ IsLoading(Top(j)) <=> LoadsIn(inputs, Top(j))
<1>1. /\ jobs[j].calls \in Seq(Call) /\ Top(j) \in Elements(jobs[j].calls)
      /\ Top(j).of \in DOMAIN inputs
  BY MoveIs, TopFacts
<1>2. \A i \in DOMAIN jobs[j].calls : inputs'[jobs[j].calls[i].of] = inputs[jobs[j].calls[i].of]
  <2>1. \A t \in Elements(jobs[j].calls) : inputs'[t.of] = inputs[t.of]
    BY MovedFiles DEF IInv, HandlesExist, FilesStay
  <2> QED
    BY <2>1 DEF Elements
<1>3. DOMAIN jobs[j].calls = 1..Len(jobs[j].calls)
  BY <1>1, LenProperties
<1>4. Top(j).at \in {"expr", "name"} => Top(j).via = 0
  BY <1>1 DEF IInv, CallShape, Elements
<1>5. inputs'[Top(j).of].id = IdOf(Top(j).of)
  BY <1>1, MovedFiles DEF FilesGrow, IdOf
<1>6. GoOn(inputs, inputs')
  BY MovedFiles, GoOnIs DEF FilesGrow, FilesStay
<1> QED
  BY <1>2, <1>3, <1>4, <1>5, <1>6 DEF SameFilesOf, LoadsIn, IsLoading, IdOf

\* Its shape, in those terms.
StackShapeIn ==
  /\ owner = None /\ ~cancelled => \A h \in Elements(cx.stack) : NeverEndsIn(inputs, h)
  /\ \A k \in Jobs : jobs[k].phase = "infer" =>
       \/ StackOf(inputs, cx.stack, jobs[k].calls)
       \/ cancelled /\ NotBegun(jobs[k].calls)

LEMMA StackShapeIs == StackShape <=> StackShapeIn
BY StackIsThat DEF StackShape, StackShapeIn

\* Calls that lead to a File whose inference never ends, or to one of their
\* own, never end.
LEMMA CallsNeverEnd ==
  ASSUME NEW ins, NEW calls \in Seq(Call), NEW n \in Nat \ {0}, n = Len(calls),
         ShapeOf(ins, calls), \A i \in 1..n : calls[i].of \in DOMAIN ins,
         \/ ins[calls[n].of].loads = Panic
         \/ \E h \in DOMAIN ins : /\ ins[h].id = NeedsIn(ins, calls[n].of)
                                  /\ NeverEndsIn(ins, h) \/ \E i \in 1..n : calls[i].of = h
  PROVE  \A i \in 1..n : NeverEndsIn(ins, calls[i].of)
<1> DEFINE C == {calls[i].of : i \in 1..n}
<1>1. PICK S \in SUBSET DOMAIN ins :
        /\ EndlessIn(ins, S)
        /\ ins[calls[n].of].loads = Panic
             \/ \E h \in S \cup C : ins[h].id = NeedsIn(ins, calls[n].of)
  <2>1. CASE ins[calls[n].of].loads = Panic
    <3>1. EndlessIn(ins, {})
      BY DEF EndlessIn
    <3> QED
      BY <2>1, <3>1
  <2>2. CASE ins[calls[n].of].loads # Panic
    <3>1. PICK h \in DOMAIN ins : /\ ins[h].id = NeedsIn(ins, calls[n].of)
                                  /\ NeverEndsIn(ins, h) \/ \E i \in 1..n : calls[i].of = h
      BY <2>2
    <3>2. CASE NeverEndsIn(ins, h)
      BY <3>1, <3>2 DEF NeverEndsIn
    <3>3. CASE h \in C
      <4>1. EndlessIn(ins, {})
        BY DEF EndlessIn
      <4> QED
        BY <3>1, <3>3, <4>1
    <3> QED
      BY <3>1, <3>2, <3>3
  <2> QED
    BY <2>1, <2>2
<1>2. \A i \in 1..n - 1 :
        /\ i + 1 \in 1..n
        /\ NeedsIn(ins, calls[i].of) = ins[calls[i + 1].of].id
  BY DEF ShapeOf
<1>3. C \subseteq DOMAIN ins
  OBVIOUS
<1> DEFINE T == S \cup C
<1>4. ASSUME NEW i \in 1..n
      PROVE  ins[calls[i].of].loads = Panic
               \/ \E k \in T : ins[k].id = NeedsIn(ins, calls[i].of)
  <2>1. CASE i = n
    BY <1>1, <2>1
  <2>2. CASE i # n
    <3>1. i \in 1..n - 1
      BY <2>2
    <3>2. calls[i + 1].of \in C /\ NeedsIn(ins, calls[i].of) = ins[calls[i + 1].of].id
      BY <1>2, <3>1
    <3> QED
      BY <3>2
  <2> QED
    BY <2>1, <2>2
<1>5. EndlessIn(ins, T)
  <2>1. ASSUME NEW h \in S
        PROVE  ins[h].loads = Panic \/ \E k \in T : ins[k].id = NeedsIn(ins, h)
    BY <1>1 DEF EndlessIn
  <2>2. ASSUME NEW h \in C
        PROVE  ins[h].loads = Panic \/ \E k \in T : ins[k].id = NeedsIn(ins, h)
    BY <1>4
  <2> HIDE DEF C
  <2> QED
    BY <2>1, <2>2 DEF EndlessIn
<1>6. T \in SUBSET DOMAIN ins /\ \A i \in 1..n : calls[i].of \in T
  BY <1>3
<1> HIDE DEF T
<1> QED
  BY <1>5, <1>6 DEF NeverEndsIn

\* The stack of loads is kept that of the calls.
LEMMA StackStays ==
  ASSUME IInv, [Next]_vars
  PROVE  StackShape'
<1> DEFINE Is(k) == \/ StackOf(inputs', cx'.stack, jobs'[k].calls)
                    \/ cancelled' /\ NotBegun(jobs'[k].calls)
           Left0 == \A h \in Elements(cx.stack) : NeverEndsIn(inputs, h)
           Left1 == \A h \in Elements(cx'.stack) : NeverEndsIn(inputs', h)
<1>1. SUFFICES /\ owner' = None /\ ~cancelled' => Left1
               /\ \A k \in Jobs : jobs'[k].phase = "infer" => Is(k)
  <2>1. StackShape' <=> StackShapeIn'
    BY StackShapeIs, PTL
  <2> QED
    BY <2>1 DEF StackShapeIn
<1>2. /\ owner = None /\ ~cancelled => Left0
      /\ \A k \in Jobs : jobs[k].phase = "infer" =>
           \/ StackOf(inputs, cx.stack, jobs[k].calls)
           \/ cancelled /\ NotBegun(jobs[k].calls)
  BY StackIsThat DEF IInv, StackShape
<1>3. /\ \A k \in Jobs : owner = k <=> jobs[k].phase = "infer"
      /\ None \notin Jobs /\ jobs \in [Jobs -> Job] /\ cx.stack \in Seq(Nat)
  BY LoadsAssumption DEF IInv, JobShape, TypeOK
<1>4. \A k \in Jobs : jobs[k].calls \in Seq(Call) /\ SameFilesOf(inputs, inputs', jobs[k].calls)
  <2>1. \A k \in Jobs : jobs[k].calls \in Seq(Call)
    BY <1>3 DEF Job
  <2> QED
    BY <2>1, FilesKeepTexts
<1>5. ASSUME ~UpdateFile
      PROVE  /\ GoOn(inputs, inputs')
             /\ \A k \in Jobs : StackOf(inputs, cx.stack, jobs[k].calls) =>
                                  StackOf(inputs', cx.stack, jobs[k].calls)
  <2>1. GoOn(inputs, inputs')
    BY <1>5, FilesKeepTexts, GoOnIs
  <2>2. ASSUME NEW k \in Jobs, StackOf(inputs, cx.stack, jobs[k].calls)
        PROVE  StackOf(inputs', cx.stack, jobs[k].calls)
    <3>1. \A i \in DOMAIN jobs[k].calls :
            LoadsIn(inputs', jobs[k].calls[i]) <=> LoadsIn(inputs, jobs[k].calls[i])
      BY <1>4, LenProperties DEF SameFilesOf, LoadsIn
    <3>2. 0 \notin DOMAIN jobs[k].calls
      BY <1>4, LenProperties
    <3> QED
      BY <2>1, <2>2, <3>1, <3>2, StackKept
  <2> QED
    BY <2>1, <2>2
<1>6. CASE UNCHANGED <<owner, cx, jobs>> /\ (cancelled => cancelled') /\ ~UpdateFile
  <2>1. Left0 => Left1
    BY <1>5, <1>6 DEF GoOn
  <2> QED
    BY <1>2, <1>5, <1>6, <2>1
<1>7. CASE DropGuard
  <2>1. owner = None /\ cx'.stack = <<>> /\ UNCHANGED jobs
    BY <1>7 DEF DropGuard, Reset, EmptyContext
  <2>2. Left1
    BY <2>1 DEF Elements
  <2> QED
    BY <1>3, <2>1, <2>2
<1>8. CASE \/ \E f \in FileIds : DidOpen(f) \/ DidChange(f)
           \/ ForceAnalysis
  <2>1. ~UpdateFile
    BY <1>8, BeginIs DEF UpdateFile, WriteWaits
  <2> QED
    BY <1>6, <1>8, <2>1, BeginIs
<1>9. CASE CreateFile \/ UpdateFile \/ NoFiles \/ SetPrelude
  <2>1. CASE ~UpdateFile
    BY <1>6, <1>9, <2>1 DEF CreateFile, NoFiles, SetPrelude
  <2>2. CASE UpdateFile
    <3>1. jobs' = jobs /\ cancelled' = cancelled /\ cancelled
      BY <2>2 DEF UpdateFile, WriteWaits, IInv, MainShape
    <3>2. \A k \in Jobs : jobs[k].phase = "free"
      BY <2>2, FilesKeepTexts
    <3> QED
      BY <3>1, <3>2
  <2> QED
    BY <2>1, <2>2
<1>10. ASSUME NEW j \in Jobs, \/ \E f \in FileIds : Query(j, f)
                              \/ GetFile(j) \/ Deliver(j)
       PROVE  /\ owner' = None /\ ~cancelled' => Left1
              /\ \A k \in Jobs : jobs'[k].phase = "infer" => Is(k)
  <2>1. JobOnly(j) /\ owner' = owner /\ jobs'[j].phase # "infer"
    BY <1>10, QueryIs, GetFileIs, DeliverIs, FreeIs
  <2> QED
    BY <1>2, <2>1 DEF JobOnly
<1>11. ASSUME NEW j \in Jobs, Lock(j)
       PROVE  /\ owner' = None /\ ~cancelled' => Left1
              /\ \A k \in Jobs : jobs'[k].phase = "infer" => Is(k)
  <2> DEFINE h == jobs[j].of
  <2>1. JobOnly(j) /\ owner = None /\ owner' = j /\ jobs'[j].calls = <<Frame(h)>> /\ h \in Nat
    BY <1>11, LockIs
  <2> HIDE DEF h
  <2>2. \A k \in Jobs : jobs'[k].phase = "infer" => k = j
    BY <1>3, <2>1 DEF JobOnly
  <2>3. CASE cancelled
    <3>1. NotBegun(<<Frame(h)>>)
      BY <2>1, FrameIs DEF NotBegun
    <3> QED
      BY <1>3, <2>1, <2>2, <2>3, <3>1 DEF JobOnly
  <2>4. CASE ~cancelled
    <3>1. /\ \A g \in Elements(cx.stack) : NeverEndsIn(inputs, g)
          /\ cx' = cx /\ inputs' = inputs
      BY <1>2, <2>1, <2>4 DEF JobOnly
    <3>2. StackOf(inputs, cx.stack, <<Frame(h)>>)
      <4>1. ~LoadsIn(inputs, Frame(h))
        BY <2>1, FrameIs DEF LoadsIn
      <4>2. StackOf(inputs, cx.stack, <<>>)
        <5>1. [i \in DOMAIN cx.stack |-> 0] \in [DOMAIN cx.stack -> {0} \cup DOMAIN <<>>]
          OBVIOUS
        <5>2. DOMAIN <<>> = {}
          OBVIOUS
        <5> QED
          BY <3>1, <5>1, <5>2 DEF StackOf, Elements
      <4>3. /\ DOMAIN <<>> = {} /\ 0 \notin DOMAIN <<Frame(h)>>
            /\ \A i \in DOMAIN <<Frame(h)>> : <<Frame(h)>>[i] = Frame(h)
        OBVIOUS
      <4> QED
        BY <4>1, <4>2, <4>3, StackKept DEF GoOn
    <3> QED
      BY <1>3, <2>1, <2>2, <3>1, <3>2
  <2> QED
    BY <2>3, <2>4
<1>12. ASSUME NEW j \in Jobs, Collect(j) \/ GivesUp(j)
       PROVE  /\ owner' = None /\ ~cancelled' => Left1
              /\ \A k \in Jobs : jobs'[k].phase = "infer" => Is(k)
  <2>1. JobOnly(j) /\ owner = j /\ jobs[j].phase = "infer" /\ jobs'[j].phase # "infer"
    BY <1>12, CollectIs, GivesUpIs, FreeIs
  <2>2. \A k \in Jobs : jobs'[k].phase # "infer"
    BY <1>3, <2>1 DEF JobOnly
  <2>3. cancelled' = cancelled /\ cx' = cx /\ inputs' = inputs
    BY <2>1 DEF JobOnly
  <2>4. StackOf(inputs, cx.stack, jobs[j].calls)
          => \A h \in Elements(cx.stack) :
               NeverEndsIn(inputs, h) \/ \E i \in DOMAIN jobs[j].calls : jobs[j].calls[i].of = h
    BY DEF StackOf, Elements
  <2>5. CASE Collect(j)
    <3>1. jobs[j].calls = <<>> /\ (StackOf(inputs, cx.stack, jobs[j].calls) \/ cancelled)
      BY <1>2, <2>5, CollectIs
    <3>2. ~cancelled => Left0
      BY <2>4, <3>1
    <3> QED
      BY <2>2, <2>3, <3>2
  <2>6. CASE GivesUp(j) /\ cancelled
    BY <2>2, <2>3, <2>6
  <2>7. CASE GivesUp(j) /\ ~cancelled
    <3> DEFINE calls == jobs[j].calls
               n == Len(calls)
    <3>1. InferPanics(j)
      BY <2>7, GivesUpIs
    <3>2. /\ calls \in Seq(Call) /\ n \in Nat \ {0} /\ DOMAIN calls = 1..n
          /\ Top(j) = calls[n] /\ inputs[calls[n].of].loads = Panic
      BY <3>1, TopFacts, LenProperties DEF InferPanics, InferAt
    <3>3. \A i \in 1..n : calls[i].of \in DOMAIN inputs
      BY <3>2 DEF IInv, HandlesExist, Elements
    <3>4. ShapeOf(inputs, calls)
      BY DEF IInv, CallShape, ShapeOf, Needs, NeedsIn, IdOf
    <3>5. StackOf(inputs, cx.stack, calls)
      BY <1>2, <2>1, <2>7
    <3> HIDE DEF n, calls
    <3>6. \A i \in 1..n : NeverEndsIn(inputs, calls[i].of)
      BY <3>2, <3>3, <3>4, CallsNeverEnd DEF n
    <3>7. Left0
      BY <2>4, <3>2, <3>5, <3>6 DEF calls
    <3> QED
      BY <2>2, <2>3, <3>7
  <2> QED
    BY <1>12, <2>5, <2>6, <2>7
<1>13. ASSUME NEW j \in Jobs, Moves(j)
       PROVE  /\ owner' = None /\ ~cancelled' => Left1
              /\ \A k \in Jobs : jobs'[k].phase = "infer" => Is(k)
  <2> DEFINE t == Top(j)
             calls == jobs[j].calls
             stack == cx.stack
  <2>1. /\ Infers(j) /\ calls \in Seq(Call) /\ calls # <<>> /\ t = calls[Len(calls)]
        /\ Len(calls) \in Nat \ {0} /\ owner = j
    BY <1>13, MoveIs, TopFacts
  <2>2. /\ \A k \in Jobs : jobs'[k].phase = jobs[k].phase
        /\ owner' = owner /\ cancelled' = cancelled
    BY <1>13, MovedJobs
  <2> SUFFICES Is(j)
    BY <1>3, <2>1, <2>2
  <2>3. /\ SameFilesOf(inputs, inputs', calls) /\ GoOn(inputs, inputs') /\ stack \in Seq(Nat)
        /\ t.at \in {"expr", "name"} => t.via = 0 /\ ~LoadsIn(inputs, t)
        /\ inputs'[t.of].id = IdOf(t.of)
        /\ IsLoading(t) <=> LoadsIn(inputs, t)
    BY <1>3, <1>13, TopLoads
  <2>4. ~cancelled \/ t.at # "expr" => StackOf(inputs, stack, calls)
    BY <2>1, StackOfBegun
  <2> HIDE DEF t, calls, stack
  <2>5. ASSUME NEW u \in Call, Advanced(j, u), t.at \in {"expr", "name"}, ~LoadsIn(inputs', u),
               ~cancelled \/ t.at # "expr", cx'.stack = stack
        PROVE  Is(j)
    <3>1. StackOf(inputs', stack, WithTop(calls, u))
      BY <2>1, <2>3, <2>4, <2>5, StackAdvanced DEF Advanced, t
    <3> QED
      BY <2>5, <3>1 DEF Advanced, calls
  <2>6. ASSUME NEW texts \in Texts, Left(j, texts), StackOf(inputs, stack, calls),
               cx'.stack = IF LoadsIn(inputs, t) THEN SubSeq(stack, 1, Len(stack) - 1) ELSE stack
        PROVE  Is(j)
    <3>1. StackOf(inputs', cx'.stack, Returned(calls, texts))
      BY <2>1, <2>3, <2>6, StackLeft
    <3> QED
      BY <2>6, <3>1 DEF Left, calls
  <2>7. CASE UseCached(j)
    <3>1. PICK e \in cx.types : Left(j, e.texts)
      BY <2>7, UseCachedIs
    <3>2. cx' = cx /\ t.at = "expr" /\ e.texts \in Texts
      BY <2>7, <3>1, UseCachedIs DEF t, Left
    <3>3. CASE StackOf(inputs, stack, calls)
      BY <2>3, <2>6, <3>1, <3>2, <3>3 DEF stack
    <3>4. CASE ~StackOf(inputs, stack, calls)
      <4>1. cancelled /\ NotBegun(calls)
        BY <1>2, <2>1, <3>4 DEF Infers, calls, stack
      <4>2. Len(calls) = 1
        BY <2>1, <4>1 DEF NotBegun
      <4>3. jobs'[j].calls = <<>>
        BY <3>1, <4>2 DEF Left, Returned, calls
      <4> QED
        BY <2>2, <4>1, <4>3 DEF NotBegun
    <3> QED
      BY <3>3, <3>4
  <2>8. CASE InferExpr(j)
    <3>1. /\ t.at = "expr" /\ ~cancelled /\ cx'.stack = stack
          /\ \E u \in Call : Advanced(j, u) /\ u.via = t.via
      BY <2>8, InferExprIs DEF t, stack
    <3>2. \A u \in Call : u.via = 0 => ~LoadsIn(inputs', u)
      BY DEF LoadsIn
    <3> QED
      BY <2>3, <2>5, <3>1, <3>2
  <2>9. CASE OwnName(j)
    <3>1. /\ t.at = "name" /\ cx'.stack = stack
          /\ \E u \in Call : Advanced(j, u) /\ u.via = t.via
      BY <2>9, OwnNameIs DEF t, stack
    <3>2. \A u \in Call : u.via = 0 => ~LoadsIn(inputs', u)
      BY DEF LoadsIn
    <3> QED
      BY <2>3, <2>5, <3>1, <3>2
  <2>10. CASE NameInPrelude(j)
    <3> DEFINE h == PreludeFile(j)
    <3>1. /\ t.at = "name" /\ cx'.stack = stack /\ IdOf(t.of) \in BuildFiles
          /\ \/ \E u \in Call : Advanced(j, u) /\ u.via = 0
             \/ h # 0 /\ \E u \in Call : Descended(j, u, h)
      BY <2>10, NameInPreludeIs DEF t, stack
    <3>2. \A u \in Call : u.via = 0 => ~LoadsIn(inputs', u)
      BY DEF LoadsIn
    <3>3. h \in Nat
      BY PreludeIs
    <3> HIDE DEF h
    <3>4. ASSUME NEW u \in Call, Descended(j, u, h) PROVE Is(j)
      <4>1. u.of = t.of /\ jobs'[j].calls = Append(WithTop(calls, u), Frame(h))
        BY <3>4 DEF Descended, t, calls
      <4>2. ~LoadsIn(inputs', u)
        BY <2>3, <3>1, <4>1 DEF LoadsIn
      <4>3. StackOf(inputs', stack, Append(WithTop(calls, u), Frame(h)))
        BY <2>1, <2>3, <2>4, <3>1, <3>3, <4>1, <4>2, StackAdvanced
      <4> QED
        BY <3>1, <4>1, <4>3
    <3> QED
      BY <2>5, <3>1, <3>2, <3>4
  <2>11. CASE LoadItem(j)
    <3> DEFINE h == LoadedFile(inputs[t.of].loads)
    <3>1. \/ cx'.stack = stack /\ \E u \in Call : Advanced(j, u) /\ u.via = Circle
          \/ cx'.stack = Append(stack, t.of) /\ \E u \in Call : Descended(j, u, h)
      BY <2>11, LoadItemMoves DEF t, stack
    <3>2. \A u \in Call : u.via = Circle => ~LoadsIn(inputs', u)
      BY DEF LoadsIn, Circle
    <3>3. t.at = "name" /\ h \in Nat \ {0} /\ IdOf(t.of) \notin BuildFiles
      BY <2>11, LoadItemIs, LoadedIs DEF t
    <3> HIDE DEF h
    <3>4. ASSUME NEW u \in Call, Descended(j, u, h), cx'.stack = Append(stack, t.of) PROVE Is(j)
      <4>1. u.of = t.of /\ u.via = h /\ jobs'[j].calls = Append(WithTop(calls, u), Frame(h))
        BY <3>4 DEF Descended, t, calls
      <4>2. LoadsIn(inputs', u)
        BY <2>3, <3>3, <4>1 DEF LoadsIn
      <4>3. StackOf(inputs', Append(stack, u.of), Append(WithTop(calls, u), Frame(h)))
        BY <2>1, <2>3, <2>4, <3>3, <4>1, <4>2, StackDescended
      <4> QED
        BY <3>4, <4>1, <4>3
    <3> QED
      BY <2>5, <3>1, <3>2, <3>3, <3>4
  <2>12. CASE Conclude(j)
    <3>1. /\ t.at = "done" /\ Left(j, t.texts)
          /\ IsLoading(t) => cx'.stack = SubSeq(stack, 1, Len(stack) - 1)
          /\ ~IsLoading(t) => cx'.stack = stack
      BY <2>12, ConcludeIs DEF t, stack
    <3>2. t.texts \in Texts
      BY <3>1 DEF Left
    <3> QED
      BY <2>3, <2>4, <2>6, <3>1, <3>2
  <2> QED
    BY <1>13, <2>7, <2>8, <2>9, <2>10, <2>11, <2>12 DEF Moves
<1>14. CASE UNCHANGED vars
  BY <1>2, <1>14 DEF vars, dbVars
<1> QED
  BY <1>7, <1>8, <1>9, <1>10, <1>11, <1>12, <1>13, <1>14, StepIs

-----------------------------------------------------------------------------
(***************************************************************************)
(* Freshness, of the inputs, files and prelude of any moment.              *)
(***************************************************************************)
SeenIn(ins, t) == \A s \in t.texts : s[2] = ins[s[1]].text

TargetIn(ins, fs, p, h) ==
  IF ins[h].id \in BuildFiles THEN IF p THEN fs[Prelude] ELSE 0
  ELSE IF ins[h].loads \in FileIds THEN fs[ins[h].loads] ELSE 0

LedIn(ins, fs, p, t) ==
  /\ t.via > 0 => t.via = TargetIn(ins, fs, p, t.of)
  /\ t.via = 0 => ins[t.of].id \in BuildFiles \/ ins[t.of].loads = None
  /\ t.via >= Circle

\* What was fresh stays so in a step that changes no text and no active File.
LEMMA FreshStays ==
  ASSUME IInv, [Next]_vars, FilesStay, NEW t, Here(DOMAIN inputs, t)
  PROVE  /\ SeenIn(inputs, t) => SeenIn(inputs', t)
         /\ LedIn(inputs, files, prelude, t) => LedIn(inputs', files', prelude', t)
<1>1. /\ \A h \in DOMAIN inputs : inputs'[h] = inputs[h]
      /\ \A f \in FileIds : files[f] # 0 => files'[f] = files[f]
  BY DEF FilesStay
<1>2. t.of \in DOMAIN inputs /\ \A s \in t.texts : s[1] \in DOMAIN inputs
  BY DEF Here
<1>3. SeenIn(inputs, t) => SeenIn(inputs', t)
  BY <1>1, <1>2 DEF SeenIn
<1>4. prelude => prelude' /\ Prelude \in FileIds
  BY PreludeStays DEF IInv, MainShape
<1>5. inputs'[t.of] = inputs[t.of]
  BY <1>1, <1>2
<1>7. TargetIn(inputs, files, prelude, t.of) # 0
        => TargetIn(inputs', files', prelude', t.of) = TargetIn(inputs, files, prelude, t.of)
  BY <1>1, <1>4, <1>5 DEF TargetIn
<1>8. LedIn(inputs, files, prelude, t) => LedIn(inputs', files', prelude', t)
  BY <1>5, <1>7 DEF LedIn
<1> QED
  BY <1>3, <1>8

\* Everything is fresh still.
LEMMA FreshKept ==
  ASSUME IInv, [Next]_vars
  PROVE  EverythingIsFresh'
<1> DEFINE Seen0(t) == SeenIn(inputs, t)
           Seen1(t) == SeenIn(inputs', t)
           Led0(t)  == LedIn(inputs, files, prelude, t)
           Led1(t)  == LedIn(inputs', files', prelude', t)
           Call0(t) == Seen0(t) /\ (t.at \in {"callee", "done"} => Led0(t))
           Call1(t) == Seen1(t) /\ (t.at \in {"callee", "done"} => Led1(t))
<1>1. SUFFICES ASSUME main' # "drop guard"
               PROVE  /\ \A e \in cx'.types : Seen1(e) /\ Led1(e)
                      /\ \A k \in Jobs : \A t \in Elements(jobs'[k].calls) : Call1(t)
  BY DEF EverythingIsFresh, Seen, Led, Target, SeenIn, LedIn, TargetIn, IdOf
<1>2. main # "drop guard" =>
        /\ \A e \in cx.types : Seen0(e) /\ Led0(e)
        /\ \A k \in Jobs : \A t \in Elements(jobs[k].calls) : Call0(t)
  BY DEF IInv, EverythingIsFresh, Seen, Led, Target, SeenIn, LedIn, TargetIn, IdOf
<1>3. CASE DropGuard
  <2>1. cx'.types = {} /\ owner = None /\ jobs' = jobs
    BY <1>3 DEF DropGuard, Reset, EmptyContext
  <2>2. \A k \in Jobs : jobs[k].calls = <<>>
    BY <2>1, LoadsAssumption DEF IInv, JobShape
  <2>3. Elements(<<>>) = {}
    BY DEF Elements
  <2> QED
    BY <2>1, <2>2, <2>3
<1>4. CASE ~DropGuard
  <2>1. main # "drop guard" /\ FilesStay
    <3>1. CASE UNCHANGED vars
      BY <1>1, <3>1, SameFiles DEF vars, dbVars
    <3>2. CASE (\E f \in FileIds : DidOpen(f) \/ DidChange(f)) \/ ForceAnalysis
      BY <3>2, BeginIs, SameFiles
    <3>3. CASE SetPrelude
      BY <3>3, SameFiles DEF SetPrelude
    <3>4. ~(CreateFile \/ UpdateFile \/ NoFiles)
      BY <1>1 DEF CreateFile, UpdateFile, NoFiles
    <3>5. ASSUME NEW j \in Jobs, \/ \E f \in FileIds : Query(j, f)
                                 \/ GetFile(j) \/ Lock(j) \/ Collect(j) \/ GivesUp(j) \/ Deliver(j)
          PROVE  main # "drop guard" /\ FilesStay
      <4>1. JobOnly(j)
        BY <3>5, QueryIs, GetFileIs, LockIs, CollectIs, GivesUpIs, DeliverIs
      <4> QED
        BY <1>1, <4>1, SameFiles DEF JobOnly
    <3>6. ASSUME NEW j \in Jobs, Moves(j) PROVE main # "drop guard" /\ FilesStay
      BY <1>1, <3>6, MovedFiles, MovedJobs
    <3> QED
      BY <1>4, <3>1, <3>2, <3>3, <3>4, <3>5, <3>6, StepIs
  <2>2. /\ \A e \in cx.types : Here(DOMAIN inputs, e) /\ Seen0(e) /\ Led0(e)
        /\ \A k \in Jobs : \A t \in Elements(jobs[k].calls) : Here(DOMAIN inputs, t) /\ Call0(t)
    <3>1. /\ \A e \in cx.types : Here(DOMAIN inputs, e)
          /\ \A k \in Jobs : \A t \in Elements(jobs[k].calls) : Here(DOMAIN inputs, t)
      BY DEF IInv, HandlesExist, Here
    <3> QED
      BY <1>2, <2>1, <3>1
  <2>3. \A t : Here(DOMAIN inputs, t) => (Seen0(t) => Seen1(t)) /\ (Led0(t) => Led1(t))
    BY <2>1, FreshStays
  <2>4. /\ \A e \in cx.types : Seen1(e) /\ Led1(e)
        /\ \A k \in Jobs : \A t \in Elements(jobs[k].calls) : Call1(t)
    BY <2>2, <2>3
  <2>5. \A h \in Nat : Call1(Frame(h))
    BY FrameIs DEF SeenIn
  <2>6. CASE ~\E j \in Jobs : Moves(j)
    <3>1. Elements(<<>>) = {} /\ \A t : Elements(<<t>>) = {t}
      BY DEF Elements
    <3>2. /\ cx' = cx
          /\ \A k \in Jobs : \/ jobs'[k].calls \in {jobs[k].calls, <<>>}
                             \/ jobs[k].of \in Nat /\ jobs'[k].calls = <<Frame(jobs[k].of)>>
      BY <1>4, <2>6, QuietContext
    <3>3. \A e \in cx'.types : Seen1(e) /\ Led1(e)
      BY <2>4, <3>2
    <3> HIDE DEF Call1
    <3>4. ASSUME NEW k \in Jobs, NEW t \in Elements(jobs'[k].calls) PROVE Call1(t)
      <4>1. CASE jobs'[k].calls = jobs[k].calls
        BY <2>4, <3>4, <4>1
      <4>2. CASE jobs'[k].calls = <<>>
        BY <3>1, <3>4, <4>2
      <4>3. CASE jobs[k].of \in Nat /\ jobs'[k].calls = <<Frame(jobs[k].of)>>
        <5>1. t = Frame(jobs[k].of)
          BY <3>1, <3>4, <4>3
        <5> QED
          BY <2>5, <4>3, <5>1
      <4> QED
        BY <3>2, <4>1, <4>2, <4>3
    <3> QED
      BY <3>3, <3>4
  <2>7. ASSUME NEW j \in Jobs, Moves(j)
        PROVE  /\ \A e \in cx'.types : Seen1(e) /\ Led1(e)
               /\ \A k \in Jobs : \A t \in Elements(jobs'[k].calls) : Call1(t)
    <3> DEFINE t == Top(j)
               new == Elements(jobs'[j].calls)
               calls == jobs[j].calls
    <3>1. /\ Infers(j) /\ t \in Call /\ t \in Elements(calls)
          /\ t.of \in DOMAIN inputs /\ t.of \in Nat /\ IdOf(t.of) \in FileIds
      BY <2>7, MoveIs, TopFacts
    <3>2. Call1(t) /\ \A c \in Elements(calls) : Call1(c)
      BY <2>4, <3>1
    <3>3. \A k \in Jobs : k # j => jobs'[k].calls = jobs[k].calls
      BY <2>7, MovedJobs
    <3>4. /\ t.at \in {"expr", "name"} => t.via = 0
          /\ inputs'[t.of].id = IdOf(t.of) /\ inputs'[t.of] = inputs[t.of]
      BY <2>1, <2>7, <3>1, TopLoads DEF FilesStay
    <3>5. SUFFICES /\ \A e \in cx'.types : Seen1(e) /\ Led1(e)
                   /\ \A c \in new : Call1(c)
      <4> HIDE DEF Call1
      <4> QED
        BY <2>4, <3>3, <3>5
    <3> HIDE DEF t, new, calls
    <3>6. ASSUME NEW u \in Call, Advanced(j, u), Call1(u) PROVE \A c \in new : Call1(c)
      <4> HIDE DEF Call1
      <4> QED
        BY <3>1, <3>2, <3>6, MovedCalls DEF new, calls
    <3>7. ASSUME NEW u \in Call, NEW h \in Nat, Descended(j, u, h), Call1(u)
          PROVE  \A c \in new : Call1(c)
      <4> HIDE DEF Call1
      <4>1. new \subseteq Elements(calls) \cup {u, Frame(h)}
        BY <3>1, <3>7, MovedCalls DEF new, calls
      <4> QED
        BY <2>5, <3>2, <3>7, <4>1
    <3>8. ASSUME NEW texts \in Texts, Left(j, texts), \A s \in texts : s[2] = inputs'[s[1]].text
          PROVE  \A c \in new : Call1(c)
      <4> SUFFICES ASSUME NEW v \in new PROVE Call1(v)
        OBVIOUS
      <4>1. \/ v \in Elements(calls)
            \/ \E c \in Elements(calls) :
                 /\ c.at = "callee" /\ v.of = c.of /\ v.via = c.via
                 /\ v.at = "done" /\ v.texts = c.texts \cup texts
        BY <3>1, <3>8, MovedCalls DEF new, calls
      <4>2. ASSUME NEW c \in Elements(calls), c.at = "callee", v.of = c.of, v.via = c.via,
                   v.at = "done", v.texts = c.texts \cup texts
            PROVE  Call1(v)
        <5>1. Seen1(c) /\ Led1(c)
          BY <3>2, <4>2
        <5>2. Seen1(v)
          BY <3>8, <4>2, <5>1 DEF SeenIn
        <5>3. Led1(v)
          BY <4>2, <5>1 DEF LedIn
        <5> QED
          BY <5>2, <5>3
      <4> HIDE DEF Call1
      <4> QED
        BY <3>2, <4>1, <4>2
    <3>9. CASE UseCached(j)
      <4>1. PICK e \in cx.types : Left(j, e.texts)
        BY <3>9, UseCachedIs
      <4>2. cx' = cx /\ e.texts \in Texts /\ \A s \in e.texts : s[2] = inputs'[s[1]].text
        BY <2>4, <3>9, <4>1, UseCachedIs DEF SeenIn, Left
      <4> QED
        BY <2>4, <3>8, <4>1, <4>2
    <3>10. CASE InferExpr(j)
      <4>1. PICK u \in Call : Advanced(j, u) /\ u.at = "name"
                              /\ u.texts = {<<t.of, inputs[t.of].text>>}
        BY <3>10, InferExprIs DEF t
      <4>2. Call1(u)
        BY <3>4, <4>1 DEF SeenIn
      <4>3. cx'.types = cx.types
        BY <3>10, InferExprIs
      <4> QED
        BY <2>4, <3>6, <4>1, <4>2, <4>3
    <3>11. CASE OwnName(j)
      <4>1. PICK u \in Call : /\ Advanced(j, u) /\ u.at = "done" /\ u.via = t.via
                              /\ u.texts = t.texts
        BY <3>11, OwnNameIs DEF t
      <4>2. t.at = "name" /\ inputs[t.of].loads = None /\ cx' = cx
        BY <3>11, OwnNameIs DEF t
      <4>3. u.of = t.of /\ u.via = 0
        BY <3>4, <4>1, <4>2 DEF Advanced, t
      <4>4. Seen1(u)
        BY <3>2, <4>1 DEF SeenIn
      <4>5. Led1(u)
        BY <3>4, <4>2, <4>3 DEF LedIn, Circle
      <4> QED
        BY <2>4, <3>6, <4>1, <4>2, <4>4, <4>5
    <3>12. CASE NameInPrelude(j)
      <4> DEFINE h == PreludeFile(j)
      <4>1. /\ IdOf(t.of) \in BuildFiles /\ cx'.types = cx.types
            /\ \/ \E u \in Call : Advanced(j, u) /\ u.via = 0 /\ u.texts = t.texts
               \/ h # 0 /\ \E u \in Call : Descended(j, u, h)
        BY <3>12, NameInPreludeIs DEF t
      <4>2. h \in Nat /\ (h # 0 => prelude /\ Prelude \in FileIds /\ h = files[Prelude])
        BY PreludeIs
      <4>3. h # 0 => prelude' /\ h = files'[Prelude]
        BY <2>1, <4>2, PreludeStays DEF FilesStay
      <4> HIDE DEF h
      <4>4. ASSUME NEW u \in Call, u.of = t.of, u.texts = t.texts,
                   u.via = 0 \/ (h # 0 /\ u.via = h)
            PROVE  Call1(u)
        <5>1. Seen1(u)
          BY <3>2, <4>4 DEF SeenIn
        <5>2. u.via > 0 => u.via = TargetIn(inputs', files', prelude', u.of)
          BY <3>4, <4>1, <4>2, <4>3, <4>4 DEF TargetIn
        <5>3. u.via >= Circle
          BY <4>2, <4>4 DEF Circle
        <5>4. Led1(u)
          BY <3>4, <4>1, <4>4, <5>2, <5>3 DEF LedIn
        <5> QED
          BY <5>1, <5>4
      <4>5. ASSUME NEW u \in Call, Advanced(j, u), u.via = 0, u.texts = t.texts
            PROVE  \A c \in new : Call1(c)
        <5>1. u.of = t.of
          BY <4>5 DEF Advanced, t
        <5> QED
          BY <3>6, <4>4, <4>5, <5>1
      <4>6. ASSUME NEW u \in Call, Descended(j, u, h), h # 0
            PROVE  \A c \in new : Call1(c)
        <5>1. u.of = t.of /\ u.via = h /\ u.texts = t.texts
          BY <4>6 DEF Descended, t
        <5> QED
          BY <3>7, <4>2, <4>4, <4>6, <5>1
      <4> HIDE DEF Call1
      <4> QED
        BY <2>4, <4>1, <4>5, <4>6
    <3>13. CASE LoadItem(j)
      <4> DEFINE g == inputs[t.of].loads
                 h == LoadedFile(g)
      <4>1. /\ cx'.types = cx.types
            /\ \/ \E u \in Call : Advanced(j, u) /\ u.via = Circle /\ u.texts = t.texts
               \/ \E u \in Call : Descended(j, u, h)
        BY <3>13, LoadItemMoves DEF t
      <4>2. /\ g \in FileIds /\ IdOf(t.of) \notin BuildFiles
            /\ h \in Nat \ {0} /\ files'[g] = h /\ g # None
        BY <3>13, LoadItemIs, LoadedIs, LoadsAssumption DEF t
      <4> HIDE DEF h
      <4>3. ASSUME NEW u \in Call, u.of = t.of, u.texts = t.texts, u.via \in {Circle, h}
            PROVE  Call1(u)
        <5>1. Seen1(u)
          BY <3>2, <4>3 DEF SeenIn
        <5>2. TargetIn(inputs', files', prelude', u.of) = h
          BY <3>4, <4>2, <4>3 DEF TargetIn
        <5>3. Led1(u)
          BY <4>2, <4>3, <5>2 DEF LedIn, Circle
        <5> QED
          BY <5>1, <5>3
      <4>4. ASSUME NEW u \in Call, Advanced(j, u), u.via = Circle, u.texts = t.texts
            PROVE  \A c \in new : Call1(c)
        <5>1. u.of = t.of
          BY <4>4 DEF Advanced, t
        <5> QED
          BY <3>6, <4>3, <4>4, <5>1
      <4>5. ASSUME NEW u \in Call, Descended(j, u, h)
            PROVE  \A c \in new : Call1(c)
        <5>1. u.of = t.of /\ u.via = h /\ u.texts = t.texts
          BY <4>5 DEF Descended, t
        <5> QED
          BY <3>7, <4>2, <4>3, <4>5, <5>1
      <4> HIDE DEF Call1
      <4> QED
        BY <2>4, <4>1, <4>4, <4>5
    <3>14. CASE Conclude(j)
      <4> DEFINE e == [of |-> t.of, texts |-> t.texts, via |-> t.via]
      <4>1. t.at = "done" /\ cx'.types = cx.types \cup {e} /\ Left(j, t.texts)
        BY <3>14, ConcludeIs DEF t
      <4>2. Seen1(t) /\ Led1(t)
        BY <3>2, <4>1
      <4>3. Seen1(e) /\ Led1(e)
        BY <4>2 DEF SeenIn, LedIn
      <4>4. t.texts \in Texts /\ \A s \in t.texts : s[2] = inputs'[s[1]].text
        BY <4>1, <4>2 DEF SeenIn, Left
      <4> QED
        BY <2>4, <3>8, <4>1, <4>3, <4>4
    <3> HIDE DEF Call1
    <3> QED
      BY <2>7, <3>9, <3>10, <3>11, <3>12, <3>13, <3>14 DEF Moves
  <2> QED
    BY <2>6, <2>7
<1> QED
  BY <1>3, <1>4

-----------------------------------------------------------------------------
(***************************************************************************)
(* What is reported of the expressions.                                    *)
(***************************************************************************)
ReportIn(ins, h)     == [file |-> ins[h].id, text |-> ins[h].text, about |-> "expr"]
ReportedIn(ins, ds, h) == ReportIn(ins, h) \in ds

\* A query whose last call returned was asked of this call's File.
LEMMA LastCall ==
  ASSUME IInv, NEW j \in Jobs, Infers(j)
  PROVE  /\ \A u \in Call : Advanced(j, u) => jobs'[j].calls # <<>>
         /\ \A u \in Call : \A h \in Nat : Descended(j, u, h) => jobs'[j].calls # <<>>
         /\ \A texts \in Texts :
              Left(j, texts) /\ jobs'[j].calls = <<>> => jobs[j].of = Top(j).of
<1> DEFINE calls == jobs[j].calls
<1>1. calls \in Seq(Call) /\ calls # <<>> /\ Len(calls) \in Nat \ {0} /\ Top(j) = calls[Len(calls)]
      /\ calls[1].of = jobs[j].of
  BY TopFacts DEF IInv, JobShape
<1> HIDE DEF calls
<1>2. ASSUME NEW u \in Call
      PROVE  WithTop(calls, u) # <<>> /\ WithTop(calls, u) \in Seq(Call)
  <2> DEFINE w == WithTop(calls, u)
  <2>1. w \in Seq(Call) /\ Len(w) = Len(calls)
    BY <1>1, WithTopIs
  <2> HIDE DEF w
  <2>2. w # <<>>
    BY <1>1, <2>1
  <2> QED
    BY <2>1, <2>2 DEF w
<1>3. ASSUME NEW u \in Call, NEW h \in Nat PROVE Append(WithTop(calls, u), Frame(h)) # <<>>
  <2> DEFINE w == WithTop(calls, u)
  <2>1. w \in Seq(Call) /\ Frame(h) \in Call
    BY <1>2, FrameIs
  <2> HIDE DEF w
  <2>2. Append(w, Frame(h)) # <<>>
    <3> DEFINE v == Append(w, Frame(h))
    <3>1. Len(w) \in Nat /\ Len(v) = Len(w) + 1
      BY <2>1, PushIs
    <3> HIDE DEF v
    <3>2. Len(v) # 0 /\ Len(<<>>) = 0
      BY <3>1
    <3>3. v # <<>>
      BY <3>2
    <3> QED
      BY <3>3 DEF v
  <2> QED
    BY <2>2 DEF w
<1>4. ASSUME NEW texts \in Texts, Returned(calls, texts) = <<>> PROVE Len(calls) = 1
  <2>1. Len(Returned(calls, texts)) = Len(calls) - 1
    BY <1>1, ReturnedIs
  <2>2. Len(calls) - 1 = 0
    BY <1>4, <2>1, EmptySeq
  <2> QED
    BY <1>1, <2>2
<1> QED
  BY <1>1, <1>2, <1>3, <1>4 DEF Advanced, Descended, Left, calls

\* A step that resets nothing keeps what was reported.
LEMMA ReportsStay ==
  ASSUME IInv, [Next]_vars, ~Updated', ~DropGuard
  PROVE  ~Updated /\ \A h \in DOMAIN inputs : inputs'[h] = inputs[h]
<1>1. CASE UNCHANGED vars
  BY <1>1 DEF vars, dbVars, Updated
<1>2. CASE (\E f \in FileIds : DidOpen(f) \/ DidChange(f)) \/ ForceAnalysis
  BY <1>2, BeginIs
<1>3. CASE CreateFile
  BY <1>3, CreatedFiles DEF CreateFile, Updated
<1>4. CASE NoFiles \/ SetPrelude
  BY <1>4 DEF NoFiles, SetPrelude, dbVars, Updated
<1>5. ~UpdateFile
  BY DEF UpdateFile, WriteWaits, Updated
<1>6. ASSUME NEW j \in Jobs, \/ \E f \in FileIds : Query(j, f)
                             \/ GetFile(j) \/ Lock(j) \/ Collect(j) \/ GivesUp(j) \/ Deliver(j)
      PROVE  ~Updated /\ \A h \in DOMAIN inputs : inputs'[h] = inputs[h]
  <2>1. JobOnly(j)
    BY <1>6, QueryIs, GetFileIs, LockIs, CollectIs, GivesUpIs, DeliverIs
  <2> QED
    BY <2>1 DEF JobOnly, Updated
<1>7. ASSUME NEW j \in Jobs, Moves(j)
      PROVE  ~Updated /\ \A h \in DOMAIN inputs : inputs'[h] = inputs[h]
  BY <1>7, MovedFiles, MovedJobs DEF FilesStay, Updated
<1> QED
  BY <1>1, <1>2, <1>3, <1>4, <1>5, <1>6, <1>7, StepIs

\* The diagnostics are kept those of the expressions that are inferred.
LEMMA DiagnosticsKept ==
  ASSUME IInv, [Next]_vars
  PROVE  DiagnosticsShape'
<1> DEFINE D == DOMAIN inputs
           Rep0(h) == ReportedIn(inputs, cx.diagnostics, h)
           Rep1(h) == ReportedIn(inputs', cx'.diagnostics, h)
           Call0(t) == t.at # "expr" => Rep0(t.of)
           Call1(t) == t.at # "expr" => Rep1(t.of)
           Texts1 == \A d \in cx'.diagnostics :
                       d.about = "expr" => \E h \in DOMAIN inputs' : d = ReportIn(inputs', h)
           Job1(k) == /\ \A t \in Elements(jobs'[k].calls) : Call1(t)
                      /\ jobs'[k].phase = "infer" /\ jobs'[k].calls = <<>> => Rep1(jobs'[k].of)
<1>1. SUFFICES ASSUME ~Updated'
               PROVE  /\ Texts1
                      /\ \A e \in cx'.types : Rep1(e.of)
                      /\ \A k \in Jobs : Job1(k)
  BY DEF DiagnosticsShape, Reported, DiagnosticOf, ReportedIn, ReportIn
<1>2. ~Updated =>
        /\ \A d \in cx.diagnostics : d.about = "expr" => \E h \in D : d = ReportIn(inputs, h)
        /\ \A e \in cx.types : Rep0(e.of)
        /\ \A k \in Jobs :
             /\ \A t \in Elements(jobs[k].calls) : Call0(t)
             /\ jobs[k].phase = "infer" /\ jobs[k].calls = <<>> => Rep0(jobs[k].of)
  BY DEF IInv, DiagnosticsShape, Reported, DiagnosticOf, ReportedIn, ReportIn
<1>3. CASE DropGuard
  <2>1. cx'.types = {} /\ cx'.diagnostics = {} /\ owner = None /\ jobs' = jobs
    BY <1>3 DEF DropGuard, Reset, EmptyContext
  <2>2. \A k \in Jobs : jobs[k].calls = <<>> /\ jobs[k].phase # "infer"
    BY <2>1, LoadsAssumption DEF IInv, JobShape
  <2>3. Elements(<<>>) = {}
    BY DEF Elements
  <2> QED
    BY <2>1, <2>2, <2>3
<1>4. CASE ~DropGuard
  <2>1. ~Updated /\ \A h \in D : inputs'[h] = inputs[h]
    BY <1>1, <1>4, ReportsStay
  <2>2. \A h \in D : h \in DOMAIN inputs' /\ ReportIn(inputs', h) = ReportIn(inputs, h)
    BY <2>1, FilesGrowAlways DEF FilesGrow, ReportIn
  <2>3. /\ \A e \in cx.types : e.of \in D
        /\ \A k \in Jobs : \A t \in Elements(jobs[k].calls) : t.of \in D
        /\ \A k \in Jobs : jobs[k].phase = "infer" => jobs[k].of \in D
    BY DEF IInv, HandlesExist, JobShape
  <2>4. ASSUME cx.diagnostics \subseteq cx'.diagnostics
        PROVE  /\ \A h \in D : Rep0(h) => Rep1(h)
               /\ \A e \in cx.types : Rep1(e.of)
               /\ \A k \in Jobs :
                    /\ \A t \in Elements(jobs[k].calls) : Call1(t)
                    /\ jobs[k].phase = "infer" /\ jobs[k].calls = <<>> => Rep1(jobs[k].of)
    <3>1. \A h \in D : Rep0(h) => Rep1(h)
      BY <2>2, <2>4 DEF ReportedIn
    <3> HIDE DEF Rep0, Rep1
    <3> QED
      BY <1>2, <2>1, <2>3, <3>1
  <2>5. ASSUME NEW d \in cx.diagnostics, d.about = "expr"
        PROVE  \E h \in DOMAIN inputs' : d = ReportIn(inputs', h)
    BY <1>2, <2>1, <2>2, <2>5
  <2> HIDE DEF D, Rep0, Rep1
  <2>6. CASE ~\E j \in Jobs : Moves(j)
    <3>1. /\ cx' = cx
          /\ \A k \in Jobs : \/ jobs'[k].calls \in {jobs[k].calls, <<>>}
                             \/ jobs[k].of \in Nat /\ jobs'[k].calls = <<Frame(jobs[k].of)>>
      BY <1>4, <2>6, QuietContext
    <3>2. Texts1 /\ \A e \in cx'.types : Rep1(e.of)
      BY <2>4, <2>5, <3>1
    <3>3. Elements(<<>>) = {} /\ \A t : Elements(<<t>>) = {t}
      BY DEF Elements
    <3>4. ASSUME NEW k \in Jobs, NEW t \in Elements(jobs'[k].calls) PROVE Call1(t)
      <4>1. CASE jobs'[k].calls = jobs[k].calls
        BY <2>4, <3>1, <3>4, <4>1
      <4>2. CASE jobs'[k].calls = <<>>
        BY <3>3, <3>4, <4>2
      <4>3. CASE jobs[k].of \in Nat /\ jobs'[k].calls = <<Frame(jobs[k].of)>>
        <5>1. t = Frame(jobs[k].of)
          BY <3>3, <3>4, <4>3
        <5>2. t.at = "expr"
          BY <4>3, <5>1, FrameIs
        <5> QED
          BY <5>2
      <4> QED
        BY <3>1, <4>1, <4>2, <4>3
    <3>5. ASSUME NEW k \in Jobs, jobs'[k].phase = "infer", jobs'[k].calls = <<>>
          PROVE  Rep1(jobs'[k].of)
      <4>1. ~Lock(k)
        BY <3>5, LockIs
      <4>2. jobs'[k] = jobs[k]
        BY <2>6, <3>5, <4>1, QuietContext
      <4> QED
        BY <2>4, <3>1, <3>5, <4>2
    <3> QED
      BY <3>2, <3>4, <3>5
  <2>7. ASSUME NEW j \in Jobs, Moves(j)
        PROVE  /\ Texts1
               /\ \A e \in cx'.types : Rep1(e.of)
               /\ \A k \in Jobs : Job1(k)
    <3> DEFINE t == Top(j)
               new == Elements(jobs'[j].calls)
               calls == jobs[j].calls
    <3>1. /\ Infers(j) /\ t \in Call /\ t \in Elements(calls) /\ t.of \in D /\ t.of \in Nat
      BY <2>7, MoveIs, TopFacts DEF D
    <3>2. \A k \in Jobs : (k # j => jobs'[k] = jobs[k]) /\ jobs'[k].of = jobs[k].of
      BY <2>7, MovedJobs
    <3>3. cx.diagnostics \subseteq cx'.diagnostics
      BY <2>7, UseCachedIs, InferExprIs, OwnNameIs, NameInPreludeIs, LoadItemMoves, ConcludeIs
         DEF Moves
    <3>4. (\A c \in Elements(calls) : Call1(c)) /\ \A e \in cx.types : Rep1(e.of)
      BY <2>4, <3>3
    <3>5. SUFFICES /\ Texts1
                   /\ \A e \in cx'.types : Rep1(e.of)
                   /\ \A c \in new : Call1(c)
                   /\ jobs'[j].calls = <<>> => Rep1(jobs[j].of)
      BY <2>4, <3>2, <3>3, <3>5
    <3> HIDE DEF t, new, calls
    <3>6. ASSUME NEW u \in Call, Advanced(j, u), Call1(u)
          PROVE  (\A c \in new : Call1(c)) /\ jobs'[j].calls # <<>>
      BY <3>1, <3>4, <3>6, MovedCalls, LastCall DEF new, calls
    <3>7. ASSUME NEW u \in Call, NEW h \in Nat, Descended(j, u, h), t.at # "expr"
          PROVE  (\A c \in new : Call1(c)) /\ jobs'[j].calls # <<>>
      <4>1. new \subseteq Elements(calls) \cup {u, Frame(h)} /\ jobs'[j].calls # <<>>
        BY <3>1, <3>7, MovedCalls, LastCall DEF new, calls
      <4>2. Call1(u)
        BY <3>1, <3>4, <3>7 DEF Descended, t
      <4>3. Call1(Frame(h))
        BY FrameIs
      <4> QED
        BY <3>4, <4>1, <4>2, <4>3
    <3>8. ASSUME NEW texts \in Texts, Left(j, texts), Rep1(t.of)
          PROVE  /\ \A c \in new : Call1(c)
                 /\ jobs'[j].calls = <<>> => Rep1(jobs[j].of)
      <4>1. jobs'[j].calls = <<>> => jobs[j].of = t.of
        BY <3>1, <3>8, LastCall DEF t
      <4>2. ASSUME NEW v \in new PROVE Call1(v)
        <5>1. \/ v \in Elements(calls)
              \/ \E c \in Elements(calls) : c.at = "callee" /\ v.of = c.of
          BY <3>1, <3>8, <4>2, MovedCalls DEF new, calls
        <5> QED
          BY <3>4, <5>1
      <4> QED
        BY <3>8, <4>1, <4>2
    <3>9. ASSUME NEW u \in Call, Advanced(j, u), t.at # "expr" PROVE Call1(u)
      <4>1. u.of = t.of
        BY <3>9 DEF Advanced, t
      <4> QED
        BY <3>1, <3>4, <3>9, <4>1
    <3>10. CASE UseCached(j)
      <4>1. PICK e \in cx.types : e.of = t.of /\ Left(j, e.texts)
        BY <3>10, UseCachedIs DEF t
      <4>2. cx' = cx /\ e.texts \in Texts /\ Rep1(t.of)
        BY <3>4, <3>10, <4>1, UseCachedIs DEF Left
      <4>3. Texts1
        BY <2>5, <4>2
      <4> QED
        BY <3>4, <3>8, <4>1, <4>2, <4>3
    <3>11. CASE InferExpr(j)
      <4>1. /\ cx'.types = cx.types
            /\ cx'.diagnostics = cx.diagnostics \cup {DiagnosticOf(t.of, "expr")}
            /\ \E u \in Call : Advanced(j, u)
        BY <3>11, InferExprIs DEF t
      <4>2. DiagnosticOf(t.of, "expr") = ReportIn(inputs', t.of) /\ t.of \in DOMAIN inputs'
        BY <2>2, <3>1 DEF DiagnosticOf, ReportIn
      <4>3. Rep1(t.of)
        BY <4>1, <4>2 DEF Rep1, ReportedIn
      <4>4. Texts1
        BY <2>5, <4>1, <4>2
      <4>5. \A u \in Call : Advanced(j, u) => Call1(u)
        BY <4>3 DEF Advanced, t
      <4> QED
        BY <3>4, <3>6, <4>1, <4>4, <4>5
    <3>12. CASE OwnName(j)
      <4>1. cx' = cx /\ t.at = "name" /\ \E u \in Call : Advanced(j, u)
        BY <3>12, OwnNameIs DEF t
      <4>2. Texts1
        BY <2>5, <4>1
      <4> QED
        BY <3>4, <3>6, <3>9, <4>1, <4>2
    <3>13. CASE NameInPrelude(j)
      <4> DEFINE h == PreludeFile(j)
      <4>1. /\ cx'.types = cx.types /\ t.at = "name"
            /\ \/ /\ cx'.diagnostics = cx.diagnostics \cup {DiagnosticOf(t.of, "undefined")}
                  /\ \E u \in Call : Advanced(j, u)
               \/ cx' = cx /\ \E u \in Call : Descended(j, u, h)
        BY <3>13, NameInPreludeIs DEF t
      <4>2. DiagnosticOf(t.of, "undefined").about # "expr" /\ h \in Nat
        BY PreludeIs DEF DiagnosticOf
      <4> HIDE DEF h
      <4>3. Texts1
        BY <2>5, <4>1, <4>2
      <4> QED
        BY <3>4, <3>6, <3>7, <3>9, <4>1, <4>2, <4>3
    <3>14. CASE LoadItem(j)
      <4> DEFINE h == LoadedFile(inputs[t.of].loads)
      <4>1. /\ cx'.types = cx.types /\ t.at = "name" /\ h \in Nat
            /\ \/ \E u \in Call : Advanced(j, u)
               \/ \E u \in Call : Descended(j, u, h)
        BY <3>14, LoadItemIs, LoadedIs, LoadItemMoves DEF t
      <4>2. \A d \in cx'.diagnostics : d \in cx.diagnostics \/ d.about = "circle"
        <5>1. \A k : DiagnosticOf(k, "circle").about = "circle"
          BY DEF DiagnosticOf
        <5> QED
          BY <3>14, <5>1, LoadItemMoves
      <4> HIDE DEF h
      <4>3. Texts1
        BY <2>5, <4>2
      <4> QED
        BY <3>4, <3>6, <3>7, <3>9, <4>1, <4>3
    <3>15. CASE Conclude(j)
      <4>1. /\ cx'.types = cx.types \cup {[of |-> t.of, texts |-> t.texts, via |-> t.via]}
            /\ cx'.diagnostics = cx.diagnostics /\ t.at = "done" /\ Left(j, t.texts)
        BY <3>15, ConcludeIs DEF t
      <4>2. Rep1(t.of) /\ t.texts \in Texts
        BY <3>1, <3>4, <4>1 DEF Left
      <4>3. Texts1
        BY <2>5, <4>1
      <4>4. \A e \in cx'.types : Rep1(e.of)
        BY <3>4, <4>1, <4>2
      <4> QED
        BY <3>8, <4>1, <4>2, <4>3, <4>4
    <3> QED
      BY <2>7, <3>10, <3>11, <3>12, <3>13, <3>14, <3>15 DEF Moves
  <2> QED
    BY <2>6, <2>7
<1> QED
  BY <1>3, <1>4

-----------------------------------------------------------------------------
(***************************************************************************)
(* Circular imports.                                                       *)
(***************************************************************************)

\* The text of a diagnostic is of a File that never ends.
LeadsIn(ins, d) ==
  \E h \in DOMAIN ins : ins[h].id = d.file /\ ins[h].text = d.text /\ NeverEndsIn(ins, h)

RealIn(ins, ds) == \A d \in ds : d.about = "circle" => LeadsIn(ins, d)

CirclesIn ==
  /\ ReportedCirclesAreReal <=> (~Updated => RealIn(inputs, cx.diagnostics))
  /\ CirclesAreReal <=> \A k \in Jobs : RealIn(inputs, jobs[k].result)

LEMMA CirclesInIs == CirclesIn
<1>1. \A h : NeverEnds(h) <=> NeverEndsIn(inputs, h)
  BY StackIsThat
<1>2. \A d : LeadsToCircle(d) <=> LeadsIn(inputs, d)
  BY <1>1 DEF LeadsToCircle, LeadsIn, IdOf
<1> QED
  BY <1>2 DEF CirclesIn, RealIn, ReportedCirclesAreReal, CirclesAreReal

\* What is real stays so unless a text changes.
LEMMA RealStays ==
  ASSUME IInv, [Next]_vars, ~UpdateFile, NEW ds, RealIn(inputs, ds)
  PROVE  RealIn(inputs', ds)
<1>1. GoOn(inputs, inputs') /\ \A h \in DOMAIN inputs : h \in DOMAIN inputs' /\ inputs'[h] = inputs[h]
  BY FilesKeepTexts, GoOnIs
<1> QED
  BY <1>1 DEF RealIn, LeadsIn, GoOn

\* A circle that a load finds is one.
LEMMA CircleIsReal ==
  ASSUME IInv, NEW j \in Jobs, LoadItem(j), IsCircle(j, LoadedFile(inputs[Top(j).of].loads)),
         NEW k \in {Top(j).of} \cup Elements(cx.stack)
  PROVE  NeverEndsIn(inputs, k) /\ k \in DOMAIN inputs
<1> DEFINE f == Top(j).of
           g == inputs[f].loads
           h == LoadedFile(g)
           calls == jobs[j].calls
           n == Len(calls)
<1>1. /\ Infers(j) /\ Top(j).at = "name" /\ f \in DOMAIN inputs
      /\ g \in FileIds /\ LoadFile(g) /\ Needs(f) = g
  BY LoadItemIs
<1>2. h \in DOMAIN inputs => IdOf(h) = g
  BY <1>1, LoadedIs, FileFacts
<1>3. Elements(cx.stack) \subseteq DOMAIN inputs
  BY DEF IInv, HandlesExist
<1>4. /\ calls \in Seq(Call) /\ n \in Nat \ {0} /\ DOMAIN calls = 1..n /\ Top(j) = calls[n]
  BY <1>1, TopFacts, LenProperties
<1>5. \A i \in 1..n : calls[i].of \in DOMAIN inputs
  BY <1>4 DEF IInv, HandlesExist, Elements
<1>6. ShapeOf(inputs, calls)
  BY DEF IInv, CallShape, ShapeOf, Needs, NeedsIn, IdOf
<1>7. \A c \in Elements(cx.stack) : NeverEndsIn(inputs, c) \/ \E i \in 1..n : calls[i].of = c
  <2>1. StackOf(inputs, cx.stack, calls)
    BY <1>1, StackOfBegun
  <2> QED
    BY <1>4, <2>1 DEF StackOf, Elements
<1>8. f = calls[n].of /\ n \in 1..n
  BY <1>4
<1>9. h \in DOMAIN inputs /\ (NeverEndsIn(inputs, h) \/ \E i \in 1..n : calls[i].of = h)
  <2> HIDE DEF h, g, n, calls
  <2>1. h = f \/ h \in Elements(cx.stack)
    BY DEF IsCircle, h, g
  <2> QED
    BY <1>1, <1>3, <1>7, <1>8, <2>1
<1>10. inputs[h].id = NeedsIn(inputs, calls[n].of)
  BY <1>1, <1>2, <1>8, <1>9 DEF Needs, NeedsIn, IdOf
<1> HIDE DEF h, g, n, calls
<1>11. \A i \in 1..n : NeverEndsIn(inputs, calls[i].of)
  BY <1>4, <1>5, <1>6, <1>9, <1>10, CallsNeverEnd DEF n
<1> QED
  BY <1>1, <1>3, <1>7, <1>8, <1>11

\* What has been updated is so until the reset.
LEMMA UpdatedStays ==
  ASSUME IInv, Next, ~DropGuard, Updated
  PROVE  Updated'
<1>1. main = "drop guard" /\ \A k \in Jobs : jobs[k].phase = "free"
  BY DEF Updated, IInv, JobShape, HoldsSnapshot
<1>2. ~((\E f \in FileIds : DidOpen(f) \/ DidChange(f)) \/ ForceAnalysis)
  BY <1>1, BeginIs
<1>3. ~(CreateFile \/ UpdateFile \/ NoFiles \/ SetPrelude)
  BY <1>1 DEF CreateFile, UpdateFile, WriteWaits, NoFiles, SetPrelude
<1>4. ASSUME NEW j \in Jobs PROVE ~Moves(j)
  BY <1>1, MoveIs, TopFacts
<1>5. ASSUME NEW j \in Jobs, \/ \E f \in FileIds : Query(j, f)
                             \/ GetFile(j) \/ Lock(j) \/ Collect(j) \/ GivesUp(j) \/ Deliver(j)
      PROVE  UNCHANGED <<main, change>>
  BY <1>5, QueryIs, GetFileIs, LockIs, CollectIs, GivesUpIs, DeliverIs DEF JobOnly
<1> QED
  BY <1>2, <1>3, <1>4, <1>5, StepIs DEF Updated

\* The circles in the context stay real.
LEMMA CirclesKept ==
  ASSUME IInv, [Next]_vars
  PROVE  ReportedCirclesAreReal'
<1>1. ~Updated => RealIn(inputs, cx.diagnostics)
  BY CirclesInIs DEF IInv, CirclesIn
<1>2. SUFFICES ASSUME ~Updated' PROVE RealIn(inputs', cx'.diagnostics)
  <2>1. CirclesIn'
    BY CirclesInIs, PTL
  <2> QED
    BY <2>1 DEF CirclesIn
<1>3. ~UpdateFile
  BY <1>2 DEF UpdateFile, Updated, WriteWaits
<1>4. CASE ~\E j \in Jobs : Moves(j)
  <2>1. CASE DropGuard
    <3>1. cx'.diagnostics = {}
      BY <2>1 DEF DropGuard, Reset, EmptyContext
    <3> QED
      BY <3>1 DEF RealIn
  <2>2. CASE ~DropGuard
    <3>1. cx' = cx
      BY <1>4, <2>2, QuietContext
    <3>2. ~Updated
      <4>1. CASE UNCHANGED vars
        BY <1>2, <4>1 DEF vars, Updated
      <4>2. CASE Next
        BY <1>2, <2>2, <4>2, UpdatedStays
      <4> QED
        BY <4>1, <4>2
    <3> QED
      BY <1>1, <1>3, <3>1, <3>2, RealStays
  <2> QED
    BY <2>1, <2>2
<1>5. ASSUME NEW j \in Jobs, Moves(j) PROVE RealIn(inputs', cx'.diagnostics)
  <2>1. ~Updated /\ Infers(j)
    BY <1>5, MoveIs, TopFacts
  <2>2. RealIn(inputs', cx.diagnostics)
    BY <1>1, <1>3, <2>1, RealStays
  <2>3. CASE ~LoadItem(j)
    <3>1. \A about : \A h : DiagnosticOf(h, about).about = about
      BY DEF DiagnosticOf
    <3>2. \A d \in cx'.diagnostics : d \in cx.diagnostics \/ d.about \in {"expr", "undefined"}
      <4>1. CASE UseCached(j)
        BY <4>1, UseCachedIs
      <4>2. CASE InferExpr(j)
        BY <3>1, <4>2, InferExprIs
      <4>3. CASE OwnName(j)
        BY <4>3, OwnNameIs
      <4>4. CASE NameInPrelude(j)
        BY <3>1, <4>4, NameInPreludeIs
      <4>5. CASE Conclude(j)
        BY <4>5, ConcludeIs
      <4> QED
        BY <1>5, <2>3, <4>1, <4>2, <4>3, <4>4, <4>5 DEF Moves
    <3> QED
      BY <2>2, <3>2 DEF RealIn
  <2>4. CASE LoadItem(j)
    <3> DEFINE f == Top(j).of
               h == LoadedFile(inputs[f].loads)
               K == {f} \cup (IF h = f THEN {} ELSE Elements(cx.stack))
    <3>1. \/ /\ IsCircle(j, h)
             /\ cx'.diagnostics = cx.diagnostics \cup {DiagnosticOf(k, "circle") : k \in K}
          \/ cx'.diagnostics = cx.diagnostics
      BY <2>4, LoadItemMoves
    <3>2. ASSUME IsCircle(j, h), NEW k \in K PROVE LeadsIn(inputs', DiagnosticOf(k, "circle"))
      <4>1. k \in {f} \cup Elements(cx.stack)
        OBVIOUS
      <4>2. NeverEndsIn(inputs, k) /\ k \in DOMAIN inputs
        BY <2>4, <3>2, <4>1, CircleIsReal
      <4>3. /\ GoOn(inputs, inputs')
            /\ \A c \in DOMAIN inputs : c \in DOMAIN inputs' /\ inputs'[c] = inputs[c]
        BY <1>3, FilesKeepTexts, GoOnIs
      <4> HIDE DEF K
      <4> QED
        BY <4>2, <4>3 DEF LeadsIn, GoOn, DiagnosticOf
    <3> HIDE DEF K, h
    <3> QED
      BY <2>2, <3>1, <3>2 DEF RealIn
  <2> QED
    BY <2>3, <2>4
<1> QED
  BY <1>4, <1>5

\* So do those that a query has collected.
LEMMA CollectedCirclesKept ==
  ASSUME IInv, [Next]_vars
  PROVE  CirclesAreReal'
<1>1. \A k \in Jobs : RealIn(inputs, jobs[k].result)
  BY CirclesInIs DEF IInv, CirclesIn
<1>2. SUFFICES \A k \in Jobs : RealIn(inputs', jobs'[k].result)
  <2>1. CirclesIn'
    BY CirclesInIs, PTL
  <2> QED
    BY <2>1 DEF CirclesIn
<1>3. CASE UNCHANGED jobs /\ ~UpdateFile
  BY <1>1, <1>3, RealStays
<1>4. CASE UpdateFile
  <2>1. \A k \in Jobs : jobs'[k].result = {}
    BY <1>4, FilesKeepTexts DEF UpdateFile, IInv, JobShape
  <2> QED
    BY <2>1 DEF RealIn
<1>5. CASE ~UpdateFile
  <2>1. \A k \in Jobs : RealIn(inputs', jobs[k].result)
    BY <1>1, <1>5, RealStays
  <2>2. CASE \/ \E f \in FileIds : DidOpen(f) \/ DidChange(f)
             \/ ForceAnalysis \/ CreateFile \/ UpdateFile \/ NoFiles \/ SetPrelude
    BY <1>3, <1>5, <2>2, MainIs
  <2>3. CASE DropGuard \/ UNCHANGED vars
    BY <1>3, <1>5, <2>3 DEF DropGuard, vars
  <2>4. ASSUME NEW j \in Jobs, Moves(j) PROVE \A k \in Jobs : RealIn(inputs', jobs'[k].result)
    BY <2>1, <2>4, MovedJobs
  <2>5. ASSUME NEW j \in Jobs, \/ \E f \in FileIds : Query(j, f)
                               \/ GetFile(j) \/ Lock(j) \/ GivesUp(j) \/ Deliver(j)
        PROVE  \A k \in Jobs : RealIn(inputs', jobs'[k].result)
    <3>1. JobOnly(j) /\ jobs'[j].result \in {jobs[j].result, {}}
      BY <2>5, QueryIs, GetFileIs, LockIs, GivesUpIs, DeliverIs, FreeIs DEF Kept
    <3>2. RealIn(inputs', {})
      BY DEF RealIn
    <3> QED
      BY <2>1, <3>1, <3>2 DEF JobOnly
  <2>6. ASSUME NEW j \in Jobs, Collect(j) PROVE \A k \in Jobs : RealIn(inputs', jobs'[k].result)
    <3>1. JobOnly(j) /\ jobs'[j].result \subseteq cx.diagnostics /\ jobs[j].phase = "infer"
      BY <2>6, CollectIs
    <3>2. ~Updated
      BY <3>1 DEF IInv, JobShape, HoldsSnapshot
    <3>3. RealIn(inputs', cx.diagnostics)
      BY <1>5, <3>2, CirclesInIs, RealStays DEF IInv, CirclesIn
    <3>4. RealIn(inputs', jobs'[j].result)
      BY <3>1, <3>3 DEF RealIn
    <3> QED
      BY <2>1, <3>1, <3>4 DEF JobOnly
  <2> QED
    BY <2>2, <2>3, <2>4, <2>5, <2>6, StepIs
<1> QED
  BY <1>4, <1>5

-----------------------------------------------------------------------------
\* The invariant holds to begin with.
LEMMA InvInit == Init => IInv
<1> SUFFICES ASSUME Init PROVE IInv
  OBVIOUS
<1>1. /\ main = "idle" /\ change = NoChange /\ documents = {} /\ inputs = <<>>
      /\ files = [f \in FileIds |-> 0] /\ prelude = FALSE /\ cancelled = FALSE /\ owner = None
      /\ cx = EmptyContext /\ jobs = [j \in Jobs |-> FreeJob] /\ changes = 0
  BY DEF Init
<1>2. \A k \in Jobs : /\ jobs[k].phase = "free" /\ jobs[k].calls = <<>> /\ ~jobs[k].prelude
                      /\ jobs[k].result = {}
  BY <1>1, FreeIs
<1>3. cx.types = {} /\ cx.stack = <<>> /\ cx.diagnostics = {} /\ Elements(<<>>) = {}
  BY <1>1 DEF EmptyContext, Elements
<1>4. TypeOK
  <2>1. <<>> \in Seq(Nat) /\ <<>> \in Seq(Input)
    OBVIOUS
  <2> QED
    BY <1>1, <2>1, FreeIs DEF TypeOK, EmptyContext, Change
<1>5. NoChange.kind = "none"
  BY DEF NoChange
<1>6. MainShape
  BY <1>1, <1>5 DEF MainShape
<1>7. JobShape
  <2>1. None \notin Jobs
    BY LoadsAssumption
  <2> QED
    BY <1>1, <1>2, <2>1 DEF JobShape, HoldsSnapshot
<1>8. HandlesExist
  BY <1>1, <1>2, <1>3 DEF HandlesExist
<1>9. CallShape
  BY <1>2 DEF CallShape
<1>10. EverythingIsFresh
  BY <1>2, <1>3 DEF EverythingIsFresh
<1>11. DiagnosticsShape
  BY <1>2, <1>3 DEF DiagnosticsShape
<1>12. StackShape
  BY <1>2, <1>3 DEF StackShape
<1>13. ReportedCirclesAreReal /\ CirclesAreReal
  BY <1>2, <1>3 DEF ReportedCirclesAreReal, CirclesAreReal
<1> QED
  BY <1>4, <1>6, <1>7, <1>8, <1>9, <1>10, <1>11, <1>12, <1>13 DEF IInv

\* And every step keeps it.
LEMMA InvNext == IInv /\ [Next]_vars => IInv'
<1> SUFFICES ASSUME IInv, [Next]_vars PROVE IInv'
  OBVIOUS
<1>1. TypeOK' /\ MainShape' /\ JobShape' /\ HandlesExist' /\ CallShape'
  BY TypeKept, MainKept, JobsKept, HandlesKept, CallsKept
<1>2. EverythingIsFresh' /\ DiagnosticsShape' /\ StackShape'
  BY FreshKept, DiagnosticsKept, StackStays
<1>3. ReportedCirclesAreReal' /\ CirclesAreReal'
  BY CirclesKept, CollectedCirclesKept
<1> QED
  BY <1>1, <1>2, <1>3 DEF IInv

\* The inductive invariant, for every graph of loads and every number of jobs
\* and of changes: see its parts in Inference.
THEOREM Invariance == Spec => []IInv
BY InvInit, InvNext, PTL DEF Spec

\* Every variable has its type.
THEOREM TypeCorrect == Spec => []TypeOK
<1>1. IInv => TypeOK
  BY DEF IInv
<1> QED
  BY <1>1, Invariance, PTL

\* No cached type is stale when the main thread is idle: CancelGuard::drop
\* resets the context after every change (starpls_common/src/lib.rs), and no
\* query that saw the old texts is left to add to it.
THEOREM FreshCache == Spec => []CacheIsFresh
<1>1. IInv => CacheIsFresh
  <2> SUFFICES ASSUME IInv, main = "idle", NEW e \in cx.types PROVE Fresh(e)
    BY DEF CacheIsFresh
  <2>1. Seen(e) /\ Led(e)
    BY DEF IInv, EverythingIsFresh
  <2>2. e \in Entry /\ e.of \in DOMAIN inputs
    BY DEF IInv, TypeOK, HandlesExist
  <2>3. e.via \in Int /\ e.via >= -1
    BY <2>1, <2>2 DEF Entry, Led, Circle
  <2>4. CASE e.via > 0
    BY <2>1, <2>4 DEF Fresh, Seen, Led
  <2>5. CASE e.via = Circle
    BY <2>1, <2>5 DEF Fresh, Seen
  <2>6. CASE e.via = 0
    <3>1. IdOf(e.of) \in BuildFiles \/ inputs[e.of].loads = None
      BY <2>1, <2>6 DEF Led
    <3>2. CASE IdOf(e.of) \in BuildFiles
      BY <2>1, <2>6, <3>2 DEF Fresh, Seen, BeforePrelude
    <3>3. CASE IdOf(e.of) \notin BuildFiles
      <4>1. Target(e.of) = 0
        BY <3>1, <3>3, LoadsAssumption DEF Target
      <4> QED
        BY <2>1, <2>6, <4>1 DEF Fresh, Seen
    <3> QED
      BY <3>2, <3>3
  <2> QED
    BY <2>3, <2>4, <2>5, <2>6 DEF Circle
<1> QED
  BY <1>1, Invariance, PTL

\* Only texts whose Files lead into a circle or to a panic are told of a
\* circle, whatever a query that was cancelled or panicked left on the stack
\* of loads, and however the texts change what they load.
THEOREM RealCircles == Spec => []CirclesAreReal
<1>1. IInv => CirclesAreReal
  BY DEF IInv
<1> QED
  BY <1>1, Invariance, PTL

\* The diagnostics collected for a file's only File are of its text.
THEOREM OnlyFile == Spec => DiagnosticsOfOnlyFile
<1> DEFINE OfOnlyFile(j) ==
             Collect(j) /\ FilesOf(jobs[j].file) = {jobs[j].of} =>
               {d \in jobs'[j].result : d.about = "expr"} = {DiagnosticOf(jobs[j].of, "expr")}
<1>1. ASSUME IInv, NEW j \in Jobs, Collect(j), FilesOf(jobs[j].file) = {jobs[j].of}
      PROVE  {d \in jobs'[j].result : d.about = "expr"} = {DiagnosticOf(jobs[j].of, "expr")}
  <2> DEFINE f == jobs[j].file
             h == jobs[j].of
  <2>1. /\ jobs[j].phase = "infer" /\ jobs[j].calls = <<>>
        /\ jobs'[j].result = {d \in cx.diagnostics : d.file = f}
    BY <1>1, CollectIs
  <2>2. ~Updated
    BY <1>1, <2>1 DEF IInv, JobShape, HoldsSnapshot
  <2>3. Reported(h) /\ \A d \in cx.diagnostics :
          d.about = "expr" => \E k \in DOMAIN inputs : d = DiagnosticOf(k, "expr")
    BY <1>1, <2>1, <2>2 DEF IInv, DiagnosticsShape
  <2>4. \A k : /\ DiagnosticOf(k, "expr").file = inputs[k].id
               /\ DiagnosticOf(k, "expr").about = "expr"
    BY DEF DiagnosticOf
  <2>5. inputs[h].id = f /\ \A k \in DOMAIN inputs : inputs[k].id = f => k = h
    BY <1>1 DEF FilesOf
  <2> HIDE DEF f, h
  <2> QED
    BY <2>1, <2>3, <2>4, <2>5 DEF Reported, h
<1>2. IInv /\ [Next]_vars => [\A j \in Jobs : OfOnlyFile(j)]_vars
  BY <1>1
<1> QED
  BY <1>2, Invariance, PTL DEF Spec, DiagnosticsOfOnlyFile
=============================================================================
