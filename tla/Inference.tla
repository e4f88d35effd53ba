------------------------------ MODULE Inference ------------------------------
(***************************************************************************)
(* Type inference for diagnostics: the InferenceContext all queries share, *)
(* behind a mutex, and the changes that cancel queries and reset it.       *)
(*                                                                         *)
(* A query holds a snapshot of the database, takes the mutex and infers    *)
(* the expressions of its file and, through loads and the prelude, those   *)
(* of others.  One expression stands for the expressions of a file.  A     *)
(* change raises a flag that makes queries unwind, waits for their         *)
(* snapshots if it updates a text, and resets the context at its end.      *)
(* What a file loads is decided by its text, and so by each File of it.    *)
(***************************************************************************)
EXTENDS Integers, Sequences, FiniteSets

CONSTANTS
  FileIds,
  Loads,       \* what a text of each file may load: a file, None, or Panic
  BuildFiles,  \* the files that look names up in the prelude
  Prelude,     \* the prelude file, or None
  Opened,      \* bound: the files the editor opens
  Jobs,        \* bound: snapshots that may exist at once
  MaxChanges,  \* bound: didOpen and didChange notifications
  MaxStack,    \* bound: loads on the stack when a query is made
  None,
  Panic        \* for a text that the parser panics on

ASSUME LoadsAssumption ==
  /\ Loads \in [FileIds -> SUBSET (FileIds \cup {None, Panic}) \ {{}}]
  /\ None \notin FileIds /\ None \notin Jobs
  /\ Panic \notin FileIds \cup {None}
  /\ Prelude \in FileIds \cup {None}
  /\ BuildFiles \subseteq {f \in FileIds : Loads[f] \subseteq {None, Panic}}
ASSUME BoundsAssumption == MaxChanges \in Nat /\ MaxStack \in Nat

VARIABLES
  main,       \* where the main thread is in process_changes
  change,     \* the change it applies: Create or Update, of a file
  documents,  \* the files the editor has opened
  inputs,     \* the File inputs in the order of creation: an id, a text, and
              \* what the text loads
  files,      \* Database::files: the active File of each id; 0 is none
  prelude,    \* Database::prelude_file is set
  cancelled,  \* SharedState::cancelled
  owner,      \* the job that holds the mutex of the context
  cx,         \* the InferenceContext: the type of a File's expression is the
              \* texts it was inferred from and the File that its name was looked
              \* up in (0 if none, Circle if in a circle); a diagnostic is of a
              \* file's text, about its expression, a circle or its name
  jobs,       \* the queries: where each is, and its calls, the last on top
  changes     \* what MaxChanges counts

dbVars == <<documents, inputs, files, prelude>>
vars == <<main, change, dbVars, cancelled, owner, cx, jobs, changes>>

-----------------------------------------------------------------------------
NoChange == [kind |-> "none", file |-> None]
Circle   == -1

EmptyContext == [types |-> {}, stack |-> <<>>, diagnostics |-> {}]

Frame(h) == [of |-> h, at |-> "expr", texts |-> {}, via |-> 0]
FreeJob  == [phase |-> "free", file |-> None, prelude |-> FALSE, of |-> 0,
             calls |-> <<>>, result |-> {}]

Cached(h)    == \E e \in cx.types : e.of = h
HoldsSnapshot(j) == jobs[j].phase # "free"
Elements(s)  == {s[i] : i \in DOMAIN s}
DiagnosticOf(h, about) == [file |-> inputs[h].id, text |-> inputs[h].text, about |-> about]

\* A write to an input waits, with salsa's own flag raised.
WriteWaits == main = "apply" /\ change.kind = "Update"

Init ==
  /\ main = "idle" /\ change = NoChange
  /\ documents = {} /\ inputs = <<>>
  /\ files = [f \in FileIds |-> 0]
  /\ prelude = FALSE
  /\ cancelled = FALSE
  /\ owner = None
  /\ cx = EmptyContext
  /\ jobs = [j \in Jobs |-> FreeJob]
  /\ changes = 0

-----------------------------------------------------------------------------
(***************************************************************************)
(* The main thread.  CancelGuard::new, at the start of apply_file_changes. *)
(***************************************************************************)
BeginApply(c) ==
  /\ main = "idle"
  /\ main' = "apply"
  /\ change' = c
  /\ cancelled' = TRUE
  /\ UNCHANGED <<inputs, files, prelude, owner, cx, jobs>>

DidOpen(f) ==
  /\ f \in Opened
  /\ changes < MaxChanges
  /\ changes' = changes + 1
  /\ documents' = documents \cup {f}
  /\ BeginApply([kind |-> "Create", file |-> f])

DidChange(f) ==
  /\ changes < MaxChanges
  /\ f \in documents
  /\ changes' = changes + 1
  /\ BeginApply([kind |-> "Update", file |-> f])
  /\ UNCHANGED documents

\* The analysis of force_analysis_for_files: a change without files.
ForceAnalysis == BeginApply(NoChange) /\ UNCHANGED <<documents, changes>>

\* create_file: a new input, which no query waits for or is waited for.
CreateFile ==
  /\ main = "apply" /\ change.kind = "Create"
  /\ \E g \in Loads[change.file] :
       inputs' = Append(inputs, [id |-> change.file, text |-> changes, loads |-> g])
  /\ files' = [files EXCEPT ![change.file] = Len(inputs) + 1]
  /\ main' = "drop guard"
  /\ UNCHANGED <<change, documents, prelude, cancelled, owner, cx, jobs, changes>>

\* update_file: salsa waits until no snapshot is left.
UpdateFile ==
  /\ WriteWaits
  /\ \A j \in Jobs : ~HoldsSnapshot(j)
  /\ \E g \in Loads[change.file] :
       inputs' = [inputs EXCEPT ![files[change.file]] =
                    [id |-> change.file, text |-> changes, loads |-> g]]
  /\ main' = "drop guard"
  /\ UNCHANGED <<change, documents, files, prelude, cancelled, owner, cx, jobs, changes>>

NoFiles ==
  /\ main = "apply" /\ change.kind = "none"
  /\ main' = "drop guard"
  /\ UNCHANGED <<change, dbVars, cancelled, owner, cx, jobs, changes>>

\* Mutants: a part of the context survives the change.
ResetKeepsTypes       == [EmptyContext EXCEPT !.types = cx.types]
ResetKeepsStack       == [EmptyContext EXCEPT !.stack = cx.stack]
ResetKeepsDiagnostics == [EmptyContext EXCEPT !.diagnostics = cx.diagnostics]

Reset == EmptyContext

\* CancelGuard::drop, under the mutex.
DropGuard ==
  /\ main = "drop guard"
  /\ owner = None
  /\ cancelled' = FALSE
  /\ cx' = Reset
  /\ main' = "prelude"
  /\ UNCHANGED <<change, dbVars, owner, jobs, changes>>

\* set_bazel_prelude_file, when the prelude has been opened.
SetPrelude ==
  /\ main = "prelude"
  /\ prelude' = (prelude \/ change = [kind |-> "Create", file |-> Prelude])
  /\ main' = "idle"
  /\ change' = NoChange
  /\ UNCHANGED <<documents, inputs, files, cancelled, owner, cx, jobs, changes>>

-----------------------------------------------------------------------------
(***************************************************************************)
(* A query.  The main thread makes its snapshot.                           *)
(***************************************************************************)
Query(j, f) ==
  /\ main = "idle"
  /\ Len(cx.stack) <= MaxStack
  /\ jobs[j].phase = "free"
  /\ jobs' = [jobs EXCEPT ![j] =
       [FreeJob EXCEPT !.phase = "queued", !.file = f, !.prelude = prelude]]
  /\ UNCHANGED <<main, change, dbVars, cancelled, owner, cx, changes>>

\* db.get_file; without a File there are no diagnostics.
GetFile(j) ==
  /\ jobs[j].phase = "queued"
  /\ LET h == files[jobs[j].file]
     IN  jobs' = [jobs EXCEPT ![j].of = h,
                              ![j].phase = IF h = 0 THEN "collected" ELSE "waiting"]
  /\ UNCHANGED <<main, change, dbVars, cancelled, owner, cx, changes>>

\* GlobalContext::with_tcx.
Lock(j) ==
  /\ jobs[j].phase = "waiting"
  /\ owner = None
  /\ owner' = j
  /\ jobs' = [jobs EXCEPT ![j].phase = "infer", ![j].calls = <<Frame(jobs[j].of)>>]
  /\ UNCHANGED <<main, change, dbVars, cancelled, cx, changes>>

Top(j)   == jobs[j].calls[Len(jobs[j].calls)]
Infers(j) == jobs[j].phase = "infer" /\ jobs[j].calls # <<>>
InferAt(j, at) == Infers(j) /\ Top(j).at = at

WithTop(calls, frame) == [calls EXCEPT ![Len(calls)] = frame]
Without(calls)        == SubSeq(calls, 1, Len(calls) - 1)

\* A call has the type inferred from texts: its caller has seen these too.
Returned(calls, texts) ==
  IF Len(calls) = 1 THEN <<>>
  ELSE LET caller == calls[Len(calls) - 1]
       IN  WithTop(Without(calls), [caller EXCEPT !.at = "done", !.texts = @ \cup texts])

SetCalls(j, calls) ==
  /\ jobs' = [jobs EXCEPT ![j].calls = calls]
  /\ UNCHANGED <<main, change, documents, prelude, cancelled, owner, changes>>

\* The parser panics on the text of the File that is inferred next.
InferPanics(j) ==
  InferAt(j, "expr") /\ ~Cached(Top(j).of) /\ inputs[Top(j).of].loads = Panic

\* infer_expr of one that has been inferred.
UseCached(j) ==
  /\ InferAt(j, "expr")
  /\ \E e \in cx.types : e.of = Top(j).of /\ SetCalls(j, Returned(jobs[j].calls, e.texts))
  /\ UNCHANGED <<inputs, files, cx>>

InferExpr(j) ==
  /\ InferAt(j, "expr")
  /\ ~Cached(Top(j).of) /\ ~InferPanics(j)
  /\ ~cancelled
  /\ LET h == Top(j).of
     IN  /\ cx' = [cx EXCEPT !.diagnostics = @ \cup {DiagnosticOf(h, "expr")}]
         /\ SetCalls(j, WithTop(jobs[j].calls,
              [Top(j) EXCEPT !.at = "name", !.texts = {<<h, inputs[h].text>>}]))
  /\ UNCHANGED <<inputs, files>>

IdOf(h) == inputs[h].id

\* The name the expression refers to is one of its own file.
OwnName(j) ==
  /\ InferAt(j, "name")
  /\ IdOf(Top(j).of) \notin BuildFiles /\ inputs[Top(j).of].loads = None
  /\ SetCalls(j, WithTop(jobs[j].calls, [Top(j) EXCEPT !.at = "done"]))
  /\ UNCHANGED <<inputs, files, cx>>

\* resolve_name_in_prelude_or_builtins, with the prelude_file of the snapshot.
PreludeFile(j) == IF jobs[j].prelude THEN files[Prelude] ELSE 0

NameInPrelude(j) ==
  /\ InferAt(j, "name")
  /\ IdOf(Top(j).of) \in BuildFiles
  /\ LET h == PreludeFile(j)
         frame == [Top(j) EXCEPT !.at = IF h = 0 THEN "done" ELSE "callee", !.via = h]
         calls == WithTop(jobs[j].calls, frame)
     IN  /\ SetCalls(j, IF h = 0 THEN calls ELSE Append(calls, Frame(h)))
         /\ cx' = IF h = 0
                  THEN [cx EXCEPT !.diagnostics = @ \cup {DiagnosticOf(Top(j).of, "undefined")}]
                  ELSE cx
  /\ UNCHANGED <<inputs, files>>

\* Database::load_file makes a File of what is on disk if there is none.
LoadedFile(g) == IF files[g] = 0 THEN Len(inputs) + 1 ELSE files[g]
LoadFile(g) ==
  IF files[g] = 0
  THEN /\ \E d \in Loads[g] : inputs' = Append(inputs, [id |-> g, text |-> 0, loads |-> d])
       /\ files' = [files EXCEPT ![g] = Len(inputs) + 1]
  ELSE UNCHANGED <<inputs, files>>

\* infer_load_item: the loaded file is this one or one being loaded from.
IsCircle(j, h) == h = Top(j).of \/ h \in Elements(cx.stack)

LoadItem(j) ==
  /\ InferAt(j, "name")
  /\ LET f == Top(j).of
         g == inputs[f].loads
         h == LoadedFile(g)
     IN  /\ IdOf(f) \notin BuildFiles /\ g \in FileIds
         /\ LoadFile(g)
         /\ IF IsCircle(j, h)
            THEN /\ SetCalls(j, WithTop(jobs[j].calls,
                                        [Top(j) EXCEPT !.at = "done", !.via = Circle]))
                 /\ cx' = [cx EXCEPT !.diagnostics = @ \cup
                      {DiagnosticOf(k, "circle") :
                         k \in {f} \cup IF h = f THEN {} ELSE Elements(cx.stack)}]
            ELSE /\ SetCalls(j, Append(WithTop(jobs[j].calls,
                                        [Top(j) EXCEPT !.at = "callee", !.via = h]), Frame(h)))
                 /\ cx' = [cx EXCEPT !.stack = Append(@, f)]

\* The type is cached; one of a load item also leaves the load stack.
Conclude(j) ==
  /\ InferAt(j, "done")
  /\ LET t == Top(j)
         loaded == t.via > 0 /\ IdOf(t.of) \notin BuildFiles
     IN  /\ cx' = [cx EXCEPT
              !.types = @ \cup {[of |-> t.of, texts |-> t.texts, via |-> t.via]},
              !.stack = IF loaded THEN SubSeq(@, 1, Len(@) - 1) ELSE @]
         /\ SetCalls(j, Returned(jobs[j].calls, t.texts))
  /\ UNCHANGED <<inputs, files>>

\* The end of diagnostics_for_file: those with the id of the file.
Collect(j) ==
  /\ jobs[j].phase = "infer" /\ jobs[j].calls = <<>>
  /\ owner' = None
  /\ jobs' = [jobs EXCEPT ![j].phase = "collected",
       ![j].result = {d \in cx.diagnostics : d.file = jobs[j].file}]
  /\ UNCHANGED <<main, change, dbVars, cancelled, cx, changes>>

Deliver(j) ==
  /\ jobs[j].phase = "collected"
  /\ jobs' = [jobs EXCEPT ![j] = FreeJob]
  /\ UNCHANGED <<main, change, dbVars, cancelled, owner, cx, changes>>

\* unwind_if_cancelled, and salsa's likewise: the mutex is free again, the
\* load stack is as it was, and the snapshot is dropped.
MayUnwind(j) == \/ InferAt(j, "expr") /\ ~Cached(Top(j).of) /\ ~InferPanics(j) /\ cancelled
                \/ jobs[j].phase = "infer" /\ WriteWaits

\* Mutant: the query is tried again with the snapshot it has.
UnwindAndRetry(j) ==
  /\ MayUnwind(j)
  /\ owner' = None
  /\ jobs' = [jobs EXCEPT ![j].phase = "queued", ![j].calls = <<>>]
  /\ UNCHANGED <<main, change, dbVars, cancelled, cx, changes>>

GiveUp(j) ==
  /\ owner' = None
  /\ jobs' = [jobs EXCEPT ![j] = FreeJob]
  /\ UNCHANGED <<main, change, dbVars, cancelled, cx, changes>>

Unwind(j) == MayUnwind(j) /\ GiveUp(j)

\* A request's query, whose panic its dispatcher catches: push_load_resolution
\* does not pop what it pushed, and no change follows that would reset it.  (A
\* panic of a query for diagnostics ends the server.)
PanicCaught(j) == InferPanics(j) /\ GiveUp(j)

-----------------------------------------------------------------------------
Client == \/ \E f \in FileIds : DidOpen(f) \/ DidChange(f)
          \/ ForceAnalysis
          \/ \E j \in Jobs, f \in FileIds : Query(j, f)
ApplyChange == CreateFile \/ UpdateFile \/ NoFiles \/ DropGuard \/ SetPrelude
Infer(j) == \/ UseCached(j) \/ InferExpr(j) \/ OwnName(j) \/ NameInPrelude(j)
            \/ LoadItem(j) \/ Conclude(j) \/ Collect(j) \/ Unwind(j) \/ PanicCaught(j)
Worker(j) == GetFile(j) \/ Lock(j) \/ Infer(j) \/ Deliver(j)

Next == Client \/ ApplyChange \/ \E j \in Jobs : Worker(j)

Spec == Init /\ [][Next]_vars

\* Every thread keeps running, and Bazel returns where a load runs it (Requests);
\* parking_lot's mutex is fair in the end.
FairSpec == Spec /\ WF_vars(ApplyChange)
                 /\ \A j \in Jobs : /\ WF_vars(GetFile(j) \/ Infer(j) \/ Deliver(j))
                                    /\ SF_vars(Lock(j))

-----------------------------------------------------------------------------
(***************************************************************************)
(* Every variable has its type.                                            *)
(***************************************************************************)
Texts      == SUBSET (Nat \X Nat)
Input      == [id : FileIds, text : Nat, loads : FileIds \cup {None, Panic}]
Change     == {NoChange} \cup [kind : {"Create", "Update"}, file : FileIds]
Call       == [of : Nat, at : {"expr", "name", "callee", "done"}, texts : Texts, via : Int]
Entry      == [of : Nat, texts : Texts, via : Int]
Diagnostic == [file : FileIds, text : Nat, about : {"expr", "undefined", "circle"}]
Job        == [phase : {"free", "queued", "waiting", "infer", "collected"},
               file : FileIds \cup {None}, prelude : BOOLEAN, of : Nat,
               calls : Seq(Call), result : SUBSET Diagnostic]

TypeOK ==
  /\ main \in {"idle", "apply", "drop guard", "prelude"}
  /\ change \in Change
  /\ documents \in SUBSET FileIds
  /\ inputs \in Seq(Input)
  /\ files \in [FileIds -> Nat]
  /\ prelude \in BOOLEAN /\ cancelled \in BOOLEAN
  /\ owner \in Jobs \cup {None}
  /\ cx \in [types : SUBSET Entry, stack : Seq(Nat), diagnostics : SUBSET Diagnostic]
  /\ jobs \in [Jobs -> Job]
  /\ changes \in Nat

-----------------------------------------------------------------------------
(***************************************************************************)
(* The File an expression's name leads to in the database of this moment.  *)
(***************************************************************************)
Target(h) ==
  LET f == IdOf(h)
  IN  IF f \in BuildFiles THEN IF prelude THEN files[Prelude] ELSE 0
      ELSE IF inputs[h].loads \in FileIds THEN files[inputs[h].loads] ELSE 0

\* The lookup was made with a snapshot older than the prelude.
BeforePrelude(e) == IdOf(e.of) \in BuildFiles /\ e.via = 0

Fresh(e) == /\ \A s \in e.texts : s[2] = inputs[s[1]].text
            /\ e.via \in {Circle, Target(e.of)} \/ BeforePrelude(e)

(***************************************************************************)
(* "This will cancel any affected active Salsa operations" (server.rs:248) *)
(* and no result of one survives: while the main thread does not apply a   *)
(* change, each cached type was inferred from the current texts and files. *)
(* Excepted is the name a BUILD file looked up with an older snapshot that *)
(* had no prelude yet: that entry stays until the next change.             *)
(***************************************************************************)
CacheIsFresh == main = "idle" => \A e \in cx.types : Fresh(e)

(***************************************************************************)
(* "This will overwrite the currently active `File' for the given          *)
(* `FileId'" (starpls_common/src/lib.rs:69): what a query for the active   *)
(* File reports of its expressions is of this File's text.                 *)
(***************************************************************************)
DiagnosticsOfActiveFile ==
  [][\A j \in Jobs :
       Collect(j) /\ jobs[j].of = files[jobs[j].file] =>
         {d \in jobs'[j].result : d.about = "expr"} = {DiagnosticOf(jobs[j].of, "expr")}]_vars

(***************************************************************************)
(* So it is for a file that has had one File only: whatever was cancelled, *)
(* reset or left by a panic around it, what is reported of its expressions *)
(* is of the text it has when the query collects its diagnostics.          *)
(***************************************************************************)
FilesOf(f) == {h \in DOMAIN inputs : inputs[h].id = f}

DiagnosticsOfOnlyFile ==
  [][\A j \in Jobs :
       Collect(j) /\ FilesOf(jobs[j].file) = {jobs[j].of} =>
         {d \in jobs'[j].result : d.about = "expr"} = {DiagnosticOf(jobs[j].of, "expr")}]_vars

(***************************************************************************)
(* The file whose names a File needs.  Inference of a File does not come   *)
(* to an end by itself if the File is one of a set in which each needs one *)
(* of the set, or has a text that the parser panics on.                    *)
(***************************************************************************)
Needs(h) == IF IdOf(h) \in BuildFiles THEN Prelude ELSE inputs[h].loads

Endless(S) == \A h \in S : inputs[h].loads = Panic \/ \E k \in S : IdOf(k) = Needs(h)

NeverEnds(h) == \E S \in SUBSET DOMAIN inputs : h \in S /\ Endless(S)

(***************************************************************************)
(* A circular import is reported only of a text whose File leads into a    *)
(* circle of Files or to a panic, though a query that was cancelled or     *)
(* panicked leaves the stack of loads as it was (push_load_resolution,     *)
(* CancelGuard::drop).  The File may be one that a didOpen has replaced:   *)
(* its circle is reported under the FileId the two share.                  *)
(***************************************************************************)
LeadsToCircle(d) ==
  \E h \in DOMAIN inputs : IdOf(h) = d.file /\ inputs[h].text = d.text /\ NeverEnds(h)

CirclesAreReal ==
  \A j \in Jobs : \A d \in jobs[j].result : d.about = "circle" => LeadsToCircle(d)

(***************************************************************************)
(* What makes the invariants above inductive.  First, the main thread: the *)
(* flag is up while it applies a change, what it updates exists, and once  *)
(* it has, no query is left that began before.                             *)
(***************************************************************************)
MainShape ==
  /\ cancelled <=> main \in {"apply", "drop guard"}
  /\ \A f \in documents : \/ files[f] # 0
                          \/ main = "apply" /\ change = [kind |-> "Create", file |-> f]
  /\ change.kind = "Update" => files[change.file] # 0
  /\ change.kind = "Create" /\ main # "apply" => files[change.file] # 0
  /\ prelude => Prelude \in FileIds /\ files[Prelude] # 0

Updated == main = "drop guard" /\ change.kind = "Update"

\* The queries: one at a time has the mutex, and its calls begin with its File.
JobShape ==
  /\ Updated => \A j \in Jobs : ~HoldsSnapshot(j)
  /\ \A j \in Jobs :
       /\ owner = j <=> jobs[j].phase = "infer"
       /\ jobs[j].prelude => prelude
       /\ jobs[j].phase # "free" => jobs[j].file \in FileIds
       /\ jobs[j].phase \in {"waiting", "infer"} =>
            jobs[j].of \in DOMAIN inputs /\ IdOf(jobs[j].of) = jobs[j].file
       /\ jobs[j].calls # <<>> =>
            jobs[j].phase = "infer" /\ jobs[j].calls[1].of = jobs[j].of
       /\ jobs[j].result # {} => jobs[j].phase = "collected"

\* No handle dangles.
HandlesExist ==
  /\ \A f \in FileIds : files[f] # 0 => files[f] \in DOMAIN inputs /\ IdOf(files[f]) = f
  /\ \A e \in cx.types : {e.of} \cup {s[1] : s \in e.texts} \subseteq DOMAIN inputs
  /\ \A j \in Jobs : \A t \in Elements(jobs[j].calls) :
       {t.of} \cup {s[1] : s \in t.texts} \subseteq DOMAIN inputs
  /\ Elements(cx.stack) \subseteq DOMAIN inputs

\* A call waits for the one above it, which is of a file it needs.
CallShape ==
  \A j \in Jobs : LET calls == jobs[j].calls IN
    /\ \A i \in DOMAIN calls : calls[i].at \in {"expr", "name"} => calls[i].via = 0
    /\ \A i \in 1..Len(calls) - 1 :
         calls[i].at = "callee" /\ Needs(calls[i].of) = IdOf(calls[i + 1].of)

(***************************************************************************)
(* Freshness holds of calls as of cached types, from one reset to the next *)
(* change: a name that leads nowhere did not have to.                      *)
(***************************************************************************)
Seen(t) == \A s \in t.texts : s[2] = inputs[s[1]].text
Led(t)  == /\ t.via > 0 => t.via = Target(t.of)
           /\ t.via = 0 => IdOf(t.of) \in BuildFiles \/ inputs[t.of].loads = None
           /\ t.via >= Circle

EverythingIsFresh ==
  main # "drop guard" =>
    /\ \A e \in cx.types : Seen(e) /\ Led(e)
    /\ \A j \in Jobs : \A t \in Elements(jobs[j].calls) :
         Seen(t) /\ (t.at \in {"callee", "done"} => Led(t))

(***************************************************************************)
(* A diagnostic of an expression is of a text that is there, and one has   *)
(* been given for each expression whose inference has begun.               *)
(***************************************************************************)
Reported(h) == DiagnosticOf(h, "expr") \in cx.diagnostics

DiagnosticsShape ==
  ~Updated =>
    /\ \A d \in cx.diagnostics :
         d.about = "expr" => \E h \in DOMAIN inputs : d = DiagnosticOf(h, "expr")
    /\ \A e \in cx.types : Reported(e.of)
    /\ \A j \in Jobs :
         /\ \A t \in Elements(jobs[j].calls) : t.at # "expr" => Reported(t.of)
         /\ jobs[j].phase = "infer" /\ jobs[j].calls = <<>> => Reported(jobs[j].of)

(***************************************************************************)
(* The stack of loads is what panics left there, and above it the calls    *)
(* which load, in their order (at is 0 for what was left).  It may be      *)
(* another after a query was cancelled: then no query gets so far as to    *)
(* look at it before the reset.                                            *)
(***************************************************************************)
IsLoading(t) == t.via > 0 /\ IdOf(t.of) \notin BuildFiles

StackIsOf(calls) ==
  \E at \in [DOMAIN cx.stack -> {0} \cup DOMAIN calls] :
    /\ \A i, k \in DOMAIN cx.stack : i < k => at[i] = 0 \/ at[i] < at[k]
    /\ \A i \in DOMAIN cx.stack :
         IF at[i] = 0 THEN NeverEnds(cx.stack[i]) ELSE cx.stack[i] = calls[at[i]].of
    /\ \A n \in DOMAIN calls :
         IsLoading(calls[n]) <=> \E i \in DOMAIN cx.stack : at[i] = n

NotBegun(calls) == calls = <<>> \/ (Len(calls) = 1 /\ calls[1].at = "expr")

StackShape ==
  /\ owner = None /\ ~cancelled => \A h \in Elements(cx.stack) : NeverEnds(h)
  /\ \A j \in Jobs : jobs[j].phase = "infer" =>
       StackIsOf(jobs[j].calls) \/ (cancelled /\ NotBegun(jobs[j].calls))

ReportedCirclesAreReal ==
  ~Updated => \A d \in cx.diagnostics : d.about = "circle" => LeadsToCircle(d)

IInv == /\ TypeOK /\ MainShape /\ JobShape /\ HandlesExist /\ CallShape
        /\ EverythingIsFresh /\ DiagnosticsShape /\ StackShape
        /\ ReportedCirclesAreReal /\ CirclesAreReal

(***************************************************************************)
(* A change is applied in the end: queries unwind or finish, and neither   *)
(* the snapshots nor the mutex keeps the main thread for ever.             *)
(***************************************************************************)
ApplyEnds == main = "apply" ~> main = "idle"
=============================================================================
