------------------------ MODULE ExternalReposProofs ------------------------
(***************************************************************************)
(* Theorems about ExternalRepos for every set of files and repositories,   *)
(* every mapping and every bound: its type invariant, that no repository   *)
(* is fetched twice without a save, that fetches do not overlap, and that  *)
(* no file that asked for one is forgotten silently.                       *)
(***************************************************************************)
EXTENDS ExternalRepos, TLAPS

\* Facts about the task channel, used wherever it is appended to or read.
LEMMA HeadTail ==
  ASSUME NEW S, NEW s \in Seq(S), s # <<>>
  PROVE  /\ Head(s) \in S
         /\ Tail(s) \in Seq(S)
         /\ Len(Tail(s)) = Len(s) - 1
         /\ Len(s) \in Nat \ {0}
         /\ Head(s) = s[1]
         /\ \A i \in 1..Len(s) - 1 : Tail(s)[i] = s[i + 1]
  OBVIOUS

\* A sequence with an element more, at its end.
LEMMA AppendSeq ==
  ASSUME NEW S, NEW s \in Seq(S), NEW e \in S
  PROVE  /\ Append(s, e) \in Seq(S)
         /\ Len(Append(s, e)) = Len(s) + 1
         /\ Append(s, e)[Len(s) + 1] = e
         /\ \A i \in 1..Len(s) : Append(s, e)[i] = s[i]
  OBVIOUS

\* The messages of a channel after one is sent.
LEMMA RangeAppend ==
  ASSUME NEW S, NEW s \in Seq(S), NEW e \in S
  PROVE  Range(Append(s, e)) = Range(s) \cup {e}
<1>1. DOMAIN Append(s, e) = 1..Len(s) + 1 /\ DOMAIN s = 1..Len(s) /\ Len(s) \in Nat
  BY AppendSeq
<1>2. Range(Append(s, e)) \subseteq Range(s) \cup {e}
  <2> SUFFICES ASSUME NEW i \in 1..Len(s) + 1
               PROVE  Append(s, e)[i] \in Range(s) \cup {e}
    BY <1>1 DEF Range
  <2>1. i \in 1..Len(s) \/ i = Len(s) + 1
    BY <1>1
  <2> QED
    BY <1>1, <2>1, AppendSeq DEF Range
<1>3. Range(s) \subseteq Range(Append(s, e))
  BY <1>1, AppendSeq DEF Range
<1>4. e \in Range(Append(s, e))
  BY <1>1, AppendSeq DEF Range
<1> QED
  BY <1>2, <1>3, <1>4

\* The messages of a channel are its first and those after it.
LEMMA RangeTail ==
  ASSUME NEW S, NEW s \in Seq(S), s # <<>>
  PROVE  Range(s) = {Head(s)} \cup Range(Tail(s))
<1>1. DOMAIN Tail(s) = 1..Len(s) - 1 /\ DOMAIN s = 1..Len(s) /\ Len(s) \in Nat \ {0}
  BY HeadTail
<1>2. Range(s) \subseteq {Head(s)} \cup Range(Tail(s))
  <2> SUFFICES ASSUME NEW i \in 1..Len(s)
               PROVE  s[i] \in {Head(s)} \cup Range(Tail(s))
    BY <1>1 DEF Range
  <2>1. CASE i = 1
    BY <2>1, HeadTail
  <2>2. CASE i # 1
    <3>1. i - 1 \in 1..Len(s) - 1 /\ (i - 1) + 1 = i
      BY <1>1, <2>2
    <3>2. Tail(s)[i - 1] = s[i]
      BY <3>1, HeadTail
    <3> QED
      BY <1>1, <3>1, <3>2 DEF Range
  <2> QED
    BY <2>1, <2>2
<1>3. Head(s) \in Range(s)
  BY <1>1, HeadTail DEF Range
<1>4. Range(Tail(s)) \subseteq Range(s)
  <2> SUFFICES ASSUME NEW i \in 1..Len(s) - 1 PROVE Tail(s)[i] \in Range(s)
    BY <1>1 DEF Range
  <2>1. i + 1 \in 1..Len(s)
    BY <1>1
  <2> QED
    BY <1>1, <2>1, HeadTail DEF Range
<1> QED
  BY <1>2, <1>3, <1>4


\* Every variable has its type at first.
LEMMA InitType == Init => TypeOK
<1> SUFFICES ASSUME Init PROVE TypeOK
  OBVIOUS
<1> USE BoundsAssumption, MappingAssumption DEF Init
<1>1. NoNames \in Names
  BY DEF NoNames, Names
<1>2. load \in Load /\ list \in Load
  BY <1>1 DEF Idle, Load, Outcome
<1>3. fetch \in [phase : {"idle", "running"}, repos : SUBSET Repos, files : SUBSET Files]
  BY DEF NoFetch
<1>4. cached_load_results \in Names /\ outcome \in [Files -> Outcome]
  BY DEF Names, Outcome
<1>5. fetches \in [Repos -> Nat] /\ tasks \in Seq(Task) /\ module \in 0..MaxSaves
      /\ edits \in 0..MaxEdits
  OBVIOUS
<1> QED
  BY <1>2, <1>3, <1>4, <1>5 DEF TypeOK

\* An edit and a save keep every variable in its type.
LEMMA ClientType ==
  ASSUME TypeOK, Client PROVE TypeOK'
<1> USE BoundsAssumption DEF TypeOK, serverVars, bazelVars, loaderVars, jobVars
<1>1. CASE \E f \in Files : Edit(f)
  BY <1>1 DEF Edit
<1>2. CASE Save
  BY <1>2 DEF Save
<1> QED
  BY <1>1, <1>2 DEF Client

\* The first task is one, and what is left are tasks.
LEMMA HandledTask ==
  ASSUME TypeOK, HandleTask
  PROVE  /\ Head(tasks) \in Task
         /\ tasks' \in Seq(Task)
         /\ Range(tasks) = {Head(tasks)} \cup Range(tasks')
BY HeadTail, RangeTail DEF TypeOK, HandleTask

\* Handling a task does.
LEMMA HandleTaskType ==
  ASSUME TypeOK, HandleTask PROVE TypeOK'
<1> DEFINE t == Head(tasks)
<1>1. t \in Task /\ tasks' \in Seq(Task)
  BY HandledTask
<1> HIDE DEF t
<1> USE DEF TypeOK, bazelVars, loaderVars, jobVars
<1>2. CASE HandleFetchRequest(t)
  BY <1>1, <1>2 DEF HandleTask, HandleFetchRequest, Task
<1>3. CASE DropFetchRequest(t)
  BY <1>1, <1>3 DEF HandleTask, DropFetchRequest, Task, Cause
<1>4. CASE HandleEnd(t)
  BY <1>1, <1>4 DEF HandleTask, HandleEnd, Task
<1> QED
  BY <1>2, <1>3, <1>4 DEF HandleTask, t

\* Every step of the main thread does.
LEMMA MainThreadType ==
  ASSUME TypeOK, MainThread PROVE TypeOK'
<1> USE DEF TypeOK, serverVars, bazelVars, loaderVars, jobVars
<1>1. CASE HandleTask
  BY <1>1, HandleTaskType
<1>2. CASE Drained
  BY <1>2 DEF Drained
<1>3. CASE EndTurn
  <2>1. CASE MayFetch
    BY <1>3, <2>1 DEF EndTurn, StartFetch
  <2>2. CASE ~MayFetch
    BY <1>3, <2>2 DEF EndTurn
  <2> QED
    BY <2>1, <2>2
<1>4. CASE ApplyChange
  BY <1>4 DEF ApplyChange
<1> QED
  BY <1>1, <1>2, <1>3, <1>4 DEF MainThread

\* A mapping that Bazel dumps, or fails to dump, is one of names.
LEMMA DumpedType == ASSUME TypeOK PROVE Dumped \in SUBSET Names
BY MappingAssumption DEF TypeOK, Dumped, NoNames, Names

\* Resolving a load's name does.
LEMMA ResolveType ==
  ASSUME TypeOK, load.file \in Files, NEW names \in Names, Resolve(names)
  PROVE  load' \in Load /\ cached_load_results' \in Names
<1> DEFINE r == names[load.file]
<1>1. r \in Repos \cup {None} /\ load \in Load /\ cached_load_results \in Names
  BY DEF TypeOK, Names
<1>2. CASE r = None
  <2>1. load' = [load EXCEPT !.phase = "done", !.outcome = "unmapped"]
        /\ cached_load_results' = cached_load_results
    BY <1>2 DEF Resolve
  <2> QED
    BY <1>1, <2>1 DEF Load, Outcome
<1>3. CASE r # None
  <2>1. load' = [load EXCEPT !.phase = "read", !.repo = r]
        /\ cached_load_results' = [cached_load_results EXCEPT ![load.file] = r]
    BY <1>3 DEF Resolve
  <2> HIDE DEF r
  <2>2. load' \in Load
    BY <1>1, <2>1 DEF Load
  <2>3. cached_load_results' \in Names
    BY <1>1, <2>1 DEF Names
  <2> QED
    BY <2>2, <2>3
<1> QED
  BY <1>2, <1>3

\* A load that goes on, or ends.
LEMMA LoadPhase ==
  ASSUME NEW l \in Load
  PROVE  /\ [l EXCEPT !.phase = "read"] \in Load
         /\ [l EXCEPT !.phase = "dump"] \in Load
         /\ [l EXCEPT !.phase = "failed"] \in Load
         /\ [l EXCEPT !.phase = "done", !.outcome = "resolved"] \in Load
BY DEF Load, Outcome

\* The steps of an analysis up to the file it loads.
LEMMA LoadStepType ==
  ASSUME TypeOK, JobShape,
         \/ UseCachedPath \/ ResolveFromMapping \/ MissMapping \/ DumpMapping
         \/ InsertMapping \/ ReadFile
  PROVE  TypeOK'
<1>0. load \in Load
  BY DEF TypeOK
<1> USE DEF TypeOK, Unchanged, serverVars, bazelVars, loaderVars
<1>1. CASE UseCachedPath
  <2>1. load' \in Load
    BY <1>0, <1>1, LoadPhase DEF UseCachedPath
  <2> QED
    BY <1>1, <2>1 DEF UseCachedPath
<1>2. CASE ResolveFromMapping
  <2>1. load.file \in Files /\ repo_mappings \in Names
    BY <1>2 DEF ResolveFromMapping, MustResolve, JobShape, Load
  <2>2. load' \in Load /\ cached_load_results' \in Names
    BY <1>2, <2>1, ResolveType DEF ResolveFromMapping
  <2> QED
    BY <1>2, <2>2 DEF ResolveFromMapping
<1>3. CASE MissMapping
  <2>1. load' \in Load
    BY <1>0, <1>3, LoadPhase DEF MissMapping
  <2> QED
    BY <1>3, <2>1 DEF MissMapping
<1>4. CASE DumpMapping
  <2> PICK names \in Dumped : load' = [load EXCEPT !.phase = "insert", !.names = names]
    BY <1>4 DEF DumpMapping
  <2>1. names \in Names
    BY DumpedType
  <2>2. load' \in Load
    BY <2>1 DEF Load
  <2> QED
    BY <1>4, <2>2 DEF DumpMapping
<1>5. CASE InsertMapping
  <2>1. load.file \in Files /\ load.names \in Names
    BY <1>5 DEF InsertMapping, JobShape, Load
  <2>2. load' \in Load /\ cached_load_results' \in Names
    BY <1>5, <2>1, ResolveType DEF InsertMapping
  <2> QED
    BY <1>5, <2>1, <2>2 DEF InsertMapping
<1>6. CASE ReadFile
  <2>1. load' \in Load
    BY <1>0, <1>6, LoadPhase DEF ReadFile
  <2>2. interned' \in SUBSET Repos
    BY <1>6 DEF ReadFile
  <2> QED
    BY <1>6, <2>1, <2>2 DEF ReadFile
<1> QED
  BY <1>1, <1>2, <1>3, <1>4, <1>5, <1>6

\* Every step of an analysis does.
LEMMA AnalysisType ==
  ASSUME TypeOK, JobShape, Analysis PROVE TypeOK'
<1> USE DEF TypeOK, serverVars, bazelVars, loaderVars, jobVars
<1>0. NoNames \in Names /\ Idle \in Load
  BY DEF NoNames, Names, Idle, Load, Outcome
<1>1. ASSUME NEW f \in Files, Begin(f) PROVE TypeOK'
  <2>1. load' \in Load
    BY <1>0, <1>1 DEF Begin, Load
  <2> QED
    BY <1>1, <2>1 DEF Begin
<1>2. ASSUME NEW f \in Files, CancelWaiting(f) PROVE TypeOK'
  BY <1>2 DEF CancelWaiting, Cause
<1>3. CASE \/ UseCachedPath \/ ResolveFromMapping \/ MissMapping \/ DumpMapping
           \/ InsertMapping \/ ReadFile
  BY <1>3, LoadStepType
<1>4. CASE AskToFetch
  <2>1. load.file \in Files /\ load' \in Load
    BY <1>4 DEF AskToFetch, JobShape, Load, Outcome
  <2>2. tasks' \in Seq(Task) /\ missed' \in SUBSET (Files \X Cause)
    <3>1. CASE load.repo # None /\ load.repo \notin disk
      <4>1. FetchRequest(load.file, load.repo) \in Task
        BY <2>1, <3>1 DEF FetchRequest, Task, Load
      <4>2. Append(tasks, FetchRequest(load.file, load.repo)) \in Seq(Task)
        BY <4>1, AppendSeq
      <4> QED
        BY <1>4, <3>1, <4>2 DEF AskToFetch
    <3>2. CASE ~(load.repo # None /\ load.repo \notin disk)
      BY <1>4, <2>1, <3>2 DEF AskToFetch, Cause
    <3> QED
      BY <3>1, <3>2
  <2> QED
    BY <1>4, <2>1, <2>2 DEF AskToFetch, Unchanged
<1>5. CASE Deliver
  <2>1. outcome' \in [Files -> Outcome]
    BY <1>5 DEF Deliver, Load
  <2> QED
    BY <1>0, <1>5, <2>1 DEF Deliver
<1>6. CASE CancelLoaded
  <2>1. load.file \in Files
    BY <1>6 DEF CancelLoaded, JobShape, Load
  <2>2. missed' \in SUBSET (Files \X Cause)
    BY <1>6, <2>1 DEF CancelLoaded, Cause
  <2> QED
    BY <1>0, <1>6, <2>2 DEF CancelLoaded
<1> QED
  BY <1>1, <1>2, <1>3, <1>4, <1>5, <1>6 DEF Analysis

\* Completions and fetches do.
LEMMA OthersType ==
  ASSUME TypeOK, Completion \/ Background PROVE TypeOK'
<1> USE DEF TypeOK, serverVars, bazelVars, loaderVars, jobVars
<1>0. NoNames \in Names /\ Idle \in Load
  BY DEF NoNames, Names, Idle, Load, Outcome
<1>1. CASE ListMissesMapping
  <2>1. list' \in Load
    BY <1>0, <1>1 DEF ListMissesMapping, SetList, Load
  <2> QED
    BY <1>1, <2>1 DEF ListMissesMapping, SetList
<1>2. CASE ListDumps
  <2>1. list' \in Load
    BY <1>2, DumpedType DEF ListDumps, SetList, Load
  <2> QED
    BY <1>2, <2>1 DEF ListDumps, SetList
<1>3. CASE ListInserts
  <2>1. repo_mappings' \in Names
    BY <1>3 DEF ListInserts, Load
  <2> QED
    BY <1>0, <1>3, <2>1 DEF ListInserts, SetList
<1>4. ASSUME NEW r \in Repos, FetchRepo(r) PROVE TypeOK'
  <2>1. /\ disk' \in SUBSET Repos
        /\ fetch' \in [phase : {"idle", "running"}, repos : SUBSET Repos, files : SUBSET Files]
    BY <1>4 DEF FetchRepo
  <2>2. fetches' \in [Repos -> Nat]
    BY <1>4 DEF FetchRepo
  <2> QED
    BY <1>4, <2>1, <2>2 DEF FetchRepo
<1>5. CASE EndFetch
  <2>1. End(fetch.files) \in Task
    BY DEF End, Task
  <2> QED
    BY <1>5, <2>1, AppendSeq DEF EndFetch, NoFetch
<1> QED
  BY <1>1, <1>2, <1>3, <1>4, <1>5 DEF Completion, Background

\* Every step keeps every variable in its type.
LEMMA NextType ==
  ASSUME TypeOK, JobShape, [Next]_vars PROVE TypeOK'
<1>1. CASE UNCHANGED vars
  BY <1>1 DEF vars, TypeOK, serverVars, bazelVars, loaderVars, jobVars
<1> QED
  BY <1>1, ClientType, MainThreadType, AnalysisType, OthersType DEF Next

\* The steps that are not the main thread's or the client's leave a turn alone.
LEMMA TurnIsMain ==
  ASSUME Analysis \/ Completion \/ Background
  PROVE  UNCHANGED <<main, serverVars, changed, module>>
BY DEF Analysis, Completion, Background, Begin, CancelWaiting, UseCachedPath,
       ResolveFromMapping, MissMapping, DumpMapping, InsertMapping, ReadFile,
       AskToFetch, Deliver, CancelLoaded, ListMissesMapping, ListDumps, ListInserts,
       SetList, FetchRepo, EndFetch, Unchanged

\* Between turns nothing is left to force; what is pending waits for a fetch.
LEMMA NextTurnShape ==
  ASSUME TypeOK, TurnShape, Next PROVE TurnShape'
<1> USE DEF TurnShape, serverVars
<1>1. CASE Client
  BY <1>1 DEF Client, Edit, Save
<1>2. CASE HandleTask
  BY <1>2 DEF HandleTask, HandleFetchRequest, DropFetchRequest, HandleEnd
<1>3. CASE Drained
  BY <1>3 DEF Drained
<1>4. CASE EndTurn
  BY <1>4 DEF EndTurn, MayFetch, StartFetch
<1>5. CASE ApplyChange
  BY <1>5 DEF ApplyChange
<1>6. CASE Analysis \/ Completion \/ Background
  BY <1>6, TurnIsMain
<1> QED
  BY <1>1, <1>2, <1>3, <1>4, <1>5, <1>6 DEF Next, MainThread

\* A job that runs names a file; one that does not is empty.
LEMMA NextJobShape ==
  ASSUME TypeOK, JobShape, Next PROVE JobShape'
<1> USE MappingAssumption DEF JobShape, bazelVars, jobVars
<1>1. CASE Client
  BY <1>1 DEF Client, Edit, Save
<1>2. CASE MainThread
  BY <1>2 DEF MainThread, HandleTask, Drained, EndTurn, StartFetch, ApplyChange
<1>3. ASSUME NEW f \in Files, Begin(f) PROVE JobShape'
  BY <1>3 DEF Begin, Idle
<1>4. ASSUME NEW f \in Files, CancelWaiting(f) PROVE JobShape'
  BY <1>4 DEF CancelWaiting
<1>5. CASE UseCachedPath \/ MissMapping \/ ReadFile \/ AskToFetch
  <2>1. load.phase # "idle" /\ UNCHANGED fetch
    BY <1>5 DEF UseCachedPath, MissMapping, MustResolve, ReadFile, AskToFetch, Unchanged
  <2>2. load'.phase # "idle" /\ load'.file = load.file
    <3>1. CASE UseCachedPath \/ MissMapping
      BY <3>1 DEF UseCachedPath, MissMapping, TypeOK, Load
    <3>2. CASE ReadFile
      BY <3>2 DEF ReadFile, TypeOK, Load
    <3>3. CASE AskToFetch
      BY <3>3 DEF AskToFetch, TypeOK, Load
    <3> QED
      BY <1>5, <3>1, <3>2, <3>3
  <2> QED
    BY <2>1, <2>2
<1>6. CASE ResolveFromMapping \/ InsertMapping
  BY <1>6 DEF ResolveFromMapping, InsertMapping, MustResolve, Resolve, Unchanged, TypeOK, Load
<1>7. CASE DumpMapping
  <2> PICK names \in Dumped : load' = [load EXCEPT !.phase = "insert", !.names = names]
    BY <1>7 DEF DumpMapping
  <2> QED
    BY <1>7 DEF DumpMapping, Unchanged, TypeOK, Load
<1>8. CASE Deliver \/ CancelLoaded
  BY <1>8 DEF Deliver, CancelLoaded, Idle
<1>9. CASE Completion
  BY <1>9 DEF Completion, ListMissesMapping, ListDumps, ListInserts, SetList
<1>10. ASSUME NEW r \in Repos, FetchRepo(r) PROVE JobShape'
  <2>1. fetch'.phase = "running"
    BY <1>10 DEF FetchRepo, TypeOK
  <2> QED
    BY <1>10, <2>1 DEF FetchRepo
<1>11. CASE EndFetch
  BY <1>11 DEF EndFetch
<1> QED
  BY <1>1, <1>2, <1>3, <1>4, <1>5, <1>6, <1>7, <1>8, <1>9, <1>10, <1>11
     DEF Next, Analysis, Background

\* The Ends in the channel after a task is sent.
LEMMA EndsAppend ==
  ASSUME TypeOK, NEW t \in Task, tasks' = Append(tasks, t)
  PROVE  Ends' = Ends \cup (IF t.kind = "End" THEN {Len(tasks) + 1} ELSE {})
<1>1. /\ DOMAIN tasks = 1..Len(tasks) /\ Len(tasks) \in Nat
      /\ DOMAIN tasks' = 1..Len(tasks) + 1
      /\ tasks'[Len(tasks) + 1] = t
      /\ \A i \in 1..Len(tasks) : tasks'[i] = tasks[i]
  BY AppendSeq DEF TypeOK
<1> QED
  BY <1>1 DEF Ends

\* And after one is taken.
LEMMA EndsTail ==
  ASSUME TypeOK, tasks # <<>>, tasks' = Tail(tasks)
  PROVE  /\ \A i \in Ends : i \in Nat \ {0}
         /\ Ends' = {i \in Nat \ {0} : i + 1 \in Ends}
         /\ 1 \in Ends <=> Head(tasks).kind = "End"
<1>1. /\ DOMAIN tasks = 1..Len(tasks) /\ Len(tasks) \in Nat \ {0}
      /\ DOMAIN tasks' = 1..Len(tasks) - 1
      /\ Head(tasks) = tasks[1]
      /\ \A i \in 1..Len(tasks) - 1 : tasks'[i] = tasks[i + 1]
  BY HeadTail DEF TypeOK
<1>2. \A i \in Nat \ {0} : i \in 1..Len(tasks) - 1 <=> i + 1 \in 1..Len(tasks)
  BY <1>1
<1> QED
  BY <1>1, <1>2 DEF Ends

\* Fetches stay one at a time: the flag is up from a start to its End.
LEMMA NextOneFetch ==
  ASSUME TypeOK, JobShape, OneFetch, Next PROVE OneFetch'
<1> USE DEF OneFetch, serverVars, bazelVars
<1>1. CASE UNCHANGED <<tasks, is_fetching_repos, fetch>>
  BY <1>1 DEF Ends
<1>2. CASE HandleTask
  <2>1. /\ \A i \in Ends : i \in Nat \ {0}
        /\ Ends' = {i \in Nat \ {0} : i + 1 \in Ends}
        /\ 1 \in Ends <=> Head(tasks).kind = "End"
    BY <1>2, EndsTail DEF HandleTask
  <2>2. \A i, k \in Ends' : i = k
    <3> SUFFICES ASSUME NEW i \in Ends', NEW k \in Ends' PROVE i = k
      OBVIOUS
    <3>1. i \in Nat /\ k \in Nat /\ i + 1 \in Ends /\ k + 1 \in Ends
      BY <2>1
    <3>2. i + 1 = k + 1
      BY <3>1
    <3> QED
      BY <3>1, <3>2
  <2>3. CASE Head(tasks).kind = "End"
    <3>1. Ends' = {}
      <4> SUFFICES ASSUME NEW i \in Ends' PROVE FALSE
        OBVIOUS
      <4>1. i \in Nat \ {0} /\ i + 1 \in Ends
        BY <2>1
      <4>2. i + 1 = 1
        BY <2>1, <2>3, <4>1
      <4> QED
        BY <4>1, <4>2
    <3>2. is_fetching_repos' = FALSE /\ fetch' = fetch
      BY <1>2, <2>3 DEF HandleTask, HandleFetchRequest, DropFetchRequest, HandleEnd
    <3> QED
      BY <2>1, <2>3, <3>1, <3>2
  <2>4. CASE Head(tasks).kind # "End"
    <3>1. is_fetching_repos' = is_fetching_repos /\ fetch' = fetch
      BY <1>2, <2>4 DEF HandleTask, HandleFetchRequest, DropFetchRequest, HandleEnd
    <3>2. Ends # {} => Ends' # {}
      <4> SUFFICES ASSUME NEW k \in Ends PROVE Ends' # {}
        OBVIOUS
      <4>1. k \in Nat \ {0} /\ k # 1
        BY <2>1, <2>4
      <4>2. k - 1 \in Nat \ {0} /\ (k - 1) + 1 = k
        BY <4>1
      <4> QED
        BY <2>1, <4>2
    <3>3. Ends' # {} => Ends # {}
      BY <2>1
    <3> QED
      BY <2>2, <3>1, <3>2, <3>3
  <2> QED
    BY <2>3, <2>4
<1>3. CASE EndTurn
  <2>1. Ends' = Ends
    BY <1>3 DEF EndTurn, Ends
  <2> QED
    BY <1>3, <2>1 DEF EndTurn, MayFetch, StartFetch
<1>4. CASE AskToFetch
  <2>1. UNCHANGED <<is_fetching_repos, fetch>>
    BY <1>4 DEF AskToFetch, Unchanged
  <2>2. Ends' = Ends
    <3>1. CASE load.repo # None /\ load.repo \notin disk
      <4>1. FetchRequest(load.file, load.repo) \in Task
        BY <1>4, <3>1 DEF AskToFetch, FetchRequest, Task, TypeOK, JobShape, Load
      <4>2. tasks' = Append(tasks, FetchRequest(load.file, load.repo))
        BY <1>4, <3>1 DEF AskToFetch
      <4> QED
        BY <4>1, <4>2, EndsAppend DEF FetchRequest
    <3>2. CASE ~(load.repo # None /\ load.repo \notin disk)
      BY <1>4, <3>2 DEF AskToFetch, Ends
    <3> QED
      BY <3>1, <3>2
  <2> QED
    BY <2>1, <2>2
<1>5. ASSUME NEW r \in Repos, FetchRepo(r) PROVE OneFetch'
  <2>1. Ends' = Ends /\ fetch'.phase = fetch.phase
    BY <1>5 DEF FetchRepo, Ends, TypeOK
  <2> QED
    BY <1>5, <2>1 DEF FetchRepo
<1>6. CASE EndFetch
  <2>1. End(fetch.files) \in Task /\ End(fetch.files).kind = "End"
    BY DEF End, Task, TypeOK
  <2>2. Ends' = Ends \cup {Len(tasks) + 1}
    BY <1>6, <2>1, EndsAppend DEF EndFetch
  <2> QED
    BY <1>6, <2>2 DEF EndFetch, NoFetch
<1>7. CASE Client \/ Drained \/ ApplyChange \/ Completion
  BY <1>1, <1>7 DEF Client, Edit, Save, Drained, ApplyChange, Completion,
                    ListMissesMapping, ListDumps, ListInserts, SetList
<1>8. CASE /\ Analysis
           /\ ~AskToFetch
  BY <1>1, <1>8 DEF Analysis, Begin, CancelWaiting, UseCachedPath, ResolveFromMapping,
                    MissMapping, DumpMapping, InsertMapping, ReadFile, Deliver,
                    CancelLoaded, Unchanged
<1> QED
  BY <1>2, <1>3, <1>4, <1>5, <1>6, <1>7, <1>8 DEF Next, MainThread, Background

\* A repository is fetched once for the first time and once for each save.
LEMMA NextFetchIsPaid ==
  ASSUME TypeOK, JobShape, OneFetch, FetchIsPaid, Next PROVE FetchIsPaid'
<1> USE DEF FetchIsPaid, serverVars, bazelVars
<1>1. CASE UNCHANGED <<pending_repos, fetched_repos, fetches, fetch, module>>
  BY <1>1
<1>2. CASE Save
  <2>1. pending_repos' \cap fetched_repos' = {}
    BY <1>2 DEF Save
  <2>2. ASSUME NEW r \in Repos
        PROVE  fetches'[r] + One(r \in fetch'.repos) <= module' + One(r \in fetched_repos')
    <3>1. fetches[r] + One(r \in fetch.repos) <= module + One(r \in fetched_repos)
      OBVIOUS
    <3>2. fetches' = fetches /\ fetch' = fetch /\ module' = module + 1 /\ fetched_repos' = {}
      BY <1>2 DEF Save
    <3> QED
      BY <3>1, <3>2, BoundsAssumption DEF One, TypeOK
  <2> QED
    BY <2>1, <2>2
<1>3. CASE HandleTask
  BY <1>3 DEF HandleTask, HandleFetchRequest, DropFetchRequest, HandleEnd
<1>4. CASE EndTurn
  <2>1. CASE MayFetch
    <3>1. fetch.phase = "idle" /\ fetch.repos = {}
      BY <2>1 DEF MayFetch, OneFetch, JobShape, NoFetch, TypeOK
    <3>2. /\ fetched_repos' = fetched_repos \cup pending_repos /\ pending_repos' = {}
          /\ fetch'.repos = pending_repos /\ fetches' = fetches /\ module' = module
      BY <1>4, <2>1 DEF EndTurn, StartFetch
    <3>3. ASSUME NEW r \in Repos
          PROVE  fetches'[r] + One(r \in fetch'.repos) <= module' + One(r \in fetched_repos')
      <4>1. fetches[r] <= module + One(r \in fetched_repos) /\ fetches[r] \in Nat
        BY <3>1 DEF One, TypeOK
      <4>2. CASE r \in pending_repos
        BY <3>2, <4>1, <4>2, BoundsAssumption DEF One, TypeOK
      <4>3. CASE r \notin pending_repos
        BY <3>2, <4>1, <4>3, BoundsAssumption DEF One, TypeOK
      <4> QED
        BY <4>2, <4>3
    <3> QED
      BY <3>2, <3>3
  <2>2. CASE ~MayFetch
    BY <1>1, <1>4, <2>2 DEF EndTurn
  <2> QED
    BY <2>1, <2>2
<1>5. ASSUME NEW r \in Repos, FetchRepo(r) PROVE FetchIsPaid'
  <2>1. /\ r \in fetch.repos /\ fetch'.repos = fetch.repos \ {r}
        /\ fetches' = [fetches EXCEPT ![r] = @ + 1]
        /\ UNCHANGED <<pending_repos, fetched_repos, module>>
    BY <1>5 DEF FetchRepo, TypeOK
  <2>2. ASSUME NEW s \in Repos
        PROVE  fetches'[s] + One(s \in fetch'.repos) <= module' + One(s \in fetched_repos')
    <3>1. fetches[s] + One(s \in fetch.repos) <= module + One(s \in fetched_repos)
          /\ fetches[s] \in Nat /\ module \in Nat
      BY BoundsAssumption DEF TypeOK
    <3>2. CASE s = r
      BY <2>1, <3>1, <3>2 DEF One, TypeOK
    <3>3. CASE s # r
      BY <2>1, <3>1, <3>3 DEF One, TypeOK
    <3> QED
      BY <3>2, <3>3
  <2> QED
    BY <2>1, <2>2
<1>6. CASE EndFetch
  <2>1. fetch.repos = {} /\ fetch'.repos = {}
    BY <1>6 DEF EndFetch, NoFetch
  <2> QED
    BY <1>6, <2>1 DEF EndFetch
<1>7. CASE (\E f \in Files : Edit(f)) \/ Drained \/ ApplyChange \/ Analysis \/ Completion
  <2>1. UNCHANGED fetches
    BY <1>7 DEF Edit, Drained, ApplyChange, Analysis, Completion, Begin, CancelWaiting,
       UseCachedPath, ResolveFromMapping, MissMapping, DumpMapping, InsertMapping,
       ReadFile, AskToFetch, Deliver, CancelLoaded, Unchanged, ListMissesMapping,
       ListDumps, ListInserts, SetList
  <2>2. UNCHANGED fetch
    BY <1>7 DEF Edit, Drained, ApplyChange, Analysis, Completion, Begin, CancelWaiting,
       UseCachedPath, ResolveFromMapping, MissMapping, DumpMapping, InsertMapping,
       ReadFile, AskToFetch, Deliver, CancelLoaded, Unchanged, ListMissesMapping,
       ListDumps, ListInserts, SetList
  <2>3. UNCHANGED <<pending_repos, fetched_repos, module>>
    BY <1>7, TurnIsMain DEF Edit, Drained, ApplyChange
  <2> QED
    BY <1>1, <2>1, <2>2, <2>3
<1> QED
  BY <1>2, <1>3, <1>4, <1>5, <1>6, <1>7 DEF Next, Client, MainThread, Background

\* Where a file on its way can be found.
LEMMA StaysOnItsWay ==
  ASSUME NEW f \in Files, OnItsWay(f),
         Range(tasks) \subseteq Range(tasks'),
         pending_files \subseteq pending_files', fetch.files \subseteq fetch'.files,
         force \subseteq force', changed' = changed, waiting \subseteq waiting'
  PROVE  OnItsWay(f)'
BY DEF OnItsWay

\* A failure stays one that is followed when only the files on their way move on.
LEMMA FollowedOnTheWay ==
  ASSUME FailureIsFollowed, UNCHANGED <<outcome, load>>, missed \subseteq missed',
         \A f \in Files : OnItsWay(f) => OnItsWay(f)' \/ Missed(f)'
  PROVE  FailureIsFollowed'
<1> SUFFICES ASSUME NEW f \in Files, Failed(f)'
             PROVE  Analysing(f)' \/ OnItsWay(f)' \/ Missed(f)'
  BY DEF FailureIsFollowed
<1>1. Analysing(f) \/ OnItsWay(f) \/ Missed(f)
  BY DEF FailureIsFollowed, Failed
<1>2. Analysing(f) => Analysing(f)'
  BY DEF Analysing
<1>3. Missed(f) => Missed(f)'
  BY DEF Missed
<1> QED
  BY <1>1, <1>2, <1>3

\* No step of the client makes a failed file be forgotten.
LEMMA ClientFollows ==
  ASSUME TypeOK, TurnShape, FailureIsFollowed, Client PROVE FailureIsFollowed'
<1> USE DEF serverVars, bazelVars, loaderVars, jobVars
<1>1. ASSUME NEW g \in Files, Edit(g) PROVE FailureIsFollowed'
  <2>1. changed = None
    BY <1>1 DEF TurnShape, Edit
  <2>2. \A f \in Files : OnItsWay(f) => OnItsWay(f)'
    BY <1>1, <2>1, MappingAssumption DEF Edit, OnItsWay
  <2> QED
    BY <1>1, <2>2, FollowedOnTheWay DEF Edit
<1>2. CASE Save
  <2>1. \A f \in Files : OnItsWay(f) => OnItsWay(f)'
    BY <1>2 DEF Save, OnItsWay
  <2> QED
    BY <1>2, <2>1, FollowedOnTheWay DEF Save
<1> QED
  BY <1>1, <1>2 DEF Client

\* Nor does the main thread.
LEMMA MainThreadFollows ==
  ASSUME TypeOK, TurnShape, JobShape, OneFetch, FailureIsFollowed, MainThread
  PROVE  FailureIsFollowed'
<1> USE DEF serverVars, bazelVars, loaderVars, jobVars
<1>1. CASE HandleTask
  <2> DEFINE t == Head(tasks)
  <2>1. Range(tasks) = {t} \cup Range(tasks')
    BY <1>1, HandledTask
  <2>2. UNCHANGED <<outcome, load, fetch, changed, waiting>>
    BY <1>1 DEF HandleTask
  <2> HIDE DEF t
  <2>3. \/ HandleFetchRequest(t) \/ DropFetchRequest(t) \/ HandleEnd(t)
    BY <1>1 DEF HandleTask, t
  <2>4. /\ pending_files \subseteq pending_files' /\ force \subseteq force'
        /\ missed \subseteq missed'
    BY <2>3 DEF HandleFetchRequest, DropFetchRequest, HandleEnd
  <2>5. ASSUME NEW f \in Files, Carries(t, f) PROVE OnItsWay(f)' \/ Missed(f)'
    <3>1. CASE HandleFetchRequest(t)
      <4>1. f \in pending_files'
        BY <2>5, <3>1 DEF HandleFetchRequest, Carries
      <4> QED
        BY <4>1 DEF OnItsWay
    <3>2. CASE DropFetchRequest(t)
      <4>1. <<f, "dropped">> \in missed'
        BY <2>5, <3>2 DEF DropFetchRequest, Carries
      <4> QED
        BY <4>1 DEF Missed, Cause
    <3>3. CASE HandleEnd(t)
      <4>1. f \in force'
        BY <2>5, <3>3 DEF HandleEnd, Carries
      <4> QED
        BY <4>1 DEF OnItsWay
    <3> QED
      BY <2>3, <3>1, <3>2, <3>3
  <2>6. ASSUME NEW f \in Files, OnItsWay(f) PROVE OnItsWay(f)' \/ Missed(f)'
    <3>1. CASE \E u \in Range(tasks) : Carries(u, f)
      <4> PICK u \in Range(tasks) : Carries(u, f)
        BY <3>1
      <4>1. CASE u = t
        BY <2>5, <4>1
      <4>2. CASE u \in Range(tasks')
        BY <4>2 DEF OnItsWay
      <4> QED
        BY <2>1, <4>1, <4>2
    <3>2. CASE f \in pending_files \cup fetch.files \cup force \cup {changed} \cup waiting
      BY <2>2, <2>4, <3>2 DEF OnItsWay
    <3> QED
      BY <2>6, <3>1, <3>2 DEF OnItsWay
  <2> QED
    BY <2>2, <2>4, <2>6, FollowedOnTheWay
<1>2. CASE Drained
  <2>1. \A f \in Files : OnItsWay(f) => OnItsWay(f)'
    BY <1>2, StaysOnItsWay DEF Drained
  <2> QED
    BY <1>2, <2>1, FollowedOnTheWay DEF Drained
<1>3. CASE EndTurn
  <2>1. CASE MayFetch
    <3>1. fetch.files = {}
      BY <2>1 DEF MayFetch, OneFetch, JobShape, NoFetch, TypeOK
    <3>2. fetch'.files = pending_files /\ UNCHANGED <<tasks, force, changed, waiting>>
      BY <1>3, <2>1 DEF EndTurn, StartFetch
    <3>3. \A f \in Files : OnItsWay(f) => OnItsWay(f)'
      BY <3>1, <3>2 DEF OnItsWay
    <3> QED
      BY <1>3, <3>3, FollowedOnTheWay DEF EndTurn
  <2>2. CASE ~MayFetch
    <3>1. \A f \in Files : OnItsWay(f) => OnItsWay(f)'
      BY <1>3, <2>2, StaysOnItsWay DEF EndTurn
    <3> QED
      BY <1>3, <3>1, FollowedOnTheWay DEF EndTurn
  <2> QED
    BY <2>1, <2>2
<1>4. CASE ApplyChange
  <2>1. \A f \in Files : OnItsWay(f) => OnItsWay(f)'
    BY <1>4, MappingAssumption DEF ApplyChange, OnItsWay
  <2> QED
    BY <1>4, <2>1, FollowedOnTheWay DEF ApplyChange
<1> QED
  BY <1>1, <1>2, <1>3, <1>4 DEF MainThread

\* Nor do the steps of an analysis: a failure is reported with a request to
\* fetch, or with the reason there is none.
LEMMA AnalysisFollows ==
  ASSUME TypeOK, JobShape, FailureIsFollowed, Analysis
  PROVE  FailureIsFollowed'
<1> USE DEF serverVars, bazelVars, loaderVars, jobVars
<1>1. ASSUME NEW g \in Files, Begin(g) PROVE FailureIsFollowed'
  <2>1. load = Idle /\ load'.file = g /\ load'.phase = "resolve" /\ UNCHANGED outcome
    BY <1>1 DEF Begin, Idle
  <2> SUFFICES ASSUME NEW f \in Files, Failed(f)'
               PROVE  Analysing(f)' \/ OnItsWay(f)' \/ Missed(f)'
    BY DEF FailureIsFollowed
  <2>2. CASE f = g
    BY <2>1, <2>2 DEF Analysing
  <2>3. CASE f # g
    <3>1. Failed(f) /\ ~Analysing(f)
      BY <2>1, <2>3, MappingAssumption DEF Failed, Analysing, Idle
    <3>2. OnItsWay(f) \/ Missed(f)
      BY <3>1 DEF FailureIsFollowed
    <3>3. OnItsWay(f) => OnItsWay(f)'
      BY <1>1, <2>3 DEF Begin, OnItsWay
    <3>4. Missed(f) => Missed(f)'
      BY <1>1, <2>3 DEF Begin, Missed
    <3> QED
      BY <3>2, <3>3, <3>4
  <2> QED
    BY <2>2, <2>3
<1>2. ASSUME NEW g \in Files, CancelWaiting(g) PROVE FailureIsFollowed'
  <2>1. <<g, "cancelled">> \in missed'
    BY <1>2 DEF CancelWaiting
  <2>2. ASSUME NEW f \in Files, OnItsWay(f) PROVE OnItsWay(f)' \/ Missed(f)'
    <3>1. CASE f = g
      BY <2>1, <3>1 DEF Missed, Cause
    <3>2. CASE f # g
      BY <1>2, <2>2, <3>2 DEF CancelWaiting, OnItsWay
    <3> QED
      BY <3>1, <3>2
  <2> QED
    BY <1>2, <2>2, FollowedOnTheWay DEF CancelWaiting
\* A step within an analysis that is not its failure.
<1>3. ASSUME UNCHANGED <<tasks, missed, pending_files, fetch, force, changed, waiting, outcome>>,
             load.phase # "done", load'.file = load.file,
             ~(load'.phase = "done" /\ load'.outcome = "missing")
      PROVE  FailureIsFollowed'
  <2> SUFFICES ASSUME NEW f \in Files, Failed(f)'
               PROVE  Analysing(f)' \/ OnItsWay(f)' \/ Missed(f)'
    BY DEF FailureIsFollowed
  <2>1. CASE load.file = f
    BY <1>3, <2>1 DEF Analysing
  <2>2. CASE load.file # f
    <3>1. Failed(f) /\ ~Analysing(f)
      BY <1>3, <2>2 DEF Failed, Analysing
    <3>2. OnItsWay(f) \/ Missed(f)
      BY <3>1 DEF FailureIsFollowed
    <3> QED
      BY <1>3, <3>2 DEF OnItsWay, Missed
  <2> QED
    BY <2>1, <2>2
<1>4. CASE \/ UseCachedPath \/ ResolveFromMapping \/ MissMapping \/ DumpMapping
           \/ InsertMapping \/ ReadFile
  <2>1. /\ UNCHANGED <<tasks, missed, pending_files, fetch, force, changed, waiting, outcome>>
        /\ load.phase \notin {"idle", "done"}
    BY <1>4 DEF UseCachedPath, ResolveFromMapping, MissMapping, DumpMapping, InsertMapping,
                ReadFile, MustResolve, Unchanged
  <2>2. load'.file = load.file /\ ~(load'.phase = "done" /\ load'.outcome = "missing")
    <3>1. ASSUME NEW names \in Names, Resolve(names)
          PROVE  load'.file = load.file /\ ~(load'.phase = "done" /\ load'.outcome = "missing")
      BY <3>1 DEF Resolve, TypeOK, Load
    <3>2. CASE ResolveFromMapping
      BY <3>1, <3>2 DEF ResolveFromMapping, TypeOK
    <3>3. CASE InsertMapping
      BY <3>1, <3>3 DEF InsertMapping, TypeOK, Load
    <3>4. CASE DumpMapping
      <4> PICK names \in Dumped : load' = [load EXCEPT !.phase = "insert", !.names = names]
        BY <3>4 DEF DumpMapping
      <4> QED
        BY DEF TypeOK, Load
    <3>5. CASE UseCachedPath \/ MissMapping
      BY <3>5 DEF UseCachedPath, MissMapping, TypeOK, Load
    <3>6. CASE ReadFile
      BY <3>6 DEF ReadFile, TypeOK, Load
    <3> QED
      BY <1>4, <3>2, <3>3, <3>4, <3>5, <3>6
  <2> QED
    BY <1>3, <2>1, <2>2
<1>5. CASE AskToFetch
  <2> PICK g \in Files : g = load.file
    BY <1>5 DEF AskToFetch, JobShape, TypeOK, Load
  <2>1. UNCHANGED <<outcome, pending_files, fetch, force, changed, waiting>>
    BY <1>5 DEF AskToFetch, Unchanged, JobShape, TypeOK, Load
  <2>2. load'.file = g
    BY <1>5 DEF AskToFetch, TypeOK, Load
  <2>3. (OnItsWay(g)' \/ Missed(g)') /\ Range(tasks) \subseteq Range(tasks')
        /\ missed \subseteq missed'
    <3>1. CASE load.repo # None /\ load.repo \notin disk
      <4>1. FetchRequest(g, load.repo) \in Task
        BY <2>1, <3>1 DEF FetchRequest, Task, TypeOK, Load
      <4>2. tasks' = Append(tasks, FetchRequest(g, load.repo)) /\ missed' = missed
        BY <1>5, <3>1 DEF AskToFetch
      <4>3. Range(tasks') = Range(tasks) \cup {FetchRequest(g, load.repo)}
        BY <4>1, <4>2, RangeAppend DEF TypeOK
      <4>4. Carries(FetchRequest(g, load.repo), g)
        BY DEF Carries, FetchRequest
      <4> QED
        BY <4>2, <4>3, <4>4 DEF OnItsWay
    <3>2. CASE ~(load.repo # None /\ load.repo \notin disk)
      <4>1. missed' = missed \cup {<<g, "silent">>} /\ tasks' = tasks
        BY <1>5, <3>2 DEF AskToFetch
      <4> QED
        BY <4>1 DEF Missed, Cause
    <3> QED
      BY <3>1, <3>2
  <2> SUFFICES ASSUME NEW f \in Files, Failed(f)'
               PROVE  Analysing(f)' \/ OnItsWay(f)' \/ Missed(f)'
    BY DEF FailureIsFollowed
  <2>4. CASE f = g
    BY <2>3, <2>4
  <2>5. CASE f # g
    <3>1. Failed(f) /\ ~Analysing(f)
      BY <2>1, <2>2, <2>5 DEF Failed, Analysing
    <3>2. OnItsWay(f) \/ Missed(f)
      BY <3>1 DEF FailureIsFollowed
    <3>3. OnItsWay(f) => OnItsWay(f)'
      BY <2>1, <2>3, StaysOnItsWay
    <3> QED
      BY <2>3, <3>2, <3>3 DEF Missed
  <2> QED
    BY <2>4, <2>5
<1>6. CASE Deliver
  <2>1. /\ UNCHANGED <<tasks, missed, pending_files, fetch, force, changed, waiting>>
        /\ outcome' = [outcome EXCEPT ![load.file] = load.outcome] /\ load' = Idle
        /\ load.phase = "done" /\ load.file \in Files
    BY <1>6 DEF Deliver, JobShape, TypeOK, Load
  <2> SUFFICES ASSUME NEW f \in Files, Failed(f)' PROVE OnItsWay(f)' \/ Missed(f)'
    BY DEF FailureIsFollowed
  <2>2. outcome'[f] = "missing"
    BY <2>1 DEF Failed, Idle
  <2>3. Failed(f) /\ ~Analysing(f)
    BY <2>1, <2>2 DEF Failed, Analysing, TypeOK
  <2>4. OnItsWay(f) \/ Missed(f)
    BY <2>3 DEF FailureIsFollowed
  <2> QED
    BY <2>1, <2>4 DEF OnItsWay, Missed
<1>7. CASE CancelLoaded
  <2>1. /\ UNCHANGED <<tasks, pending_files, fetch, force, changed, waiting, outcome>>
        /\ missed' = missed \cup {<<load.file, "cancelled">>} /\ load' = Idle
    BY <1>7 DEF CancelLoaded
  <2> SUFFICES ASSUME NEW f \in Files, Failed(f)' PROVE OnItsWay(f)' \/ Missed(f)'
    BY DEF FailureIsFollowed
  <2>2. CASE f = load.file
    BY <2>1, <2>2 DEF Missed, Cause
  <2>3. CASE f # load.file
    <3>1. Failed(f) /\ ~Analysing(f)
      BY <2>1, <2>3 DEF Failed, Analysing, Idle
    <3>2. OnItsWay(f) \/ Missed(f)
      BY <3>1 DEF FailureIsFollowed
    <3> QED
      BY <2>1, <3>2 DEF OnItsWay, Missed
  <2> QED
    BY <2>2, <2>3
<1> QED
  BY <1>1, <1>2, <1>4, <1>5, <1>6, <1>7 DEF Analysis

\* Nor completions, nor the fetch, whose End carries its files.
LEMMA OthersFollow ==
  ASSUME TypeOK, JobShape, FailureIsFollowed, Completion \/ Background
  PROVE  FailureIsFollowed'
<1> USE DEF serverVars, bazelVars, loaderVars, jobVars
<1>1. CASE Completion
  <2>1. UNCHANGED <<tasks, pending_files, fetch, force, changed, waiting, outcome, load, missed>>
    BY <1>1 DEF Completion, ListMissesMapping, ListDumps, ListInserts, SetList
  <2> QED
    BY <2>1, FollowedOnTheWay, StaysOnItsWay
<1>2. ASSUME NEW r \in Repos, FetchRepo(r) PROVE FailureIsFollowed'
  <2>1. /\ UNCHANGED <<tasks, pending_files, force, changed, waiting, outcome, load, missed>>
        /\ fetch'.files = fetch.files
    BY <1>2 DEF FetchRepo, TypeOK
  <2> QED
    BY <2>1, FollowedOnTheWay, StaysOnItsWay
<1>3. CASE EndFetch
  <2>1. /\ UNCHANGED <<pending_files, force, changed, waiting, outcome, load, missed>>
        /\ tasks' = Append(tasks, End(fetch.files))
    BY <1>3 DEF EndFetch
  <2>2. End(fetch.files) \in Task
    BY DEF End, Task, TypeOK
  <2>3. Range(tasks') = Range(tasks) \cup {End(fetch.files)}
    BY <2>1, <2>2, RangeAppend DEF TypeOK
  <2>4. \A f \in fetch.files : Carries(End(fetch.files), f)
    BY DEF Carries, End
  <2>5. \A f \in Files : OnItsWay(f) => OnItsWay(f)'
    BY <2>1, <2>3, <2>4 DEF OnItsWay
  <2> QED
    BY <2>1, <2>5, FollowedOnTheWay
<1> QED
  BY <1>1, <1>2, <1>3 DEF Background

\* The invariant holds at first.
LEMMA InitIInv == Init => IInv
<1> SUFFICES ASSUME Init PROVE IInv
  OBVIOUS
<1>1. TypeOK
  BY InitType
<1>2. TurnShape /\ JobShape
  BY DEF Init, TurnShape, JobShape, Idle, NoFetch
<1>3. Ends = {} /\ OneFetch
  BY DEF Init, Ends, OneFetch, NoFetch
<1>4. FetchIsPaid
  BY DEF Init, FetchIsPaid, One, NoFetch
<1>5. FailureIsFollowed
  BY MappingAssumption DEF Init, FailureIsFollowed, Failed, Idle
<1> QED
  BY <1>1, <1>2, <1>3, <1>4, <1>5 DEF IInv

\* Every step keeps it.
LEMMA NextIInv ==
  ASSUME IInv, [Next]_vars PROVE IInv'
<1> USE DEF IInv
<1>1. TypeOK'
  BY NextType
<1>2. CASE Next
  <2>1. FailureIsFollowed'
    BY <1>2, ClientFollows, MainThreadFollows, AnalysisFollows, OthersFollow DEF Next
  <2> QED
    BY <1>1, <1>2, <2>1, NextTurnShape, NextJobShape, NextOneFetch, NextFetchIsPaid
<1>3. CASE UNCHANGED vars
  <2> USE <1>3 DEF vars, serverVars, bazelVars, loaderVars, jobVars
  <2>1. TurnShape' /\ JobShape'
    BY DEF TurnShape, JobShape
  <2>2. OneFetch'
    BY DEF OneFetch, Ends
  <2>3. FetchIsPaid'
    BY DEF FetchIsPaid
  <2>4. FailureIsFollowed'
    BY FollowedOnTheWay, StaysOnItsWay
  <2> QED
    BY <1>1, <2>1, <2>2, <2>3, <2>4
<1> QED
  BY <1>2, <1>3

(***************************************************************************)
(* The inductive invariant.                                                *)
(***************************************************************************)
THEOREM Invariance == Spec => []IInv
BY InitIInv, NextIInv, PTL DEF Spec

(***************************************************************************)
(* Every variable keeps its type, whatever the files, repositories,        *)
(* mappings and bounds.                                                    *)
(***************************************************************************)
THEOREM TypeCorrect == Spec => []TypeOK
<1>1. IInv => TypeOK
  BY DEF IInv
<1> QED
  BY <1>1, Invariance, PTL

(***************************************************************************)
(* Fetches never overlap, and the flag is down only when none is left      *)
(* (fetch_bazel_external_repos, FetchExternalReposProgress::End).          *)
(***************************************************************************)
THEOREM OneFetchHolds == Spec => []OneFetch
<1>1. IInv => OneFetch
  BY DEF IInv
<1> QED
  BY <1>1, Invariance, PTL

(***************************************************************************)
(* A repository is fetched no more often than one plus the saves of        *)
(* MODULE.bazel, whoever asks for it and when (Task::FetchExternalRepos).  *)
(***************************************************************************)
THEOREM FetchedOncePerSaveHolds == Spec => []FetchedOncePerSave
<1>1. IInv => FetchedOncePerSave
  <2> SUFFICES ASSUME IInv, NEW r \in Repos PROVE fetches[r] <= module + 1
    BY DEF FetchedOncePerSave
  <2>1. fetches[r] + One(r \in fetch.repos) <= module + One(r \in fetched_repos)
    BY DEF IInv, FetchIsPaid
  <2> QED
    BY <2>1, BoundsAssumption DEF IInv, TypeOK, One
<1> QED
  BY <1>1, Invariance, PTL

(***************************************************************************)
(* When the server is at rest, a file whose load failed has been told to   *)
(* be so for one of the three causes: its request was dropped, it made     *)
(* none, or its analysis was cancelled.  There is no fourth.               *)
(***************************************************************************)
THEOREM NoRequesterIsForgotten == Spec => []NoRequesterForgotten
<1>1. IInv => NoRequesterForgotten
  <2> SUFFICES ASSUME IInv, AtRest, NEW f \in Files, outcome[f] = "missing"
               PROVE  \E c \in Cause : <<f, c>> \in missed
    BY DEF NoRequesterForgotten
  <2>1. Analysing(f) \/ OnItsWay(f) \/ Missed(f)
    BY DEF IInv, FailureIsFollowed, Failed
  <2>2. ~Analysing(f)
    BY MappingAssumption DEF AtRest, Analysing, Idle
  <2>3. Range(tasks) = {} /\ Ends = {}
    BY DEF AtRest, Range, Ends
  <2>4. force = {} /\ changed = None /\ waiting = {} /\ fetch.files = {}
    BY DEF IInv, AtRest, TurnShape, NoFetch
  <2>5. ~is_fetching_repos
    BY <2>3 DEF IInv, AtRest, OneFetch, NoFetch
  <2>6. pending_files = {}
    BY <2>5 DEF IInv, AtRest, TurnShape
  <2>7. ~OnItsWay(f)
    BY <2>3, <2>4, <2>6, MappingAssumption DEF OnItsWay
  <2> QED
    BY <2>1, <2>2, <2>7 DEF Missed
<1> QED
  BY <1>1, Invariance, PTL
=============================================================================
