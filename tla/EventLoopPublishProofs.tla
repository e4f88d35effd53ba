---------------------- MODULE EventLoopPublishProofs ----------------------
(***************************************************************************)
(* What the client sees of the diagnostics: those that are stored and      *)
(* fresh have been published.                                              *)
(***************************************************************************)
EXTENDS EventLoopProofs

\* The results on their way are well typed, wherever they are.
LEMMA ResultsType ==
  ASSUME TypeOK
  PROVE  /\ ResultsOnTheirWay \subseteq Result
         /\ \A t \in Range(tasks) : ResultsOf(t) \subseteq ResultsOnTheirWay
         /\ \A j \in Jobs : jobs[j].results \subseteq ResultsOnTheirWay
<1>1. Range(tasks) \subseteq Task
  BY DEF TypeOK, Range
<1>2. \A t \in Task : ResultsOf(t) \subseteq Result
  BY DEF Task, ResultsOf
<1>3. \A j \in Jobs : jobs[j].results \subseteq Result
  BY DEF TypeOK, Job
<1> QED
  BY <1>1, <1>2, <1>3 DEF ResultsOnTheirWay

\* What a step does to one job's results: it may add one, of a present text.
LEMMA JobResultsStep ==
  ASSUME TypeOK, [Next]_vars, NEW k \in Jobs, NEW r \in jobs'[k].results
  PROVE  \/ r \in jobs[k].results
         \/ /\ UNCHANGED <<db, tasks>>
            /\ \E f \in jobs[k].files : r = [file |-> f, text |-> db[f]]
<1>1. jobs \in [Jobs -> Job]
  BY DEF TypeOK
<1> JobStep
  BY NextJobs
<1>2. CASE UNCHANGED jobs
  BY <1>2
<1>3. CASE \E S \in SUBSET Files : SpawnDiagnostics(S)
  BY <1>1, <1>3 DEF SpawnDiagnostics, Running
<1>4. ASSUME NEW j \in Jobs, NEW f \in Files, Analyze(j, f) \/ SkipCancelled(j, f)
      PROVE  \/ r \in jobs[k].results
             \/ /\ UNCHANGED <<db, tasks>>
                /\ \E g \in jobs[k].files : r = [file |-> g, text |-> db[g]]
  <2>1. CASE Analyze(j, f)
    BY <1>1, <2>1 DEF Analyze, Running
  <2>2. CASE SkipCancelled(j, f)
    BY <1>1, <2>2 DEF SkipCancelled, Running
  <2> QED
    BY <1>4, <2>1, <2>2
<1>5. ASSUME NEW j \in Jobs, jobs' = [jobs EXCEPT ![j].phase = "sending"]
      PROVE  r \in jobs[k].results
  <2>1. \A q \in Job : [q EXCEPT !.phase = "sending"].results = q.results
    BY DEF Job
  <2>2. jobs'[k] = jobs[k] \/ jobs'[k] = [jobs[k] EXCEPT !.phase = "sending"]
    BY <1>1, <1>5
  <2> QED
    BY <1>1, <2>1, <2>2
<1>6. ASSUME NEW j \in Jobs, jobs' = [jobs EXCEPT ![j] = FreeJob]
      PROVE  r \in jobs[k].results
  BY <1>1, <1>6 DEF FreeJob
<1> QED
  BY <1>2, <1>3, <1>4, <1>5, <1>6 DEF JobStep

\* What a step sends to the main thread: no results but a job's own.
LEMMA TaskResultsStep ==
  ASSUME TypeOK, [Next]_vars, NEW t \in Range(tasks'), NEW r \in ResultsOf(t)
  PROVE  r \in ResultsOnTheirWay
<1>1. tasks \in Seq(Task)
  BY DEF TypeOK
<1>2. CASE t \in Range(tasks)
  BY <1>2, ResultsType
<1>3. CASE tasks # <<>> /\ tasks' = Tail(tasks)
  BY <1>1, <1>2, <1>3, RangeTail
<1>4. ASSUME NEW S \in SUBSET Files,
             \/ tasks' = Append(tasks, AnalysisRequested(S))
             \/ tasks' = Append(tasks, FetchEnd(S))
      PROVE  r \in ResultsOnTheirWay
  <2>0. AnalysisRequested(S) \in Task /\ FetchEnd(S) \in Task
    BY TaskType
  <2>1. /\ Range(Append(tasks, AnalysisRequested(S))) = Range(tasks) \cup {AnalysisRequested(S)}
        /\ Range(Append(tasks, FetchEnd(S))) = Range(tasks) \cup {FetchEnd(S)}
    BY <1>1, <2>0, RangeAppend
  <2>2. t \in Range(tasks) \/ t = AnalysisRequested(S) \/ t = FetchEnd(S)
    BY <1>4, <2>1
  <2> QED
    BY <1>2, <2>2 DEF ResultsOf, AnalysisRequested, FetchEnd
<1>5. ASSUME NEW j \in Jobs, tasks' = Append(tasks, DiagnosticsReady(jobs[j].results))
      PROVE  r \in ResultsOnTheirWay
  <2>1. DiagnosticsReady(jobs[j].results) \in Task
    BY TaskType DEF TypeOK, Job
  <2>2. t \in Range(tasks) \cup {DiagnosticsReady(jobs[j].results)}
    BY <1>1, <1>5, <2>1, RangeAppend
  <2> QED
    BY <1>2, <2>2, ResultsType DEF ResultsOf, DiagnosticsReady
<1> QED
  BY <1>2, <1>3, <1>4, <1>5, NextTasks DEF TaskStep

\* What a step can do to the texts of the document manager and the database.
TextStep(f) ==
  \/ /\ UNCHANGED db
     /\ \/ documents'[f].text = documents[f].text /\ edits' \in {edits, edits + 1}
        \/ documents'[f].text = edits + 1 /\ edits' = edits + 1
  \/ UNCHANGED <<documents, edits>> /\ db'[f] \in {db[f], documents[f].text}

\* A step may give a document a new text, or the database the document's.
LEMMA NextTexts ==
  ASSUME TypeOK, [Next]_vars, NEW f \in Files
  PROVE  TextStep(f)
<1> USE DEF TextStep, docVars, taskVars, deboVars, counters
<1>0. documents \in [Files -> [text : Text, editor : BOOLEAN]] /\ db \in [Files -> Text]
  BY DEF TypeOK
<1>1. CASE Notification
  <2>1. PICK g \in Files : DidOpen(g) \/ DidChange(g) \/ DidClose(g)
    BY <1>1 DEF Notification
  <2>2. CASE DidClose(g)
    BY <1>0, <2>2 DEF DidClose
  <2>3. ASSUME NEW kind, ReceiveText(g, kind) PROVE TextStep(f)
    BY <1>0, <2>3 DEF ReceiveText
  <2> QED
    BY <2>1, <2>2, <2>3 DEF DidOpen, DidChange
<1>2. CASE MainThread
  <2>1. CASE Apply
    BY <1>0, <2>1 DEF Apply, EndTurn
  <2> QED
    BY <1>2, <2>1 DEF MainThread, HandleTask, Drained, NothingToApply, BeginApply, EndTurn
<1>3. CASE Debouncer
  BY <1>3 DEF Debouncer, DebouncerReceive, DebouncerTimeout
<1>4. ASSUME NEW j \in Jobs, Worker(j) PROVE TextStep(f)
  BY <1>4 DEF Worker, Analyze, SkipCancelled, Return, Send
<1>5. CASE Fetcher
  BY <1>5 DEF Fetcher, FetchFinished
<1>6. CASE UNCHANGED vars
  BY <1>6 DEF vars
<1> QED
  BY <1>1, <1>2, <1>3, <1>4, <1>5, <1>6 DEF Next

\* What the handler of DiagnosticsReady stores is one of the results it got.
LEMMA StoredResult ==
  ASSUME TypeOK, TaskShape, HandleTask, NEW f \in Files, diagnostics'[f] # diagnostics[f]
  PROVE  /\ HandleDiagnosticsReady(Head(tasks))
         /\ f \in files_with_changed_diagnostics'
         /\ \E r \in ResultsOf(Head(tasks)) : r.file = f /\ diagnostics'[f] = r.text
<1> DEFINE t == Head(tasks)
<1>1. HandleDiagnosticsReady(t)
  BY DEF HandleTask, HandleAnalysisRequested, HandleFetchEnd
<1>2. /\ diagnostics'[f] = IF f \in FilesOf(t.results)
                           THEN (CHOOSE r \in t.results : r.file = f).text
                           ELSE diagnostics[f]
      /\ t.kind = "DiagnosticsReady"
      /\ FilesOf(t.results) \subseteq files_with_changed_diagnostics'
  BY <1>1 DEF HandleDiagnosticsReady
<1>3. f \in FilesOf(t.results)
  BY <1>2
<1>4. \E r \in t.results : r.file = f
  BY <1>3 DEF FilesOf
<1>5. /\ (CHOOSE r \in t.results : r.file = f) \in t.results
      /\ (CHOOSE r \in t.results : r.file = f).file = f
  BY <1>4
<1> HIDE DEF t
<1> QED
  BY <1>1, <1>2, <1>3, <1>5 DEF ResultsOf, t

\* Only that handler changes the stored diagnostics.
LEMMA OnlyHandlerStores ==
  ASSUME [Next]_vars, ~HandleTask
  PROVE  UNCHANGED diagnostics
<1> USE DEF docVars, taskVars, deboVars, counters
<1>1. CASE Notification
  BY <1>1 DEF Notification, DidOpen, DidChange, DidClose, ReceiveText
<1>2. CASE MainThread
  BY <1>2 DEF MainThread, Drained, NothingToApply, BeginApply, Apply, EndTurn
<1>3. CASE Debouncer
  BY <1>3 DEF Debouncer, DebouncerReceive, DebouncerTimeout
<1>4. ASSUME NEW j \in Jobs, Worker(j) PROVE UNCHANGED diagnostics
  BY <1>4 DEF Worker, Analyze, SkipCancelled, Return, Send
<1>5. CASE Fetcher
  BY <1>5 DEF Fetcher, FetchFinished
<1>6. CASE UNCHANGED vars
  BY <1>6 DEF vars
<1> QED
  BY <1>1, <1>2, <1>3, <1>4, <1>5, <1>6 DEF Next

\* Texts move forward in every step.
LEMMA TextsStep ==
  ASSUME TypeOK, TaskShape, TextsMoveForward, [Next]_vars
  PROVE  TextsMoveForward'
<1>1. TypeOK'
  BY TypeStep
<1>2. ASSUME NEW f \in Files
      PROVE  /\ db[f] <= db'[f]
             /\ db'[f] <= documents'[f].text
             /\ documents'[f].text <= edits'
  <2>1. /\ db[f] \in Nat /\ documents[f].text \in Nat /\ edits \in Nat
        /\ db[f] <= documents[f].text /\ documents[f].text <= edits
    BY BoundsAssumption DEF TypeOK, Text, TextsMoveForward
  <2> QED
    BY <2>1, NextTexts DEF TextStep
<1>3. ASSUME NEW r \in ResultsOnTheirWay
      PROVE  /\ r.file \in Files /\ r.text \in Nat
             /\ r.text <= db'[r.file]
  <2>1. r.file \in Files /\ r.text \in Nat /\ r.text <= db[r.file]
    BY ResultsType, BoundsAssumption DEF Result, Text, TextsMoveForward
  <2>2. db[r.file] \in Nat /\ db'[r.file] \in Nat
    BY <1>1, <2>1, BoundsAssumption DEF TypeOK, Text
  <2> QED
    BY <1>2, <2>1, <2>2
<1>4. ASSUME NEW f \in Files PROVE diagnostics'[f] <= db'[f]
  <2>1. diagnostics[f] \in Nat /\ db[f] \in Nat /\ db'[f] \in Nat /\ diagnostics[f] <= db[f]
    BY <1>1, BoundsAssumption DEF TypeOK, Text, TextsMoveForward
  <2>2. CASE diagnostics'[f] = diagnostics[f]
    BY <1>2, <2>1, <2>2
  <2>3. CASE diagnostics'[f] # diagnostics[f]
    <3>1. HandleTask
      BY <2>3, OnlyHandlerStores
    <3>2. PICK r \in ResultsOf(Head(tasks)) : r.file = f /\ diagnostics'[f] = r.text
      BY <2>3, <3>1, StoredResult
    <3>3. Head(tasks) \in Range(tasks)
      BY <3>1, RangeTail DEF HandleTask, TypeOK
    <3> QED
      BY <1>3, <3>2, <3>3, ResultsType
  <2> QED
    BY <2>2, <2>3
<1>5. ASSUME NEW r \in ResultsOnTheirWay' PROVE r.text <= db'[r.file]
  <2>1. CASE \E t \in Range(tasks') : r \in ResultsOf(t)
    BY <1>3, <2>1, TaskResultsStep
  <2>2. CASE \E k \in Jobs : r \in jobs'[k].results
    <3>1. PICK k \in Jobs : r \in jobs'[k].results
      BY <2>2
    <3>2. CASE r \in jobs[k].results
      BY <1>3, <3>2, ResultsType
    <3>3. CASE \E f \in jobs[k].files : r = [file |-> f, text |-> db[f]]
      <4>1. PICK f \in jobs[k].files : r = [file |-> f, text |-> db[f]]
        BY <3>3
      <4>2. f \in Files
        BY DEF TypeOK, Job
      <4> QED
        BY <1>2, <4>1, <4>2
    <3> QED
      BY <3>1, <3>2, <3>3, JobResultsStep
  <2>3. \/ \E t \in Range(tasks') : r \in ResultsOf(t)
        \/ \E k \in Jobs : r \in jobs'[k].results
    BY DEF ResultsOnTheirWay, ResultsOf
  <2> QED
    BY <2>1, <2>2, <2>3
<1> QED
  BY <1>2, <1>4, <1>5 DEF TextsMoveForward

-----------------------------------------------------------------------------
(***************************************************************************)
(* Fresh diagnostics are published, or listed to be at the end of the turn. *)
(***************************************************************************)

\* A notification leaves the published ones of the other documents.
LEMMA NotificationPublished ==
  ASSUME PublishedIInv, Notification PROVE PublishedOrListed'
<1> USE DEF docVars, taskVars, deboVars, counters
<1> PICK g \in Files : DidOpen(g) \/ DidChange(g) \/ DidClose(g)
  BY DEF Notification
<1>1. /\ turn' = "process"
      /\ UNCHANGED <<diagnostics, files_with_changed_diagnostics, published>>
  BY DEF DidOpen, DidChange, DidClose, ReceiveText
<1>2. documents \in [Files -> [text : Text, editor : BOOLEAN]]
  BY DEF PublishedIInv, IInv, TypeOK
<1> SUFFICES ASSUME NEW f \in Files, IsOpen(f)', diagnostics[f] = documents'[f].text
             PROVE  \/ published[f].text = diagnostics[f]
                    \/ f \in files_with_changed_diagnostics
  BY <1>1 DEF PublishedOrListed
<1>3. CASE documents'[f] = documents[f]
  BY <1>3 DEF PublishedIInv, PublishedOrListed, IsOpen
<1>4. ASSUME NEW kind, ReceiveText(g, kind), f = g PROVE FALSE
  <2>1. documents'[f].text = edits + 1
    BY <1>2, <1>4 DEF ReceiveText
  <2>2. diagnostics[f] <= db[f] /\ db[f] <= documents[f].text /\ documents[f].text <= edits
    BY DEF PublishedIInv, TextsMoveForward
  <2>3. diagnostics[f] \in Nat /\ db[f] \in Nat /\ documents[f].text \in Nat /\ edits \in Nat
    BY BoundsAssumption DEF PublishedIInv, IInv, TypeOK, Text
  <2> QED
    BY <2>1, <2>2, <2>3
<1>5. CASE DidClose(g)
  <2>1. f # g
    BY <1>2, <1>5 DEF DidClose, IsOpen
  <2> QED
    BY <1>2, <1>3, <1>5, <2>1 DEF DidClose
<1>6. ASSUME NEW kind, ReceiveText(g, kind), f # g PROVE documents'[f] = documents[f]
  BY <1>2, <1>6 DEF ReceiveText
<1> QED
  BY <1>3, <1>4, <1>5, <1>6 DEF DidOpen, DidChange

\* Handling a task lists the files it stores diagnostics of; the turn's end publishes them.
LEMMA MainThreadPublished ==
  ASSUME PublishedIInv, MainThread PROVE PublishedOrListed'
<1> USE DEF docVars, taskVars, deboVars, counters
<1>1. CASE HandleTask
  <2>1. turn' = "drain" /\ UNCHANGED <<documents, published>>
    BY <1>1 DEF HandleTask
  <2>2. files_with_changed_diagnostics \subseteq files_with_changed_diagnostics'
    BY <1>1 DEF HandleTask, HandleAnalysisRequested, HandleDiagnosticsReady, HandleFetchEnd
  <2>3. ASSUME NEW f \in Files, diagnostics'[f] # diagnostics[f]
        PROVE  f \in files_with_changed_diagnostics'
    BY <1>1, <2>3, StoredResult DEF PublishedIInv, IInv
  <2> QED
    BY <2>1, <2>2, <2>3 DEF PublishedIInv, PublishedOrListed, IsOpen
<1>2. ASSUME NEW b, EndTurn(b) PROVE PublishedOrListed'
  BY <1>2 DEF EndTurn, PublishDiagnostics, PublishedIInv, PublishedOrListed, IsOpen
<1>3. CASE Drained \/ BeginApply
  BY <1>3 DEF Drained, BeginApply, PublishedIInv, PublishedOrListed, IsOpen
<1> QED
  BY <1>1, <1>2, <1>3 DEF MainThread, NothingToApply, Apply

\* Every step keeps what makes the publication of diagnostics complete.
LEMMA PublishedInductive == PublishedIInv /\ [Next]_vars => PublishedIInv'
<1> SUFFICES ASSUME PublishedIInv, [Next]_vars PROVE PublishedIInv'
  OBVIOUS
<1>1. IInv' /\ TextsMoveForward'
  BY Inductive, TextsStep DEF PublishedIInv, IInv
<1>2. PublishedOrListed'
  <2>1. ASSUME UNCHANGED <<turn, docVars, taskVars, published>> PROVE PublishedOrListed'
    BY <2>1 DEF docVars, taskVars, PublishedIInv, PublishedOrListed, IsOpen
  <2>2. CASE Debouncer
    BY <2>1, <2>2 DEF Debouncer, DebouncerReceive, DebouncerTimeout
  <2>3. ASSUME NEW j \in Jobs, Worker(j) PROVE PublishedOrListed'
    BY <2>1, <2>3 DEF Worker, Analyze, SkipCancelled, Return, Send
  <2>4. CASE Fetcher
    BY <2>1, <2>4 DEF Fetcher, FetchFinished
  <2>5. CASE UNCHANGED vars
    BY <2>1, <2>5 DEF vars
  <2> QED
    BY <2>2, <2>3, <2>4, <2>5, NotificationPublished, MainThreadPublished DEF Next
<1> QED
  BY <1>1, <1>2 DEF PublishedIInv

\* Texts move forward at first, when there are none.
LEMMA InitTexts == Init => TextsMoveForward
<1> SUFFICES ASSUME Init PROVE TextsMoveForward
  OBVIOUS
<1>1. ResultsOnTheirWay = {}
  BY DEF Init, ResultsOnTheirWay, FreeJob, Range
<1> QED
  BY <1>1 DEF Init, TextsMoveForward

(***************************************************************************)
(* For any number of documents, edits and closes, and however late jobs    *)
(* send: when the server waits for the next message, an open document      *)
(* whose stored diagnostics are of its present text has them published     *)
(* (DiagnosticsManager::take_changes misses no file).                      *)
(***************************************************************************)
THEOREM FreshIsPublished == Spec => []FreshDiagnosticsArePublished
<1>1. Init => PublishedIInv
  BY InitInv, InitTexts DEF PublishedIInv, PublishedOrListed, Init
<1>2. PublishedIInv => FreshDiagnosticsArePublished
  BY DEF PublishedIInv, PublishedOrListed, FreshDiagnosticsArePublished
<1> QED
  BY <1>1, <1>2, PublishedInductive, PTL DEF Spec

=============================================================================
