-------------------------- MODULE EventLoopProofs --------------------------
(***************************************************************************)
(* Theorems about EventLoop for every set of files and jobs and every      *)
(* bound: its type invariant, that the database follows the document       *)
(* manager, and that no analysis is forgotten silently.                    *)
(***************************************************************************)
EXTENDS EventLoop, TLAPS

\* Facts about the two channels, used wherever one is appended to or read.
LEMMA HeadTail ==
  ASSUME NEW S, NEW s \in Seq(S), s # <<>>
  PROVE  /\ Head(s) \in S
         /\ Tail(s) \in Seq(S)
         /\ Len(Tail(s)) = Len(s) - 1
         /\ Len(s) \in Nat \ {0}
         /\ Head(s) = s[1]
         /\ \A i \in 1..Len(s) - 1 : Tail(s)[i] = s[i + 1]
  OBVIOUS

\* A sequence with an element more, at its end.
LEMMA AppendSeq ==
  ASSUME NEW S, NEW s \in Seq(S), NEW e \in S
  PROVE  /\ Append(s, e) \in Seq(S)
         /\ Len(Append(s, e)) = Len(s) + 1
         /\ Append(s, e)[Len(s) + 1] = e
         /\ \A i \in 1..Len(s) : Append(s, e)[i] = s[i]
  OBVIOUS

\* The messages of a channel after one is sent.
LEMMA RangeAppend ==
  ASSUME NEW S, NEW s \in Seq(S), NEW e \in S
  PROVE  Range(Append(s, e)) = Range(s) \cup {e}
<1>1. DOMAIN Append(s, e) = 1..Len(s) + 1 /\ DOMAIN s = 1..Len(s) /\ Len(s) \in Nat
  BY AppendSeq
<1>2. Range(Append(s, e)) \subseteq Range(s) \cup {e}
  <2> SUFFICES ASSUME NEW i \in 1..Len(s) + 1
               PROVE  Append(s, e)[i] \in Range(s) \cup {e}
    BY <1>1 DEF Range
  <2>1. i \in 1..Len(s) \/ i = Len(s) + 1
    BY <1>1
  <2> QED
    BY <1>1, <2>1, AppendSeq DEF Range
<1>3. Range(s) \subseteq Range(Append(s, e))
  BY <1>1, AppendSeq DEF Range
<1>4. e \in Range(Append(s, e))
  BY <1>1, AppendSeq DEF Range
<1> QED
  BY <1>2, <1>3, <1>4

\* The messages of a channel are its first and those after it.
LEMMA RangeTail ==
  ASSUME NEW S, NEW s \in Seq(S), s # <<>>
  PROVE  Range(s) = {Head(s)} \cup Range(Tail(s))
<1>1. DOMAIN Tail(s) = 1..Len(s) - 1 /\ DOMAIN s = 1..Len(s) /\ Len(s) \in Nat \ {0}
  BY HeadTail
<1>2. Range(s) \subseteq {Head(s)} \cup Range(Tail(s))
  <2> SUFFICES ASSUME NEW i \in 1..Len(s)
               PROVE  s[i] \in {Head(s)} \cup Range(Tail(s))
    BY <1>1 DEF Range
  <2>1. CASE i = 1
    BY <2>1, HeadTail
  <2>2. CASE i # 1
    <3>1. i - 1 \in 1..Len(s) - 1 /\ (i - 1) + 1 = i
      BY <1>1, <2>2
    <3>2. Tail(s)[i - 1] = s[i]
      BY <3>1, HeadTail
    <3> QED
      BY <1>1, <3>1, <3>2 DEF Range
  <2> QED
    BY <2>1, <2>2
<1>3. Head(s) \in Range(s)
  BY <1>1, HeadTail DEF Range
<1>4. Range(Tail(s)) \subseteq Range(s)
  <2> SUFFICES ASSUME NEW i \in 1..Len(s) - 1 PROVE Tail(s)[i] \in Range(s)
    BY <1>1 DEF Range
  <2>1. i + 1 \in 1..Len(s)
    BY <1>1
  <2> QED
    BY <1>1, <2>1, HeadTail DEF Range
<1> QED
  BY <1>2, <1>3, <1>4

\* Every variable has its type at first.
LEMMA InitType == Init => TypeOK
<1> SUFFICES ASSUME Init PROVE TypeOK
  OBVIOUS
<1> USE BoundsAssumption DEF Init
<1>1. jobs \in [Jobs -> Job]
  BY DEF FreeJob, Job
<1>2. documents \in [Files -> [text : Text, editor : BOOLEAN]]
  BY DEF Text
<1>3. published \in [Files -> [version : Text, text : Text]]
  BY DEF Text
<1>4. diagnostics \in [Files -> Text] /\ db \in [Files -> Text]
  BY DEF Text
<1>5. debouncer_source \in Seq(SUBSET Files) /\ tasks \in Seq(Task)
  OBVIOUS
<1>6. edits \in Text /\ closes \in Nat /\ fetches \in Nat
  BY DEF Text
<1> QED
  BY <1>1, <1>2, <1>3, <1>4, <1>5, <1>6 DEF TypeOK

\* The messages the actions send are tasks.
LEMMA TaskType ==
  ASSUME NEW S \in SUBSET Files, NEW R \in SUBSET Result
  PROVE  /\ AnalysisRequested(S) \in Task
         /\ FetchEnd(S) \in Task
         /\ DiagnosticsReady(R) \in Task
BY DEF AnalysisRequested, FetchEnd, DiagnosticsReady, Task

\* The history of lost analyses keeps its type.
LEMMA LoseType ==
  ASSUME NEW S \in SUBSET Files, NEW c \in Cause
  PROVE  Lose(S, c) \in SUBSET [file : Files, cause : Cause]
BY DEF Lose

\* The files of results and of changes are files.
LEMMA FilesOfType ==
  /\ \A R \in SUBSET Result : FilesOf(R) \in SUBSET Files
  /\ \A C \in SUBSET Change : FilesOf(C) \in SUBSET Files
BY DEF FilesOf, Result, Change

\* didOpen, didChange and didClose keep every variable in its type.
LEMMA NotificationType ==
  ASSUME TypeOK, Notification PROVE TypeOK'
<1> USE BoundsAssumption DEF TypeOK, docVars, taskVars, deboVars, counters
<1> PICK f \in Files : DidOpen(f) \/ DidChange(f) \/ DidClose(f)
  BY DEF Notification
<1>1. ASSUME NEW kind \in {"Create", "Update"}, ReceiveText(f, kind),
             has_closed_or_opened_documents' \in BOOLEAN
      PROVE  TypeOK'
  <2>1. edits' \in Text /\ edits + 1 \in Text
    BY <1>1 DEF ReceiveText, Text
  <2>2. documents' \in [Files -> [text : Text, editor : BOOLEAN]]
    BY <1>1, <2>1 DEF ReceiveText
  <2>3. changed_file_ids' \in SUBSET Change
    BY <1>1 DEF ReceiveText, Change
  <2>4. lost' \in SUBSET [file : Files, cause : Cause] /\ turn' = "process"
    BY <1>1 DEF ReceiveText
  <2> QED
    BY <1>1, <2>1, <2>2, <2>3, <2>4 DEF ReceiveText
<1>2. CASE DidOpen(f)
  BY <1>1, <1>2 DEF DidOpen
<1>3. CASE DidChange(f)
  BY <1>1, <1>3 DEF DidChange
<1>4. CASE DidClose(f)
  <2>1. documents' \in [Files -> [text : Text, editor : BOOLEAN]]
    BY <1>4 DEF DidClose
  <2> QED
    BY <1>4, <2>1 DEF DidClose
<1> QED
  BY <1>2, <1>3, <1>4

\* Handling a task does.
LEMMA HandleTaskType ==
  ASSUME TypeOK, HandleTask PROVE TypeOK'
<1> USE DEF TypeOK, docVars, deboVars, counters
<1> DEFINE t == Head(tasks)
<1>1. t \in Task /\ tasks' \in Seq(Task)
  BY HeadTail DEF HandleTask
<1> HIDE DEF t
<1>2. CASE HandleAnalysisRequested(t)
  <2>1. t.files \in SUBSET Files
    BY <1>1, <1>2 DEF HandleAnalysisRequested, Task
  <2>2. lost' \in SUBSET [file : Files, cause : Cause]
    <3>1. Lose(analysis_requested_for_files \ t.files, "superseded")
            \in SUBSET [file : Files, cause : Cause]
      BY LoseType DEF Cause
    <3> QED
      BY <1>2, <3>1 DEF HandleAnalysisRequested
  <2> QED
    BY <1>1, <1>2, <2>1, <2>2 DEF HandleTask, HandleAnalysisRequested
<1>3. CASE HandleDiagnosticsReady(t)
  <2>1. t.results \in SUBSET Result
    BY <1>1, <1>3 DEF HandleDiagnosticsReady, Task
  <2>2. FilesOf(t.results) \in SUBSET Files
    BY <2>1, FilesOfType
  <2>3. diagnostics' \in [Files -> Text]
    <3>1. ASSUME NEW f \in FilesOf(t.results)
          PROVE  (CHOOSE r \in t.results : r.file = f).text \in Text
      BY <2>1 DEF FilesOf, Result
    <3> QED
      BY <1>3, <3>1 DEF HandleDiagnosticsReady
  <2>4. lost' \in SUBSET [file : Files, cause : Cause]
    <3>1. Lose(Overtaken(t.results), "overtaken") \in SUBSET [file : Files, cause : Cause]
      BY LoseType DEF Cause, Overtaken
    <3> QED
      BY <1>3, <3>1 DEF HandleDiagnosticsReady
  <2> QED
    BY <1>1, <1>3, <2>2, <2>3, <2>4 DEF HandleTask, HandleDiagnosticsReady
<1>4. CASE HandleFetchEnd(t)
  <2>1. t.files \in SUBSET Files
    BY <1>1, <1>4 DEF HandleFetchEnd, Task
  <2> QED
    BY <1>1, <1>4, <2>1 DEF HandleTask, HandleFetchEnd
<1> QED
  BY <1>2, <1>3, <1>4 DEF HandleTask, t

\* The end of a turn of the event loop does.
LEMMA EndTurnType ==
  ASSUME TypeOK, NEW should_request \in BOOLEAN, EndTurn(should_request),
         db' \in [Files -> Text]
  PROVE  TypeOK'
<1> USE DEF TypeOK, docVars, deboVars, counters
<1> DEFINE kept == IF should_request THEN {} ELSE analysis_requested_for_files
           S == force_analysis_for_files \cup kept
<1>1. S \in SUBSET Files
  OBVIOUS
<1>2. lost' \in SUBSET [file : Files, cause : Cause]
  <2>1. Lose(analysis_requested_for_files \ S, "superseded")
          \in SUBSET [file : Files, cause : Cause]
    BY LoseType DEF Cause
  <2> QED
    BY <2>1 DEF EndTurn, RequestAnalysis
<1>3. debouncer_source' \in Seq(SUBSET Files)
  <2>1. FilesOf(changed_file_ids) \in SUBSET Files
    BY FilesOfType
  <2>2. Append(debouncer_source, FilesOf(changed_file_ids)) \in Seq(SUBSET Files)
    BY <2>1, AppendSeq
  <2> QED
    BY <2>2 DEF EndTurn, RequestAnalysis
<1>4. jobs' \in [Jobs -> Job]
  <2>1. CASE S = {}
    BY <2>1 DEF EndTurn, RequestAnalysis
  <2>2. CASE S # {}
    <3>1. SpawnDiagnostics(S)
      BY <2>2 DEF EndTurn, RequestAnalysis
    <3>2. Running(S, {}) \in Job
      BY <1>1 DEF Running, Job
    <3> QED
      BY <3>1, <3>2 DEF SpawnDiagnostics
  <2> QED
    BY <2>1, <2>2
<1>5. published' \in [Files -> [version : Text, text : Text]]
  BY DEF EndTurn, PublishDiagnostics
<1> QED
  BY <1>2, <1>3, <1>4, <1>5 DEF EndTurn

\* Every step of the main thread does.
LEMMA MainThreadType ==
  ASSUME TypeOK, MainThread PROVE TypeOK'
<1>1. CASE HandleTask
  BY <1>1, HandleTaskType
<1>2. CASE Drained
  BY <1>2 DEF Drained, TypeOK, docVars, taskVars, deboVars, counters
<1>3. CASE NothingToApply
  <2>1. db' \in [Files -> Text] /\ has_closed_or_opened_documents \in BOOLEAN
    BY <1>3 DEF NothingToApply, TypeOK
  <2> QED
    BY <1>3, <2>1, EndTurnType DEF NothingToApply
<1>4. CASE BeginApply
  BY <1>4 DEF BeginApply, TypeOK, docVars, taskVars, deboVars, counters
<1>5. CASE Apply
  <2>1. db' \in [Files -> Text]
    BY <1>5 DEF Apply, TypeOK
  <2> QED
    BY <1>5, <2>1, EndTurnType DEF Apply
<1> QED
  BY <1>1, <1>2, <1>3, <1>4, <1>5 DEF MainThread

\* Every step of the debouncer thread does.
LEMMA DebouncerType ==
  ASSUME TypeOK, Debouncer PROVE TypeOK'
<1> USE DEF TypeOK, docVars, taskVars, counters
<1>1. CASE DebouncerReceive
  <2>1. Head(debouncer_source) \in SUBSET Files
        /\ Tail(debouncer_source) \in Seq(SUBSET Files)
    BY <1>1, HeadTail DEF DebouncerReceive
  <2> QED
    BY <1>1, <2>1 DEF DebouncerReceive
<1>2. CASE DebouncerTimeout
  <2>1. tasks' \in Seq(Task)
    BY <1>2, TaskType, AppendSeq DEF DebouncerTimeout
  <2> QED
    BY <1>2, <2>1 DEF DebouncerTimeout
<1> QED
  BY <1>1, <1>2 DEF Debouncer

\* Every step of a thread of the pool does.
LEMMA WorkerType ==
  ASSUME TypeOK, NEW j \in Jobs, Worker(j) PROVE TypeOK'
<1> USE DEF TypeOK, docVars, taskVars, deboVars, counters
<1>1. jobs[j] \in Job
  OBVIOUS
<1>3. ASSUME NEW f \in Files, Analyze(j, f) PROVE TypeOK'
  <2>1. Running(jobs[j].files \ {f},
                jobs[j].results \cup {[file |-> f, text |-> db[f]]}) \in Job
    <3>1. [file |-> f, text |-> db[f]] \in Result
      BY DEF Result
    <3> QED
      BY <1>1, <3>1 DEF Running, Job
  <2>2. jobs' \in [Jobs -> Job]
    BY <1>3, <2>1 DEF Analyze
  <2> QED
    BY <1>3, <2>2 DEF Analyze
<1>4. ASSUME NEW f \in Files, SkipCancelled(j, f) PROVE TypeOK'
  <2>1. Running(jobs[j].files \ {f}, jobs[j].results) \in Job
    BY <1>1 DEF Running, Job
  <2>2. jobs' \in [Jobs -> Job]
    BY <1>4, <2>1 DEF SkipCancelled
  <2>3. Lose({f} \ FilesOf(changed_file_ids), "cancelled")
          \in SUBSET [file : Files, cause : Cause]
    BY LoseType DEF Cause
  <2> QED
    BY <1>4, <2>2, <2>3 DEF SkipCancelled
<1>5. CASE Return(j)
  <2>1. [jobs[j] EXCEPT !.phase = "sending"] \in Job
    BY <1>1 DEF Job
  <2> QED
    BY <1>5, <2>1 DEF Return
<1>6. CASE Send(j)
  <2>1. jobs[j].results \in SUBSET Result
    BY <1>1 DEF Job
  <2>2. tasks' \in Seq(Task)
    BY <1>6, <2>1, TaskType, AppendSeq DEF Send
  <2> QED
    BY <1>6, <2>2 DEF Send, FreeJob, Job
<1> QED
  BY <1>3, <1>4, <1>5, <1>6 DEF Worker

\* Every step of every thread does.
LEMMA TypeStep == TypeOK /\ [Next]_vars => TypeOK'
<1> SUFFICES ASSUME TypeOK, [Next]_vars PROVE TypeOK'
  OBVIOUS
<1>1. CASE Fetcher
  <2> USE DEF TypeOK, docVars, taskVars, deboVars, counters
  <2>1. PICK S \in SUBSET Files : FetchFinished(S)
    BY <1>1 DEF Fetcher
  <2>2. tasks' \in Seq(Task)
    BY <2>1, TaskType, AppendSeq DEF FetchFinished
  <2> QED
    BY <2>1, <2>2 DEF FetchFinished
<1>2. CASE UNCHANGED vars
  BY <1>2 DEF TypeOK, vars, docVars, taskVars, deboVars, counters
<1> QED
  BY <1>1, <1>2, NotificationType, MainThreadType, DebouncerType, WorkerType DEF Next

(***************************************************************************)
(* The state of the event loop, its channels and its jobs is well typed    *)
(* in every reachable state.                                               *)
(***************************************************************************)
THEOREM TypeCorrect == Spec => []TypeOK
  BY InitType, TypeStep, PTL DEF Spec

-----------------------------------------------------------------------------
(***************************************************************************)
(* The parts of the inductive invariant that keep the others going.        *)
(***************************************************************************)

\* While the main thread waits for messages no change waits to be applied.
LEMMA TurnShapeStep == TypeOK /\ TurnShape /\ [Next]_vars => TurnShape'
<1> SUFFICES ASSUME TypeOK, TurnShape, [Next]_vars PROVE TurnShape'
  OBVIOUS
<1> USE DEF TurnShape, docVars, taskVars, deboVars, counters
<1>1. CASE Notification
  BY <1>1 DEF Notification, DidOpen, DidChange, DidClose, ReceiveText
<1>2. CASE MainThread
  BY <1>2 DEF MainThread, HandleTask, Drained, NothingToApply, BeginApply, Apply, EndTurn
<1>3. CASE Debouncer
  BY <1>3 DEF Debouncer, DebouncerReceive, DebouncerTimeout
<1>4. ASSUME NEW j \in Jobs, Worker(j) PROVE TurnShape'
  BY <1>4 DEF Worker, Analyze, SkipCancelled, Return, Send
<1>5. CASE Fetcher
  BY <1>5 DEF Fetcher, FetchFinished
<1>6. CASE UNCHANGED vars
  BY <1>6 DEF vars
<1> QED
  BY <1>1, <1>2, <1>3, <1>4, <1>5, <1>6 DEF Next

\* What a step can do to the jobs.
JobStep ==
  \/ UNCHANGED jobs
  \/ \E S \in SUBSET Files : SpawnDiagnostics(S)
  \/ \E j \in Jobs :
       \/ \E f \in Files : Analyze(j, f) \/ SkipCancelled(j, f)
       \/ jobs[j].phase = "running" /\ jobs[j].files = {}
          /\ jobs' = [jobs EXCEPT ![j].phase = "sending"]
       \/ jobs' = [jobs EXCEPT ![j] = FreeJob]

\* What one step can do to the jobs of the pool.
LEMMA NextJobs == TypeOK /\ [Next]_vars => JobStep
<1> SUFFICES ASSUME TypeOK, [Next]_vars PROVE JobStep
  OBVIOUS
<1>1. CASE Notification
  BY <1>1 DEF JobStep, Notification, DidOpen, DidChange, DidClose, ReceiveText
<1>2. CASE MainThread
  <2>1. ASSUME NEW b \in BOOLEAN, EndTurn(b) PROVE JobStep
    <3> DEFINE S == force_analysis_for_files \cup
                      (IF b THEN {} ELSE analysis_requested_for_files)
    <3>1. UNCHANGED jobs \/ SpawnDiagnostics(S)
      BY <2>1 DEF EndTurn, RequestAnalysis
    <3>2. S \in SUBSET Files
      BY DEF TypeOK
    <3> QED
      BY <3>1, <3>2 DEF JobStep
  <2>2. has_closed_or_opened_documents \in BOOLEAN
    BY DEF TypeOK
  <2> QED
    BY <1>2, <2>1, <2>2
       DEF JobStep, MainThread, HandleTask, Drained, NothingToApply, BeginApply, Apply
<1>3. CASE Debouncer
  BY <1>3 DEF JobStep, Debouncer, DebouncerReceive, DebouncerTimeout
<1>4. ASSUME NEW j \in Jobs, Worker(j) PROVE JobStep
  BY <1>4 DEF JobStep, Worker, Return, Send
<1>5. CASE Fetcher
  BY <1>5 DEF JobStep, Fetcher, FetchFinished
<1>6. CASE UNCHANGED vars
  BY <1>6 DEF JobStep, vars
<1> QED
  BY <1>1, <1>2, <1>3, <1>4, <1>5, <1>6 DEF Next

\* A job has one result for a file, or has the file still to do; idle ones have none.
LEMMA JobShapeStep == TypeOK /\ JobShape /\ [Next]_vars => JobShape'
<1> SUFFICES ASSUME TypeOK, JobShape, [Next]_vars, NEW k \in Jobs
             PROVE  /\ jobs'[k].phase # "running" => jobs'[k].files = {}
                    /\ jobs'[k].phase = "free" => jobs'[k].results = {}
                    /\ OneResultPerFile(jobs'[k].results)
                    /\ jobs'[k].files \cap FilesOf(jobs'[k].results) = {}
  BY DEF JobShape
<1>1. jobs \in [Jobs -> Job] /\ jobs[k] \in Job
  BY DEF TypeOK
<1>2. /\ jobs[k].phase # "running" => jobs[k].files = {}
      /\ jobs[k].phase = "free" => jobs[k].results = {}
      /\ OneResultPerFile(jobs[k].results)
      /\ jobs[k].files \cap FilesOf(jobs[k].results) = {}
  BY DEF JobShape
<1> JobStep
  BY NextJobs
<1>3. CASE jobs'[k] = jobs[k]
  BY <1>2, <1>3
<1>4. CASE \E S \in SUBSET Files : SpawnDiagnostics(S)
  <2>1. PICK S \in SUBSET Files, j \in Jobs : jobs' = [jobs EXCEPT ![j] = Running(S, {})]
    BY <1>4 DEF SpawnDiagnostics
  <2>2. CASE k = j
    BY <1>1, <2>1, <2>2 DEF Running, OneResultPerFile, FilesOf
  <2> QED
    BY <1>1, <1>3, <2>1, <2>2
<1>5. ASSUME NEW j \in Jobs, NEW f \in Files, Analyze(j, f), k = j
      PROVE  /\ jobs'[k].phase = "running"
             /\ OneResultPerFile(jobs'[k].results)
             /\ jobs'[k].files \cap FilesOf(jobs'[k].results) = {}
  <2>1. f \in jobs[k].files /\ f \notin FilesOf(jobs[k].results)
    BY <1>2, <1>5 DEF Analyze
  <2>2. jobs'[k] = Running(jobs[k].files \ {f},
                           jobs[k].results \cup {[file |-> f, text |-> db[f]]})
    BY <1>1, <1>5 DEF Analyze
  <2>3. jobs'[k].files = jobs[k].files \ {f}
        /\ jobs'[k].results = jobs[k].results \cup {[file |-> f, text |-> db[f]]}
        /\ jobs'[k].phase = "running"
    BY <2>2 DEF Running
  <2>4. OneResultPerFile(jobs'[k].results)
    BY <1>2, <2>1, <2>3 DEF OneResultPerFile, FilesOf
  <2>5. jobs'[k].files \cap FilesOf(jobs'[k].results) = {}
    BY <1>2, <2>3 DEF FilesOf
  <2> QED
    BY <2>3, <2>4, <2>5
<1>6. ASSUME NEW j \in Jobs, NEW f \in Files, SkipCancelled(j, f), k = j
      PROVE  /\ jobs'[k].phase = "running"
             /\ OneResultPerFile(jobs'[k].results)
             /\ jobs'[k].files \cap FilesOf(jobs'[k].results) = {}
  <2>1. jobs'[k] = Running(jobs[k].files \ {f}, jobs[k].results)
    BY <1>1, <1>6 DEF SkipCancelled
  <2> QED
    BY <1>2, <2>1 DEF Running
<1>7. ASSUME NEW j \in Jobs, jobs[j].files = {}, k = j,
             jobs' = [jobs EXCEPT ![j].phase = "sending"]
      PROVE  /\ jobs'[k].phase = "sending" /\ jobs'[k].files = {}
             /\ jobs'[k].results = jobs[k].results
  <2>1. jobs'[k] = [jobs[k] EXCEPT !.phase = "sending"]
    BY <1>1, <1>7
  <2>2. \A r \in Job : /\ [r EXCEPT !.phase = "sending"].phase = "sending"
                       /\ [r EXCEPT !.phase = "sending"].files = r.files
                       /\ [r EXCEPT !.phase = "sending"].results = r.results
    BY DEF Job
  <2> QED
    BY <1>1, <1>7, <2>1, <2>2
<1>8. ASSUME NEW j \in Jobs, k = j, jobs' = [jobs EXCEPT ![j] = FreeJob]
      PROVE  jobs'[k].results = {} /\ jobs'[k].files = {}
  BY <1>1, <1>8 DEF FreeJob
<1>9. CASE \E j \in Jobs, f \in Files : Analyze(j, f) \/ SkipCancelled(j, f)
  <2>1. PICK j \in Jobs, f \in Files : Analyze(j, f) \/ SkipCancelled(j, f)
    BY <1>9
  <2>2. CASE k # j
    BY <1>1, <1>3, <2>1, <2>2 DEF Analyze, SkipCancelled
  <2> QED
    BY <1>5, <1>6, <2>1, <2>2
<1>10. CASE \E j \in Jobs : /\ jobs[j].phase = "running" /\ jobs[j].files = {}
                            /\ jobs' = [jobs EXCEPT ![j].phase = "sending"]
  <2>1. PICK j \in Jobs : /\ jobs[j].phase = "running" /\ jobs[j].files = {}
                          /\ jobs' = [jobs EXCEPT ![j].phase = "sending"]
    BY <1>10
  <2>2. CASE k # j
    BY <1>1, <1>3, <2>1, <2>2
  <2> QED
    BY <1>2, <1>7, <2>1, <2>2 DEF OneResultPerFile
<1>11. CASE \E j \in Jobs : jobs' = [jobs EXCEPT ![j] = FreeJob]
  <2>1. PICK j \in Jobs : jobs' = [jobs EXCEPT ![j] = FreeJob]
    BY <1>11
  <2>2. CASE k # j
    BY <1>1, <1>3, <2>1, <2>2
  <2> QED
    BY <1>8, <2>1, <2>2 DEF OneResultPerFile, FilesOf
<1> QED
  BY <1>3, <1>4, <1>9, <1>10, <1>11 DEF JobStep

\* What a step can do to the channel of tasks.
TaskStep ==
  \/ UNCHANGED tasks
  \/ tasks # <<>> /\ tasks' = Tail(tasks)
  \/ \E S \in SUBSET Files : \/ tasks' = Append(tasks, AnalysisRequested(S))
                             \/ tasks' = Append(tasks, FetchEnd(S))
  \/ \E j \in Jobs : tasks' = Append(tasks, DiagnosticsReady(jobs[j].results))

\* What one step can do to the channel into the main thread.
LEMMA NextTasks == TypeOK /\ [Next]_vars => TaskStep
<1> SUFFICES ASSUME TypeOK, [Next]_vars PROVE TaskStep
  OBVIOUS
<1> USE DEF TaskStep
<1>1. CASE Notification
  BY <1>1 DEF Notification, DidOpen, DidChange, DidClose, ReceiveText
<1>2. CASE MainThread
  BY <1>2 DEF MainThread, HandleTask, Drained, NothingToApply, BeginApply, Apply, EndTurn
<1>3. CASE Debouncer
  BY <1>3 DEF Debouncer, DebouncerReceive, DebouncerTimeout, TypeOK
<1>4. ASSUME NEW j \in Jobs, Worker(j) PROVE TaskStep
  BY <1>4 DEF Worker, Analyze, SkipCancelled, Return, Send
<1>5. CASE Fetcher
  <2>1. PICK S \in SUBSET Files : FetchFinished(S)
    BY <1>5 DEF Fetcher
  <2> QED
    BY <2>1 DEF FetchFinished
<1>6. CASE UNCHANGED vars
  BY <1>6 DEF vars
<1> QED
  BY <1>1, <1>2, <1>3, <1>4, <1>5, <1>6 DEF Next

\* A message with diagnostics has one result for a file.
LEMMA TaskShapeStep == TypeOK /\ JobShape /\ TaskShape /\ [Next]_vars => TaskShape'
<1> SUFFICES ASSUME TypeOK, JobShape, TaskShape, [Next]_vars,
                    NEW t \in Range(tasks'), t.kind = "DiagnosticsReady"
             PROVE  OneResultPerFile(t.results)
  BY DEF TaskShape
<1>1. tasks \in Seq(Task)
  BY DEF TypeOK
<1>2. CASE t \in Range(tasks)
  BY <1>2 DEF TaskShape
<1>3. CASE tasks # <<>> /\ tasks' = Tail(tasks)
  BY <1>1, <1>2, <1>3, RangeTail
<1>4. CASE \E S \in SUBSET Files : \/ tasks' = Append(tasks, AnalysisRequested(S))
                                  \/ tasks' = Append(tasks, FetchEnd(S))
  <2>1. PICK S \in SUBSET Files : \/ tasks' = Append(tasks, AnalysisRequested(S))
                                 \/ tasks' = Append(tasks, FetchEnd(S))
    BY <1>4
  <2>2. AnalysisRequested(S) \in Task /\ FetchEnd(S) \in Task
    BY TaskType
  <2>3. /\ Range(Append(tasks, AnalysisRequested(S))) = Range(tasks) \cup {AnalysisRequested(S)}
        /\ Range(Append(tasks, FetchEnd(S))) = Range(tasks) \cup {FetchEnd(S)}
    BY <1>1, <2>2, RangeAppend
  <2>4. t \in Range(tasks) \/ t = AnalysisRequested(S) \/ t = FetchEnd(S)
    BY <2>1, <2>3
  <2> QED
    BY <1>2, <2>4 DEF AnalysisRequested, FetchEnd
<1>5. CASE \E j \in Jobs : tasks' = Append(tasks, DiagnosticsReady(jobs[j].results))
  <2>1. PICK j \in Jobs : tasks' = Append(tasks, DiagnosticsReady(jobs[j].results))
    BY <1>5
  <2>2. DiagnosticsReady(jobs[j].results) \in Task
    BY TaskType DEF TypeOK, Job
  <2>3. t \in Range(tasks) \/ t = DiagnosticsReady(jobs[j].results)
    BY <1>1, <2>1, <2>2, RangeAppend
  <2>4. OneResultPerFile(jobs[j].results)
    BY DEF JobShape
  <2> QED
    BY <1>2, <2>3, <2>4 DEF DiagnosticsReady
<1> QED
  BY <1>2, <1>3, <1>4, <1>5, NextTasks DEF TaskStep

\* Only an unapplied change makes database and documents differ.
LEMMA DatabaseStep ==
  TypeOK /\ TurnShape /\ DatabaseFollowsDocuments /\ [Next]_vars
    => DatabaseFollowsDocuments'
<1> SUFFICES ASSUME TypeOK, TurnShape, DatabaseFollowsDocuments, [Next]_vars,
                    NEW f \in Files, f \notin FilesOf(changed_file_ids)'
             PROVE  db'[f] = documents'[f].text
  BY DEF DatabaseFollowsDocuments
<1> USE DEF docVars, taskVars, deboVars, counters
<1>1. CASE UNCHANGED <<db, documents, changed_file_ids>>
  BY <1>1 DEF DatabaseFollowsDocuments
<1>2. CASE Notification
  <2>1. PICK g \in Files : DidOpen(g) \/ DidChange(g) \/ DidClose(g)
    BY <1>2 DEF Notification
  <2>2. changed_file_ids = {} /\ UNCHANGED db
    BY <2>1 DEF DidOpen, DidChange, DidClose, ReceiveText, TurnShape
  <2>3. db[f] = documents[f].text
    BY <2>2 DEF DatabaseFollowsDocuments, FilesOf
  <2>4. ASSUME NEW kind, ReceiveText(g, kind) PROVE documents'[f] = documents[f]
    <3>1. g \in FilesOf(changed_file_ids')
      BY <2>4 DEF ReceiveText, FilesOf
    <3> QED
      BY <2>4, <3>1 DEF ReceiveText, TypeOK
  <2>5. CASE DidClose(g)
    <3>1. documents'[f].text = documents[f].text
      BY <2>5 DEF DidClose, TypeOK
    <3> QED
      BY <2>2, <2>3, <3>1
  <2> QED
    BY <2>1, <2>2, <2>3, <2>4, <2>5 DEF DidOpen, DidChange
<1>3. CASE MainThread
  <2>1. CASE NothingToApply
    BY <2>1 DEF NothingToApply, NeedsApply, EndTurn, DatabaseFollowsDocuments, FilesOf
  <2>2. CASE Apply
    BY <2>2 DEF Apply, EndTurn, DatabaseFollowsDocuments, TypeOK
  <2> QED
    BY <1>1, <1>3, <2>1, <2>2 DEF MainThread, HandleTask, Drained, BeginApply
<1>4. CASE Debouncer
  BY <1>1, <1>4 DEF Debouncer, DebouncerReceive, DebouncerTimeout
<1>5. ASSUME NEW j \in Jobs, Worker(j) PROVE UNCHANGED <<db, documents, changed_file_ids>>
  BY <1>5 DEF Worker, Analyze, SkipCancelled, Return, Send
<1>6. CASE Fetcher
  BY <1>1, <1>6 DEF Fetcher, FetchFinished
<1>7. CASE UNCHANGED vars
  BY <1>1, <1>7 DEF vars
<1> QED
  BY <1>1, <1>2, <1>3, <1>4, <1>5, <1>6, <1>7 DEF Next
-----------------------------------------------------------------------------
(***************************************************************************)
(* No analysis is forgotten: one lemma per thread.                         *)
(***************************************************************************)

\* A document whose text a notification changes is in the pipeline.
LEMMA NotificationAccounted ==
  ASSUME IInv, Notification PROVE NoAnalysisForgotten'
<1> USE DEF docVars, taskVars, deboVars, counters
<1> PICK g \in Files : DidOpen(g) \/ DidChange(g) \/ DidClose(g)
  BY DEF Notification
<1> SUFFICES ASSUME NEW f \in Files, Known(f)' PROVE Accounted(f)'
  BY DEF NoAnalysisForgotten
<1>0. documents \in [Files -> [text : Text, editor : BOOLEAN]]
  BY DEF IInv, TypeOK
<1>1. ASSUME NEW kind, ReceiveText(g, kind) PROVE Accounted(f)'
  <2>1. CASE f = g
    <3>1. f \in FilesOf(changed_file_ids')
      BY <1>1, <2>1 DEF ReceiveText, FilesOf
    <3> QED
      BY <3>1 DEF Accounted, InPipeline
  <2>2. CASE f # g
    <3>1. changed_file_ids = {} /\ documents'[f] = documents[f]
      BY <1>0, <1>1, <2>2 DEF ReceiveText, IInv, TurnShape
    <3>2. Accounted(f)
      BY <3>1 DEF IInv, NoAnalysisForgotten, Known
    <3>3. CASE LostAnalysis(f)
      <4>1. PICK c \in Cause : [file |-> f, cause |-> c] \in lost
        BY <3>3 DEF LostAnalysis
      <4>2. [file |-> f, cause |-> c] \in lost'
        BY <1>1, <2>2, <4>1 DEF ReceiveText
      <4> QED
        BY <4>2 DEF Accounted, LostAnalysis
    <3>4. CASE diagnostics[f] = documents[f].text
      BY <1>1, <3>1, <3>4 DEF ReceiveText, Accounted
    <3>5. CASE InPipeline(f)
      BY <1>1, <3>1, <3>5 DEF ReceiveText, Accounted, InPipeline, FilesOf
    <3>6. CASE ResultOnItsWay(f)
      BY <1>1, <3>1, <3>6 DEF ReceiveText, Accounted, ResultOnItsWay
    <3> QED
      BY <3>2, <3>3, <3>4, <3>5, <3>6 DEF Accounted
  <2> QED
    BY <2>1, <2>2
<1>2. CASE DidClose(g)
  <2>1. documents'[f].text = documents[f].text
    BY <1>0, <1>2 DEF DidClose
  <2>2. Accounted(f)
    BY <2>1 DEF IInv, NoAnalysisForgotten, Known
  <2>3. diagnostics' = diagnostics /\ lost' = lost
        /\ (InPipeline(f) => InPipeline(f)')
        /\ (ResultOnItsWay(f) => ResultOnItsWay(f)')
    BY <1>2, <2>1 DEF DidClose, InPipeline, ResultOnItsWay
  <2> QED
    BY <2>1, <2>2, <2>3 DEF Accounted, LostAnalysis
<1> QED
  BY <1>1, <1>2 DEF DidOpen, DidChange

\* The debouncer forgets no file it was sent.
LEMMA DebouncerAccounted ==
  ASSUME IInv, Debouncer PROVE NoAnalysisForgotten'
<1> USE DEF docVars, taskVars, deboVars, counters
<1> SUFFICES ASSUME NEW f \in Files, Known(f)' PROVE Accounted(f)'
  BY DEF NoAnalysisForgotten
<1>1. Accounted(f)
  BY DEF Debouncer, DebouncerReceive, DebouncerTimeout, IInv, NoAnalysisForgotten, Known
<1>2. documents' = documents /\ diagnostics' = diagnostics /\ lost' = lost
      /\ changed_file_ids' = changed_file_ids /\ jobs' = jobs
      /\ analysis_requested_for_files' = analysis_requested_for_files
  BY DEF Debouncer, DebouncerReceive, DebouncerTimeout
<1>3. tasks \in Seq(Task) /\ debouncer_source \in Seq(SUBSET Files)
      /\ pending_file_ids \in SUBSET Files
  BY DEF IInv, TypeOK
<1>4. CASE DebouncerReceive
  <2>1. Range(debouncer_source) = {Head(debouncer_source)} \cup Range(debouncer_source')
        /\ pending_file_ids' = pending_file_ids \cup Head(debouncer_source)
        /\ tasks' = tasks
    BY <1>3, <1>4, RangeTail DEF DebouncerReceive
  <2>2. InPipeline(f) => InPipeline(f)'
    BY <1>2, <2>1 DEF InPipeline
  <2>3. ResultOnItsWay(f) => ResultOnItsWay(f)'
    BY <1>2, <2>1 DEF ResultOnItsWay
  <2> QED
    BY <1>1, <1>2, <2>2, <2>3 DEF Accounted, LostAnalysis
<1>5. CASE DebouncerTimeout
  <2> DEFINE t == AnalysisRequested(pending_file_ids)
  <2>0. t \in Task
    BY <1>3, TaskType
  <2>1. Range(tasks') = Range(tasks) \cup {t} /\ debouncer_source' = debouncer_source
    <3>1. tasks' = Append(tasks, t) /\ debouncer_source' = debouncer_source
      BY <1>5 DEF DebouncerTimeout
    <3> HIDE DEF t
    <3> QED
      BY <1>3, <2>0, <3>1, RangeAppend
  <2>2. t.kind = "AnalysisRequested" /\ t.files = pending_file_ids
    BY DEF AnalysisRequested
  <2>3. InPipeline(f) => InPipeline(f)'
    BY <1>2, <2>1, <2>2 DEF InPipeline
  <2>4. ResultOnItsWay(f) => ResultOnItsWay(f)'
    BY <1>2, <2>1 DEF ResultOnItsWay
  <2> QED
    BY <1>1, <1>2, <2>3, <2>4 DEF Accounted, LostAnalysis
<1> QED
  BY <1>4, <1>5 DEF Debouncer
\* A job that ends leaves each of its files in its message or on record.
LEMMA WorkerAccounted ==
  ASSUME IInv, NEW j \in Jobs, Worker(j) PROVE NoAnalysisForgotten'
<1> USE DEF docVars, taskVars, deboVars, counters
<1> SUFFICES ASSUME NEW f \in Files, Known(f)' PROVE Accounted(f)'
  BY DEF NoAnalysisForgotten
<1>1. documents' = documents /\ diagnostics' = diagnostics
      /\ changed_file_ids' = changed_file_ids /\ debouncer_source' = debouncer_source
      /\ pending_file_ids' = pending_file_ids
      /\ analysis_requested_for_files' = analysis_requested_for_files
  BY DEF Worker, Analyze, SkipCancelled, Return, Send
<1>2. Accounted(f)
  BY <1>1 DEF IInv, NoAnalysisForgotten, Known
<1>3. jobs \in [Jobs -> Job] /\ tasks \in Seq(Task)
  BY DEF IInv, TypeOK
<1>4. ASSUME NEW g \in Files, Analyze(j, g) PROVE Accounted(f)'
  <2> DEFINE r == [file |-> g, text |-> db[g]]
  <2>1. /\ jobs' = [jobs EXCEPT ![j] = jobs'[j]]
        /\ jobs'[j].files = jobs[j].files \ {g}
        /\ jobs'[j].results = jobs[j].results \cup {r}
        /\ tasks' = tasks /\ lost' = lost
    BY <1>3, <1>4 DEF Analyze, Running
  <2>2. ResultOnItsWay(f) => ResultOnItsWay(f)'
    BY <1>1, <1>3, <2>1 DEF ResultOnItsWay
  <2>3. CASE f \in FilesOf(changed_file_ids) \/ f # g
    <3>1. InPipeline(f) => InPipeline(f)'
      BY <1>1, <1>3, <2>1, <2>3 DEF InPipeline
    <3> QED
      BY <1>1, <1>2, <2>1, <2>2, <3>1 DEF Accounted, LostAnalysis
  <2>4. CASE f \notin FilesOf(changed_file_ids) /\ f = g
    <3>1. r = [file |-> f, text |-> documents'[f].text]
      BY <1>1, <2>4 DEF IInv, DatabaseFollowsDocuments
    <3>2. r \in jobs'[j].results
      BY <2>1
    <3> QED
      BY <3>1, <3>2 DEF Accounted, ResultOnItsWay
  <2> QED
    BY <2>3, <2>4
<1>5. ASSUME NEW g \in Files, SkipCancelled(j, g) PROVE Accounted(f)'
  <2>1. /\ jobs' = [jobs EXCEPT ![j] = jobs'[j]]
        /\ jobs'[j].files = jobs[j].files \ {g}
        /\ jobs'[j].results = jobs[j].results
        /\ tasks' = tasks
        /\ lost' = lost \cup Lose({g} \ FilesOf(changed_file_ids), "cancelled")
    BY <1>3, <1>5 DEF SkipCancelled, Running
  <2>2. ResultOnItsWay(f) => ResultOnItsWay(f)'
    BY <1>1, <1>3, <2>1 DEF ResultOnItsWay
  <2>3. LostAnalysis(f) => LostAnalysis(f)'
    BY <2>1 DEF LostAnalysis
  <2>4. CASE f \in FilesOf(changed_file_ids) \/ f # g
    <3>1. InPipeline(f) => InPipeline(f)'
      BY <1>1, <1>3, <2>1, <2>4 DEF InPipeline
    <3> QED
      BY <1>1, <1>2, <2>2, <2>3, <3>1 DEF Accounted
  <2>5. CASE f \notin FilesOf(changed_file_ids) /\ f = g
    <3>1. [file |-> f, cause |-> "cancelled"] \in lost'
      BY <2>1, <2>5 DEF Lose
    <3> QED
      BY <3>1 DEF Accounted, LostAnalysis, Cause
  <2> QED
    BY <2>4, <2>5
<1>6. CASE Return(j)
  <2>1. jobs' = [jobs EXCEPT ![j].phase = "sending"] /\ tasks' = tasks /\ lost' = lost
    BY <1>6 DEF Return
  <2>2. \A k \in Jobs : /\ jobs'[k].files = jobs[k].files
                        /\ jobs'[k].results = jobs[k].results
    <3>1. \A r \in Job : /\ [r EXCEPT !.phase = "sending"].files = r.files
                         /\ [r EXCEPT !.phase = "sending"].results = r.results
      BY DEF Job
    <3>2. \A k \in Jobs : \/ jobs'[k] = jobs[k]
                          \/ jobs'[k] = [jobs[k] EXCEPT !.phase = "sending"]
      BY <1>3, <2>1
    <3> QED
      BY <1>3, <3>1, <3>2
  <2>3. InPipeline(f) => InPipeline(f)'
    BY <1>1, <2>1, <2>2 DEF InPipeline
  <2>4. ResultOnItsWay(f) => ResultOnItsWay(f)'
    BY <1>1, <2>1, <2>2 DEF ResultOnItsWay
  <2> QED
    BY <1>1, <1>2, <2>1, <2>3, <2>4 DEF Accounted, LostAnalysis
<1>7. CASE Send(j)
  <2> DEFINE t == DiagnosticsReady(jobs[j].results)
  <2>0. jobs[j].files = {} /\ lost' = lost
    BY <1>7 DEF Send, IInv, JobShape
  <2>1. t \in Task /\ t.kind = "DiagnosticsReady" /\ t.results = jobs[j].results
    BY <1>3, TaskType DEF Job, DiagnosticsReady
  <2>2. Range(tasks') = Range(tasks) \cup {t}
    BY <1>3, <1>7, <2>1, RangeAppend DEF Send
  <2>3. \A k \in Jobs : k # j => jobs'[k] = jobs[k]
    BY <1>3, <1>7 DEF Send
  <2>4. InPipeline(f) => InPipeline(f)'
    BY <1>1, <2>0, <2>2, <2>3 DEF InPipeline
  <2>5. ResultOnItsWay(f) => ResultOnItsWay(f)'
    BY <1>1, <2>1, <2>2, <2>3 DEF ResultOnItsWay
  <2> QED
    BY <1>1, <1>2, <2>0, <2>4, <2>5 DEF Accounted, LostAnalysis
<1> QED
  BY <1>4, <1>5, <1>6, <1>7 DEF Worker

\* The main thread takes over the files of the task it handles.
LEMMA HandleTaskAccounted ==
  ASSUME IInv, HandleTask PROVE NoAnalysisForgotten'
<1> USE DEF docVars, taskVars, deboVars, counters
<1> SUFFICES ASSUME NEW f \in Files, Known(f)' PROVE Accounted(f)'
  BY DEF NoAnalysisForgotten
<1> DEFINE t == Head(tasks)
<1>1. documents' = documents /\ jobs' = jobs
      /\ changed_file_ids' = changed_file_ids /\ debouncer_source' = debouncer_source
      /\ pending_file_ids' = pending_file_ids
  BY DEF HandleTask
<1>2. Accounted(f)
  BY <1>1 DEF IInv, NoAnalysisForgotten, Known
<1>3. t \in Task /\ Range(tasks) = {t} \cup Range(tasks') /\ t \in Range(tasks)
  BY HeadTail, RangeTail DEF HandleTask, IInv, TypeOK
<1>4. \/ HandleAnalysisRequested(t) \/ HandleDiagnosticsReady(t) \/ HandleFetchEnd(t)
  BY DEF HandleTask
<1> HIDE DEF t
<1>5. CASE HandleAnalysisRequested(t)
  <2>1. /\ diagnostics' = diagnostics
        /\ analysis_requested_for_files' = t.files
        /\ lost' = lost \cup Lose(analysis_requested_for_files \ t.files, "superseded")
        /\ t.kind = "AnalysisRequested"
    BY <1>5 DEF HandleAnalysisRequested
  <2>2. ResultOnItsWay(f) => ResultOnItsWay(f)'
    BY <1>1, <1>3, <2>1 DEF ResultOnItsWay
  <2>3. CASE f \in analysis_requested_for_files \ t.files
    <3>1. [file |-> f, cause |-> "superseded"] \in lost'
      BY <2>1, <2>3 DEF Lose
    <3> QED
      BY <3>1 DEF Accounted, LostAnalysis, Cause
  <2>4. CASE f \notin analysis_requested_for_files \ t.files
    <3>1. InPipeline(f) => InPipeline(f)'
      BY <1>1, <1>3, <2>1, <2>4 DEF InPipeline
    <3> QED
      BY <1>1, <1>2, <2>1, <2>2, <3>1 DEF Accounted, LostAnalysis
  <2> QED
    BY <2>3, <2>4
<1>6. CASE HandleDiagnosticsReady(t)
  <2>1. /\ analysis_requested_for_files' = analysis_requested_for_files
        /\ lost' = lost \cup Lose(Overtaken(t.results), "overtaken")
        /\ diagnostics'[f] = IF f \in FilesOf(t.results)
                             THEN (CHOOSE r \in t.results : r.file = f).text
                             ELSE diagnostics[f]
        /\ t.kind = "DiagnosticsReady"
    BY <1>6 DEF HandleDiagnosticsReady
  <2>2. InPipeline(f) => InPipeline(f)'
    BY <1>1, <1>3, <2>1 DEF InPipeline
  <2>3. LostAnalysis(f) => LostAnalysis(f)'
    BY <2>1 DEF LostAnalysis
  <2>4. CASE diagnostics[f] = documents[f].text
    <3>1. CASE diagnostics'[f] = diagnostics[f]
      BY <1>1, <2>4, <3>1 DEF Accounted
    <3>2. CASE diagnostics'[f] # diagnostics[f]
      <4>1. PICK r \in t.results : r.file = f
        BY <2>1, <3>2 DEF FilesOf
      <4>2. (CHOOSE s \in t.results : s.file = f) \in t.results
            /\ (CHOOSE s \in t.results : s.file = f).file = f
        BY <4>1
      <4>3. f \in Overtaken(t.results)
        BY <2>1, <2>4, <3>2, <4>2 DEF Overtaken
      <4>4. [file |-> f, cause |-> "overtaken"] \in lost'
        BY <2>1, <4>3 DEF Lose
      <4> QED
        BY <4>4 DEF Accounted, LostAnalysis, Cause
    <3> QED
      BY <3>1, <3>2
  <2>5. CASE ResultOnItsWay(f)
    <3> DEFINE r == [file |-> f, text |-> documents[f].text]
    <3>1. CASE r \in t.results
      <4>1. OneResultPerFile(t.results)
        BY <1>3, <2>1 DEF IInv, TaskShape
      <4>2. (CHOOSE s \in t.results : s.file = f) = r
        BY <3>1, <4>1 DEF OneResultPerFile
      <4>3. f \in FilesOf(t.results)
        BY <3>1 DEF FilesOf
      <4>4. diagnostics'[f] = r.text
        <5> HIDE DEF r
        <5> QED
          BY <2>1, <4>2, <4>3
      <4>5. diagnostics'[f] = documents'[f].text
        BY <1>1, <4>4
      <4> QED
        BY <4>5 DEF Accounted
    <3>2. CASE r \notin t.results
      BY <1>1, <1>3, <2>5, <3>2 DEF Accounted, ResultOnItsWay
    <3> QED
      BY <3>1, <3>2
  <2> QED
    BY <1>2, <2>2, <2>3, <2>4, <2>5 DEF Accounted
<1>7. CASE HandleFetchEnd(t)
  <2>1. /\ diagnostics' = diagnostics /\ lost' = lost /\ t.kind = "FetchEnd"
        /\ analysis_requested_for_files' = analysis_requested_for_files
    BY <1>7 DEF HandleFetchEnd
  <2>2. ResultOnItsWay(f) => ResultOnItsWay(f)'
    BY <1>1, <1>3, <2>1 DEF ResultOnItsWay
  <2>3. InPipeline(f) => InPipeline(f)'
    BY <1>1, <1>3, <2>1 DEF InPipeline
  <2> QED
    BY <1>1, <1>2, <2>1, <2>2, <2>3 DEF Accounted, LostAnalysis
<1> QED
  BY <1>4, <1>5, <1>6, <1>7

\* The end of a turn hands its files on, or puts them on record.
LEMMA EndTurnAccounted ==
  ASSUME IInv, NEW should_request \in BOOLEAN, EndTurn(should_request),
         ~should_request => changed_file_ids = {}
  PROVE  NoAnalysisForgotten'
<1> USE DEF docVars, taskVars, deboVars, counters
<1> SUFFICES ASSUME NEW f \in Files, Known(f)' PROVE Accounted(f)'
  BY DEF NoAnalysisForgotten
<1> DEFINE kept == IF should_request THEN {} ELSE analysis_requested_for_files
           S == force_analysis_for_files \cup kept
<1>1. /\ documents' = documents /\ diagnostics' = diagnostics /\ tasks' = tasks
      /\ pending_file_ids' = pending_file_ids
      /\ lost' = lost \cup Lose(analysis_requested_for_files \ S, "superseded")
  BY DEF EndTurn, RequestAnalysis
<1>2. Accounted(f)
  BY <1>1 DEF IInv, NoAnalysisForgotten, Known
<1>3. LostAnalysis(f) => LostAnalysis(f)'
  BY <1>1 DEF LostAnalysis
<1>4. Range(debouncer_source) \subseteq Range(debouncer_source')
      /\ (f \in FilesOf(changed_file_ids) => \E T \in Range(debouncer_source') : f \in T)
  <2>1. CASE should_request
    <3>1. FilesOf(changed_file_ids) \in SUBSET Files
          /\ debouncer_source \in Seq(SUBSET Files)
      BY FilesOfType DEF IInv, TypeOK
    <3>2. Range(Append(debouncer_source, FilesOf(changed_file_ids)))
            = Range(debouncer_source) \cup {FilesOf(changed_file_ids)}
      BY <3>1, RangeAppend
    <3> QED
      BY <2>1, <3>2 DEF EndTurn, RequestAnalysis
  <2>2. CASE ~should_request
    BY <2>2 DEF EndTurn, RequestAnalysis, FilesOf
  <2> QED
    BY <2>1, <2>2
<1>5. /\ \A j \in Jobs : /\ jobs[j].files \subseteq jobs'[j].files
                        /\ jobs[j].results \subseteq jobs'[j].results
      /\ S # {} => \E j \in Jobs : jobs'[j].files = S
  <2>1. CASE S = {}
    BY <2>1 DEF EndTurn, RequestAnalysis
  <2>2. CASE S # {}
    <3>1. PICK j \in Jobs : jobs[j].phase = "free" /\ jobs' = [jobs EXCEPT ![j] = Running(S, {})]
      BY <2>2 DEF EndTurn, RequestAnalysis, SpawnDiagnostics
    <3>2. jobs \in [Jobs -> Job]
      BY DEF IInv, TypeOK
    <3>3. jobs[j].files = {} /\ jobs[j].results = {} /\ jobs'[j].files = S
      BY <3>1, <3>2 DEF IInv, JobShape, Running
    <3>4. \A k \in Jobs : k # j => jobs'[k] = jobs[k]
      BY <3>1, <3>2
    <3> QED
      BY <3>3, <3>4
  <2> QED
    BY <2>1, <2>2
<1>6. ResultOnItsWay(f) => ResultOnItsWay(f)'
  BY <1>1, <1>5 DEF ResultOnItsWay
<1>7. CASE f \in analysis_requested_for_files \ S
  <2>1. [file |-> f, cause |-> "superseded"] \in lost'
    BY <1>1, <1>7 DEF Lose
  <2> QED
    BY <2>1 DEF Accounted, LostAnalysis, Cause
<1>8. CASE f \notin analysis_requested_for_files \ S
  <2>1. InPipeline(f) => InPipeline(f)'
    BY <1>1, <1>4, <1>5, <1>8 DEF InPipeline
  <2> QED
    BY <1>1, <1>2, <1>3, <1>6, <2>1 DEF Accounted
<1> QED
  BY <1>7, <1>8

\* No step of the main thread forgets a file silently.
LEMMA MainThreadAccounted ==
  ASSUME IInv, MainThread PROVE NoAnalysisForgotten'
<1>1. CASE HandleTask
  BY <1>1, HandleTaskAccounted
<1>2. ASSUME UNCHANGED <<docVars, taskVars, debouncer_source, deboVars, jobs, tasks, lost>>
      PROVE  NoAnalysisForgotten'
  BY <1>2 DEF docVars, taskVars, deboVars, IInv, NoAnalysisForgotten, Known, Accounted,
              InPipeline, ResultOnItsWay, LostAnalysis
<1>3. CASE Drained \/ BeginApply
  BY <1>2, <1>3 DEF Drained, BeginApply
<1>4. CASE NothingToApply
  <2>1. has_closed_or_opened_documents \in BOOLEAN /\ changed_file_ids = {}
    BY <1>4 DEF NothingToApply, NeedsApply, IInv, TypeOK
  <2> QED
    BY <1>4, <2>1, EndTurnAccounted DEF NothingToApply
<1>5. CASE Apply
  BY <1>5, EndTurnAccounted DEF Apply
<1> QED
  BY <1>1, <1>3, <1>4, <1>5 DEF MainThread

\* Every step of every thread keeps the inductive invariant.
LEMMA Inductive == IInv /\ [Next]_vars => IInv'
<1> SUFFICES ASSUME IInv, [Next]_vars PROVE IInv'
  OBVIOUS
<1>1. TypeOK'
  BY TypeStep DEF IInv
<1>2. TurnShape' /\ JobShape' /\ TaskShape' /\ DatabaseFollowsDocuments'
  BY TurnShapeStep, JobShapeStep, TaskShapeStep, DatabaseStep DEF IInv
<1>3. NoAnalysisForgotten'
  <2>1. ASSUME UNCHANGED <<docVars, taskVars, debouncer_source, deboVars, jobs, lost>>,
               Range(tasks) \subseteq Range(tasks')
        PROVE  NoAnalysisForgotten'
    BY <2>1 DEF docVars, taskVars, deboVars, IInv, NoAnalysisForgotten, Known, Accounted,
                InPipeline, ResultOnItsWay, LostAnalysis
  <2>2. CASE Fetcher
    <3>1. PICK S \in SUBSET Files : FetchFinished(S)
      BY <2>2 DEF Fetcher
    <3>2. FetchEnd(S) \in Task /\ tasks \in Seq(Task)
      BY TaskType DEF IInv, TypeOK
    <3>3. Range(tasks') = Range(tasks) \cup {FetchEnd(S)}
      BY <3>1, <3>2, RangeAppend DEF FetchFinished
    <3> QED
      BY <2>1, <3>1, <3>3 DEF FetchFinished
  <2>3. CASE UNCHANGED vars
    BY <2>1, <2>3 DEF vars
  <2> QED
    BY <2>2, <2>3, NotificationAccounted, MainThreadAccounted, DebouncerAccounted,
       WorkerAccounted DEF Next
<1> QED
  BY <1>1, <1>2, <1>3 DEF IInv

\* The inductive invariant holds at first.
LEMMA InitInv == Init => IInv
<1> SUFFICES ASSUME Init PROVE IInv
  OBVIOUS
<1>1. TypeOK
  BY InitType
<1>2. TurnShape /\ JobShape
  BY DEF Init, TurnShape, JobShape, FreeJob, OneResultPerFile, FilesOf
<1>3. TaskShape
  BY DEF Init, TaskShape, Range
<1>4. DatabaseFollowsDocuments /\ NoAnalysisForgotten
  BY DEF Init, DatabaseFollowsDocuments, NoAnalysisForgotten, Known
<1> QED
  BY <1>1, <1>2, <1>3, <1>4 DEF IInv

(***************************************************************************)
(* The inductive invariant holds in every reachable state.                 *)
(***************************************************************************)
THEOREM Invariance == Spec => []IInv
  BY InitInv, Inductive, PTL DEF Spec

(***************************************************************************)
(* Whatever the interleaving, the analysis database holds what the         *)
(* document manager holds, up to the change being applied.                 *)
(***************************************************************************)
THEOREM DatabaseCorrect == Spec => []DatabaseFollowsDocuments
<1>1. IInv => DatabaseFollowsDocuments
  BY DEF IInv
<1> QED
  BY <1>1, Invariance, PTL

(***************************************************************************)
(* For any number of documents, jobs and edits: an analysis the server     *)
(* owes a document is in the pipeline unless it was given up for one of    *)
(* the named causes (cancelled, superseded, overtaken).                    *)
(***************************************************************************)
THEOREM NothingForgotten == Spec => []NoAnalysisForgotten
<1>1. IInv => NoAnalysisForgotten
  BY DEF IInv
<1> QED
  BY <1>1, Invariance, PTL
=============================================================================
