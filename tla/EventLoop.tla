----------------------------- MODULE EventLoop -----------------------------
(***************************************************************************)
(* The turn of the language server's event loop, from a document           *)
(* notification to the diagnostics the editor sees.                        *)
(*                                                                         *)
(* Four kinds of threads take part: the main thread (Server::run), the     *)
(* debouncer thread, the analysis jobs on the rayon pool, and whoever      *)
(* sends FetchExternalRepos(End) tasks.  They share two FIFO channels      *)
(* (debouncer_source into the debouncer, tasks into the main thread) and   *)
(* the analysis database, whose writes wait for every job's snapshot.      *)
(*                                                                         *)
(* Texts are stamps: the n-th text the client sends is n, its LSP version  *)
(* is n, and 0 is no text of the client's: there is no such document, or   *)
(* the database has the file as a query loaded it from disk, or not at     *)
(* all.  An analysis may ask for any of these.                             *)
(***************************************************************************)
EXTENDS Naturals, Sequences, Functions

CONSTANTS
  Files,       \* the file ids the server knows of
  Jobs,        \* bound: diagnostics jobs that may be unfinished at once
  MaxEdits,    \* bound: texts the client sends (didOpen, didChange)
  MaxCloses,   \* bound: didClose notifications
  MaxFetches   \* bound: FetchExternalRepos(End) tasks

ASSUME BoundsAssumption ==
  MaxEdits \in Nat /\ MaxCloses \in Nat /\ MaxFetches \in Nat

VARIABLES
  turn,         \* where the main thread is in run/handle_event
  documents,    \* DocumentManager::documents
  changed_file_ids,                \* DocumentManager::changed_file_ids
  has_closed_or_opened_documents,  \* DocumentManager's flag of that name
  analysis_requested_for_files,    \* None and Some([]) are both {}
  force_analysis_for_files,
  diagnostics,  \* DiagnosticsManager: the text each file's diagnostics are of
  files_with_changed_diagnostics,
  published,    \* the last PublishDiagnostics the client got for each file
  db,           \* the text of each File input in the salsa database
  debouncer_source,                \* channel main thread -> debouncer
  active, pending_file_ids,        \* the debouncer thread's locals
  jobs,         \* the closures spawned by update_diagnostics
  tasks,        \* channel into the main thread (task_pool_handle.receiver)
  edits, closes, fetches,          \* what the bounds count
  lost          \* history: analyses asked for and given up, with the cause

docVars  == <<documents, changed_file_ids, has_closed_or_opened_documents>>
deboVars == <<active, pending_file_ids>>
taskVars == <<analysis_requested_for_files, force_analysis_for_files,
              diagnostics, files_with_changed_diagnostics>>
counters == <<edits, closes, fetches>>
vars == <<turn, docVars, taskVars, published, db, debouncer_source, deboVars,
          jobs, tasks, counters, lost>>

-----------------------------------------------------------------------------
Text      == 0..MaxEdits
Result    == [file : Files, text : Text]
Change    == [file : Files, kind : {"Create", "Update"}]
Cause     == {"cancelled", "superseded", "overtaken"}
Job       == [phase : {"free", "running", "sending"},
              files : SUBSET Files, results : SUBSET Result]
FreeJob   == [phase |-> "free", files |-> {}, results |-> {}]
Running(S, R) == [phase |-> "running", files |-> S, results |-> R]

AnalysisRequested(S) == [kind |-> "AnalysisRequested", files |-> S]
DiagnosticsReady(R)  == [kind |-> "DiagnosticsReady", results |-> R]
FetchEnd(S)          == [kind |-> "FetchEnd", files |-> S]

Task == [kind : {"AnalysisRequested", "FetchEnd"}, files : SUBSET Files]
        \cup [kind : {"DiagnosticsReady"}, results : SUBSET Result]

Known(f)   == documents[f].text # 0
IsOpen(f)  == documents[f].editor
FilesOf(R) == {r.file : r \in R}

(***************************************************************************)
(* A job's closure owns a salsa snapshot from update_diagnostics until it  *)
(* returns its Task; the send into the channel comes after that.           *)
(***************************************************************************)
HoldsSnapshot(j) == jobs[j].phase = "running"

(***************************************************************************)
(* GlobalContext's cancelled flag is up for as long as apply_file_changes  *)
(* holds its CancelGuard.                                                  *)
(***************************************************************************)
Cancelled == turn = "apply"

Init ==
  /\ turn = "select"
  /\ documents = [f \in Files |-> [text |-> 0, editor |-> FALSE]]
  /\ changed_file_ids = {}
  /\ has_closed_or_opened_documents = FALSE
  /\ analysis_requested_for_files = {}
  /\ force_analysis_for_files = {}
  /\ diagnostics = [f \in Files |-> 0]
  /\ files_with_changed_diagnostics = {}
  /\ published = [f \in Files |-> [version |-> 0, text |-> 0]]
  /\ db = [f \in Files |-> 0]
  /\ debouncer_source = <<>>
  /\ active = FALSE
  /\ pending_file_ids = {}
  /\ jobs = [j \in Jobs |-> FreeJob]
  /\ tasks = <<>>
  /\ edits = 0 /\ closes = 0 /\ fetches = 0
  /\ lost = {}

-----------------------------------------------------------------------------
(***************************************************************************)
(* Notifications.  A turn handles one; select! takes it or a task.         *)
(***************************************************************************)

\* A new text for f reaches the document manager.
ReceiveText(f, kind) ==
  /\ turn = "select"
  /\ edits < MaxEdits
  /\ edits' = edits + 1
  /\ documents' = [documents EXCEPT ![f] = [text |-> edits + 1, editor |-> TRUE]]
  /\ changed_file_ids' = {[file |-> f, kind |-> kind]}
  /\ turn' = "process"
  /\ lost' = {l \in lost : l.file # f}
  /\ UNCHANGED <<taskVars, published, db, debouncer_source, deboVars, jobs,
                 tasks, closes, fetches>>

DidOpen(f) ==
  /\ ~IsOpen(f)
  /\ ReceiveText(f, "Create")
  /\ has_closed_or_opened_documents' = TRUE

\* The client changes only what it has open, so the document exists.
DidChange(f) ==
  /\ IsOpen(f)
  /\ ReceiveText(f, "Update")
  /\ UNCHANGED has_closed_or_opened_documents

\* The text of a closed document stays, in documents and in the database.
DidClose(f) ==
  /\ turn = "select"
  /\ IsOpen(f)
  /\ closes < MaxCloses
  /\ closes' = closes + 1
  /\ documents' = [documents EXCEPT ![f].editor = FALSE]
  /\ has_closed_or_opened_documents' = TRUE
  /\ turn' = "process"
  /\ UNCHANGED <<changed_file_ids, taskVars, published, db, debouncer_source,
                 deboVars, jobs, tasks, edits, fetches, lost>>

(***************************************************************************)
(* Tasks: the first comes from select!, the rest from the try_recv loop,   *)
(* which goes on until it finds the channel empty.                         *)
(***************************************************************************)

Lose(S, cause) == {[file |-> f, cause |-> cause] : f \in S}

\* The stored diagnostics that an out-of-order result replaces.
Overtaken(R) == {f \in Files : /\ diagnostics[f] = documents[f].text
                               /\ \E r \in R : r.file = f /\ r.text # diagnostics[f]}

HandleAnalysisRequested(t) ==
  /\ t.kind = "AnalysisRequested"
  /\ analysis_requested_for_files' = t.files
  /\ lost' = lost \cup Lose(analysis_requested_for_files \ t.files, "superseded")
  /\ UNCHANGED <<force_analysis_for_files, diagnostics,
                 files_with_changed_diagnostics>>

\* Mutant: the list of changed files is replaced instead of extended.
HandleDiagnosticsReadyForgets(t) ==
  /\ t.kind = "DiagnosticsReady"
  /\ diagnostics' = [f \in Files |->
       IF f \in FilesOf(t.results)
       THEN (CHOOSE r \in t.results : r.file = f).text ELSE diagnostics[f]]
  /\ files_with_changed_diagnostics' = FilesOf(t.results)
  /\ lost' = lost \cup Lose(Overtaken(t.results), "overtaken")
  /\ UNCHANGED <<analysis_requested_for_files, force_analysis_for_files>>

\* set_diagnostics keeps no revision: whatever arrives last is stored.
HandleDiagnosticsReady(t) ==
  /\ t.kind = "DiagnosticsReady"
  /\ diagnostics' = [f \in Files |->
       IF f \in FilesOf(t.results)
       THEN (CHOOSE r \in t.results : r.file = f).text ELSE diagnostics[f]]
  /\ files_with_changed_diagnostics' =
       files_with_changed_diagnostics \cup FilesOf(t.results)
  /\ lost' = lost \cup Lose(Overtaken(t.results), "overtaken")
  /\ UNCHANGED <<analysis_requested_for_files, force_analysis_for_files>>

HandleFetchEnd(t) ==
  /\ t.kind = "FetchEnd"
  /\ force_analysis_for_files' = force_analysis_for_files \cup t.files
  /\ UNCHANGED <<analysis_requested_for_files, diagnostics,
                 files_with_changed_diagnostics, lost>>

HandleTask ==
  /\ turn \in {"select", "drain"}
  /\ tasks # <<>>
  /\ tasks' = Tail(tasks)
  /\ turn' = "drain"
  /\ \/ HandleAnalysisRequested(Head(tasks))
     \/ HandleDiagnosticsReady(Head(tasks))
     \/ HandleFetchEnd(Head(tasks))
  /\ UNCHANGED <<docVars, published, db, debouncer_source, deboVars, jobs,
                 counters>>

Drained ==
  /\ turn = "drain"
  /\ tasks = <<>>
  /\ turn' = "process"
  /\ UNCHANGED <<docVars, taskVars, published, db, debouncer_source, deboVars,
                 jobs, tasks, counters, lost>>

-----------------------------------------------------------------------------
(***************************************************************************)
(* The tail of every turn: process_changes, then the analysis requests,    *)
(* then PublishDiagnostics for the open documents among those changed.     *)
(***************************************************************************)

NeedsApply == changed_file_ids # {} \/ force_analysis_for_files # {}

SpawnDiagnostics(S) ==
  \E j \in Jobs :
    /\ jobs[j].phase = "free"
    /\ jobs' = [jobs EXCEPT ![j] = Running(S, {})]

\* Mutant: only opened documents are sent to the debouncer.
RequestAnalysisOfCreated(should_request) ==
  LET files_to_update ==
        force_analysis_for_files \cup
          (IF should_request THEN {} ELSE analysis_requested_for_files)
      created == {c \in changed_file_ids : c.kind = "Create"}
  IN  /\ debouncer_source' =
           IF should_request THEN Append(debouncer_source, FilesOf(created))
                             ELSE debouncer_source
      /\ lost' = lost \cup
           Lose(analysis_requested_for_files \ files_to_update, "superseded")
      /\ IF files_to_update = {} THEN UNCHANGED jobs
                                 ELSE SpawnDiagnostics(files_to_update)

RequestAnalysis(should_request) ==
  LET files_to_update ==
        force_analysis_for_files \cup
          (IF should_request THEN {} ELSE analysis_requested_for_files)
  IN  /\ debouncer_source' =
           IF should_request THEN Append(debouncer_source, FilesOf(changed_file_ids))
                             ELSE debouncer_source
      /\ lost' = lost \cup
           Lose(analysis_requested_for_files \ files_to_update, "superseded")
      /\ IF files_to_update = {} THEN UNCHANGED jobs
                                 ELSE SpawnDiagnostics(files_to_update)

PublishDiagnostics ==
  published' = [f \in Files |->
    IF f \in files_with_changed_diagnostics /\ IsOpen(f)
    THEN [version |-> documents[f].text, text |-> diagnostics[f]]
    ELSE published[f]]

EndTurn(should_request) ==
  /\ turn' = "select"
  /\ RequestAnalysis(should_request)
  /\ PublishDiagnostics
  /\ changed_file_ids' = {}
  /\ has_closed_or_opened_documents' = FALSE
  /\ analysis_requested_for_files' = {}
  /\ force_analysis_for_files' = {}
  /\ files_with_changed_diagnostics' = {}
  /\ UNCHANGED <<documents, diagnostics, deboVars, tasks, counters>>

NothingToApply ==
  /\ turn = "process"
  /\ ~NeedsApply
  /\ EndTurn(has_closed_or_opened_documents)
  /\ UNCHANGED db

BeginApply ==
  /\ turn = "process"
  /\ NeedsApply
  /\ turn' = "apply"
  /\ UNCHANGED <<docVars, taskVars, published, db, debouncer_source, deboVars,
                 jobs, tasks, counters, lost>>

(***************************************************************************)
(* A Create makes a new File input and waits for nobody; an Update sets    *)
(* the input's contents, for which salsa waits until no snapshot is left.  *)
(***************************************************************************)
MayWrite == (\E c \in changed_file_ids : c.kind = "Update")
              => \A j \in Jobs : ~HoldsSnapshot(j)

\* Mutant: an Update never reaches the database.
ApplyCreatesOnly ==
  /\ turn = "apply"
  /\ MayWrite
  /\ db' = [f \in Files |-> IF [file |-> f, kind |-> "Create"] \in changed_file_ids
                            THEN documents[f].text ELSE db[f]]
  /\ EndTurn(TRUE)

Apply ==
  /\ turn = "apply"
  /\ MayWrite
  /\ db' = [f \in Files |-> IF f \in FilesOf(changed_file_ids)
                            THEN documents[f].text ELSE db[f]]
  /\ EndTurn(TRUE)

-----------------------------------------------------------------------------
(***************************************************************************)
(* The debouncer thread.                                                   *)
(***************************************************************************)

\* Mutant: a new request replaces the pending ones.
DebouncerReceiveReplaces ==
  /\ debouncer_source # <<>>
  /\ active' = TRUE
  /\ pending_file_ids' = Head(debouncer_source)
  /\ debouncer_source' = Tail(debouncer_source)
  /\ UNCHANGED <<turn, docVars, taskVars, published, db, jobs, tasks, counters,
                 lost>>

DebouncerReceive ==
  /\ debouncer_source # <<>>
  /\ active' = TRUE
  /\ pending_file_ids' = pending_file_ids \cup Head(debouncer_source)
  /\ debouncer_source' = Tail(debouncer_source)
  /\ UNCHANGED <<turn, docVars, taskVars, published, db, jobs, tasks, counters,
                 lost>>

DebouncerTimeout ==
  /\ active
  /\ debouncer_source = <<>>
  /\ tasks' = Append(tasks, AnalysisRequested(pending_file_ids))
  /\ active' = FALSE
  /\ pending_file_ids' = {}
  /\ UNCHANGED <<turn, docVars, taskVars, published, db, debouncer_source,
                 jobs, counters, lost>>

-----------------------------------------------------------------------------
(***************************************************************************)
(* A diagnostics job goes through its files in some order; a file whose    *)
(* analysis is cancelled is left out of the result.                        *)
(***************************************************************************)

Analyze(j, f) ==
  /\ jobs[j].phase = "running"
  /\ f \in jobs[j].files
  /\ jobs' = [jobs EXCEPT ![j] =
       Running(@.files \ {f}, @.results \cup {[file |-> f, text |-> db[f]]})]
  /\ UNCHANGED <<turn, docVars, taskVars, published, db, debouncer_source,
                 deboVars, tasks, counters, lost>>

SkipCancelled(j, f) ==
  /\ jobs[j].phase = "running"
  /\ f \in jobs[j].files
  /\ Cancelled
  /\ jobs' = [jobs EXCEPT ![j] = Running(@.files \ {f}, @.results)]
  /\ lost' = lost \cup Lose({f} \ FilesOf(changed_file_ids), "cancelled")
  /\ UNCHANGED <<turn, docVars, taskVars, published, db, debouncer_source,
                 deboVars, tasks, counters>>

\* The closure returns and drops its snapshot; a write need not wait for the send.
Return(j) ==
  /\ jobs[j].phase = "running"
  /\ jobs[j].files = {}
  /\ jobs' = [jobs EXCEPT ![j].phase = "sending"]
  /\ UNCHANGED <<turn, docVars, taskVars, published, db, debouncer_source,
                 deboVars, tasks, counters, lost>>

Send(j) ==
  /\ jobs[j].phase = "sending"
  /\ tasks' = Append(tasks, DiagnosticsReady(jobs[j].results))
  /\ jobs' = [jobs EXCEPT ![j] = FreeJob]
  /\ UNCHANGED <<turn, docVars, taskVars, published, db, debouncer_source,
                 deboVars, counters, lost>>

(***************************************************************************)
(* A fetch ends for the files that asked for it: those that load something *)
(* of a repository (FetchExternalRepoRequest.file_id).  Any file the       *)
(* server knows may, opened or only ever loaded by others from disk.       *)
(***************************************************************************)
FetchFinished(S) ==
  /\ fetches < MaxFetches
  /\ fetches' = fetches + 1
  /\ tasks' = Append(tasks, FetchEnd(S))
  /\ UNCHANGED <<turn, docVars, taskVars, published, db, debouncer_source,
                 deboVars, jobs, edits, closes, lost>>

-----------------------------------------------------------------------------
Notification == \E f \in Files : DidOpen(f) \/ DidChange(f) \/ DidClose(f)
MainThread   == HandleTask \/ Drained \/ NothingToApply \/ BeginApply \/ Apply
Debouncer    == DebouncerReceive \/ DebouncerTimeout
Worker(j)    == \/ \E f \in Files : Analyze(j, f) \/ SkipCancelled(j, f)
                \/ Return(j) \/ Send(j)
Fetcher      == \E S \in SUBSET Files : S # {} /\ FetchFinished(S)

Next == \/ Notification
        \/ MainThread
        \/ Debouncer
        \/ \E j \in Jobs : Worker(j)
        \/ Fetcher

Spec == Init /\ [][Next]_vars

(***************************************************************************)
(* Every thread of the server keeps running; the client and the fetches    *)
(* need not do anything.                                                   *)
(***************************************************************************)
Fairness == /\ WF_vars(MainThread)
            /\ WF_vars(DebouncerReceive) /\ WF_vars(DebouncerTimeout)
            /\ \A j \in Jobs : WF_vars(Worker(j))

FairSpec == Spec /\ Fairness

-----------------------------------------------------------------------------
(***************************************************************************)
(* Every variable has its type, and what a turn collects is empty between  *)
(* two turns.                                                              *)
(***************************************************************************)
TypeOK ==
  /\ turn \in {"select", "drain", "process", "apply"}
  /\ documents \in [Files -> [text : Text, editor : BOOLEAN]]
  /\ changed_file_ids \in SUBSET Change
  /\ has_closed_or_opened_documents \in BOOLEAN
  /\ analysis_requested_for_files \in SUBSET Files
  /\ force_analysis_for_files \in SUBSET Files
  /\ diagnostics \in [Files -> Text]
  /\ files_with_changed_diagnostics \in SUBSET Files
  /\ published \in [Files -> [version : Text, text : Text]]
  /\ db \in [Files -> Text]
  /\ debouncer_source \in Seq(SUBSET Files)
  /\ active \in BOOLEAN
  /\ pending_file_ids \in SUBSET Files
  /\ jobs \in [Jobs -> Job]
  /\ tasks \in Seq(Task)
  /\ edits \in Text /\ closes \in Nat /\ fetches \in Nat
  /\ lost \in SUBSET [file : Files, cause : Cause]

(***************************************************************************)
(* The database holds the text the document manager holds, but for the     *)
(* change this turn has still to apply (process_changes, apply_change).    *)
(***************************************************************************)
DatabaseFollowsDocuments ==
  \A f \in Files \ FilesOf(changed_file_ids) : db[f] = documents[f].text

\* f waits to be analysed at some station between its change and a job.
InPipeline(f) ==
  \/ f \in FilesOf(changed_file_ids)
  \/ \E S \in Range(debouncer_source) : f \in S
  \/ f \in pending_file_ids
  \/ \E t \in Range(tasks) : t.kind = "AnalysisRequested" /\ f \in t.files
  \/ f \in analysis_requested_for_files
  \/ \E j \in Jobs : f \in jobs[j].files

\* The result for f's present text is computed and not yet handled.
ResultOnItsWay(f) ==
  LET r == [file |-> f, text |-> documents[f].text]
  IN  \/ \E j \in Jobs : r \in jobs[j].results
      \/ \E t \in Range(tasks) : t.kind = "DiagnosticsReady" /\ r \in t.results

LostAnalysis(f) == \E c \in Cause : [file |-> f, cause |-> c] \in lost

(***************************************************************************)
(* No analysis is forgotten silently.  A known document's stored           *)
(* diagnostics are of its present text, or the file is still somewhere in  *)
(* the pipeline from process_changes to DiagnosticsReady, or its analysis  *)
(* was given up for one of the causes the history variable names.          *)
(***************************************************************************)
Accounted(f) ==
  \/ diagnostics[f] = documents[f].text
  \/ InPipeline(f)
  \/ ResultOnItsWay(f)
  \/ LostAnalysis(f)

NoAnalysisForgotten == \A f \in Files : Known(f) => Accounted(f)

(***************************************************************************)
(* What makes the invariants above inductive: a document changes only      *)
(* while its turn applies the change, a job's finished and unfinished      *)
(* files are disjoint, and a result names each file once.                  *)
(***************************************************************************)
OneResultPerFile(R) == \A r, s \in R : r.file = s.file => r = s

TurnShape == turn \in {"select", "drain"} => changed_file_ids = {}

JobShape ==
  \A j \in Jobs :
    /\ jobs[j].phase # "running" => jobs[j].files = {}
    /\ jobs[j].phase = "free" => jobs[j].results = {}
    /\ OneResultPerFile(jobs[j].results)
    /\ jobs[j].files \cap FilesOf(jobs[j].results) = {}

TaskShape ==
  \A t \in Range(tasks) : t.kind = "DiagnosticsReady" => OneResultPerFile(t.results)

IInv == /\ TypeOK /\ TurnShape /\ JobShape /\ TaskShape
        /\ DatabaseFollowsDocuments /\ NoAnalysisForgotten

(***************************************************************************)
(* Between turns the client has what the server has: if the stored         *)
(* diagnostics of an open document are of its present text, they have been *)
(* published (set_diagnostics' list of changed files misses none).         *)
(***************************************************************************)
FreshDiagnosticsArePublished ==
  \A f \in Files :
    turn = "select" /\ IsOpen(f) /\ diagnostics[f] = documents[f].text
      => published[f].text = diagnostics[f]

(***************************************************************************)
(* What makes it inductive.  Texts move forward: a stored result is of a   *)
(* text the database has had, and the database runs behind the document    *)
(* manager, so a new text is newer than any stored diagnostics.  What is   *)
(* stored and not published is on the list of this turn, and the list is   *)
(* empty between turns.                                                    *)
(***************************************************************************)
ResultsOf(t) == IF t.kind = "DiagnosticsReady" THEN t.results ELSE {}

ResultsOnTheirWay == UNION ({jobs[j].results : j \in Jobs}
                              \cup {ResultsOf(t) : t \in Range(tasks)})

TextsMoveForward ==
  /\ \A f \in Files : /\ diagnostics[f] <= db[f]
                       /\ db[f] <= documents[f].text
                       /\ documents[f].text <= edits
  /\ \A r \in ResultsOnTheirWay : r.text <= db[r.file]

PublishedOrListed ==
  /\ turn = "select" => files_with_changed_diagnostics = {}
  /\ \A f \in Files : IsOpen(f) /\ diagnostics[f] = documents[f].text
       => published[f].text = diagnostics[f] \/ f \in files_with_changed_diagnostics

PublishedIInv == IInv /\ TextsMoveForward /\ PublishedOrListed

Fresh(f) == published[f].text = documents[f].text

Quiescent ==
  /\ turn = "select" /\ tasks = <<>> /\ debouncer_source = <<>> /\ ~active
  /\ \A j \in Jobs : jobs[j].phase = "free"

(***************************************************************************)
(* "Update our diagnostics if a triggering event (e.g. document            *)
(* open/close/change) occured" (event_loop.rs:134): when nothing is left   *)
(* to do, the client has the diagnostics of every open document's text.    *)
(***************************************************************************)
QuiescentFresh == Quiescent => \A f \in Files : IsOpen(f) => Fresh(f)

\* The editor opened no other document, and no fetch ended.
Undisturbed(f) == fetches = 0 /\ \A g \in Files \ {f} : ~Known(g)

(***************************************************************************)
(* Once the client stops typing it gets the diagnostics of every open      *)
(* document, unless its analysis was given up for a cause in lost.  A      *)
(* change to another document or the end of a fetch, of whatever file, may *)
(* be the cause; without them only an older result that arrives late is:   *)
(* debouncing and the document's own changes lose nothing.                 *)
(***************************************************************************)
GivenUp(f) ==
  \E c \in Cause : /\ [file |-> f, cause |-> c] \in lost
                   /\ Undisturbed(f) => c = "overtaken"

EventuallyFresh == <>[](\A f \in Files : IsOpen(f) => Fresh(f) \/ GivenUp(f))
=============================================================================
