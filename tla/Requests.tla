------------------------------ MODULE Requests ------------------------------
(***************************************************************************)
(* The life of an LSP request: registered by the main thread, evaluated on *)
(* the pool against a snapshot of the database, cancelled and retried when *)
(* a change is applied meanwhile, answered once.                           *)
(*                                                                         *)
(* The pool's few threads are shared with the jobs that run Bazel, the     *)
(* documents' RwLock with the main thread, and the type checker's mutex,   *)
(* that a query keeps while it runs Bazel itself, with both.  EventLoop    *)
(* has the diagnostics jobs; here every change is one to the document the  *)
(* requests are about, and rev counts the texts the database had for it.   *)
(***************************************************************************)
EXTENDS Naturals, Sequences, FiniteSets

CONSTANTS
  RequestIds,    \* the ids of the requests the client sends
  Threads,       \* threads of the pool (server.rs has 4)
  MaxChanges,    \* bound: didOpen and didChange notifications
  MaxBackground  \* bound: Bazel jobs started

ASSUME BoundsAssumption ==
  Threads \in Nat /\ MaxChanges \in Nat /\ MaxBackground \in Nat

VARIABLES
  main,        \* where the main thread is in run/handle_event
  incoming,    \* req_queue.incoming
  method,      \* what each request asks for; "none" before it is received
  jobs,        \* the closures RequestDispatcher spawned
  busy,        \* is_fetching_repos and is_refreshing_all_workspace_targets
  background,  \* the pool's Bazel jobs of each kind, queued and running
  tasks,       \* channel into the main thread
  change,      \* DocumentManager::changed_file_ids, for the one document
  force,       \* force_analysis_for_files is not empty
  rev,         \* the number of texts the database had for the document
  created,     \* history: those that create_file put in place of a File
  answers,     \* the responses the client got for each request
  retries,     \* history: how often each request was dispatched again
  applies,     \* history: calls of apply_change
  changes, started                 \* what the bounds count

mainVars == <<incoming, method, answers, retries>>
poolVars == <<busy, background>>
dbVars   == <<change, force, rev, created, applies>>
counters == <<changes, started>>
vars == <<main, mainVars, jobs, poolVars, tasks, dbVars, counters>>

-----------------------------------------------------------------------------
(***************************************************************************)
(* "hover" stands for every handler that converts a position and asks one  *)
(* query, "goto" for those that translate the locations it found with more *)
(* queries, "show_hir" for the one that keeps the documents locked.        *)
(***************************************************************************)
Method  == {"hover", "goto", "show_hir", "unsupported"}
Bazel   == {"fetch", "refresh"}
Rev     == 0..MaxChanges
Outcome == {"value", "null", "empty", "error", "cancelled"}

\* pos: the text a position was converted with; read: the text analysed.
Result  == [outcome : Outcome, pos : Rev, read : Rev]
Job     == [phase : {"none", "queued", "lookup", "position", "query", "bazel",
                     "listing", "links", "sending"},
            result : Result]
NoResult == [outcome |-> "null", pos |-> 0, read |-> 0]
At(phase, result) == [phase |-> phase, result |-> result]
NoJob   == At("none", NoResult)
Queued  == At("queued", NoResult)

ResponseReady(r, result) == [kind |-> "ResponseReady", id |-> r, result |-> result]
Retry(r)                 == [kind |-> "Retry", id |-> r]
End(b)                   == [kind |-> "End", job |-> b]

Task == [kind : {"ResponseReady"}, id : RequestIds, result : Result]
        \cup [kind : {"Retry"}, id : RequestIds]
        \cup [kind : {"End"}, job : Bazel]

(***************************************************************************)
(* The snapshot is taken when the closure is made, so a job that waits for *)
(* a thread holds one; finish() makes a closure without.                   *)
(***************************************************************************)
HoldsSnapshot(r) == /\ jobs[r].phase \notin {"none", "sending"}
                    /\ method[r] # "unsupported"

\* show_hir's read guard lives as long as its handler.
ReadsDocuments(r) == method[r] = "show_hir" /\ jobs[r].phase = "query"

\* TyContext's mutex is in the hands of a query that runs Bazel.
ContextHeld == \E r \in RequestIds : jobs[r].phase = "bazel"

OnThread(r) == jobs[r].phase \notin {"none", "queued"}

FreeThread ==
  Cardinality({r \in RequestIds : OnThread(r)})
    + background["fetch"].running + background["refresh"].running < Threads

\* Mutant: the flag is never lowered.
CancelledForGood == main = "apply" \/ applies > 0

\* GlobalContext's flag is up while a change is applied and stops inference;
\* salsa's own stops any query, and is up while a write waits.
Cancelled        == main = "apply"
CancelledBySalsa == main = "apply" /\ change = "Update"

Init ==
  /\ main = "select"
  /\ incoming = {}
  /\ method = [r \in RequestIds |-> "none"]
  /\ jobs = [r \in RequestIds |-> NoJob]
  /\ busy = {}
  /\ background = [b \in Bazel |-> [queued |-> 0, running |-> 0]]
  /\ tasks = <<>>
  /\ change = "none" /\ force = FALSE /\ rev = 0 /\ created = {}
  /\ answers = [r \in RequestIds |-> <<>>]
  /\ retries = [r \in RequestIds |-> 0]
  /\ applies = 0
  /\ changes = 0 /\ started = 0

-----------------------------------------------------------------------------
(***************************************************************************)
(* The main thread.  Messages of the client.                               *)
(***************************************************************************)
ReceiveRequest(r, m) ==
  /\ main = "select"
  /\ method[r] = "none"
  /\ method' = [method EXCEPT ![r] = m]
  /\ incoming' = incoming \cup {r}
  /\ jobs' = [jobs EXCEPT ![r] = Queued]
  /\ main' = "process"
  /\ UNCHANGED <<poolVars, tasks, dbVars, answers, retries, counters>>

\* A didOpen or didChange; it may make the server start refreshing targets.
ReceiveChange(kind) ==
  /\ main = "select"
  /\ changes < MaxChanges
  /\ changes' = changes + 1
  /\ change' = kind
  /\ main' = "process"
  /\ UNCHANGED <<mainVars, jobs, poolVars, tasks, force, rev, created, applies, started>>

\* Mutant: the flags that keep each Bazel job single are not consulted.
MayStartAnyTime(b) == TRUE

\* fetch_bazel_external_repos and refresh_all_workspace_targets: one at a time.
MayStart(b) == b \notin busy

StartBackground(b) ==
  /\ main = "select"
  /\ started < MaxBackground
  /\ started' = started + 1
  /\ MayStart(b)
  /\ busy' = busy \cup {b}
  /\ background' = [background EXCEPT ![b].queued = @ + 1]
  /\ main' = "process"
  /\ UNCHANGED <<mainVars, jobs, tasks, dbVars, changes>>

\* Connection::handle_shutdown; whatever is still pending is dropped.
Shutdown ==
  /\ main = "select"
  /\ main' = "stopped"
  /\ UNCHANGED <<mainVars, jobs, poolVars, tasks, dbVars, counters>>

(***************************************************************************)
(* Tasks.                                                                  *)
(***************************************************************************)
\* Mutant: a response leaves its request registered.
RespondKeepsRegistered(t) ==
  /\ t.kind = "ResponseReady"
  /\ answers' = [answers EXCEPT ![t.id] =
       IF t.id \in incoming THEN Append(@, t.result) ELSE @]
  /\ UNCHANGED <<incoming, method, jobs, poolVars, retries, force>>

\* The response to a request that is not registered (any more) is dropped.
Respond(t) ==
  /\ t.kind = "ResponseReady"
  /\ incoming' = incoming \ {t.id}
  /\ answers' = [answers EXCEPT ![t.id] =
       IF t.id \in incoming THEN Append(@, t.result) ELSE @]
  /\ UNCHANGED <<method, jobs, poolVars, retries, force>>

\* Mutant: besides being retried, a cancelled request is answered.
RetryAndRespond(t) ==
  /\ t.kind = "Retry"
  /\ jobs' = [jobs EXCEPT ![t.id] = Queued]
  /\ retries' = [retries EXCEPT ![t.id] = @ + 1]
  /\ answers' = [answers EXCEPT ![t.id] = Append(@, NoResult)]
  /\ UNCHANGED <<method, incoming, poolVars, force>>

\* handle_request with a new snapshot; the request stays registered.
RetryRequest(t) ==
  /\ t.kind = "Retry"
  /\ jobs' = [jobs EXCEPT ![t.id] = Queued]
  /\ retries' = [retries EXCEPT ![t.id] = @ + 1]
  /\ UNCHANGED <<method, incoming, answers, poolVars, force>>

BackgroundEnded(t) ==
  /\ t.kind = "End"
  /\ busy' = busy \ {t.job}
  /\ force' = (force \/ t.job = "fetch")
  /\ UNCHANGED <<mainVars, jobs, background>>

HandleTask ==
  /\ main \in {"select", "drain"}
  /\ tasks # <<>>
  /\ tasks' = Tail(tasks)
  /\ main' = "drain"
  /\ LET t == Head(tasks)
     IN  Respond(t) \/ RetryRequest(t) \/ BackgroundEnded(t)
  /\ UNCHANGED <<change, rev, created, applies, counters>>

Drained ==
  /\ main = "drain"
  /\ tasks = <<>>
  /\ main' = "process"
  /\ UNCHANGED <<mainVars, jobs, poolVars, tasks, dbVars, counters>>

\* Mutant: the write lock is kept while the change is applied.
MayReadAfterApply == main \notin {"process", "apply"}

(***************************************************************************)
(* process_changes: the write lock on the documents (that of the           *)
(* notification's handler included) waits for the readers there are and    *)
(* keeps out new ones, and is released before the change is applied.       *)
(***************************************************************************)
MayRead == main # "process"

ProcessChanges ==
  /\ main = "process"
  /\ \A r \in RequestIds : ~ReadsDocuments(r)
  /\ main' = IF change # "none" \/ force THEN "apply" ELSE "select"
  /\ UNCHANGED <<mainVars, jobs, poolVars, tasks, dbVars, counters>>

\* Mutant: the write does not wait for the snapshots.
MayWriteAtOnce == TRUE

\* Setting an input waits for every snapshot; creating one does not.
MayWrite == change = "Update" => \A r \in RequestIds : ~HoldsSnapshot(r)

\* When the guard is dropped the context is reset, under the mutex.
ApplyChange ==
  /\ main = "apply"
  /\ MayWrite
  /\ ~ContextHeld
  /\ rev' = IF change = "none" THEN rev ELSE rev + 1
  /\ created' = created \cup (IF change = "Create" THEN {rev'} ELSE {})
  /\ change' = "none" /\ force' = FALSE
  /\ applies' = applies + 1
  /\ main' = "select"
  /\ UNCHANGED <<mainVars, jobs, poolVars, tasks, counters>>

-----------------------------------------------------------------------------
(***************************************************************************)
(* The threads of the pool.                                                *)
(***************************************************************************)
SetJob(r, phase, result) ==
  /\ jobs' = [jobs EXCEPT ![r] = At(phase, result)]
  /\ UNCHANGED <<main, mainVars, poolVars, tasks, dbVars, counters>>

\* The closure returns a Task, and with that drops the snapshot.
Finish(r, outcome) ==
  SetJob(r, "sending", [jobs[r].result EXCEPT !.outcome = outcome])

Start(r) ==
  /\ jobs[r].phase = "queued"
  /\ FreeThread
  /\ IF method[r] = "unsupported" THEN Finish(r, "error")
                                  ELSE SetJob(r, "lookup", NoResult)

\* document_manager.read(): the path of an unknown document ends the request.
Lookup(r) ==
  /\ jobs[r].phase = "lookup"
  /\ MayRead
  /\ \/ Finish(r, "null")
     \/ method[r] = "show_hir" /\ SetJob(r, "query", NoResult)
     \/ method[r] # "show_hir" /\ SetJob(r, "position", NoResult)

\* text_size_from_lsp_position asks for the line index of the text.
ConvertPosition(r) ==
  /\ jobs[r].phase = "position"
  /\ \/ Finish(r, "null")
     \/ SetJob(r, "query", [NoResult EXCEPT !.pos = rev])

\* How a query ends that read this text: a panic becomes an error response.
EndQuery(r, read) ==
  \/ Finish(r, "error")
  \/ SetJob(r, IF method[r] = "goto" THEN "links" ELSE "sending",
            [jobs[r].result EXCEPT !.outcome = "value", !.read = read])

\* A query that needs no Bazel; all but show_hir's ask the type checker.
Evaluate(r) ==
  /\ jobs[r].phase = "query"
  /\ method[r] = "show_hir" \/ ~ContextHeld
  /\ EndQuery(r, rev)

(***************************************************************************)
(* A label or a load that names another repository: the query runs `bazel  *)
(* mod dump_repo_mapping', keeping its snapshot, its thread and, unless it *)
(* lists a directory or resolves a label to go to, the mutex.  While the   *)
(* flag is up it goes on as soon as Bazel has answered or failed, and      *)
(* unwinds at the next expression or query, if there is one.               *)
(***************************************************************************)
RunBazel(r) ==
  /\ jobs[r].phase = "query" /\ method[r] # "show_hir"
  /\ \E phase \in {"bazel", "listing"} :
       /\ phase = "bazel" => ~ContextHeld
       /\ SetJob(r, phase, [jobs[r].result EXCEPT !.read = rev])

BazelAnswers(r) ==
  /\ jobs[r].phase \in {"bazel", "listing"}
  /\ \/ EndQuery(r, jobs[r].result.read)
     \/ Cancelled /\ Finish(r, "cancelled")

\* response_from_locations, undisturbed.
TranslateLinks(r) == jobs[r].phase = "links" /\ Finish(r, "value")

\* Cancelled::catch in AnalysisSnapshot::query, and the handler's `?'.  One
\* that waits for the mutex does not see the type checker's flag.
MeetCancellation(r) ==
  /\ \/ jobs[r].phase \in {"position", "query"} /\ CancelledBySalsa
     \/ jobs[r].phase = "query" /\ Cancelled /\ ~ContextHeld
  /\ Finish(r, "cancelled")

\* response_from_locations: a cancelled line_index is a location less.
SwallowCancellation(r) ==
  /\ jobs[r].phase = "links"
  /\ CancelledBySalsa
  /\ Finish(r, "empty")

Send(r) ==
  /\ jobs[r].phase = "sending"
  /\ tasks' = Append(tasks, IF jobs[r].result.outcome = "cancelled"
                            THEN Retry(r) ELSE ResponseReady(r, jobs[r].result))
  /\ jobs' = [jobs EXCEPT ![r] = NoJob]
  /\ UNCHANGED <<main, mainVars, poolVars, dbVars, counters>>

RunBackground(b) ==
  /\ background[b].queued > 0
  /\ FreeThread
  /\ background' = [background EXCEPT ![b] = [queued  |-> @.queued - 1,
                                              running |-> @.running + 1]]
  /\ UNCHANGED <<busy, main, mainVars, jobs, tasks, dbVars, counters>>

\* The job's Bazel has answered or failed; if it hangs this never happens.
BazelReturns(b) ==
  /\ background[b].running > 0
  /\ background' = [background EXCEPT ![b].running = @ - 1]
  /\ tasks' = Append(tasks, End(b))
  /\ UNCHANGED <<busy, main, mainVars, jobs, dbVars, counters>>

-----------------------------------------------------------------------------
Client == \/ \E r \in RequestIds, m \in Method : ReceiveRequest(r, m)
          \/ \E kind \in {"Create", "Update"} : ReceiveChange(kind)
          \/ \E b \in Bazel : StartBackground(b)
          \/ Shutdown
MainThread == HandleTask \/ Drained \/ ProcessChanges \/ ApplyChange
Worker(r) == \/ Start(r) \/ Lookup(r) \/ ConvertPosition(r) \/ Evaluate(r)
             \/ RunBazel(r) \/ TranslateLinks(r) \/ MeetCancellation(r)
             \/ SwallowCancellation(r) \/ Send(r)

Next == \/ Client
        \/ MainThread
        \/ /\ main # "stopped"
           /\ \/ \E r \in RequestIds : Worker(r) \/ BazelAnswers(r)
              \/ \E b \in Bazel : RunBackground(b) \/ BazelReturns(b)

Spec == Init /\ [][Next]_vars

(***************************************************************************)
(* The main thread and the pool's threads keep running, and a query ends   *)
(* that does not wait for Bazel.  That the Bazel a query runs returns is   *)
(* an assumption of its own: run_command has no timeout, and if it hangs   *)
(* the query keeps its request, the mutex and the snapshot.  Nothing is    *)
(* assumed of the client, and nothing of the Bazel that the two background *)
(* jobs run: it may hang.                                                  *)
(***************************************************************************)
Fairness ==
  /\ WF_vars(MainThread)
  /\ \A r \in RequestIds : WF_vars(main # "stopped" /\ Worker(r))
  /\ \A r \in RequestIds : WF_vars(main # "stopped" /\ BazelAnswers(r))

FairSpec == Spec /\ Fairness

-----------------------------------------------------------------------------
(***************************************************************************)
(* Every variable has its type; a registered request is one received.      *)
(***************************************************************************)
TypeOK ==
  /\ main \in {"select", "drain", "process", "apply", "stopped"}
  /\ incoming \in SUBSET RequestIds
  /\ method \in [RequestIds -> Method \cup {"none"}]
  /\ jobs \in [RequestIds -> Job]
  /\ busy \in SUBSET Bazel
  /\ background \in [Bazel -> [queued : Nat, running : Nat]]
  /\ tasks \in Seq(Task)
  /\ change \in {"none", "Create", "Update"} /\ force \in BOOLEAN
  /\ rev \in Nat /\ created \in SUBSET Nat /\ applies \in Nat
  /\ answers \in [RequestIds -> Seq(Result)]
  /\ retries \in [RequestIds -> Nat]
  /\ changes \in Nat /\ started \in Nat

Received(r)  == method[r] # "none"
IsAbout(t, r) == t.kind # "End" /\ t.id = r
Messages(r)  == {i \in DOMAIN tasks : IsAbout(tasks[i], r)}
InPool(r)    == jobs[r].phase # "none"

(***************************************************************************)
(* A registered request is in exactly one place, a job or a task, and one  *)
(* that is not registered is nowhere: whatever the order of cancellations, *)
(* retries and responses, no request is lost and none is evaluated twice   *)
(* at a time (RequestDispatcher::on, Task::Retry, Server::respond).        *)
(***************************************************************************)
OneOwner ==
  \A r \in RequestIds :
    IF r \in incoming
    THEN /\ \A i, k \in Messages(r) : i = k
         /\ InPool(r) <=> Messages(r) = {}
    ELSE ~InPool(r) /\ Messages(r) = {}

(***************************************************************************)
(* A request is dispatched again at most once per applied change: one      *)
(* change cannot cancel the same request twice, so retries cost no more    *)
(* than the edits that caused them (Task::Retry, GlobalContext::cancel).   *)
(***************************************************************************)
RetriesBounded == \A r \in RequestIds : retries[r] <= applies

(***************************************************************************)
(* Each request is answered once, and in the end: the specification of     *)
(* RequestService, of which status and open are this mapping.  The second  *)
(* half needs that the Bazel a query runs returns (Fairness); that of the  *)
(* background jobs may hang, since the two leave threads free.             *)
(***************************************************************************)
status == [r \in RequestIds |->
             IF answers[r] = <<>> THEN IF Received(r) THEN "pending" ELSE "unasked"
             ELSE IF r \notin incoming /\ Len(answers[r]) = 1 THEN "answered"
             ELSE "confused"]
open == main # "stopped"

Service == INSTANCE RequestService WITH RequestIds <- RequestIds, status <- status, open <- open
ServiceSafety   == Service!Spec
ServiceLiveness == Service!EventuallyAnswered

(***************************************************************************)
(* The main thread always comes back to its channels: none of the waits    *)
(* for the documents' write lock, the snapshots and the type checker's     *)
(* mutex lasts forever, show_hir's read guard notwithstanding, as long as  *)
(* the Bazel that a query runs returns (Server::process_changes).          *)
(***************************************************************************)
TurnEnds == main = "process" ~> main \in {"select", "stopped"}

Answered == UNION {{answers[r][i] : i \in DOMAIN answers[r]} : r \in RequestIds}

(***************************************************************************)
(* "Retry a previously failed request (e.g. due to Salsa cancellation)"    *)
(* (event_loop.rs:58): a cancelled request is retried, so no client gets   *)
(* an answer cut short by a cancellation.                                  *)
(***************************************************************************)
CancelledIsRetried == \A a \in Answered : a.outcome # "empty"

(***************************************************************************)
(* An edit never comes between the position a handler converts and the     *)
(* text it analyses: the write waits for the snapshot, and the snapshot    *)
(* unwinds and is retried (server.rs:248).  Only a didOpen does, which     *)
(* replaces the File of the document and cancels nothing by itself.        *)
(***************************************************************************)
OnlyOpensSplitAnswers ==
  \A r \in RequestIds : \A i \in DOMAIN answers[r] :
    LET a == answers[r][i]
    IN  a.outcome = "value" /\ method[r] # "show_hir" =>
          (a.pos + 1)..a.read \subseteq created

(***************************************************************************)
(* What makes the invariants and the refinement inductive.                 *)
(***************************************************************************)
RevIsCounted ==
  /\ rev + (IF change = "none" THEN 0 ELSE 1) <= changes
  /\ changes <= MaxChanges
  /\ main \in {"select", "drain", "stopped"} => change = "none"

AnsweredOnce ==
  \A r \in RequestIds :
    /\ r \in incoming => Received(r)
    /\ IF r \in incoming \/ ~Received(r) THEN answers[r] = <<>>
                                         ELSE Len(answers[r]) = 1

\* A change has been paid, or is being applied, for each retry to come.
ToBeRetried(r) ==
  \/ jobs[r].phase = "sending" /\ jobs[r].result.outcome = "cancelled"
  \/ \E i \in Messages(r) : tasks[i].kind = "Retry"

RetryIsPaid ==
  \A r \in RequestIds : ToBeRetried(r) => retries[r] < applies \/ main = "apply"

IInv == /\ TypeOK /\ RevIsCounted /\ OneOwner /\ AnsweredOnce
        /\ RetriesBounded /\ RetryIsPaid

\* What makes OnlyOpensSplitAnswers so: no edit since the position was converted,
\* and none between that and the text read.
Whole(result, read) == (result.pos + 1)..read \subseteq created

HasValue(job) == \/ job.phase \in {"bazel", "listing", "links"}
                 \/ job.phase = "sending" /\ job.result.outcome = "value"

JobsWhole ==
  \A r \in RequestIds : method[r] # "show_hir" =>
    /\ jobs[r].phase \in {"lookup", "position", "query"} => HoldsSnapshot(r)
    /\ jobs[r].phase = "query" => Whole(jobs[r].result, rev)
    /\ HasValue(jobs[r]) => Whole(jobs[r].result, jobs[r].result.read)

TasksWhole ==
  \A i \in DOMAIN tasks :
    LET t == tasks[i]
    IN  t.kind = "ResponseReady" /\ t.result.outcome = "value" /\ method[t.id] # "show_hir" =>
          Whole(t.result, t.result.read)

OpensInv == JobsWhole /\ TasksWhole /\ OnlyOpensSplitAnswers
=============================================================================
