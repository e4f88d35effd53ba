---------------------------- MODULE ExternalRepos ----------------------------
(***************************************************************************)
(* Loads from external repositories: the loader resolves a name through a  *)
(* repository mapping that Bazel dumps on demand, reads the file, and asks *)
(* the main thread to fetch the repository if it is not there; Bazel runs  *)
(* in the background, and the files that asked are analysed again.         *)
(*                                                                         *)
(* Each file has one load.  Analyses run one at a time, under the mutex of *)
(* the InferenceContext; completions use the mappings without it.          *)
(* EventLoop has the debouncer and the diagnostics jobs this leaves out.   *)
(***************************************************************************)
EXTENDS Naturals, Sequences, Functions

CONSTANTS
  Files,      \* the documents of the workspace
  Repos,      \* canonical repository names
  Mapping,    \* for each MODULE.bazel, the repository each load names or None
  MaxEdits,   \* bound: edits of the documents
  MaxSaves,   \* bound: saves of MODULE.bazel
  None

ASSUME BoundsAssumption == MaxEdits \in Nat /\ MaxSaves \in Nat
ASSUME MappingAssumption ==
  Mapping \in [0..MaxSaves -> [Files -> Repos \cup {None}]] /\ None \notin Files \cup Repos

VARIABLES
  main,                  \* where the main thread is in handle_event
  tasks,                 \* channel into the main thread
  pending_repos, pending_files, fetched_repos, is_fetching_repos,
  force,                 \* force_analysis_for_files
  changed,               \* the document edited in this turn
  waiting,               \* the files that are yet to be analysed
  fetch,                 \* the background job that fetches
  disk,                  \* the repositories in the external output base
  module,                \* the number of MODULE.bazel as saved
  repo_mappings,         \* BazelCLI::repo_mappings for the main repository
  cached_load_results,   \* the repository each load was resolved to
  interned,              \* the repositories whose file the interner knows
  load,                  \* the analysis that runs
  list,                  \* a completion that runs
  outcome,               \* what the last analysis of each file came to
  missed,                \* history: why no new analysis of a file is to come
  fetches,               \* history: how often each repository was fetched
  edits                  \* what MaxEdits counts

serverVars == <<pending_repos, pending_files, fetched_repos, is_fetching_repos, force>>
bazelVars  == <<fetch, disk, fetches>>
loaderVars == <<repo_mappings, cached_load_results, interned>>
jobVars    == <<load, list, waiting, outcome>>
vars == <<main, tasks, serverVars, changed, bazelVars, module, loaderVars, jobVars,
          missed, edits>>

-----------------------------------------------------------------------------
Names    == [Files -> Repos \cup {None}]
NoNames  == [f \in Files |-> None]
NoFetch  == [phase |-> "idle", repos |-> {}, files |-> {}]
Cause    == {"silent", "dropped", "cancelled"}
Outcome  == {"none", "resolved", "missing", "unmapped"}

\* repo is the canonical_repo that load_file asks for if the file is missing;
\* names is the mapping Bazel dumped for this job.
Idle == [phase |-> "idle", file |-> None, repo |-> None, names |-> NoNames,
         outcome |-> "none"]

FetchRequest(f, r) == [kind |-> "FetchRequest", file |-> f, repo |-> r]
End(files)         == [kind |-> "End", files |-> files]
Task == [kind : {"FetchRequest"}, file : Files, repo : Repos]
        \cup [kind : {"End"}, files : SUBSET Files]

Init ==
  /\ main = "select" /\ tasks = <<>>
  /\ pending_repos = {} /\ pending_files = {} /\ fetched_repos = {}
  /\ is_fetching_repos = FALSE
  /\ force = {} /\ changed = None /\ waiting = {}
  /\ fetch = NoFetch
  /\ disk = {}
  /\ module = 0 /\ repo_mappings = None
  /\ cached_load_results = [f \in Files |-> None]
  /\ interned = {}
  /\ load = Idle /\ list = Idle
  /\ outcome = [f \in Files |-> "none"]
  /\ missed = {}
  /\ fetches = [r \in Repos |-> 0]
  /\ edits = 0

-----------------------------------------------------------------------------
(***************************************************************************)
(* The main thread.                                                        *)
(***************************************************************************)
Edit(f) ==
  /\ main = "select" /\ edits < MaxEdits
  /\ edits' = edits + 1
  /\ changed' = f
  /\ main' = "turn"
  /\ UNCHANGED <<tasks, serverVars, bazelVars, module, loaderVars, jobVars, missed>>

\* did_save of an open MODULE.bazel: the next load dumps the mapping again, and the
\* repositories may be fetched again.  What loads resolved to is kept.
Save ==
  /\ main = "select" /\ module < MaxSaves
  /\ module' = module + 1
  /\ repo_mappings' = None
  /\ fetched_repos' = {}
  /\ main' = "turn"
  /\ UNCHANGED <<tasks, pending_repos, pending_files, is_fetching_repos, force, changed,
                 bazelVars, cached_load_results, interned, jobVars, missed, edits>>

\* Mutant: only the first file to ask for a repository is remembered.
HandleFetchRequestFirst(t) ==
  /\ t.kind = "FetchRequest"
  /\ t.repo \notin fetched_repos
  /\ pending_repos' = pending_repos \cup {t.repo}
  /\ pending_files' = pending_files \cup IF t.repo \in pending_repos THEN {} ELSE {t.file}
  /\ UNCHANGED <<is_fetching_repos, force, missed>>

HandleFetchRequest(t) ==
  /\ t.kind = "FetchRequest"
  /\ t.repo \notin fetched_repos
  /\ pending_repos' = pending_repos \cup {t.repo}
  /\ pending_files' = pending_files \cup {t.file}
  /\ UNCHANGED <<is_fetching_repos, force, missed>>

\* The repository has been, or is being, fetched: the file is forgotten.
DropFetchRequest(t) ==
  /\ t.kind = "FetchRequest"
  /\ t.repo \in fetched_repos
  /\ missed' = missed \cup {<<t.file, "dropped">>}
  /\ UNCHANGED <<pending_repos, pending_files, is_fetching_repos, force>>

\* Mutant: the flag stays up.
HandleEndKeepsFlag(t) ==
  /\ t.kind = "End"
  /\ force' = force \cup t.files
  /\ UNCHANGED <<is_fetching_repos, pending_repos, pending_files, missed>>

HandleEnd(t) ==
  /\ t.kind = "End"
  /\ is_fetching_repos' = FALSE
  /\ force' = force \cup t.files
  /\ UNCHANGED <<pending_repos, pending_files, missed>>

HandleTask ==
  /\ main \in {"select", "drain"}
  /\ tasks # <<>>
  /\ tasks' = Tail(tasks)
  /\ main' = "drain"
  /\ LET t == Head(tasks)
     IN  HandleFetchRequest(t) \/ DropFetchRequest(t) \/ HandleEnd(t)
  /\ UNCHANGED <<fetched_repos, changed, bazelVars, module, loaderVars, jobVars, edits>>

Drained ==
  /\ main = "drain" /\ tasks = <<>>
  /\ main' = "turn"
  /\ UNCHANGED <<tasks, serverVars, changed, bazelVars, module, loaderVars, jobVars,
                 missed, edits>>

\* Mutant: the repositories to fetch are not marked.
StartFetchUnmarked ==
  /\ is_fetching_repos' = TRUE
  /\ fetch' = [phase |-> "running", repos |-> pending_repos, files |-> pending_files]
  /\ pending_repos' = {} /\ pending_files' = {}
  /\ UNCHANGED fetched_repos

\* fetch_bazel_external_repos.
StartFetch ==
  /\ is_fetching_repos' = TRUE
  /\ fetched_repos' = fetched_repos \cup pending_repos
  /\ fetch' = [phase |-> "running", repos |-> pending_repos, files |-> pending_files]
  /\ pending_repos' = {} /\ pending_files' = {}

\* Mutant: a fetch may start while another runs.
MayFetchAnyTime == pending_repos # {}

MayFetch == pending_repos # {} /\ ~is_fetching_repos

\* The rest of handle_event; with a change or files to force, the queries
\* are cancelled from here on.
EndTurn ==
  /\ main = "turn"
  /\ IF MayFetch THEN StartFetch
     ELSE UNCHANGED <<pending_repos, pending_files, fetched_repos, is_fetching_repos, fetch>>
  /\ main' = IF changed # None \/ force # {} THEN "apply" ELSE "select"
  /\ UNCHANGED <<tasks, force, changed, disk, fetches, module, loaderVars, jobVars,
                 missed, edits>>

\* CancelGuard::drop takes the mutex; then the analyses are dispatched.
ApplyChange ==
  /\ main = "apply"
  /\ load = Idle
  /\ waiting' = waiting \cup force \cup ({changed} \ {None})
  /\ force' = {} /\ changed' = None
  /\ main' = "select"
  /\ UNCHANGED <<tasks, pending_repos, pending_files, fetched_repos, is_fetching_repos,
                 bazelVars, module, loaderVars, load, list, outcome, missed, edits>>

-----------------------------------------------------------------------------
(***************************************************************************)
(* An analysis of a file.  It may be cancelled while it waits, or when its *)
(* load is over; then nobody asks for it again.                            *)
(***************************************************************************)
Begin(f) ==
  /\ f \in waiting /\ load = Idle
  /\ waiting' = waiting \ {f}
  /\ load' = [Idle EXCEPT !.phase = "resolve", !.file = f]
  /\ missed' = missed \ ({f} \X Cause)
  /\ UNCHANGED <<main, tasks, serverVars, changed, bazelVars, module, loaderVars,
                 list, outcome, edits>>

CancelWaiting(f) ==
  /\ main = "apply" /\ f \in waiting
  /\ waiting' = waiting \ {f}
  /\ missed' = missed \cup {<<f, "cancelled">>}
  /\ UNCHANGED <<main, tasks, serverVars, changed, bazelVars, module, loaderVars,
                 load, list, outcome, edits>>

Unchanged == UNCHANGED <<main, serverVars, changed, bazelVars, module, waiting, list,
                         outcome, edits>>

\* read_cache_result: a path without the repository to ask for.
UseCachedPath ==
  /\ load.phase = "resolve"
  /\ cached_load_results[load.file] # None
  /\ load' = [load EXCEPT !.phase = "read"]
  /\ Unchanged /\ UNCHANGED <<tasks, loaderVars, missed>>

\* resolve_label, with the names of a mapping.
Resolve(names) ==
  LET r == names[load.file]
  IN  IF r = None
      THEN /\ load' = [load EXCEPT !.phase = "done", !.outcome = "unmapped"]
           /\ UNCHANGED cached_load_results
      ELSE /\ load' = [load EXCEPT !.phase = "read", !.repo = r]
           /\ cached_load_results' = [cached_load_results EXCEPT ![load.file] = r]

MustResolve == load.phase = "resolve" /\ cached_load_results[load.file] = None

ResolveFromMapping ==
  /\ MustResolve /\ repo_mappings # None
  /\ Resolve(repo_mappings)
  /\ Unchanged /\ UNCHANGED <<tasks, repo_mappings, interned, missed>>

MissMapping ==
  /\ MustResolve /\ repo_mappings = None
  /\ load' = [load EXCEPT !.phase = "dump"]
  /\ Unchanged /\ UNCHANGED <<tasks, loaderVars, missed>>

\* dump_repo_mapping; one that fails counts as one without names.
Dumped == {Mapping[module], NoNames}

DumpMapping ==
  /\ load.phase = "dump"
  /\ \E names \in Dumped : load' = [load EXCEPT !.phase = "insert", !.names = names]
  /\ Unchanged /\ UNCHANGED <<tasks, loaderVars, missed>>

InsertMapping ==
  /\ load.phase = "insert"
  /\ repo_mappings' = load.names
  /\ Resolve(load.names)
  /\ Unchanged /\ UNCHANGED <<tasks, interned, missed>>

\* maybe_intern_file.
ReadFile ==
  /\ load.phase = "read"
  /\ LET r == cached_load_results[load.file]
     IN  IF r \in interned \cup disk
         THEN /\ interned' = interned \cup {r}
              /\ load' = [load EXCEPT !.phase = "done", !.outcome = "resolved"]
         ELSE /\ load' = [load EXCEPT !.phase = "failed"]
              /\ UNCHANGED interned
  /\ Unchanged /\ UNCHANGED <<tasks, repo_mappings, cached_load_results, missed>>

\* The request to fetch; none if the repository is not known any more, or is
\* there by now.
AskToFetch ==
  /\ load.phase = "failed"
  /\ IF load.repo # None /\ load.repo \notin disk
     THEN tasks' = Append(tasks, FetchRequest(load.file, load.repo)) /\ UNCHANGED missed
     ELSE missed' = missed \cup {<<load.file, "silent">>} /\ UNCHANGED tasks
  /\ load' = [load EXCEPT !.phase = "done", !.outcome = "missing"]
  /\ Unchanged /\ UNCHANGED loaderVars

Deliver ==
  /\ load.phase = "done"
  /\ outcome' = [outcome EXCEPT ![load.file] = load.outcome]
  /\ load' = Idle
  /\ UNCHANGED <<main, tasks, serverVars, changed, bazelVars, module, loaderVars,
                 waiting, list, missed, edits>>

CancelLoaded ==
  /\ main = "apply" /\ load.phase = "done"
  /\ missed' = missed \cup {<<load.file, "cancelled">>}
  /\ load' = Idle
  /\ UNCHANGED <<main, tasks, serverVars, changed, bazelVars, module, loaderVars,
                 waiting, list, outcome, edits>>

(***************************************************************************)
(* A completion lists the names of a mapping (repo_mapping_keys).          *)
(***************************************************************************)
SetList(job) ==
  /\ list' = job
  /\ UNCHANGED <<main, tasks, serverVars, changed, bazelVars, module, cached_load_results,
                 interned, load, waiting, outcome, missed, edits>>

ListMissesMapping ==
  /\ list = Idle /\ repo_mappings = None
  /\ SetList([Idle EXCEPT !.phase = "dump"])
  /\ UNCHANGED repo_mappings

ListDumps ==
  /\ list.phase = "dump"
  /\ \E names \in Dumped : SetList([list EXCEPT !.phase = "insert", !.names = names])
  /\ UNCHANGED repo_mappings

ListInserts ==
  /\ list.phase = "insert"
  /\ repo_mappings' = list.names
  /\ SetList(Idle)

(***************************************************************************)
(* The background job; Bazel fetches a repository or fails to.             *)
(***************************************************************************)
FetchRepo(r) ==
  /\ fetch.phase = "running" /\ r \in fetch.repos
  /\ disk' \in {disk, disk \cup {r}}
  /\ fetch' = [fetch EXCEPT !.repos = @ \ {r}]
  /\ fetches' = [fetches EXCEPT ![r] = @ + 1]
  /\ UNCHANGED <<main, tasks, serverVars, changed, module, loaderVars, jobVars,
                 missed, edits>>

EndFetch ==
  /\ fetch.phase = "running" /\ fetch.repos = {}
  /\ tasks' = Append(tasks, End(fetch.files))
  /\ fetch' = NoFetch
  /\ UNCHANGED <<main, serverVars, changed, disk, fetches, module, loaderVars, jobVars,
                 missed, edits>>

-----------------------------------------------------------------------------
Client     == (\E f \in Files : Edit(f)) \/ Save
MainThread == HandleTask \/ Drained \/ EndTurn \/ ApplyChange
Analysis   == \/ \E f \in Files : Begin(f) \/ CancelWaiting(f)
              \/ UseCachedPath \/ ResolveFromMapping \/ MissMapping \/ DumpMapping
              \/ InsertMapping \/ ReadFile \/ AskToFetch \/ Deliver \/ CancelLoaded
Completion == ListMissesMapping \/ ListDumps \/ ListInserts
Background == (\E r \in Repos : FetchRepo(r)) \/ EndFetch

Next == Client \/ MainThread \/ Analysis \/ Completion \/ Background

Spec == Init /\ [][Next]_vars

\* The threads keep running, and Bazel returns from every command.
FairSpec == Spec /\ WF_vars(MainThread) /\ WF_vars(Analysis) /\ WF_vars(Background)

-----------------------------------------------------------------------------
(***************************************************************************)
(* Every variable has its type.                                            *)
(***************************************************************************)
Load == [phase : {"idle", "resolve", "dump", "insert", "read", "failed", "done"},
         file : Files \cup {None}, repo : Repos \cup {None}, names : Names,
         outcome : Outcome]

TypeOK ==
  /\ main \in {"select", "drain", "turn", "apply"}
  /\ tasks \in Seq(Task)
  /\ pending_repos \in SUBSET Repos /\ fetched_repos \in SUBSET Repos
  /\ pending_files \in SUBSET Files /\ force \in SUBSET Files
  /\ waiting \in SUBSET Files
  /\ is_fetching_repos \in BOOLEAN
  /\ changed \in Files \cup {None}
  /\ fetch \in [phase : {"idle", "running"}, repos : SUBSET Repos, files : SUBSET Files]
  /\ disk \in SUBSET Repos /\ interned \in SUBSET Repos
  /\ module \in 0..MaxSaves /\ edits \in 0..MaxEdits
  /\ repo_mappings \in Names \cup {None}
  /\ cached_load_results \in Names
  /\ load \in Load /\ list \in Load
  /\ outcome \in [Files -> Outcome]
  /\ missed \in SUBSET (Files \X Cause)
  /\ fetches \in [Repos -> Nat]

(***************************************************************************)
(* However many files ask for a repository, and in whatever order requests,*)
(* saves and the ends of fetches arrive, Bazel fetches it once, and once   *)
(* more for each save that clears fetched_repos.                           *)
(***************************************************************************)
FetchedOncePerSave == \A r \in Repos : fetches[r] <= module + 1

(***************************************************************************)
(* is_fetching_repos is up exactly while a fetch runs or its end is under  *)
(* way: two never overlap, and none ends unnoticed.                        *)
(***************************************************************************)
Ends == {i \in DOMAIN tasks : tasks[i].kind = "End"}

OneFetch ==
  /\ \A i, k \in Ends : i = k
  /\ is_fetching_repos <=> fetch.phase = "running" \/ Ends # {}
  /\ fetch.phase = "running" => Ends = {}

AtRest == /\ main = "select" /\ tasks = <<>> /\ waiting = {} /\ load = Idle
          /\ fetch = NoFetch

(***************************************************************************)
(* When the server is at rest, a file whose load failed is not left with   *)
(* that failure once its repository is there, but for three causes: its    *)
(* request came when the repository was being fetched and was dropped, it  *)
(* could not ask because its path was cached (or the repository had just   *)
(* come), or its new analysis was cancelled.                               *)
(***************************************************************************)
NoRequesterForgotten ==
  AtRest => \A f \in Files :
    outcome[f] = "missing" /\ cached_load_results[f] \in disk =>
      \E c \in Cause : <<f, c>> \in missed

(***************************************************************************)
(* A file whose request was taken is analysed again in the end, whether    *)
(* the fetch succeeds or not (FetchExternalReposProgress::End).            *)
(***************************************************************************)
RequestersAreAnalysed == \A f \in Files : f \in pending_files ~> f \in waiting

(***************************************************************************)
(* What makes the invariants inductive.  Between two turns nothing is left *)
(* to force, and what is pending waits for a fetch that runs; a job names  *)
(* a file.                                                                 *)
(***************************************************************************)
TurnShape ==
  /\ main = "select" => force = {} /\ changed = None
  /\ main \in {"select", "apply"} => pending_repos = {} \/ is_fetching_repos
  /\ pending_repos = {} => pending_files = {}

JobShape ==
  /\ load.phase = "idle" <=> load.file = None
  /\ fetch.phase = "idle" => fetch = NoFetch

\* A fetch that is still to come has been paid for by a save, or is the first.
One(condition) == IF condition THEN 1 ELSE 0

FetchIsPaid ==
  /\ pending_repos \cap fetched_repos = {}
  /\ \A r \in Repos :
       fetches[r] + One(r \in fetch.repos) <= module + One(r \in fetched_repos)

Failed(f) ==
  \/ outcome[f] = "missing"
  \/ load.file = f /\ load.phase = "done" /\ load.outcome = "missing"

\* The analysis of f runs, and has not failed yet.
Analysing(f) == load.file = f /\ ~(load.phase = "done" /\ load.outcome = "missing")

\* f waits to be analysed again, somewhere between its request and its analysis.
Carries(t, f) == IF t.kind = "End" THEN f \in t.files ELSE f = t.file
OnItsWay(f) ==
  \/ \E t \in Range(tasks) : Carries(t, f)
  \/ f \in pending_files \cup fetch.files \cup force \cup {changed} \cup waiting

Missed(f) == \E c \in Cause : <<f, c>> \in missed

FailureIsFollowed ==
  \A f \in Files : Failed(f) => Analysing(f) \/ OnItsWay(f) \/ Missed(f)

IInv == /\ TypeOK /\ TurnShape /\ JobShape /\ OneFetch /\ FetchIsPaid
        /\ FailureIsFollowed
=============================================================================
