# starpls in TLA+

starpls is a language server for Starlark, the language of Bazel's BUILD and
`.bzl` files, written in Rust.  This directory holds TLA+ specifications of the
parts of it where threads, caches and cancellation meet, TLC configurations
that check them on small instances, and proofs for TLAPS that hold for every
instance.  Paths below are relative to the repository; `PROJECT.json` maps each
definition to the lines it models, and lists the runs, the mutants, the
hazards and the theorems.

    tlc -workers 4 -config EventLoop_safety.cfg MCEventLoop    # check a run
    tlapm EventLoopProofs.tla                                  # check the proofs

## 1. The system

### How it works

`crates/starpls` is the server.  A **main thread** (`event_loop.rs`) selects
between messages of the client and `Task`s of its own jobs, one per turn, then
drains the task channel.  Notifications go to the document manager; requests
become closures on a **pool of four threads** (`task_pool.rs`), each with a
**snapshot** of the salsa database.  At the end of a turn the main thread
applies the change to the database, which cancels the queries in progress and
waits for their snapshots, sends the ids of the changed files to the
**debouncer thread**, spawns a diagnostics job for the files whose debouncing
is over, and publishes the diagnostics that changed.  Type inference runs
inside queries, one at a time: all share an `InferenceContext` behind a mutex.
A load from a repository that is not on disk makes the loader ask the main
thread to fetch it, and a background job runs Bazel for that.

### Inventory

For each component: its state, its operations, whom it talks to, what is hard,
and what makes it correct.

**Event loop and diagnostics pipeline** (`starpls/src/event_loop.rs`,
`debouncer.rs`, `diagnostics.rs`, `server.rs`).
State: files to force, analyses requested, stored diagnostics and which of
them changed, two channels, the debouncer's pending ids.  Operations: handle a
notification, handle a task, process changes, request and collect diagnostics,
publish.  Talks to everything.
Hard: four kinds of threads, cancellation, results out of order, requests
overwritten in one turn.  Correct when the database follows the documents, no
change goes unanalysed, and what the client sees is of the current text.

**Document manager** (`starpls/src/document.rs`, the first half).  State: text,
version and open flag of each document, the changes of this turn.  Operations:
open, modify, close, take changes, save.  Hard: close, change and reopen, where
the text of a closed document stays.

**Requests** (`dispatcher.rs`, `handlers/`, `task_pool.rs`, `utils.rs`).
State: pending requests, queued and running closures.  Operations: register,
dispatch, evaluate, cancel, retry, respond.  Hard: cancellation in the middle of
a handler that asks several queries, retries, a pool shared with Bazel.
Correct when each request is answered exactly once, from one text.

**Inference context** (`starpls_hir/src/typeck.rs`, `typeck/infer.rs`,
`api.rs`, `starpls_common/src/lib.rs`).  State: the mutex, the cancel flag, cached
types, diagnostics, the stack of loads; the database's `File` of each id and its
prelude.  Operations: infer, load, look up, collect, unwind, reset.  Hard: one
cache for all snapshots.  Correct when nothing cached is of an old text.

**Interner** (`starpls_intern/src/lib.rs`).  State: a sharded map to counted
objects.  Operations: new, clone, drop.  Hard: a drop that reads the count
outside the lock.  Correct when equal objects share one address.

**File loader** (`document.rs`, `DefaultFileLoader` and `PathInterner`).
State: path and file ids, the cache of loads.  Operations: load a file, resolve
a path or a label, list a directory.  Correct when a label has one file id and
a failed load is tried again when it can succeed.

**External repositories and workspace targets** (`event_loop.rs`, `server.rs`,
`starpls_bazel/src/client.rs`, `bazel.rs`).  State: repositories pending and
fetched, a flag per job, mapping cache, known targets.  Operations: ask to
fetch, fetch, end, refresh, save.  Hard: slow commands, requests that arrive
during a fetch, caches cleared while they are filled.

**Labels and workspaces** (`starpls_bazel/src/label.rs`, `lib.rs`).  Pure
functions on names.

**Attributes, environment, build language** (`starpls_bazel`, `starpls/build.rs`).
Tables and decoding of protocol buffers.

**Lexer** (`starpls_lexer`).  State: a cursor, the stack of indentations, the
dedents still to be emitted.  Hard: both live across calls, with brackets, continued
lines and the end of the file between.  Correct when indents and dedents balance.

**Parser and syntax tree** (`starpls_parser`, `starpls_syntax`).  State: an
event list with forward parents, the tokens without their trivia, a tree under construction.
Hard: recovery from errors, and trivia that is put back after the rules are done.
Correct when the tree has all the tokens, a text of the grammar has no error and an
error stays in its line.

**Lowering, scopes, resolution** (`starpls_hir/src/def`).  State: arenas of
expressions and scopes, a source map.  Hard: the bodies of functions are collected after what
follows them; a type comment belongs to the node it stands by.  Correct when a name resolves
to the definitions of the variable that it refers to by Starlark's rules.

**Code flow** (`def/codeflow.rs`).  A graph with branch and loop labels, and a
fixed point over it.

**Call matching** (`typeck/call.rs`).  Arguments to parameter slots.

**Types, assignability and inference of expressions** (`typeck.rs`, `typeck/infer.rs`).
Operations: unite types, read a type comment, infer an expression from its parts, assign.
Hard: each operator has a table of kinds of its own, and the arms of `assign_tys` overlap.
Correct when a value that an expression evaluates to is one of its type, and what is
reported can go wrong.

**Intrinsics, builtins, display** (`typeck/intrinsics.rs`, `builtins.rs`, `display.rs`).
Tables of fields and functions, and formatting.

**IDE features** (`starpls_ide`).  Completion, hover, definitions, references,
symbols, signatures: queries that compute from a syntax tree.

**`starpls check`** (`commands/`), **LSP conversions** (`convert.rs`),
**editor extension, `xtask`, vendored code**.  Sequential, or not of this
program.

### What is hard to test

`PROJECT.json` lists the hazards, each at its line, with the property that
guards it or the reason there is none.  Nearly all are at three seams: between
a change and the queries it cancels; between a job and the result it sends; and
between a cache and the change that empties it.

## 2. The modules

    EventLoop ------------ EventLoopProofs -- EventLoopPublishProofs
    Requests -- RequestService (INSTANCE) ------ RequestsProofs
    Inference ------------ InferenceProofs
    Interned ------------- InternedProofs
    ExternalRepos -------- ExternalReposProofs
    Cursor -- Lexer -- Texts ----- LexerProofs -------------- MCAlgorithms
    CallSlots -- Calls --- CallSlotsProofs ------------------ MCAlgorithms
    CodeFlow ------------------------------------------------ MCAlgorithms
    Grammar -- Parser (StarlarkGrammar) --------------------- MCAlgorithms
    Syntax -- Lower -- Scopes -- Resolver (StarlarkNames) --- MCAlgorithms
    Types -- Infer (StarlarkValues) -- MCTypes -------------- MCAlgorithms
    MC<module>: the values TLC needs, and symmetry

In brackets: what the algorithm's results are compared with, from the rules of the language
and not from the code.

Each module has its own cut through the server; what another module has in
detail appears as an environment action or one state of the main thread.
A change that is being applied is in three of them: EventLoop has who waits for
whom and what happens to the diagnostics jobs, Requests what happens to
requests, Inference what happens under the mutex of the context.

### EventLoop

`turn` is the point `Server::run`/`handle_event` has reached: `select` (waiting),
`drain` (the `try_recv` loop), `process` (`process_changes` and what follows) and
`apply` (in `apply_file_changes`).  A notification is an action that
models its handler and the document manager's methods; `HandleTask` takes the
head of the task channel; `NothingToApply` and `Apply` model the rest of the
turn, to the publishing.  A diagnostics job goes through its files one by one
(`Analyze`, `SkipCancelled`), returns its task and with it drops its snapshot
(`Return`), and sends the task afterwards (`Send`): the pool runs the closure and
then sends what it returned.  Texts are stamps that grow, so "of an older text"
can be said.  `lost` is a history variable: the analyses the code gives up, with
the cause (`cancelled` by a change to another document, `superseded` in
`analysis_requested_for_files`, `overtaken` by an older result).

A fetch is only the `FetchEnd` it sends (ExternalRepos has the rest), for any
files: a file that asks for a repository may be one the editor never opened, which
another loaded from disk.  Such an end cancels jobs and discards a request for
analysis as a change does, and its analysis does not delay a later didOpen.

Left out: error and progress messages to the client, the dialects that make
the manager ignore a document, saves.

### Requests and RequestService

`RequestService` is the promise: a request that was asked is answered once, or the
server closes.  `Requests` implements it under the mapping `status` (unasked,
pending, answered, and `confused` for states that should not be) and `open`.
A job goes through the queries of its handler.  Three kinds of handlers stand
for all: `hover` for those that convert a position and ask one query, `goto`
for those that then translate locations with more queries
(`response_from_locations`), and `show_hir`, which keeps the read lock of the
documents during its query.  The two flags of cancellation are apart: salsa's,
raised while a write waits, which stops any query, and `GlobalContext`'s,
raised during `apply_file_changes`, which stops inference.  The pool's threads are
counted and the two background Bazel jobs take from the same.  A query may run Bazel
itself (`RunBazel`: a label of another repository whose mapping is not known,
`client.rs:143`), and keeps its thread and its snapshot meanwhile and, in inference, the
mutex of the context (`ContextHeld`), for which other queries and the end of a
change wait; completions of a path and the target of a label run it without the
mutex (`listing`).

### Inference

A `File` is an index into `inputs`: the salsa input that `create_file` or
`load_file` made.  `files` is the map from file ids to the active `File`; a
reopened document gets a new one.  A file has one expression, whose type is
abstracted to the set of texts it was inferred from, together with the `File` its name
led to: so a cached entry can be compared with the database of the moment.
What a File loads is chosen with its text, from `Loads[f]`: an edit may close or
open a circle, and a replaced File keeps the loads it had.  `Panic` is among the
choices, for a text that the parser panics on.
`calls` is the call stack of a query (`infer_expr`, `infer_load_item`),
`cx.stack` the shared `load_resolution_stack`.  A query is a snapshot, the
mutex, a walk, and a collection of the diagnostics with its file id.  The dispatcher
catches a request's panic, which leaves its loads on the stack with no reset to
follow (`PanicCaught`).  The inference rules, builtins and scopes are abstracted away,
and a panic in a diagnostics job, which ends the server.

### Interned

A handle is an `Interned<T>` with a phase: live, or where its drop is.  `Drop`
reads the count without the lock, `Lock`, `Recheck`, `Remove`, `Unlock` are
`drop_slow`, and `Release` the decrement of the `Arc` after `drop` has returned.
Addresses are used again.  `new_str` is `new` for strings.

### ExternalRepos

Loads of labels `@name//...` under bzlmod: a mapping from names to canonical
repositories that is dumped when it is first needed (lookup, Bazel's dump and insertion
are three steps, as `client.rs` has them), the cache of resolved loads, the interner, the
request to fetch, the fetch job, and saves of MODULE.bazel that clear the mapping
and the set of fetched repositories.  Bazel may fail at each command.
A completion dumps and inserts mappings outside the mutex, against the analysis.
`missed` is a history variable: why a file with a failed load is not to be
analysed again (`dropped`: its repository was already being fetched; `silent`: the
load came from the cache, which does not say what to fetch; `cancelled`).

Left out: targets of the workspace and their refresh, `resolve_path`, directory
listings, labels within the repository, WORKSPACE without bzlmod.

### CodeFlow, CallSlots, Cursor and Lexer

Sequential algorithms of the front end, as operators, each with a definition
of what it should compute that does not look at the code.  `MCAlgorithms` makes
their inputs: a program, a call or a text that grows step by step, so that every
input within the bounds is a state.

*CodeFlow* takes a program about one name, line by line.  `CodeFlowGraph` builds
the graph as `CodeFlowLoweringContext` does, `InferName` reads the type of the name from it
where a statement begins, and `ReportedIn` gives the statements reported as unreachable.  A
type is the set of the lines whose values it unites, with Unbound.  The reference is `Run`: it
follows the values of the name through the program until a loop adds none.  An `elif` is an
`else` with an `if` in it.  Left out: uses inside expressions and comprehensions, targets
with several names, the type cache by node.

*CallSlots* takes the parameters of a function of the file and the arguments of a
call.  `AssignArgs` is `Slots::assign_args`, `Accepted` says that inference has no complaint about
which argument goes where, `ActiveParam` is what signature help points at.  Its two passes over the
arguments are recursive functions (`ForEach`), so that theorems can be about them.  The reference
is `Binds`, how a call is bound when it runs, with any contents of the unpacked arguments.
*Calls* has any call of any function as its state and the two properties of it; the run and
the theorems are about the same ones.
Left out: slots of intrinsics, rules, macros, tags and providers (which disable
errors), and the arguments' types.

*Cursor* is the lexer's cursor in a text.  `AdvanceToken` is a step of it: leading spaces with
the stack of indentations, pending DEDENTs, brackets, comments, strings with their escapes, white
space and continued lines.  A letter stands for every character that is a token by itself.
`eat_while` and `eat_whitespace` are the first place where they would stop, and a string is scanned
by a recursive function from character to character.  *Lexer* has the iterator over the tokens of
a text (`tokenize`), as a function of how often it was called, and the reference, the indentation
of the lines.  `MostCalls` bounds the calls, by two for each character and one more; that they are
enough is a part of `TokensAreTheText`.  *Texts* has any text as its state and the two properties of
it; the run and the theorem are about the same ones.  Left out: operators of
several characters, numbers, names, prefixes of strings, unescaping, type comments.

### Grammar and Parser

*Grammar* has every rule of `starpls_parser/src/grammar` as a small program over the parser's
operations (start, bump, complete, precede, recover, loops, tests of what is ahead); *Parser*
runs the rules, makes `step.rs`'s steps of the events and their forward parents, and puts
the trivia and the type comments back (`text.rs`, `parser.rs`).  The reference,
*StarlarkGrammar*, derives sequences of tokens from the productions that the comments of the rules
give, and knows nothing of events or recovery.  Messages and positions of errors are left out.

### Syntax, Lower, Scopes, Resolver

*Syntax* has the typed nodes (`ast.rs`) as lowering asks for them, with type comments
found among siblings; *Lower* the HIR of every statement, expression, parameter and
type comment with its range; *Scopes* the `ScopeCollector` with its deferred functions; and
*Resolver* the lookups by name, export and offset, with the unused definitions that
inference reports.  They run on the trees of Parser, so the whole front end is composed.
The reference, *StarlarkNames*, lists what a program binds and uses, block by block, in the order in
which that happens.  Left out: documentation, the prelude (in Inference), builtin names.

### Types, Infer

*Types* has `Ty::union`, `Eq`, `TypeRefResolver` and `assign_tys`; *Infer* the type of each kind
of expression from those of its parts (literals, operators, indices, slices, conditions,
displays, comprehensions with their targets) and whether it is reported, and the assignment to a
variable with a type comment. An integer is an i64 of which `MaxInt` is the largest. The
reference, *StarlarkValues*, evaluates an expression and says which values a type has. *MCTypes*
builds the expressions, over variables of twelve type comments, two that may be unbound, and
literals. Left out: fields, calls, lambdas and functions as values, Bazel's types but Label.

## 3. The runs

| run | instance | shows |
|---|---|---|
| `eventloop_safety` | 2 documents, 3 texts, a close, a fetch, 2 jobs | `DatabaseFollowsDocuments`; `NoAnalysisForgotten`; `FreshDiagnosticsArePublished` |
| `eventloop_liveness` | the same, 2 texts | `EventuallyFresh` |
| `eventloop_quiescent` | 2 texts | violates `QuiescentFresh` |
| `requests` | 1 request, 3 threads, 2 changes, 3 Bazel jobs | `OneOwner`, `RetriesBounded`, `OnlyOpensSplitAnswers`, refinement of RequestService; every request is answered, every turn ends |
| `requests_swallowed` | 1 request | violates `CancelledIsRetried` |
| `interned` | 3 handles, 3 values in 2 shards, 3 addresses | `PointerEquality`, `RemovesItsEntry`, `UsedIsInterned` |
| `interned_leak` | 3 handles, one shard | violates `LastDropRemoves` |
| `inference` | 4 files: a chain of two loads whose texts may make it a circle or end in a panic, and a BUILD file with its head as prelude; 2 queries, 2 changes | `CacheIsFresh`, `CirclesAreReal`, `DiagnosticsOfOnlyFile`, `ApplyEnds` |
| `inference_reopened` | 2 files | violates `DiagnosticsOfActiveFile` |
| `repos` | 2 files, 2 repositories, a save, 3 edits | `FetchedOncePerSave`, `OneFetch`, `NoRequesterForgotten`, `RequestersAreAnalysed` |
| `algorithms` | programs of 5 lines | `FlowSeesEveryPath`, `UnboundHasAPath`, `OnlyDeadCodeIsReported` |
| | 3 parameters and 3 arguments | `CallsAreJudged`, `ActiveParamIsBound` |
| | 4 chunks of text | `TokensAreTheText`, `LinesAreNested` |
| | 3 phrases; type comments of 4 tokens | `TreeIsTheText`, `AcceptsItsGrammar`, `LinesRecover` |
| | 3 statements | `SourceMapIsExact`, `TypeCommentsAreRead`, `NamesResolveLexically`, `ReadDefinitionsAreUsed`, `CompletionsResolve` |
| | expressions of 4 nodes | `TypesAreSound`, `ReportsAreErrors`, `AssignmentsAreJudged` |
| `parser_panic` | 3 phrases | violates `ParserDoesNotPanic` |

The algorithms share one run, in which the initial state says which of them
the input is for.

### The bounds, and why they are enough

*EventLoop.*  Two documents are what it takes for one to cancel the other's
analysis; two jobs for results to overtake each other; three texts for a document to
be opened, changed and disturbed by another.  A third job could only wait: each is
spawned at the end of a turn and the hazards are between two.  Nothing is assumed of
when a job that has returned sends its task: another may overtake it.  The liveness
run has two texts, one for each document or two for one, to leave room for the close and
the fetch.

*Requests.*  Two changes cancel a request twice.  There are as many Bazel jobs as threads, and
only the flags keep them from taking them all; three threads stand for four because at most two
can be Bazel's.  The run has one request.  Requests meet in three places: the threads, which the
background jobs contend for as well; the mutex, when one runs Bazel under it; and the
snapshots a write waits for.  An instance of two requests, one change and one background job,
with the same properties, has two million states and passes, in too long a time
for a run that is repeated; the proofs have any number.

*Inference.*  Two queries contend for the mutex while a third party changes files;
the chain gives loads of loads, and `lib`, made by whoever loads it first, may close the
circle.  `Opened` leaves `lib` to the loads: the editor opens the others. Two changes make
an opening and an edit, or a reopening. `MaxStack` bounds what panics have left when a
query is made: each adds to it until a change resets it, so without the bound there
is no end to the states.

*Interned.*  Two handles race to be last while a third interns the same or an equal
object, and a freed address is used again.

*ExternalRepos.*  Two files ask for one repository, and a save makes one of them ask for
another.

*Algorithms.* Five lines hold a loop with a jump in a branch and a use after it, or a function
with the same; three arguments meet each pair of kinds of parameters in any order; four chunks
make two levels, a return from both, and a bracket, comment, quote or backslash between. A
phrase is one token, or the beginning of a construct that takes more, so three phrases are a
rule that is begun, met by any token, and left by another: each recovery has its turn. Three
statements are a function or loop with a use inside and a binding after it, in any order; every
kind of expression and of type comment stands in one of them. Four nodes are an operator on one
that is itself made of something, with each pair of kinds; `MaxInt` is 3 (and so `MaxUInt` 7)
that sums and literals pass it.

The counters that bound the client (`edits`, `closes`, `changes`, `MaxSaves`, ...) are
in the guards of client actions only; no bound stops a thread of the server.
Deadlock is not checked in the runs whose cfg says so: there the system stops when
the client has done all it may (EventLoop, ExternalRepos), was shut down
(Requests), or the input is complete (MCAlgorithms).

### Fairness

Weak fairness of each thread's actions: the main thread, the debouncer, the
diagnostics jobs and the pool run ready steps sooner or later, as threads of the
operating system do.  A query's work is finite, so each step of one is fair.
Strong fairness only for a mutex, which a thread could lose again and again (`Lock` in
Inference): parking_lot hands a lock over in the end.  Interned has no fairness: nothing is
said there of what must happen.  Nothing is assumed of the client.

Of Bazel two things are told apart.  The commands of the background jobs, which fetch
and refresh, may hang in Requests; they only take threads.  A command that a query
runs itself is assumed to return, with success or not: `run_command` has no timeout, and
where it hangs the query keeps its snapshot and perhaps the mutex for ever, its request is not
answered and the main thread stops at the next change.  In Requests that is a conjunct
of `Fairness` of its own (`WF_vars(... BazelAnswers(r))`), which `ServiceLiveness` and `TurnEnds`
need; in Inference and EventLoop it is part of a query's steps being fair, so
`ApplyEnds` and `EventuallyFresh` assume the same.  In ExternalRepos every command returns,
because a file whose fetch hangs cannot be analysed again.  The debouncer's timer is
weakly fair: a client that never stops typing may starve it, and the liveness
properties are about one that does stop.

### Where the code does otherwise

Five runs end in a counterexample to a sentence the repository writes about itself.

* **`QuiescentFresh`** (`event_loop.rs:134`).  Open `a`, then `b` while `a` is
  analysed.  The change to `b` cancels the analysis of `a`; only `b` goes to the
  debouncer, and the server comes to rest without diagnostics for `a`.
  `NoAnalysisForgotten` says, and the proof shows, that this, a superseded request and
  an overtaken result are the only three ways.
* **`CancelledIsRetried`** (`event_loop.rs:58`, `utils.rs:68`).  A goto request that is
  cancelled while it converts its locations answers with fewer, or none, and is not retried.
* **`LastDropRemoves`** (`starpls_intern/src/lib.rs:96`).  Two threads drop the last two
  handles, both read a count of three, and the entry stays.  `PointerEquality` is not affected.
* **`DiagnosticsOfActiveFile`** (`starpls_common/src/lib.rs:68`).  A query gets its
  `File`, a didOpen replaces it, the query infers the old one after the
  reset: both Files' diagnostics are under one file id.  `DiagnosticsOfOnlyFile` has
  what remains true.
* **`ParserDoesNotPanic`** (`grammar/statements.rs:226`).  `SMALL_STMT_START` has `load`, and
  `small_stmt` no case of it: `if x: load("a", "b")` and `pass; load("a", "b")` run into
  the `unreachable!()` that the comment says cannot be.

Where a passing property names an exception, the code does what the exception says:
`CacheIsFresh` excepts a BUILD file whose names were looked up with a snapshot
older than the prelude (`BeforePrelude`); `OnlyOpensSplitAnswers` excepts a didOpen,
which replaces the `File` between two queries of a handler without cancelling it;
`NoRequesterForgotten` excepts the requester dropped during a fetch and the load whose cached
path no longer says what to fetch.  `EventuallyFresh` excepts a document whose analysis was given
up for one of the three causes; where the editor has opened no other and no fetch has ended, only
an overtaken result counts. A fetch is enough to lose the analysis of the only open document:
its end cancels the job, and goes to the debouncer with other files.
`CirclesAreReal` is about Files and not file ids: a query that waits with a File whose text had
a circle, while a didOpen replaces it, reports that circle under the id of the new File, whose
text may have none (`infer.rs:345`). And a text is told of a circle if what it loads leads to a
panic: the request whose panic was caught left those loads on the stack, and until a change
resets it, loading one of them again counts as circular (`infer.rs:2274`).

The properties of the algorithms have their exceptions too, each where the code differs from
the language:

* Calls (`CallsAreJudged`): a name that is given twice when `**kwargs` takes the second, or an
  unpacked dictionary may hold the first, is accepted; arguments after an unpacked list, which
  takes every positional slot, are reported (`f(*l, b = 1)`).
* Code flow: `FlowSeesEveryPath` excepts what a later line of a loop assigns and the next
  iteration brings back: where the graph gives up, a name has its effective type, in which that
  is missing (`infer.rs:1554`). `UnboundHasAPath` lets a path go on after a `return`, as the
  graph does.
* Lines (`LinesAreNested`): a line of only a comment counts for indentation
  (`starpls_lexer/src/lib.rs:335`), and nothing is said of a text with a DEDENT to no open
  column.
* Names: a name in the default of a lambda is recorded in no scope; one used before its variable
  is bound may resolve to an outer one.
* Outside the properties: `assign_op_info` gives `>>=` as `Shl` and `<<=` as `Shr`
  (`ast.rs:365`); inference does not look at the operator of an assignment.
* `TypesAreSound` excepts integers with a prefix and those that are no u64, which become the
  literal 0 (`ast.rs:1219`: `Int::value` strips a leading 0 before it looks for `0x`), so that
  `0x2` may be assigned to a `bool`; sums of literals that are no i64, which wrap or panic; a
  quotient of integers, typed as int; slices of tuples, ranges and Sequences, typed as their elements; and the
  sum of two Sequences, typed as a list.
* `ReportsAreErrors` excepts what the code knows no rule for and reports although it runs:
  operators, indices, slices and loops on unions and Sequences, tuples added, `in` of ranges and
  Iterables, and a tuple indexed by Any.
* `AssignmentsAreJudged` excepts ranges and dictionaries, which may not be assigned to Iterables
  or Sequences. An argument that is an unassigned variable is reported twice, as unbound and as
  of the wrong type: `assign_tys` has no arm for Unbound, though the comment at `typeck.rs:2005`
  says that it is always valid.

A mapping dumped before a save and
inserted after it stays until the next save; no sentence of the code speaks of it, so it
is only a hazard in the list.

## 4. The proofs

Eight modules of proofs, for every value of the constants.  The assumptions are
those the modules name, and TLC evaluates them in the runs: bounds are natural
numbers (`BoundsAssumption`), `None` is none of the other values, mappings and shards are
functions (`MappingAssumption`, `ShardAssumption`).  No assumption says that a set is finite
or how many threads there are.

Each proof has the same shape.  `IInv` is stated in the component's module and was first
checked by TLC as an invariant; the proof module shows `Init => IInv`, one lemma for each
action or group of actions that `IInv` survives it, `IInv => P`, and joins these with PTL.

* **EventLoop** (`TypeCorrect`, `DatabaseCorrect`, `NothingForgotten`).
  `DatabaseFollowsDocuments` is inductive only with `TurnShape`: between turns no change is left
  to apply, so a notification may set the changes without losing any. `NoAnalysisForgotten`
  follows an analysis from station to station, and each action moves it to the next or names a
  cause. That needs `JobShape` (a job's finished and unfinished files are disjoint) and
  `TaskShape` (a task has one result per file), since otherwise handling a task could choose the
  wrong one of two results.
* **What the client sees** (EventLoopPublishProofs: `FreshIsPublished`).
  `FreshDiagnosticsArePublished` needs that texts move forward (`TextsMoveForward`: stored and
  travelling results <= database <= documents), so that a document that gets a new text is not by
  chance the one its stored diagnostics are of; and `PublishedOrListed`, that what is stored and
  not published is on this turn's list. Nothing is proved of the order in which older
  results are published, because the code keeps none: two jobs' sends may overtake each other, and
  a File made by a didOpen waits for no job of the old one. `overtaken` in `lost` records it.
* **Requests** (`TypeCorrect`, `OneOwnerHolds`, `RetriesBoundedHolds`, `ImplementsService`,
  `OnlyOpensSplitAnswersHolds`). `OneOwner` is nearly inductive. `RetriesBounded` is not:
  `RetryIsPaid` says that a request that was cancelled, and is not yet retried, has fewer
  retries than there were changes, or one is being applied. The refinement needs `AnsweredOnce`;
  each step of `Requests` is then one of `RequestService` or leaves `status` and `open` alone.
  `OnlyOpensSplitAnswers` rests on `OpensInv`: a job between position and query holds a
  snapshot, so an update waits, and what it has read so far is whole.
* **Inference** (`TypeCorrect`, `FreshCache`, `RealCircles`, `OnlyFile`). The invariant is about
  call stacks of any depth in any number of queries, and its parts are one step apart:
  `MainShape` and `JobShape` (the flag is up while a change is applied; the mutex has one
  owner; after an update no snapshot is left), `HandlesExist` (no `File` in a call, the cache or the
  stack dangles), `CallShape` (a call waits for the one above it, of the file it needs). On these
  stand those that matter. `EverythingIsFresh` extends `CacheIsFresh` to the calls in progress,
  and to the whole time but that between an update and the reset, when the cache is of old texts
  and nobody can look at it. `DiagnosticsShape` says that each expression begun has been reported
  once and with a text that is there. `StackShape` says that `load_resolution_stack` is
  what panics left there, and above it the calls that load, in their order. A circle found on it is
  then a path of `Needs` that comes back, or one to a File that was left by a panic, and either is
  in a set of Files of which each needs one of the set or has a text that panics (`Endless`): so
  `LeadsToCircle`. Whether a File is in such a set may change with a text; `ReportedCirclesAreReal`
  survives the change because a text is only changed when no query is left, and the reset comes
  before the next (`Updated`), while a new File takes nothing from the sets of the others. After an
  unwinding the stack is longer than the calls; then the flag is up and the next owner of the
  mutex cannot get so far as to look (`NotBegun`). `Needs` counts a BUILD file's prelude, since a
  lookup there is a call as a load is, without an entry on the stack.
* **Interned** (`TypeCorrect`, `PointerEqualityHolds`, `RemovesItsEntryHolds`,
  `UsedIsInternedHolds`). The second look at the count, under the lock, is enough because a
  handle that is alone cannot be cloned while it is dropped and nobody can look the object up:
  `RemovesAlone` says it for the moment of removal, `RemovedAlone` for the time between removal
  and release, `Bound` that until then the entry is there, and `LockIsHeld` that these drops
  hold the shard.
* **ExternalRepos** (`TypeCorrect`, `OneFetchHolds`, `FetchedOncePerSaveHolds`,
  `NoRequesterIsForgotten`). `FetchIsPaid` weighs fetches done and to come against saves and
  marks: it is what an invariant over counters needs to survive the step that turns pending
  repositories into marked ones. `FailureIsFollowed` follows a failed load as
  `NoAnalysisForgotten` follows an analysis, and `TurnShape` is what turns it into a statement
  about rest.

* **Lexer** (`TokensAreAlwaysTheText`, `LinesAreAlwaysNested`). For every text, the iterator ends, the tokens lie end to
  end over all of it, only DEDENTs are empty, and no DEDENT closes a block that is not open or is
  missing at the end. `IInv` is what is invariant of the cursor from call to call (`Preserved`):
  `BlocksAreOpen` says that the INDENTs that are not closed are as many as the columns on the stack
  and the DEDENTs to come; `Deepen` that popping ends at column 0 at the latest; `CursorShape`
  that only while dedenting there is text that no token has. `Left` counts the calls that are left
  at most, and each call takes one from it: a character counts for two, since it may be a Newline,
  after which a call may return nothing, or open a block to be closed. The lemmas say where
  scanning ends: `SkipIs` and `EatWhitespaceIs` find the first stop, and `StringIs` takes an
  induction, since a string is scanned by a recursive function.
  `LineInv` is what is invariant of the lines: the lines whose white space has been read
  (`Entered`) are judged, which means that between two of them there is a DEDENT for each column
  left and an INDENT for each new one, and the columns on the stack are those that the last of them
  is nested at. While DEDENTs are still to come, the stack is that of the line to be entered
  (`Popped`), and the DEDENTs since the last line and those to come make up the difference.
  `NestOfMore` says what a line does to the nest, `Popping` what the loop does to the stack,
  `Enters` that then the next line is judged. That each DEDENT be consistent is needed where a line
  returns to a column that no line has: the stack then lacks the line's own column.
* **CallSlots** (`CallsAreAlwaysJudged`, `ActiveParamIsAlwaysBound`). For a function with any
  parameters that may be defined and any arguments. `Owners` says, without the passes, which
  parameter an argument that is written out goes to, `Unset` and `Soft` which parameters the first
  d arguments leave without a value, or with one that an unpacked dictionary may have; `After` says
  that the slots are so after d arguments. `PassesAre` takes this through both passes by induction;
  in it `PlacesAre` and `NamesAre` show that the first slot that takes an argument is its owner's,
  which for positions rests on those parameters coming first (`ParamsAre`), and for names on no two
  being equal, and `ListStep` and `DictStep` what an unpacked argument does to all slots at once.
  The rest compares this with `Binds`: `AcceptedIsBound` finds contents of the unpacked arguments
  that bind (the lists fill the places that are left, the first dictionary has every value that
  is missing), `BoundIsAccepted` takes any contents that bind. The conditions are the code's:
  see section 3. TLC had checked `After` on calls of up to four parameters and arguments.

**Induction.** The library's induction theorems cannot be instantiated, but its statement that `<`
is well-founded on the numbers takes only sets: `Least` follows (a set of numbers has a least
member), and from it `Induction`, over sets. `TailRecursion` says that a function which calls itself
only further along a bounded line exists and obeys its equation, which is what `StringIs` needs;
`Pass` and `PassStays` do the same for a pass over the arguments of a call.

The five `TypeCorrect` theorems state the type invariants for all constants, so no run repeats
them. The refinement is checked and proved: `Service == INSTANCE RequestService WITH ...` in
Requests has the mapping, `requests` checks its `Service!Spec` as a property, and
`ImplementsService` proves its safety part.

Only model-checked: liveness under fairness (`EventuallyFresh`, `ServiceLiveness`, `TurnEnds`,
`ApplyEnds`, `RequestersAreAnalysed`), which is beyond the provers used; and the properties of the
other algorithms, which are about RECURSIVE operators on trees, where the SMT backend is lost: each
would take a rewriting as Cursor's and an induction over its recursion. Every safety property of the
modules with state that a run checks has its theorem, and every one of the lexer and of calls. The
violated properties are TLC's counterexamples.

## 5. What is not modelled, and why

* Edits of a text and their positions, and labels: sequential functions on strings.
* Fields, calls and functions in expressions, the types of Bazel (rules, providers, attributes,
  structs), intrinsics and builtins: tables of names, of which the modelled rules are the part
  with decisions.
* Messages, escapes of strings, numbers but integers, documentation, formatting of types.
* What the IDE features compute from a syntax tree; Requests has them as queries.
* `starpls check`, start-up, configuration, the editor extension and `xtask`: file walking,
  printing and code generation.
* `resolve_path`, directory listings and workspace targets, for now.
* Shutdown beyond that pending requests go unanswered; panics but those of a request's inference
  (Inference) and of the parser (`ParserDoesNotPanic`).
* Memory orders: the steps of `Interned` are sequentially consistent.

## 6. The plan

Done, in this order: EventLoop, Requests with RequestService, Interned, Inference,
ExternalRepos, CodeFlow, CallSlots and Lexer; Grammar and Parser, Syntax, Lower, Scopes and
Resolver, Types and Infer; the proofs of all modules with state, of the lexer and of
calls. Next:

1. **More algorithms**: `TextChanges` (content changes applied to a text, and positions in it),
   `Label` (parse and resolve), and in Infer calls, fields and lambdas.
2. **Workspace targets and `resolve_path`** in ExternalRepos: a refresh that races with a save,
   and a path interned by one thread before its File exists.
3. **Counts of diagnostics** in Inference: `InferenceContext::diagnostics` is a list, and some
   passes add to it each time.
4. **Proofs**: the steps of the parser (every token is bumped once).
