# Perf Lens: a TLA+ model of the extension and its sidecar

Perf Lens is a VS Code extension (`extension/`, TypeScript) and a native sidecar
(`sidecar/`, C++). The extension spawns the sidecar and talks to it in JSON-RPC,
one line per message, over its stdin and stdout. The sidecar keeps three SQLite
databases in `.perf-lens/` (remarks, findings, profiles), runs compilers, and
analyses sources with Clang. This directory models the parts of the two
processes in which the order of things matters, checks them with TLC, and
proves the core of them with TLAPS.

Paths below leave out the common prefix `src/`.

## 1. Inventory

Two processes run. The extension is single threaded; every `await` is a point
where another command, event or answer may come in. The sidecar is single
threaded too: a handler runs to its end on the thread that reads stdin
(`rpc/server.cpp:21-64`). So the interleavings are those of the extension's
continuations with each other, with the file system and users, and with the one
sequence of requests the sidecar works off. Compilers are child processes that
a handler waits for.

| Component | State | Operations | Talks to | What is hard | What makes it correct | Modelled in |
|---|---|---|---|---|---|---|
| JSON-RPC channel (`sidecar/client.ts`, `rpc/server.cpp`) | `_nextId`, `_pending`, two pipes, the handler on the stack | request, abort, write error, line, respond, throw | everything | an abort, an answer and a write error race; the process dies with requests anywhere | one run and one truthful outcome per request; answers in request order; nothing open without a way to end | `RpcChannel`, `RequestContract` |
| Sidecar lifecycle (`sidecar/lifecycle.ts`) | `_proc`, `_restarts`, `_windowStart`, `_disposed`, the ready timer, the delayed start | start, ready, error, exit, restart, dispose | the channel, the extension | timers, exits and disposal in any order | never two sidecars; a bounded rate of restarts; a crash is answered; what comes back is used | `SidecarLifecycle` |
| Compile cache (`godbolt/compile_cache.cpp`) | `_map`, `_order` | get, set, clear, evict | the compiler | two containers for one thing | they agree; the limit; least recently used goes first | `CompileCache`, `LruCache` |
| Compiler driver (`godbolt/compiler.cpp`) | the detected compiler, the cache | compile, hash, analyse with llvm-mca | cache, child processes | the key of the cache | a result is of the code that was asked for | `FixVerification` (partly) |
| Fix verification (`fixProvider/verifier.ts`, `extension.ts` applyFix) | the continuation, the status bar | build patch, compile twice, diff, ask, apply | the channel, the editor, the file | two fixes overlap; the file changes meanwhile | judged by its own code; what is applied is what was verified | `FixVerification` |
| Remarks: parser, store, shadow compilation (`remarks/`, `shadow_compile.cpp`) | table `remarks`, files under `.perf-lens/` | ingest, recompile, get, trace | SQLite, compilers, the file system | ingestion from two sides; files that outlive their compilation | what is stored for a file is about it | `RemarkPipeline` |
| Remark watcher and diagnostics (`build/watcher.ts`, `diagnostics/provider.ts`) | the diagnostics, the active editor | created, changed, deleted, refresh, switch | the channel | refreshes overlap | what is shown is what is stored, and never goes back | `RemarkPipeline` |
| Findings: engine and store (`rules/engine.cpp`, `rules/store.cpp`, `ast/`) | table `findings` | analyse, get | SQLite, Clang | two transactions for one analysis; two spellings of a path | the findings of a file come from one analysis, but for what a throw leaves in the rules | `AnalysisPipeline` |
| Findings provider (`diagnostics/findingsProvider.ts`) | hover cache, diagnostics | save, open, refresh, profile change | the channel, the profile manager | two awaits in a refresh, with state set between them | hover, diagnostics, store and profile agree in the end, but after an analysis that failed | `AnalysisPipeline` |
| Profile manager and panels (`profile/profileManager.ts`, `panels/profilePanel.ts`, `panels/profileComparePanel.ts`) | the active profile, the list | import, delete, select, compare, diff | the channel | the active profile is swapped around awaits | the user's choice survives; a deleted profile is not active | `ProfileSelection` |
| Profile store (`profile/store.cpp`) | tables of profiles, line and function rows, hashes | create, insert, list, delete, query | SQLite | several commits for one import; ids that come again; deletions between | no orphan rows; one import per profile; queries that agree | `ProfileStore`, `ProfileSelection` (which profiles exist) |
| Remark tree panel (`panels/remarksPanel.ts`) | the tree | refresh, load | the channel | a load awaits once per file, loads overlap, one of them fails | the tree is whole, never goes back, and catches up | `RemarkTree` |
| LLM layer (`llm/`) | response cache, budget, the chosen provider | route, execute, fall back, cache | HTTP | timeouts, aborts, fallback | | no: planned |
| Assembly parser and diff (`godbolt/asm_parser.cpp`, `diff_engine.cpp`) | the open range, the source map | parse, diff | the compiler driver | ranges closed by the next line or the end; borders and ties of the alignment | the map is what the `.loc` lines say; the diff is faithful and shortest | `AsmDiff` |
| Importers (`profile/perf_script_parser.cpp`, `profile-tools/`) | the open sample, the aggregate | import | child processes, profile store | lines in any order; a stream that ends early; who reads which pipe | the samples of the text are counted; an import ends | `PerfScript`, `ProfileStore` |
| Profile-driven rules (`rules/packs/profile_driven/`) | none | pure | profile store | thresholds on several events | verdicts do not contradict each other | `ProfileRules` |
| Rule packs (`rules/packs/`) | `_findings` of each rule | register, match, take | the engine | nests of loops, switches and lambdas; sizes in bits and bytes | what is reported is there, once | `RulePacks`, `RuleEngine` |
| Remark classifier, GCC parser (`remarks/classifier.cpp`, `gcc_parser.cpp`) | none | pure | the remark store | order of the tables; one number that loses a file | a remark is under its category | `RemarkParsers` |
| Hotness, vector width, hover providers | decorations | render | | | | no: they read what others keep |
| Webview panels | HTML | render | | | | no: one answer each |
| SARIF and CI mode (`main.cpp:362-431`, `sarif/exporter.ts`) | the files left, the findings so far | analyse each file, skip one that throws, report | the engine | one engine for all files; paths cut as text | a finding is of the file it names, and the report finds it | `RuleEngine` (the exporter is not) |
| Configuration, telemetry, logging | | | | | | no: input and output |

## 2. Modules

```
RequestContract <--refines-- RpcChannel <-- RpcChannelProofs <-- MCRpcChannel
LruCache        <--refines-- CompileCache <-- CompileCacheProofs <-- MCCompileCache
                                  ^-- INSTANCE -- FixVerification <-- ExtensionProofs
SidecarLifecycle <-- ExtensionProofs
RemarkPipeline   <-- MCRemarkPipeline
         ^-- RemarkPipelineProofs
AnalysisPipeline <-- MCAnalysisPipeline
         ^-- AnalysisPipelineProofs
PerfScript, ProfileRules <-- ProfileStore <-- MCProfileStore
                                  ^-- ProfileStoreProofs
ProfileSelection <-- ProfileStoreProofs
RemarkParsers    <-- RemarkTree <-- MCRemarkTree
                         ^-- RemarkTreeProofs
AsmDiff          <-- MCAsmDiff
         ^-- RulesAndDiffProofs
RulePacks        <-- RuleEngine <-- MCRuleEngine
                         ^-- RulesAndDiffProofs
```

Three proof modules are about two components each, which share nothing:
`ExtensionProofs` about the lifecycle of the sidecar and the fixes it verifies,
`ProfileStoreProofs` about the store of profiles and the choice of one,
`RulesAndDiffProofs` about the rules and the listings. So that a module can
extend both, `FixVerification`, `ProfileSelection` and `AsmDiff` call their
specifications `FixSpec`, `ChoiceSpec` and `AsmSpec`, and their parts alike.

`RpcChannel` establishes two facts that the component modules build on: the
sidecar takes requests one at a time, and answers them in order
(`AnswersInOrder`, proved). The component modules therefore have two sequences,
`inbox` and `outbox`, in the place of the client, the pipes and the server. A
continuation of the extension that waits for an answer is the message it waits
for, whose fields carry what the code does next.

**RpcChannel.** A line is its request's id. `writeBuf` is what Node has accepted
and not written, `toServer` and `toClient` are the pipes, `handling` is the
handler on the stack. `Request`, `RequestPreAborted`, `Abort`, `WriteError` and
`OnLine` are `client.ts`; `ReadUnknownMethod`, `EnterHandler` and `LeaveHandler`
are `handle_message`; a handler returns or throws. `Crash` may happen at any
time. `ran` and `outcome` record what happened to each request. Malformed lines,
and notifications other than the first, are left out: neither side sends any.
The process is not restarted here, because a restart makes another client.

**RequestContract.** The same seen by a caller, without pipes and process: issued
once, run at most once, settled at most once. "MethodNotFound" and a write error
mean that no handler ran (nor will); the other answers mean that one did; an
abort says nothing.

**SidecarLifecycle.** A process slot is free, alive or exited with its event not
yet delivered. `watched` are those with an exit listener, which `start()`
attaches after its await. Time is counted in ticks: timers run down to 0 and may
fire any time after, the age of the window runs up to just past its end, so that
the state space is finite although behaviours run for ever. `held` is the process
of the client that `activate()` captured. `noBinary` stands for
`_resolveBinary` throwing. In `MaybeRestart`, the window, the budget and the
delay follow `lifecycle.ts:84-103` in their order.

**CompileCache, LruCache.** `_map` is a function, `_order` a sequence. `SetNew`
is push, evict, store, in this order; `EvictsFirst` is the eviction loop, said
without a loop: how many keys it erases before its condition fails. `GetHit`
erases the first position of the key and pushes it. The mutex is left out: one
thread calls the cache.

**FixVerification.** A text of the file is a number, a source is a text with or
without a command's patch. A command is `idle`, `compiling` (both requests
are sent), `diffing`, `asking` or `done`. The cache is an instance of
`CompileCache`. The request's flags are fixed, so its hash is its source: the
compiler is not part of it. `diffAsm` is a function of texts and its verdict is
arbitrary, as are the outcomes of compilations. A result that is not UTF-8 does
not serialise and is answered with an error, which is how a request fails while
the process lives. Reading the file twice (patch and verifier) is one step.

**RemarkPipeline.** A yaml file holds one remark, about one line of one file, of
which only the version is kept; the table is a bag, as it has no unique key.
`ShadowCompile` and `ShadowIngest` are two steps of one handler: others may
write to the disk between them. `clearBuild`, which has no caller, is left out. The tree
of the same remarks is in `RemarkTree`.

**AnalysisPipeline.** A finding is the analysis it is from and its kind: its place
among the rows of an answer, its confidence, and whether its rule keeps what it
has when it is registered again. `ClearFile` and what follows it are two steps of
one handler, because they are two transactions and the process may be gone in
between (`Reload`). What follows is one of four: the file does not parse
(`ParseFails`), the findings are stored (`InsertBulk`), the engine throws amid the
file and leaves findings in rules that keep them (`EngineThrows`, `kept`), or a
statement of the insertion throws (`InsertBulkThrows`). The last two are answered
with an error, after which the provider does not refresh (`NotAnalysed`). A COMMIT
that fails is taken to store nothing. A path has two spellings, the editor's and
the compile command's (`Spelling`). The provider's two awaits are the messages
"get" and "hotness"; the hover cache gets the whole list and the diagnostics the
first `MaxFindings` of it (`First`). `threw` and `missed` are history: the analyses
in which the engine threw, and the files whose rows changed in an analysis that no
refresh of theirs followed. `ActiveIsCurrent` leaves out these files, and what is
shown after another editor became active (`switched`), as the provider does not
listen to that; `HoverMatchesDiagnostics` leaves out what follows a profile that is
deactivated (`dropped`), when a refresh that waits for hotness may end after one
that does not.

**ProfileSelection.** A profile is its id. `seen` are the profiles that a panel
or a pick has offered and that a user may still click. `Fired` is what the open
panel does when the active profile changes. `GotImport`, `GotDelete` and `GotList`
are what the manager does with an answer; `AnswerImport`, `AnswerDelete`,
`AnswerList` and `AnswerTop` are the handlers in the sidecar. An import stores any
profiles, as each metadata record creates one; it succeeds with one of them, or
fails after it created them, and the extension does not list again
(`unlisted`, a history variable). The ids are new: a metadata record with an id
that is there is in `ProfileStore`. A comparison runs its two swaps
concurrently, as `Promise.all` does; without an active profile both happen at
once.

**RemarkParsers, RemarkTree.** The parsers are operators on a report that has
already been cut into documents or lines: what they keep, skip and lose, and the
category each remark gets. The remarks of a report are a family indexed by the
items they come from, as their order plays no part. In `RemarkTree` a load is a record of how many answers
it waits for and the tree so far; `_load` is `Refresh`, `GotFiles` and one
`GotRemarks` or `GotNoRemarks` for each file, and the tree is assigned with the
last of them. The handlers of the sidecar are those of `main.cpp:476-555`; a
`Fault` is a statement that SQLite does not carry out. The code checks
`sqlite3_prepare_v2` and nothing else: a statement that cannot be prepared is an
error (`InsertFails`), a row that does not insert is skipped, a BEGIN or COMMIT that
fails is not noticed (which may cost all rows), and a query whose step fails
answers a beginning of its list as a success (`FilesReadSoFar`, `RowsReadSoFar`).
`unseen` is a history variable: something entered the store, a request failed or
was answered in part, and no load was started since.

**PerfScript, ProfileRules, ProfileStore.** `PerfScript` has the parser of
`perf script` as a function on lines (`ParseLine`, `Flush`, `Record`) and beside
it what the samples of a text are, said without a parser (`SamplesOf`,
`Aggregates`). `ProfileRules` has the four rules on fractions, as percentages.
Counts are `uint64_t` in the program and `int64_t` in the columns: `Half` is 2^63,
`Signed` and `Unsigned` are the two casts, and a SUM that overflows is an error
which the code does not look at, so that the total stays 0 (`Sum64`). What the
estimate is when it overflows is undefined in C++: any number of the column. Sums
whose parts overflow and whose result does not are left out.
`ProfileStore` is `importProfile` with its readers, one action a line, and the
three commits at its end (`CreateProfile`, `InsertLineRows`,
`InsertFunctionRows`), with `Finish` for the estimated total. `Crash` may come
between any two. `job` is the handler on the stack; `ledger` is a history
variable, the rows of the import that created a profile last. The tables are
functions on primary keys; `Cascade` is the foreign keys at work.

**AsmDiff.** One action a line of a listing (`ReadLoc`, `Drop`, `Keep`), the end
of the listing, and the second one after the first. `LcsTable` is the table, row
by row (`LcsRow`), and `Changes` the walk through it: for each cell, the changes
that a walk from it makes (`WalkRow`). An instruction has a text and a normal
form; two texts may have one normal form.

**RulePacks, RuleEngine.** A node of the syntax tree is a record of the features
that the rules look at; `RulePacks` has one predicate a rule, the matcher and the
callback together, in the order in which the engine has them (`Rules`,
`Verdicts`). Twenty of the 23 rules are there. How Clang lays a record out
(`Layout`) is external: one field behind the other at its alignment, bit-fields
in the storage unit of their type. `RuleEngine` is `analyseFile` over the files
of a project: `StartFile` registers every rule and parses, `Visit` is one node of
the walk with all callbacks, `TakeFindings` empties the rules; `ParseFails` and
`Throw` end an analysis without taking anything, which matters because the rules
live on (`KeepingRules` are those that do not clear themselves). `WriteReport` is
`findings_to_sarif`. A path is a sequence of pieces, so that one path can begin
with the text of another. `seen`, `threw` and the grouping of `batches`, and of
what they took, by rule, are history.

## 3. Runs

Deadlock is not checked where a bound lets the system stop, or where it may stop
anyway: a user need not do anything. `MCCompileCache` has no such bound and
checks it.

| Run | Instance | What it shows |
|---|---|---|
| `MCRpcChannel` | 4 requests; 42,840 states | `PendingIsOpen`, `AnswersInOrder`; `ImplementsContract`; a request settles while the process lives (`SettlesWhileAlive`), and what was never written is rejected (`UnwrittenIsRejected`) |
| `MCSidecarLifecycle` | 2 slots, 2 restarts, window 5, timeout 2 | `AtMostOneSidecar`; `BoundedRestartRate`: two budgets in a window, no more; `AtMostOneOrphan`; `CrashIsAnswered` |
| `MCRestartService` | the same | violated: `RestartRestoresService` |
| `MCCompileCache` | 4 keys, 2 values, limit 3 | `MapMatchesOrder`, `WithinLimit`, `ImplementsLru` |
| `MCFixVerification` | 2 fixes, 2 compilers, cache of 2, 2 texts; 604,016 states | `JudgedByItsOwnCode`, `OneCompilerIsConsistent`, `StatusRecovers` |
| `MCRemarkPipeline` | 2 files sharing a shadow file, 2 yaml files, 2 versions, 2 requests; 828,770 states | `ShownBelongs`, `ShownIsStored`, `ShownNeverRegresses` |
| `MCRemarkTree` | 5 reports, of which one is torn and one unreadable, 2 files and a remark without a place, 3 requests, 1 fault; 467,531 states | `TreeBelongs`, `TreeIsStored`, `TreeNeverRegresses`, `TreeCatchesUp` |
| `MCAnalysisPipeline` | 2 files, one spelled in two ways, 3 kinds of finding of which 1 is shown, 2 profiles, 3 triggers; 3,271,815 states | `OneAnalysisPerFile`, `ActiveIsCurrent`, `HoverMatchesDiagnostics` |
| `MCProfileSelection` | 3 profiles, 3 operations; 454,955 states | `KnownIsStored`, `DeletedIsNotActive` |
| `MCProfileStore` | 2 imports, 4 lines, 9 lines of perf text, of which one has no line number, 12 records, 3 sets of tools, counts of 5 bits; 1,737,174 states | `RowsBelong`, `OneImportPerProfile`, `PerfIsCounted`, `QueriesAgree`, `VerdictsAreConsistent`, `EstimateCoversRows` |
| `MCAsmDiff` | listings of 4 and 3 lines, 9 kinds of line; 853,622 states | `SourceMapIsExact`, `DiffIsFaithful`, `DiffIsShortest` |
| `MCRuleEngine` | 3 projects of 2 files; 263 nodes, of which 6 in pairs; 79,147 states | `FindingsAreOwn`, `EarlyExitIsReal`, `LayoutFindingsAreExact`, `ReportResolves` |

Every passing run also checks its module's `TypeOK`: it is the first conjunct of
one of the run's invariants.

**Bounds.** *MaxRequests = 4* puts a request in each of the places a request can
be in at once (written, in the pipe, handled, answered); the proofs remove the
bound. *MaxRestarts = 2, Window = 5* let a budget be used up within a window
(the delays are 1 and 2 ticks) and a second one start at the end of it, so the
rate's worst case happens: four restarts in one window's time are reached, and
an invariant that allowed only three would be violated. *Two process slots* are
enough for a live process and an old one whose exit has not been delivered; a
slot is used again. *Cache limit 3 of 4 keys* fills, evicts and refills; the
proofs remove it. *Two fixes* need four sources, twice what the cache of 2
holds, so entries are shared, hit, and evicted. *Two requests* of the remark
pipeline are two of: watcher event, command, switch; each starts further ones,
and a reload two more, so that several refreshes of one file are under way at
once. *Three triggers* of the analysis pipeline let an analysis, a profile
change and a second analysis overlap, or an analysis that throws and two after
it; *three kinds* are one that the filter drops and two that it keeps, of a rule
that clears itself and of one that does not, and as *MaxFindings* is 1 the hover
has more than the diagnostics. The bound is too small for `dropped` to matter
(that needs two analyses, a profile and its end); the proof has no bound. The
settings of confidence and number of findings are constant. *Three operations*
let profiles have two users of a swap and a deletion. Profiles are symmetric in
`MCAnalysisPipeline`: its properties are invariants and name none of them.
*Three requests* of the remark tree are three loads, which is enough for an old,
a newer and the newest to finish in any order, and *one fault* for lost rows, or
one query in the middle of a load that fails or is cut short. *Four lines* of a
profile hold two headers with a frame each, or a metadata record, two rows with
one key and a row of another event; *two imports* let the second replace the
first under the given id. *Half = 16* with counts of 1 to 25 has counts that are
negative in their columns, sums that cancel, and sums that overflow in both
directions. A row that comes twice in an import has the same count both times;
that the later of two different ones stays is in `Insert`, and the proofs allow
it. *Four and three lines* of assembly hold two ranges with an instruction in
each and one that is empty, and every shape of alignment with a tie. A rule
looks at one node at a time, so *one node* of each kind in the first file is
enough for the verdicts, all nests of up to three constructs and all records of
up to three fields among them; *two files* with up to two and one nodes that the
rules keep findings of let an analysis throw and another follow. The proofs
remove the depth of the nests.

**Fairness.** `RpcChannel`: Node writes what it has accepted, reports errors and
reads lines; the server reads and a handler returns. The first three are the
event loop, the fourth is the loop of `run()`. The last is an assumption:
handlers call compilers without a timeout. Nothing is assumed of users, aborts
or crashes. `SidecarLifecycle`: time passes, timers that are due fire, events
are delivered; processes need not become ready nor die. `FixVerification`: the
sidecar answers and the extension takes the answers in, and so in `RemarkTree`:
the sidecar reads on while it has input (`server.cpp:21-32`), the event loop
comes round to every line (`client.ts:25`). All are weak. The
other modules have no liveness property and no fairness; their properties speak
of the quiescent states, in which everything has arrived, and of all others.

## 4. Where code and text disagree

One run ends in a counterexample, for a sentence of the repository:

* `RestartRestoresService`. `extension.ts:85` keeps the client of the first
  start; `_maybeRestart` makes another that nobody uses, and says "Sidecar
  restarted successfully." (`lifecycle.ts:107`).

The others were met while translating. They are in the model as the code has
them, and no run is spent on them:

* `main.cpp:759` runs `perf-importer "<file>" --label ...`; the tool ignores
  arguments it does not know and reads its standard input
  (`perf-importer/src/main.rs:255-274`), which is the sidecar's JSON-RPC pipe,
  although `main.rs:5` documents `perf-importer --file perf.data`. The handler
  waits for the tool, and the tool for the extension to leave; requests that
  are sent meanwhile are swallowed. In `ProfileStore` only `ImporterEnds`, after
  `ExtensionLeaves`, and a crash lead out of such an import.
* A request that was written and not answered when the process died stays open
  for ever: `client.ts:64` has no listener for the exit that rejects what is
  pending. `provider.test.ts:70-71` takes a dead sidecar to be a rejected
  request. `UnwrittenIsRejected` and `SettlesWhileAlive` are what does hold.
* A fix is verified against the file on disk and applied to what the document is
  when the user confirms (`extension.ts:417`), against "Run verification before
  applying" (`extension.ts:401`).
* "Use source filename stem to avoid collisions" (`shadow_compile.cpp:62`): two
  sources of one name in two directories share the file, and a compilation that
  fails ingests the other's remarks.
* "Temporarily swap active profile to query it, then restore"
  (`profileComparePanel.ts:74`): two concurrent swaps leave one of the compared
  profiles active.
* The tree is empty in a new window until something causes a refresh
  (`extension.ts:99`), and after a compile-time profile it lacks the remarks
  that came with it: `TreeIsStored` excludes both, as `unseen`.
* A remark without a place is stored under the file "", which `getRemarks`
  refuses, so that it is counted as a file and never shown.
* `looksLikePerfScript` gives up at the first line that is not a header; its
  comment says "Give up after 20 non-empty lines" (`perf_script_parser.cpp:224`).
* Event names keep their modifiers (`cycles:u`, `perf_script_parser.cpp:102`),
  and the queries ask for the bare names.
* The low-ipc rule asks for twice the fraction its constant states
  (`profile_rules.cpp:153`). It is for "A line with many cycles but no
  corresponding L1/LLC miss" (`profile_rules.cpp:137`) and says "with no elevated
  cache miss rate" (161), but looks at L1 misses only: one analysis reports a line
  as bound by LLC misses and as one of low IPC, in `MCProfileStore` as well.
  `VerdictsAreConsistent` says of the verdicts no more than what does hold.
* An analysis that fails after it has cleared the old findings (`main.cpp:577`)
  leaves them shown, as nothing is fetched then (`findingsProvider.ts:180-183`),
  and the store has none, until something else causes a fetch. `ActiveIsCurrent`
  excludes such a file as `missed`.
* An import that fails after it has created its profile leaves it in the store
  (`profile/store.cpp:214`, `219`) and the extension is not told to list it
  (`profileManager.ts:35`): `KnownIsStored` excludes it as `unlisted`.
* A query that an error of the database ends early is answered with what it had
  read, as a success (`remarks/store.cpp:147`, `191`): `TreeIsStored` excludes
  that too, as `unseen`.
* Counts are read as `uint64_t` and stored as `int64_t` (`profile/store.cpp:222`,
  `278`), so that one that is 2^63 or more is negative in its column, and takes
  away from the total.
* `normaliseInstruction` writes registers in capitals, and `isVectorInstr`
  looks for small letters (`diff_engine.cpp:21-28`): SSE instructions are not
  seen as vector code.
* The exit status of `perf script` and of the importers is not looked at
  (`main.cpp:746`, `777`).
* The restart window is fixed, not sliding: up to six restarts fit into five
  minutes, against "3x in 5 min" (`progress/2026-05-16-phase1-foundation.md:14`).
  `BoundedRestartRate` states the bound that does hold, twice the budget.
* The cache's key covers the version of the detected compiler and not the
  compiler a request names (`compiler.cpp:176`), so that a result of another
  compiler is returned after the setting was changed. `OneCompilerIsConsistent`
  is what holds as long as it is left alone.
* A recompilation's remarks are stored twice: `main.cpp:515` ingests the file,
  and so does the watcher; `clearBuild`, to be called "before re-ingesting"
  (`remarks/store.hpp:36`), has no caller.
* "Register AST matchers. Called once at engine startup." (`rule_base.hpp:23`):
  the engine calls it for every file (`engine.cpp:70`), and four rules do not
  clear what they have then. `FindingsAreOwn` says what that leads to.
* A path that begins with the text of the workspace is cut, also if it goes on
  with other letters (`main.cpp:76`): `/work2/b.cpp` becomes `2/b.cpp` below
  `/work/`. Only one slash is taken from what remains (`main.cpp:78`), so that
  `/work//b.cpp` becomes `/b.cpp`. `ReportResolves` excludes both as `Misread`.
* "We detect: returnStmt or breakStmt whose nearest enclosing loop is our loop"
  (`complex_cf.cpp:19`): a switch or a lambda anywhere above a statement hides it,
  so that a break of a loop that is in a switch is missed, as is a return of a
  function whose body is in a lambda; a return of a method of a local class is
  reported. `EarlyExitIsReal` states the direction that holds.
* "push_back inside a loop without a preceding reserve()"
  (`vector_no_reserve.cpp:53`): the rule never looks for a `reserve()`, and its
  second test for a loop (line 19) gives up at a declaration.
* "reorder fields largest-first to eliminate waste" (`padding_detected.cpp:71`):
  padding at the end stays whatever the order, and what base classes and the
  vtable pointer take is counted as padding.
* The straddling rule takes a bit-field to be as long as its type
  (`cache_line_straddle.cpp:48`), and `stl.endl-in-hot` sees only a manipulator
  that is called, which `os << std::endl` does not do.
* The confidence filter (`findingsProvider.ts:211`) keeps numbers at or above
  the minimum, but High is 0 and Low is 2: it hides the certain findings.

## 5. Proofs

TLAPS checks, for every value of the constants:

* `RpcChannelProofs`: `InvariantHolds` (`Spec => []IndInv`), `TypeCorrect`,
  `PendingCorrect`, `AnswerOrder`, and `Implements`: the channel implements
  `RequestContract`. Assumed: `MaxRequests \in Nat`.
* `CompileCacheProofs`: `InvariantHolds`, `ContainersAgree`, `LimitKept`, and
  `Implements`: the cache implements `LruCache`. Assumed: the limit is a positive
  number and `Nothing` is no value.
* `ProfileStoreProofs`: `NoOrphanRows` (`Spec => []RowsBelong`),
  `ShowsOneImport` (`Spec => []OneImportPerProfile`), `TextIsCounted`
  (`Spec => []PerfIsCounted`), `EstimateIsEnough` (`Spec => EstimateCoversRows`),
  `OneStory` (`Spec => []QueriesAgree`, with the types), `Verdicts`
  (`Spec => []VerdictsAreConsistent`), and `HotspotIsNotLowIpc`, a fact about the
  rules. The first two and the last assume nothing of the constants; the other four
  what `InputAssumption` says: tokens, rows and metadata have the types the code
  reads them with, files are finitely many, half of the counts is a positive
  number, and `None` is no string, number or record. Counts are any that a
  `uint64_t` holds: those that are negative as an `int64_t` are among them. The module also has the proofs about
  `ProfileSelection`: `ChoiceInvariant`, `ListIsTheStore`
  (`ChoiceSpec => []KnownIsStored`) and `DeletedGoes`
  (`ChoiceSpec => []DeletedIsNotActive`), for any profiles, any number
  of operations, and imports that fail at any place. Assumed: `NoProfile` is no profile.
* `RulesAndDiffProofs`, of the rules: `EarlyExits` (`Spec => []EarlyExitIsReal`), `TakenFindings`
  (`Spec => []FindingsAreOwn`), `LayoutFindings`
  (`Spec => []LayoutFindingsAreExact`), `Reports` (`Spec => []ReportResolves`), for
  any projects, files, trees and nodes, and `AlignedFieldsFit`, a fact about the
  straddling rule. Assumed: projects are made of files that have trees, trees of
  nodes, nests of the five constructs, and the fields of a record are a sequence
  (`EngineAssumption`); fields have sizes, widths and alignments that are numbers,
  and no alignment is zero (`LayoutAssumption`); files have absolute paths
  (`PathAssumption`).
* `RulesAndDiffProofs`, of the listings: `MapInvariantHolds`, `SourceMaps`
  (`AsmSpec => []SourceMapIsExact`), `DiffsAreFaithful`
  (`AsmSpec => []DiffIsFaithful`) and `DiffsAreShortest`
  (`AsmSpec => []DiffIsShortest`), for any lines and listings of any length.
  Nothing is assumed.
* `ExtensionProofs`, of the lifecycle: `LifecycleInvariant`, `OneSidecar`,
  `OneOrphanAtMost`, `RestartRate`, for any budget, window, delay and timeout.
  Assumed: these are positive, and `None` is no process and no number.
* `ExtensionProofs`, of the fixes: `FixInvariant`, `OwnCodeJudges`,
  `OneCompilerJudges`, for any sources, commands, results and size of the cache. Assumed: the default
  compiler is a compiler, `Nothing` is no command and no result, and the bounds
  are positive.
* `AnalysisPipelineProofs`: `AnalysisInvariant`, `OneAnalysis`,
  `ActiveFileIsCurrent`, `HoversAndDiagnosticsAgree`, for any files, spellings,
  profiles, kinds of finding, settings of the filter and numbers of diagnostics,
  and any number of analyses that succeed or fail. Assumed: the files are finitely
  many, each one of the names and spelled by one, a spelling that is a file's path
  is that file's own, at least one diagnostic is shown, and `None` is no profile and
  no file.
* `RemarkPipelineProofs`: `RemarkInvariant`, `BelongsToItsFile`, `StoredIsShown`,
  and `NeverRegresses`, an action property, for any files and rows. Assumed: the
  files are finitely many, each with a shadow file, and `None` is not one.

* `RemarkTreeProofs`: `TreeInvariant`, `TreeShowsTheStore` (`Spec => []TreeBelongs`),
  `ChangesAreCaught`, `TreeCatchesStore` (`Spec => []TreeIsStored`), `LoadsGrow`, and
  `TreeGrows`, an action property (`Spec => TreeNeverRegresses`), for any reports,
  any shadow compilations and any number of requests and faults. Assumed: a
  report has finitely many items, and a shadow compilation writes a yaml report.

*The channel.* `PendingIsOpen` and `AnswersInOrder` are not inductive, and the
contract's "runs at most once" needs to know where a line is. The strengthening
has three parts. `Conveyor`: a line goes from `writeBuf` through `toServer` and
`handling` to `toClient`, and the ids fall strictly from the end where the client
writes to the end where it reads; so an id is in one place at most. `Progress`:
what the place says, e.g. that a line that is not yet handled has not run and is
open or aborted. `Located`: an open request is somewhere while the process lives,
and what a dead process leaves to be read comes before what it lost; this is
what makes the answers' order survive a crash. One lemma per action preserves
the invariant, and `StepImplements` maps each action to the contract's.

*The cache.* `MapMatchesOrder` and `WithinLimit` are inductive together with the
types and finiteness of the map. The work is in `SetNew`: `EvictsOne` shows that
the eviction loop stops after no turn or one, the latter exactly when the
cache is full and then with the oldest key, since the order has no duplicates
and its length is the map's size. `MoveToBackPermutes` does the same for a hit.
`Implements` then maps order and map to one sequence of entries.

*The profile store.* `RowsBelong` is inductive: whatever creates a profile
deletes what was under its id, and an insertion checks that its profile is
there. `OneImportPerProfile` needs `ImportInv`: what the running import has
written (`JobWrites`). From the moment its profile exists until its first
transaction nothing is under its id, between the two transactions there are its
line rows and nothing else, and the rows it is about to insert are those in the
ledger. `CascadeLeaves` and `InsertAdds` say what the two statements do to one
profile and that they leave the others; `OthersKeep` carries the invariant for
the profiles a step does not touch. So a crash leaves a prefix of one import,
and a repeated id never a mixture of two.

The other four theorems need to know what the tables hold: `TypesInv` says that
each is a finite map with keys and values of its columns, and what the rows and
the parser of a running import are. Sums of counts are folds over sets, and a
fold is a recursive function on subsets; the section on sums proves, by induction
over the subsets of a finite set (strict inclusion is well-founded), that there
is one such function, that it does not matter which element is added first, and
that a sum covers its parts and survives renaming. From it: a total is at least
each row of it if none of them is negative in its column (`HotnessIs`), so that a
share is never more than the whole, also of a sum that overflowed, which is 0 and
gives no share; and each key that is stored is that of one of the rows that were
read (`StoredIsLast`), so that an estimate covers what is stored if no row is
negative, and equals it whatever the signs if no key came twice
(`EstimateCovers`). That a list of functions can be
sorted at all is `CanBeSorted`. The verdicts compare shares, and
`HotspotIsNotLowIpc` says that two of the rules, which compare the same two shares,
exclude each other for all counts; of the others this is not so (section 4).

`PerfIsCounted` is about the end of a text, and the parser knows only its
current header and frames. The invariant `HasCounted` says what they are in the
text: what the parser has counted, with the sample it would flush now, is what
the samples of the text so far say; its header is the one that only indented
lines follow, and the first of its frames is the leaf there. `MoreLines` says
which sample a line completes (none, or the one of the current header, whose
first frame it is), and `OneMoreSample` that `Aggregator::record` counts exactly
that one.

*The active profile.* Both properties are about the moment when nothing is on its
way, and the invariant says what is until then. The extension's list is the
store's but for the profiles of failed imports (`Announced`), or a list will be fetched: one is asked for, or an answer is on its way
that brings or causes one (`KnownOrListed`); and a list on its way that is no
longer that has the answer to the change, or another list, behind it (`ListIsCurrent`). The
active profile is stored, or its deletion is on its way (`ActiveOrDeleting`).
That a swap that comes back late never brings a deleted profile to life, unless
`revived` says so, needs that a profile that is gone was deleted by a request
(`GoneIsDoomed`), and that what is awaited goes on with profiles that imports
were given (`Proper`).

*The rule engine.* `EarlyExitIsReal` speaks of the node that was visited last;
the invariant `Walk` carries that it is one of the trees' nodes. That a break
with a loop and no switch above it leaves a loop needs the innermost loop:
`InnermostLoop` takes the smallest of the intervals that end at a loop, which
there is because strict inclusion of finite sets is well-founded.
`AlignedFieldsFit` follows from three facts of division, for each of the seven
sizes. For `LayoutFindingsAreExact` a record is laid out field by field (`Places`,
`PlacesExist`): each is put at or behind the end of what is placed, and at a byte
if it is no bit-field (`PlaceIs`, `OffsetsAre`). So no two fields share a bit, and
the fields occupy as many bits as their widths add up to (`FilledIs`), which is
what the rule for padding adds up (`TotalsExist`). A field that begins at a byte has bits
in two lines exactly if its first and last byte are in different ones
(`LinesOfField`), which is what the other rule compares. `FindingsAreOwn` speaks of what was taken; the invariant `Taking` says what
a rule holds until then (`Held`): between files nothing, unless an analysis threw;
during a walk what it found at the nodes seen so far, and before that only what a
throw left to one of the four rules. A step of the walk adds one verdict to the
joined ones, which is `FlattenAppend`: `FlattenSeq` is a recursive function, and
the section on joined sequences proves, from number to number, that there is one
and what it is. `ReportResolves` needs that every finding carries a file of the
project and a level that its rule determines (`Proper`, from `VerdictsAreRated`
for each of the twenty rules), that the list of rules has each rule of the
findings once (`OneMoreListed`), and that what is cut from a path is what the
reader puts back (`PathIsFound`).

*The lifecycle.* Whatever will start a sidecar is one thing at a time: a start
that is awaited, a process that runs, an exit that is still to be delivered, or
the delayed start after it. `AtMostOneSidecar` needs this chain, through the
timeout of a start whose process lives on, and `AtMostOneOrphan` that disposal
cuts it at one place. For `BoundedRestartRate` the restarts in one window's time
are split at the moment the budget was last counted from zero: each part fits
one budget, which is why the bound is two of them.

*Fix verification.* A cached result, a request under way, its answer and what a
verification holds are each of the source they stand for: as the key of the
cache is the source with its options, a result may come from the cache, from an
answer that was meant for another caller, or from one that was late, and is
still of that code. `OneCompilerIsConsistent` adds that all of them name one
compiler until the setting is changed.

*The analysis pipeline.* All that is under way for a file stands in one line,
answers before requests, and the sidecar takes requests in order. `OneVersion` is
about the store and the rules: what a rule holds between two analyses is what an
analysis that threw has left with one of the rules that do not clear themselves,
and a file's rows are of one analysis but for such findings. The other parts
say of each file that the last message under way decides what will be shown
(`Hovers`, `Active`): an answer that is the store's present state, or a request
that will give it; and if there is none, that the editor shows the first of it
already. An answer may be out of date only if an analysis of the file, or the news
that it failed, is behind it, or if the file has `missed` findings (`Fresh`).
`ActiveIsCurrent` and `HoverMatchesDiagnostics` are this with nothing under way.

*The remark pipeline.* The store only grows between two clearings. Along the
line from what is shown, through the answers in their order, to the store, each
has the rows of the one before it: `ShownBelongs` and `ShownNeverRegresses`
follow. For `ShownIsStored`, rows that are added leave the ingestion or the
refresh it asks for under way, and an answer that lacks rows has an ingestion
behind it; so the active file shows what is stored or will be asked for.

*The remark tree.* A load asks for the list of files, then for the remarks of
each file, and shows its tree with the last answer. `TreeInv` says where the
messages of the loads stand: in one line, answers before requests, lists and
remarks each in the order of their loads and none twice, and a load whose list
is to come behind all that have theirs (`Precedes`); and that a load waits for as
many answers as it has messages in the line (`Counted`), so that the last answer
is the last. From it `TreeBelongs`: what a load has gathered and what the answers
bring are part of the store, which only grows, and no file is gathered twice.
`TreeIsStored` is the part of `Caught` with nothing on its way. Whatever happens,
either something on its way will cause a load, or a request has failed or was
answered in part (which sets `unseen`), or the tree is the store, or the newest load is one that reads the
store as it is now: its list is to come, or what it has gathered and what it
still waits for make up the store. `TreeNeverRegresses` needs to know what each
load *will* show (`Shows`): the store's count of a remark until the answer for its file
is made, the count in the answer from then on. As the requests of an older load
are answered first and the store only grows, an older load never shows more than
a newer one (`Growing`), and the tree, which a load has shown, no more than any
that is to come. So a load that ends late may be dropped or shown, and either way
nothing is lost. That bags are added without order is what lets the remarks of
one file, under several categories, be counted one remark at a time.

**The assembly map and diff.** `RangeIsOpen` is what the parser knows inside its
loop: the ranges of all `.loc` lines but the last, which end where the next begins,
and the last one's, which is open. The lines read later cannot move a range that
is closed (`EntryStays`), and `Flushed` says that flushing gives the map of all
that was read, at a `.loc` as at the end. The table and the walks are recursive
functions; that such functions exist is itself an induction (`StepsExist`),
after which both are known by their equations (`TableIs`, `WalksExist`). Every
cell is then one more induction, on the distance from the first cell: a walk from
it takes the prefixes of the two listings apart into changes and keeps as many
instructions as the table says (`ChangesSay`), and no choice of instructions that
the prefixes have in common is longer (`TableIsLongest`): the last pair of a choice
is either the match at the cell or leaves out the last line of one side.

*Only model checked*: liveness. `BoundedRestartRate` is proved, that a sidecar
comes back is not. Every safety property that a passing run checks is proved.

## 6. What is not modelled, and why

Text: how lines, JSON, YAML, assembly, HTML and prompts are put together and
taken apart; a report, a listing or a profile is cut into lines and tokens
already. SQLite: a transaction is a step. Statements fail in `RemarkTree` (all of
them), in `AnalysisPipeline` (an insertion that throws), in `ProfileSelection` (an
import that throws, whatever the statement) and in `ProfileStore` (a type that is
not the column's, a SUM that overflows, and a crash between any two commits); in
`RemarkPipeline`, and for the queries of the last three, they succeed. Flame graphs, the comparison of stored hashes and the summary of a
diff are left out, and so is what the Rust importers
aggregate. The compilers and Clang: any outcome, but for the layout of records. The rules
for shared_ptr copies, container copies and string parameters: what they match
depends on how Clang writes a type that is named through an alias. The exception that escapes `run()` when an
error's text is not UTF-8 (`server.cpp:62`) is one of the crashes. The
suppression comments, the line hotness cache and its staleness check, and
`affectedFiles` are left out. The moment at which a remark's line is hashed is in
the model, but no sentence of the repository says what it should be.

## 7. Plan

In order; the first seven are done, but for what the seventh says.

1. The channel and its contract, the lifecycle: everything else rests on them.
2. The cache with its abstract specification, and fix verification over it.
3. The two pipelines from the sidecar's databases to the editor.
4. The active profile.
5. The remark tree panel with the report parsers: overlapping loads, each of
   several awaits.
6. The profile store with its imports and rules; the assembly map and diff.
7. The rules and the CI mode with its SARIF output (`main.cpp:55-116`,
   `362-431`). Left of it: the compile trace (`main.cpp:267-360`).
8. The LLM layer: routing and fallback, the executor's timeout and abort, the
   response cache (which evicts in order of insertion) with an abstract
   specification beside `LruCache`.
