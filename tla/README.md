# LMmaster: a verification development

LMmaster is a desktop application (Tauri: a Rust core and a React page) that
installs local language-model runtimes, pulls models, serves them through an
OpenAI-compatible gateway on localhost and gives the user a chat, a knowledge
base and a workbench that turns data into a fine-tuned model. This directory
holds TLA+ models of the Rust core, the TLC runs that check them, and TLAPS
proofs of main properties for all values of their constants.

Paths below are relative to `src/`; `tauri/` abbreviates
`apps/desktop/src-tauri/src/`. `PROJECT.json` maps every definition to the lines
it models, lists the components, runs, mutants, hazards, findings and theorems.

Contents: 1 inventory, 2 modules and code, 3 runs, 4 proofs, 5 findings and
divergences, 6 what is not modelled, 7 plan, 8 how to run.

## 1. Inventory

The processes: one application process with a multi-threaded tokio runtime (every
command, task and HTTP exchange is a task; they interleave at awaits and, being on
several threads, wherever no lock is held); the page, which calls commands and
receives events over channels that close when the window goes; external servers
(mirrors, GitHub, Ollama, LM Studio) and child processes (installers,
llama-server, quantizers, trainers). Files survive a crash; everything else does
not. `RunEvent::ExitRequested` (`tauri/lib.rs:602`) cancels what it knows of.

| component | state | operations | what is hard | what makes it correct |
|---|---|---|---|---|
| Downloader (`crates/installer/src/downloader.rs`) | `.partial`, final file, running digest | download, resume, verify, rename | crash between writes, republished files, servers that ignore Range, cancel during a retry | the final file is the expected one; bytes are not given up; a call ends |
| Long commands (`tauri/install`, `model_pull`, `bench`, `workspace/portable.rs`, `datasets.rs`, `personas/dataset.rs`, embedder download, workbench tools) | a registry of tokens each, files, a channel to the page | start, cancel, exit, each command's own steps | cancel at every await, a sink that closes mid-way, targets shared by two calls | an id is held exactly while its call runs; the last word is what the call returns; a success is on disk; what was there is not given up for nothing; every call ends |
| Gateway chat route (`crates/core-gateway`) | one permit, FIFO queue, ring of metrics | authenticate, queue, forward, stream | futures dropped at every await; nested timeouts | one exchange upstream; nobody overtakes; the queue drains |
| Gateway filters and provider (`pipeline_layer.rs`, `crates/pipelines`, `tauri/pipelines.rs`, `registry_provider.rs`, adapters) | chain in force, audit channel and log, list of models behind a lock | filter a request and its answer, route it | switches moved during a request; a bounded channel; a dropped request that holds the lock | nothing personal passes; the trail is in order; one fill per expiry; requests are answered |
| Key manager (`crates/key-manager`) | rows, scopes, last_used | issue, verify, edit, revoke, delete | verification takes the lock twice | no call admitted by a scope that was not in force; revocation is final |
| Start (`tauri/keys/migrate.rs`, `tauri/workspace/commands.rs`, `crates/portable-workspace`) | key database and its copies, keyring, fingerprint, manifest, caches | migrate, recover, check and repair | a failure or the end of the process after any step | no key is lost; nothing of another machine stays |
| Registry fetcher (`crates/registry-fetcher`, `tauri/registry_fetcher.rs`) | cache rows with a verified mark, shown catalog | refresh through tiers, verify, swap | two refreshes overlap; 304 answers; body and signature are two requests | nothing refused is shown; it catches up ("verified" means verified is what two refreshes break, 5) |
| Updates (`crates/auto-updater`, `tauri/updater.rs`) | one poller slot, last notification; tokens of one-shot checks | start, stop, poll, clear; check, cancel | a late clear against a new start; answers against cancels | one live poller; each release announced once; each page hears of its check once |
| Knowledge base (`crates/knowledge-stack`, `tauri/knowledge.rs`) | registry, cancel scope, documents and chunks, store pool, active embedder | ingest, cancel, search | two cancel signals; two transactions per document; eviction in use | Done means indexed; a cancel stops the writing; a search returns the best of its workspace |
| Workbench (`tauri/workbench.rs`, `crates/workbench-core`, `crates/model-registry`) | registry of runs, five stages, `custom-models.json` | start, cancel, register | hours of work under one token; a file written without a lock | a cancelled run registers nothing; one terminal event; cancel ends it |
| Chat and llama-server (`tauri/chat`, `crates/runner-llama-cpp`, `tauri/personas/survey.rs`) | one shared child behind a lock, tokens by chat id | start, stream, replace, stop | replacing the server under a stream; a lock held over a load | one server at most and reachable; the last word is what is returned; a cancel ends a chat |
| JSON files (`tauri/workspaces.rs`, `settings`, `pipelines.rs`, telemetry's consent, active embedder) | memory, file, temporary file | load, change, save | write and rename are two steps; some without a lock | a file is whole and says what was answered as saved, but for calls that overlap without a lock |
| Telemetry (`tauri/telemetry`, `panic_hook.rs`) | consent, bounded queue | submit, retry, age, panic | events overlap in their retries | the latest are kept, once, in order; none is sent too often |
| Supervisor (`tauri/lib.rs`, `gateway.rs`, `crates/scanner`, `App.tsx`) | states, gateway's handle, scan results, the page's view | set up, bind, scan, load the page | tasks, events and answers overtake each other | nothing is served unguarded; the page shows what happened |
| Caches (`tauri/trends.rs`, `hf_meta.rs`) | rows by key, figures by model | summarize, refresh | computed outside the lock; a catalogue replaced meanwhile | the caches give out what was asked for |
| Computations (recommender, detection, hardware probe, checks, trending, samples, retention, SSE frames, chunks, reports, presets, budgets, ...) | none | functions of their input | orders, cuts and boundary values | each has its contract, next to it |
| Desktop pages other than the main one (`apps/desktop/src`) | reducers over the events | dispatch | events before the command's answer | not modelled, see 6 |

How they interact: the install and pull commands call the downloader; the gateway
runs the filters, then calls the key manager, then the provider, and takes a permit;
the registry fetcher swaps the catalogue that pull, chat and the recommender read; a
workspace switch cancels, through `WorkspaceCancellationScope`, the tokens that
ingests registered; a survey takes the chats' server; the workbench's last stage
writes the model registry's file; exit cancels the gateway's handle and the registries.

The hazards this code is exposed to are listed in `PROJECT.json`, each at its
line, with the properties that watch it or the reason why none does.

## 2. Modules and code

Each component has one module, or a few composed by EXTENDS; its `MC` module fixes the
instance where the cfg cannot. A `...Proofs` module holds the theorems of its component
or of several: `GatewayProofs` those of the gateway process (Gateway, KeyManager, and
Proxy with Filters and Runtimes), `DesktopProofs` those of the parts of the desktop
(UpdatePoller, ConfigStores, Startup, Caches, KnowledgeSearch, Supervisor, UpdateCheck,
Telemetry, Downloader), `CommandsProofs` those of the long commands. `Keeping` is
`Iterator::filter`, which several components use; `Recursion` is what the proofs
need of induction (4). Definitions whose comment begins with "(fault)" are not part of the
model: they are plausible bugs (a dropped guard, a missing reset) with which each
property is seen to fail, so that no property is vacuous. Variables commented
"history" only remember; no action's guard reads them.

**`Downloader`**: `Downloader::download`, `attempt_download`, `atomic_persist`.
One final path, called again and again. A file is `Size` chunks; a byte string is
the sequence of the versions its chunks come from, and the digest of a string is the
string. `Probe` measures and hashes `.partial`; `RespondPartial/Full/...` are the
answers to the request (the server decides whether to honour Range); `PartialUnusable`
is a `.partial` that cannot be read, truncated or opened; `ReceiveChunk`,
`EndOfBody`, `StreamFails`, `SeeCancel` are the stream loop, whose last write may be lost
with the file's flush or the process; `Retry` the back-off;
`Verify`, `Persist`, `PersistFails` the end. The environment republishes the file,
cancels, and crashes the process.

**`Gateway`** (with **`Semaphore`**, its abstract specification): one HTTP exchange
per `Request`, `pc` is the await its future stands at. `Arrive` is authentication's
verdict, `Enqueue/Grant` are `acquire_owned` on tokio's FIFO semaphore,
`SendFails/UpstreamHead/ErrorBodyRead/StreamEnds` the upstream call. `Timeout` and
`ClientGone` drop the future wherever it is. `Record` is `record_metrics`, which is
itself part of what a timeout drops.

**`KeyManager`**: the rows of `store.rs` under the operations of `manager.rs`;
`Begin`, `Read`, `Touch` are the pieces of `verify` between which the mutex is
free. `OriginOk` is what `manager.rs:204` does with an empty list of origins, not what
`scope.rs:42` says of it (5). Hash and prefix are reduced to the key that the caller's secret belongs to; a
scope is a record of sets, matched by membership rather than by glob.

**`RegistryFetcher`**: `refresh_once` as the sequence tier by tier of cache read,
conditional request, put or bump, then signature, mark and swap, each an action, so
that refreshes interleave at each. Mirrors publish bodies (numbers) and sign
them separately, go down and come back; rows age. `catalog.status` is the status of the
refresh that put the shown body there, which is what `VerifiedWasSigned` is about; the
page's `last_signature_status`, which is that of the latest refresh with a verdict and
stays when the bundled catalogue is reloaded (`registry_fetcher.rs:211`), is not modelled.

**`UpdatePoller`**: a `Poller` is one call of `start_auto_update_poller`;
`Install/Refuse/Stop/Clear` are the operations of `PollerState`, the rest
`Poller::run_with_lifecycle`.

**`KnowledgeIngest`**: `start_ingest` and `run_ingest`, `IngestService`'s loop over
files with its three emissions per file, the two transactions `AddDocument` and
`AddChunks`, the bridge that forwards progress, `cancel_ingest`,
`set_active_workspace`'s cascade, window close and crash. `tokens` and `flags` are
the two signals an ingest can be stopped by. `Known` stands for the workspaces that
have a row in the table of their store: outside the tests nothing calls
`KnowledgeStore::add_workspace` (`crates/knowledge-stack/src/store.rs:235`), so in
the application as it is `Known` is empty and every ingest ends as failed;
the checks and theorems hold for any `Known`. `Open` is the start of the service, which
may fail for a known workspace too (its files, its table). Of a file that is not blank
there is always a chunk: the target is at least 1 (`knowledge.rs:429`), so that the skip
of an empty list (`ingest.rs:153`) is never taken.

**`Workbench`**: `start_workbench_run`, the stages of `run_workbench` (`Enter`
looks at the token, `Work...` does the stage), `ModelRegistry::register` as `Load`,
`Truncate`, `Write` on one file, `ollama create`, cancel, window close, exit, crash.
An `EntryId` and a `RunId` exist per run because the code draws two ids.

**`TaskLife`**, **`Tasks`**, **`Commands`**: `TaskLife` is the abstract specification of a
long command: of the calls on one id one runs at most, it ends once, a cancel reaches
running calls only, and an id is held exactly while its call runs. `Tasks` is the
registry all of them have (`try_start`, the Drop guard's `Leave`, `CancelId`,
`CancelAll` at the exit) and the channel to the page; a kind of command is chosen in
`Init`. `registered` in `TaskLife` is the set of ids held. `Commands` puts the kinds
together and is shown to implement `TaskLife`:

- **`InstallFlow`**: `install_app` with `run_install` and `ActionExecutor` (a
  downloaded installer that is run, an archive or disk image, an address to open, the
  refused `curl | sh`), extraction,
  the post-install check, and `install_llama_cpp_runtime`.
- **`ModelPull`**: Ollama's pull with its retries, the two files of a llama.cpp model.
- **`BenchFlow`**: probe, warm-up, the prompts in two passes, the report.
- **`PortableFlow`**: export into a temporary archive that replaces the older one;
  import through staging, with skip, overwrite and rename of an existing target.
- **`FetchFlow`**: the embedding model (two files) and the personas' parquet files. Calls
  for the personas have no registry: two of them may have one `.partial` in hand
  (`PersonasFetch`), and what is put in place may then be of both (`SpoiltFile`).
- **`DatasetFlow`**: a data set read, chunked, embedded and written by a task of its own.
- **`ToolFlow`**: the environment of LLaMA-Factory; quantize, training and evaluation.

**`Chat`**: a call of `start_chat` or `start_remote_chat` for one of the runtimes, or a
survey of personas. `TakeLock`, `Reuse`, `Evict`, `Publish` are the critical section
over the slot of the server; a server is named by the chat that spawned it. Streams
break, servers die, pages close, the application exits. `BodyRead` is the body of an
answer that is no success; `Unbounded` are the chats whose client has no time limit for it.

**`Filters`**, **`Runtimes`**, **`Proxy`**: the layer around the routes (`Enter`,
`FilterRequest`, the routes, `Collected` when the whole answer is there, `Return`), the
entries it sends one by one (`SendEntry`), the
switches that swap the chain, the audit channel and its task; the adapters and the
provider with its list behind a read-write lock (`Lock`, `Drop` of a request that
waits or holds); `Proxy` composes them: key check, list, routing, and `TimesOut` of what
the 30 s layer wraps. A body a runtime sends is collected outside of that layer and may
never end. A frame that is not JSON stays out of a stream's events but not out of the
stream: when no frame was changed, the original bytes go on (`FilterStream`). The
filters' error path is left out: its one filter that refuses, the token quota, gets a
budget in tests only.

**`ConfigStores`**: one of five stores per behaviour, chosen in `Init`; `Create`, `Fill`,
`Rename` are `fs::write` and `fs::rename` of the temporary file, each of which may fail;
`Restart` may come at any time, and seeds a workspace index that is not there. Two
writers may hold the same temporary file open; a write goes to the file that was opened,
wherever it was renamed to. `met`, `crossed` and `spoilt` remember which calls under way
overlapped, which saves did, and whether the file in place is of such a save: calls one
after the other are never among them.

**`Startup`**: `provision_v2` step by step (keyring, export, backup rename, promote
rename, recovery) and `check_workspace_repair`; one check at a time. That the fingerprint
of an unmoved workspace is saved after the log and a changed one once more at the end
(`workspace/commands.rs:136`) is one save here: nothing reads it in between.

**`KnowledgeSearch`**: ingests and searches over the pool of open stores; a store is an
opening of a file, a row remembers the embedder its vector comes from. Each file has one
workspace, which is in its table (`HasWorkspace`) if the file is in `Known`; a call may
fail after that for its embedder or for a database another connection keeps busy
(`CallFails`). That two connections to one file see the same rows is SQLite's promise.

**`Telemetry`**, **`UpdateCheck`**, **`Supervisor`**, **`Caches`**: the components of these
names in the table above. `Supervisor` extends `UpdateCheck`; `wire` is the events
that are on their way to the page.

**`Decisions`**, **`Rules`**: computations without steps of their own. `Init` chooses a
topic and an input, `Decide` computes the answer as the code does, and the contract
next to each (`Sound...`) relates answer and input, or the answers for two related
inputs (another order, more memory, another cut of the stream). `Keeping` says what the
library calls they rest on do (`filter`, `retain`, `sum`, `sort_by`); what the code does
in a loop is a fold. The bytes of an event stream are line ends, a byte of data that is a
character, and the two bytes ("h", "t") of one character: `AsText` is what
`from_utf8_lossy` makes of each piece, with "?" for the replacement character.

Abstraction common to all: wording, logging, progress figures and payloads are
left out; a datum is whatever the properties tell apart.

## 3. Runs

Bounds are in the cfg files and, where a bound is in the model, in the constants
commented "bound". `CHECK_DEADLOCK FALSE` is set where all tasks may be over, which
is a legitimate end.

| run | instance | what it shows |
|---|---|---|
| `services` | the downloader, the chat route or the poller per behaviour (`MCServices`, a disjoint sum): 3 chunks, 2 versions, 2 retries, no Content-Length; 3 requests, 1 permit, ring of 2; 2 starts with 3 polls and 1 | the final file is verified, progress kept, calls end; no overtaking, semaphore refined, queue drains; slot live, each change told, cancel ends. Three chunks allow a resume at the start, middle and end, two versions a mix of both, two retries a success after a failure and exhaustion; of three requests one streams, two queue, and the first of the queue may be dropped; three polls: found, withdrawn, found again |
| `key_manager` | 1 key, 2 calls, 1 edit, clock 0..1 | admission only by a scope in force; revocation final. Calls share only the row; another key shares nothing with it |
| `registry_fetcher` | 2 mirrors of up to 3 and 1 publications, the first malformed, the last no catalogue, 1 refresh at a time | nothing refused is shown, the catalogue catches up. Two mirrors make a failover and its return; the publications a good one after a bad one and a bad one after it |
| `registry_overlap` | 1 mirror, 2 publications, 2 refreshes | violation, see 5 |
| `knowledge_ingest` | 2 ingests, 2 workspaces of which one is known, duplicate, blank and unreadable files, 1 crash | registry exact, Done means indexed, cancel stops the writing, every ingest ends |
| `workbench` | 2 runs, 1 exit or crash | a cancelled run stays out of the file, one terminal event, cancel ends the run |
| `commands` | 2 calls over 2 ids, each kind and variant; 1 archive entry, 2 pull attempts, 1 prompt | `LastWordAgrees`, `SuccessIsReal`, `OldIsKept`, `CallsEnd`, and the refinement of `TaskLife`. `IdsInUse` leaves out what differs only by naming, and second calls on another id that are long, since calls meet only in the registry, at a target or in a data set |
| `chat` | 3 chats, 2 model files | `OneServer`, `LastWordAgrees`, `CancelEnds`. Three: one streams, one loads with the lock, one waits for it; two models make an eviction and a return. `FewChats` lets one of them be looked at closely |
| `proxy` | 2 requests, 1 model, 1 switch, channel of 2, log of 2 | `NothingPersonalPasses`, `AuditTrailIsComplete`, `OneFillPerExpiry`, `RequestsEnd`. Two requests of up to four entries each overflow both bounds; one switch of two filters changes a chain of two |
| `proxy_key` | the same with keys that list filters | violation, see 5 |
| `frames` | streams of up to 4 characters and line ends, every cut | violation, see 5 |
| `desktop` | the modules of parts that share nothing, one part per behaviour (`MCDesktop`, a disjoint sum): 3 writers of a store, 2 keys, 2 ingests and a search over a pool of 1, 3 events and a queue of 2, 3 scans over a broadcast of 1, 2 update checks, 2 summaries and 2 models, and every input of `Decisions` | `FilesAgree`, `StartIsSafe`, `SearchIsRight`, `EventsAreKept`, `PagesAreTold`, `CachesFit`, `DecidedAsPromised`. Each bound is the first at which its queue overflows, its pool evicts or its lag happens; a third writer meets a file renamed under the second |

The parts of `desktop` have no variable in common, so a part's reachable states are
those of its own specification; the others rest in one initial state. Bounds that cap
a cfg's constants: capacities in the code are 8 (broadcast), 200 (telemetry), 256
(audit channel), 4 (pool); what happens at a full queue does not depend on its length.

### Fairness

Weak fairness is assumed of what the runtime itself drives, and of nothing a
user, client or server decides.

- `Downloader`: of the call's own steps. Tokio polls a woken task, and reqwest's 30
  minute timeout wakes a stalled request or stream.
- `Gateway`: of the clock, of due timers, and of the grant to the head of the queue.
  None of the upstream: a body may stream for ever, and `QueueDrains` holds all the
  same since the waiters time out.
- `RegistryFetcher`: of a refresh's steps (requests have timeouts) and of the ageing
  of rows. `Begin` is among the steps: the scheduler keeps starting refreshes. None
  of publishers and mirrors; `CatalogCatchesUp` is conditional on what they do.
- `UpdatePoller`: of a task's steps; the source has a timeout and the sleep elapses.
- `KnowledgeIngest`: of an ingest's steps and of the bridge's forwarding; the loops
  are over finite folders and the channel is drained.
- `Workbench`: of the reactions to a cancelled token (the tools select on it; the
  evaluation looks between cases, and a case has a 60 s timeout,
  `crates/bench-harness/src/workbench_responder.rs:243`) and of the data stage. None
  of a quantization or a training, which may never finish: `CancelEnds` says that a
  cancel ends them even so.
- `Commands`: of a command's own steps. The peers' ends are among them: transfers,
  installers and streams have timeouts, and `CallsEnd` rests on these.
- `Chat`: of a chat's work, and strong fairness of taking the lock: tokio's mutex is
  first come first served, so a waiter is not passed over for ever. The generation
  itself need not end: `CancelEnds` speaks of cancelled chats. The body of an error ends
  where the client has a time limit (60 s to Ollama and LM Studio,
  `crates/adapter-ollama/src/lib.rs:97`, `crates/adapter-lmstudio/src/lib.rs:44`; 120 s to
  a remote endpoint, `tauri/chat/remote.rs:104`); that of a llama-server need not, and
  `CancelEnds` says so.
- `Proxy`: of the steps that serve a request between its body and its answer's: a runtime
  begins to answer or is cut off by the 30 s layer. None of the bodies: neither the
  client's, which is read first, nor a runtime's, which may never end. `RequestsEnd`
  therefore leads to an answer or to a runtime that is answering.

## 4. Proofs

Eight modules hold theorems, checked by tlapm with nothing assumed but the named
`ASSUME`s of the components' constants. These say that bounds are positive (a queue, a
pool, a ring or a log has room for one: the code's are literals), that the model values
for "nobody" and the words used as marks are not members of the sets they are told from,
and what the given data are made of: bodies and answers of texts (`TextsAreKnown`),
lists of models (`RuntimeAssumption`), models the code names (`KnownModels`). TLC
evaluates them on each run.

| theorem | statement | argument |
|---|---|---|
| `DesktopProofs!HasherMatches` | `DownloadSpec => []HasherMatchesPartial` | an inductive conjunct of `DownloadInv` |
| `DesktopProofs!FinalVerified` | `DownloadSpec => []FinalIsVerified` | `DownloadInv` adds `VerifiedBeforeRename`: at the rename the digest is the expected content. `FinalIsVerified` alone is not inductive, `Persist` renames a file that nothing says was verified; with the digest equal to the file it was. Only `Persist` writes `final` |
| `DesktopProofs!DownloadTypesCorrect` | `DownloadSpec => []DownloadTypes` | by action |
| `DesktopProofs!ProgressKept` | `DownloadSpec => ProgressIsKept` | only a few actions write `.partial`; a last write that was lost, with the process or the file's flush, shortens it by one |
| `GatewayProofs!TypeCorrect` | `Spec => []TypeOK` | by action |
| `GatewayProofs!NoPermitIsLost` | `Spec => []PermitsConserved` | cardinality of the owners: each action adds, removes or keeps one, matched by the counter |
| `GatewayProofs!RingIsLatest` | `Spec => []RecentIsLatest` | `Record` on ring and history together, ring full or not |
| `GatewayProofs!NoOvertaking` | `Spec => FirstComeFirstServed` | the queue holds each waiter once, exactly those at `queued` |
| `GatewayProofs!ImplementsSemaphore` | `Spec => SerialisesUpstream` | refinement: `holders` is `Holding`, a grant maps to `Acquire`, the ends to `Release`, all else stutters |
| `GatewayProofs!RevokedForEver` | `KeySpec => RevocationIsFinal` | each edit's guard on the row's state |
| `GatewayProofs!AllowedInForce` | `KeySpec => []AllowedWasInForce` | `KeyInv`: the scopes in force during a call include the row's while it is active, and a call that has read holds one of them which admits it |
| `RegistryFetcherProofs!ShownAcceptable` | `Spec => []ShownIsAcceptable`, refreshes overlapping or not | the property says nothing of rows, answers and statuses on their way to the swap: `Single` (one row per tier, one answer per refresh), `WellFormed` (none malformed) and `Concluded` (what a status says of the answer) do |
| `DesktopProofs!SlotLive`, `!EveryChangeIsTold`, `!CancelledPollerStops` | `PollSpec => []SlotIsLive`, `[]TellsEveryChange`, `[]OneLateCheck` | the log's last entry determines `last`; a cancelled poller at the loop's top cannot poll again |
| `KnowledgeIngestProofs!TypeCorrect`, `!EntryIsExact` | invariants | an entry and its ingest begin and end together |
| `KnowledgeIngestProofs!DoneIsIndexed` | invariant | strengthened to every ingest under way: what lies before its index in the folder is indexed; rows are only added |
| `KnowledgeIngestProofs!CancelHeeded` | invariant | after the flag is set an ingest is at most one transaction away from looking at it |
| `WorkbenchProofs!CancelledNeverRegisters` | `Spec => []CancelledStaysOut` | `Out`: a run in `early` is before its last stage or over, it is in no file content and in nothing any run has loaded; so no other run's stale write brings it in |
| `WorkbenchProofs!EndIsToldOnce` | `Spec => []TerminalIsLast` | a run under way has told no terminal event, and `End` tells one |
| `DecisionsProofs!OneServerRuns` | `Spec => []OneServer` | `LockIsHeld`: the calls between eviction and publication are exactly the holder of the lock, and the slot is empty meanwhile; without it a spawn could be a second server's |
| `DecisionsProofs!LastWordIsResult` | `Spec => []LastWordAgrees` | `WordIsKept`: a call under way has said no last word and, before its answer, has passed nothing on; one lemma for each way a call goes on, ends with an error, or ends with its stream |
| `CommandsProofs!LastWord` | `Spec => []LastWordAgrees`, of every command | `Control`: nothing is returned before the end (`ResultsComeLast`), an id belongs to the call that runs on it (`Owners`), drawn ids differ. Each of the commands' actions is first classified by what it does to its call whatever it does to the disk (`NextCases`: begins, works, is refused, leaves, is cancelled), so that the invariants need six cases |
| `CommandsProofs!CommandsImplementTaskLife` | `Spec => ImplementsTaskLife` | refinement from `Control`: `Life` is read off `pc`; a beginning maps to `Begin` or `BeginUnregistered`, a cancel in passing to `Ask`, the Drop guard to `End`, which needs `Owners` to be the removal of this call's entry only; work stutters |
| `CommandsProofs!SuccessReal` | `Spec => []SuccessIsReal` | `Honest`: for each kind, what the disk has at each stage (`InstallHonest`, ..., `VenvHonest`). The property speaks of results; that nobody takes away meanwhile what a stage wrote is in the conjuncts on other calls: `RowsAreNamed` and `ImportsAreAbout` of data sets, `Alone` of imports and environments |
| `CommandsProofs!OldKept` | `Spec => OldIsKept` | each step that removes, from `Control` and `Honest` |
| `DesktopProofs!StartSafe` | `KeysSpec /\ RepairSpec => []StartIsSafe` | `KeysKept`: a key that is not in the database is in a backup, which nothing removes; `NothingOrphaned` says where the keys and their passphrase are at each step, wherever the one before was cut off or failed |
| `DesktopProofs!StoresAgree` | `ConfigSpec => []FilesAgree` | `ConfigInv`: a save that crossed no other has the temporary file to itself (`SavesApart`), a lock keeps calls from meeting (`OneHolder`), and what a call that met none saves, and a start would then read, is what is meant (`CallsApart`). The histories make this more than `FilesAgree`, which speaks of the file only |
| `DesktopProofs!CachesAreRight` | `SummariesSpec /\ MetaSpec => []CachesFit` | `SummariesInv`: a row is of a call that has returned and had its key. `MetaInv`: a round that no new catalogue met asks for the repositories of the catalogue, and its figures are as new as itself |
| `DesktopProofs!SearchesAreRight` | `SearchSpec => []SearchIsRight` | `SearchInv`: what a caller was given stays open for its path after the pool let go of it, and no row it saw goes; whatever the scores are, `BestAre` says of the rows of the file that are chosen by them |
| `DesktopProofs!PagesAreRight` | `SupervisorSpec /\ UpdateSpec => []PagesAreTold` | `SupervisorInv`: what the page does not show yet is on the wire or will be asked for, for the gateway and for the scans; `ChecksInv`: the words of a check agree with its state |
| `DesktopProofs!EventsKept` | `TelemetrySpec => []EventsAreKept` | `TelemetryInv`: the places of the queue's events in the history are increasing and have as many events behind them as in the queue (`Queues`), the latest `QueueCap` are there or aged; then dropping the front and the aged keeps both |
| `GatewayProofs!FilledOnce` | `ProxySpec => []OneFillPerExpiry` | `RuntimeInv`: who lists holds the write lock, and only while the lists are stale (`WriterLists`), so `fills` is 1 if and only if they are fresh |
| `GatewayProofs!NothingPersonal` | `ProxySpec => []NothingPersonalPasses` | `FilterInv`, `FitRequest` of each request, from its coming through the answer that is still being collected to the one it got: the chain it took with it decides, not the switches. That a chain's filters only take from a text, and the redacting one takes the personal part, is induction along the chain |
| `GatewayProofs!TrailComplete` | `ProxySpec => []AuditTrailIsComplete` | `Fits` of log and channel as one sequence: in order, without gaps for a request that lost nothing, up to its last entry. Sending, dropping, draining and forgetting each keep it |
| `DecisionsProofs!EveryDecisionIsSound` | `DecideInit /\ [][Decide]_decideVars => []DecidedAsPromised` | the invariant is `Right`: what was decided is `Computed` of the topic and what was given, which is one the topic can have. That every such answer is as promised is a theorem of each topic, for far more than the run enumerates; see below |
| `DecisionsProofs!FramesAreSound` | `SoundFrames(g, ParseStream(g))`, any stream that ends its lines one way, any cut: the events are those of the text its pieces are read as, and the stream's own if no cut goes through a character | `TextOfStream`: reading puts replacement characters only for what is left of a cut character, so the text ends its lines as the stream does. `TextIsParsed`, from `WholeIs`: whatever is in the buffer, taking one piece after the other and draining each leaves what draining the whole would (`SplitStays`, an empty line that was found stays the first when more comes; `RestEndsOneWay`, what is left ends its lines the same way) |
| `DecisionsProofs!ChunksAreSound` | `SoundChunks(g, ChunkParagraph(g))`, any sentences, target and overlap | the paragraph is one text with places (`TextOf`); each group and each window is a span of it (`GroupedTo`, `WindowIs`), and `GoodParts` says that the parts so far cover it up to a place, in order |
| `DecisionsProofs!GpusAreSound` | `SoundProbe(g, Probe_(g))`, any cards, in any order | `ListInv` of the list after each card: every memory seen so far is in it; without the NVIDIA library it has no more of a vendor than were seen, with it the entries for NVIDIA are the library's, and those still without a place are as many as it lists less the cards that came |
| `DecisionsProofs!RecommendationIsSound`, `!RankingIsSound`, `!CleanupIsSound` | any catalogue, leaderboard, results | `SortsAlike`: sorting by an order in which all differ gives one sequence, whatever order it is given; retention goes through the results from the oldest on and keeps what is in use |
| `DecisionsProofs!QuotaIsSound`, `!PlanIsSound`, `!DetectionIsSound`, `!HistoryIsSound`, `!TokensAreSound`, `!HubIsSound`, `!SectionsAreSound` | any context, survey, manifest, log, steps, repositories, answer | each code loop is a fold, whose states are named by `FoldTakesSteps`; an invariant of the steps (`PackedUpTo`, `DetectedUpTo`, ...) goes by `Induction` |
| `DecisionsProofs!ReleaseIsSound`, `!ImportIsSound`, `!ChecksAreSound`, `!SuiteIsSound`, `!SampleIsSound`, `!WindowsIsSound`, `!RemoteIsSound`, `!PresetsAreSound`, `!ReportsAreSound` | any input | by the cases of the code, with the lemmas on `Kept`, `FlattenSeq`, `Reverse` and sorts of `Recursion` |

The theorems of the computations. Each takes its input from a set `Any...` that has
numbers, names and sequences of every size where the run has small sets, and the last lemmas
(`RulesAreGiven`, `CuttableIsGiven`) show that what the run gives is among them. They
are about pure functions, so their proofs need no state; what they do need is to reason
about loops. The names of what is compared (a licence, a vendor, an id) are arbitrary
sets. Conditions that remain are those of the code or of its inputs: the frames are of a
stream that uses one kind of line end, an order of chunks is promised only if the
overlap is no longer than the target, a catalogue has one entry for each id and a
leaderboard one row for each author and name, cards of one place are one card, and the
machine a recommendation is for has no more memory than the one the contract compares it
with (12 GB and 32 GB).

Proving them showed four things about the model, now corrected: `CASE` with arms that
overlap leaves the choice open, where the code's `match` and `if` take the first, so they
are `IF` now; the contract of the hardware probe said nothing of a Windows machine whose
NVIDIA library is there but knows no memory, and says more now; the contract of the
chunks promised the order of parts for every overlap, which is false (three sentences of
11, 4 and 4 characters, a target of 3 and an overlap of 10: the next part begins before
the last window of the one before it; TLC agrees), and windows of only a space, which
`push_chunk` drops, were kept.

The type invariants of `UpdatePoller`, `KeyManager`, `RegistryFetcher` and `Workbench`
are carried by an invariant `Types` of their proofs, those of the later modules by the
first conjunct of their invariant. Theorems on `TypeOK`, the digest,
the permits and the ring of metrics say more than the runs repeat: each was checked by
TLC as an invariant of its run before it was proved.

`Recursion`. Some definitions are recursive functions over an interval: what a filter
keeps of a queue (`Kept`), the filters of a chain applied in turn, the entries they
write. `LeastNumber` (every set of numbers has a least) comes from the well-founded
order of the numbers, `Induction` is the principle over a set of numbers instead of a
predicate, and `RecursionIsDefined` that such a function has the values its
definition says. On these rest `KeptIs`, what is kept is what was there and in the
set; `KeptInOrder`, there are increasing places it was taken from; and `PlacesCompose`,
of a part of a part. An invariant about the order of a queue is then stated with an
explicit function of places. For the computations it also holds what folds over
sequences, `FlattenSeq`, `Reverse`, `Min`, `Max` and sorts by a strict weak order do:
`FoldExists` and `FoldTakesSteps` (a fold has its states, and takes a step for each
element), `FlattenStepwise`, `TotalIs`, `KeptSelects`, `Backwards`, `SortsAlike`. What
follows them there is about sequences of the kinds that the computations use and needs
nothing of the computations themselves.

Only model-checked:

- the liveness properties (`CallsEnd`, `QueueDrains`, `CancelEnds`, `CatalogCatchesUp`,
  `EveryIngestEnds`, `RequestsEnd`): fairness and ENABLED are beyond the prover;
- `KeyPolicyApplies`, `VerifiedWasSigned` and `CutsAreHidden`, which do not hold (5).

Every other property of the runs is a theorem.

## 5. Findings and divergences

Three have a violation run, whose property is what the code's own text says.

- `proxy_key`: the filters a key lists (`KeyPipelinesOverride`) never narrow the chain of
  its requests: `PipelineLayer` is the outermost layer
  (`crates/core-gateway/src/lib.rs:124`) and looks at the request
  (`pipeline_layer.rs:254`) before `require_api_key`, inside it, puts the list there
  (`auth.rs:118`), where `pipeline_layer.rs:37-40` promises a whitelist.
- `registry_overlap`: `refresh_catalog_now` (`tauri/registry_fetcher.rs:424`) runs beside
  the scheduler's refresh, and the mark of one goes to the row the other has put
  meanwhile: a catalogue is shown as verified whose signature nobody checked, against
  `crates/registry-fetcher/src/cache.rs:33` and `tauri/registry_fetcher.rs:353-354`. With
  one refresh at a time it does not happen.
- `frames`: `SseChunkParser::parse` makes text of each piece for itself
  (`crates/core-gateway/src/sse_chunk.rs:112-119`), so a cut inside a character of several
  bytes, as all of Korean is, leaves replacement characters, against `:5` of the file. It
  is latent: `process_sse_response` hands the parser a whole body at once
  (`pipeline_layer.rs:436-438`). What `SoundFrames` promises is therefore relative to the
  text that was read, and to the stream where no cut goes through a character.

The following disagree with a text of the repository too. Each was shown by TLC on the
module named, with the property that states the text; they are told here without a
run of their own.

- `Downloader`: a `.partial` that a cancel left complete is never finished; the next
  call asks for an empty range, gets 416 and fails, each time (`downloader.rs:170`
  against `:6`).
- `Gateway`: the 30 s layer wraps the chat router, so its own 600 s cannot decide
  (`core-gateway/src/lib.rs:84` against `:13`, `:52`).
- `UpdatePoller`: a stopped poller's `clear` removes its successor's entry; after a third
  start two run (`tauri/updater.rs:283` against `:7`, `:9`).
- `KnowledgeIngest`: a workspace switch cancels a token that the ingest service does not
  look at (`tauri/knowledge.rs:675` against `:641`, `:211`).
- `KeyManager`: a key without origins is good for every origin (`manager.rs:204`), where
  the comment on the field says that an empty list refuses every one (`scope.rs:42`), as
  it does of models and endpoints. `AllowedWasInForce` takes the code's rule.
- `ModelPull`: a llama.cpp model's pull ends without the Completed event that
  `tauri/model_pull/llama_cpp.rs:24` tells of; the page hears the status of the last file
  and the command's answer.

Observed while modelling; the models have these behaviours, and the properties are
stated so that they say what holds beside them:

- Downloader: when the length of `.partial` cannot be asked for a reason other than its
  absence, the call goes on as if there were none and appends to it
  (`downloader.rs:138-141`, `:204`); the digest of what was received then passes while the
  file holds more. Not in the model, where the length is always known.
- Gateway: the client to a runtime has no total timeout (`core-gateway/src/state.rs:31-36`)
  and the outermost layer collects the whole answer (`pipeline_layer.rs:334`, `:420`),
  outside the 30 s limit: a body without an end holds its request, and the permit, for
  ever; the metrics layer is inside the timeout, so a 408 is not recorded
  (`core-gateway/src/lib.rs:77`); a revoked key is answered `invalid_api_key`, where
  `auth_test.rs:6` lists `key_revoked` (`key-manager/src/store.rs:206`); personal data
  split over two frames of a stream is not redacted, and bodies that are not JSON are not
  looked at; frames that mix both line ends are merged (`sse_chunk.rs:128-150`); the
  audit channel of 256 and its log of 200 drop what does not fit.
- Chat: the body of a llama-server's error is read without a time limit or a look at the
  token (`adapter-llama-cpp/src/lib.rs:50-57`, `:330-332`); the lock is held while a server loads, up to a minute (`tauri/chat/mod.rs:169`); a
  chat cancelled while it waits for the lock still evicts another's server (`:174`); a
  reused server is not asked whether it lives (`:185`); a survey evicts a chat's server
  and nobody can cancel it (`tauri/personas/survey.rs:302`, `:191`).
- Installer: a cancel during download or extraction is told as failed
  (`install_runner.rs:188`); `install_llama_cpp_runtime` has a token nobody can cancel and
  removes the old build first (`llama_cpp_runtime.rs:86`, `:195`).
- Benchmark: a time-out or cancel drops the samples a comment promises to report
  (`bench-harness/src/runner.rs:57-60`, `:159-168`).
- Portable: with Overwrite the target is removed before the last look at the token
  (`import.rs:513`, `:369` against `:6-7`); two exports to one path share the temporary
  archive (`export.rs:146`); an archive is compared with its own manifest (`:303-320`).
- Data sets: a failure of the writer is told as cancelled (`dataset-importer/src/service.rs:332`); a
  second import with another embedder keeps the old vectors but counts them.
- LLaMA-Factory: an environment whose dependencies failed passes for done at the next
  start (`lora_real.rs:94-105`).
- Personas: two calls share one `.partial`, and no digest is known to tell a mixed file
  from a whole one (`tauri/personas/dataset.rs:226-234`).
- Embedder download: a directory that cannot be made ends the task without an event
  (`embed_download.rs:272`).
- Settings: a file that cannot be parsed is read as the defaults, which the next save
  writes over it (`settings/mod.rs:71-79`); of two overlapping commands of the settings
  or two toggles of the filters one change can be lost (`pipelines.rs:457`).
- Workspaces: when the index cannot be saved a switch returns before it cancels anything,
  and the change stays in memory (`workspaces.rs:433`); deleting the active one cancels
  nothing (`:380`).
- Start: keys vanish when the keyring fails on an encrypted database (the store is then
  in memory) or a promote-rename fails and the next start removes `.migrating`; a check cut off
  between fingerprint and manifest leaves the manifest of the old machine
  (`repair.rs:159`, `workspace/commands.rs:130`); a log line that was cut off swallows
  the next entry (`:178`).
- Knowledge: vectors of two embedders of one dimension are compared as if they were of
  one; the pool evicts by order of opening where a comment says least recently used
  (`knowledge.rs:492`), before it knows that the new store opens (`:544-566`).
- Telemetry: the queue is never drained, although `submit.rs:7` says it is retried; an
  event may be posted after the consent was withdrawn (`state.rs:141`).
- Main page: an older snapshot or a late event can replace a failure (`App.tsx:183`); a scan that ends
  between the page's question and its listening is not shown until the next (`:194`);
  after a lag the forwarding of scans ends for good (`tauri/lib.rs:579`).
- Caches: figures fetched for a catalogue that was replaced meanwhile are kept
  (`hf_meta.rs:124`); a summary that cannot be kept is lost (`trends.rs:413`).
- Computations: NVIDIA cards are matched by position (`hardware-probe/src/gpu.rs:160`); a
  leaderboard row of another author's model of the same name can win over the exact one
  (`trending-watcher/src/filter.rs:206`); the fallback ignores what a model is for
  (`recommender.rs:304`); hub ids `a/b-c` and `a-b/c` collide (`hf_search.rs:146`).
- Workbench: the registry never sees a run's later stages nor its end, the ids differ
  (`tauri/workbench.rs:315`); concurrent registrations can lose models of
  `custom-models.json` (`model-registry/src/register.rs:141`); a directory that cannot
  be made for `ollama create` ends a run without a terminal event (`:1343`).

## 6. Not modelled

See the notes under "components". In short: external programs (their answers are
choices of the models), cryptography and SQLCipher (reduced to their verdict), archive
formats, numeric similarity and statistics, the patterns of the filters, rendering, and:

- the pages other than the main one (their reducers and the onboarding machine) and the
  JavaScript SDK, which is a thin client;
- several workspaces in one store of the knowledge base, whose rows are told apart by a
  column;
- back-off delays, a cache row whose digest differs from its body, the listing of keys,
  the drain of a cancelled gateway, the mock tools of the workbench, the trends'
  curator, which runs in the project's CI and not on a desktop, the importer's mapping of
  columns, the guides;
- `adapter-koboldcpp`, `adapter-vllm`, `ModelRegistry` in memory: nothing calls them in a
  way that changes state.

Two calls of `check_workspace_repair` at once are not modelled: a user would have to
press the banner's button and that of the settings page together; two of them could
restore the manifest that the first one cleared. Time is modelled where a deadline decides (gateway, keys, the age of cache
rows and of queued events), elsewhere as the possibility that a timeout happens.

## 7. Plan

Done, in this order: Downloader, Gateway over Semaphore, UpdatePoller, KeyManager,
RegistryFetcher, KnowledgeIngest, Workbench, each with its proofs; then TaskLife and the
long commands, Chat with its proofs, Proxy, the stores and the start, search, telemetry, updates,
supervisor, caches, and the computations; then the proofs of these, the computations
last.

What would add most next:

1. The filters' patterns and the similarity search, whose verdicts are choices now.
2. KeyManager against an abstract specification whose verification is one step, and the
   refinement proved.
3. The page's reducers (workbench, install) against the events of `Workbench` and
   `Commands`.

## 8. How to run

In this directory: `tlc -config MCServices.cfg MCServices`, `tlc -config Workbench.cfg
Workbench` (and so for each run of `PROJECT.json`; the longest, `desktop`, `proxy` and `registry_fetcher`, take
about three minutes with two workers), `tlapm GatewayProofs.tla` (four minutes; `DesktopProofs`
and `CommandsProofs` up to ten, `DecisionsProofs` twenty). Needed: the TLA+
tools with the community modules, tlapm 1.4.5 with Z3, Zenon and LS4.
