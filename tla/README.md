# Verification of css-module-explainer

TLA+ specifications of the concurrent core of the language server,
`omena-lsp-server` (`src/rust/crates/omena-lsp-server`), and of the two parts of
the command line, `omena-cli` (`src/rust/crates/omena-cli`), that share files
with other processes; the runs that model-check them with TLC; and the theorems
TLAPS proves about them. Paths below are relative to the server crate's `src/`
unless they start with `src/` or with `cli:`, which stands for the command
line crate's `src/`.

## 1. The system

The server is one process. A **loop** on the main thread owns all state
(`LspShellState`), reads client messages from a channel and never computes
anything long itself: it hands snapshots to worker threads and applies their
results when they come back. Every answer and every diagnostics publication
goes out through one stdout lock that the loop, the query workers, the
diagnostics worker and any number of delayed writer threads share. Servers of
several editor windows share a cache directory and nothing else.

The command line is made of one-shot processes. What is concurrent about it is
that several of them, and the user's editor, work on the same files: a
**workspace edit transaction** replaces several files under lock files, and a
**watch** client shares a resident daemon with others through an endpoint file.

| part | state | operations | talks to |
|---|---|---|---|
| demand lanes, `tide/demand.rs` | demand, generation, in-flight slot with its frozen demand, age of the oldest deposit, starvation alarm | deposit, try_flush, reopen_window, tide_completed | the loop; one lane for SIF refresh, one for workspace republish |
| epoch ledger, `tide/ledger.rs` | epoch, one mark per kind of input | advance, stamp, is_current | message handlers advance it, SIF jobs carry its stamp |
| background index, `workspace_index.rs` | revision, pending count | enqueue, apply result and continue, drop superseded result | index worker by channel; admits documents, reopens and deposits on both lanes |
| external-SIF refresh, `external_sif_loader.rs` | applied SIF set, in-flight count | dispatch on flush, apply or discard by stamp | SIF worker; deposits on the republish lane when the facts changed |
| workspace republish, `tide_republish.rs`, pump in `bin/` | job in flight, pending items of the wave | dispatch, stream items, final chunk, pump a chunk per turn, complete | republish worker; publications, open-source refresh |
| message handlers, `document_events.rs`, `document_refresh.rs`, `settings.rs` | documents, open set, settings | open, change, close, watched files, configuration | all of the above |
| diagnostics publication, `diagnostics_scheduler.rs`, `lsp_output.rs`, `bin/` | revision per document, registry of delivered digests | tiered, deferred and clear arms; delayed writers; deferred worker | stdout lock, client |
| deferred diagnostics channels, `bin/` | two bounded channels (256) | blocking send, receive, complete, drain once per turn, join | loop and diagnostics worker |
| query dispatch and cancellation, `message_loop.rs`, `state.rs` | registry of requests in flight, token per request, store of late cancels | register, cancel, complete, take_cancelled | two query workers (interactive, heavy), stdout |
| reverse-dependency memo, `diagnostics_scheduler.rs` | edges with the epoch they are good for | refresh through the completion channel | fan-out, demand of a SIF delta |
| disk cache, `disk_cache.rs`, `cache_*.rs` | one shard per target and address, temporary files, failure count | verify and load, discard, store behind the answer, sweep to the cap | other servers, through the file system |
| edit transaction, `cli:workspace_edit_transaction.rs` | lock, staged, backup and journal files beside the destinations | lock, compare, stage, compare again, rename, clean up, roll back | other processes and editors, through the file system |
| watch daemon, `cli:daemon.rs` | endpoint file, resident session and its snapshot revision, client's link | find, spawn, adopt, replace sources, read, fall back, idle out | watch clients by socket, everybody by endpoint file |
| engines around the server | | `omena-reactive` and `omena-incremental` graphs, `omena-tsgo-client` process pool | |

What is hard here:

- **Stale results.** Every worker computes from a snapshot while the loop goes
  on changing what it was taken from. Three different devices keep stale
  results out: generations (republish), ledger stamps (SIF) and revisions
  (index and publication).
- **Lost obligations.** Discarding a stale result is only half of it: the work
  must be owed again, with its age, or nobody does it.
- **Order of writing.** Writers of one document race for a lock; the winner
  must be the publication scheduled last, and eliding unchanged payloads must
  not leave the client on an older one.
- **Cancellation.** Ids are reused, cancels come early, late and twice, and
  completion races with them on one atomic.
- **Bounded channels and shutdown.** Blocking sends in both directions, and
  joins in a fixed order.
- **Crashes between file system calls.** A transaction or a cache write is a
  dozen calls, any of which may fail or be the last; what is left must say
  enough to be undone, or mean nothing to the next reader.
- **Files as registers.** Lock files, the endpoint file and the cache's shards
  are removed by path, by processes that may be looking at an older file of
  that name.
- **Cached answers.** A shard verifies against a read set; what the read set
  leaves out may change unseen.

What makes each part correct is stated by the properties of section 4; the
hazards, at their lines, are in `PROJECT.json`.

## 2. Modules

| module | what it is |
|---|---|
| `TideLane` | the demand lattice and the lane record: pure operators shared by the two modules below |
| `LaneWindow` | one lane as a state machine under arbitrary depositors, gates, reopens and late executors, with the history its properties compare against |
| `LaneWindow_proofs` | its inductive invariant and theorems |
| `EpochLedger` | epochs, marks and stamps |
| `TideLoop` | the loop, both lanes, the ledger, index, SIF and republish workers, and the messages; composes `TideLane` and `EpochLedger` |
| `TideLoop_proofs` | its inductive invariant and theorems |
| `LatestWins` | abstract: what publication promises for one document |
| `PublishOrder` | publication of one document: revisions, arms, threads, lock, digest registry; implements `LatestWins` |
| `PublishOrder_proofs` | its inductive invariant and the refinement of `LatestWins` |
| `DiagnosticsChannels`, `DiagnosticsChannels_proofs` | the bounded channels between loop and diagnostics worker, and when they cannot block each other |
| `RequestLifecycle`, `RequestLifecycle_proofs` | requests, cancels, tokens, query lanes, panics and shutdown |
| `AtomicEdits` | abstract: a transaction replaces all of its destinations in one step, on what it compared, or none |
| `EditTransaction` | `commit` call by call, for processes that are killed, calls that fail and editors that save; implements `AtomicEdits` |
| `EditTransaction_proofs` | its inductive invariant, its theorems and the refinement of `AtomicEdits` |
| `WatchDaemon`, `WatchDaemon_proofs` | watch clients, the endpoint file, daemons and their sessions, and what a revision says of the sources |
| `DiskCache`, `DiskCache_proofs` | the cache directory as several servers use it, what a hit rests on for every import graph, and how sweeps keep the cap |
| `MCLaneWindow`, `MCTideLoop`, `MCTideLoopSmall`, `MCEditTransaction`, `MCWatchDaemon`, `MCDiskCache` | instances for TLC |

`LatestWins` and `AtomicEdits` are the abstract specifications. Composition is
by `EXTENDS` where the code calls (`TideLoop` over the lane and the ledger) and
by refinement where a part stands for another (`TideLoop` publishes
latest-wins, which `PublishOrder` implements).

Operators named `X_Something` next to an operator `X` (`Reopen_SlotKept` next
to `Reopen`) are deliberately wrong variants: each breaks one rule of the code, and the property it is listed with
in `PROJECT.json` must then fail. Nothing else uses them.

## 3. How the models correspond to the code

**Lane.** A lane record has the fields of `TideLane`; a demand is `{}`, a set
of stylesheets (a cone), or `Top` (`All`), the unit demand of the SIF lane
being `Top` alone. `Deposit`, `TryFlushAt`, `Reopen` and `Completed` are
the four methods with their early returns. In `LaneWindow` the environment
calls them in any order, and a disowned executor may report at any time; the
history variables record every deposit not yet discharged, which the lane
itself does not keep.

**Loop.** `step` says where a turn is: drain index results, drain SIF results,
dispatch SIF, pump the wave, dispatch a tide, take one message or none, and
dispatch SIF again after a message. This is the order of
`run_stdio_server`. A turn is not atomic: workers run between its
steps, and channels that the loop drains by `try_recv` may gain a result
between two looks. Data is versions: `inputs[f]` is the version of what the SIF
resolution would read for stylesheet `f`, `facts[f]` the version in the applied
set, `Render(x)` what a publication of `x` would be computed from. The reverse
dependencies are a constant relation; where the code may or may not have a
current memo, the model takes either branch. Messages: `EditText` (the bridge
sources stay), `EditBridge` (they move), `CloseStyle`, `CloseSource`,
`ChangeOnDisk` and `DeleteOnDisk` (watched stylesheets), `ChangeDiagnosticSettings`,
`ChangeResolutionSettings`, `ChangeConfigDocument` (watched manifests and
lockfiles) and `StartIndex`. `disk[f]` is the text on disk; a change there and its
event are one step, since a worker that reads in between reads what it could have
read just after. Any set of the stylesheets is on disk at the start. Version 0 of
`inputs` stands for a stylesheet without bridge sources, the only kind that can come
or go without a bridge-source delta (`Unbridged`).
`published[x]` is the rendering the last publication of `x` was scheduled with:
that the client ends up with that one and no older one is what `PublishOrder`
establishes, so the writers need not appear here as well.

**Publication.** A message handler leaves a `script` of outputs for the document; the loop
schedules them one at a time (`ScheduleOutput` takes the revision before the
lock, as the code does) and writes the immediate ones. A delayed thread and the
diagnostics worker pass the stages asleep, waiting, writing, with a revision
check between each and the last under the lock. `ShouldDeliver` and `Deliver`
are the registry's two methods; a payload stands for its digest.

**Channels.** Occupancies only. The loop sends the dispatches of its pump
phase, drains completions until the channel is empty, sends the dispatches of
one message, and starts again; shutdown joins the worker before the last drain.

**Requests.** A request instance has the registry's generation; ids are the
client's and are reused freely. `Decide`, `RemoveEntry` and `Respond` are three
steps because the token, the registry and stdout are three separate
synchronisations. The store of late cancels is `omena-incremental`'s.

**Edit transaction.** One action for each file system call another process can
observe, in the order of `commit`: the locks one by one over the sorted
destinations, the comparison of each expected path, each staged file (with the
sample of `exists()` that decides whether there will be a backup), the second
comparison, the journal, then for each edit backup and rename, and the clean-up;
or, from the first failure, the rollback in reverse order and the guard's drop.
`pc` says which loop the process is in and `k` which file it is at. `existed`,
`ready` and `moved` are the flags of a staged edit. `windows` picks
which of the two `prepare_rollback_backup` was built. Each call may fail
(`Trouble`), leaving what such a call can leave: a file it created, a torn
backup or journal. `Crash` runs no destructor, and nothing cleans up after it,
as in the code. `Save` is an editor that takes no lock. A digest is modelled by
the content it is taken of, and a transaction writes its own name.

**Watch daemon.** The workspace is one number, the version of its sources, and a
payload the version it was computed from. A client's `pc` follows
`open_watch_daemon` (find, connect, remove the endpoint, spawn, await, greet)
and then the watch loop (ask, read, poll, replace, compute directly). A daemon
is unborn, starting, serving, leaving or gone; its session has sources and a
revision, and a request names the revision it is about. `check` asks the
session's workspace; `lint` and `format` read the disk, as the code does.
A timed-out read leaves its answer on the wire.

**Disk cache.** A shard records what it was computed from: the build, the paths
there are (the environment fingerprint), the content of each file of the read
set, and its diagnostics, which are modelled by everything they depend on (`Fresh`: the
forward closure, specifiers in it that lead nowhere, and users). `Resolve` takes
a surface, which the load and the compute then use whatever is edited meanwhile; `Write`,
`Rename`, `List` and each `Evict` are separate because servers interleave there.
The closure is defined as the least closed set, so that the proofs need no
induction. `surface` is per server: editors have unsaved buffers.

## 4. Runs

On two workers `tide_loop`, `disk_cache` and `watch_daemon` take two to three
minutes each, `requests` and `edit_transaction` up to two, the others up to
half a minute.

| run | instance | what it shows |
|---|---|---|
| `lane_window` | 2 stylesheets, ages up to 4 with bound 2, 5 generations, 2 executors at once | at most one executor owns a window (`OneTidePerWindow`); an occupied slot has an executor still to report (`NoOrphanedSlot`); age is that of the oldest deposit owed, through any flushes and reopens (`AgeIsExact`); one alarm per window (`AlarmOncePerWindow`); only the owner discharges, and only its own demand (`CoverageNeverShrinks`) |
| `tide_loop` | 2 stylesheets, any of them on disk, the facts of one reaching everything, 1 source, 2 messages, chunk 1, fairness | a SIF job whose stamp is stale has a demand behind it (`StaleSifRearms`); facts are current whenever the frontier is open (`SettledFactsAreFresh`); slots are held exactly while a wave or job runs (`SlotsAreHeld`); nothing published by a wave was computed from settings or facts that are gone (`PublishesSettledState`); indexing leaves nothing out that is on disk (`IndexIsComplete`); a server at rest has published no stale diagnostics of a document it has (`ConvergedWhenQuiet`); once the client is silent the server comes to rest (`Settles`) |
| `tide_stale_edit` | 1 stylesheet, 1 source, 3 messages | **violation** of `NewerEditStays`, see 7 |
| `tide_manifest` | same, 2 messages | **violation** of `AcceptedSifReadCurrentInputs`, see 7 |
| `publish_order` | 3 payloads, one of them empty, 3 publications, fairness | the digest registry says what the client shows (`RegistryTracksClient`); the whole pipeline implements `LatestWins` (`PublishesLatestOnly`), and with that a client to whom nothing is owed shows the latest final payload; the latest publication is shown in the end (`LatestIsShown`) |
| `diagnostics_channels` | capacity 4, bursts 2 and 2, fairness | loop and worker never wait for each other (`NoCircularWait`); every turn goes on and shutdown joins (`NobodyIsStuck`) |
| `diagnostics_burst` | capacity 2, a message with 6 dispatches | **violation** of `NoCircularWait`, see 7 |
| `requests` | 2 ids, 3 requests, one cancel each, lanes and late store of size 1, fairness | a request a cancel found undecided is never answered with a payload (`CancelledGetsNoPayload`); no cancel fells two requests (`CancelSpentOnce`); the registry holds no finished token (`NoTokenLeaks`); shutdown drops no answer (`ExitDropsNothing`); every request is answered (`EveryRequestAnswered`) |
| `edit_transaction` | 2 files, one of them missing at first; 2 processes that want both in opposite orders, or that overlap in one; 2 troubles out of failing calls, kills and saves; both builds | whoever works on the files owns the lock of each (`OwnsDestinations`); what stands beside the files is there while it is needed, and gone after a success (`SidecarsAreTrue`); two transactions never refuse each other (`SomeoneProceeds`); a replacement lands on the content that was compared (`PublishesVerified`); the transaction implements `AtomicEdits` (`AllOrNothing`) |
| `watch_daemon` | 2 clients (a check, and a check or a lint), 2 daemons to spawn, 2 versions, 1 trouble, fairness | what a session answers is about the sources of the client that asked (`SessionsAnswerForTheirClients`); every watcher ends up with the last version (`ShowsLatest`) |
| `disk_cache` | 2 servers, 2 builds, 3 files whose imports form chains, cycles and users, cap 1, 1 edit, 2 troubles | no crash leaves half a shard (`NoHalfShards`); a directory at rest is within its cap, but for the failures named there (`QuietStoreIsBounded`); a hit rests on the same closure, the same dangling specifiers, no lost user and the same build (`HitsStillStand`) |
| `cache_fresh` | same, 1 trouble | **violation** of `HitsAreFresh`, see 7 |

Each module has one `TypeOK`, checked with the others.

`AllOrNothing` is about the workspace *read through its journals*
(`Honoured`): a file that an undecided transaction has displaced counts as its
original, which `OriginalsRecoverable` says is in the backup the journal names.
The step in which the last destination is replaced is the abstract `Apply`. A file an
editor saves while a transaction is at work on it is unsettled, and so are the
destinations of a rollback that failed and said so; the abstraction promises
nothing about them. Without a trouble of that kind it promises everything.

**Bounds.** Named in the modules or the MC modules: `MaxMessages`,
`MaxPublications`, `MaxRequests`, `MaxCancels`, `MaxTick`, `MaxGeneration`,
`MaxTides`, `MaxTroubles`, `MaxVersion`, `MaxEdits`. Two messages in `tide_loop` are enough for every device: one starts
a job or wave, the second invalidates it while it runs, and the loop's own
re-arming produces further jobs and waves beyond the bound. Two stylesheets are needed
because a cone and `All` differ only then, and a source because sources are
refreshed only when a tide completes. Three publications give an elided
baseline, the publication it was elided against, and one that supersedes
either. Three requests over two ids give one reused id with both uses in flight
and a third request to fill a lane. Capacities shrink from 256 and 128 to what makes the
limit reachable. `lane_window` bounds the clock and the generation, which are
unbounded in the module and in its proofs. The theorems of section 5 hold for
every value of the constants, so for invariants and action properties the bounds only
decide what TLC finds before a proof is tried; they matter for liveness.

`MaxTroubles = 2` in `edit_transaction` allows a failure in the middle of the
publication and another one in its rollback, or a kill of one process after a
failure of the other, which are the cases the code distinguishes; two files in
opposite orders are what a deadlock needs. In `watch_daemon` the second version
gives one replacement after the session was opened, and one trouble any
one timeout, failed operation or kill; idle exits are not counted, so daemons
come and go beyond it. In `disk_cache` one edit in either server's buffers makes
them differ, a cap of one makes every second target a sweep, and a trouble is
one failing call, restart or damaged shard. Two of them are needed: with one
failed removal a sweep still has a shard left to take, and only two failures
leave the directory over its cap. The servers and the builds are symmetric
(`Alike`), which is sound there since the run checks no liveness.

**Deadlock** is checked for the lane, the loop and the disk cache, which never
stop. It is switched off where the system ends: publications or requests used
up, the server shut down, transactions done, or a workspace nobody edits any
more. In `publish_order`, `requests`, `diagnostics_channels` and `watch_daemon`
the liveness properties do its work; in `edit_transaction` a process waits for nobody.

**Fairness.** `TideLoop`: weak for the loop's turn and for the threads taken
together, since threads run and the code has no lock they could starve on; strong
for dispatching a tide with the idle gate open, because a client pauses
again and again, and where it does not, aging opens the gate by itself
(`TIDE_REPUBLISH_LANE_CONFIG`). Nothing is assumed of the client.
`PublishOrder`: weak for the loop and each kind of writer step; a panic is never
forced. `DiagnosticsChannels`: weak for loop and worker as wholes, so a blocked
send is not fair game. `RequestLifecycle`: weak for the workers and for a send
in progress; a client need not send or close. `WatchDaemon`: weak for each
client's own steps and for a daemon that starts, serves or leaves, which are threads of
living processes; nobody has to edit, idle out, fail or be killed.
`EditTransaction` and `DiskCache` state none and claim no liveness.

## 5. Proofs

Every invariant and every action property of the passing runs is a theorem, and
so are the refinements of `LatestWins` and `AtomicEdits`. Each proof module has the
same plan: an inductive invariant made of named parts, lemmas for the operators
and the records, one lemma per action, and short theorems that read the
properties off the invariant. TLC checked each invariant on the instance of section 4
before it was proved. What is assumed are the `ASSUME`s of the modules, which TLC evaluates
on every run: shapes of constants, and what the code establishes before the modelled
part begins. `EditAssumption` says that `validate_shape` has accepted the plans
(some edit, no destination twice, every destination also expected), `LoopAssumption` that
there are finitely many stylesheets and their reverse dependencies are reflexive and transitive, `WatchAssumption` that a
client runs one of the three watch commands, `CacheAssumption` that no file imports itself.

`LaneWindow_proofs`, for every set `Files`, every `Whole` outside it and every
`AgingBound \in Nat`:

- `JoinIsSemilattice`: the demand join is commutative, associative, idempotent,
  with bottom and an absorbing top.
- `LaneInvariant`: `Spec => []IInv`. The five invariants the run checks are not
  inductive by themselves. `IInv` adds that demand and age come and go together,
  in the window and in the slot (`DemandHasAge`); that the age frozen into the
  slot is that of its own oldest deposit (`CarriedAgeIsExact`), without which a
  reopen could not restore it; that recorded ticks are past (`TicksArePast`);
  and that a disowned executor is always of an older generation
  (`DisownedIsOlder`), without which its late report could clear the slot of
  its successor. One lemma per action; the reopen, where two windows merge, is
  the long one.
- `LaneTypes`, `OneOwner`, `SlotHasExecutor`, `AgeSurvivesReopen`,
  `AlarmsAreBounded` for the invariants, and `CoverageIsKept` for the action
  property `CoverageNeverShrinks`, all from `IInv`.

`DiagnosticsChannels_proofs`, for every capacity:

- `ChannelInvariant`: after a drain only the work channel and the work in hand
  are outstanding, and until the next drain a turn adds at most one message
  burst and one pump burst: outstanding plus unsent works stay within
  `Capacity + 1 + MessageBurst`, in the pump phase plus `PumpBurst`
  (`WindowBound`).
- `ChannelTypes`; and `LoopNeverWaitsForItself`: if
  `PumpBurst + MessageBurst <= Capacity`, loop and worker never block on each
  other. The assumption is the theorem's, since the code does not establish
  it: `diagnostics_burst` shows what happens without it.

`RequestLifecycle_proofs`, for any ids, any number of requests and cancels and
lanes and a late store of any size:

- `RequestInvariant`. `NoTokenLeaks` and `CancelledGetsNoPayload` need to know
  that the registry files an instance under the id it came with
  (`FiledUnderItsId`); that a request still undecided and not shadowed by a
  later one of the same id is the one a cancel finds (`PendingIsFound`); that a
  worker decides the token, then forgets the entry, then answers
  (`DecidedFirst`, `ForgottenFirst`), an order without which a reused id could
  lose its entry to its predecessor; and that what is held for the client of a
  cancelled request is no payload (`AimedIsCancelled`). `LateIsBounded`, about the
  store of late cancels, is carried separately since the others do not use it.
- `RequestTypes`, `TokensDoNotLeak`, `CancelledIsSuppressed`.
- `CancelsAreSpentOnce`. Counting answers is not inductive: a request is lost to a
  cancel before it is answered. `Felled` counts it from the step that marks its
  token or takes its cancel from the store of late ones, and `CancelsCover` says that the
  felled requests of an id, and one more if a cancel for it is still in the store,
  are never more than the cancels sent.
- `ExitIsComplete`. Until it is answered a request is in exactly one place: the
  loop's hand, a lane's queue or a worker (`UnansweredIsUnderWay`, `OnePlace`); what no
  worker has resolved nobody else has decided, so the worker always
  has a response to give (`UnresolvedIsUndecided`, `ResponsesAreSaid`); and the loop
  joins only workers whose queues are closed and empty (`ClosedInOrder`).

`PublishOrder_proofs`, for any payloads and any number of publications:

- `PublicationInvariant`: a script is a publication whole, the output that
  follows a baseline, or nothing (`ScriptIsOrderly`, `HoldingIsLatest`); at most
  one party answers for the latest revision and nobody does while the loop is
  midway or after a panic (`OneAnswers`); it answers with the latest final
  payload (`AnswersWithLatest`); one writer at most is past the check under the
  lock (`OneWrites`). Older revisions need no invariant: the checks discard
  them. `DigestAssumption` says that no payload is the absent digest.
- `PublicationTypes`, `RegistryIsTrue`, and `ImplementsLatestWins`: the initial state
  maps to the initial state and every step to a step of `LatestWins` or to a
  stutter. The step that shows a final payload is the passing of the check under
  the lock, not the write: an output scheduled between the two is newer although
  the older payload is still to be written, and it waits for the lock. Eliding a
  write is a stutter because the registry tells the truth about the client.

`DiskCache_proofs`, for any servers, builds, files, contents and import graphs,
and without any bound on edits and troubles:

- `VerifiedShardStands`, the lemma everything rests on: if the read set of a
  shard verifies against a surface with the same paths, then the forward
  closure, its contents, and the specifiers in it that lead nowhere are the
  same in both. With the closure as the least closed set this is an argument in two directions
  about closed sets, with no induction over paths.
- `CacheInvariant`: a whole shard is what some build writes for some surface
  (`ShardsAreWritten`), and a resolve is against a surface there has been
  (`JobsAreResolves`). `ShardsAreWhole` and the action property `HitsStand`
  follow.
- `StoreInvariant` and `CapIsKept`: while the directory is over its cap and nothing
  has gone wrong, some sweep covers the excess (`Covers`). It has the listing
  still to do; or all but a cap's worth of the shards are among the files it has left to try,
  and its count is no less than those shards and these files taken together, so it cannot stop
  early. Removals by other sweeps only help, although they make its count too large.
  `CacheTypeOK` follows with it.

`TideLoop_proofs`, for any stylesheets and sources, any reverse dependencies
closed as above, any chunk size and any number of messages:

- `LoopInvariant`, with a part per hand-over. `SifPart`: the job in the slot
  read the inputs in force unless a refresh is owed (`JobReadInputs`), which is what
  discarding by stamp has to preserve. `IndexPart`: the job or result of the latest
  revision holds every file on disk that is not admitted, so superseded ones may be
  dropped. `SlotPart`: a wave and what the loop holds of it are of one generation, and
  that is the lane's unless the window was reopened. `CarriesCurrent`: a tide that
  still owns the slot carries what the loop would render now, because whatever changes
  facts or settings reopens the window. `ConvergencePart`: a publication that shows a
  stale fact or setting is owed (`StaleIsOwed`) by the window, by the tide in flight that
  still holds the document, or by a SIF refresh that will see the change.
- The lane is used through five lemmas (`JoinCovers`, `DepositLane`, `FlushLane`,
  `ReopenLane`, `CompletedLane`).
- `LoopTypeOK`, `LoopStaleSifRearms`, `LoopSettledFactsAreFresh`, `LoopSlotsAreHeld`,
  `LoopIndexIsComplete`, `LoopConvergedWhenQuiet`, and `LoopPublishesSettledState` for the
  action property.

`EditTransaction_proofs`, for any number of processes, files and troubles and any plans:

- `TransactionInvariant`: a part per transaction (`Local`), which reads its own
  memory, its sidecars and the files it has locked, and a part for what they share
  (`Shared`). `Contained` is the centre: a file that is locked and that no editor has touched
  holds what was compared, or its backup does and the journal is whole; what
  an editor touched before the second comparison is trusted again after it
  (`Trusted`). A step of one transaction keeps the parts of the others because it
  writes only to files it has locked.
- `DestinationsAreOwned`, `SidecarsTellTheTruth`, `RenamesReplaceVerified`,
  `TransactionTypeOK`.
- `NotAllAreRefused`: since locks are taken in the order of the files, among those
  not refused there is one that holds a lock at or beyond every place where somebody
  was refused (`SomeoneLeads`); without the order this fails, which is the mutant.
- `TransactionIsAtomic`: the refinement of `AtomicEdits`. The rename of the last destination maps
  to `Apply`, a rollback that failed and an editor's save to the steps that leave
  files unsettled, everything else to a stutter: a displaced file is read from its
  backup, and `Contained` says the backup is there.

`WatchDaemon_proofs`, for any clients, daemons, versions and troubles:

- `WatchInvariant`: the revision of a session counts the replacements that changed
  its sources, so a snapshot that is still the revision names the sources
  of whoever holds it (`Names`, `Knows`), whatever other clients replace in
  between. With it go what is on the wire while a client waits (`Replacing`,
  `Reading`, `Quiet`), that a session with a client is open (`Linked`), without which a
  handshake could give it other sources, and that each answer left on the wire was a
  trouble (`Counted`). All of it but `Linked` and `Counted` exempts a client that has
  abandoned an answer, as the property does.
- `WatchTypeOK`, `SessionsAnswer`.

Only model-checked: liveness (`Settles`, `LatestIsShown`, `NobodyIsStuck`,
`EveryRequestAnswered`, `ShowsLatest`), since `ENABLED` and fairness are outside the
prover's reach, as are induction over data and recursive operators.
`NoCircularWait` is proved under an assumption on the bursts that
the code does not establish, as said above.

## 6. What is not modelled, and the plan

Left out of the modelled parts: removing workspace folders in `TideLoop`; a panic of the index or SIF worker;
the texts of diagnostics and responses; tracing and counters. In the disk
cache, the oracle mode, the byte cap and the size limit of a shard (one cap on
the number of shards stands for the caps, and `Skip` for the limit), entries of the
listing whose metadata cannot be read, and the
roots and markers of `cache_root.rs` and `cache_maintenance.rs`; processes are
assumed to have distinct ids, since their temporary files are named by them. In the
daemon, cancellation, shutdown requests and transport limits, which only other clients of
the protocol use. There is no recovery of crashed transactions in the code, so there is none
in the model.

The reverse-dependency memo of `diagnostics_scheduler.rs` is not modelled:
`TideLoop` takes the dependents as a constant relation. Reading it showed one thing a
model would have to be about: its freshness is measured against the ledger's
`DocumentText` mark (`external_sif_loader.rs:499`), and only tests advance that mark, although
`tide/ledger.rs` says that didOpen and didChange do. After an edit that adds an
import the old edges therefore still count as fresh.

Out of scope: the parser, resolver, cascade, checker and transform crates are
sequential functions of a snapshot, the bindings and the TypeScript hosts call
them synchronously, and the documentation site and scripts have no behaviour
worth a model. They are most of the repository's lines, generated tables
included; the models cover the concurrent code, which is a small part of them.

The plan, most important first:

1. *Done*: `TideLane`, `LaneWindow`, `EpochLedger`, `TideLoop`, `PublishOrder`
   with `LatestWins`, `DiagnosticsChannels`, `RequestLifecycle`.
2. *Done*: `EditTransaction` with `AtomicEdits`, `WatchDaemon`, `DiskCache`;
   `LaneWindow_proofs`, `DiagnosticsChannels_proofs`, `RequestLifecycle_proofs`, `PublishOrder_proofs`,
   `DiskCache_proofs`.
3. *Done*: `TideLoop_proofs`, `EditTransaction_proofs` with the refinement,
   `WatchDaemon_proofs`, and the rest of `RequestLifecycle_proofs` and
   `DiskCache_proofs`. Left: the ledger's stamp as a theorem of its own (a stamp that is current saw
   every input of its footprint).
4. `TideLoop` completed with removed workspace folders and a dying worker.
5. Reverse-dependency memo: its epoch against its edges, with results applied
   out of order; properties about the cone a SIF delta demands.
6. `omena-reactive` and `omena-incremental`: recomputation against a reference
   evaluation over bounded graphs. `omena-tsgo-client`: correlation, timeouts
   and restarts of the external process.

## 7. Disagreements between the code and its documentation

- `tide_stale_edit`: `src/ARCHITECTURE.md:176` says a stale worker cannot
  overwrite a newer edit. An edit that leaves the bridge sources alone reopens
  no window, so a queued wave item rendered from the older text still takes the
  next revision and replaces the newer text's diagnostics.
- `tide_manifest`: `tide/ledger.rs:18` says watched-file events over lockfiles
  advance a mark that covers the SIF job's read. They only deposit a demand; a
  job in flight is accepted although its inputs are gone, and the republish
  that follows shows the outdated facts until the next refresh repairs them.
- `diagnostics_burst`: `diagnostics_scheduler.rs:130` declares that the
  completion channel drains on the loop. One message whose fan-out is larger than both
  channels can hold (514 works) blocks the loop in its send while the worker
  is blocked on the completion channel only the loop drains. A watched manifest
  dispatches one work per stylesheet of the workspace.
- `cache_fresh`: `src/rust/crates/omena-cross-file-summary/src/lib.rs:639` says
  that a manifest-verified hit must be byte-identical to a fresh compute. The
  read set holds the users a target has at the time of the compute, and the
  environment fingerprint only the paths there are: an existing file that comes to
  use the target afterwards is in neither, so the old shard verifies and its
  unused-selector diagnostics are served. `HitsStillStand` says what remains true.

Seen while modelling, without a run of their own since no document promises
the contrary:

- Server loop. Nothing stales an index result whose file changes or goes
  after the worker read it: applied later, it puts the older text, or the document
  that is gone, back into the corpus, where it stays until the next event
  for the file (`StartIndex`, `IndexWorker`, `ChangeOnDisk`, `ApplyIndexResult`). A
  stylesheet deleted while a wave has an item of it gets that item's diagnostics
  after the empty list. `NewerEditStays` and `ConvergedWhenQuiet` are therefore about documents
  the client has open and documents the server has.
- Watch daemon. An answer that arrives after the read timeout is taken for the
  answer to the next request: no request id is compared (`cli:daemon.rs:457`).
  The properties exempt such a client (`abandoned`). `lint` and `format` read
  the disk and may be newer than the snapshot their request named.
  `cleanup_endpoint` removes by path and may remove another daemon's file.
  A reconnecting client's empty handshake can open the session of a daemon its
  starter has not greeted yet; the starter is then refused and kills its own daemon.
- Edit transaction. A staged file or journal whose writing failed is left
  behind. An error of the last clean-up is returned as a failure although every
  destination is replaced (`unsure` in `AtomicEdits`). A killed process leaves its lock
  files, and later transactions on these files are refused. Paths that are expected but
  not edited are compared and not locked. An editor's save after the second
  comparison is overwritten; a file deleted and put back around the sample of
  `exists()` is not backed up, and a rollback deletes it. All of these are in the model,
  and the properties name them as exceptions.
- Disk cache. A write that found its shard there does not sweep although a sweep
  has removed it since; concurrent sweeps count from their own listings and may
  remove more than they need; temporary files of a killed server are never
  removed. A removal that fails is not counted and not tried again, so a sweep in which
  more of them fail than the cap has shards leaves the directory over it, until a
  later write that creates its file sweeps again (`overdue`).
