# A verification model of the PCI planning and optimization rApp

The rApp reads performance files of a radio network, finds cells whose physical
cell identities (PCIs) collide, confuse or interfere, proposes new ones, and on
an operator's approval writes them to the cells through SDN-R. This directory
holds TLA+ models of its core and of the server around it, the TLC runs that
check them, and theorems about them checked by TLAPS.

Paths such as `api/state.py` are below `src/src/pci_planning_and_optimization/`.

## The system

```
 VES/Kafka ─> KafkaConsumer ─> SFTPClient ─> XMLParser ─> PmStore
                                                            │ to_network
 dashboard <─ DashboardData (overlay) <─────────────── NetworkCache <── config_put
   │   │           │  ▲                                     │
   │   │ commit    │  └── pending commits, site overrides   │ same objects
   │   ▼           ▼                                        ▼
   │  server.py ─> preflight/apply_change             trigger_optimization
   │                   │                                    │
   │            ResilientTransport (retry, breaker)   run_optimization ─> validate
   │                   │                                    │
   │                 SDN-R ──> cell                    run files
   └─ plans, uploads, history, sign-in, health
```

| Component | State it keeps | Operations | What is hard | What makes it correct |
|---|---|---|---|---|
| Commit overlay, `api/dashboard_compat.py` | pending commits, marker on each snapshot, audit trail | read a page, propose, commit, lay the overlay | worker threads share snapshot objects; a lock that does not cover the marker; a commit waits for SDN-R in the middle | only acknowledged changes are shown; each ends confirmed or alarmed; alarms are true |
| Site data, `api/dashboard_compat.py` | uploads, site overrides | upload, delete, apply row by row | the same marker; the comparison is made without the lock | an uploaded value stays shown |
| Dashboard views, `api/services.py`, `api/dashboard_compat.py` | none | conflict list, KPIs, banner, cards, regions, pool sheet | the same pairs labelled and counted in five places | the views agree |
| Throughput history, `api/dashboard_compat.py` | series, file | record, chart | wall clock set forward and back, crashes | points in order, a step apart |
| SDN-R write path, `sdnr/`, `transport.py`, `resilience/retry.py` | attempt under way | preflight, PATCH, retry | answers lost, requests carried out after a time-out, mounts that come and go | "ok" means done, "not sent" means never |
| Circuit breaker, `resilience/circuitbreaker.py` | state, generation, counts, expiry | before and after each call | results of calls from an earlier state; concurrent probes | exact counts, bounded probes, proof before closing |
| Optimizer, `algorithm/coloring.py` | PCIs of the shared cells, usage counts, locks, changes | pass, try, verify, revert, keep | change first and verify after; budgets, locks and usage counts must agree | budgets hold, cost never rises, the list of changes is the difference, converged means at rest |
| Conflicts and scoring, `algorithm/conflict_graph.py`, `algorithm/scoring.py` | none | detect, sort key, soft cost | float sums over iteration order | key and cost agree about what is better |
| Correlation gate, validation, `correlation.py`, `validation/` | none | classify pairs, verdict, validate a list of changes | a neighbourhood worked out with code of its own | the gate goes by the listed conflicts; the validation finds the network the run left |
| Network cache, `api/state.py` | snapshot, refresh lock | get, forced and background refresh | refresh threads, failed fetches | one refresh at a time, never a snapshot lost |
| PM ingest, `osc/`, `sftp/`, `api/server.py` | latest file of each node, connection pool, consumer | poll, fetch, parse, add, prune | event loop against worker threads, at-most-once events, close during poll | the latest file of each node is what the network shows |
| Building a network, `osc/network_adapter.py`, `sftp/xml_parser.py`, `api/plan.py` | none | parse, merge, infer, export, sample | partial and contradictory files | a sound network, the same in any order, and back from a plan |
| Run files, `api/runs.py` | JSON files | write, failed record | exception or crash between recolouring and writing | what was changed is on record, once |
| Configuration, `config.py`, `api/server.py` | config file, config, writer, cache of the application | create_app, PUT /api/config | assignments one after another, failed writes, crashes | the application is of one piece |
| Authentication and rate limits, `api/auth.py`, `resilience/ratelimit.py` | sessions, failures, buckets | login, logout | a lockout window that does not slide | eight failures lock out; no bucket over its burst |
| Lifecycle, `main.py`, `health.py` | readiness, tasks, health cache | start, probe, check, stop | two handlers of one signal, a server that cannot listen, shutdown deadline, answers kept | ready only before stop, health no older than it may be |

Edge weights, InfluxDB output, logging, tracing, metrics and the web pages keep
no state these properties depend on. `PROJECT.json` lists every component with
its status, and under `hazards` each place where something hard to test can go
wrong.

## The modules

### CommitOverlay

`DashboardData` of `api/dashboard_compat.py`: `_live_network`,
`_reapply_overrides` and `_live_commit`.

* A worker thread is a program counter `pc`, the snapshot it holds `snap`, and
  the change it serves `req`. Snapshots are objects in `Slots`: `base` is what
  the feed said when one was built, `view` what it shows now, `marked` is
  `_APPLIED_MARKER`, `cur` the one the cache hands out.
* `ApplyOverrides` is the locked part of `_reapply_overrides`; the test of the
  marker before it (`StartRead`, `StartCommit`, `RecheckMarker`) and the
  setting after it (`SetMarker`) are steps of their own, because the lock does
  not cover them. A commit is `StartCommit`, the overlay of its snapshot,
  `SendPatch` with `Resend`, then `Acknowledged`, `RecordCommit`, `ClearMarker`,
  `RecheckMarker` and the overlay again; or it ends in `UnknownCell`, `Refused`,
  `AnswerLost` or `TimedOut`.
* Around the handlers: `Report` and `Vanish` change the feed, `Refresh` swaps a
  new snapshot in (a fetch that fails keeps the network object and its marker
  and is no step), `Recolor` is the optimizer writing into the shared cells,
  `Tick` is time, `LateEffect` is SDN-R carrying out a change whose sender has
  given up. SDN-R is external; a mount is taken to carry out its requests in
  the order it got them, so `SendPatch`, which stands for the taking effect,
  overtakes no earlier request of the cell.
* `committed_at` is an age in steps up to `Window + 1`. `acked` and `alarmed`
  are what the properties need of the audit trail.

### SiteBook

The second overlay, of site data uploaded as spreadsheets, under the same
marker. A sheet is a sequence of rows; `Upload` refuses it whole if one row is
not valid. A request takes a snapshot, lays the overrides (`Lay`, `Mark`), and,
if it applies an upload, goes through it row by row: `Compare` without the lock,
`Store` under it, `SetCell` on the cell of the snapshot in hand, which may be
one the cache has replaced. `Report` is the feed, `Refresh` a fetch that
succeeds; one that fails keeps the snapshot and its marker. `wanted` is the
value last stored for a field.

### ChangeWrite and SdnrWrite

`ChangeWrite` is the promise of `preflight` and `apply_change` to a commit
handler, in three sentences: "ok" means that the cell has carried the change
out, "notsent" that it has not and never will, anything else says nothing.

`SdnrWrite` is the code: the three calls of a write, each sent up to
`MaxAttempts` times by `do_sync_with_retry_check`, the errors an attempt can end
with, which of them `http_is_retryable` takes for worth a retry, and which reach
the handler as exceptions. SDN-R is a queue of PATCHes per mount that may be
carried out, lost, or left waiting while the mount is down. An error proves
that SDN-R has not taken the request only when it says so (refused, declined).
Every commit makes a client and so a breaker of its own, and three calls never
reach the breaker's five requests: it is left out.

`SdnrWrite` is shown to implement `ChangeWrite`, with
`carried <- the writers one of whose PATCHes the cell has carried out`.

### CircuitBreaker

`_before_call` and `_after_call` run under the breaker's lock and are one step
each (`Admit`; `Discard`, `Succeed`, `Fail`); `Look` is the health check's
`state()`. Every one of them first brings the breaker up to date as
`_current_state` does. Generations are compared only for equality with the
current one, so a call is `current` or `stale`; an unbounded counter is not
needed. Time is what is left until the expiry.

### PciScoring, Coloring and ConflictViews

`PciScoring` has the conflicts, the sort key and the soft cost of an assignment
of PCIs, as pure operators. Sums of weights are cardinalities of sets of units,
so no recursion is needed. `Coloring` is a run: `StartPass`, then for each cell
`Skip` or `Try`, then `Revert` or `Keep`, then `Stop` or `Continue`, and the two
ends `BudgetExhausted` and `OutOfPasses`. Trying and verifying are separate
steps, since the cell is an object others can see. Within a tier the code sorts
by load and handover failures; the model takes any order, so what it shows
holds whatever these figures are.

Weights are whole numbers; the code's are floats whose sums depend on the order
of addition, which the model does not show.

`ConflictViews` is what the program reports of an assignment. Each pair of cells
in conflict gets the label of its worst class, in five places with an order of
their own (`GSquared`, `ReportRows`, `AllRows`, `PlanEdges`, `DashboardType`);
KPIs, cell cards, region health, the banner (`Pulse`) and the pool sheet count
them. The last three count one page of the list, `ListPages`: never more than
`PageSize` rows, the most severe first. Which of several equally severe rows are
cut off is left open, so what is shown holds of every such page. `Plan` compares
two assignments, `Recommended` replays a list of changes on a copy, and
`Validation` is what `validate` reports of it. `MCColoring` checks a run's own
list against both.

### ReplanGate

Two judgements that do not use the optimizer: the PCI the dashboard proposes
for one cell (`Proposal`, `_live_propose`) and the verdict of `hypothesis` on
whether conflicts explain failed handovers (`GateClass`, the two pools,
`Verdict`). The p-value is left open, within what the pools allow
(`PValues`). The module states how they and the views must relate to the
detectors' conflicts.

### NetworkInput

How a network comes to be. `ParsePlan` turns rows into cells and links, with
every reason `parse_plan` drops a row for; `PlanRaises` says when a PCI or a
channel of "nan" or "inf" ends it with an exception instead. `Export` writes
rows. `Objects`, `Counter` and `Made` are what `XMLParser` keeps of a file in
which an object occurs twice or carries a text for a number, `PmCells` and
`PmLinks` are `build_network_from_pm` with measured and inferred relations,
`Raises` says when it ends with an exception. `Sample` is `network_to_plan`.
Cells are records checked by the validators of `models.py` (`ValidCell`);
channels, duplex and cell type are kept, coordinates are one place or none.

### ConfigSwap

`create_app` with its lifespan (`Boot`), `PUT /api/config` and restarts. A PUT
is `PutOpen`, `PutDump`, `PutReplace` over the temporary file, or `PutFails`,
then `PutConfig`, `PutWriter`, `PutCache`, one assignment of `app.state` after
another; `Down` is a crash at any of these points. Of the parts the module has
which configuration each was made for, whether the writer is open and is the
one the cache uses, and whether the cache has the store of the ingest.

### RunFiles

`POST /api/optimize/run`: a run recolours (`Change`), a record is written
through a temporary file (`OpenTemp`, `Dump`, `Replace`), an exception anywhere
on the way ends in a failed record (`Raise`, `RecordFailure`), which may fail as
well (`FailAgain`), and the process may be killed (`Crash`). The failed record
has a new run id and is written in place. `write_run` removes its temporary file
when it raises and ignores it if it cannot, so `Raise` either removes the file
or leaves it, whole or cut. `Listed` is what the pages find: the temporary files
match the pattern too. `broken` are the runs that were cut short.

### PmFeed

From the queue of parsed files to the network that is served. The drain task
of `api/server.py` puts each file into `PmStore` (`DrainPut`) and prunes it
(`DrainScan`, `DrainDelete`); a request finds the snapshot stale and starts a
thread (`GetStale`), or waits for the lock (`GetBlocking`, `Acquire`); the
refresh counts, prunes, reads and publishes (`BeginFetch` to `Publish`), finds
that another has done so (`FindFresh`) or fails (`FetchFails`).

* The store is a plain dict used by the event loop and by refresh threads at
  once. The interpreter may switch threads anywhere, so every loop over the
  dict and every deletion is a step; a loop keeps the size it began with and
  raises when it finds another, a deletion raises when its entry is gone. In
  the drain task nothing catches that (`DrainDies`).
* A file is its number of arrival. `bad` are the files whose handover counters
  contradict each other, on which `build_network_from_pm` raises. An entry is
  `old` when it is over retention.
* The lock may also be `leaked`, when the thread it was taken for cannot be
  started (`SpawnFails`).

### VesConsumer

The Kafka consumer, the SFTP pool and the shutdown. All of it runs in one event
loop, so a step goes from one `await` to the next and `pc` is the await the
consumer is in. `TakePool` to `OpenChannel` are `_get_connection`, with
`_pool_lock` held; `Download`, `DownloadFails` and `Discard` the rest of
`fetch_file`; `CleanIdle` is the cleanup task, which may close a connection
while a download uses it. The per-connection lock is never contended, since the
only fetch is the consumer's own, and is left out.

A shutdown is `Stop`, which closes the Kafka consumer, then `CancelTasks`, then
the cancellation of what is left when `asyncio.run` closes the loop
(`CloseLoop`). Each cancellation is an exception at the await the consumer is
in. The pool's handlers are for `BaseException` and take it for a failed call,
so the task goes on; `Interrupt` says where from.

### Throttle, Series and Probes

`Throttle` is what one address meets when it signs in: the token bucket, the
lockout and the session. The login handler has no `await`, so a sign-in is one
step (`TooFast`, `LockedOut`, `SignInFails`, `SignIn`).

`Series` is one technology's throughput history: `Record` appends, prunes and
flushes; `Move` sets the wall clock; `Crash` and `Start` lose and reload the
memory. `Chart` is `_resample`, for each span the dashboard offers: `Width` is a
step or, for the spans of six hours and more, whatever leaves no more than
`Target` slots, and the points of a slot are drawn as their mean. The quotient
rounds towards zero.

`Probes` is the orchestrator from `Start` to `EndStop` and the health manager
under its lock (`FromCache`, `BeginCheck`, `Checker`, `EndCheck`,
`CancelCheck`). While uvicorn serves it handles SIGINT and SIGTERM itself, so it
is told to leave at the signal (`Signal`), which may be before `stop` has begun
or while it runs the cleanups; `AskServer` is `stop` telling it so at last. A
server that cannot listen ends in `SystemExit`, which cancels every task, `stop`
included (`ServerFails`); a cleanup may catch the cancellation, and otherwise
those not yet begun are dropped. Other tasks run only where `stop` awaits
something (`Yields`). The shipped program registers neither checkers nor
cleanups; the module has any of them.

### MCServer

One small instance of each module that stands beside the commit path, the
optimizer and the feed; the variable `part` says which of them a behaviour is
about, and the others idle. These parts meet through the snapshot only, and each
module has what the others do to it as actions of its own. Conflict views, plans
and PM files are functions of an input chosen by `Init`, so their properties are
about initial states.

This is `Server`; `MCServer` gives it values. Of its inputs `ServerAssumption`
says what the program has made sure of before the modelled code sees them: a
plan's rows and a file's results are sequences (`IsSequence`), and each result
that is kept has an id and one of two technologies (`FilesRead`, `_classify`).

## What the runs check

| Run | Bounds | Shows |
|---|---|---|
| `overlay_serial` | 1 cell, 2 PCIs, 1 thread, 2 snapshots, window 1 | `OverlayMatchesDevice`, `PendingShown`, `AlarmIsTrue`, `CommitResolved` |
| `overlay_threads` | 1 cell, 2 PCIs, 2 threads, 2 snapshots, optimizer pool of one, window 0 | `DisplayTraceable`, `OverlayWasAcked` |
| `overlay_recommit` | 1 thread | `ConfirmedByFeed` fails (finding) |
| `overlay_race` | 2 threads | `PendingShown` fails (finding) |
| `sdnr` | 2 writers of one cell, 3 attempts | `Promised` (refinement), `LastWriteStands`, `EveryWriteEnds` |
| `sdnr_empty` | 1 writer | `PreflightGuards` fails (finding) |
| `breaker` | 3 callers, 2 probes, 3 requests to trip, at most 6 counted | `AccountedFor`, `ProbesBounded`, `ClosesOnProof`, `HalfOpenDecides`, `OpenProbes` |
| `coloring_chain` | 5 cells in a chain, one of another carrier, 4 PCIs, all 256 starts that differ for the others, half of the cells a pass and 65 % a run, 3 passes | `WithinBudget`, `PassChangesApart`, `ListTellsAll`, `UsageExact`, `NeverCostsMore`, `ConvergedIsStable`, `ConvergedIsUnconfused`, `ValidatedAsRun`, `Terminates` |
| `feed` | 2 nodes, 2 files, 2 threads | `NeverBackwards`, `LockComesBack`, `EveryFileShown` |
| `consumer` | 2 hosts | `NoStrayConnection`, `DownloadEnds`, `FetchEnds`, `StopEnds` |
| `server` | see below | `ViewsAgree`, `ProposalIsClear`, `GateReadsConflicts`, `ImportsAgree`, `ConfigCoherent`, `RunsTell`, `Throttled`, `SeriesSpaced`, `ProbesTrue`, `SitesSettle` |
| `config_lost` | 2 configurations, one of them Kafka | `WaitingIsTrue` fails (finding) |

Why the bounds are enough. Overlay: the overlay treats cells one by one, and
everything that goes wrong between cells goes through the marker of a snapshot,
which a second commit of the same cell clears as well; two snapshots are the
one a thread keeps and the one swapped in; window 1 has a commit that is young,
one at the edge and one over it. SDN-R: two writers make one overtake the
other, three attempts are the code's. Breaker: two probes and three callers
have a probe refused and two of one generation end in either order. Chain: its
ends are more than two hops apart, so locks both meet and leave room; one
relation is a shadow one, PCIs 0, 3, 6 and 7 give collisions, mod-3 and mod-4
conflicts, and the cells around the one of another carrier can only be
confused; the run budget ends a run between passes and the pass budget ends a
pass between cells. The PCI of the other carrier's cell concerns no other cell
and starts as 0. Feed: two files are one that replaces another or two nodes
whose entries are pruned independently; two threads are one that refreshes and
one that waits. Consumer: a second host is what the first one's silence keeps
waiting; one fetch at a time is the code's.

The bounds of `server`, part by part:

| Part | Bounds | Why |
|---|---|---|
| views | 5 cells, PCIs 0, 1, 3, 6 and 30, moduli 3, 6 and 30 | a measured and an unmeasured relation, two cells that share a neighbour, one of unknown carrier, one with a pool of its own; every order of labels differs on some pair; a page of 3 rows, so that most lists are cut and some are not |
| plan | 1 to 3 rows of 13, good and bad | a cell named twice, neighbours that are missing, named one way or themselves, a PCI and a channel that is no number |
| pm | 2 nodes, up to 2 of 9 results in one of them | merged objects, invalid cells, texts and NaN, a cell in the files of two nodes, measured and inferred relations, contradictory counters |
| config | 3 configurations, 2 of them Kafka | a PUT over each kind, crashes at every step |
| runs | 3 run ids, at most 2 changes | a run that failed, its failed record under the second id, and a whole run beside them |
| site | 1 cell, 1 field, 2 threads, 2 uploads, 2 snapshots | the threads disagree about one value, on the same snapshot and across a swap; `Asked` is what the threads are asked for, and either upload may be deleted |
| sign-in | burst 2, 2 failures, window 2, time up to 4 | two windows one after the other, a bucket emptied and refilled |
| history | step 2, age 7, spans 4 and 12, 3 slots, time up to 8, clock set twice | forward and back again, points on the edges of a slot; the short span has slots of one step, the long one slots of two, with two points in one |
| process | 1 component, 2 cleanups, TTL 2, limit 1, grace 1, time up to 5 | an answer at the end of its TTL from a check that took its whole limit; a signal or a failing server before, between and after the cleanups |

The optimizer run and `server` switch TLC's deadlock check off because a run
ends and some parts come to rest or have no steps; the writes of `sdnr` end
too, but its mount goes on changing. `feed` switches it off because the arrivals
are bounded: when the last file is shown and the lock leaked, nothing is left to
do.

## Fairness

* `CommitOverlay`: handlers run to their end and time goes on (strongly fair,
  because a handler may be in between). Nothing is assumed of the feed, SDN-R,
  pages, the operator or the success of a refresh: a poisoned file, an empty
  store or a leaked lock (`PmFeed`) keeps the same marked network, and then no
  commit is reviewed again. `CommitResolved` therefore begins with `Renewed` and
  `Polled`: it is about a cache that is refreshed and pages that are polled
  again and again.
* `SdnrWrite`: the write goes on; an attempt ends at the latest by its
  time-out. Nothing is assumed of SDN-R.
* `CircuitBreaker`: calls end, time passes, and each caller tries again.
* `Coloring`: a run is one synchronous call.
* `PmFeed`: the drain task and threads that refresh go on, the snapshot goes
  stale, and pages are polled, so a stale snapshot is asked for and a first one
  waited for. The lock prefers nobody: some waiting thread gets it. Nothing is
  assumed of the feed.
* `VesConsumer`: polls and fetches that can go on do, time passes, the cleanup
  task wakes up, and a shutdown that has begun is finished. Nothing is assumed
  of the SFTP servers; where a property needs them to answer, it says so.
* `SiteBook`: threads go on. Nothing is assumed of pages, uploads or fetches;
  `SitesSettle` says what holds once the cache is renewed again and again, since
  nothing else mends a snapshot in which two threads left different values.

## What is proved

Theorems are in the `...Proofs` modules and hold for every value of the
constants that satisfies the named assumptions of the modules. All are proved
the same way: an inductive invariant `IInv`, one lemma for each part of it and
each action that can disturb it, and temporal logic for the last step.

* `CommitOverlayProofs`: `TypeOK`, `OverlayWasAcked`, `DisplayTraceable`, for
  any number of threads, snapshots and cells. The invariant adds `RequestInv`:
  a thread that waits for SDN-R holds a request, and one that is about to record
  holds a request that was acknowledged. Without it a thread could record what
  nobody acknowledged. For a single thread, `OverlayMatchesDevice` follows from
  `DeviceInv` (a cell has the PCI it was sent last: of the request at work, or
  else of its pending commit, unless an answer is outstanding). Without a run of
  the optimizer as well, `PendingShown` and `AlarmIsTrue` follow from
  `MarkerInv` (only the request at work touches a marker, and of its own
  snapshot only), `ShownInv` (between laying the overlay and the next record it
  stays laid) and `UnshownInv` (what is not laid when the overlay is applied is
  just recorded, or shows what the feed said). With two threads `PendingShown`
  is false, which is finding 2.
* `CircuitBreakerProofs`: `AccountedFor`, `ProbesBounded`, `ClosesOnProof`. The
  invariant also has `OpenIsQuiet`, which makes the counts start from nothing
  when the open state lapses. Cardinalities of the callers under way are
  followed by two lemmas, one more and one fewer.
* `ColoringProofs`: every invariant of `Coloring`, for any network, weights,
  pools and budgets.
  * Budgets, locks and cost: `PassInv` is the bookkeeping of the run's and the
    pass's budget (strictly below both while a trial is verified); `LockInv`,
    that changes carry the number of the pass that made them, that everything
    within two hops of a change of this pass is locked, and that the cell on
    trial is not; `CostInv`, that taking the trial back leaves no more than the
    pass found. Two hops are symmetric by a lemma. Of the cost nothing is needed
    but that it is a number.
  * List and counts: both are stated of `Settled`, the assignment with the trial
    taken back, because the code changes the cell first and lists it last.
    `UsageInv` says that the counts are a recount of it; `OneMoves` is the
    arithmetic of one cell changing its PCI. `ListInv` says of each cell what
    the list tells of it: nothing if it is not listed, and otherwise the first
    entry has its first PCI, the last one its present PCI, and each entry ends
    where the next begins. First and last entries are existential, so that an
    entry more needs no induction over the list.
  * Rest: `NoChangeInv` says that a pass without a change has left the cells it
    has considered `AtRest`, so that at its end all of both tiers are
    (`RestInv`). Sort keys end in the PCI itself, so one key is the best
    (`OneBest`), and a pass that did not keep it has found it to cost more.
    A confused cell without co-channel neighbours has a key that differs in the
    count of holders only (`LoneKey`); an unused PCI of its pool would be better
    and free (`LoneMove`), which gives `ConvergedIsUnconfused`.
  * Report: replaying the list on the network the run found gives the network it
    left, since the last entry of a cell is its present PCI (`ListInv`), so the
    validation and the recommended plan look at that very network
    (`ValidatedAsRun`).
* `SdnrWriteProofs`: `TypeOK`, `Promised` and `LastWriteStands`. Each step maps
  to a step of `ChangeWrite` or to a stutter. `PhaseInv`: a write that has not
  come to its PATCH has nothing queued and nothing carried out, and one that
  still waits for an answer has no outcome. `FreshInv`: an attempt that has not
  been sent is nowhere. `LastInv`: nothing waits behind the PATCH sent last, and
  once it is carried out the queue is empty and the cell has its PCI.
* `ConflictProofs`: what is computed of an assignment, for every assignment of
  any network: `TheViewsAgree`, `TheProposalIsClear`, `TheGateReads`. Nothing
  here has steps, so there is no invariant but counting.
  * Views: the five orders give one label to each pair (`SameLabels`), because a
    pair in conflict modulo 6 or 30 is so modulo 3 as well (`CoarserToo`) and so
    never gets a coarser place later. This needs `ViewsAssumption`, the sets of
    moduli the code can be given. Cards and report lines
    count parts of the same finite set. Banner, regions and pool sheet count a
    page of it. `PageKeepsWorst`: the rows of a severity and of those above it
    are all on the page if they fit on one; so banner and regions agree with
    each other always, with the total up to the cut, and no collision or
    confusion is missing while there is room for them (`ThePageAgrees`).
  * Proposal: one of the least used candidates exists (`LeastUsedIsOne`) and is
    none of the PCIs beside the cell (`ProposalIsFree`).
  * Gate: what the detectors list is not clean for the gate
    (`ListedIsNotClean`), though it works out neighbours with code of its own;
    what it files under a conflict is listed, or is between two cells of unknown
    carrier (`UncleanIsListed`); and if no pair in conflict failed the ratio is
    not reached (`FailuresAreNeeded`). In `GateAssumption` the thresholds of
    samples are positive, as the program's constants are; no validator looks at
    the configured ratio, so it may be 0, and the property says what then holds.
* `ServerProofs`: the nine invariants of `Server`. A behaviour takes one part,
  so each part is proved of the steps of its own module (`ConfigSteps` and its
  like).
  * `ViewsAgree`, `ProposalIsClear`, `GateReadsConflicts` follow from
    `ConflictProofs`; no step changes the assignment (`AssignedInv`).
  * `ImportsAgree`, of any rows and files whose reading does not raise. A
    network is portable when its cells are valid, finitely many and linked among
    themselves; `ExportReads` says that the rows written of such a network read
    back as it, and plans (`PlanIsPortable`), PM files (`PmCellsRead`,
    `PmLinksRead`) and samples (`SampleReads`) all give one. Reading files in
    another order is shown of the reversed list (`OrderIsFree`): what is
    computed of the files depends on which files there are (`SameFiles`), as
    long as no two nodes give one cell. The number of an exported row is found
    without recursion (`GreatestNumber`, `SetInSequence`).
  * `ConfigCoherent`, by `ConfigInv`: what is assigned at each point of a PUT,
    in the code's order, and that the secrets of a payload are in use only if
    the application came up without a configuration.
  * `RunsTell`, by `RunsInv`: what is on disk of the run under way, that a whole
    record is the only one of its run, that a pending one has the changes that
    were made, that a failed one stands under an id that made none, and that a
    run with changes and without a record was cut short. The pending total is
    bounded by an injection of the counted changes into the changes made
    (`CountedOnce`).
  * `SeriesSpaced`, by `HistoryInv`. Memory and file stay spaced because leaving
    points out of a spaced series does (`SinceSpaced`, with `RankGrows`) and
    because a point is recorded only when the last one is a step away. The rest
    is the division of the chart into slots. The slots make up the whole span
    (`SlotsMakeSpan`, from what `SeriesAssumption` says of the spans), so no
    point of it is in front of the first (`InItsSlot`), each has a slot
    (`HasSlot`), and those of one slot are less than its width apart. Points a
    step apart that are all within a width are no more than fit into it
    (`SlotHolds`, by `PointsApart`).
  * `ProbesTrue`, by `ProcessInv`: who looks began no earlier than `Limit` ago
    and found well what was well since; what is kept was found so by the time
    noted beside it. The bound of an answer is the sum of both. Readiness and
    the end of the process come from `ProcessPhase`, the flags at each point of
    a stop, whatever the server does. For the order of the cleanups, moving the
    last of one list to the other leaves the whole as it was (`LastGoesFirst`).
  * `Throttled`, by `SignInInv`. Grants: over each stretch up to now, what was
    granted *and what could be granted at once* is within the burst and its
    refill; that half is what a grant takes from. Failures: the window in force
    counts exactly the failures since its first, and in front of that first,
    less than a window back, lie fewer than the limit. Together they bound any
    stretch. `OneMore` and `Split` are the arithmetic of counting units in a
    stretch of time.
* `PmFeedProofs`: `TypeOK`, `NeverBackwards`, and `OneRefresh`, that no two
  threads are past the wait for the lock. The invariant adds `QueueInv` (the
  queue is in the order of arrival), `StoreInv` (what is in the store is older
  than what is in the queue) and `PictureInv`: what is shown, and what a thread
  is about to show, was read from a store the present one has overtaken, and
  the latter is the later. One refresh at a time is what keeps the two in order.
* `VesConsumerProofs`: `TypeOK` and `NoStrayConnection`. The invariant adds
  `ConnectionInv`, which says for every await how many connections its host
  has; in the middle of `_get_connection` the pool and the open connections
  differ, and each exception must bring them together again.

With this every invariant and every action property of the passing runs is a
theorem. Only model-checked is liveness, which is out of this prover's reach:
`CommitResolved`, `HalfOpenDecides`, `OpenProbes`, `Terminates`,
`EveryWriteEnds`, `LockComesBack`, `EveryFileShown`, `DownloadEnds`,
`FetchEnds`, `StopEnds` and `SitesSettle`.

## What the models show about the code

Findings, each with the run that has the counterexample:

1. `overlay_recommit`. The overlay is laid into the very snapshot it is compared
   with. A commit deletes the marker and lays the overlay again, so a pending
   commit of the same snapshot meets its own PCI and is dropped "as confirmed".
   The feed has confirmed nothing, and no alarm will follow.
2. `overlay_race`. A thread that tested the marker before a commit sets it after
   the commit has deleted it: the snapshot is served without the new overlay.
3. `config_lost`. Saving the settings gives the application a new cache without
   the store of the PM ingest. With Kafka it says from then on that it waits for
   events, while files arrive in a store nobody reads, until a restart.
4. `sdnr_empty`. A mount query answered without a body passes the preflight.

Met while reading, and modelled as they are unless said otherwise.

Optimizer and reports:

* `_budget_cells` is never less than one, so small networks change more than
  the percentages say; the absolute cap is one per technology.
* Only the PCI with the best key is tried. If the verification takes it back,
  no second one is.
* Pairs of weight zero do not count at all, so a change may make them collide.
* `list_conflicts` cuts a page at 200 rows (`api/services.py:200`), and the
  dashboard asks for 10,000 and takes what it gets for all: above 200 pairs of a
  technology its banner, regions and pool sheet are those of the most severe
  200, while graph, KPIs and cards have every pair (`ListPages`).
* `compute_kpis` takes a pair that is both a collision and a confusion off its
  mod-N figure twice. The banner shows everything of the list that is neither
  as "mod3". The pool sheet calls any PCI with two holders a collision, on
  whatever carrier. `_humanize_reason` finds "MOD3" in "MOD30" (wording, not
  modelled).
* `_live_propose` looks up a pool of the site type without the reserved ranges,
  and finds none for `das`, so it proposes from the whole namespace. Cells of
  unknown carrier count as being on one.

Write path and breaker:

* 408 and 429 are among the retryable statuses, but the message made of them
  matches no retry pattern, nor does "timed out"; they are retried only if the
  URL happens to hold a matching text (`PatternInUrl`).
* A connection that breaks while the answer is read ends the commit handler
  with an exception and without an audit event.
* The failure ratio is looked at after a failure only
  (`resilience/circuitbreaker.py:136` and `:285`): a success, three failures and
  a success leave the breaker closed at the ratio that trips it.

Feed and consumer:

* The drain task and a refresh prune one dict. If they meet, the drain task ends
  with an exception nobody looks at: the queue grows and the feed stands still
  until a restart. It takes an entry over its retention of a day, so
  `EveryFileShown` speaks of feeds without one. A prune that listed an entry as
  old can also delete the file that has just replaced it, and a store whose last
  entry ages between the count and the build gives an empty network.
* One file whose successes and failures exceed its attempts makes the building
  of the whole network fail, until the node sends another; so does a PCI or
  channel of "nan" or "inf".
* A cell in the files of two nodes takes the reading of the node that comes
  later in the store. `PmAgrees` speaks of networks without one.
* One measured relation anywhere in the feed turns the inferring of relations
  off for all edges (`PmLinks`), although `src/README.md:57` says "Where an edge
  is not measured it is inferred".
* A refresh lock whose thread cannot be started is never given back.
* The liveness probe and the opening of a channel have no time limit and hold
  the pool's lock: a server that falls silent there holds up every other. A
  download has none either, but does not hold the lock, and the idle cleanup
  ends it by closing the connection (`DownloadEnds`).
* If the Kafka consumer cannot be made, its task ends and is not started again.
* The connections of the SFTP pool are not closed at shutdown; the process ends
  instead.

Server:

* Two overlapping PUTs of the configuration share `config.tmp.yaml` and the
  assignments; `ConfigSwap` has one at a time. A request between two assignments
  may use the cache of one configuration with the settings of the other, and
  the cache the dashboard was created with keeps a writer that has been closed.
* The temporary file of a run that a crash left behind is listed as a run, but
  the page of the run does not find it. A failed record is written in place and
  without a temporary file, so a crash can cut it short; the cells stay changed
  either way. It names no change and has an id of its own, so nothing on record
  tells which changes a failed run left on the snapshot, unless its temporary
  file could not be removed and is listed beside it as pending.
* The lockout counts in a window that begins with the first failure and does
  not slide: a stretch of ten minutes across two windows can see nearly twice
  the eight failures of `src/README.md:112`. `Throttled` states the bound.
* A point of the throughput history in the future, after the clock is set back,
  keeps new points out until the clock has come to it again.
* Values of a spreadsheet that are optional and not numbers are dropped without
  a word, and a row that changes nothing leaves no override, so a later PM file
  may change the field.
* A plan with a PCI or channel of "nan" or "inf" ends in a 500 (`PlanRaises`).
* The 6h, 24h and 7d charts draw a mean of several points as one.
* A plan sampled from a cell without a channel reads back with channel 1.
* `stop` before the task of the server has run once finds no server to ask and
  cancels it after the whole grace. A signal makes the server leave at once,
  while readiness still says yes and before any cleanup; and a server that
  cannot listen may cancel `stop` in the middle, whose other cleanups are then
  never begun. `register_checker`, `add_cleanup` and `check_health` are not used
  by the shipped program; they are modelled as offered.

## Not modelled, and why

* Edge weights (`weighting/`): ratios and distances in floating point. The
  scoring takes weights as given whole numbers and shadow relations as a given
  relation.
* Readers and writers of XML, spreadsheets, YAML and JSON beyond what they keep
  and drop; hashing of passwords; validators of single settings; the command
  line of `__main__.py`, which calls modelled parts one after another.
* InfluxDB: the program writes measurements to it and decides nothing by them,
  but for the user store. Only which writer is open is modelled.
* `acquire`, `wait` and `cleanup` of the rate limiter: nothing in the program
  calls them. Whoever waits in `acquire` keeps the limiter it was given, while
  `cleanup` forgets it, so that a key can then have two full buckets; the bound
  of `Throttled` is for a program that does not use them. `allow`, which finds
  the limiter and takes from it under different locks, is one step because the
  login handler calls it from the event loop.
* `PlanStore`: a dict under a lock, each operation one assignment.
* Dashboard figures about alerts, load and coverage, search and paging.
* Logging, tracing, metrics, web pages, middleware.

Worth adding: `PmFeed` behind `CommitOverlay`, its steps shown to be the
`Report`, `Vanish` and `Refresh` the overlay assumes; two PUTs at once in
`ConfigSwap`; a safety property of `SiteBook`, which has only `SitesSettle`, to
prove.
