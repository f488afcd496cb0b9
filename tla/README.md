# MORF: models of the scan service

MORF scans mobile packages (APK, IPA) for secrets. An HTTP API stores an upload
and queues a job in Redis; workers in any number of pods pop jobs, scan, and
write the outcome back; a reaper in every pod returns the jobs of dead workers.
Around this core are an artifact store, a result database, caches, limiters, the
detection and verification of secrets, a read API and a policy gate for CI.
This directory models the system in TLA+, checks it with TLC on small instances,
and proves its safety and action properties with TLAPS for every instance.

## The system and its parts

| part | code (`morf/`) | module | theorems in |
|---|---|---|---|
| job queue | `queue/queue.go` | `JobQueue`, `RedisList` | `ScanWorkerProofs` (lemmas) |
| worker | `worker/worker.go` | `ScanWorker` | `ScanWorkerProofs` (lemmas) |
| reaper | `queue/reaper.go` | `Reaper` | `ScanServiceProofs` (lemmas) |
| handlers that change jobs | `router/routers.go` | `JobApi` | `ScanServiceProofs` (lemmas) |
| artifact store as jobs see it | `storage/storage.go` | `ObjectStore` | |
| the five together | | `ScanService` | `ScanWorkerProofs`, `ScanServiceProofs`, `OnePlaceProofs` |
| status index, expiry of hashes | `queue/queue.go`, `queue/reaper.go` | `StatusIndex` | `StoreProofs` |
| DLQ listing | `queue/queue.go`, `router/routers.go` | `DeadLetters` | `ApiProofs` |
| the scan of one package | `worker/worker.go`, `apk/`, `ios/`, `utils/jobcontext.go` | `ScanPipeline` | `PipelineProofs` |
| process start, shutdown, webhooks | `main.go`, `worker/pool.go`, `utils/webhook.go` | `Lifecycle` | `StoreProofs` |
| what a store promises | `storage/storage.go` | `Storage` | |
| local store | `storage/local.go` | `LocalStore` | `StoreProofs` |
| S3 store, retries | `storage/s3.go`, `utils/retry.go` | `RemoteStore` | `ApiProofs` |
| result database | `db/`, `utils/database.go` | `Database` | `StoreProofs` |
| circuit breaker | `utils/circuitbreaker.go` | `CircuitBreaker` | `StoreProofs` |
| metadata cache, pattern version | `utils/cache.go`, `apk/metadata.go` | `ResultCache` | `StoreProofs` |
| pattern files, compiled patterns | `utils/pattern.go`, `detect/detect.go` | `Patterns` | `PipelineProofs` |
| detection | `detect/` | `Detection` | `ReportProofs` |
| verification | `verify/` | `Verification` | `ReportProofs` |
| API keys | `auth/` | `KeyAuth`, `KeyUsage` | `ApiProofs` |
| per-address limiter | `router/middleware.go` | `ClientLimiter` | `ApiProofs` |
| read handlers, MCP tools, health | `router/routers.go`, `mcp/server.go`, `utils/comparison.go` | `ReadApi` | `ReportProofs` |
| CI gate | `gate/`, `cmd/scan.go`, `cmd/gate.go` | `CIGate` | `ReportProofs` |
| SBOM enrichment | `osv/osv.go` | `Osv` | |

`SumLemmas` holds what the proofs need of sums and of induction.

`MCScanService` gives `ScanService` its budgets of events. `MCParts` and
`MCLiveParts` put the other modules into one specification each: `Init` chooses a
part, the part runs by its own next-state relation, and the variables of the
others keep their initial values. The parts of one such module share no state, so
nothing is lost by running them one at a time. `map` in `PROJECT.json` names the
lines of code behind each definition.

The parts meet as follows. An upload handler puts the package into the store
(`LocalStore` or `RemoteStore`) and then enqueues; `ObjectStore` is that store
reduced to which packages exist. A worker's `scan` step is one execution of
`ScanPipeline`, which takes its patterns from `Patterns`, its findings from
`Detection` and `Verification`, its metadata through `ResultCache`, and writes
the rows of `Database`. `IncrVersion` of `ResultCache` ends every save of
`Patterns`. `Lifecycle` starts and stops workers, handlers and reapers. Requests
pass `ClientLimiter`, then `KeyAuth`. The composed models keep the outcome of
the other part as a free choice, so what is shown of one holds whatever the other
answers.

## The scan service

The hard behaviours are where queue, worker, reaper and API meet: a worker can
die between any two of its Redis calls; each call can fail with or without
having taken effect; a live worker can be taken for dead; several reapers sweep
the same worker; a user cancels, or an operator retries from the DLQ, while a
worker holds a stale copy of the job.

**One step is one round trip.** Redis runs a command or a Lua script at a time,
so each is an atomic operator of `JobQueue`; a Go function that issues several
is several steps. `pc[w]` in `ScanWorker` names the call worker `w` makes next:

| pc | code in worker.go | then |
|---|---|---|
| `idle` | `PopJobReliable` | `load` |
| `load` | `GetJob`, terminal and cancelled checks | `update`, `discard`, `ack` |
| `update` | the four call sites of `UpdateJob`, told apart by the status written | `lease`, `clear`, `push`, `todlq`; on an error `ack` at pickup, else back to `idle` unacked |
| `lease`, `precheck` | `SetJobLease`, `CheckJobLease` | `scan`, or `ack` if superseded |
| `scan`, `reread` | `scanAPK`/`scanIPA`; after an error the re-read that tells a cancellation | `success`, `failure`, `discard` |
| `success`, `failure` | the lease check and decision of `handleJobSuccess`/`handleJobFailure` | `update` |
| `push`, `todlq`, `clear`, `discard`, `ack` | `PushJob`, `MoveToDLQ`, `ClearJobLease`, `deleteUploadedArtifact`, the deferred `AckJob` | down to `idle` |

**Data.** A job hash is its status and retry count; a processing list and the
DLQ are bags, since every operation on them is by value; time is whether a
heartbeat is older than `staleAfter` and whether a lease has expired. The
verdict of a scan, and of `isRetryable`, is free. A worker ID is drawn fresh at
each start, so a restarted pod is another member of `Workers`; a job ID is fresh
for each upload, so a member of `Jobs` is one uploaded file.

**Events.** What the environment does to the program is metered by `Budget`:
`io` (a Redis or store call fails; where it matters, with or without having
taken effect), `crash`, `reaperCrash`, `falseReap` (a live worker's heartbeat
gets old), `shutdown`, `cancel`, `dlqRetry`. The proofs hold for every budget;
TLC uses small ones.

## The other parts: state, steps and what is followed

A step is a critical section, a system call, a Redis command, an SQL statement or
a handler that does only one of these; whatever the code does between two of them
is part of the step.

- **StatusIndex** follows one job through the sets `morf:jobs:<status>`.
  `UpdateJob` is its commands (read the old status, write the hash, `SREM`,
  `SADD`); cancels, DLQ retries, expiry of the hash and the two commands of
  `TrimTerminalStatusSets` fall between them. `JobQueue` leaves the sets out.
- **DeadLetters** has the list `morf:dlq` and a client that walks `GET /dlq` page
  by page, each page being the commands the handler issues: depth, `LRANGE`, and
  a `GetJob` per entry, while jobs are parked, retried and expire.
- **ScanPipeline** runs `scanAPK`, `scanIPA`, the `cli` command, `/jira`,
  `/slackscan` and the scan tools on one package. `tree` is what a workspace
  holds, `exec` where each execution is, `row` the stored result. The secrets of
  the package are where a pass looks for them (smali, res, binary, string
  corpus); a decompiler ends, fails or leaves half of its output; a crash leaves
  the workspace to the next execution or to the start-up sweep.
- **Lifecycle** is `runServer`, `runAPIOnly` and `runWorkerOnly`: boot, serve,
  then on a signal drain HTTP, stop the pool, wait for webhooks, stop background
  work, close the database, each with its deadline. Workers pop, scan, store and
  dispatch webhooks under `webhookSem`.
- **Storage** says what `storage.Storage` promises: a put is atomic, a delete
  removes. **LocalStore** is `Put` by system call (create, copy by chunks, sync,
  close, rename), with failures, short bodies and processes that die between any
  two. **RemoteStore** is the S3 `Put` (streamed or buffered) under the
  `byteSemaphore`, whose waiters sleep until a broadcast, and under the retry
  loop, with lost answers and readers that cannot rewind.
- **Database** boots several processes on one server: connect with retries,
  auto-migrate, the migration files one by one, then one transaction, statement
  by statement, of `insertSecretsSync` or the backfill, and a duplicate lookup
  that reads table by table. MySQL's snapshot reads and unique keys are assumed.
- **CircuitBreaker**: the two critical sections of `Call` and the callbacks after
  them; `waited` says whether `resetTimeout` has passed since `lastFailTime`; the
  failure count saturates at the threshold. A rejected call stutters.
- **ResultCache**: the version in Redis and in every pod, the edits that raise and
  publish it, subscriber, refresher and reload on a miss, which all overwrite the
  pod's copy with what they last read, and the entries stored under a version.
- **Patterns**: an edit loads, truncates and writes with nothing locked;
  `GetPatternCache` lists, stamps, reads file by file and swaps the cache in.
- **Detection**: rules with their own capturing groups, the union regex and its
  group map, one finding per span, peeling, de-duplication, precision tiers.
- **Verification**: the verdict of every HTTP verifier by status and body, the
  cache by value and TTL, the pairing of AWS keys.
- **KeyAuth**: cached validation, lookups under way during a revocation, the
  per-key limiter objects. **KeyUsage**: the swap and the write of the flusher.
  **ClientLimiter**: `get` under the shard's lock, `Allow` after it, the reaper.
- **ReadApi**: each read handler with the form (raw, masked, encrypted) in which
  it hands out a value; `/compare` with its two reads; the cached tool check.
- **CIGate**: `morf scan`, `morf gate`, `--update-baseline` and `gate allow`, with
  the baseline file as truncated and then written, and pipelines that die.
- **Osv**: the batch query, a goroutine per ID under a semaphore, the channel
  that is drained after all of them have ended.

## What is checked

Passing runs:

- **crashes** (1 job, 3 workers, 2 reapers, limit of 2 tries; 2 crashes, 1
  shutdown, 1 cancellation, 1 DLQ retry). `CrashesLoseNothing`: a pending job is
  always queued, in a reaper's hand, or on the list of a worker that lives or
  that reapers can find. `ReapersNeverDuplicate`: no step of a reaper increases
  the copies of a job. While nothing has crashed: `OneExecution` (two workers
  never process a job together, although a retry pushes before it acks),
  `FailedIsParked` (a failed job is on the DLQ exactly once or with whoever is
  moving it), and `PackagesKept` (no package is deleted while its job will still
  be scanned).
- **storm** (1 job, 2 workers, 1 reaper; one I/O error, one false reap, one
  reaper crash). Duplicates and losses do happen here; `RetriesBounded` and
  `ReapersNeverDuplicate` hold all the same.
- **live** (2 jobs, 2 workers, 1 reaper, 1 crash). `JobsSettle`: every pending
  job ends completed, failed or cancelled. `ListsDrain`: every processing entry
  is acked or reaped.
- **parts** (`MCParts`), by part:
  - index: `IndexFindsJob`, a settled job is in the set of its status, on the DLQ
    or in a DLQ retry, whatever fell between two commands. The exception it states
    is a job cancelled twice, because a worker wrote over the first cancel: the
    worker's `SREM` of the first may take away the second, and leave the job in a
    pending set only;
  - local store: `LocalIsStorage`, it implements `Storage`;
  - keys: `RevocationTakesEffect` within the TTL and the time of a lookup;
    `LimitIsShared` by concurrent first requests; `LastUsedAdvances`;
  - limiter: `RateIsBounded`, over every stretch of time, although the reaper
    forgets buckets that a request still holds;
  - patterns: `PatternsFresh`, a scan works with every save finished when it
    began, of the files nobody removed meanwhile (a removal raises no modification
    time, so a cached copy of a removed file may live on); `PatternsKept`, a save drops nothing it was not about;
  - scans: `FindingsComplete`, a failed scan never passes for one without
    findings; `WorkspaceReclaimed` on every return;
  - database: `DuplicateIsWhole`, `WritesAreMigrated`;
  - gate: `LiveSecretsGate`, a passing build has no verified secret nobody
    accepted; `AllowKeepsBaseline`, a torn file is never taken for an empty one;
  - detection: `SpansReported`, nothing missed, misattributed or doubled;
  - verification: `StatusWasTrue`, no verdict is older than a TTL and a request;
  - DLQ listing: `WalkSeesAll`, also with a clamped limit and new arrivals;
  - read API: `RawNeedsOptOut`, no read hands out a secret value unless masking is
    off; `ToolsHealthFresh`.
- **live_parts** (`MCLiveParts`): the breaker (`HalfOpenHasProbe`,
  `ClosedBelowThreshold`, and `Recovers`: once the service answers for good the
  circuit closes for good); S3 uploads (`BudgetConserved`, `PutIsTrue`,
  `UploadsEnd`: nobody sleeps for ever on the budget); pods (`NeverAhead`,
  `PodsResync`); the shutdown (`CleanShutdown`, `ShutdownEnds`); the fan-out
  (`EnrichmentEnds`, for at most four vulnerabilities per component).

Runs that show a disagreement between the code and what the repository says of
it; the findings in `PROJECT.json` quote the lines:

- **lost**: a job whose `GetJob` or pickup `UpdateJob` fails is acked and lost.
- **cancel**: a cancellation between `GetJob` and `UpdateJob` is overwritten.
- **fence**: after a false reap, the second worker's pickup write overwrites a
  completed result; the lease guards terminal writes only.
- **dlqretry**: a job retried from the DLQ has no package any more.
- **probe**: a straggler that fails while a probe runs re-opens the circuit, and
  a second probe joins the first.
- **remote**: with a remote backend the scan gets the path of a temporary file
  that `resolveAPKPath` has already removed.
- **osv**: the fifth vulnerability of a component fills the result channel, which
  is read only after all senders have ended: the enrichment never returns.

**Bounds of the scan service.** Jobs meet only in the main queue: no step of a
worker or reaper on one job reads another's keys, so one job suffices for safety,
and `live` uses two so that one can overtake the other. Three workers are a
worker that dies, its successor that dies too, and a third that finishes; two
reapers are the fewest that race. A retry limit of 2 has a retry and a last
failure. `QueueLimit` 1 makes admission refuse an upload in `live`. Symmetry is
used for safety only.

**Bounds of the parts.** Two of every concurrent actor (puts, requests, flushers,
scans, processes, pipelines, checks, probes, pods), which is what a race takes;
three breaker callers, a straggler and two probes. Every time limit is one or two
ticks and the horizon is past the sum of the limits a property adds up
(`KeyTTL` + `LookupTime` + 1, two TTLs of the tool check, `Burst` + the idle time
of a bucket), so that a stale copy can be made, used and outlive its limit. Sizes
1, 3 and 4 of an upload, against a capacity of 2 and a maximum of 3, are one that
fits, one above the budget and one refused. Two chunks make a torn file; two
migration files let one be missing; one retry of S3 and two of the database have
a first, a repeated and a last failure. Two rules with at most one inner group
shift the group numbers; two lines of one or two spans each can repeat a finding
within a line and across lines. Two pattern
files let one be removed while the other is saved; two cancels are a cancel that a
worker overwrites and its repetition. One editor at a time in `parts`: two editors
of one file do overwrite each other, and `PatternsKept` compares a save with what
its own edit has loaded. `Overlap` FALSE in `ScanPipeline`
likewise: two executions of one job on one host share a workspace, which is the
consequence of a false reap (`fence`). Four IDs in `live_parts`, five in `osv`.

**Fairness.** `WF` of a worker's own steps (the loop never blocks for ever: pops
wait a second, scans end at their timeout), of a reaper's sweep (its ticker; a
crash is not a step it must take), and of the ageing of a dead worker's
heartbeat. Nothing forces an upload, a cancellation, a crash or a shutdown. For
the breaker: admitted calls return, time passes, and calls keep coming, each
worker's heartbeat being one. For S3: a woken waiter runs, an attempt ends (the
timeout of the HTTP client), and so does the callback of a cancelled context. For
the pods: the refresher's ticker, delivery of a message once published, and the
goroutines' own steps; Redis fails a bounded number of times. For the shutdown:
the main goroutine runs, whose waits all have deadlines; nothing is assumed of
requests, scans and deliveries, which may hang. For OSV: the scheduler runs some
goroutine that can run, and a request ends.

## What is proved

The theorems hold for every value of the constants. What they assume of them is
named in the module that declares them: limits, times and sizes are numbers, null
values are not members of the sets they stand beside, and

- a fleet, and the uploads in flight, are finite sets (`FleetAssumption`,
  `RemoteAssumption`): the code starts them one by one, and a sum over them would
  mean nothing otherwise;
- a page of the DLQ has a positive default and maximum (`LetterAssumption`), as the
  constants in the code have;
- the idle time after which a bucket is forgotten is at least the time it takes to
  fill one (`LimiterAssumption`), as with the defaults (10 minutes, 2 seconds);
- there is a pattern file (`PatternAssumption`), the verifiers that need a
  partner are verifiers (`VerifyAssumption`), and the rules form a list
  (`DetectAssumption`).

`Lifecycle`, `ResultCache`, `KeyUsage` and `CIGate` need none. No assumption bounds
the number of actors or of events.

**Types and retries** (`ScanWorkerProofs`): `TypesAreCorrect`,
`RetriesAreBounded`. `RetriesBounded` speaks of the hash, but a worker writes its
own, possibly stale, copy back. `TypeInv` therefore adds `WorkerOK`: where a
worker is and what its copy says agree, and a copy that is not failed has
attempts left. The module starts with lemmas on what `RPUSH`, `BLMOVE` and `LREM`
do to the elements of the queue; that `LREM` takes off one entry and renumbers the
others one to one (`Without`) is what the counting of copies rests on as well.

**No job is lost** (`ScanWorkerProofs`, `ScanServiceProofs`): `NoJobIsLost`.
`CrashesLoseNothing` is not inductive: a step of the worker that will ack a job
looks harmless until one asks who else has it. `IInv` says, while `Reliable`, that
a worker which is not dead has exactly its current job on its list and only the
dead look dead (`ListsOK`), and that somebody answers for every pending job
(`Answered`): it is queued, in a reaper's hand, on a dead worker's list, with a
worker that has not taken the lease yet, or with the worker the lease names. The
last two cases follow the lease from owner to owner.

**One place** (`OnePlaceProofs`): `OneExecutionAtATime`, `DLQIsExact`,
`PackagesAreKept`. All three follow from `PlaceInv`: while nothing crashes and
nothing fails, a job is in the queue once, or with one worker that works on it,
or on the DLQ once, or with one retry request, and an upload that has not been
accepted is nowhere (`OnePlace`). Each excludes the others, which is why a push
before the ack does not start the job twice. `NoneDead` and `ListsOK` then give
that a reaper finds nothing to requeue. For the packages, until an operator
retries from the DLQ, a worker that is about to delete one has settled its job
(`Stored`); the run `dlqretry` shows that the condition is needed.

**No copies from reapers** (`ScanServiceProofs`): `ReapersAddNothing`. Whatever has
failed or crashed before, a step in which no worker and no handler moves on adds no
copy of a job. `Copies` adds up the queue, the lists of all workers and the hands of
all reapers. A step moves one list, so the sum over the workers changes by what that
list changes (`SumUpdate` of `SumLemmas`), and the lemmas on `LMOVE`, `LREM` and
`RPUSH` say that the other end of the move makes up for it.

**Circuit breaker** (this and the next five in `StoreProofs`): `HalfOpenIsProbed` and
`ClosedIsBelowThreshold`, inductive together with the type invariant.

**Local store**: `LocalImplementsStorage`, every step of `LocalStore` is a step of
`Storage` or leaves it unchanged. The mapping takes a key to the body of its
file. The rename may be a step of `Storage` because a `Put` past its copy has all
chunks in the temporary file (`LocalInv`).

**Shutdown**: `ShutdownIsClean`. `LifeInv` says what each stage has drained before
the next begins, unless it ran into its deadline.

**Database**: `OnlyMigratedWrites`. `DBInv` says that a process which has met no
error has every file before its place in effect, and that files are never taken
back. `DuplicatesAreWhole`: a lookup reads table by table while others write.
`WholeInv` says what every open transaction has written so far, that at most one
has an uncommitted secret row and only while none is committed, and that the
committed child rows are those of the writer the lookup has found.

**Pattern version**: `PodsAreNeverAhead`. `CacheInv` covers every place that holds a
version: the pod's copy, what its loaders have read, what an edit still has to
store, and the entries.

**Status index**: `JobsAreFiled`. `OneCopy` says that the job is queued, parked, in a
DLQ retry or with the worker, and only one of these; `FiledAt` says in which sets the
job is, for each next command of the worker.

**Uploads** (this and the next three in `ApiProofs`): `BudgetIsConserved` and
`PutTellsTheTruth`, inductive together with the types. The first is a sum over all
uploads of what each holds.

**Limiter**: `AddressIsLimited`. The bound itself is not inductive. `Covered` bounds
what was allowed since any tick together with the tokens left now, a forgotten
visitor counting as a full bucket; `CoveredSeen` does the same at the time the visitor
was last seen, and so allows the reaper to forget it. `LimiterLink` says that a
request between `get` and `Allow` holds the visitor's own bucket.

**Keys**: `RevocationIsBounded`, from `KeyTimes`: a copy that says
the key is active, cached or in a request's hand, outlives the last time the key was
active by no more than a TTL and a lookup. `LimitersAreShared`, from
`KeyLimits`: one limiter, whose tokens and the requests served make up the limit.
`UsageAdvances`, an action property: `UsageInv` puts what is stored, being
written and buffered in the order of time, since only one flusher runs.

**Dead letters**: `WalksAreComplete`. `WalkAhead` says that what the walk still owes
is behind its offset or on the page it reads, and that it has not reached the end
while it owes something. A push moves entries back, so it may repeat one, never hide
one; a retry moves them forward, which is why a walk with a retry is excepted.

**Scans** (this and the next in `PipelineProofs`): `WorkspacesAreReclaimed` for every mix
of executions: whatever is left in a workspace belongs to an execution that is at work
or has crashed (`Owned`). `ScansAreComplete` has the hypothesis `~Overlap`; the
invariant `CompleteInv` says what an execution has in its tree and has found at each
stage, over whatever an earlier one left there.

**Patterns**: `PatternsAreCurrent`. `PatternInv` relates the times of the files, the
stamp taken before the reading, and what the cache and every scan's snapshot have read.
`EditsKeepOthers`, an action property for any number of editors: the body of a save is
what the edit has loaded but for one name (`EditInv`).

**Verification** (this and the next three in `ReportProofs`): `VerdictsWereTrue`,
for the answers every verifier may get. `VerifyInv` says it of cached verdicts and of
answers under way, and that a key is only paired with its own secret.

**CI gate**: `GateStopsLiveSecrets` and `AllowOnlyAdds`. `GateLinks` says of every
pipeline what it has read of the baseline and how that relates to the last complete one.

**Read API**: `ValuesAreMasked`, from `ReadInv`: stored rows hold no value in the clear,
and a reply shows one only to a client that opted in. `HealthIsFresh`, from
`HealthTimes`: what is cached, and what a probe is about to store, is no older than a
TTL and a check.

**Detection**: `SpansAreReported`, for any rules with any capturing groups and any
lines. `AppendedJoins` says where the entries of each list end up when lists are
appended in turn. From that, `GroupMap`: the entry of the group map at the first group
of a rule, which the regexp library numbers by the groups of the rules before it, is
the rule; and `KeepShape`: a loop that filters a list keeps exactly the entries at the
places it means, each once. `LineReported` is the property for one line, combined
regex or not; the invariant `DetectInv` carries it through the appending of lines, the
de-duplication and the tiers.

**Sums and induction.** A sum (`SumFunctionOnSet`) is a recursive definition, and the
induction theorems of the library take a predicate, which the provers cannot
instantiate. `SumLemmas` states induction over the natural numbers and over the
subsets of a finite set with a set in place of the predicate, proves these from the
existence of minimal elements (`WFMin`), shows that the recursive equation of a sum
has one solution, and from that how a sum changes with one of its terms. `Appended`
(`Detection`) is treated in the same way.

Only model-checked:

- liveness (`JobsSettle`, `ListsDrain`, `Recovers`, `UploadsEnd`, `PodsResync`,
  `ShutdownEnds`, `EnrichmentEnds`), which is out of the prover's reach;
- the properties of the runs that show a disagreement, which do not hold.

## Not modelled

- **Input formats**: the parsers of manifests, certificates, resources, plists and
  Mach-O files, and what a regular expression, an entropy measure or a context
  score says of a string. They are functions of unbounded data; the models take
  their verdict as a free choice or as part of the input.
- **Output formats**: SARIF, HTML, CSV, PDF, CycloneDX and Jira layouts, Slack and
  webhook messages. Which form of a secret they carry is in `ReadApi`.
- **Libraries**: ciphers, request signing, HTTP, the Redis and MySQL servers beyond
  their atomicity and isolation, the external decompilers beyond their outcomes.
- **Reads without consequence**: job listings, metrics, queue statistics.
- **Arithmetic of sizing**: worker count from CPUs and memory, back-off delays,
  connection pools, the limits of the archive check.
- **Ingest adapters, configuration, metrics, telemetry, version, benchmark**: no
  state another part depends on.
- **Web frontend** (`frontend/src`): a client of the API that holds the state of
  one browser tab. Its uploads, polls and cancellations reach the service only
  through handlers that are modelled for any client.
