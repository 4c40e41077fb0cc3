# Arr Guard, verified

Arr Guard is a sidecar for Sonarr and Radarr (called Arr below). When Arr
imports a media file, the guard probes its subtitles; a file that fails the
policy is deleted, its download is marked as failed, and a replacement is
searched for. None of these requests is idempotent, and Arr offers no
idempotency keys. The guard may be killed between any two of them, while Arr,
the download client and the user go on changing the same library. The code
defends itself with a journal in a state file, a global lock around all
mutations, and repeated reads. This directory models that defence in TLA+,
checks it with TLC on small instances, and proves with TLAPS every safety property
that the passing runs check.

All paths are relative to the repository; `guard/` and `arr/` are directories of
`src/internal/`.

## The system

| component | state | operations | hard because |
|---|---|---|---|
| State store (`guard/state.go`, `guard/safety.go`) | one JSON file: retry counters, operation journal, completed keys, bound servers, stored webhooks; a copy in memory; `writeErr` | load, bind, `Begin`, `Phase`, `OriginRequested`, `SearchRequested`, `ImportSubmitted`, `Complete`, `Reset`, `AddWebhook`, `FinishWebhook` | a save can fail after its rename; crash at any point; the file may come from an older version or from another server |
| Media remediation (`guard/remediation.go`, `guard/safety.go`) | local variables of a call, `mutationMu` | probe; preflight; delete, fail the download, search | the library changes between every two reads; answers are lost; Arr may search by itself |
| Webhook jobs and workers (`guard/jobs.go`, `guard/service.go`, `guard/run.go`) | channel, `scheduled`, `handled`, refcounted file locks, `stopping` | enqueue, dispatch, take, process, finish, stop | at-least-once delivery, two jobs of one file, shutdown in the middle of a job, saves that fail |
| Queue recovery (`guard/queue_recovery.go`) | journal entry | plan, re-read, remove, search | the queue changes between plan and removal |
| Manual import (`guard/manual_import.go`, `manual_import_identity.go`) | journal entry with the expected files | check, submit, reconcile, clean up | Arr imports asynchronously; outcomes are inferred from history |
| State file (`guard/state.go`, `guard/lock_unix.go`) | directory entries, page cache, lock | lock, load, create, write, sync, rename, sync the directory | power loss or death between two system calls, a call that fails, a second process |
| Arr client (`arr/client.go`) | the rows read so far | requests, paging | a list changes while it is read page by page |
| Scans (`guard/scan.go`, `guard/retry.go`) | slots, the first error, the outcome of each file | audit the library, report unmatched files | one failure must not hide the others; slots, retries and cancellation |
| Subtitle policy (`probe/`) | what it read of a file | stat, ffprobe, list and look at the subtitle files, classify the log, decide, compare again | every call sees another moment of a directory that changes; ffprobe succeeds on damaged files |
| Path mapping (`pathutil/`), configuration (`config/`) | none | pure functions | path prefixes, boundaries |

How they interact. Arr posts a webhook; `Enqueue` saves a job and only then is
it acknowledged. A ticker hands saved jobs to a pool of workers. A worker takes
the lock of each file of its job in turn, claims the file, probes it, takes
`mutationMu`, repeats every read the decision rests on, journals the operation
together with the counters it charges, and sends the requests, saving a new
phase before each. An hourly queue scan and the reconciliation of imports use
the same journal and the same lock. All of them share one `StateStore`, whose
mutex makes an update atomic for them.

What makes each part correct:

- *Store*: an unfinished operation is never lost, altered or overtaken by
  another one on the same series, movie or download; a completed one is never
  repeated; a counter falls only by a reset; after a failed save nothing else
  is written; a file of another server is refused.
- *Remediation*: no request of an operation is ever sent twice; each is
  announced in the file first; what is deleted is what was judged; the budget
  holds for every episode however files are regrouped; exactly one party
  searches; nothing is forgotten.
- *Jobs*: an acknowledged delivery survives until it is served; a file is
  processed by one worker at a time; a failure leaves no claim behind; a job
  runs once at a time and gets its turn; shutdown ends.
- *Queue recovery*: a download is removed once, and only as it was planned; no
  episode is left without a file, a search or a live download; searches stay
  within the budget.
- *Manual import*: a download is submitted once; each missing episode is
  carried by one file and no existing file is replaced; completion rests on
  newer history and on the library as it is; the download is removed only when
  nothing needs it; what is journalled can be loaded again.
- *State file*: the file is always a whole document; a save that returned
  without error is there after any failure, death or power loss; one process at a
  time writes.
- *Paging*: an answer misses no more rows than were removed while it was read.
- *Scans*: every file is settled, left to a job, or reported; a scan ends.
- *Subtitle policy*: what a verdict rests on was all true at one moment; a file
  with an English subtitle is not rejected because ffprobe could not read it.

## Modules

```
DurableState   Operations ---- OperationLatch  (abstract)
      |    \       |                 ^
      |     \      |                 | refinement
      |      StateStore -------------+
      |          |    \
      |          |     StateStoreProofs
      |          |---- Remediation ---- RemediationProofs    (each with
      |          |---- QueueRecovery -- QueueRecoveryProofs   StateStoreProofs)
      |          \---- ManualImport --- ManualImportProofs
      |                        | refinement, of each of the three
      |                  RequestLedger  (abstract)
      |
  WebhookJobs ---- JobsProofs

StateFile ---- StateFileProofs
    | refinement
AcknowledgedState  (abstract)
    |
SettledState ---- SettledStateProofs
    | refinement
DurableState

Scan   Probe   PagedRead  ---- ReadProofs
```

`DurableState` is `updateLocked`: a new state is saved and then kept in memory.
`Commits` is a save that worked. `CommitFails` is one that returned an error:
memory keeps the old state, `writeErr` is latched, and the file has either
content, because the directory sync comes after the rename
(`guard/lock_unix.go:23`). `Crash` and `Starts` are the end and the beginning of
a process. Every module that saves anything is built from these actions.

`Operations` and `OperationLatch` are the abstract promise: a set of unfinished
requests and a set of finished keys, `Open` and `Close`. There is no file, no
memory, no failure and no restart in it. The code states it at
`guard/state_model.go:25`: an unfinished operation is a safety latch.

`RequestLedger` is the other promise at that place, that a phase is persisted before
its mutation and is no permission to replay it: for each owner (a file, a download) the
request that was announced last and how often each was sent. `Announce`, `Ask` and
`Close` are its only steps. Every request is announced, then sent, once; the next is
announced, and the operation closed, only when it was sent, unless Arr shows later what
became of it (`Evident`: the import). `Remediation`, `QueueRecovery` and `ManualImport`
each map their file and their requests to it (`Stand`, `Ledger`) and promise it
(`AsksInOrder`). All three are proved; of the runs MediaReplace checks it, where
there are most requests, because the other two would take too long with it.

`StateStore` is `guard/state.go` with `openServiceState` and `Bind`. One action
per method that writes; the operators `WithPhase`, `WithCompletion`, ... are the
states those methods build. `Begin` has its two early returns as `AlreadyDone`
and `Fenced`. Its callers are arbitrary: any request at any time, any phase
after any other. `Latch` maps the file, read at any moment, to `OperationLatch`.
`begunOn` is a history variable for the server an operation was begun against.

`Remediation` extends `StateStore` with the workers of `applyValidation` and
`finishMediaRemediation`, in the order in which the code makes its calls. `pc`
says which call a worker is about to make; `job` holds its local variables.

| code | model |
|---|---|
| `validate`, outside the lock | `Probe` |
| `mutationMu.Lock` and the deferred `Unlock` | `Enter`, `Leave` |
| re-read of file, episodes, counters | `Check` |
| `Reset` of a valid file's counters, one save each | `ResetOne`, `ResetDone` |
| `findOrigin`, `prepareOrigin` | `FindOrigin`, `PrepareOrigin` |
| second look at file and mapping | `Recheck`, `Remap` |
| `state.Begin` and its refusals | `BeginOperation`, `NotBegun` |
| deletion and its phase | `DeleteFile`, `RecordDeleted` |
| policy read again, `applyOrigin` | `RefreshPolicy`, `RecordOrigin`, `RereadQueue`, `FailOrigin`, `RecordFailed` |
| `searchRemaining` | `ReadTargets`, `RecordSearch`, `SendSearch` |
| `state.Complete` | `Finish` |
| a failed read, a refused save | `Abort`, `Refused` |

A request that is sent is applied by Arr or not, and answered or not; only an
applied one is answered with success. Around the workers, Arr, the user and the
file system take steps of their own at any moment (`Edit`, `Import`, `Remove`,
`MoveOrigin`, `SetPolicy`, `SaveOther`), and the process dies and restarts.
`sent`, `arrSearched`, `lostBy` and `spent` are history. `raced` is too: Arr has
no conditional requests, so between the last read and the request that rests on
it anything may change and nobody can prevent it. `raced` records exactly the
changes that fall into such a window, and the properties excuse those and no
others.

`WebhookJobs` is the jobs component. `Enqueue`, `Coalesce`, `Dispatch`, `Finish`
and `StopWorkers` are atomic because the code holds `enqueueMu` in each. File
locks are modelled as the code has them: a map from files to lock objects with
reference counts (`Reference`, `Lock`, `Unlock`, `Release`), so that a lock
object that outlived its map entry, or two objects for one file, could occur.
Processing a file has the outcomes its caller distinguishes: success, an error
that may be retried, one that needs review, a cancellation. `owed`, `good` and
`served` are history. The channel's bound, the limit of stored jobs and the
saturating failure count are constants.

`QueueRecovery` extends `StateStore` with the goroutine that scans the queue.
Stages and locals are kept as in `Remediation`.

| code | model |
|---|---|
| `recoverBlockedQueue`: one rejected row per download | `StartScan`, `EndScan` |
| `recoverQueueItem`: lock, completed and pending entries | `Enter` |
| `planQueueRecovery`: group, history, missing, covered, searched | `PlanQueue`, `PlanTargets` |
| second queue read, equality of the groups | `Reread` |
| second read of what is missing, attempts | `Shrink` |
| `importExhaustedQueue`, here only its entry | `BeginImport`, `ReconcileImport` |
| `state.Begin`, `FailQueueItem`, phase | `BeginRemoval`, `NotBegun`, `RemoveItem`, `RecordRemoved` |
| third queue read, marking, `searchRemaining` | `ReadAgain`, `ReadMissing`, `RecordSearch`, `SendSearch` |
| `state.Complete` | `Finish` |

A row is `blocked` (rejected on import), `imported`, `active`, `stuck` (anything
else, which makes the group refuse) or `gone`; one row may be of an episode Arr
could not parse. Meanwhile rows move, episodes gain and lose files, and, between
two downloads, media workers begin and complete operations and reset counters.
`sent`, `asked`, `issued`, `relied` and `raced` are history.

`ManualImport` extends `StateStore` with one download whose budget is exhausted.
Its preflight and its later visits are long rows of reads, each of which either
goes on or returns: `Look(stage, condition, next, locals)` is such a read, and
`LookAtEach` one per file. So every read of the code is a stage at which the
world may change.

| code | model |
|---|---|
| `importExhaustedQueue` | `Enter` .. `ReadAfter`, `Snapshot`, `BeginImport`, `Submit`, `RecordSubmitted` |
| `checkImportQueue` | `CheckQueue`, before and after the probes |
| `importCandidates` and its matching | `Selected`, `CoversExactly`, `Discover`, `Rediscover` |
| `reconcileManualImport` | `Visit`, `ReadCommand`, `ReadEvidence`, `Verify`, `Reverify`, `ReadResidual`, `Finish` |
| `cleanupManualImport` | `PlanCleanup`, `Needed`, `CheckCleanup`, `StillNeeded`, `RecordCleanup`, `RemoveItem` |
| `validateImportJournal` at startup | `Loads`, a guard of `Restart` |

Arr carries a command out file by file (`RunCommand`), may end it early
(`EndCommand`), and updates its rows some time later (`RowFollows`). The
surroundings edit and delete files, import by hand or from elsewhere, change
rows and what is listed, and may clear the history. `raced` holds pairs of a
window and a thing: `Windows` names, for each look, the stages from it to the
request that rests on it, and a change of the thing at one of these is excused.
`journal` is the `PendingImport` of the entry, which `Operations` does not tell
apart.

`StateFile` opens the one step that `DurableState` makes of a save. A save is
`Update`, `CreateTemp`, `WriteTemp`, `SyncTemp`, `RenameTemp`, `FlushDirectory`, one
system call each; each may fail (`SaveFails`), and between any two the process may
die (`Die`, which drops the `flock`) or the machine lose power (`PowerLoss`). `path`
is the file the state path names; `survivors` are those it may name after a power
loss, because a rename is not durable before the directory is flushed; a file that
was not flushed may be torn. Any number of processes run on one file: `Lock`, `Load`,
`Bind` or `Refuse`. The dry run loads without the lock; `WholeFile` is what it needs.
On Windows the rename is written through and no directory is flushed, so there
`RenameTemp` and `FlushDirectory` are one call.

`AcknowledgedState` is what these calls promise: a save that is acknowledged is the
only content left, one that is not may or may not be there, and nobody knows which
until the next process loads the file. `DurableState` settles that at once, at the
failed save. `SettledState` closes the gap: it is `AcknowledgedState` with two
prophecy variables, `foretold`, the content that is still there once everything is
settled, and `doomed`, which says of a save in flight that it will not be acknowledged.
With them every step is one of `DurableState` (`SettlesEarly`), on which all the models
of the guard rest.

`Probe` is one judgement of a media file, from the first `os.Stat` to the moment the
guard acts: the calls of `Validate` (`Stat`, `FFprobe`, `Lists` and `LooksAt` for
`DiscoverExternalSubtitles`, `Judge`, `StatAgain`, and `CheckSubtitleSnapshot` as a second
`Lists`, `LooksAt`, `SameSidecars`) and the comparison in `applyValidation`
(`RecheckMedia`, and once more `Lists`, `LooksAt`, `SameSidecars`). Between any two,
files are written, removed and put back. The policy is operators: `StreamLanguage`,
`SidecarLanguage`, `Accepts`, and `Classify` for `classifyProbeDiagnostics`. ffprobe
is external. Assumed of it: a subtitle stream it could not read leaves a line in the
log, with the codec's context, with none, about subtitles, or about access
(`Admits`); it may list such a stream with an unknown type (`Report`).

`PagedRead` is `readArrPages`; between two requests Arr inserts, removes and sorts
rows.

`Scan` is `Audit` for one server and `auditFileWithRetries`: the semaphore (`Running`),
one goroutine per file with its attempts and pauses, the job a file is left to
(`SaveJob`), cancellation at any moment, and the queue recovery at the end. What a
judgement does is not repeated here; it has the outcomes the caller distinguishes.

Mutants. Operators whose comment begins with "Mutant" are not used by any
specification. Each states a plausible bug in the definition after it (a
dropped guard, a missing reset, a swapped order), and putting it in that
definition's place makes TLC report the property that is there to notice it.

## Runs

| run | instance | checks |
|---|---|---|
| Store | three requests, two of which share a subject and all a download; two episodes and a legacy counter that combines them; two servers | `TypeOK`, `FenceUnique`, `DoneOnce`, `ServerBound`, `ImplementsLatch`, `BudgetKept` |
| MediaReplace | one bad file and its possible replacement, of one episode or of two, two changes, one attempt | `MediaTypeOK`, `WithinBudget`, `NoDoubleSearch`, `NotForgotten`, `AsksInOrder`, `JudgedBefore` |
| MediaPack | two workers, two files of one download, no changes, fair | `OnceOnly`, `Returns` |
| Jobs | two workers, a batch of two files and a job of one of them, channel of one | `JobsTypeOK`, `AcceptedIsDurable`, `RemovedWhenServed`, `ClaimsAreGood`, `FileExclusive`, `RunOnce` |
| JobsLive | two workers, two jobs of one file, channel of one, fair | `GetsItsTurn`, `ShutdownEnds` |
| JobsAcknowledged | one worker, a batch of two files and a job of one of them | `AcknowledgedIsStored`, violated |
| QueueScan | a pack of two episodes and a second download of one of them or of an unparsed episode; one attempt, one change | `RecoveryTypeOK`, `SentOnce`, `SearchBudget` |
| QueueRace | both downloads rejected, two changes | `RemovalJudged`, `NothingStranded` |
| ImportPack | two episodes, a file of each and a file of both; media operations, one change; history may be cleared | `ImportTypeOK`, `CleanupHarmless`, `JournalCovers`, `ImportJudged`, `ImportedOnce`, `CompletedIsVerified` |
| ImportLoads | two episodes, a file each; history may be cleared | `JournalLoads`, violated |
| StateFile | two processes, four contents, one of which `Bind` changes | `WholeFile`, `KeepsPromise` |
| Scans | a scan of three files, two slots, two attempts; or a judgement of a file with two subtitle files and three changes; or a list of up to four rows, pages of one, two changes | `EveryFileAccounted`, `ScanEnds`, `JudgedAtOnce`, `EnglishProtected`, `MissesOnlyRemoved` |

Scans runs three modules that share no state. A behaviour runs one of them and
leaves the others in an initial state: all steps of each are explored, and no
interleaving is lost, because none of them can be seen from another.

Two runs disable the deadlock check, because the program really may stop there. In
ImportPack a process may refuse to load the journal of its predecessor (which is
what ImportLoads shows). In Scans a scan, a judgement and a read come to their end.
In all other runs a dead process can start again.

Bounds and why they are enough.

- Requests and keys: fencing relates two operations, so three requests hold
  every pattern of shared subject and download, and a third party. Operations of
  different kinds do not fence each other and each kind has its own server, so
  one kind is enough.
- `MaxInt` stands for `math.MaxInt`; in MediaReplace it equals
  the attempts allowed, so the cap is met first. In Store a counter saturates at 1,
  and in MediaPack too, below the attempts allowed: there no cap keeps a request
  from being sent again, only the journal does.
- `MaxChanges` bounds what Arr and the user do in one behaviour. Two are enough
  for a race in the preflight and one during the mutations, and for a replacement
  that regroups the episodes and is judged in its turn. MediaPack
  has none, because its question is what lost answers, failed saves, restarts and
  the other worker do; it has the full choice of those.
- Failures are not bounded: any request, read or save may fail, and the process
  may die, any number of times.
- Jobs has two lock objects; the third party of the lock race
  is the worker that comes back with the next job. `MaxStored` is met when both
  jobs are stored, so its refusal is only reached by a third key, and no
  property rests on it. `MaxFailures` 1 makes the count saturate at once.
- The two jobs runs share the kinds of errors (`Errors`). Jobs has those after which
  a job is tried again, or is cut off by shutdown. JobsLive has those after which
  it is not: a job that needs review leaves its worker, and what fills the channel
  again and again is redelivery. With "retry" TLC does not finish the liveness
  check in reasonable time; `NoRestWhileWaitingCorrect` and `PoolFallsCorrect` hold
  for any `Errors`.
- QueueScan and QueueRace: a second download is what recovery looks for when it
  asks what else is live, and what a scan's marks can mislead; a third adds no
  relation. One change is enough for any single stale read; QueueRace allows two
  (a row and a library change, or a row that comes and goes) and takes the rest
  away: no unparsed row, no `stuck` state (`Moves`), no media operations.
- ImportPack has partial imports, residual rows and, with a file of both episodes
  beside a file of each, ambiguous coverage. Each window of `raced` is between two
  neighbouring looks, so one change is enough to fall into any of them. `MaxHistory`
  leaves room for the grab, an earlier import,
  the one submitted and one more. `Erasable` allows `ClearHistory`.
- StateFile: two processes are what a lock is for. No counter is bounded: failures,
  deaths and power losses occur any number of times. Four contents leave two that
  neither the empty file nor the first start writes.
- Scans: three files are one more than the slots, two attempts leave one to be
  repeated. Two subtitle files are enough for one that appears while the other
  goes; three changes fall between any three of the comparisons. Pages of one row
  make every request a page boundary; `MaxPages` is met by four rows. `MCContents`
  and `MCLogs` have a stream or a line of each class the code distinguishes.
- Symmetry is used in a safety run only: over lock objects and workers (Jobs).

Fairness.

- `MediaFairness`: the Go runtime schedules every goroutine (weak fairness of
  `Progress`), `sync.Mutex` has a starvation mode (strong fairness of `Enter`),
  every request has a timeout, and a failed save is an outcome, not a wait.
  Nothing is assumed of `Probe`, `Abort`, the surroundings, `Die` or `Restart`.
- `JobsFairness`: the same for `Run` and `Lock`. A job's context ends after 30
  minutes (`guard/service.go:108`), so `Process` ends. The ticker fires every ten
  seconds, and it visits the stored jobs in the random order of a Go map, so a
  job that could be sent again and again is sent eventually (strong fairness of
  `Dispatch`); time passes (`Elapse`). Nothing is assumed of deliveries, of
  shutdown or of a restart.
- `ScanFairness`: the scan's loop and each goroutine of a file are scheduled again
  (weak fairness); requests and ffprobe have timeouts, so an attempt ends. Weak
  fairness is enough, because a free slot stays free until the loop takes it.
  Nothing is assumed of `ListFiles` or of `Cancel`.

## What the checks show

The journal holds. Under every combination of failed saves, crashes, restarts
and contending workers, an operation is a latch, and no request of it leaves
twice or unannounced. The price is the one the code names: an operation whose
answer was lost stays in the journal until somebody reconciles it.

`JudgedBefore`, `NoDoubleSearch` and `NotForgotten` hold with the exception of
changes in the windows `raced` names, which lie between a read and the very next
requests. The windows are as small as Arr's interface allows.

`WithinBudget` holds because `Begin` saves counters and journal entry in one
file, charges the highest count to all episodes of the file, and because one
exhausted episode protects a combined file.

`NothingStranded` is the strongest statement about the queue scan: whatever
changes, when a removal is completed each of its episodes has a file, was
searched for, or had a live download when the scan looked. It does not say that
this download was still live at the end: the scan looks once. A download that was
removed and is blocked again is skipped; `SentOnce` shows that nothing is repeated,
and no property asks for more.

The import holds under lost answers, early ends of the command, imports by hand
and two changes: nothing is submitted twice, an old import is never taken for
the new one, and the row of a download somebody needs is not removed. The
windows of `raced` are again those Arr's interface leaves. An uncertain cleanup
stays in the journal for good, as the documentation says.

The system calls of a save keep their promise (`KeepsPromise`) whatever is cut off:
flushing the file before the rename, and the directory after it, are both needed,
and TLC shows it for each. A start rewrites the file before `Bind` returns, and a
start that fails leaves the choice open; the promise allows exactly that.

`JudgedAtOnce` is the reason for the second look at the subtitle files. The moment
at which everything a verdict rests on was true is the second listing: each first
look lies before it, each second look after it, and a version that is the same in
both was there at the moment between. It needs that no version comes back once
another file has taken its name, and that a media file is not moved away and back.

`EnglishProtected` leaves one way to reject a file that has an English subtitle:
the log blames the media, ffprobe listed no subtitle whatsoever, and no subtitle
file lies next to it. A report that lost one of several subtitles is put off. This
rests on codec names telling subtitles from other streams (`CodecAssumption`).

`MissesOnlyRemoved` says what `readArrPages` can promise, and no more: a row removed
from a page that was read moves its successors one page forward, where nobody
looks. The check of repeated IDs notices insertions and not this, and the total
agrees. Lists of one page (1000 rows) are read at one moment. The other modules read
queue and history in one step; for longer lists that is an abstraction.

Two runs end in a violation.

*JobsAcknowledged.* `docs/README.md:98` says the handler "persists a
minimal job before acknowledging HTTP 202". When the save that removes a
finished job fails after its rename, memory keeps the job and the file does not
have it. From then on `AddWebhook` acknowledges every redelivery of it as a
duplicate (`guard/jobs.go:57`), without a save and without looking at `writeErr`,
and a restart finds no job. `AcceptedIsDurable` shows the limit of the harm: the
files of such a job had been processed before, so what is lost is a fresh
evaluation.

*ImportLoads.* Between the plan, which needs history, and the read at
`guard/manual_import.go:302` the history of the download may be cleared. Then
`HistoryAfter` stays 0, is journalled and the import is submitted; but the loader
calls such a journal invalid (`:574`), and the next process does not start.

## Proofs

TLAPS proves these for every value of the constants. The assumptions are the
named `ASSUME`s of the modules (types of the constants; `RequestAssumption`: two
requests under one key fence each other; `QueueAssumption`: the key of a queue
operation is its download's own, and `MaxAttempts` is no larger than a counter can
be, as `config/config.go:84` ensures; `MediaRequests`; `JobsAssumption`: a job has a
file), which TLC evaluates in
every run.

`StateStoreProofs`, over `Spec` of `StateStore`:

| theorem | says |
|---|---|
| `TypeCorrect` | `[]TypeOK` |
| `FenceCorrect` | `[]FenceUnique` |
| `DoneOnceCorrect` | `[]DoneOnce` |
| `DurableCorrect` | `[]MemIsDisk` |
| `FrozenCorrect` | `FrozenAfterFailure` |
| `LatchHoldsCorrect` | `LatchHolds` |
| `LatchImplemented` | `Spec => Latch!LatchSpec` |
| `ServerBoundCorrect` | `[]ServerBound` |
| `BudgetKeptCorrect` | `BudgetKept` |
| `BoundOnce` | a start that is repeated from what it left in the file changes nothing |

`FenceUnique` and `DoneOnce` speak of memory and file, but `Begin` looks at
memory only. What carries them is `MemIsDisk`: an update happens only while no
save has failed, and then the two are equal, so what `Begin` excludes in
memory is excluded in the file. After a failed save nothing is written, so
whichever content the file has, it was built from that equal state. The
invariant also says that an entry under a key is the entry of a request with
that key, which with `RequestAssumption` makes re-begun keys fence each other.
One lemma per operator (`WithPhase`, `WithCompletion`, ...) says what it keeps;
the step proof has one case per action. `ServerBound` needs `ServerInv`: both
copies of the state are bound to the server each unfinished operation was begun
against, and a running process is configured for no other.

A legacy composite counter protects several keys until it is split, so what must
not fall is `Budget`, the highest of the counters that protect a key.
`Highest` is a `CHOOSE`; that a bounded set has a maximum follows from the
well-foundedness of `<` on `Nat`, applied to the set's upper bounds
(`HighestBounds`). `SplitInv` adds that no composite counter is left in memory
while a process runs, so a charge raises the very counter the budget is read from.
`BoundOnce` is about `Migrated` and `Bound` alone: a state that is split and bound is
loaded as it is, which is what `AcknowledgedState` assumes of its `Bound`.

`RemediationProofs`, over `MediaSpec`:

| theorem | says |
|---|---|
| `MediaImplementsStore` | `MediaSpec => Spec`: the store's theorems hold of the workers |
| `OnceOnlyCorrect` | `[]OnceOnly` |
| `ExclusiveCorrect` | `[]Exclusive` |
| `PersistedBeforeCorrect` | `PersistedBefore` |
| `WithinBudgetCorrect` | `MaxAttempts <= MaxInt => MediaSpec => []WithinBudget` |
| `MediaTypeCorrect` | `[]MediaTypeOK` |
| `NoDoubleSearchCorrect` | `[]NoDoubleSearch` |
| `NotForgottenCorrect` | `[]NotForgotten` |
| `JudgedBeforeCorrect` | `JudgedBefore` |
| `MediaNeverStuckCorrect` | a busy worker has a step to take, or waits for one that has |
| `OnlyForwardCorrect` | each step of a worker is one of a bounded number |
| `AsksInOrderCorrect` | `AsksInOrder`, that is `MediaSpec => Ledger!LedgerSpec` |

`OnceOnly` is far from inductive. Its strengthening `MInv` says: the holder of
`mutationMu` is the only worker past it (`Exclusive`); a worker at a stage after
`Begin` finds its own operation in memory with the phase that stage implies, and
the requests that stage has yet to send have not been sent (`StageInv`); a file
that is neither journalled nor completed, in memory and in the file, has sent
nothing (`Fresh`). A worker that begins an operation therefore starts from
zero, and one that dies or fails leaves an entry that keeps the next one out.
`PersistedBefore` follows from `StageInv` and `MemIsDisk`.

`WithinBudget` counts deletions, which are charged before they are sent, in both
copies of the state. `BudgetInv` says: no counter, in memory or in the file, is below
the deletions it paid for (`Charged`); a worker between its check and `Begin` has
found an attempt left in each of its episodes, and one about to delete has had them
raised (`Paid`). A worker can rely on what it read because `mutationMu` keeps every
other worker that charges or resets out (`Exclusive`). The hypothesis is
`config/config.go:84` (at most 1000): without it a counter could saturate below the
budget. The run that checks the property satisfies it.

`WindowInv` carries the last three. It says what each stage's looks are still worth:
the file, the mapping or the policy a worker looked at is as it was, or is among the
things in `raced`. Only the world can come between a look and what rests on it,
since a worker that deletes or searches holds `mutationMu`. `Remembered` is
`NotForgotten` in the form that survives a step: a file is in the journal on disk, or
each episode that lost it was searched for, by the guard or by Arr, or has a file
again, or something was in `raced` (`Settled`). An operation leaves the journal only
with the `Finish` of a worker whose file is `Settled` (`CompletedBy`).

`AsksInOrder` is read off the file alone, which between two processes is all there is.
What makes each step one of the ledger is `StageInv`: a stage says what its operation
announced and which requests were sent. A save that closes or announces is a step
whether it returned or failed after the rename; one that failed before it is a stutter.

The next two are about `Returns`. `MayGoOn(w)` spells out when `w` has a step: the lock
is free, a save finds its operation in memory or is refused, `Begin` has a reason to
refuse or an attempt to charge. `HeldInv` says that the lock is with a worker that is
past it. `OnlyForward` says that nobody sets a worker back, and that its own steps lead
to a later stage, or take an episode from those to reset.

`QueueRecoveryProofs`, over `RecoverySpec`:

| theorem | says |
|---|---|
| `RecoveryImplementsStore` | `RecoverySpec => Spec` |
| `RecoveryTypeCorrect` | `[]RecoveryTypeOK` |
| `SentOnceCorrect` | `[]SentOnce` |
| `SearchBudgetCorrect` | `[]SearchBudget` |
| `RemovalJudgedCorrect` | `RemovalJudged` |
| `NothingStrandedCorrect` | `NothingStranded` |
| `RecoveryAsksInOrder` | `AsksInOrder`, that is `RecoverySpec => Ledger!LedgerSpec` |

One invariant, `OnceInv`, carries `SentOnce` and `SearchBudget`, because a search is
both sent and charged. It says of both copies of the state: a download with no trace in the
journal has sent nothing, and one whose search is not announced has sent no
search (`Unsent`); no episode was searched for more often than its counter says
(`Charged`); from `Begin` to the search each target is charged once more than it
was searched for (`At`). About to begin, each target has an attempt left
(`Budgeted`); with `MaxAttempts` within the counters' range the charge is then
not lost to saturation (`ChargeRaises`). A failed save sends the scan back to a
stage of which nothing is claimed (`SavedKeeps`); splitting composite counters
at a restart lowers no budget (`BudgetKeptCorrect`).

`WindowInv` carries the other two. `Judged` says of the group what the reads before
the removal are still worth; `Planned` says which episodes the scan has yet to care for.
The interesting part is `Marked`: a download marks its keys as searched before its
search is sent, and the search may then fail, so that a later download of the scan
would leave those episodes out for nothing. What prevents it is the journal: the
operation that failed is still unfinished, and it fences every other removal of the
series (`Blocked`, `NotFenced`) until the process, and with it the marks, is gone.

For `AsksInOrder`, `PlaceInv` adds to `OnceInv` what a stage knows of its operation: that
a removal was sent before anything that follows it, and the search before the end. That
is said of memory, from which the next save is built. Of the file it speaks only where a
request is about to be sent: there another caller's save may have failed, but it left
this download alone (`SameTrace`).

`ManualImportProofs`, over `ImportSpec`:

| theorem | says |
|---|---|
| `ImportImplementsStore` | `ImportSpec => Spec` |
| `ImportedOnceCorrect` | `[]ImportedOnce` |
| `ImportTypeCorrect` | `[]ImportTypeOK` |
| `JournalCoversCorrect` | `[]JournalCovers` |
| `ImportJudgedCorrect` | `ImportJudged` |
| `CompletedIsVerifiedCorrect` | `CompletedIsVerified` |
| `CleanupHarmlessCorrect` | `CleanupHarmless` |
| `ImportAsksInOrder` | `AsksInOrder`, that is `ImportSpec => Ledger!LedgerSpec` |

Its `OnceInv` has the same two parts for the submission and the removal: what a
journal in an earlier phase excludes (`Unsent`), and what a stage that has yet to
send has announced (`At`). `WindowInv` carries the others. `Locals` is what a stage
says whatever Arr does: the chosen files cover the targets exactly, the evidence is in
the history. `Judged`, before the submission, and `Verified`, after it, say what the
stage's looks are still worth: all of it, but for what is in `raced`. A step of Arr, of
the library or of the user takes no more from under a window than it adds to `raced`
(`Drifts`), so it keeps the window (`DriftWindow`). Only `BeginImport` writes the
journal, which makes `CarriedOnce` an invariant of its own. `PlaceInv` does for
`AsksInOrder` what it does in `QueueRecoveryProofs`. The import may be announced, not
sent and yet completed: history and library decide. The removal may not.

`JobsProofs`, over `JobsSpec`:

| theorem | says |
|---|---|
| `JobsTypeCorrect` | `[]JobsTypeOK` |
| `FileExclusiveCorrect` | `[]FileExclusive` |
| `RunOnceCorrect` | `[]RunOnce` |
| `AcceptedIsDurableCorrect` | `[]AcceptedIsDurable` |
| `ClaimsAreGoodCorrect` | `[]ClaimsAreGood` |
| `RemovedWhenServedCorrect` | `RemovedWhenServed` |
| `NeverStuckCorrect` | a worker that has a job may go on, or waits for a file lock whose owner may |
| `NoRestWhileWaitingCorrect` | while a job waits, time, the ticker or a worker has a step |
| `PoolFallsCorrect` | during shutdown every step of a worker leaves less to do |

One invariant, `JInv`, carries the first six, for any number of jobs, files and workers and
a channel of any capacity. A lock object is in the map from its first user to its
last: its reference count is the number of workers that hold it (`LockInv`), so the
object a worker drops is used by nobody, and a worker that owns its object owns the
only one there is for its file. `ScheduleInv` is `RunOnce` with the channel free of
repetitions. `ServedInv` is what makes a job safe to remove: as long as a run has met
no error, the files of its job are served or still ahead of it (`Ahead`), so at its
end they all are; and a job that memory still has, or that was acknowledged, is in
the file or served, whatever a failed save left there.

The last three are about `ShutdownEnds` and `GetsItsTurn`. `WaitInv` adds to `JInv` that
the owner of a lock is a worker that is past waiting for it, so nobody waits for a
worker that waits. `NeverStuckCorrect` and `NoRestWhileWaitingCorrect` have the
hypothesis `EnoughLocks`: the code allocates a lock when it needs one, the model has a
set of them, and one for each worker or for each file is as good as any number. That
there is a free one is counting (`LockToBeHad`). What `PoolFalls` counts is the
channel and, for each worker, the files still to do and the steps left for this one.

`StateFileProofs`, over `FileSpec`:

| theorem | says |
|---|---|
| `FileTypeCorrect` | `[]FileTypeOK` |
| `WholeFileCorrect` | `[]WholeFile` |
| `KeepsPromiseCorrect` | `KeepsPromise`, that is `FileSpec => Promise!AcknowledgedSpec` |

The invariant says what each stage of a save knows: whose lock it is, that the
temporary file holds the new state and, from the rename on, is flushed, and which
contents the survivors can have (`previous` and `state`, nothing else). With it each
system call is a step of `AcknowledgedState` or a stutter.

`SettledStateProofs`, over `AcknowledgedState` and `SettledSpec`:

| theorem | says |
|---|---|
| `NeverRefused` | whatever is foretold after a step, something that leads to it could be foretold before |
| `SettlesEarlyCorrect` | `SettledSpec => SettlesEarly`, that is, the steps of `DurableState` |

A failed save in `AcknowledgedState` leaves two contents; a later start, or a start that
fails, may choose. `DurableState` chooses at the failed save, so the refinement needs to
know the outcome, which is what a prophecy variable is. `NeverRefused` is why adding it
is sound: a prophecy can be traced back from any step to the first state, so no finite
behaviour is excluded, and, since there are only finitely many contents to foretell in
any state, no infinite one either. That last argument, over whole behaviours, is the usual one for
prophecy variables and is not mechanised. Both theorems have the hypothesis `BindsOnce`,
which `BoundOnce` justifies. Together with `KeepsPromiseCorrect` they lead from the
system calls of a save to the one step the other modules make of it.

`ReadProofs`, over `ScanSpec`, `PagedSpec` and `ProbeSpec`:

| theorem | says |
|---|---|
| `EveryFileAccountedCorrect` | `[]EveryFileAccounted` |
| `MissesOnlyRemovedCorrect` | `[]MissesOnlyRemoved` |
| `JudgedAtOnceCorrect` | `[]JudgedAtOnce` |
| `EnglishProtectedCorrect` | `[]EnglishProtected` |
| `ScanNeverStuckCorrect` | a scan that has not returned has a step to take |
| `ScanFallsCorrect` | each step of a scan, but a cancellation, is one of a bounded number |

`MissesOnlyRemoved` is counting: rows read have distinct IDs, each is listed still
or was removed, and there are at least as many as are listed now; so what is listed
and was not read is no more than what was read and removed. `ProbeInv` orders the
versions: before ffprobe, what ffprobe read, the second listing (`Anchor`), now. Equal
ends make all between them equal. `TrustedIsComplete` is the lemma on diagnostics:
a log all of whose lines are ignorable excuses no lost stream. `ScanNeverStuck` is where
a slot that a goroutine kept would show: without running goroutines a slot is free.

With these, every safety property a passing run checks is proved.

What is proved of liveness. `Returns`, `ShutdownEnds` and `ScanEnds` each rest on three
things: as long as the goal is not reached somebody has a step to take; each such step
lowers a rank; no other step raises it. These are safety, and the theorems above prove
them for every value of the constants. The rule that concludes from them, under the
fairness of `MediaFairness`, `JobsFairness` and `ScanFairness`, that the goal is reached
needs ENABLED and well-founded induction over behaviours, which the prover does not
handle; the conclusion itself is checked by TLC. Two parts have no rank. That a worker
gets `mutationMu` at all, when others keep coming, is the fairness of the mutex; that a
waiting job gets its turn (`GetsItsTurn`) is the random order of the ticker. There
only the absence of a standstill is proved (`NoRestWhileWaitingCorrect`).

## Abstractions

- A kind of Arr instance, a file, an episode and a download are model values. A
  retry key is an episode; Radarr takes the same steps with one movie per file.
- In `Remediation` and `ManualImport` what a probe finds is "good" or "bad", in one
  step. `sameMedia` and the subtitle snapshot are a comparison of that content.
  `JudgedAtOnce` is what justifies it: the content was there at one moment.
- In `Probe` a file is its version and, for the media file, its streams. Language
  codes and the words in a log line are classes; names of subtitle files are
  sequences of parts. The directory itself is not replaced. A size that differs from
  the one Arr knows (`guard/remediation.go:96`) is one of the outcomes of `Defer`.
- `Scan` has one server (`Audit` visits them one after the other) and no dry run.
- Queue recovery is Sonarr, with one series; a movie is a series of one episode.
  A row that is reassigned to another series or download is a refusal there and
  left out.
- In `ManualImport` a library file is the index of its import in the history.
  The fields of a candidate that must agree, and the parser that reads episodes
  off a file name (`guard/manual_import_identity.go`), are a fixed mapping
  `Carries`; a disagreement is a candidate that is not listed. Targets covered by
  other live downloads are `QueueRecovery`'s; the comparison of output paths is
  left out, the other instance's row (`Elsewhere`) is not.
- Log output, HTTP decoding, authorization and the wording of errors are left
  out. An error is an early return.
- The state mutex makes each update one step. The system calls under it are
  summarised by the two outcomes of a failed save, which `StateFile` justifies.
- Dry run: it takes the same reads and no mutation, and keeps its jobs in the
  channel only. It is not modelled. `Increment` of the store has no caller
  outside tests and is left out.

## Not modelled

- Path mapping (`pathutil/`): string operations without state. A mapped path is a
  name.
- Configuration (`config/`): read once at startup, one value at a time.
- HTTP and JSON (`arr/transport.go`, `arr/model.go`, `arr/webhook.go`,
  `guard/http.go`): a call is answered, refused or lost.
- Whether an error may be retried (`guard/retry.go`) is a free choice; the length of
  a pause does not exist.
- The report of unmatched files: two reads and a comparison, nothing is changed.
- The parser of episode numbers (`guard/manual_import_identity.go`): a fixed mapping.

## What is left

Liveness of the import: a command that succeeds, in a world that comes to rest, is
completed. It needs an instance in which Arr and everybody else stop, and fairness of
Arr's own worker, which the repository does not show.
