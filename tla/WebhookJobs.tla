---------------------------- MODULE WebhookJobs ----------------------------
(***************************************************************************)
(* Durable webhook jobs and the workers that process them                  *)
(* (guard/jobs.go, guard/service.go): a delivery is saved before it is     *)
(* acknowledged, a ticker hands saved jobs to a pool of workers through a  *)
(* bounded channel, the files of a job are processed one after another     *)
(* under per-file locks, recently processed files are skipped, and the     *)
(* result is saved.  Shutdown, crashes and failed saves happen anywhere.   *)
(*                                                                         *)
(* What processing a file does is Remediation's subject; here it succeeds, *)
(* fails in a way that may be retried, fails in a way that needs review,   *)
(* or is cancelled.  Actions of Enqueue, dispatchStoredJobs, finishJob and *)
(* StopWorkers are atomic because all of them hold enqueueMu.              *)
(***************************************************************************)
EXTENDS Naturals, Sequences, FiniteSets, DurableState

CONSTANTS
    Jobs,         \* keys of stored webhooks: hash of kind, files and download
    Files,        \* operation keys of media files
    FilesOf,      \* the files of a job, in the order they are processed
    Workers,
    NoWorker,
    LockIds,      \* fileLock objects
    NoLock,
    NoJob,
    NoEntry,      \* no stored webhook under a key
    NoFile,
    Capacity,     \* of the channel, 4 * WORKERS
    MaxStored,    \* 1000 stored webhooks
    MaxFailures,  \* maxWebhookBackoffFailures
    Errors        \* how processing a file may fail

ASSUME JobsAssumption ==
    /\ FilesOf \in [Jobs -> Seq(Files)]
    /\ \A k \in Jobs : FilesOf[k] # <<>>
    /\ NoWorker \notin Workers
    /\ NoLock \notin LockIds
    /\ NoJob \notin Jobs
    /\ NoFile \notin Files
    /\ Capacity \in Nat \ {0}
    /\ MaxStored \in Nat
    /\ MaxFailures \in Nat \ {0}
    /\ Errors \subseteq {"retry", "review", "cancelled"}

Entry == [failures : 0 .. MaxFailures, review : BOOLEAN]

ASSUME NoEntryAssumption == NoEntry \notin Entry

VARIABLES
    \* in the state file besides open, mem, disk and writeErr
    ripe,         \* jobs whose NextAttempt has passed
    \* the process
    ctxDone,      \* the workers' context is cancelled
    stopping,     \* StopWorkers was called
    queue,        \* the channel jobs
    scheduled,    \* jobs that are in the channel or with a worker
    handled,      \* files claimed, or processed within webhookDedupTTL
    locks,        \* Service.locks: the lock object of a file
    refs,         \* its waiters and owner
    owner,        \* the worker that holds a lock object
    pc,
    work,         \* local variables of a worker
    \* history
    owed,         \* jobs with an acknowledged delivery that no finished run served
    good,         \* files whose last processing, within webhookDedupTTL, succeeded
    served        \* files of a job processed or skipped since it was stored

poolVars == <<ctxDone, stopping, queue, scheduled, handled>>
lockVars == <<locks, refs, owner>>
workerVars == <<pc, work>>
historyVars == <<owed, good, served>>
jobVars == <<durableVars, ripe, poolVars, lockVars, workerVars, historyVars>>

Stored(s) == {k \in Jobs : s[k] # NoEntry}
FileSet(k) == {FilesOf[k][i] : i \in 1 .. Len(FilesOf[k])}

Idle == [job |-> NoJob, todo |-> <<>>, errors |-> {}, file |-> NoFile, lock |-> NoLock]

Stages == {"gone", "idle", "files", "lock", "claim", "process", "unlock", "release"}

-----------------------------------------------------------------------------
(* Deliveries (Enqueue and AddWebhook). *)

NewEntry == [failures |-> 0, review |-> FALSE]

\* Mutant: a delivery is acknowledged whether or not it was saved.
AddJobAnyway(k) ==
    /\ Update([mem EXCEPT ![k] = NewEntry])
    /\ owed' = owed \cup {k}
    /\ ripe' = IF writeErr' THEN ripe ELSE ripe \cup {k}

\* A saved delivery is acknowledged; one whose save failed is not.
AddJob(k) ==
    /\ Update([mem EXCEPT ![k] = NewEntry])
    /\ owed' = IF writeErr' THEN owed ELSE owed \cup {k}
    /\ ripe' = IF writeErr' THEN ripe ELSE ripe \cup {k}

\* A new webhook, or the redelivery of one that was paused for review.
Enqueue(k) ==
    /\ open /\ ~stopping
    /\ \/ /\ k \notin Stored(mem)
          /\ Cardinality(Stored(mem)) < MaxStored
          /\ AddJob(k)
          /\ served' = IF k \in Stored(disk') THEN [served EXCEPT ![k] = {}] ELSE served
       \/ /\ k \in Stored(mem) /\ mem[k].review
          /\ AddJob(k)
          /\ UNCHANGED served
    /\ UNCHANGED <<poolVars, lockVars, workerVars, good>>

\* A redelivery of a job that is stored anyway is acknowledged as it is.
Coalesce(k) ==
    /\ open /\ ~stopping
    /\ k \in Stored(mem) /\ ~mem[k].review
    /\ owed' = owed \cup {k}
    /\ UNCHANGED <<durableVars, ripe, poolVars, lockVars, workerVars, good, served>>

\* Mutant: a job is sent again while it runs.
DispatchAgain(k) ==
    /\ open /\ ~stopping
    /\ k \in Stored(mem)
    /\ ~mem[k].review
    /\ k \in ripe
    /\ Len(queue) < Capacity
    /\ queue' = Append(queue, k)
    /\ scheduled' = scheduled \cup {k}
    /\ UNCHANGED <<durableVars, ripe, ctxDone, stopping, handled, lockVars, workerVars,
                   historyVars>>

\* dispatchStoredJobs for one job; it skips what it cannot send.
Dispatch(k) ==
    /\ open /\ ~stopping
    /\ k \in Stored(mem) \ scheduled
    /\ ~mem[k].review
    /\ k \in ripe
    /\ Len(queue) < Capacity
    /\ queue' = Append(queue, k)
    /\ scheduled' = scheduled \cup {k}
    /\ UNCHANGED <<durableVars, ripe, ctxDone, stopping, handled, lockVars, workerVars,
                   historyVars>>

-----------------------------------------------------------------------------
(* Workers. *)

At(w, stage, locals) ==
    /\ pc' = [pc EXCEPT ![w] = stage]
    /\ work' = [work EXCEPT ![w] = locals]

Take(w) ==
    /\ pc[w] = "idle"
    /\ queue # <<>>
    /\ queue' = Tail(queue)
    /\ At(w, "files", [Idle EXCEPT !.job = Head(queue), !.todo = FilesOf[Head(queue)]])
    /\ UNCHANGED <<durableVars, ripe, ctxDone, stopping, scheduled, handled, lockVars,
                   historyVars>>

\* acquireFileLock, under locksMu: find or create the lock and count oneself in.
Reference(w) ==
    LET f == Head(work[w].todo)
    IN  /\ pc[w] = "files"
        /\ work[w].todo # <<>>
        /\ \E l \in LockIds :
              /\ IF locks[f] = NoLock
                 THEN refs[l] = 0 /\ \A g \in Files : locks[g] # l
                 ELSE l = locks[f]
              /\ locks' = [locks EXCEPT ![f] = l]
              /\ refs' = [refs EXCEPT ![l] = @ + 1]
              /\ At(w, "lock", [work[w] EXCEPT !.todo = Tail(@), !.file = f, !.lock = l])
        /\ UNCHANGED <<durableVars, ripe, poolVars, owner, historyVars>>

\* lock.mu.Lock
Lock(w) ==
    /\ pc[w] = "lock"
    /\ owner[work[w].lock] = NoWorker
    /\ owner' = [owner EXCEPT ![work[w].lock] = w]
    /\ At(w, "claim", work[w])
    /\ UNCHANGED <<durableVars, ripe, poolVars, locks, refs, historyVars>>

\* Mutant: a skipped file's lock is not released.
ClaimLeaking(w) ==
    LET f == work[w].file
        k == work[w].job
    IN  /\ pc[w] = "claim"
        /\ \/ /\ f \in handled
              /\ served' = [served EXCEPT ![k] = @ \cup {f}]
              /\ At(w, "files", [work[w] EXCEPT !.file = NoFile, !.lock = NoLock])
              /\ UNCHANGED handled
           \/ /\ f \notin handled
              /\ handled' = handled \cup {f}
              /\ At(w, "process", work[w])
              /\ UNCHANGED served
        /\ UNCHANGED <<durableVars, ripe, ctxDone, stopping, queue, scheduled, lockVars, owed,
                       good>>

\* claimWebhook: a file processed a short while ago is skipped.
Claim(w) ==
    LET f == work[w].file
        k == work[w].job
    IN  /\ pc[w] = "claim"
        /\ \/ /\ f \in handled
              /\ served' = [served EXCEPT ![k] = @ \cup {f}]
              /\ At(w, "unlock", work[w])
              /\ UNCHANGED handled
           \/ /\ f \notin handled
              /\ handled' = handled \cup {f}
              /\ At(w, "process", work[w])
              /\ UNCHANGED served
        /\ UNCHANGED <<durableVars, ripe, ctxDone, stopping, queue, scheduled, lockVars, owed,
                       good>>

\* Mutant: the claim of a failed file stays.
ProcessKeepingClaim(w) ==
    LET f == work[w].file
        k == work[w].job
    IN  /\ pc[w] = "process"
        /\ \/ /\ good' = good \cup {f}
              /\ served' = [served EXCEPT ![k] = @ \cup {f}]
              /\ At(w, "unlock", work[w])
           \/ \E e \in Errors :
                 /\ e = "cancelled" => ctxDone
                 /\ good' = good \ {f}
                 /\ At(w, "unlock", [work[w] EXCEPT !.errors = @ \cup {e}])
                 /\ UNCHANGED served
        /\ UNCHANGED <<durableVars, ripe, poolVars, lockVars, owed>>

\* Mutant: the result of a batch is that of its last file.
ProcessLastError(w) ==
    LET f == work[w].file
        k == work[w].job
    IN  /\ pc[w] = "process"
        /\ \/ /\ good' = good \cup {f}
              /\ served' = [served EXCEPT ![k] = @ \cup {f}]
              /\ At(w, "unlock", [work[w] EXCEPT !.errors = {}])
              /\ UNCHANGED handled
           \/ \E e \in Errors :
                 /\ e = "cancelled" => ctxDone
                 /\ handled' = handled \ {f}
                 /\ good' = good \ {f}
                 /\ At(w, "unlock", [work[w] EXCEPT !.errors = {e}])
                 /\ UNCHANGED served
        /\ UNCHANGED <<durableVars, ripe, ctxDone, stopping, queue, scheduled, lockVars, owed>>

\* The file is processed and finishWebhook keeps the claim of a success only.
Process(w) ==
    LET f == work[w].file
        k == work[w].job
    IN  /\ pc[w] = "process"
        /\ \/ /\ good' = good \cup {f}
              /\ served' = [served EXCEPT ![k] = @ \cup {f}]
              /\ At(w, "unlock", work[w])
              /\ UNCHANGED handled
           \/ \E e \in Errors :
                 /\ e = "cancelled" => ctxDone
                 /\ handled' = handled \ {f}
                 /\ good' = good \ {f}
                 /\ At(w, "unlock", [work[w] EXCEPT !.errors = @ \cup {e}])
                 /\ UNCHANGED served
        /\ UNCHANGED <<durableVars, ripe, ctxDone, stopping, queue, scheduled, lockVars, owed>>

\* releaseFileLock: first the lock ...
Unlock(w) ==
    /\ pc[w] = "unlock"
    /\ owner' = [owner EXCEPT ![work[w].lock] = NoWorker]
    /\ At(w, "release", work[w])
    /\ UNCHANGED <<durableVars, ripe, poolVars, locks, refs, historyVars>>

\* Mutant: the map entry goes with the first reference.
ReleaseEarly(w) ==
    /\ pc[w] = "release"
    /\ refs' = [refs EXCEPT ![work[w].lock] = @ - 1]
    /\ locks' = [locks EXCEPT ![work[w].file] = NoLock]
    /\ At(w, "files", [work[w] EXCEPT !.file = NoFile, !.lock = NoLock])
    /\ UNCHANGED <<durableVars, ripe, poolVars, owner, historyVars>>

\* ... then, under locksMu, the reference, and the map entry with the last one.
Release(w) ==
    LET f == work[w].file
        l == work[w].lock
    IN  /\ pc[w] = "release"
        /\ refs' = [refs EXCEPT ![l] = @ - 1]
        /\ locks' = IF refs[l] = 1 /\ locks[f] = l THEN [locks EXCEPT ![f] = NoLock] ELSE locks
        /\ At(w, "files", [work[w] EXCEPT !.file = NoFile, !.lock = NoLock])
        /\ UNCHANGED <<durableVars, ripe, poolVars, owner, historyVars>>

\* Mutant: failures are counted without a limit.
FailedAgain(entry, errors) ==
    [failures |-> entry.failures + 1, review |-> "retry" \notin errors]

\* The error of a batch may be retried if one of its files' errors may.
Failed(entry, errors) ==
    [failures |-> IF entry.failures < MaxFailures THEN entry.failures + 1 ELSE MaxFailures,
     review |-> "retry" \notin errors]

\* The state FinishWebhook saves.
Result(k, errors) ==
    [mem EXCEPT ![k] = IF errors = {} THEN NoEntry ELSE Failed(mem[k], errors)]

\* Mutant: only a job that succeeded is unscheduled.
FinishKeeping(w) ==
    LET k == work[w].job
        errors == work[w].errors
    IN  /\ pc[w] = "files"
        /\ work[w].todo = <<>>
        /\ \/ /\ stopping \/ "cancelled" \in errors \/ writeErr
              /\ UNCHANGED <<durableVars, ripe>>
           \/ /\ ~stopping /\ "cancelled" \notin errors
              /\ Update(Result(k, errors))
              /\ ripe' = IF writeErr' \/ errors = {} THEN ripe ELSE ripe \ {k}
        /\ scheduled' = IF errors = {} THEN scheduled \ {k} ELSE scheduled
        /\ owed' = IF errors = {} THEN owed \ {k} ELSE owed
        /\ At(w, "idle", Idle)
        /\ UNCHANGED <<ctxDone, stopping, queue, handled, lockVars, good, served>>

\* finishJob; on shutdown and after a failed save the job stays as it is.
Finish(w) ==
    LET k == work[w].job
        errors == work[w].errors
    IN  /\ pc[w] = "files"
        /\ work[w].todo = <<>>
        /\ \/ /\ stopping \/ "cancelled" \in errors \/ writeErr
              /\ UNCHANGED <<durableVars, ripe>>
           \/ /\ ~stopping /\ "cancelled" \notin errors
              /\ Update(Result(k, errors))
              /\ ripe' = IF writeErr' \/ errors = {} THEN ripe ELSE ripe \ {k}
        /\ scheduled' = scheduled \ {k}
        /\ owed' = IF errors = {} THEN owed \ {k} ELSE owed
        /\ At(w, "idle", Idle)
        /\ UNCHANGED <<ctxDone, stopping, queue, handled, lockVars, good, served>>

\* The select of an idle worker may see the end instead of a job.
Quit(w) ==
    /\ pc[w] = "idle"
    /\ ctxDone
    /\ At(w, "gone", work[w])
    /\ UNCHANGED <<durableVars, ripe, poolVars, lockVars, historyVars>>

Run(w) ==
    \/ Take(w) \/ Reference(w) \/ Lock(w) \/ Claim(w) \/ Process(w)
    \/ Unlock(w) \/ Release(w) \/ Finish(w) \/ Quit(w)

-----------------------------------------------------------------------------
(* Time, shutdown, crash and restart. *)

Elapse(k) ==
    /\ k \notin ripe
    /\ ripe' = ripe \cup {k}
    /\ UNCHANGED <<durableVars, poolVars, lockVars, workerVars, historyVars>>

\* The entry of a processed file outlives webhookDedupTTL.  A file being
\* processed is claimed anew less than the job timeout ago.
Expire(f) ==
    /\ f \in handled
    /\ \A w \in Workers : pc[w] = "process" => work[w].file # f
    /\ handled' = handled \ {f}
    /\ good' = good \ {f}
    /\ UNCHANGED <<durableVars, ripe, ctxDone, stopping, queue, scheduled, lockVars, workerVars,
                   owed, served>>

\* A signal cancels the context of Run, from which the workers' is derived.
Cancel ==
    /\ open /\ ~ctxDone
    /\ ctxDone' = TRUE
    /\ UNCHANGED <<durableVars, ripe, stopping, queue, scheduled, handled, lockVars, workerVars,
                   historyVars>>

\* StopWorkers, up to its wait for the workers.
StopWorkers ==
    /\ open /\ ~stopping
    /\ stopping' = TRUE
    /\ ctxDone' = TRUE
    /\ UNCHANGED <<durableVars, ripe, queue, scheduled, handled, lockVars, workerVars,
                   historyVars>>

\* The memory of a process that ends or begins.
Emptied(stage) ==
    /\ ctxDone' = FALSE /\ stopping' = FALSE
    /\ queue' = <<>> /\ scheduled' = {} /\ handled' = {}
    /\ locks' = [f \in Files |-> NoLock]
    /\ refs' = [l \in LockIds |-> 0]
    /\ owner' = [l \in LockIds |-> NoWorker]
    /\ pc' = [w \in Workers |-> stage]
    /\ work' = [w \in Workers |-> Idle]
    /\ good' = {}

\* The process ends, after StopWorkers has returned or at any other moment.
Die ==
    /\ Crash
    /\ Emptied("gone")
    /\ UNCHANGED <<ripe, owed, served>>

\* Only a failed job has a NextAttempt that may lie ahead.
Restart ==
    /\ Starts(disk)
    /\ Emptied("idle")
    /\ \E later \in SUBSET {k \in Stored(disk) : disk[k].failures > 0} : ripe' = Jobs \ later
    /\ UNCHANGED <<owed, served>>

JobsInit ==
    /\ open = FALSE /\ writeErr = FALSE
    /\ disk = [k \in Jobs |-> NoEntry]
    /\ mem = disk
    /\ ripe = Jobs
    /\ ctxDone = FALSE /\ stopping = FALSE
    /\ queue = <<>> /\ scheduled = {} /\ handled = {}
    /\ locks = [f \in Files |-> NoLock]
    /\ refs = [l \in LockIds |-> 0]
    /\ owner = [l \in LockIds |-> NoWorker]
    /\ pc = [w \in Workers |-> "gone"]
    /\ work = [w \in Workers |-> Idle]
    /\ good = {}
    /\ owed = {}
    /\ served = [k \in Jobs |-> {}]

JobsNext ==
    \/ \E k \in Jobs : Enqueue(k) \/ Coalesce(k) \/ Dispatch(k) \/ Elapse(k)
    \/ \E w \in Workers : Run(w)
    \/ \E f \in Files : Expire(f)
    \/ Cancel \/ StopWorkers \/ Die \/ Restart

JobsSpec == JobsInit /\ [][JobsNext]_jobVars

-----------------------------------------------------------------------------
(* Correctness. *)

JobsTypeOK ==
    /\ open \in BOOLEAN /\ writeErr \in BOOLEAN
    /\ mem \in [Jobs -> Entry \cup {NoEntry}]
    /\ disk \in [Jobs -> Entry \cup {NoEntry}]
    /\ ripe \subseteq Jobs
    /\ ctxDone \in BOOLEAN /\ stopping \in BOOLEAN
    /\ queue \in Seq(Jobs) /\ Len(queue) <= Capacity
    /\ scheduled \subseteq Jobs
    /\ handled \subseteq Files
    /\ locks \in [Files -> LockIds \cup {NoLock}]
    /\ refs \in [LockIds -> Nat]
    /\ owner \in [LockIds -> Workers \cup {NoWorker}]
    /\ pc \in [Workers -> Stages]
    /\ work \in [Workers -> [job : Jobs \cup {NoJob}, todo : Seq(Files),
                             errors : SUBSET Errors, file : Files \cup {NoFile},
                             lock : LockIds \cup {NoLock}]]
    /\ owed \subseteq Jobs /\ good \subseteq Files
    /\ served \in [Jobs -> SUBSET Files]

\* "The handler persists a minimal job before acknowledging HTTP 202": an
\* acknowledged delivery is in the file a restart would load until a run has
\* served it.  Not so for a redelivery while a failed save has left the file
\* without the job and memory with it.
AcknowledgedIsStored == owed \subseteq Stored(disk)

\* Neither a crash, nor a shutdown, nor a failed save, nor a full channel
\* loses an acknowledged delivery: the job is in the file a restart would load,
\* or each of its files was processed or skipped since the job was stored.
AcceptedIsDurable == \A k \in owed \ Stored(disk) : FileSet(k) \subseteq served[k]

\* A job disappears only when each of its files was processed successfully, or
\* skipped as processed shortly before, since the job was stored.
RemovedWhenServed ==
    [][\A k \in Stored(disk) \ Stored(disk') : FileSet(k) \subseteq served'[k]]_jobVars

\* "Failed processing removes the claim immediately for retry": a file that
\* will be skipped was processed successfully, or is being processed.
ClaimsAreGood ==
    \A f \in handled :
        f \in good \/ \E w \in Workers : pc[w] = "process" /\ work[w].file = f

\* "Duplicate deliveries are serialized by media-file ID": however locks are
\* created and removed, two workers never process one file.
FileExclusive ==
    \A v, w \in Workers :
        v # w /\ {pc[v], pc[w]} \subseteq {"claim", "process", "unlock"} =>
            work[v].file # work[w].file

\* A job is in the channel once, or with one worker, or neither, and never
\* while it waits for review or is no longer stored.
QueuedJobs == {queue[i] : i \in 1 .. Len(queue)}
RunningJobs == {work[w].job : w \in Workers} \ {NoJob}

RunOnce ==
    /\ scheduled = QueuedJobs \cup RunningJobs
    /\ QueuedJobs \cap RunningJobs = {}
    /\ Cardinality(QueuedJobs) = Len(queue)
    /\ \A v, w \in Workers : v # w /\ work[v].job # NoJob => work[v].job # work[w].job
    /\ \A k \in scheduled : k \in Stored(mem) /\ ~mem[k].review

\* The runtime schedules goroutines, and its mutexes are handed over fairly;
\* processing ends (requests and the job have timeouts); the ticker fires and
\* the map it iterates is in random order; time passes.
JobsFairness ==
    /\ \A w \in Workers : WF_jobVars(Run(w)) /\ SF_jobVars(Lock(w))
    /\ \A k \in Jobs : SF_jobVars(Dispatch(k)) /\ WF_jobVars(Elapse(k))

FairJobsSpec == JobsSpec /\ JobsFairness

\* A stored job that needs no review gets its turn, unless the process ends,
\* is told to, or cannot save any more.
Waiting(k) ==
    /\ open /\ ~ctxDone /\ ~writeErr
    /\ k \in Stored(mem) /\ ~mem[k].review
    /\ k \notin RunningJobs

GetsItsTurn == \A k \in Jobs : Waiting(k) ~> ~Waiting(k)

\* StopWorkers returns: every worker finishes what it is at and goes.
ShutdownEnds == stopping ~> ~open \/ \A w \in Workers : pc[w] = "gone"
=============================================================================
