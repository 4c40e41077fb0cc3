----------------------------- MODULE JobsProofs -----------------------------
(***************************************************************************)
(* Proofs about WebhookJobs: types, the exclusion of file locks, and the   *)
(* scheduling and the durability of jobs.                                  *)
(***************************************************************************)
EXTENDS WebhookJobs, FiniteSetTheorems, TLAPS

-----------------------------------------------------------------------------
(* Sequences: the channel and the files a worker has yet to do.            *)

Members(s) == {s[i] : i \in 1 .. Len(s)}
NoRepeat(s) == \A i, j \in 1 .. Len(s) : s[i] = s[j] => i = j

LEMMA TailMembers ==
    ASSUME NEW S, NEW s \in Seq(S), s # <<>>
    PROVE  /\ Tail(s) \in Seq(S) /\ Len(Tail(s)) < Len(s) /\ Head(s) \in S
           /\ Members(s) = {Head(s)} \cup Members(Tail(s))
<1>1. /\ Tail(s) \in Seq(S) /\ Head(s) \in S /\ Head(s) = s[1]
      /\ Len(s) \in Nat /\ Len(s) >= 1 /\ Len(Tail(s)) = Len(s) - 1
      /\ \A i \in 1 .. Len(Tail(s)) : Tail(s)[i] = s[i + 1]
  OBVIOUS
<1>2. ASSUME NEW x \in Members(s) PROVE x \in {Head(s)} \cup Members(Tail(s))
  <2>1. PICK i \in 1 .. Len(s) : x = s[i]
    BY DEF Members
  <2>2. CASE i = 1
    BY <1>1, <2>1, <2>2
  <2>3. CASE i # 1
    <3>1. i - 1 \in 1 .. Len(Tail(s)) /\ Tail(s)[i - 1] = s[i]
      BY <1>1, <2>1, <2>3
    <3>2. QED BY <2>1, <3>1 DEF Members
  <2>4. QED BY <2>2, <2>3
<1>3. ASSUME NEW x \in {Head(s)} \cup Members(Tail(s)) PROVE x \in Members(s)
  <2>1. CASE x = Head(s)
    BY <1>1, <2>1 DEF Members
  <2>2. CASE x \in Members(Tail(s))
    <3>1. PICK i \in 1 .. Len(Tail(s)) : x = Tail(s)[i]
      BY <2>2 DEF Members
    <3>2. i + 1 \in 1 .. Len(s) /\ x = s[i + 1]
      BY <1>1, <3>1
    <3>3. QED BY <3>2 DEF Members
  <2>3. QED BY <2>1, <2>2
<1>4. QED BY <1>1, <1>2, <1>3

LEMMA TailNoRepeat ==
    ASSUME NEW S, NEW s \in Seq(S), s # <<>>, NoRepeat(s)
    PROVE  NoRepeat(Tail(s)) /\ Head(s) \notin Members(Tail(s))
<1>1. /\ Head(s) = s[1] /\ Len(s) \in Nat /\ Len(s) >= 1 /\ Len(Tail(s)) = Len(s) - 1
      /\ \A i \in 1 .. Len(Tail(s)) : Tail(s)[i] = s[i + 1] /\ i + 1 \in 1 .. Len(s)
  OBVIOUS
<1>2. ASSUME NEW i \in 1 .. Len(Tail(s)), NEW j \in 1 .. Len(Tail(s)), Tail(s)[i] = Tail(s)[j]
      PROVE  i = j
  <2>1. i + 1 = j + 1
    BY <1>1, <1>2 DEF NoRepeat
  <2>2. QED BY <2>1
<1>3. ASSUME NEW i \in 1 .. Len(Tail(s)) PROVE Tail(s)[i] # Head(s)
  <2>1. s[i + 1] # s[1]
    BY <1>1 DEF NoRepeat
  <2>2. QED BY <1>1, <2>1
<1>4. QED BY <1>2, <1>3 DEF NoRepeat, Members

LEMMA AppendMembers ==
    ASSUME NEW S, NEW s \in Seq(S), NEW x \in S
    PROVE  /\ Append(s, x) \in Seq(S) /\ Len(Append(s, x)) = Len(s) + 1
           /\ Members(Append(s, x)) = Members(s) \cup {x}
           /\ NoRepeat(s) /\ x \notin Members(s) => NoRepeat(Append(s, x))
<1>1. /\ Append(s, x) \in Seq(S) /\ Len(s) \in Nat /\ Len(Append(s, x)) = Len(s) + 1
      /\ \A i \in 1 .. Len(s) : Append(s, x)[i] = s[i]
      /\ Append(s, x)[Len(s) + 1] = x
  OBVIOUS
<1>2. \A i \in 1 .. (Len(s) + 1) : i \in 1 .. Len(s) \/ i = Len(s) + 1
  BY <1>1
<1>3. Members(Append(s, x)) = Members(s) \cup {x}
  BY <1>1, <1>2 DEF Members
<1>4. ASSUME NoRepeat(s), x \notin Members(s) PROVE NoRepeat(Append(s, x))
  BY <1>1, <1>2, <1>4 DEF NoRepeat, Members
<1>5. QED BY <1>1, <1>3, <1>4

LEMMA NoRepeatCardinality ==
    ASSUME NEW S, NEW s \in Seq(S), NoRepeat(s)
    PROVE  Cardinality(Members(s)) = Len(s)
<1>1. DOMAIN s = 1 .. Len(s) /\ Len(s) \in Nat /\ Len(s) \in Int /\ 1 \in Int
  OBVIOUS
<1>2. IsFiniteSet(1 .. Len(s)) /\ Cardinality(1 .. Len(s)) = Len(s)
  BY <1>1, FS_Interval
<1>3. s \in [1 .. Len(s) -> Members(s)]
  BY <1>1 DEF Members
<1>4. s \in Injection(1 .. Len(s), Members(s))
  BY <1>1, <1>3 DEF Injection, IsInjective, NoRepeat
<1>5. s \in Surjection(1 .. Len(s), Members(s))
  BY <1>3 DEF Surjection, Members
<1>6. s \in Bijection(1 .. Len(s), Members(s))
  BY <1>4, <1>5 DEF Bijection
<1>7. QED BY <1>2, <1>6, FS_Bijection DEF ExistsBijection

-----------------------------------------------------------------------------
(* Invariants. *)

Holding == {"lock", "claim", "process", "unlock", "release"}
Owning == {"claim", "process", "unlock"}

JobsTypes ==
    /\ open \in BOOLEAN /\ writeErr \in BOOLEAN
    /\ mem \in [Jobs -> Entry \cup {NoEntry}]
    /\ disk \in [Jobs -> Entry \cup {NoEntry}]
    /\ ripe \subseteq Jobs
    /\ ctxDone \in BOOLEAN /\ stopping \in BOOLEAN
    /\ queue \in Seq(Jobs) /\ Len(queue) <= Capacity
    /\ scheduled \subseteq Jobs
    /\ handled \subseteq Files
    /\ owed \subseteq Jobs /\ good \subseteq Files
    /\ served \in [Jobs -> SUBSET Files]
    /\ pc \in [Workers -> Stages]

WorkTypes ==
    work \in [Workers -> [job : Jobs \cup {NoJob}, todo : Seq(Files), errors : SUBSET Errors,
                          file : Files \cup {NoFile}, lock : LockIds \cup {NoLock}]]

\* What the stage of a worker says of its variables.
WorkerInv ==
    \A w \in Workers :
        /\ pc[w] \in {"gone", "idle"} => work[w] = Idle
        /\ pc[w] \notin {"gone", "idle"} => work[w].job \in Jobs
        /\ pc[w] \in Holding => work[w].file \in Files /\ work[w].lock \in LockIds
        /\ pc[w] \notin Holding => work[w].lock = NoLock

\* The reference count of a lock object is the number of its users, and each
\* of them finds it under its file in the map.
Users(l) == {w \in Workers : work[w].lock = l}

LockInv ==
    /\ locks \in [Files -> LockIds \cup {NoLock}]
    /\ refs \in [LockIds -> Nat]
    /\ owner \in [LockIds -> Workers \cup {NoWorker}]
    /\ \A l \in LockIds : IsFiniteSet(Users(l)) /\ refs[l] = Cardinality(Users(l))
    /\ \A w \in Workers : pc[w] \in Holding => locks[work[w].file] = work[w].lock
    /\ \A w \in Workers : pc[w] \in Owning => owner[work[w].lock] = w

ScheduleInv ==
    /\ scheduled = Members(queue) \cup RunningJobs
    /\ Members(queue) \cap RunningJobs = {}
    /\ NoRepeat(queue)
    /\ \A v, w \in Workers : v # w /\ work[v].job # NoJob => work[v].job # work[w].job
    /\ \A k \in scheduled : k \in Stored(mem) /\ ~mem[k].review

\* A run has served each file it has left behind, or it has met an error.
Ahead(w) ==
    Members(work[w].todo) \cup
        (IF pc[w] \in {"lock", "claim", "process"} THEN {work[w].file} ELSE {})

ServedInv ==
    /\ MemIsDisk
    /\ ~open => mem = disk
    /\ \A w \in Workers : work[w].job # NoJob /\ work[w].errors = {} =>
          FileSet(work[w].job) \subseteq served[work[w].job] \cup Ahead(w)
    /\ \A k \in Stored(mem) \cup owed : k \in Stored(disk) \/ FileSet(k) \subseteq served[k]

JInv == JobsTypes /\ WorkTypes /\ WorkerInv /\ LockInv /\ ScheduleInv /\ ServedInv /\ ClaimsAreGood

-----------------------------------------------------------------------------
(* Types. *)

LEMMA IdleType ==
    Idle \in [job : Jobs \cup {NoJob}, todo : Seq(Files), errors : SUBSET Errors,
              file : Files \cup {NoFile}, lock : LockIds \cup {NoLock}]
  BY DEF Idle

LEMMA JobsInitOK == JobsInit => JInv
<1> SUFFICES ASSUME JobsInit PROVE JInv
  OBVIOUS
<1>1. JobsTypes
  <2>1. open \in BOOLEAN /\ writeErr \in BOOLEAN /\ ctxDone \in BOOLEAN /\ stopping \in BOOLEAN
    BY DEF JobsInit
  <2>2. queue \in Seq(Jobs) /\ Len(queue) <= Capacity
    <3>1. << >> \in Seq(Jobs) /\ Len(<< >>) = 0 /\ 0 <= Capacity
      BY JobsAssumption
    <3>2. QED BY <3>1 DEF JobsInit
  <2>3. /\ mem \in [Jobs -> Entry \cup {NoEntry}] /\ disk \in [Jobs -> Entry \cup {NoEntry}]
        /\ served \in [Jobs -> SUBSET Files] /\ pc \in [Workers -> Stages]
    BY DEF JobsInit, Stages
  <2>4. QED BY <2>1, <2>2, <2>3 DEF JobsInit, JobsTypes
<1>2. WorkTypes
  BY IdleType DEF JobsInit, WorkTypes
<1>3. WorkerInv
  BY DEF JobsInit, WorkerInv, Holding, Idle
<1>4. LockInv
  <2>1. \A l \in LockIds : Users(l) = {}
    BY JobsAssumption DEF JobsInit, Users, Idle
  <2>2. QED
    BY <2>1, FS_EmptySet DEF JobsInit, LockInv, Holding, Owning
<1>5. ScheduleInv
  BY DEF JobsInit, ScheduleInv, Members, NoRepeat, RunningJobs, Idle
<1>6. ServedInv
  BY DEF JobsInit, ServedInv, MemIsDisk, Idle, Stored
<1>7. ClaimsAreGood
  BY DEF JobsInit, ClaimsAreGood
<1>8. QED BY <1>1, <1>2, <1>3, <1>4, <1>5, <1>6, <1>7 DEF JInv

\* A step of a worker, seen from each of them.
LEMMA AtOK ==
    ASSUME NEW w \in Workers, NEW stage, NEW locals, JobsTypes, WorkTypes, At(w, stage, locals)
    PROVE  /\ pc'[w] = stage /\ work'[w] = locals
           /\ \A v \in Workers : v # w => pc'[v] = pc[v] /\ work'[v] = work[v]
           /\ stage \in Stages => pc' \in [Workers -> Stages]
  BY DEF At, JobsTypes, WorkTypes

LEMMA UpdateOK ==
    ASSUME JobsTypes, NEW next \in [Jobs -> Entry \cup {NoEntry}], Update(next)
    PROVE  /\ open' = open /\ open /\ ~writeErr /\ writeErr' \in BOOLEAN
           /\ mem' \in [Jobs -> Entry \cup {NoEntry}]
           /\ disk' \in [Jobs -> Entry \cup {NoEntry}]
<1>1. CASE Commits(next)
  BY <1>1 DEF Commits, Writable, JobsTypes
<1>2. CASE CommitFails(next)
  BY <1>2 DEF CommitFails, Writable, JobsTypes
<1>3. QED BY <1>1, <1>2 DEF Update

LEMMA EntryOK ==
    /\ NewEntry \in Entry
    /\ \A entry \in Entry : \A errors : Failed(entry, errors) \in Entry
  BY JobsAssumption DEF NewEntry, Entry, Failed

LEMMA ResultOK ==
    ASSUME JobsTypes, NEW k \in Stored(mem), NEW errors
    PROVE  Result(k, errors) \in [Jobs -> Entry \cup {NoEntry}]
<1>1. k \in Jobs /\ mem[k] \in Entry
  BY DEF JobsTypes, Stored
<1>2. Failed(mem[k], errors) \in Entry
  BY <1>1, EntryOK
<1>3. QED BY <1>1, <1>2 DEF Result, JobsTypes

\* A job that runs is stored and needs no review.
LEMMA RunningStored ==
    ASSUME JInv, NEW w \in Workers, pc[w] \notin {"gone", "idle"}
    PROVE  /\ work[w].job \in Jobs /\ work[w].job \in scheduled
           /\ work[w].job \in Stored(mem) /\ ~mem[work[w].job].review
           /\ work[w].job \notin Members(queue)
           /\ \A v \in Workers : v # w => work[v].job # work[w].job
<1>1. work[w].job \in Jobs /\ work[w].job # NoJob
  BY JobsAssumption DEF JInv, WorkerInv
<1>2. work[w].job \in RunningJobs
  BY <1>1 DEF RunningJobs
<1>3. QED BY <1>1, <1>2 DEF JInv, ScheduleInv

-----------------------------------------------------------------------------
(* What a step keeps when it does not concern a part of the invariant.     *)

LEMMA LocksKept ==
    ASSUME LockInv, UNCHANGED lockVars,
           \A v \in Workers :
               /\ work'[v].lock = work[v].lock
               /\ pc'[v] \in Holding => pc[v] \in Holding /\ work'[v].file = work[v].file
               /\ pc'[v] \in Owning => pc[v] \in Owning
    PROVE  LockInv'
<1>1. \A l \in LockIds : Users(l)' = Users(l)
  BY DEF Users
<1>2. QED
  BY <1>1 DEF LockInv, lockVars

LEMMA ScheduleKept ==
    ASSUME ScheduleInv, UNCHANGED <<queue, scheduled>>,
           \A v \in Workers : work'[v].job = work[v].job,
           \A k \in scheduled : k \in Stored(mem') /\ ~mem'[k].review
    PROVE  ScheduleInv'
<1>1. RunningJobs' = RunningJobs
  BY DEF RunningJobs
<1>2. Members(queue') = Members(queue) /\ NoRepeat(queue')
  BY DEF ScheduleInv
<1>3. QED
  BY <1>1, <1>2 DEF ScheduleInv

LEMMA ServedKept ==
    ASSUME ServedInv, UNCHANGED durableVars,
           \A k \in Jobs : served[k] \subseteq served'[k],
           owed' \subseteq owed \cup Stored(mem), owed \subseteq Jobs,
           \A w \in Workers : work'[w].job # NoJob /\ work'[w].errors = {} =>
               FileSet(work'[w].job) \subseteq served'[work'[w].job] \cup Ahead(w)'
    PROVE  ServedInv'
<1>1. MemIsDisk' /\ (~open' => mem' = disk')
  BY DEF ServedInv, MemIsDisk, durableVars
<1>2. Stored(mem') = Stored(mem) /\ Stored(disk') = Stored(disk) /\ Stored(mem) \subseteq Jobs
  BY DEF durableVars, Stored
<1>3. QED
  BY <1>1, <1>2 DEF ServedInv

LEMMA ClaimsKept ==
    ASSUME ClaimsAreGood, UNCHANGED <<handled, good>>,
           \A v \in Workers :
               pc[v] = "process" => pc'[v] = "process" /\ work'[v].file = work[v].file
    PROVE  ClaimsAreGood'
  BY DEF ClaimsAreGood

\* A run that a step does not concern is where it was.
LEMMA RunKept ==
    ASSUME ServedInv, NEW w \in Workers, pc'[w] = pc[w], work'[w] = work[w],
           work'[w].job # NoJob, work'[w].errors = {},
           served[work[w].job] \subseteq served'[work[w].job]
    PROVE  FileSet(work'[w].job) \subseteq served'[work'[w].job] \cup Ahead(w)'
<1>1. FileSet(work[w].job) \subseteq served[work[w].job] \cup Ahead(w)
  BY DEF ServedInv
<1>2. Ahead(w)' = Ahead(w)
  BY DEF Ahead
<1>3. QED BY <1>1, <1>2

\* Steps that change neither locks nor workers.
LEMMA WorkersKept ==
    ASSUME JInv, UNCHANGED <<lockVars, workerVars>>
    PROVE  WorkTypes' /\ WorkerInv' /\ LockInv'
<1>1. pc' = pc /\ work' = work
  BY DEF workerVars
<1>2. WorkTypes' /\ WorkerInv'
  BY <1>1 DEF JInv, WorkTypes, WorkerInv
<1>3. LockInv'
  BY <1>1, LocksKept DEF JInv
<1>4. QED BY <1>2, <1>3

-----------------------------------------------------------------------------
(* Deliveries and the ticker. *)

LEMMA CoalesceOK ==
    ASSUME JInv, NEW k \in Jobs, Coalesce(k)
    PROVE  JInv'
<1>1. /\ k \in Stored(mem) /\ owed' = owed \cup {k}
      /\ UNCHANGED <<durableVars, ripe, poolVars, lockVars, workerVars, good, served>>
  BY DEF Coalesce
<1>2. JobsTypes'
  BY <1>1 DEF JInv, JobsTypes, durableVars, poolVars, workerVars
<1>3. ScheduleInv'
  BY <1>1, ScheduleKept DEF JInv, ScheduleInv, durableVars, poolVars, workerVars
<1>4. ServedInv'
  <2>1. pc' = pc /\ work' = work /\ served' = served
    BY <1>1 DEF workerVars
  <2>2. owed \subseteq Jobs
    BY DEF JInv, JobsTypes
  <2>3. QED BY <1>1, <2>1, <2>2, ServedKept, RunKept DEF JInv
<1>5. ClaimsAreGood'
  BY <1>1, ClaimsKept DEF JInv, poolVars, workerVars
<1>6. QED BY <1>1, <1>2, <1>3, <1>4, <1>5, WorkersKept DEF JInv

LEMMA ElapseOK ==
    ASSUME JInv,
           \/ \E k \in Jobs : Elapse(k)
           \/ Cancel \/ StopWorkers
    PROVE  JInv'
<1>1. /\ ripe' \subseteq Jobs /\ ctxDone' \in BOOLEAN /\ stopping' \in BOOLEAN
      /\ UNCHANGED <<durableVars, queue, scheduled, handled, lockVars, workerVars, historyVars>>
  <2>1. ASSUME NEW k \in Jobs, Elapse(k) PROVE <1>1!:
    BY <2>1 DEF Elapse, poolVars, JInv, JobsTypes
  <2>2. CASE Cancel
    BY <2>2 DEF Cancel, JInv, JobsTypes
  <2>3. CASE StopWorkers
    BY <2>3 DEF StopWorkers, JInv, JobsTypes
  <2>4. QED BY <2>1, <2>2, <2>3
<1>2. JobsTypes'
  BY <1>1 DEF JInv, JobsTypes, durableVars, workerVars, historyVars
<1>3. ScheduleInv'
  BY <1>1, ScheduleKept DEF JInv, ScheduleInv, durableVars, workerVars
<1>4. ServedInv'
  <2>1. pc' = pc /\ work' = work /\ served' = served /\ owed' = owed
    BY <1>1 DEF workerVars, historyVars
  <2>2. owed \subseteq Jobs
    BY DEF JInv, JobsTypes
  <2>3. QED BY <1>1, <2>1, <2>2, ServedKept, RunKept DEF JInv
<1>5. ClaimsAreGood'
  BY <1>1, ClaimsKept DEF JInv, workerVars, historyVars
<1>6. QED BY <1>1, <1>2, <1>3, <1>4, <1>5, WorkersKept DEF JInv

LEMMA DispatchOK ==
    ASSUME JInv, NEW k \in Jobs, Dispatch(k)
    PROVE  JInv'
<1>1. /\ k \in Stored(mem) \ scheduled /\ ~mem[k].review /\ Len(queue) < Capacity
      /\ queue' = Append(queue, k) /\ scheduled' = scheduled \cup {k}
      /\ UNCHANGED <<durableVars, ripe, ctxDone, stopping, handled, lockVars, workerVars,
                     historyVars>>
  BY DEF Dispatch
<1>2. queue \in Seq(Jobs) /\ NoRepeat(queue) /\ k \notin Members(queue)
  BY <1>1 DEF JInv, JobsTypes, ScheduleInv
<1>3. /\ queue' \in Seq(Jobs) /\ Len(queue') = Len(queue) + 1
      /\ Members(queue') = Members(queue) \cup {k} /\ NoRepeat(queue')
  BY <1>1, <1>2, AppendMembers
<1>4. Len(queue') <= Capacity
  <2>1. Len(queue) \in Nat /\ Capacity \in Nat
    BY <1>2, JobsAssumption
  <2>2. QED BY <1>1, <1>3, <2>1
<1>5. JobsTypes'
  BY <1>1, <1>3, <1>4 DEF JInv, JobsTypes, durableVars, workerVars, historyVars
<1>6. ScheduleInv'
  <2>1. RunningJobs' = RunningJobs /\ mem' = mem /\ work' = work
    BY <1>1 DEF RunningJobs, workerVars, durableVars
  <2>2. ScheduleInv
    BY DEF JInv
  <2>3. k \notin RunningJobs
    BY <1>1, <2>2 DEF ScheduleInv
  <2>4. scheduled' = Members(queue') \cup RunningJobs /\ Members(queue') \cap RunningJobs = {}
    BY <1>1, <1>3, <2>2, <2>3 DEF ScheduleInv
  <2>5. \A j \in scheduled' : j \in Stored(mem) /\ ~mem[j].review
    BY <1>1, <2>2 DEF ScheduleInv
  <2>6. QED BY <1>3, <2>1, <2>2, <2>4, <2>5 DEF ScheduleInv, Stored
<1>7. ServedInv'
  <2>1. pc' = pc /\ work' = work /\ served' = served /\ owed' = owed
    BY <1>1 DEF workerVars, historyVars
  <2>2. owed \subseteq Jobs
    BY DEF JInv, JobsTypes
  <2>3. QED BY <1>1, <2>1, <2>2, ServedKept, RunKept DEF JInv
<1>8. ClaimsAreGood'
  BY <1>1, ClaimsKept DEF JInv, workerVars, historyVars
<1>9. QED BY <1>1, <1>5, <1>6, <1>7, <1>8, WorkersKept DEF JInv

\* While no save has failed, a save that is tried leaves the old or the new
\* entry under the keys it changes, and the others alone.
LEMMA SavedEntry ==
    ASSUME JInv, NEW k \in Jobs, NEW entry \in Entry \cup {NoEntry},
           Update([mem EXCEPT ![k] = entry])
    PROVE  /\ mem = disk
           /\ mem' \in {mem, [mem EXCEPT ![k] = entry]}
           /\ disk' \in {mem, [mem EXCEPT ![k] = entry]}
           /\ open /\ open' /\ ~writeErr
           /\ MemIsDisk'
           /\ ~writeErr' => disk' = [mem EXCEPT ![k] = entry]
<1> DEFINE next == [mem EXCEPT ![k] = entry]
<1>1. ~writeErr /\ open /\ open'
  BY DEF Update, Commits, CommitFails, Writable
<1>2. mem = disk
  BY <1>1 DEF JInv, ServedInv, MemIsDisk
<1>3. CASE Commits(next)
  BY <1>1, <1>2, <1>3, Zenon DEF Commits, MemIsDisk
<1>4. CASE CommitFails(next)
  <2>1. mem' = mem /\ disk' \in {mem, next} /\ writeErr'
    BY <1>2, <1>4, Zenon DEF CommitFails
  <2>2. QED BY <1>1, <1>2, <2>1, Zenon DEF MemIsDisk
<1>5. QED BY <1>3, <1>4 DEF Update

LEMMA EnqueueOK ==
    ASSUME JInv, NEW k \in Jobs, Enqueue(k)
    PROVE  JInv'
<1> DEFINE next == [mem EXCEPT ![k] = NewEntry]
<1>1. /\ Update(next)
      /\ owed' = IF writeErr' THEN owed ELSE owed \cup {k}
      /\ ripe' = IF writeErr' THEN ripe ELSE ripe \cup {k}
      /\ \/ /\ k \notin Stored(mem)
            /\ served' = IF k \in Stored(disk') THEN [served EXCEPT ![k] = {}] ELSE served
         \/ /\ k \in Stored(mem) /\ mem[k].review
            /\ served' = served
      /\ UNCHANGED <<poolVars, lockVars, workerVars, good>>
  BY DEF Enqueue, AddJob
<1>2. NewEntry \in Entry /\ next \in [Jobs -> Entry \cup {NoEntry}]
  BY EntryOK DEF JInv, JobsTypes
<1>3. /\ mem = disk /\ mem' \in {mem, next} /\ disk' \in {mem, next}
      /\ open /\ open' /\ MemIsDisk'
      /\ ~writeErr' => disk' = next
  BY <1>1, <1>2, SavedEntry
<1>4. /\ mem' \in [Jobs -> Entry \cup {NoEntry}] /\ disk' \in [Jobs -> Entry \cup {NoEntry}]
      /\ open' \in BOOLEAN /\ writeErr' \in BOOLEAN
  BY <1>1, <1>2, UpdateOK DEF JInv, JobsTypes
<1>5. k \notin scheduled
  BY <1>1 DEF JInv, ScheduleInv
<1>6. /\ Stored(next) = Stored(mem) \cup {k}
      /\ \A j \in Jobs : j # k => next[j] = mem[j]
  BY <1>2, NoEntryAssumption DEF Stored, JInv, JobsTypes
<1>7. JobsTypes'
  <2>1. owed' \subseteq Jobs /\ ripe' \subseteq Jobs
    BY <1>1 DEF JInv, JobsTypes
  <2>2. served' \in [Jobs -> SUBSET Files]
    BY <1>1 DEF JInv, JobsTypes
  <2>3. QED BY <1>1, <1>4, <2>1, <2>2 DEF JInv, JobsTypes, poolVars, workerVars
<1>8. ScheduleInv'
  <2>1. ASSUME NEW j \in scheduled PROVE j \in Stored(mem') /\ ~mem'[j].review
    <3>1. j # k /\ j \in Stored(mem) /\ ~mem[j].review /\ j \in Jobs
      BY <1>5 DEF JInv, ScheduleInv, JobsTypes
    <3>2. mem'[j] = mem[j]
      BY <1>3, <1>6, <3>1
    <3>3. QED BY <3>1, <3>2 DEF Stored
  <2>2. UNCHANGED <<queue, scheduled>> /\ work' = work
    BY <1>1 DEF poolVars, workerVars
  <2>3. QED BY <2>1, <2>2, ScheduleKept DEF JInv
<1>9. ServedInv'
  <2>1. MemIsDisk' /\ (~open' => mem' = disk')
    BY <1>3, Zenon
  <2>2. ASSUME NEW w \in Workers, work'[w].job # NoJob, work'[w].errors = {}
        PROVE  FileSet(work'[w].job) \subseteq served'[work'[w].job] \cup Ahead(w)'
    <3>1. pc' = pc /\ work' = work
      BY <1>1 DEF workerVars
    <3>2. work[w].job \in scheduled /\ work[w].job \in Jobs
      BY <2>2, <3>1 DEF JInv, ScheduleInv, RunningJobs, JobsTypes
    <3>3. served'[work[w].job] = served[work[w].job]
      BY <1>1, <1>5, <3>2 DEF JInv, JobsTypes
    <3>4. QED BY <2>2, <3>1, <3>3, RunKept DEF JInv
  <2>3. ASSUME NEW j \in Stored(mem') \cup owed'
        PROVE  j \in Stored(disk') \/ FileSet(j) \subseteq served'[j]
    <3>1. CASE j = k
      <4>1. CASE k \in Stored(mem)
        BY <1>3, <1>6, <3>1, <4>1
      <4>2. CASE k \notin Stored(mem) /\ k \notin Stored(disk')
        <5>1. k \in Stored(next) /\ disk' = mem /\ k \notin Stored(disk)
          BY <1>3, <1>6, <4>2
        <5>2. writeErr'
          BY <1>3, <4>2, <5>1, Zenon
        <5>3. owed' = owed /\ served' = served
          BY <1>1, <4>2, <5>2, Zenon
        <5>4. mem' = mem
          BY <1>1, <5>2, Zenon DEF Update, Commits, CommitFails, Writable
        <5>5. k \in owed
          BY <2>3, <3>1, <4>2, <5>3, <5>4
        <5>6. FileSet(k) \subseteq served[k]
          BY <5>1, <5>5 DEF JInv, ServedInv
        <5>7. QED BY <3>1, <5>3, <5>6
      <4>3. QED BY <3>1, <4>1, <4>2
    <3>2. CASE j # k
      <4>1. j \in Stored(mem) \cup owed /\ j \in Jobs
        BY <1>1, <1>3, <1>6, <2>3, <3>2 DEF Stored, JInv, JobsTypes
      <4>2. served'[j] = served[j]
        BY <1>1, <3>2, <4>1 DEF JInv, JobsTypes
      <4>3. j \in Stored(disk) => j \in Stored(disk')
        BY <1>3, <1>6
      <4>4. QED BY <4>1, <4>2, <4>3 DEF JInv, ServedInv
    <3>3. QED BY <3>1, <3>2
  <2>4. QED BY <2>1, <2>2, <2>3 DEF ServedInv
<1>10. ClaimsAreGood'
  BY <1>1, ClaimsKept DEF JInv, poolVars, workerVars
<1>11. QED BY <1>1, <1>7, <1>8, <1>9, <1>10, WorkersKept DEF JInv

-----------------------------------------------------------------------------
(* Workers. *)

Locals == [job : Jobs \cup {NoJob}, todo : Seq(Files), errors : SUBSET Errors,
           file : Files \cup {NoFile}, lock : LockIds \cup {NoLock}]

\* A worker's step keeps the types, and what stages say of variables if it
\* keeps that for the worker.
LEMMA StepOK ==
    ASSUME JInv, NEW w \in Workers, NEW stage \in Stages, NEW locals \in Locals,
           At(w, stage, locals),
           stage \in {"gone", "idle"} => locals = Idle,
           stage \notin {"gone", "idle"} => locals.job \in Jobs,
           stage \in Holding => locals.file \in Files /\ locals.lock \in LockIds,
           stage \notin Holding => locals.lock = NoLock
    PROVE  /\ pc' \in [Workers -> Stages] /\ WorkTypes' /\ WorkerInv'
           /\ pc'[w] = stage /\ work'[w] = locals
           /\ \A v \in Workers : v # w => pc'[v] = pc[v] /\ work'[v] = work[v]
<1>1. /\ pc' \in [Workers -> Stages]
      /\ pc'[w] = stage /\ work'[w] = locals
      /\ \A v \in Workers : v # w => pc'[v] = pc[v] /\ work'[v] = work[v]
  BY AtOK DEF JInv
<1>2. WorkTypes'
  BY DEF JInv, WorkTypes, At, Locals
<1>3. WorkerInv'
  <2>1. WorkerInv
    BY DEF JInv
  <2>2. QED BY <1>1, <2>1 DEF WorkerInv
<1>4. QED BY <1>1, <1>2, <1>3

LEMMA WorkerOK ==
    ASSUME JInv, NEW w \in Workers
    PROVE  /\ work[w] \in Locals /\ pc[w] \in Stages
           /\ pc[w] \in {"gone", "idle"} => work[w] = Idle
           /\ pc[w] \notin {"gone", "idle"} => work[w].job \in Jobs
           /\ pc[w] \in Holding => work[w].file \in Files /\ work[w].lock \in LockIds
           /\ pc[w] \notin Holding => work[w].lock = NoLock
  BY DEF JInv, JobsTypes, WorkTypes, WorkerInv, Locals

\* A step of a worker that saves nothing and keeps its job.
LEMMA RunServed ==
    ASSUME JInv, NEW w \in Workers, UNCHANGED durableVars,
           \A v \in Workers : v # w => pc'[v] = pc[v] /\ work'[v] = work[v],
           \A k \in Jobs : served[k] \subseteq served'[k],
           owed' = owed,
           work'[w].job # NoJob /\ work'[w].errors = {} =>
               FileSet(work'[w].job) \subseteq served'[work'[w].job] \cup Ahead(w)'
    PROVE  ServedInv'
<1>1. owed \subseteq Jobs /\ ServedInv
  BY DEF JInv, JobsTypes
<1>2. ASSUME NEW v \in Workers, work'[v].job # NoJob, work'[v].errors = {}
      PROVE  FileSet(work'[v].job) \subseteq served'[work'[v].job] \cup Ahead(v)'
  <2>1. CASE v = w
    BY <1>2, <2>1
  <2>2. CASE v # w
    <3>1. pc'[v] = pc[v] /\ work'[v] = work[v]
      BY <2>2
    <3>2. work[v].job \in Jobs
      BY <1>2, <3>1 DEF JInv, WorkTypes
    <3>3. QED BY <1>1, <1>2, <3>1, <3>2, RunKept
  <2>3. QED BY <2>1, <2>2
<1>3. QED BY <1>1, <1>2, ServedKept

LEMMA TakeOK ==
    ASSUME JInv, NEW w \in Workers, Take(w)
    PROVE  JInv'
<1> DEFINE k == Head(queue)
           locals == [Idle EXCEPT !.job = k, !.todo = FilesOf[k]]
<1>1. /\ pc[w] = "idle" /\ queue # <<>> /\ queue' = Tail(queue) /\ At(w, "files", locals)
      /\ UNCHANGED <<durableVars, ripe, ctxDone, stopping, scheduled, handled, lockVars,
                     historyVars>>
  BY DEF Take
<1>2. queue \in Seq(Jobs) /\ NoRepeat(queue) /\ Len(queue) <= Capacity
  BY DEF JInv, JobsTypes, ScheduleInv
<1>3. /\ queue' \in Seq(Jobs) /\ Len(queue') < Len(queue) /\ k \in Jobs
      /\ Members(queue) = {k} \cup Members(queue')
      /\ NoRepeat(queue') /\ k \notin Members(queue')
  BY <1>1, <1>2, TailMembers, TailNoRepeat
<1>4. Len(queue') <= Capacity
  <2>1. Len(queue) \in Nat /\ Len(queue') \in Nat /\ Capacity \in Nat
    BY <1>2, <1>3, JobsAssumption
  <2>2. QED BY <1>2, <1>3, <2>1
<1>5. /\ locals \in Locals /\ locals.job = k /\ locals.todo = FilesOf[k]
      /\ locals.errors = {} /\ locals.lock = NoLock /\ k # NoJob
  BY <1>3, JobsAssumption DEF Locals, Idle
<1>6. /\ pc' \in [Workers -> Stages] /\ WorkTypes' /\ WorkerInv'
      /\ pc'[w] = "files" /\ work'[w] = locals
      /\ \A v \in Workers : v # w => pc'[v] = pc[v] /\ work'[v] = work[v]
  <2>1. "files" \in Stages /\ "files" \notin {"gone", "idle"} /\ "files" \notin Holding
    BY DEF Stages, Holding
  <2> HIDE DEF locals, k
  <2>2. QED BY <1>1, <1>3, <1>5, <2>1, StepOK
<1>7. work[w] = Idle /\ work[w].job = NoJob /\ work[w].lock = NoLock
  <2>1. work[w] = Idle
    BY <1>1, WorkerOK
  <2>2. QED BY <2>1 DEF Idle
<1> HIDE DEF locals, k
<1>8. JobsTypes'
  BY <1>1, <1>3, <1>4, <1>6 DEF JInv, JobsTypes, durableVars, historyVars
<1>9. LockInv'
  <2>1. LockInv /\ "files" \notin Holding /\ "files" \notin Owning
    BY DEF JInv, Holding, Owning
  <2>2. QED BY <1>1, <1>5, <1>6, <1>7, <2>1, LocksKept
<1>10. ScheduleInv'
  <2>1. ScheduleInv
    BY DEF JInv
  <2>2. RunningJobs' = RunningJobs \cup {k} /\ k \notin RunningJobs
    BY <1>3, <1>5, <1>6, <1>7, <2>1 DEF RunningJobs, ScheduleInv
  <2>3. \A u, v \in Workers : u # v /\ work'[u].job # NoJob => work'[u].job # work'[v].job
    BY <1>5, <1>6, <1>7, <2>1, <2>2 DEF RunningJobs, ScheduleInv
  <2>4. mem' = mem /\ scheduled' = scheduled
    BY <1>1 DEF durableVars
  <2>5. /\ scheduled' = Members(queue') \cup RunningJobs'
        /\ Members(queue') \cap RunningJobs' = {}
    BY <1>3, <2>1, <2>2, <2>4 DEF ScheduleInv
  <2>6. \A j \in scheduled' : j \in Stored(mem') /\ ~mem'[j].review
    BY <2>1, <2>4 DEF ScheduleInv
  <2>7. QED BY <1>3, <2>3, <2>5, <2>6 DEF ScheduleInv
<1>11. ServedInv'
  <2>1. served' = served /\ owed' = owed
    BY <1>1 DEF historyVars
  <2>2. FileSet(k) = Members(FilesOf[k])
    BY DEF FileSet, Members
  <2>3. FileSet(work'[w].job) \subseteq Ahead(w)'
    BY <1>5, <1>6, <2>2 DEF Ahead
  <2>4. QED BY <1>1, <1>6, <2>1, <2>3, RunServed
<1>12. ClaimsAreGood'
  <2>1. pc[w] # "process" /\ UNCHANGED <<handled, good>> /\ ClaimsAreGood
    BY <1>1 DEF historyVars, JInv
  <2>2. QED BY <1>6, <2>1, ClaimsKept
<1>13. QED BY <1>6, <1>8, <1>9, <1>10, <1>11, <1>12 DEF JInv

LEMMA ReferenceOK ==
    ASSUME JInv, NEW w \in Workers, Reference(w)
    PROVE  JInv'
<1> DEFINE f == Head(work[w].todo)
           locals(l) == [work[w] EXCEPT !.todo = Tail(@), !.file = f, !.lock = l]
<1>1. PICK l \in LockIds :
          /\ pc[w] = "files" /\ work[w].todo # <<>>
          /\ IF locks[f] = NoLock THEN refs[l] = 0 /\ \A g \in Files : locks[g] # l
             ELSE l = locks[f]
          /\ locks' = [locks EXCEPT ![f] = l] /\ refs' = [refs EXCEPT ![l] = @ + 1]
          /\ At(w, "lock", locals(l))
          /\ UNCHANGED <<durableVars, ripe, poolVars, owner, historyVars>>
  BY DEF Reference
<1>2. /\ work[w] \in Locals /\ work[w].job \in Jobs /\ work[w].lock = NoLock
      /\ work[w].todo \in Seq(Files)
  <2>1. pc[w] \notin {"gone", "idle"} /\ pc[w] \notin Holding
    BY <1>1 DEF Holding
  <2>2. QED BY <2>1, WorkerOK DEF Locals
<1>3. /\ Tail(work[w].todo) \in Seq(Files) /\ f \in Files
      /\ Members(work[w].todo) = {f} \cup Members(Tail(work[w].todo))
  BY <1>1, <1>2, TailMembers
<1>4. /\ locals(l) \in Locals /\ locals(l).job = work[w].job
      /\ locals(l).errors = work[w].errors /\ locals(l).todo = Tail(work[w].todo)
      /\ locals(l).file = f /\ locals(l).lock = l
  BY <1>2, <1>3 DEF Locals
<1> HIDE DEF locals, f
<1>5. /\ pc' \in [Workers -> Stages] /\ WorkTypes' /\ WorkerInv'
      /\ pc'[w] = "lock" /\ work'[w] = locals(l)
      /\ \A v \in Workers : v # w => pc'[v] = pc[v] /\ work'[v] = work[v]
  <2>1. "lock" \in Stages /\ "lock" \notin {"gone", "idle"} /\ "lock" \in Holding
    BY DEF Stages, Holding
  <2>2. QED BY <1>1, <1>2, <1>3, <1>4, <2>1, StepOK
<1>6. JobsTypes'
  BY <1>1, <1>5 DEF JInv, JobsTypes, durableVars, poolVars, historyVars
<1>7. LockInv'
  <2>1. LockInv /\ pc[w] \notin Holding /\ "lock" \notin Owning
    BY <1>1 DEF JInv, Holding, Owning
  <2>2. locks' \in [Files -> LockIds \cup {NoLock}] /\ refs' \in [LockIds -> Nat]
    BY <1>1, <1>3, <2>1 DEF LockInv
  <2>3. owner' = owner
    BY <1>1
  <2>4. ASSUME NEW m \in LockIds
        PROVE  IsFiniteSet(Users(m)') /\ refs'[m] = Cardinality(Users(m)')
    <3>1. IsFiniteSet(Users(m)) /\ refs[m] = Cardinality(Users(m)) /\ refs[m] \in Nat
      BY <2>1 DEF LockInv
    <3>2. CASE m = l
      <4>1. Users(m)' = Users(m) \cup {w} /\ w \notin Users(m)
        BY <1>2, <1>4, <1>5, <3>2, JobsAssumption DEF Users
      <4>2. IsFiniteSet(Users(m) \cup {w}) /\ Cardinality(Users(m) \cup {w}) = refs[m] + 1
        BY <3>1, <4>1, FS_AddElement
      <4>3. refs'[m] = refs[m] + 1
        BY <1>1, <2>1, <3>2 DEF LockInv
      <4>4. QED BY <4>1, <4>2, <4>3
    <3>3. CASE m # l
      <4>1. Users(m)' = Users(m)
        BY <1>2, <1>4, <1>5, <3>3, JobsAssumption DEF Users
      <4>2. refs'[m] = refs[m]
        BY <1>1, <2>1, <3>3 DEF LockInv
      <4>3. QED BY <3>1, <4>1, <4>2
    <3>4. QED BY <3>2, <3>3
  <2>5. ASSUME NEW v \in Workers, pc'[v] \in Holding
        PROVE  locks'[work'[v].file] = work'[v].lock
    <3>1. CASE v = w
      BY <1>1, <1>3, <1>4, <1>5, <2>1, <3>1 DEF LockInv
    <3>2. CASE v # w
      <4>1. /\ work'[v] = work[v] /\ locks[work[v].file] = work[v].lock
            /\ work[v].file \in Files /\ work[v].lock \in LockIds
        BY <1>5, <2>1, <2>5, <3>2, WorkerOK DEF LockInv
      <4>2. CASE work[v].file = f
        BY <1>1, <2>1, <4>1, <4>2, JobsAssumption DEF LockInv
      <4>3. CASE work[v].file # f
        BY <1>1, <2>1, <4>1, <4>3 DEF LockInv
      <4>4. QED BY <4>2, <4>3
    <3>3. QED BY <3>1, <3>2
  <2>6. ASSUME NEW v \in Workers, pc'[v] \in Owning PROVE owner'[work'[v].lock] = v
    <3>1. v # w
      BY <1>5, <2>1, <2>6
    <3>2. QED BY <1>5, <2>1, <2>3, <2>6, <3>1 DEF LockInv
  <2>7. owner' \in [LockIds -> Workers \cup {NoWorker}]
    BY <2>1, <2>3 DEF LockInv
  <2>8. QED BY <2>2, <2>4, <2>5, <2>6, <2>7 DEF LockInv
<1>8. ScheduleInv'
  <2>1. \A v \in Workers : work'[v].job = work[v].job
    BY <1>4, <1>5
  <2>2. QED BY <1>1, <2>1, ScheduleKept DEF JInv, ScheduleInv, durableVars, poolVars
<1>9. ServedInv'
  <2>1. served' = served /\ owed' = owed
    BY <1>1 DEF historyVars
  <2>2. Ahead(w)' = Ahead(w)
    BY <1>1, <1>3, <1>4, <1>5 DEF Ahead
  <2>3. work'[w].job # NoJob /\ work'[w].errors = {} =>
            FileSet(work'[w].job) \subseteq served'[work'[w].job] \cup Ahead(w)'
    BY <1>4, <1>5, <2>1, <2>2 DEF JInv, ServedInv
  <2>4. QED BY <1>1, <1>5, <2>1, <2>3, RunServed
<1>10. ClaimsAreGood'
  <2>1. pc[w] # "process" /\ UNCHANGED <<handled, good>> /\ ClaimsAreGood
    BY <1>1 DEF historyVars, poolVars, JInv
  <2>2. QED BY <1>5, <2>1, ClaimsKept
<1>11. QED BY <1>5, <1>6, <1>7, <1>8, <1>9, <1>10 DEF JInv

LEMMA LockOK ==
    ASSUME JInv, NEW w \in Workers, Lock(w)
    PROVE  JInv'
<1>1. /\ pc[w] = "lock" /\ owner[work[w].lock] = NoWorker
      /\ owner' = [owner EXCEPT ![work[w].lock] = w] /\ At(w, "claim", work[w])
      /\ UNCHANGED <<durableVars, ripe, poolVars, locks, refs, historyVars>>
  BY DEF Lock
<1>2. /\ pc[w] \in Holding /\ pc[w] \notin {"gone", "idle"}
      /\ "claim" \in Stages /\ "claim" \notin {"gone", "idle"} /\ "claim" \in Holding
  BY <1>1 DEF Holding, Stages
<1>3. /\ work[w] \in Locals /\ work[w].job \in Jobs
      /\ work[w].file \in Files /\ work[w].lock \in LockIds
  BY <1>2, WorkerOK
<1>4. /\ pc' \in [Workers -> Stages] /\ WorkTypes' /\ WorkerInv'
      /\ pc'[w] = "claim" /\ work'[w] = work[w]
      /\ \A v \in Workers : v # w => pc'[v] = pc[v] /\ work'[v] = work[v]
  BY <1>1, <1>2, <1>3, StepOK
<1>5. JobsTypes'
  BY <1>1, <1>4 DEF JInv, JobsTypes, durableVars, poolVars, historyVars
<1>6. \A v \in Workers : work'[v] = work[v]
  BY <1>4
<1>7. LockInv'
  <2>1. LockInv
    BY DEF JInv
  <2>2. \A l \in LockIds : Users(l)' = Users(l)
    BY <1>6 DEF Users
  <2>3. \A v \in Workers : pc'[v] \in Holding => locks'[work'[v].file] = work'[v].lock
    BY <1>1, <1>2, <1>4, <2>1 DEF LockInv
  <2>4. ASSUME NEW v \in Workers, pc'[v] \in Owning PROVE owner'[work'[v].lock] = v
    <3>1. CASE v = w
      BY <1>1, <1>3, <1>4, <2>1, <3>1 DEF LockInv
    <3>2. CASE v # w
      <4>1. /\ pc[v] \in Owning /\ work'[v] = work[v] /\ owner[work[v].lock] = v
        BY <1>4, <2>1, <2>4, <3>2 DEF LockInv
      <4>2. work[v].lock # work[w].lock
        BY <1>1, <4>1, JobsAssumption
      <4>3. work[v].lock \in LockIds
        BY <4>1, WorkerOK DEF Owning, Holding
      <4>4. QED BY <1>1, <2>1, <4>1, <4>2, <4>3 DEF LockInv
    <3>3. QED BY <3>1, <3>2
  <2>5. owner' \in [LockIds -> Workers \cup {NoWorker}]
    BY <1>1, <2>1 DEF LockInv
  <2>6. QED BY <1>1, <2>1, <2>2, <2>3, <2>4, <2>5 DEF LockInv
<1>8. ScheduleInv'
  BY <1>1, <1>6, ScheduleKept DEF JInv, ScheduleInv, durableVars, poolVars
<1>9. ServedInv'
  <2>1. served' = served /\ owed' = owed
    BY <1>1 DEF historyVars
  <2>2. Ahead(w)' = Ahead(w)
    BY <1>1, <1>4 DEF Ahead
  <2>3. work'[w].job # NoJob /\ work'[w].errors = {} =>
            FileSet(work'[w].job) \subseteq served'[work'[w].job] \cup Ahead(w)'
    BY <1>4, <2>1, <2>2 DEF JInv, ServedInv
  <2>4. QED BY <1>1, <1>4, <2>1, <2>3, RunServed
<1>10. ClaimsAreGood'
  <2>1. pc[w] # "process" /\ UNCHANGED <<handled, good>> /\ ClaimsAreGood
    BY <1>1 DEF historyVars, poolVars, JInv
  <2>2. QED BY <1>4, <2>1, ClaimsKept
<1>11. QED BY <1>4, <1>5, <1>7, <1>8, <1>9, <1>10 DEF JInv

LEMMA ClaimOK ==
    ASSUME JInv, NEW w \in Workers, Claim(w)
    PROVE  JInv'
<1> DEFINE f == work[w].file
           k == work[w].job
<1>1. /\ pc[w] = "claim"
      /\ \/ /\ f \in handled /\ served' = [served EXCEPT ![k] = @ \cup {f}]
            /\ At(w, "unlock", work[w]) /\ handled' = handled
         \/ /\ f \notin handled /\ handled' = handled \cup {f}
            /\ At(w, "process", work[w]) /\ served' = served
      /\ UNCHANGED <<durableVars, ripe, ctxDone, stopping, queue, scheduled, lockVars, owed,
                     good>>
  BY DEF Claim
<1>2. /\ pc[w] \in Holding /\ pc[w] \notin {"gone", "idle"} /\ pc[w] \in Owning
      /\ \A stage \in {"unlock", "process"} :
            stage \in Stages /\ stage \notin {"gone", "idle"} /\ stage \in Holding
  BY <1>1 DEF Holding, Stages, Owning
<1>3. work[w] \in Locals /\ k \in Jobs /\ f \in Files /\ work[w].lock \in LockIds
  BY <1>2, WorkerOK
<1>4. PICK stage \in {"unlock", "process"} :
          /\ At(w, stage, work[w])
          /\ stage = "unlock" =>
                served' = [served EXCEPT ![k] = @ \cup {f}] /\ handled' = handled
          /\ stage = "process" => served' = served /\ handled' = handled \cup {f}
  BY <1>1
<1>5. /\ pc' \in [Workers -> Stages] /\ WorkTypes' /\ WorkerInv'
      /\ pc'[w] = stage /\ work'[w] = work[w]
      /\ \A v \in Workers : v # w => pc'[v] = pc[v] /\ work'[v] = work[v]
  <2>1. stage \in Stages /\ stage \notin {"gone", "idle"} /\ stage \in Holding
    BY <1>2
  <2>2. QED BY <1>3, <1>4, <2>1, StepOK
<1>6. \A v \in Workers : work'[v] = work[v]
  BY <1>5
<1>7. JobsTypes'
  <2>1. served' \in [Jobs -> SUBSET Files] /\ handled' \subseteq Files
    BY <1>3, <1>4 DEF JInv, JobsTypes
  <2>2. QED BY <1>1, <1>5, <2>1 DEF JInv, JobsTypes, durableVars
<1>8. LockInv'
  <2>1. \A v \in Workers :
            /\ work'[v].lock = work[v].lock
            /\ pc'[v] \in Holding => pc[v] \in Holding /\ work'[v].file = work[v].file
            /\ pc'[v] \in Owning => pc[v] \in Owning
    BY <1>2, <1>5
  <2>2. QED BY <1>1, <2>1, LocksKept DEF JInv
<1>9. ScheduleInv'
  BY <1>1, <1>6, ScheduleKept DEF JInv, ScheduleInv, durableVars
<1>10. ServedInv'
  <2>1. \A j \in Jobs : served[j] \subseteq served'[j]
    BY <1>3, <1>4 DEF JInv, JobsTypes
  <2>2. ASSUME work'[w].job # NoJob, work'[w].errors = {}
        PROVE  FileSet(work'[w].job) \subseteq served'[work'[w].job] \cup Ahead(w)'
    <3>1. FileSet(k) \subseteq served[k] \cup Ahead(w)
      BY <1>5, <2>2 DEF JInv, ServedInv
    <3>2. Ahead(w) = Members(work[w].todo) \cup {f}
      BY <1>1 DEF Ahead
    <3>3. CASE stage = "unlock"
      <4>1. served'[k] = served[k] \cup {f}
        BY <1>3, <1>4, <3>3 DEF JInv, JobsTypes
      <4>2. Members(work[w].todo) \subseteq Ahead(w)'
        BY <1>5 DEF Ahead
      <4>3. QED BY <1>5, <3>1, <3>2, <4>1, <4>2
    <3>4. CASE stage = "process"
      <4>1. Ahead(w)' = Ahead(w)
        BY <1>1, <1>5, <3>4 DEF Ahead
      <4>2. QED BY <1>4, <1>5, <3>1, <3>4, <4>1
    <3>5. QED BY <3>3, <3>4
  <2>3. QED BY <1>1, <1>5, <2>1, <2>2, RunServed
<1>11. ClaimsAreGood'
  <2>1. ASSUME NEW g \in handled'
        PROVE  g \in good' \/ \E v \in Workers : pc'[v] = "process" /\ work'[v].file = g
    <3>1. CASE g \in handled
      <4>1. g \in good \/ \E v \in Workers : pc[v] = "process" /\ work[v].file = g
        BY <3>1 DEF JInv, ClaimsAreGood
      <4>2. QED BY <1>1, <1>5, <4>1
    <3>2. CASE g \notin handled
      BY <1>4, <1>5, <2>1, <3>2
    <3>3. QED BY <3>1, <3>2
  <2>2. QED BY <2>1 DEF ClaimsAreGood
<1>12. QED BY <1>5, <1>7, <1>8, <1>9, <1>10, <1>11 DEF JInv

LEMMA ProcessOK ==
    ASSUME JInv, NEW w \in Workers, Process(w)
    PROVE  JInv'
<1> DEFINE f == work[w].file
           k == work[w].job
           failed(e) == [work[w] EXCEPT !.errors = @ \cup {e}]
<1>1. /\ pc[w] = "process"
      /\ \/ /\ good' = good \cup {f} /\ served' = [served EXCEPT ![k] = @ \cup {f}]
            /\ At(w, "unlock", work[w]) /\ handled' = handled
         \/ \E e \in Errors :
               /\ handled' = handled \ {f} /\ good' = good \ {f}
               /\ At(w, "unlock", failed(e)) /\ served' = served
      /\ UNCHANGED <<durableVars, ripe, ctxDone, stopping, queue, scheduled, lockVars, owed>>
  BY DEF Process
<1>2. /\ pc[w] \in Holding /\ pc[w] \notin {"gone", "idle"} /\ pc[w] \in Owning
      /\ "unlock" \in Stages /\ "unlock" \notin {"gone", "idle"} /\ "unlock" \in Holding
  BY <1>1 DEF Holding, Stages, Owning
<1>3. work[w] \in Locals /\ k \in Jobs /\ f \in Files /\ work[w].lock \in LockIds
  BY <1>2, WorkerOK
<1>4. \A e \in Errors :
          /\ failed(e) \in Locals /\ failed(e).job = k /\ failed(e).file = f
          /\ failed(e).lock = work[w].lock /\ failed(e).todo = work[w].todo
          /\ failed(e).errors # {}
  BY <1>3 DEF Locals
<1> HIDE DEF failed
<1>5. PICK locals \in Locals :
          /\ At(w, "unlock", locals)
          /\ locals.job = k /\ locals.file = f /\ locals.lock = work[w].lock
          /\ locals.todo = work[w].todo
          /\ \/ /\ good' = good \cup {f} /\ served' = [served EXCEPT ![k] = @ \cup {f}]
                /\ handled' = handled /\ locals.errors = work[w].errors
             \/ /\ good' = good \ {f} /\ served' = served
                /\ handled' = handled \ {f} /\ locals.errors # {}
  BY <1>1, <1>3, <1>4
<1>6. /\ pc' \in [Workers -> Stages] /\ WorkTypes' /\ WorkerInv'
      /\ pc'[w] = "unlock" /\ work'[w] = locals
      /\ \A v \in Workers : v # w => pc'[v] = pc[v] /\ work'[v] = work[v]
  BY <1>2, <1>3, <1>5, StepOK
<1>7. JobsTypes'
  <2>1. /\ served' \in [Jobs -> SUBSET Files] /\ handled' \subseteq Files
        /\ good' \subseteq Files
    BY <1>3, <1>5 DEF JInv, JobsTypes
  <2>2. QED BY <1>1, <1>6, <2>1 DEF JInv, JobsTypes, durableVars
<1>8. LockInv'
  <2>1. \A v \in Workers :
            /\ work'[v].lock = work[v].lock
            /\ pc'[v] \in Holding => pc[v] \in Holding /\ work'[v].file = work[v].file
            /\ pc'[v] \in Owning => pc[v] \in Owning
    BY <1>2, <1>5, <1>6
  <2>2. QED BY <1>1, <2>1, LocksKept DEF JInv
<1>9. ScheduleInv'
  <2>1. \A v \in Workers : work'[v].job = work[v].job
    BY <1>5, <1>6
  <2>2. QED BY <1>1, <2>1, ScheduleKept DEF JInv, ScheduleInv, durableVars
<1>10. ServedInv'
  <2>1. \A j \in Jobs : served[j] \subseteq served'[j]
    BY <1>3, <1>5 DEF JInv, JobsTypes
  <2>2. ASSUME work'[w].job # NoJob, work'[w].errors = {}
        PROVE  FileSet(work'[w].job) \subseteq served'[work'[w].job] \cup Ahead(w)'
    <3>1. locals.errors = work[w].errors /\ served' = [served EXCEPT ![k] = @ \cup {f}]
      BY <1>5, <1>6, <2>2
    <3>2. FileSet(k) \subseteq served[k] \cup Ahead(w)
      BY <1>5, <1>6, <2>2, <3>1 DEF JInv, ServedInv
    <3>3. Ahead(w) = Members(work[w].todo) \cup {f}
      BY <1>1 DEF Ahead
    <3>4. served'[k] = served[k] \cup {f}
      BY <1>3, <3>1 DEF JInv, JobsTypes
    <3>5. Members(work[w].todo) \subseteq Ahead(w)'
      BY <1>5, <1>6 DEF Ahead
    <3>6. QED BY <1>5, <1>6, <3>2, <3>3, <3>4, <3>5
  <2>3. QED BY <1>1, <1>6, <2>1, <2>2, RunServed
<1>11. ClaimsAreGood'
  <2>1. ASSUME NEW g \in handled'
        PROVE  g \in good' \/ \E v \in Workers : pc'[v] = "process" /\ work'[v].file = g
    <3>1. g \in good \/ \E v \in Workers : pc[v] = "process" /\ work[v].file = g
      BY <1>5, <2>1 DEF JInv, ClaimsAreGood
    <3>2. CASE g = f
      BY <1>5, <2>1, <3>2
    <3>3. CASE g # f
      BY <1>5, <1>6, <3>1, <3>3
    <3>4. QED BY <3>2, <3>3
  <2>2. QED BY <2>1 DEF ClaimsAreGood
<1>12. QED BY <1>6, <1>7, <1>8, <1>9, <1>10, <1>11 DEF JInv

LEMMA UnlockOK ==
    ASSUME JInv, NEW w \in Workers, Unlock(w)
    PROVE  JInv'
<1>1. /\ pc[w] = "unlock" /\ owner' = [owner EXCEPT ![work[w].lock] = NoWorker]
      /\ At(w, "release", work[w])
      /\ UNCHANGED <<durableVars, ripe, poolVars, locks, refs, historyVars>>
  BY DEF Unlock
<1>2. /\ pc[w] \in Holding /\ pc[w] \in Owning /\ pc[w] \notin {"gone", "idle"}
      /\ "release" \in Stages /\ "release" \notin {"gone", "idle"} /\ "release" \in Holding
      /\ "release" \notin Owning
  BY <1>1 DEF Holding, Stages, Owning
<1>3. /\ work[w] \in Locals /\ work[w].job \in Jobs
      /\ work[w].file \in Files /\ work[w].lock \in LockIds
  BY <1>2, WorkerOK
<1>4. /\ pc' \in [Workers -> Stages] /\ WorkTypes' /\ WorkerInv'
      /\ pc'[w] = "release" /\ work'[w] = work[w]
      /\ \A v \in Workers : v # w => pc'[v] = pc[v] /\ work'[v] = work[v]
  BY <1>1, <1>2, <1>3, StepOK
<1>5. JobsTypes'
  BY <1>1, <1>4 DEF JInv, JobsTypes, durableVars, poolVars, historyVars
<1>6. \A v \in Workers : work'[v] = work[v]
  BY <1>4
<1>7. LockInv'
  <2>1. LockInv
    BY DEF JInv
  <2>2. \A l \in LockIds : Users(l)' = Users(l)
    BY <1>6 DEF Users
  <2>3. \A v \in Workers : pc'[v] \in Holding => locks'[work'[v].file] = work'[v].lock
    BY <1>1, <1>2, <1>4, <2>1 DEF LockInv
  <2>4. ASSUME NEW v \in Workers, pc'[v] \in Owning PROVE owner'[work'[v].lock] = v
    <3>1. v # w
      BY <1>2, <1>4, <2>4
    <3>2. /\ pc[v] \in Owning /\ work'[v] = work[v] /\ owner[work[v].lock] = v
      BY <1>4, <2>1, <2>4, <3>1 DEF LockInv
    <3>3. owner[work[w].lock] = w
      BY <1>2, <2>1 DEF LockInv
    <3>4. work[v].lock \in LockIds
      BY <3>2, WorkerOK DEF Owning, Holding
    <3>5. QED BY <1>1, <2>1, <3>1, <3>2, <3>3, <3>4 DEF LockInv
  <2>5. owner' \in [LockIds -> Workers \cup {NoWorker}]
    BY <1>1, <2>1 DEF LockInv
  <2>6. QED BY <1>1, <2>1, <2>2, <2>3, <2>4, <2>5 DEF LockInv
<1>8. ScheduleInv'
  BY <1>1, <1>6, ScheduleKept DEF JInv, ScheduleInv, durableVars, poolVars
<1>9. ServedInv'
  <2>1. served' = served /\ owed' = owed
    BY <1>1 DEF historyVars
  <2>2. Ahead(w)' = Ahead(w)
    BY <1>1, <1>4 DEF Ahead
  <2>3. work'[w].job # NoJob /\ work'[w].errors = {} =>
            FileSet(work'[w].job) \subseteq served'[work'[w].job] \cup Ahead(w)'
    BY <1>4, <2>1, <2>2 DEF JInv, ServedInv
  <2>4. QED BY <1>1, <1>4, <2>1, <2>3, RunServed
<1>10. ClaimsAreGood'
  <2>1. pc[w] # "process" /\ UNCHANGED <<handled, good>> /\ ClaimsAreGood
    BY <1>1 DEF historyVars, poolVars, JInv
  <2>2. QED BY <1>4, <2>1, ClaimsKept
<1>11. QED BY <1>4, <1>5, <1>7, <1>8, <1>9, <1>10 DEF JInv

LEMMA ReleaseOK ==
    ASSUME JInv, NEW w \in Workers, Release(w)
    PROVE  JInv'
<1> DEFINE f == work[w].file
           l == work[w].lock
           locals == [work[w] EXCEPT !.file = NoFile, !.lock = NoLock]
<1>1. /\ pc[w] = "release" /\ refs' = [refs EXCEPT ![l] = @ - 1]
      /\ locks' = IF refs[l] = 1 /\ locks[f] = l THEN [locks EXCEPT ![f] = NoLock] ELSE locks
      /\ At(w, "files", locals)
      /\ UNCHANGED <<durableVars, ripe, poolVars, owner, historyVars>>
  BY DEF Release
<1>2. /\ pc[w] \in Holding /\ pc[w] \notin Owning /\ pc[w] \notin {"gone", "idle"}
      /\ "files" \in Stages /\ "files" \notin {"gone", "idle"} /\ "files" \notin Holding
      /\ "files" \notin Owning
  BY <1>1 DEF Holding, Stages, Owning
<1>3. work[w] \in Locals /\ work[w].job \in Jobs /\ f \in Files /\ l \in LockIds
  BY <1>2, WorkerOK
<1>4. /\ locals \in Locals /\ locals.job = work[w].job /\ locals.lock = NoLock
      /\ locals.errors = work[w].errors /\ locals.todo = work[w].todo
  BY <1>3 DEF Locals
<1> HIDE DEF locals
<1>5. /\ pc' \in [Workers -> Stages] /\ WorkTypes' /\ WorkerInv'
      /\ pc'[w] = "files" /\ work'[w] = locals
      /\ \A v \in Workers : v # w => pc'[v] = pc[v] /\ work'[v] = work[v]
  BY <1>1, <1>2, <1>3, <1>4, StepOK
<1>6. JobsTypes'
  BY <1>1, <1>5 DEF JInv, JobsTypes, durableVars, poolVars, historyVars
<1>7. LockInv'
  <2>1. LockInv /\ locks[f] = l
    BY <1>2 DEF JInv, LockInv
  <2>2. /\ IsFiniteSet(Users(l)) /\ refs[l] = Cardinality(Users(l)) /\ refs[l] \in Nat
        /\ w \in Users(l)
    BY <1>3, <2>1 DEF LockInv, Users
  <2>3. /\ IsFiniteSet(Users(l) \ {w}) /\ Cardinality(Users(l) \ {w}) = refs[l] - 1
        /\ refs[l] - 1 \in Nat
    <3>1. IsFiniteSet(Users(l) \ {w}) /\ Cardinality(Users(l) \ {w}) = refs[l] - 1
      BY <2>2, FS_RemoveElement
    <3>2. Cardinality(Users(l) \ {w}) \in Nat
      BY <3>1, FS_CardinalityType
    <3>3. QED BY <3>1, <3>2
  <2>4. ASSUME NEW m \in LockIds
        PROVE  IsFiniteSet(Users(m)') /\ refs'[m] = Cardinality(Users(m)')
    <3>1. CASE m = l
      <4>1. Users(m)' = Users(m) \ {w}
        BY <1>3, <1>4, <1>5, <3>1, JobsAssumption DEF Users
      <4>2. refs'[m] = refs[m] - 1
        BY <1>1, <1>3, <2>1, <3>1 DEF LockInv
      <4>3. QED BY <2>3, <3>1, <4>1, <4>2
    <3>2. CASE m # l
      <4>1. Users(m)' = Users(m)
        BY <1>3, <1>4, <1>5, <3>2, JobsAssumption DEF Users
      <4>2. refs'[m] = refs[m]
        BY <1>1, <2>1, <3>2 DEF LockInv
      <4>3. QED BY <2>1, <4>1, <4>2 DEF LockInv
    <3>3. QED BY <3>1, <3>2
  <2>5. refs' \in [LockIds -> Nat]
    BY <1>1, <1>3, <2>1, <2>3 DEF LockInv
  <2>6. locks' \in [Files -> LockIds \cup {NoLock}]
    BY <1>1, <2>1 DEF LockInv
  <2>7. ASSUME NEW v \in Workers, pc'[v] \in Holding
        PROVE  locks'[work'[v].file] = work'[v].lock
    <3>1. v # w /\ pc[v] \in Holding /\ work'[v] = work[v]
      BY <1>2, <1>5, <2>7
    <3>2. /\ locks[work[v].file] = work[v].lock
          /\ work[v].file \in Files /\ work[v].lock \in LockIds
      BY <2>1, <3>1, WorkerOK DEF LockInv
    <3>3. CASE locks' = locks
      BY <3>1, <3>2, <3>3
    <3>4. CASE refs[l] = 1 /\ locks' = [locks EXCEPT ![f] = NoLock]
      <4>1. Users(l) \ {w} = {}
        <5>1. Cardinality(Users(l) \ {w}) = 0
          BY <2>3, <3>4
        <5>2. QED BY <2>3, <5>1, FS_EmptySet
      <4>2. work[v].lock # l
        BY <3>1, <4>1 DEF Users
      <4>3. work[v].file # f
        BY <2>1, <3>2, <4>2
      <4>4. QED BY <2>1, <3>1, <3>2, <3>4, <4>3 DEF LockInv
    <3>5. QED BY <1>1, <3>3, <3>4
  <2>8. ASSUME NEW v \in Workers, pc'[v] \in Owning PROVE owner'[work'[v].lock] = v
    <3>1. v # w
      BY <1>2, <1>5, <2>8
    <3>2. QED BY <1>1, <1>5, <2>1, <2>8, <3>1 DEF LockInv
  <2>9. owner' \in [LockIds -> Workers \cup {NoWorker}]
    BY <1>1, <2>1 DEF LockInv
  <2>10. QED BY <2>4, <2>5, <2>6, <2>7, <2>8, <2>9 DEF LockInv
<1>8. ScheduleInv'
  <2>1. \A v \in Workers : work'[v].job = work[v].job
    BY <1>4, <1>5
  <2>2. QED BY <1>1, <2>1, ScheduleKept DEF JInv, ScheduleInv, durableVars, poolVars
<1>9. ServedInv'
  <2>1. served' = served /\ owed' = owed
    BY <1>1 DEF historyVars
  <2>2. Ahead(w)' = Ahead(w)
    BY <1>1, <1>4, <1>5 DEF Ahead
  <2>3. work'[w].job # NoJob /\ work'[w].errors = {} =>
            FileSet(work'[w].job) \subseteq served'[work'[w].job] \cup Ahead(w)'
    BY <1>4, <1>5, <2>1, <2>2 DEF JInv, ServedInv
  <2>4. QED BY <1>1, <1>5, <2>1, <2>3, RunServed
<1>10. ClaimsAreGood'
  <2>1. pc[w] # "process" /\ UNCHANGED <<handled, good>> /\ ClaimsAreGood
    BY <1>1 DEF historyVars, poolVars, JInv
  <2>2. QED BY <1>5, <2>1, ClaimsKept
<1>11. QED BY <1>5, <1>6, <1>7, <1>8, <1>9, <1>10 DEF JInv

LEMMA QuitOK ==
    ASSUME JInv, NEW w \in Workers, Quit(w)
    PROVE  JInv'
<1>1. /\ pc[w] = "idle" /\ At(w, "gone", work[w])
      /\ UNCHANGED <<durableVars, ripe, poolVars, lockVars, historyVars>>
  BY DEF Quit
<1>2. /\ work[w] \in Locals /\ work[w] = Idle /\ work[w].lock = NoLock
      /\ "gone" \in Stages /\ "gone" \notin Holding /\ "gone" \notin Owning
  <2>1. pc[w] \notin Holding
    BY <1>1 DEF Holding
  <2>2. QED BY <1>1, <2>1, WorkerOK DEF Stages, Holding, Owning
<1>3. /\ pc' \in [Workers -> Stages] /\ WorkTypes' /\ WorkerInv'
      /\ pc'[w] = "gone" /\ work'[w] = work[w]
      /\ \A v \in Workers : v # w => pc'[v] = pc[v] /\ work'[v] = work[v]
  BY <1>1, <1>2, StepOK
<1>4. JobsTypes'
  BY <1>1, <1>3 DEF JInv, JobsTypes, durableVars, poolVars, historyVars
<1>5. \A v \in Workers : work'[v] = work[v]
  BY <1>3
<1>6. LockInv'
  <2>1. LockInv /\ UNCHANGED lockVars
    BY <1>1 DEF JInv
  <2>2. \A v \in Workers :
            /\ work'[v].lock = work[v].lock
            /\ pc'[v] \in Holding => pc[v] \in Holding /\ work'[v].file = work[v].file
            /\ pc'[v] \in Owning => pc[v] \in Owning
    BY <1>2, <1>3
  <2>3. QED BY <2>1, <2>2, LocksKept
<1>7. ScheduleInv'
  BY <1>1, <1>5, ScheduleKept DEF JInv, ScheduleInv, durableVars, poolVars
<1>8. ServedInv'
  <2>1. served' = served /\ owed' = owed
    BY <1>1 DEF historyVars
  <2>2. Ahead(w)' = Ahead(w)
    BY <1>1, <1>3 DEF Ahead
  <2>3. work'[w].job # NoJob /\ work'[w].errors = {} =>
            FileSet(work'[w].job) \subseteq served'[work'[w].job] \cup Ahead(w)'
    BY <1>3, <2>1, <2>2 DEF JInv, ServedInv
  <2>4. QED BY <1>1, <1>3, <2>1, <2>3, RunServed
<1>9. ClaimsAreGood'
  <2>1. pc[w] # "process" /\ UNCHANGED <<handled, good>> /\ ClaimsAreGood
    BY <1>1 DEF historyVars, poolVars, JInv
  <2>2. QED BY <1>3, <2>1, ClaimsKept
<1>10. QED BY <1>3, <1>4, <1>6, <1>7, <1>8, <1>9 DEF JInv

\* A run at its end without an error has served each file of its job.
LEMMA FinishedServed ==
    ASSUME JInv, NEW w \in Workers, pc[w] = "files", work[w].todo = << >>, work[w].errors = {}
    PROVE  FileSet(work[w].job) \subseteq served[work[w].job]
<1>1. work[w].job \in Jobs /\ work[w].job # NoJob
  BY JobsAssumption DEF JInv, WorkerInv
<1>2. FileSet(work[w].job) \subseteq served[work[w].job] \cup Ahead(w)
  BY <1>1 DEF JInv, ServedInv
<1>3. Members(work[w].todo) = {}
  BY DEF Members
<1>4. Ahead(w) = {}
  BY <1>3 DEF Ahead
<1>5. QED BY <1>2, <1>4

\* The save at the end of a run concerns its job only, and keeps it in the file
\* after an error.
LEMMA FinishSaved ==
    ASSUME JInv, NEW w \in Workers, Finish(w)
    PROVE  /\ ripe' \subseteq Jobs /\ open' \in BOOLEAN /\ writeErr' \in BOOLEAN
           /\ mem' \in [Jobs -> Entry \cup {NoEntry}] /\ disk' \in [Jobs -> Entry \cup {NoEntry}]
           /\ MemIsDisk' /\ (~open' => mem' = disk')
           /\ \A j \in Jobs : j # work[w].job => mem'[j] = mem[j] /\ disk'[j] = disk[j]
           /\ work[w].errors # {} /\ work[w].job \in Stored(disk) => work[w].job \in Stored(disk')
<1> DEFINE k == work[w].job
           errors == work[w].errors
           entry == IF errors = {} THEN NoEntry ELSE Failed(mem[k], errors)
<1>1. pc[w] = "files"
  BY DEF Finish
<1>2. /\ mem \in [Jobs -> Entry \cup {NoEntry}] /\ disk \in [Jobs -> Entry \cup {NoEntry}]
      /\ ripe \subseteq Jobs /\ open \in BOOLEAN /\ writeErr \in BOOLEAN
  BY DEF JInv, JobsTypes
<1>3. CASE UNCHANGED <<durableVars, ripe>>
  <2>1. open' = open /\ mem' = mem /\ disk' = disk /\ writeErr' = writeErr /\ ripe' = ripe
    BY <1>3 DEF durableVars
  <2>2. MemIsDisk' /\ (~open' => mem' = disk')
    BY <2>1 DEF JInv, ServedInv, MemIsDisk
  <2>3. QED BY <1>2, <2>1, <2>2 DEF Stored
<1>4. CASE /\ Update(Result(k, errors))
           /\ ripe' = IF writeErr' \/ errors = {} THEN ripe ELSE ripe \ {k}
  <2>1. k \in Jobs /\ k \in Stored(mem)
    BY <1>1, RunningStored
  <2>2. mem[k] \in Entry
    BY <1>2, <2>1 DEF Stored
  <2>3. entry \in Entry \cup {NoEntry} /\ (errors # {} => entry \in Entry)
    BY <2>2, EntryOK
  <2>4. Result(k, errors) = [mem EXCEPT ![k] = entry]
    BY DEF Result
  <2> HIDE DEF entry
  <2>5. /\ mem = disk /\ mem' \in {mem, [mem EXCEPT ![k] = entry]}
        /\ disk' \in {mem, [mem EXCEPT ![k] = entry]}
        /\ open' /\ MemIsDisk'
    BY <1>4, <2>1, <2>3, <2>4, SavedEntry
  <2>6. /\ Update([mem EXCEPT ![k] = entry])
        /\ [mem EXCEPT ![k] = entry] \in [Jobs -> Entry \cup {NoEntry}]
    BY <1>2, <1>4, <2>1, <2>3, <2>4
  <2>7. /\ mem' \in [Jobs -> Entry \cup {NoEntry}] /\ disk' \in [Jobs -> Entry \cup {NoEntry}]
        /\ open' \in BOOLEAN /\ writeErr' \in BOOLEAN
    <3>1. JobsTypes
      BY DEF JInv
    <3>2. QED BY <1>2, <2>6, <3>1, UpdateOK
  <2>8. ripe' \subseteq Jobs
    BY <1>2, <1>4
  <2>9. \A j \in Jobs : j # k => mem'[j] = mem[j] /\ disk'[j] = disk[j]
    BY <1>2, <2>5
  <2>10. errors # {} /\ k \in Stored(disk) => k \in Stored(disk')
    BY <1>2, <2>1, <2>2, <2>3, <2>5, NoEntryAssumption DEF Stored
  <2>11. QED BY <2>5, <2>7, <2>8, <2>9, <2>10
<1>5. QED BY <1>3, <1>4 DEF Finish

LEMMA FinishOK ==
    ASSUME JInv, NEW w \in Workers, Finish(w)
    PROVE  JInv'
<1> DEFINE k == work[w].job
           errors == work[w].errors
<1>1. /\ pc[w] = "files" /\ work[w].todo = << >>
      /\ scheduled' = scheduled \ {k} /\ owed' = IF errors = {} THEN owed \ {k} ELSE owed
      /\ At(w, "idle", Idle)
      /\ UNCHANGED <<ctxDone, stopping, queue, handled, lockVars, good, served>>
  BY DEF Finish
<1>2. /\ ripe' \subseteq Jobs /\ open' \in BOOLEAN /\ writeErr' \in BOOLEAN
      /\ mem' \in [Jobs -> Entry \cup {NoEntry}] /\ disk' \in [Jobs -> Entry \cup {NoEntry}]
      /\ MemIsDisk' /\ (~open' => mem' = disk')
      /\ \A j \in Jobs : j # k => mem'[j] = mem[j] /\ disk'[j] = disk[j]
      /\ errors # {} /\ k \in Stored(disk) => k \in Stored(disk')
  BY FinishSaved
<1>3. /\ pc[w] \notin {"gone", "idle"} /\ pc[w] \notin Holding /\ pc[w] \notin Owning
      /\ "idle" \in Stages /\ "idle" \notin Holding /\ "idle" \notin Owning
  BY <1>1 DEF Stages, Holding, Owning
<1>4. /\ k \in Jobs /\ k # NoJob /\ k \in scheduled /\ k \notin Members(queue)
      /\ \A v \in Workers : v # w => work[v].job # k
  BY <1>3, RunningStored, JobsAssumption
<1>5. Idle \in Locals /\ Idle.lock = NoLock /\ Idle.job = NoJob
  BY DEF Idle, Locals
<1>6. /\ pc' \in [Workers -> Stages] /\ WorkTypes' /\ WorkerInv'
      /\ pc'[w] = "idle" /\ work'[w] = Idle
      /\ \A v \in Workers : v # w => pc'[v] = pc[v] /\ work'[v] = work[v]
  BY <1>1, <1>3, <1>5, StepOK
<1>7. JobsTypes'
  <2>1. scheduled' \subseteq Jobs /\ owed' \subseteq Jobs
    BY <1>1 DEF JInv, JobsTypes
  <2>2. QED BY <1>1, <1>2, <1>6, <2>1 DEF JInv, JobsTypes
<1>8. LockInv'
  <2>1. work[w].lock = NoLock
    BY <1>3, WorkerOK
  <2>2. \A v \in Workers :
            /\ work'[v].lock = work[v].lock
            /\ pc'[v] \in Holding => pc[v] \in Holding /\ work'[v].file = work[v].file
            /\ pc'[v] \in Owning => pc[v] \in Owning
    BY <1>3, <1>5, <1>6, <2>1
  <2>3. LockInv /\ UNCHANGED lockVars
    BY <1>1 DEF JInv
  <2>4. QED BY <2>2, <2>3, LocksKept
<1>9. ScheduleInv'
  <2>1. ScheduleInv
    BY DEF JInv
  <2>2. RunningJobs' = RunningJobs \ {k}
    BY <1>4, <1>5, <1>6 DEF RunningJobs
  <2>3. queue' = queue
    BY <1>1
  <2>4. /\ scheduled' = Members(queue') \cup RunningJobs'
        /\ Members(queue') \cap RunningJobs' = {} /\ NoRepeat(queue')
    BY <1>1, <1>4, <2>1, <2>2, <2>3 DEF ScheduleInv
  <2>5. \A u, v \in Workers : u # v /\ work'[u].job # NoJob => work'[u].job # work'[v].job
    BY <1>5, <1>6, <2>1 DEF ScheduleInv
  <2>6. ASSUME NEW j \in scheduled' PROVE j \in Stored(mem') /\ ~mem'[j].review
    <3>1. j # k /\ j \in Jobs /\ j \in Stored(mem) /\ ~mem[j].review
      BY <1>1, <2>1 DEF ScheduleInv, Stored
    <3>2. QED BY <1>2, <3>1 DEF Stored
  <2>7. QED BY <2>4, <2>5, <2>6 DEF ScheduleInv
<1>10. ServedInv'
  <2>1. ASSUME NEW v \in Workers, work'[v].job # NoJob, work'[v].errors = {}
        PROVE  FileSet(work'[v].job) \subseteq served'[work'[v].job] \cup Ahead(v)'
    <3>1. v # w
      BY <1>5, <1>6, <2>1
    <3>2. pc'[v] = pc[v] /\ work'[v] = work[v] /\ served' = served /\ ServedInv
      BY <1>1, <1>6, <3>1 DEF JInv
    <3>3. QED BY <2>1, <3>2, RunKept
  <2>2. ASSUME NEW j \in Stored(mem') \cup owed'
        PROVE  j \in Stored(disk') \/ FileSet(j) \subseteq served'[j]
    <3>1. served' = served /\ j \in Jobs
      BY <1>1 DEF Stored, JInv, JobsTypes
    <3>2. CASE j # k
      <4>1. j \in Stored(mem) \cup owed
        BY <1>1, <1>2, <3>1, <3>2 DEF Stored
      <4>2. j \in Stored(disk) \/ FileSet(j) \subseteq served[j]
        BY <4>1 DEF JInv, ServedInv
      <4>3. j \in Stored(disk) => j \in Stored(disk')
        BY <1>2, <3>1, <3>2 DEF Stored
      <4>4. QED BY <3>1, <4>2, <4>3
    <3>3. CASE j = k /\ errors = {}
      BY <1>1, <3>1, <3>3, FinishedServed
    <3>4. CASE j = k /\ errors # {}
      <4>1. k \in Stored(mem)
        BY <1>3, RunningStored
      <4>2. k \in Stored(disk) \/ FileSet(k) \subseteq served[k]
        BY <4>1 DEF JInv, ServedInv
      <4>3. QED BY <1>2, <3>1, <3>4, <4>2
    <3>5. QED BY <3>2, <3>3, <3>4
  <2>3. QED BY <1>2, <2>1, <2>2 DEF ServedInv
<1>11. ClaimsAreGood'
  <2>1. pc[w] # "process" /\ UNCHANGED <<handled, good>> /\ ClaimsAreGood
    BY <1>1 DEF JInv
  <2>2. QED BY <1>6, <2>1, ClaimsKept
<1>12. QED BY <1>6, <1>7, <1>8, <1>9, <1>10, <1>11 DEF JInv

-----------------------------------------------------------------------------
(* Time, crash and restart. *)

LEMMA ExpireOK ==
    ASSUME JInv, NEW f \in Files, Expire(f)
    PROVE  JInv'
<1>1. /\ handled' = handled \ {f} /\ good' = good \ {f}
      /\ \A w \in Workers : pc[w] = "process" => work[w].file # f
      /\ UNCHANGED <<durableVars, ripe, ctxDone, stopping, queue, scheduled, lockVars,
                     workerVars, owed, served>>
  BY DEF Expire
<1>2. pc' = pc /\ work' = work
  BY <1>1 DEF workerVars
<1>3. JobsTypes'
  BY <1>1, <1>2 DEF JInv, JobsTypes, durableVars
<1>4. ScheduleInv'
  BY <1>1, <1>2, ScheduleKept DEF JInv, ScheduleInv, durableVars
<1>5. ServedInv'
  <2>1. owed \subseteq Jobs
    BY DEF JInv, JobsTypes
  <2>2. QED BY <1>1, <1>2, <2>1, ServedKept, RunKept DEF JInv
<1>6. ClaimsAreGood'
  <2>1. ASSUME NEW g \in handled'
        PROVE  g \in good' \/ \E v \in Workers : pc'[v] = "process" /\ work'[v].file = g
    <3>1. g # f /\ g \in handled
      BY <1>1, <2>1
    <3>2. g \in good \/ \E v \in Workers : pc[v] = "process" /\ work[v].file = g
      BY <3>1 DEF JInv, ClaimsAreGood
    <3>3. QED BY <1>1, <1>2, <3>1, <3>2
  <2>2. QED BY <2>1 DEF ClaimsAreGood
<1>7. QED BY <1>1, <1>3, <1>4, <1>5, <1>6, WorkersKept DEF JInv

\* The memory of a process that ends or begins knows of no lock and no job.
LEMMA EmptiedOK ==
    ASSUME NEW stage \in {"gone", "idle"}, Emptied(stage)
    PROVE  /\ WorkTypes' /\ WorkerInv' /\ LockInv' /\ ScheduleInv' /\ ClaimsAreGood'
           /\ ctxDone' \in BOOLEAN /\ stopping' \in BOOLEAN
           /\ queue' \in Seq(Jobs) /\ Len(queue') <= Capacity
           /\ scheduled' = {} /\ handled' = {} /\ good' = {}
           /\ pc' \in [Workers -> Stages]
           /\ \A w \in Workers : work'[w].job = NoJob
<1>1. /\ ctxDone' = FALSE /\ stopping' = FALSE
      /\ queue' = << >> /\ scheduled' = {} /\ handled' = {} /\ good' = {}
      /\ locks' = [f \in Files |-> NoLock] /\ refs' = [l \in LockIds |-> 0]
      /\ owner' = [l \in LockIds |-> NoWorker]
      /\ pc' = [w \in Workers |-> stage] /\ work' = [w \in Workers |-> Idle]
  BY DEF Emptied
<1>2. WorkTypes'
  BY <1>1, IdleType DEF WorkTypes
<1>3. Idle.job = NoJob /\ Idle.lock = NoLock
  BY DEF Idle
<1>4. /\ \A w \in Workers : pc'[w] = stage /\ work'[w] = Idle /\ work'[w].job = NoJob
      /\ stage \notin Holding /\ stage \notin Owning /\ stage \in Stages
  BY <1>1, <1>3 DEF Holding, Owning, Stages
<1>5. WorkerInv'
  BY <1>3, <1>4 DEF WorkerInv
<1>6. LockInv'
  <2>1. \A l \in LockIds : Users(l)' = {}
    BY <1>3, <1>4, JobsAssumption DEF Users
  <2>2. QED BY <1>1, <1>4, <2>1, FS_EmptySet DEF LockInv
<1>7. ScheduleInv'
  <2>1. RunningJobs' = {}
    BY <1>4 DEF RunningJobs
  <2>2. Members(queue') = {} /\ NoRepeat(queue')
    BY <1>1 DEF Members, NoRepeat
  <2>3. QED BY <1>1, <1>4, <2>1, <2>2 DEF ScheduleInv
<1>8. ClaimsAreGood'
  BY <1>1 DEF ClaimsAreGood
<1>9. queue' \in Seq(Jobs) /\ Len(queue') <= Capacity
  <2>1. << >> \in Seq(Jobs) /\ Len(<< >>) = 0 /\ 0 <= Capacity
    BY JobsAssumption
  <2>2. QED BY <1>1, <2>1
<1>10. QED BY <1>1, <1>2, <1>4, <1>5, <1>6, <1>7, <1>8, <1>9

LEMMA DieOK ==
    ASSUME JInv, Die \/ Restart
    PROVE  JInv'
<1>1. PICK stage \in {"gone", "idle"} : Emptied(stage)
  BY DEF Die, Restart
<1>2. /\ open' \in BOOLEAN /\ writeErr' \in BOOLEAN
      /\ mem' = disk /\ disk' = disk /\ owed' = owed /\ served' = served /\ ripe' \subseteq Jobs
  <2>1. CASE Die
    BY <2>1 DEF Die, Crash, JInv, JobsTypes
  <2>2. CASE Restart
    BY <2>2 DEF Restart, Starts, JInv, JobsTypes
  <2>3. QED BY <2>1, <2>2
<1>3. JobsTypes'
  BY <1>1, <1>2, EmptiedOK DEF JInv, JobsTypes
<1>4. ServedInv'
  <2>1. MemIsDisk' /\ (~open' => mem' = disk')
    BY <1>2 DEF MemIsDisk
  <2>2. \A w \in Workers : work'[w].job = NoJob
    BY <1>1, EmptiedOK
  <2>3. \A k \in Stored(mem') \cup owed' : k \in Stored(disk') \/ FileSet(k) \subseteq served'[k]
    BY <1>2 DEF JInv, ServedInv
  <2>4. QED BY <2>1, <2>2, <2>3 DEF ServedInv
<1>5. QED BY <1>1, <1>3, <1>4, EmptiedOK DEF JInv

LEMMA StutterOK ==
    ASSUME JInv, UNCHANGED jobVars
    PROVE  JInv'
<1>1. /\ UNCHANGED <<durableVars, ripe, poolVars, lockVars, workerVars, historyVars>>
      /\ pc' = pc /\ work' = work
  BY DEF jobVars, workerVars
<1>2. JobsTypes'
  BY <1>1 DEF JInv, JobsTypes, durableVars, poolVars, historyVars
<1>3. ScheduleInv'
  BY <1>1, ScheduleKept DEF JInv, ScheduleInv, durableVars, poolVars
<1>4. ServedInv'
  <2>1. owed \subseteq Jobs /\ owed' = owed /\ served' = served
    BY <1>1 DEF JInv, JobsTypes, historyVars
  <2>2. QED BY <1>1, <2>1, ServedKept, RunKept DEF JInv
<1>5. ClaimsAreGood'
  BY <1>1, ClaimsKept DEF JInv, poolVars, historyVars
<1>6. QED BY <1>1, <1>2, <1>3, <1>4, <1>5, WorkersKept DEF JInv

LEMMA RunOK ==
    ASSUME JInv, NEW w \in Workers, Run(w)
    PROVE  JInv'
  BY TakeOK, ReferenceOK, LockOK, ClaimOK, ProcessOK, UnlockOK, ReleaseOK, FinishOK, QuitOK
     DEF Run

LEMMA JobsNextOK == JInv /\ [JobsNext]_jobVars => JInv'
<1> SUFFICES ASSUME JInv, [JobsNext]_jobVars PROVE JInv'
  OBVIOUS
<1>1. CASE JobsNext
  <2>1. ASSUME NEW k \in Jobs, Enqueue(k) \/ Coalesce(k) \/ Dispatch(k) \/ Elapse(k) PROVE JInv'
    BY <2>1, EnqueueOK, CoalesceOK, DispatchOK, ElapseOK
  <2>2. ASSUME NEW w \in Workers, Run(w) PROVE JInv'
    BY <2>2, RunOK
  <2>3. ASSUME NEW f \in Files, Expire(f) PROVE JInv'
    BY <2>3, ExpireOK
  <2>4. CASE Cancel \/ StopWorkers
    BY <2>4, ElapseOK
  <2>5. CASE Die \/ Restart
    BY <2>5, DieOK
  <2>6. QED BY <1>1, <2>1, <2>2, <2>3, <2>4, <2>5 DEF JobsNext
<1>2. CASE UNCHANGED jobVars
  BY <1>2, StutterOK
<1>3. QED BY <1>1, <1>2

LEMMA JobsInvariant == JobsSpec => []JInv
  BY JobsInitOK, JobsNextOK, PTL DEF JobsSpec

-----------------------------------------------------------------------------
(* Theorems. *)

\* The types of the jobs' state in every reachable state: among them, a channel
\* that never holds more than its capacity, and a count of references to a file
\* lock that never goes below zero (WebhookJobs, acquireFileLock and
\* releaseFileLock).
THEOREM JobsTypeCorrect == JobsSpec => []JobsTypeOK
<1>1. JInv => JobsTypeOK
  BY DEF JInv, JobsTypes, WorkTypes, LockInv, JobsTypeOK
<1>2. QED BY <1>1, JobsInvariant, PTL

\* For any number of workers, files and lock objects, and however lock objects
\* are created, found and dropped, two workers never process one file: a worker
\* at its file owns the object the map holds under that file.
THEOREM FileExclusiveCorrect == JobsSpec => []FileExclusive
<1>1. JInv => FileExclusive
  <2> SUFFICES ASSUME JInv, NEW v \in Workers, NEW w \in Workers, v # w,
                      {pc[v], pc[w]} \subseteq {"claim", "process", "unlock"}
               PROVE  work[v].file # work[w].file
    BY DEF FileExclusive
  <2>1. /\ pc[v] \in Owning /\ pc[w] \in Owning
        /\ pc[v] \in Holding /\ pc[w] \in Holding
    BY DEF Owning, Holding
  <2>2. owner[work[v].lock] = v /\ owner[work[w].lock] = w
    BY <2>1 DEF JInv, LockInv
  <2>3. locks[work[v].file] = work[v].lock /\ locks[work[w].file] = work[w].lock
    BY <2>1 DEF JInv, LockInv
  <2>4. QED BY <2>2, <2>3
<1>2. QED BY <1>1, JobsInvariant, PTL

\* A job is in the channel once, or with one worker, or neither, and never
\* while it waits for review or is no longer stored (dispatchStoredJobs and
\* finishJob keep the map of scheduled jobs to this).
THEOREM RunOnceCorrect == JobsSpec => []RunOnce
<1>1. JInv => RunOnce
  <2> SUFFICES ASSUME JInv PROVE RunOnce
    OBVIOUS
  <2>1. QueuedJobs = Members(queue)
    BY DEF QueuedJobs, Members
  <2>2. Cardinality(Members(queue)) = Len(queue)
    BY NoRepeatCardinality DEF JInv, JobsTypes, ScheduleInv
  <2>3. QED BY <2>1, <2>2 DEF JInv, ScheduleInv, RunOnce
<1>2. QED BY <1>1, JobsInvariant, PTL

\* Neither a crash, nor a shutdown, nor a failed save loses an acknowledged
\* delivery: its job is in the file a restart would load, or each of its files
\* was processed or skipped since the job was stored.
THEOREM AcceptedIsDurableCorrect == JobsSpec => []AcceptedIsDurable
<1>1. JInv => AcceptedIsDurable
  BY DEF JInv, ServedInv, AcceptedIsDurable
<1>2. QED BY <1>1, JobsInvariant, PTL

\* A file that will be skipped was processed successfully, or is being
\* processed (claimWebhook and finishWebhook).
THEOREM ClaimsAreGoodCorrect == JobsSpec => []ClaimsAreGood
<1>1. JInv => ClaimsAreGood
  BY DEF JInv
<1>2. QED BY <1>1, JobsInvariant, PTL

\* A job disappears from the state file only when each of its files was
\* processed successfully, or skipped as processed shortly before, since the
\* job was stored: no other step of any actor removes one.
THEOREM RemovedWhenServedCorrect == JobsSpec => RemovedWhenServed
<1> DEFINE Step == \A k \in Stored(disk) \ Stored(disk') : FileSet(k) \subseteq served'[k]
<1>1. JInv /\ [JobsNext]_jobVars => [Step]_jobVars
  <2> SUFFICES ASSUME JInv, JobsNext, NEW k \in Stored(disk) \ Stored(disk')
               PROVE  FileSet(k) \subseteq served'[k]
    OBVIOUS
  <2>1. k \in Jobs /\ disk' # disk /\ disk'[k] = NoEntry /\ disk[k] # NoEntry
    BY DEF Stored
  <2>2. ASSUME NEW j \in Jobs, Enqueue(j) PROVE FALSE
    <3>1. NewEntry \in Entry /\ Update([mem EXCEPT ![j] = NewEntry])
      BY <2>2, EntryOK DEF Enqueue, AddJob
    <3>2. mem = disk /\ disk' \in {mem, [mem EXCEPT ![j] = NewEntry]}
      BY <3>1, SavedEntry
    <3>3. QED BY <2>1, <3>1, <3>2, NoEntryAssumption DEF JInv, JobsTypes
  <2>3. ASSUME NEW w \in Workers, Finish(w) PROVE FileSet(k) \subseteq served'[k]
    <3>1. k = work[w].job /\ work[w].errors = {}
      BY <2>1, <2>3, FinishSaved
    <3>2. pc[w] = "files" /\ work[w].todo = << >> /\ served' = served
      BY <2>3 DEF Finish
    <3>3. QED BY <3>1, <3>2, FinishedServed
  <2>4. ASSUME NEW w \in Workers, Run(w), ~Finish(w) PROVE disk' = disk
    BY <2>4 DEF Run, Take, Reference, Lock, Claim, Process, Unlock, Release, Quit, durableVars
  <2>5. ASSUME NEW j \in Jobs, Coalesce(j) \/ Dispatch(j) \/ Elapse(j) PROVE disk' = disk
    BY <2>5 DEF Coalesce, Dispatch, Elapse, durableVars
  <2>6. ASSUME NEW f \in Files, Expire(f) PROVE disk' = disk
    BY <2>6 DEF Expire, durableVars
  <2>7. CASE Cancel \/ StopWorkers \/ Die \/ Restart
    BY <2>1, <2>7 DEF Cancel, StopWorkers, Die, Crash, Restart, Starts, durableVars
  <2>8. QED BY <2>1, <2>2, <2>3, <2>4, <2>5, <2>6, <2>7 DEF JobsNext
<1>2. QED BY <1>1, JobsInvariant, PTL DEF JobsSpec, RemovedWhenServed

-----------------------------------------------------------------------------
(* Nobody waits for ever: who waits for a file lock waits for a worker that *)
(* waits for nobody, and what is left to do only becomes less.             *)

\* A lock object in the map belongs to one file and has a user; an owner is at
\* work under its lock; there are no workers without a process.
WaitInv ==
    /\ \A l \in LockIds : owner[l] # NoWorker =>
          owner[l] \in Workers /\ pc[owner[l]] \in Owning /\ work[owner[l]].lock = l
    /\ \A f \in Files : locks[f] # NoLock => \E w \in Workers : work[w].lock = locks[f]
    /\ \A f, g \in Files : locks[f] = locks[g] /\ locks[f] # NoLock => f = g
    /\ \A w \in Workers : pc[w] # "gone" => open
    /\ \A w \in Workers : pc[w] = "gone" => ctxDone \/ ~open
    /\ stopping => ctxDone /\ open

LEMMA WaitInit == JobsInit => WaitInv
  BY DEF JobsInit, WaitInv

\* Steps that leave the workers and their locks alone.
LEMMA WaitKept ==
    ASSUME WaitInv, UNCHANGED <<lockVars, workerVars, open>>, ctxDone => ctxDone',
           stopping' => ctxDone' /\ open
    PROVE  WaitInv'
<1>1. /\ locks' = locks /\ owner' = owner /\ pc' = pc /\ work' = work /\ open' = open
  BY DEF lockVars, workerVars
<1>2. QED BY <1>1 DEF WaitInv

LEMMA ReferenceWaits ==
    ASSUME JInv, WaitInv, NEW w \in Workers, Reference(w)
    PROVE  WaitInv'
<1> DEFINE f == Head(work[w].todo)
           locals(l) == [work[w] EXCEPT !.todo = Tail(@), !.file = f, !.lock = l]
<1>1. PICK l \in LockIds :
          /\ pc[w] = "files" /\ work[w].todo # <<>>
          /\ IF locks[f] = NoLock THEN refs[l] = 0 /\ \A g \in Files : locks[g] # l
             ELSE l = locks[f]
          /\ locks' = [locks EXCEPT ![f] = l]
          /\ At(w, "lock", locals(l))
          /\ UNCHANGED <<durableVars, ripe, poolVars, owner, historyVars>>
  BY DEF Reference
<1>2. /\ work[w] \in Locals /\ work[w].lock = NoLock /\ work[w].todo \in Seq(Files)
      /\ LockInv
  BY <1>1, WorkerOK DEF Locals, Holding, JInv
<1>3. f \in Files
  BY <1>1, <1>2, TailMembers
<1>4. locals(l).lock = l
  BY <1>2 DEF Locals
<1> HIDE DEF locals, f
<1>5. /\ pc'[w] = "lock" /\ work'[w].lock = l
      /\ \A v \in Workers : v # w => pc'[v] = pc[v] /\ work'[v] = work[v]
  BY <1>1, <1>4, AtOK DEF JInv
<1>6. /\ \A g \in Files : locks'[g] = IF g = f THEN l ELSE locks[g]
      /\ owner' = owner /\ open' = open /\ stopping' = stopping /\ ctxDone' = ctxDone
  BY <1>1, <1>2, <1>3 DEF LockInv, durableVars, poolVars
<1>7. ASSUME NEW m \in LockIds, owner'[m] # NoWorker
      PROVE  owner'[m] \in Workers /\ pc'[owner'[m]] \in Owning /\ work'[owner'[m]].lock = m
  <2>1. owner[m] \in Workers /\ pc[owner[m]] \in Owning /\ work[owner[m]].lock = m
    BY <1>6, <1>7 DEF WaitInv
  <2>2. owner[m] # w
    BY <1>1, <2>1 DEF Owning
  <2>3. QED BY <1>5, <1>6, <2>1, <2>2
<1>8. ASSUME NEW g \in Files, locks'[g] # NoLock
      PROVE  \E v \in Workers : work'[v].lock = locks'[g]
  <2>1. CASE g = f
    BY <1>5, <1>6, <2>1
  <2>2. CASE g # f
    <3>1. PICK v \in Workers : work[v].lock = locks[g]
      BY <1>6, <1>8, <2>2 DEF WaitInv
    <3>2. v # w
      BY <1>2, <1>6, <1>8, <2>2, <3>1
    <3>3. QED BY <1>5, <1>6, <2>2, <3>1, <3>2
  <2>3. QED BY <2>1, <2>2
<1>9. ASSUME NEW g \in Files, NEW h \in Files, locks'[g] = locks'[h], locks'[g] # NoLock
      PROVE  g = h
  <2>1. \A e \in Files : e # f => locks[e] # l
    BY <1>1, <1>3 DEF WaitInv
  <2>2. QED BY <1>6, <1>9, <2>1 DEF WaitInv
<1>10. ASSUME NEW v \in Workers
      PROVE  IF pc'[v] = "gone" THEN ctxDone' \/ ~open' ELSE open'
  BY <1>1, <1>5, <1>6, <1>10 DEF WaitInv
<1>11. QED BY <1>6, <1>7, <1>8, <1>9, <1>10 DEF WaitInv

LEMMA ReleaseWaits ==
    ASSUME JInv, WaitInv, NEW w \in Workers, Release(w)
    PROVE  WaitInv'
<1> DEFINE f == work[w].file
           l == work[w].lock
           locals == [work[w] EXCEPT !.file = NoFile, !.lock = NoLock]
<1>1. /\ pc[w] = "release"
      /\ locks' = IF refs[l] = 1 /\ locks[f] = l THEN [locks EXCEPT ![f] = NoLock] ELSE locks
      /\ At(w, "files", locals)
      /\ UNCHANGED <<durableVars, ripe, poolVars, owner, historyVars>>
  BY DEF Release
<1>2. /\ work[w] \in Locals /\ f \in Files /\ l \in LockIds /\ LockInv /\ locks[f] = l
  BY <1>1, WorkerOK DEF Holding, JInv, LockInv
<1>3. /\ pc'[w] = "files" /\ work'[w].lock = NoLock
      /\ \A v \in Workers : v # w => pc'[v] = pc[v] /\ work'[v] = work[v]
  <2>1. locals.lock = NoLock
    BY <1>2 DEF Locals
  <2>2. QED BY <1>1, <2>1, AtOK DEF JInv
<1>4. open' = open /\ stopping' = stopping /\ ctxDone' = ctxDone
  BY <1>1 DEF durableVars, poolVars
<1>5. ASSUME NEW m \in LockIds, owner'[m] # NoWorker
      PROVE  owner'[m] \in Workers /\ pc'[owner'[m]] \in Owning /\ work'[owner'[m]].lock = m
  <2>1. owner[m] \in Workers /\ pc[owner[m]] \in Owning /\ work[owner[m]].lock = m
    BY <1>1, <1>5 DEF WaitInv
  <2>2. owner[m] # w
    BY <1>1, <2>1 DEF Owning
  <2>3. QED BY <1>1, <1>3, <2>1, <2>2
<1>6. \A g \in Files : locks'[g] \in {locks[g], NoLock}
  BY <1>1, <1>2 DEF LockInv
<1>7. ASSUME NEW g \in Files, locks'[g] # NoLock
      PROVE  \E v \in Workers : work'[v].lock = locks'[g]
  <2>1. locks'[g] = locks[g]
    BY <1>6, <1>7
  <2>2. PICK v \in Workers : work[v].lock = locks[g]
    BY <1>7, <2>1 DEF WaitInv
  <2>3. CASE v # w
    BY <1>3, <2>1, <2>2, <2>3
  <2>4. CASE v = w
    <3>1. g = f
      BY <1>2, <1>7, <2>1, <2>2, <2>4 DEF WaitInv
    <3>2. refs[l] # 1
      BY <1>1, <1>2, <1>7, <3>1 DEF LockInv
    <3>3. PICK u \in Users(l) : u # w
      <4>1. IsFiniteSet(Users(l)) /\ refs[l] = Cardinality(Users(l)) /\ w \in Users(l)
        BY <1>2 DEF LockInv, Users
      <4>2. Users(l) # {w}
        BY <3>2, <4>1, FS_Singleton
      <4>3. QED BY <4>1, <4>2
    <3>4. QED BY <1>2, <1>3, <2>1, <3>1, <3>3 DEF Users
  <2>5. QED BY <2>3, <2>4
<1>8. ASSUME NEW g \in Files, NEW h \in Files, locks'[g] = locks'[h], locks'[g] # NoLock
      PROVE  g = h
  BY <1>6, <1>8 DEF WaitInv
<1>9. ASSUME NEW v \in Workers
      PROVE  IF pc'[v] = "gone" THEN ctxDone' \/ ~open' ELSE open'
  BY <1>1, <1>3, <1>4, <1>9 DEF WaitInv
<1>10. QED BY <1>4, <1>5, <1>7, <1>8, <1>9 DEF WaitInv

LEMMA LockWaits ==
    ASSUME JInv, WaitInv, NEW w \in Workers, Lock(w)
    PROVE  WaitInv'
<1>1. /\ pc[w] = "lock" /\ owner[work[w].lock] = NoWorker
      /\ owner' = [owner EXCEPT ![work[w].lock] = w]
      /\ At(w, "claim", work[w])
      /\ locks' = locks /\ open' = open /\ stopping' = stopping /\ ctxDone' = ctxDone
  BY DEF Lock, durableVars, poolVars
<1>2. work[w].lock \in LockIds /\ owner \in [LockIds -> Workers \cup {NoWorker}]
  BY <1>1, WorkerOK DEF Holding, JInv, LockInv
<1>3. /\ pc'[w] = "claim" /\ \A v \in Workers : work'[v] = work[v]
      /\ \A v \in Workers : v # w => pc'[v] = pc[v]
  BY <1>1, AtOK DEF JInv
<1>4. ASSUME NEW m \in LockIds, owner'[m] # NoWorker
      PROVE  owner'[m] \in Workers /\ pc'[owner'[m]] \in Owning /\ work'[owner'[m]].lock = m
  <2>1. CASE m = work[w].lock
    BY <1>1, <1>2, <1>3, <2>1 DEF Owning
  <2>2. CASE m # work[w].lock
    <3>1. /\ owner'[m] = owner[m] /\ owner[m] \in Workers
          /\ pc[owner[m]] \in Owning /\ work[owner[m]].lock = m
      BY <1>1, <1>2, <1>4, <2>2 DEF WaitInv
    <3>2. owner[m] # w
      BY <1>1, <3>1 DEF Owning
    <3>3. QED BY <1>3, <3>1, <3>2
  <2>3. QED BY <2>1, <2>2
<1>5. ASSUME NEW v \in Workers
      PROVE  IF pc'[v] = "gone" THEN ctxDone' \/ ~open' ELSE open'
  BY <1>1, <1>3, <1>5 DEF WaitInv
<1>6. QED BY <1>1, <1>3, <1>4, <1>5 DEF WaitInv

LEMMA UnlockWaits ==
    ASSUME JInv, WaitInv, NEW w \in Workers, Unlock(w)
    PROVE  WaitInv'
<1>1. /\ pc[w] = "unlock"
      /\ owner' = [owner EXCEPT ![work[w].lock] = NoWorker]
      /\ At(w, "release", work[w])
      /\ locks' = locks /\ open' = open /\ stopping' = stopping /\ ctxDone' = ctxDone
  BY DEF Unlock, durableVars, poolVars
<1>2. work[w].lock \in LockIds /\ owner \in [LockIds -> Workers \cup {NoWorker}]
  BY <1>1, WorkerOK DEF Holding, JInv, LockInv
<1>3. /\ pc'[w] = "release" /\ \A v \in Workers : work'[v] = work[v]
      /\ \A v \in Workers : v # w => pc'[v] = pc[v]
  BY <1>1, AtOK DEF JInv
<1>4. ASSUME NEW m \in LockIds, owner'[m] # NoWorker
      PROVE  owner'[m] \in Workers /\ pc'[owner'[m]] \in Owning /\ work'[owner'[m]].lock = m
  <2>1. /\ m # work[w].lock /\ owner'[m] = owner[m] /\ owner[m] \in Workers
        /\ pc[owner[m]] \in Owning /\ work[owner[m]].lock = m
    BY <1>1, <1>2, <1>4 DEF WaitInv
  <2>2. QED BY <1>3, <2>1
<1>5. ASSUME NEW v \in Workers
      PROVE  IF pc'[v] = "gone" THEN ctxDone' \/ ~open' ELSE open'
  BY <1>1, <1>3, <1>5 DEF WaitInv
<1>6. QED BY <1>1, <1>3, <1>4, <1>5 DEF WaitInv

\* The steps of a worker that neither take nor leave a lock.
LEMMA LocalWaits ==
    ASSUME JInv, WaitInv, NEW w \in Workers, NEW stage, NEW locals,
           At(w, stage, locals), locals.lock = work[w].lock,
           pc[w] \in Owning => stage \in Owning,
           pc[w] # "gone", stage = "gone" => ctxDone,
           UNCHANGED <<lockVars, open, stopping, ctxDone>>
    PROVE  WaitInv'
<1>1. /\ pc'[w] = stage /\ work'[w].lock = work[w].lock
      /\ \A v \in Workers : v # w => pc'[v] = pc[v] /\ work'[v] = work[v]
  BY AtOK DEF JInv
<1>2. /\ \A v \in Workers : work'[v].lock = work[v].lock
      /\ \A v \in Workers : pc[v] \in Owning => pc'[v] \in Owning
      /\ \A v \in Workers : pc'[v] # "gone" => open
      /\ \A v \in Workers : pc'[v] = "gone" => ctxDone \/ ~open
  BY <1>1 DEF WaitInv
<1>3. /\ locks' = locks /\ owner' = owner
      /\ open' = open /\ stopping' = stopping /\ ctxDone' = ctxDone
  BY DEF lockVars
<1>4. ASSUME NEW v \in Workers
      PROVE  IF pc'[v] = "gone" THEN ctxDone' \/ ~open' ELSE open'
  BY <1>2, <1>3
<1>5. \A l \in LockIds : owner'[l] # NoWorker =>
          owner'[l] \in Workers /\ pc'[owner'[l]] \in Owning /\ work'[owner'[l]].lock = l
  BY <1>2, <1>3 DEF WaitInv
<1>6. QED BY <1>2, <1>3, <1>4, <1>5 DEF WaitInv

LEMMA RunWaits ==
    ASSUME JInv, WaitInv, NEW w \in Workers, Run(w)
    PROVE  WaitInv'
<1>0. /\ work[w] \in Locals
      /\ pc[w] \in {"gone", "idle", "files"} => work[w].lock = NoLock
      /\ Idle.lock = NoLock
  BY WorkerOK DEF Holding, Idle
<1>1. CASE Take(w)
  <2> DEFINE k == Head(queue)
             locals == [Idle EXCEPT !.job = k, !.todo = FilesOf[k]]
  <2>1. /\ pc[w] = "idle" /\ At(w, "files", locals)
        /\ UNCHANGED <<lockVars, open, stopping, ctxDone>>
    BY <1>1 DEF Take, durableVars
  <2>2. locals.lock = NoLock
    BY DEF Idle
  <2> HIDE DEF locals
  <2>3. pc[w] # "gone" /\ pc[w] \notin Owning
    BY <2>1 DEF Owning
  <2>4. QED BY <1>0, <2>1, <2>2, <2>3, LocalWaits
<1>2. CASE Claim(w)
  <2>1. PICK stage \in {"unlock", "process"} :
            /\ pc[w] = "claim" /\ At(w, stage, work[w])
            /\ UNCHANGED <<lockVars, open, stopping, ctxDone>>
    BY <1>2 DEF Claim, durableVars
  <2>2. stage \in Owning /\ pc[w] # "gone"
    BY <2>1 DEF Owning
  <2>3. QED BY <2>1, <2>2, LocalWaits
<1>3. CASE Process(w)
  <2>1. /\ pc[w] = "process"
        /\ UNCHANGED <<lockVars, open, stopping, ctxDone>>
        /\ \/ At(w, "unlock", work[w])
           \/ \E e \in Errors : At(w, "unlock", [work[w] EXCEPT !.errors = @ \cup {e}])
    BY <1>3 DEF Process, durableVars
  <2>2. "unlock" \in Owning /\ "unlock" # "gone" /\ pc[w] # "gone"
    BY <2>1 DEF Owning
  <2>3. CASE At(w, "unlock", work[w])
    BY <2>1, <2>2, <2>3, LocalWaits
  <2>4. ASSUME NEW e \in Errors, At(w, "unlock", [work[w] EXCEPT !.errors = @ \cup {e}])
        PROVE  WaitInv'
    <3>1. [work[w] EXCEPT !.errors = @ \cup {e}].lock = work[w].lock
      BY <1>0 DEF Locals
    <3>2. QED BY <2>1, <2>2, <2>4, <3>1, LocalWaits
  <2>5. QED BY <2>1, <2>3, <2>4
<1>4. CASE Finish(w)
  <2>1. /\ pc[w] = "files" /\ At(w, "idle", Idle)
        /\ UNCHANGED <<lockVars, open, stopping, ctxDone>>
    BY <1>4 DEF Finish, Update, Commits, CommitFails, durableVars
  <2>2. pc[w] # "gone" /\ pc[w] \notin Owning
    BY <2>1 DEF Owning
  <2>3. QED BY <1>0, <2>1, <2>2, LocalWaits
<1>5. CASE Quit(w)
  <2>1. /\ pc[w] = "idle" /\ ctxDone /\ At(w, "gone", work[w])
        /\ UNCHANGED <<lockVars, open, stopping, ctxDone>>
    BY <1>5 DEF Quit, durableVars, poolVars
  <2>2. pc[w] # "gone" /\ pc[w] \notin Owning
    BY <2>1 DEF Owning
  <2>3. QED BY <2>1, <2>2, LocalWaits
<1>6. QED
  BY <1>1, <1>2, <1>3, <1>4, <1>5, ReferenceWaits, LockWaits, UnlockWaits, ReleaseWaits DEF Run

LEMMA EmptiedWaits ==
    ASSUME NEW stage, Emptied(stage), IF stage = "gone" THEN ~open' ELSE open'
    PROVE  WaitInv'
<1>1. /\ locks' = [f \in Files |-> NoLock] /\ owner' = [l \in LockIds |-> NoWorker]
      /\ pc' = [w \in Workers |-> stage] /\ stopping' = FALSE
  BY DEF Emptied
<1>2. QED BY <1>1 DEF WaitInv

LEMMA WaitNext == JInv /\ WaitInv /\ [JobsNext]_jobVars => WaitInv'
<1> SUFFICES ASSUME JInv, WaitInv, [JobsNext]_jobVars PROVE WaitInv'
  OBVIOUS
<1>0. stopping => ctxDone /\ open
  BY DEF WaitInv
<1>1. CASE UNCHANGED jobVars
  BY <1>0, <1>1, WaitKept DEF jobVars, durableVars, poolVars
<1>2. ASSUME NEW k \in Jobs, Enqueue(k) PROVE WaitInv'
  <2>1. UNCHANGED <<lockVars, workerVars, open, stopping, ctxDone>>
    BY <1>2 DEF Enqueue, AddJob, Update, Commits, CommitFails, durableVars, poolVars
  <2>2. QED BY <1>0, <2>1, WaitKept
<1>3. ASSUME NEW k \in Jobs, Coalesce(k) \/ Dispatch(k) \/ Elapse(k) PROVE WaitInv'
  <2>1. UNCHANGED <<lockVars, workerVars, open, stopping, ctxDone>>
    BY <1>3 DEF Coalesce, Dispatch, Elapse, durableVars, poolVars
  <2>2. QED BY <1>0, <2>1, WaitKept
<1>4. ASSUME NEW f \in Files, Expire(f) PROVE WaitInv'
  <2>1. UNCHANGED <<lockVars, workerVars, open, stopping, ctxDone>>
    BY <1>4 DEF Expire, durableVars
  <2>2. QED BY <1>0, <2>1, WaitKept
<1>5. CASE Cancel \/ StopWorkers
  <2>1. UNCHANGED <<lockVars, workerVars, open>> /\ ctxDone' /\ open
    BY <1>5 DEF Cancel, StopWorkers, durableVars
  <2>2. QED BY <2>1, WaitKept
<1>6. CASE Die
  BY <1>6, EmptiedWaits DEF Die, Crash
<1>7. CASE Restart
  BY <1>7, EmptiedWaits DEF Restart, Starts
<1>8. QED BY <1>1, <1>2, <1>3, <1>4, <1>5, <1>6, <1>7, RunWaits DEF JobsNext

LEMMA WaitInvariant == JobsSpec => [](JInv /\ WaitInv)
  BY JobsInitOK, JobsNextOK, WaitInit, WaitNext, PTL DEF JobsSpec

\* acquireFileLock finds or makes a lock object.
FreeLock(f, l) ==
    IF locks[f] = NoLock THEN refs[l] = 0 /\ \A g \in Files : locks[g] # l ELSE l = locks[f]

\* What the steps of a worker wait for: the guards of the actions of Run.
MayRun(w) ==
    \/ pc[w] = "idle" /\ (queue # <<>> \/ ctxDone)
    \/ pc[w] = "files" /\ (work[w].todo = <<>> \/ \E l \in LockIds : FreeLock(Head(work[w].todo), l))
    \/ pc[w] = "lock" /\ owner[work[w].lock] = NoWorker
    \/ pc[w] \in {"claim", "process", "unlock", "release"}

\* One object for each worker, or for each file, is as good as any number.
EnoughLocks ==
    /\ IsFiniteSet(LockIds)
    /\ \/ IsFiniteSet(Workers) /\ Cardinality(Workers) <= Cardinality(LockIds)
       \/ IsFiniteSet(Files) /\ Cardinality(Files) <= Cardinality(LockIds)

\* The values of a function other than one are fewer than its arguments.
LEMMA FewerValues ==
    ASSUME NEW S, IsFiniteSet(S), NEW x \in S, NEW g, NEW T \in SUBSET {g[y] : y \in S \ {x}}
    PROVE  IsFiniteSet(T) /\ Cardinality(T) < Cardinality(S)
<1> DEFINE R == S \ {x}
           h == [y \in R |-> g[y]]
           U == {g[y] : y \in R}
<1>1. IsFiniteSet(R) /\ Cardinality(R) = Cardinality(S) - 1
  BY FS_RemoveElement
<1>2. h \in Surjection(R, U)
  BY DEF Surjection
<1> HIDE DEF h
<1>3. IsFiniteSet(U) /\ Cardinality(U) <= Cardinality(R)
  BY <1>1, <1>2, FS_Surjection
<1>4. IsFiniteSet(T) /\ Cardinality(T) <= Cardinality(U)
  BY <1>3, FS_Subset
<1>5. /\ Cardinality(S) \in Nat /\ Cardinality(R) \in Nat
      /\ Cardinality(U) \in Nat /\ Cardinality(T) \in Nat
  BY <1>1, <1>3, <1>4, FS_CardinalityType
<1>6. QED BY <1>1, <1>3, <1>4, <1>5

LEMMA LockToBeHad ==
    ASSUME JInv, WaitInv, EnoughLocks, NEW w \in Workers, pc[w] = "files", work[w].todo # <<>>
    PROVE  \E l \in LockIds : FreeLock(Head(work[w].todo), l)
<1> DEFINE f == Head(work[w].todo)
           mapped == {locks[g] : g \in Files} \cap LockIds
<1>1. f \in Files /\ work[w].lock = NoLock /\ LockInv
  <2>1. work[w] \in Locals /\ work[w].lock = NoLock
    BY WorkerOK DEF Holding
  <2>2. QED BY <2>1, TailMembers DEF Locals, JInv
<1> HIDE DEF f
<1>2. CASE locks[f] # NoLock
  BY <1>1, <1>2 DEF LockInv, FreeLock, f
<1>3. CASE locks[f] = NoLock
  <2>1. mapped # LockIds
    <3>1. mapped \subseteq {locks[g] : g \in Files \ {f}}
      BY <1>3, JobsAssumption
    <3>2. mapped \subseteq {[u \in Workers |-> work[u].lock][v] : v \in Workers \ {w}}
      BY <1>1, JobsAssumption DEF WaitInv
    <3> HIDE DEF mapped
    <3>3. CASE IsFiniteSet(Workers) /\ Cardinality(Workers) <= Cardinality(LockIds)
      <4>1. IsFiniteSet(mapped) /\ Cardinality(mapped) < Cardinality(Workers)
        BY <3>2, <3>3, FewerValues
      <4>2. /\ Cardinality(mapped) \in Nat /\ Cardinality(Workers) \in Nat
            /\ Cardinality(LockIds) \in Nat
        BY <3>3, <4>1, FS_CardinalityType DEF EnoughLocks
      <4>3. QED BY <3>3, <4>1, <4>2
    <3>4. CASE IsFiniteSet(Files) /\ Cardinality(Files) <= Cardinality(LockIds)
      <4>1. IsFiniteSet(mapped) /\ Cardinality(mapped) < Cardinality(Files)
        BY <1>1, <3>1, <3>4, FewerValues
      <4>2. /\ Cardinality(mapped) \in Nat /\ Cardinality(Files) \in Nat
            /\ Cardinality(LockIds) \in Nat
        BY <3>4, <4>1, FS_CardinalityType DEF EnoughLocks
      <4>3. QED BY <3>4, <4>1, <4>2
    <3>5. QED BY <3>3, <3>4 DEF EnoughLocks
  <2>2. PICK l \in LockIds : \A g \in Files : locks[g] # l
    BY <2>1
  <2>3. refs[l] = 0
    <3>1. \A v \in Workers : work[v].lock # l
      <4> SUFFICES ASSUME NEW v \in Workers, work[v].lock = l PROVE FALSE
        OBVIOUS
      <4>1. pc[v] \in Holding
        BY WorkerOK, JobsAssumption
      <4>2. work[v].file \in Files /\ locks[work[v].file] = l
        BY <1>1, <4>1, WorkerOK DEF LockInv
      <4>3. QED BY <2>2, <4>2
    <3>2. Users(l) = {}
      BY <3>1 DEF Users
    <3>3. QED BY <1>1, <3>2, FS_EmptySet DEF LockInv
  <2>4. QED BY <1>3, <2>2, <2>3 DEF FreeLock, f
<1>4. QED BY <1>2, <1>3

\* A worker may go on, or the owner of the lock it waits for may.
Goes(w) ==
    \/ MayRun(w)
    \/ /\ pc[w] = "lock"
       /\ owner[work[w].lock] \in Workers \ {w}
       /\ MayRun(owner[work[w].lock])

LEMMA GoesOn ==
    ASSUME JInv, WaitInv, EnoughLocks, NEW w \in Workers, pc[w] \notin {"gone", "idle"}
    PROVE  Goes(w) /\ \E v \in Workers : MayRun(v)
<1>1. pc[w] \in Stages
  BY WorkerOK
<1>2. CASE pc[w] = "files"
  BY <1>2, LockToBeHad DEF MayRun, Goes
<1>3. CASE pc[w] = "lock" /\ owner[work[w].lock] # NoWorker
  <2> DEFINE other == owner[work[w].lock]
  <2>1. work[w].lock \in LockIds
    BY <1>3, WorkerOK DEF Holding
  <2>2. other \in Workers /\ pc[other] \in Owning
    BY <1>3, <2>1 DEF WaitInv
  <2>3. other # w
    BY <1>3, <2>2 DEF Owning
  <2>4. QED BY <1>3, <2>2, <2>3 DEF MayRun, Owning, Goes
<1>4. CASE pc[w] = "lock" /\ owner[work[w].lock] = NoWorker
  BY <1>4 DEF MayRun, Goes
<1>5. CASE pc[w] \in {"claim", "process", "unlock", "release"}
  BY <1>5 DEF MayRun, Goes
<1>6. QED BY <1>1, <1>2, <1>3, <1>4, <1>5 DEF Stages

\* No worker waits for itself, or for one that waits: a worker that has begun a
\* job may go on, or it waits for a file lock whose owner may (acquireFileLock
\* and releaseFileLock: one lock at a time, and the map's mutex is never held
\* while a file lock is waited for).
THEOREM NeverStuckCorrect ==
    ASSUME EnoughLocks
    PROVE  JobsSpec => [](\A w \in Workers : pc[w] \notin {"gone", "idle"} => Goes(w))
<1>1. JInv /\ WaitInv => \A w \in Workers : pc[w] \notin {"gone", "idle"} => Goes(w)
  BY GoesOn
<1>2. QED BY <1>1, WaitInvariant, PTL

\* Nothing rests while a job waits for its turn: time may pass for it, or the
\* ticker may send it (dispatchStoredJobs), or a worker may go on, be it with
\* another job.
THEOREM NoRestWhileWaitingCorrect ==
    ASSUME EnoughLocks, Workers # {}
    PROVE  JobsSpec => [](\A k \in Jobs : Waiting(k) =>
                             \/ k \notin ripe
                             \/ ~stopping /\ k \notin scheduled /\ Len(queue) < Capacity
                             \/ \E w \in Workers : MayRun(w))
<1>1. ASSUME JInv, WaitInv, NEW k \in Jobs, Waiting(k)
      PROVE  \/ k \notin ripe
             \/ ~stopping /\ k \notin scheduled /\ Len(queue) < Capacity
             \/ \E w \in Workers : MayRun(w)
  <2>1. open /\ ~ctxDone /\ ~stopping /\ k \notin RunningJobs
    BY <1>1 DEF Waiting, WaitInv
  <2>2. Len(queue) \in Nat /\ Len(queue) <= Capacity /\ Capacity \in Nat \ {0}
    BY <1>1, JobsAssumption DEF JInv, JobsTypes
  <2>3. CASE queue = <<>>
    <3>1. Members(queue) = {} /\ Len(queue) = 0
      BY <2>3 DEF Members
    <3>2. k \notin scheduled
      BY <1>1, <2>1, <3>1 DEF JInv, ScheduleInv
    <3>3. QED BY <2>1, <2>2, <3>1, <3>2
  <2>4. CASE queue # <<>>
    <3>1. PICK w \in Workers : TRUE
      OBVIOUS
    <3>2. pc[w] # "gone"
      BY <1>1, <2>1 DEF WaitInv
    <3>3. CASE pc[w] = "idle"
      BY <2>4, <3>3 DEF MayRun
    <3>4. CASE pc[w] # "idle"
      BY <1>1, <3>2, <3>4, GoesOn
    <3>5. QED BY <3>3, <3>4
  <2>5. QED BY <2>3, <2>4
<1>2. JInv /\ WaitInv => \A k \in Jobs : Waiting(k) =>
          \/ k \notin ripe
          \/ ~stopping /\ k \notin scheduled /\ Len(queue) < Capacity
          \/ \E w \in Workers : MayRun(w)
  BY <1>1
<1>3. QED BY <1>2, WaitInvariant, PTL

\* What is left of a worker's run: its files, and the steps with this one.
StepsLeft == [gone |-> 0, idle |-> 1, files |-> 2, release |-> 3, unlock |-> 4,
              process |-> 5, claim |-> 6, lock |-> 7]

Rest(w) == 6 * Len(work[w].todo) + StepsLeft[pc[w]]

LEMMA RestType ==
    ASSUME JInv, NEW w \in Workers
    PROVE  Rest(w) \in Nat
<1>1. work[w].todo \in Seq(Files) /\ pc[w] \in Stages
  BY WorkerOK DEF Locals
<1>2. Len(work[w].todo) \in Nat /\ StepsLeft[pc[w]] \in Nat
  BY <1>1 DEF Stages, StepsLeft
<1>3. QED BY <1>2 DEF Rest

\* A worker that does not take a job has less left with every step.
LEMMA RestFalls ==
    ASSUME JInv, NEW w \in Workers, NEW stage \in Stages, NEW locals, At(w, stage, locals),
           \/ /\ locals.todo = work[w].todo
              /\ StepsLeft[stage] < StepsLeft[pc[w]]
           \/ /\ pc[w] = "files" /\ work[w].todo # <<>> /\ stage = "lock"
              /\ locals.todo = Tail(work[w].todo)
    PROVE  Rest(w)' < Rest(w)
<1>1. work[w].todo \in Seq(Files) /\ pc[w] \in Stages
  BY WorkerOK DEF Locals
<1>2. pc'[w] = stage /\ work'[w] = locals
  BY AtOK DEF JInv
<1>3. Len(work[w].todo) \in Nat /\ StepsLeft[pc[w]] \in Nat /\ StepsLeft[stage] \in Nat
  BY <1>1 DEF Stages, StepsLeft
<1>4. CASE locals.todo = work[w].todo /\ StepsLeft[stage] < StepsLeft[pc[w]]
  BY <1>2, <1>3, <1>4 DEF Rest
<1>5. CASE /\ pc[w] = "files" /\ work[w].todo # <<>> /\ stage = "lock"
           /\ locals.todo = Tail(work[w].todo)
  <2>1. Len(locals.todo) \in Nat /\ Len(work[w].todo) = Len(locals.todo) + 1
    BY <1>1, <1>5
  <2>2. StepsLeft["files"] = 2 /\ StepsLeft["lock"] = 7
    BY DEF StepsLeft
  <2>3. QED BY <1>2, <1>5, <2>1, <2>2 DEF Rest
<1>6. QED BY <1>4, <1>5

LEMMA ReferenceFalls ==
    ASSUME JInv, NEW w \in Workers, Reference(w)
    PROVE  queue' = queue /\ Rest(w)' < Rest(w)
<1> DEFINE f == Head(work[w].todo)
           locals(l) == [work[w] EXCEPT !.todo = Tail(@), !.file = f, !.lock = l]
<1>1. PICK l \in LockIds :
          /\ pc[w] = "files" /\ work[w].todo # <<>>
          /\ IF locks[f] = NoLock THEN refs[l] = 0 /\ \A g \in Files : locks[g] # l
             ELSE l = locks[f]
          /\ locks' = [locks EXCEPT ![f] = l] /\ refs' = [refs EXCEPT ![l] = @ + 1]
          /\ At(w, "lock", locals(l))
          /\ UNCHANGED <<durableVars, ripe, poolVars, owner, historyVars>>
  BY DEF Reference
<1>2. work[w] \in Locals
  BY WorkerOK
<1>3. locals(l).todo = Tail(work[w].todo)
  BY <1>2 DEF Locals
<1> HIDE DEF locals, f
<1>4. "lock" \in Stages
  BY DEF Stages
<1>5. Rest(w)' < Rest(w)
  BY <1>1, <1>3, <1>4, RestFalls
<1>6. QED BY <1>1, <1>5 DEF poolVars

LEMMA RunFalls ==
    ASSUME JInv, NEW w \in Workers, Run(w)
    PROVE  /\ \/ queue # <<>> /\ queue' = Tail(queue)
              \/ queue' = queue /\ Rest(w)' < Rest(w)
           /\ \A v \in Workers : v # w => Rest(v)' = Rest(v)
<1>0. /\ work[w] \in Locals /\ work[w].todo \in Seq(Files)
      /\ pc[w] = "idle" => work[w].todo = <<>>
      /\ Idle.todo = <<>>
  BY WorkerOK DEF Locals, Idle
<1>1. \A v \in Workers : v # w => pc'[v] = pc[v] /\ work'[v] = work[v]
  BY AtOK DEF JInv, Run, Take, Reference, Lock, Claim, Process, Unlock, Release, Finish, Quit
<1>2. \A v \in Workers : v # w => Rest(v)' = Rest(v)
  BY <1>1 DEF Rest
<1>3. CASE Take(w)
  BY <1>2, <1>3 DEF Take
<1>4. ASSUME NEW stage \in Stages, NEW locals, At(w, stage, locals),
             locals.todo = work[w].todo, StepsLeft[stage] < StepsLeft[pc[w]]
      PROVE  Rest(w)' < Rest(w)
  BY <1>4, RestFalls
<1>5. CASE Reference(w)
  BY <1>2, <1>5, ReferenceFalls
<1>6. CASE Lock(w) \/ Unlock(w) \/ Claim(w)
  <2>1. PICK stage \in {"claim", "release", "unlock", "process"} :
            /\ At(w, stage, work[w]) /\ queue' = queue
            /\ StepsLeft[stage] < StepsLeft[pc[w]]
    BY <1>6 DEF Lock, Unlock, Claim, poolVars, StepsLeft
  <2>2. QED BY <1>2, <1>4, <2>1 DEF Stages
<1>7. CASE Process(w)
  <2>1. /\ pc[w] = "process" /\ queue' = queue
        /\ \/ At(w, "unlock", work[w])
           \/ \E e \in Errors : At(w, "unlock", [work[w] EXCEPT !.errors = @ \cup {e}])
    BY <1>7 DEF Process
  <2>2. \A e : [work[w] EXCEPT !.errors = @ \cup {e}].todo = work[w].todo
    BY <1>0 DEF Locals
  <2>3. "unlock" \in Stages /\ StepsLeft["unlock"] < StepsLeft[pc[w]]
    BY <2>1 DEF Stages, StepsLeft
  <2>4. QED BY <1>2, <1>4, <2>1, <2>2, <2>3
<1>8. CASE Release(w)
  <2>1. /\ pc[w] = "release" /\ queue' = queue
        /\ At(w, "files", [work[w] EXCEPT !.file = NoFile, !.lock = NoLock])
    BY <1>8 DEF Release, poolVars
  <2>2. [work[w] EXCEPT !.file = NoFile, !.lock = NoLock].todo = work[w].todo
    BY <1>0 DEF Locals
  <2>3. "files" \in Stages /\ StepsLeft["files"] < StepsLeft[pc[w]]
    BY <2>1 DEF Stages, StepsLeft
  <2>4. QED BY <1>2, <1>4, <2>1, <2>2, <2>3
<1>9. CASE Finish(w)
  <2>1. /\ pc[w] = "files" /\ work[w].todo = <<>> /\ queue' = queue /\ At(w, "idle", Idle)
    BY <1>9 DEF Finish
  <2>2. "idle" \in Stages /\ StepsLeft["idle"] < StepsLeft[pc[w]]
    BY <2>1 DEF Stages, StepsLeft
  <2>3. QED BY <1>0, <1>2, <1>4, <2>1, <2>2
<1>10. CASE Quit(w)
  <2>1. /\ pc[w] = "idle" /\ queue' = queue /\ At(w, "gone", work[w])
    BY <1>10 DEF Quit, poolVars
  <2>2. "gone" \in Stages /\ StepsLeft["gone"] < StepsLeft[pc[w]]
    BY <2>1 DEF Stages, StepsLeft
  <2>3. QED BY <1>2, <1>4, <2>1, <2>2
<1>11. QED BY <1>3, <1>5, <1>6, <1>7, <1>8, <1>9, <1>10 DEF Run

\* What the pool has left, once StopWorkers was called, only becomes less: a
\* step of a worker takes a job from the channel, to which no job is added any
\* more, or brings this worker nearer to its end; and no other step sets one
\* back, until the process is gone.
PoolFalls ==
    stopping /\ stopping' =>
        /\ queue' = queue \/ Len(queue') < Len(queue)
        /\ queue' = queue => \A w \in Workers : Rest(w)' <= Rest(w)
        /\ \A w \in Workers : Run(w) =>
              Len(queue') < Len(queue) \/ (queue' = queue /\ Rest(w)' < Rest(w))

LEMMA PoolNext ==
    ASSUME JInv, WaitInv, JobsNext
    PROVE  PoolFalls
<1> SUFFICES ASSUME stopping, stopping' PROVE PoolFalls
  BY DEF PoolFalls
<1>1. queue \in Seq(Jobs) /\ open
  BY DEF JInv, JobsTypes, WaitInv
<1>2. ASSUME NEW w \in Workers, Run(w)
      PROVE  Len(queue') < Len(queue) \/ (queue' = queue /\ Rest(w)' < Rest(w))
  <2>1. CASE queue # <<>> /\ queue' = Tail(queue)
    <3>1. Len(Tail(queue)) = Len(queue) - 1 /\ Len(queue) \in Nat
      BY <1>1, <2>1
    <3>2. Len(queue') < Len(queue)
      BY <2>1, <3>1
    <3>3. QED BY <3>2
  <2>2. CASE queue' = queue /\ Rest(w)' < Rest(w)
    BY <2>2
  <2>3. QED BY <1>2, <2>1, <2>2, RunFalls
<1>3. CASE \E w \in Workers : Run(w)
  <2>1. PICK w \in Workers : Run(w)
    BY <1>3
  <2>2. ASSUME NEW v \in Workers, queue' = queue PROVE Rest(v)' <= Rest(v)
    <3>1. Len(queue) \in Nat /\ JInv'
      BY <1>1, <2>1, RunOK
    <3>2. Rest(v) \in Nat /\ Rest(v)' \in Nat
      <4>1. Rest(v) \in Nat
        BY RestType
      <4>2. work'[v].todo \in Seq(Files) /\ pc'[v] \in Stages
        BY <3>1 DEF JInv, JobsTypes, WorkTypes
      <4>3. Len(work'[v].todo) \in Nat /\ StepsLeft[pc'[v]] \in Nat
        BY <4>2 DEF Stages, StepsLeft
      <4>4. QED BY <4>1, <4>3 DEF Rest
    <3>3. ~(Len(queue') < Len(queue))
      BY <2>2, <3>1
    <3>4. CASE v = w
      <4>1. Rest(w)' < Rest(w)
        BY <1>2, <2>1, <3>3
      <4>2. QED BY <3>2, <3>4, <4>1
    <3>5. CASE v # w
      <4>1. Rest(v)' = Rest(v)
        BY <2>1, <3>5, RunFalls
      <4>2. QED BY <3>2, <4>1
    <3>6. QED BY <3>4, <3>5
  <2>3. QED BY <1>2, <2>1, <2>2 DEF PoolFalls
<1>4. CASE ~\E w \in Workers : Run(w)
  <2>1. UNCHANGED <<queue, pc, work>>
    <3>1. ASSUME NEW k \in Jobs, Enqueue(k) \/ Coalesce(k) \/ Dispatch(k) PROVE FALSE
      BY <3>1 DEF Enqueue, Coalesce, Dispatch
    <3>2. ASSUME NEW k \in Jobs, Elapse(k) PROVE <2>1
      BY <3>2 DEF Elapse, poolVars, workerVars
    <3>3. ASSUME NEW f \in Files, Expire(f) PROVE <2>1
      BY <3>3 DEF Expire, workerVars
    <3>4. CASE Cancel \/ StopWorkers
      BY <3>4 DEF Cancel, StopWorkers, workerVars
    <3>5. CASE Die \/ Restart
      BY <1>1, <3>5 DEF Die, Restart, Emptied, Starts
    <3>6. QED BY <1>4, <3>1, <3>2, <3>3, <3>4, <3>5 DEF JobsNext
  <2>2. \A w \in Workers : Rest(w)' <= Rest(w)
    BY <2>1, RestType DEF Rest
  <2>3. QED BY <1>4, <2>1, <2>2 DEF PoolFalls
<1>5. QED BY <1>3, <1>4

\* Shutdown makes progress with every step of a worker.  With NeverStuckCorrect
\* and a runtime that schedules each worker again, StopWorkers returns.
THEOREM PoolFallsCorrect == JobsSpec => [][PoolFalls]_jobVars
<1>1. JInv /\ WaitInv /\ [JobsNext]_jobVars => [PoolFalls]_jobVars
  BY PoolNext
<1>2. QED BY <1>1, WaitInvariant, PTL DEF JobsSpec
=============================================================================
