------------------------- MODULE ManualImportProofs -------------------------
(***************************************************************************)
(* For every set of episodes, sources and requests, and however often      *)
(* answers, saves and processes are lost: the import uses the journal as   *)
(* StateStore allows, sends each of its two requests at most once, and     *)
(* what it sends and completes is as it saw it or changed since.           *)
(*                                                                         *)
(* A request may have been sent as soon as its phase is journalled, so     *)
(* OnceInv ties what was sent to the journal (Unsent), to be read off it   *)
(* by every later process, and to the place the running one has reached.   *)
(* WindowInv says what that place's looks at Arr are still worth.          *)
(* PlaceInv says what the journal says at that place, which is what the    *)
(* refinement of RequestLedger needs.                                      *)
(***************************************************************************)
EXTENDS ManualImport, StateStoreProofs, FiniteSetTheorems

Waiting(s) == ImportKey \in Pending(s)
CleanupBegun(s) == s.operations[ImportKey].phase = "manual-import-cleanup-requested"

\* What a journal without the operation, or in an earlier phase, excludes.
Unsent(s, n) ==
    /\ ~Waiting(s) /\ ImportKey \notin s.completed => n.import = 0 /\ n.cleanup = 0
    /\ Waiting(s) /\ ~CleanupBegun(s) => n.cleanup = 0

BeforeCleanup == {"submit", "submitted"} \cup (Reconciling \ {"remove", "finish"})

\* Where the process is, and what that says of both copies of the journal.
At(stage, s, n) ==
    /\ stage \in BeforeCleanup => n.cleanup = 0
    /\ stage = "submit" => n.import = 0 /\ Waiting(s)
    /\ stage = "remove" => n.cleanup = 0 /\ Waiting(s) /\ CleanupBegun(s)

Counted(n) == n \in [import : 0 .. 1, cleanup : 0 .. 1]

OnceInv ==
    /\ Counted(sent)
    /\ pc # "idle" => open
    /\ Unsent(mem, sent) /\ Unsent(disk, sent)
    /\ At(pc, mem, sent) /\ At(pc, disk, sent)

-----------------------------------------------------------------------------
(* The steps, by what they do to the journal, to sent and to pc.            *)

\* The steps that change the store.
StoreActs ==
    \/ BeginImport \/ RecordSubmitted \/ RecordCleanup \/ Finish
    \/ \E r \in MediaRequests : MediaBegins(r) \/ MediaCompletes(r)
    \/ SaveOther \/ Die \/ Restart

\* The stages in which nothing is claimed of the operation.
BeforeSubmit == Submitting \ {"submit", "submitted"}

\* The steps that read, or happen outside of the guard.
Quiet ==
    /\ UNCHANGED <<storeVars, sent>>
    /\ \/ pc' = pc
       \/ pc' = "idle"
       \/ pc' \in BeforeSubmit /\ (open \/ pc # "idle")
       \/ pc \in BeforeCleanup /\ pc' \in (BeforeCleanup \ {"submit"}) \cup {"finish"}

\* A look leaves its stage for the next one, stays, or gives up.
LEMMA LookMoves ==
    ASSUME NEW stage, NEW ok, NEW next, NEW locals, Look(stage, ok, next, locals)
    PROVE  UNCHANGED <<storeVars, sent>> /\ pc = stage /\ pc' \in {next, "idle"}
  BY DEF Look, ReadOnly, historyVars, Goto, Leave

LEMMA Stages ==
    /\ {"targets", "check", "discover", "probe", "rediscover", "replan", "retarget", "recheck",
        "after", "snapshot", "begin"} = BeforeSubmit
    /\ "idle" \notin BeforeSubmit /\ "idle" \notin BeforeCleanup
    /\ {"submit", "submitted", "command", "evidence", "verify", "reverify", "residual",
        "cleanup plan", "needed", "cleanup check", "still needed", "cleanup"} = BeforeCleanup
  BY DEF BeforeSubmit, BeforeCleanup, Submitting, Reconciling

\* Every look at a stage before the submission, and every one after it.
LEMMA EarlyLook ==
    ASSUME NEW stage \in BeforeSubmit, NEW ok, NEW next \in BeforeSubmit, NEW locals,
           Look(stage, ok, next, locals)
    PROVE  Quiet
  BY LookMoves, Stages DEF Quiet

LEMMA LateLook ==
    ASSUME NEW stage \in BeforeCleanup, NEW ok, NEW next \in BeforeCleanup \ {"submit"}, NEW locals,
           Look(stage, ok, next, locals)
    PROVE  Quiet
  BY LookMoves, Stages DEF Quiet

LEMMA SubmissionStep ==
    ASSUME Submission
    PROVE  StoreActs \/ Submit \/ Quiet
  <1>1. CASE Enter
    BY <1>1, Stages DEF Enter, Goto, Quiet
  <1>2. CASE PlanTargets
    BY <1>2, EarlyLook, Stages DEF PlanTargets
  <1>7. CASE Discover
    BY <1>7, EarlyLook, Stages DEF Discover
  <1>8. CASE Rediscover
    BY <1>8, Stages DEF Rediscover, Look, ReadOnly, historyVars, Goto, Leave, Quiet
  <1>9. CASE Replan
    BY <1>9, EarlyLook, Stages DEF Replan
  <1>10. CASE Retarget
    BY <1>10, EarlyLook, Stages DEF Retarget
  <1>11. CASE ReadAfter
    BY <1>11, EarlyLook, Stages DEF ReadAfter
  <1>3. CASE CheckQueue("check", "discover") \/ CheckQueue("recheck", "after")
    BY <1>3, EarlyLook, Stages DEF CheckQueue
  <1>4. CASE Probe
    BY <1>4, EarlyLook, Stages DEF Probe, LookAtEach
  <1>5. CASE Snapshot
    BY <1>5, EarlyLook, Stages DEF Snapshot, LookAtEach
  <1>6. CASE NotBegun
    BY <1>6 DEF NotBegun, Leave, Goto, ReadOnly, historyVars, Quiet
  <1> QED
    BY <1>1, <1>2, <1>3, <1>4, <1>5, <1>6, <1>7, <1>8, <1>9, <1>10, <1>11
       DEF Submission, StoreActs

LEMMA ReconciliationStep ==
    ASSUME Reconciliation
    PROVE  StoreActs \/ RemoveItem \/ Visit \/ Quiet
  <1>1. CASE ReadCommand
    BY <1>1, LateLook, Stages DEF ReadCommand
  <1>6. CASE ReadEvidence
    BY <1>6, LateLook, Stages DEF ReadEvidence
  <1>7. CASE Needed
    BY <1>7, Stages DEF Needed, Look, ReadOnly, historyVars, Goto, Leave, Quiet
  <1>8. CASE CheckCleanup
    BY <1>8, LateLook, Stages DEF CheckCleanup
  <1>9. CASE StillNeeded
    BY <1>9, Stages DEF StillNeeded, Look, ReadOnly, historyVars, Goto, Leave, Quiet
  <1>2. CASE Verify
    BY <1>2, LateLook, Stages DEF Verify, LookAtEach
  <1>3. CASE Reverify
    BY <1>3, LateLook, Stages DEF Reverify, LookAtEach
  <1>4. CASE ReadResidual
    BY <1>4, Stages DEF ReadResidual, ReadOnly, historyVars, Leave, Goto, Quiet
  <1>5. CASE PlanCleanup
    BY <1>5, Stages DEF PlanCleanup, ReadOnly, historyVars, Leave, Goto, Quiet
  <1> QED
    BY <1>1, <1>2, <1>3, <1>4, <1>5, <1>6, <1>7, <1>8, <1>9
       DEF Reconciliation, StoreActs

LEMMA StepKinds ==
    ASSUME ImportNext
    PROVE  StoreActs \/ Submit \/ RemoveItem \/ Visit \/ Quiet
  <1>1. CASE Submission \/ Reconciliation
    BY <1>1, SubmissionStep, ReconciliationStep
  <1>2. CASE Abort \/ Refused
    BY <1>2 DEF Abort, Refused, ReadOnly, historyVars, Leave, Goto, Quiet
  <1>3. CASE Arr
    BY <1>3 DEF Arr, RunCommand, EndCommand, RowFollows, guardVars, historyVars, Quiet
  <1>4. CASE Surroundings
    BY <1>4 DEF StoreActs, Surroundings, MoveRow, EditFile, DeleteFile, OtherImport, List,
       EditSource, HandImport, ClearHistory, Change, guardVars, Quiet
  <1> QED
    BY <1>1, <1>2, <1>3, <1>4 DEF ImportNext, StoreActs

-----------------------------------------------------------------------------
(* The import uses the store as StateStore allows. *)

\* What the assumptions say of the keys.
LEMMA ImportKeys ==
    /\ ImportKey \in Keys /\ Request \in Requests /\ Request.key = ImportKey
    /\ \A r \in MediaRequests : r \in Requests /\ r.key \in Keys /\ r.key # ImportKey
  BY ImportAssumption, RequestAssumption DEF Request

LEMMA StoreActsAllowed ==
    ASSUME StoreActs
    PROVE  Next
  <1>1. /\ <<"manual-import-requested", "requested">> \in FirstPhases
        /\ <<"delete-requested", "none">> \in FirstPhases
        /\ "manual-import-cleanup-requested" \in LaterPhases
        /\ {} \in SUBSET (RetryKeys \ Legacy)
    BY DEF FirstPhases, MediaFirst, ImportFirst, LaterPhases, ImportLater
  <1>2. ASSUME NEW r \in Requests, NEW first \in FirstPhases, NEW attempt \in 0 .. MaxInt,
               Begin(r, first[1], FALSE, first[2], {}, attempt)
        PROVE  Next
    BY <1>1, <1>2 DEF BeginAny, Next
  <1>3. CASE BeginImport
    <2>1. PICK attempt \in 0 .. MaxInt :
             Begin(Request, "manual-import-requested", FALSE, "requested", {}, attempt)
      BY <1>3 DEF BeginImport
    <2>2. PICK first \in FirstPhases :
             first = <<"manual-import-requested", "requested">>
      BY <1>1
    <2>3. first[1] = "manual-import-requested" /\ first[2] = "requested"
      BY <2>2
    <2> QED
      BY <2>1, <2>3, <1>2, ImportKeys
  <1>4. ASSUME NEW r \in MediaRequests, MediaBegins(r) PROVE Next
    <2>1. PICK attempt \in 0 .. MaxInt : Begin(r, "delete-requested", FALSE, "none", {}, attempt)
      BY <1>4 DEF MediaBegins
    <2>2. PICK first \in FirstPhases : first = <<"delete-requested", "none">>
      BY <1>1
    <2>3. first[1] = "delete-requested" /\ first[2] = "none"
      BY <2>2
    <2> QED
      BY <2>1, <2>3, <1>2, ImportKeys
  <1>5. CASE RecordSubmitted \/ RecordCleanup \/ Finish
    BY <1>1, <1>5, ImportKeys DEF RecordSubmitted, RecordCleanup, Finish, Next
  <1>6. ASSUME NEW r \in MediaRequests, MediaCompletes(r) PROVE Next
    BY <1>6, ImportKeys DEF MediaCompletes, Next
  <1>7. CASE SaveOther \/ Die \/ Restart
    BY <1>7 DEF SaveOther, Die, Restart, Next
  <1> QED
    BY <1>3, <1>4, <1>5, <1>6, <1>7 DEF StoreActs

LEMMA ImportStepAllowed ==
    ASSUME [ImportNext]_importVars
    PROVE  [Next]_vars
  <1>1. CASE Submit \/ RemoveItem \/ Visit \/ Quiet
    BY <1>1 DEF Submit, RemoveItem, Visit, Quiet, storeVars
  <1>2. CASE UNCHANGED importVars
    BY <1>2 DEF importVars, storeVars
  <1> QED
    BY <1>1, <1>2, StepKinds, StoreActsAllowed

\* Whatever the import does to the state file, an arbitrary caller of the store
\* might do: each theorem about StateStore holds of it.
THEOREM ImportImplementsStore == ImportSpec => Spec
  <1>1. ImportInit => Init
    BY DEF ImportInit
  <1> QED
    BY <1>1, ImportStepAllowed, PTL DEF ImportSpec, Spec

-----------------------------------------------------------------------------
(* OnceInv is inductive. *)

\* A step that keeps the count, and the claims of which hold of what both
\* copies of the state become.
Keeps ==
    /\ sent' = sent /\ (pc' # "idle" => open')
    /\ Unsent(mem', sent) /\ Unsent(disk', sent)
    /\ At(pc', mem', sent) /\ At(pc', disk', sent)

LEMMA KeptInv ==
    ASSUME OnceInv, Keeps
    PROVE  OnceInv'
  BY DEF OnceInv, Keeps, Counted, Unsent, At, Waiting, Pending, CleanupBegun

\* Only the entry of the import and its completion matter.
LEMMA SameEntry ==
    ASSUME NEW s, NEW t, NEW n, NEW stage,
           t.operations[ImportKey] = s.operations[ImportKey],
           ImportKey \in t.completed <=> ImportKey \in s.completed
    PROVE  /\ Unsent(s, n) => Unsent(t, n)
           /\ At(stage, s, n) => At(stage, t, n)
  BY ImportKeys DEF Unsent, At, Waiting, Pending, CleanupBegun

\* A stage of which nothing is claimed.
LEMMA AtNowhere ==
    ASSUME NEW stage \in BeforeSubmit \cup {"idle", "finish"}, NEW s, NEW n
    PROVE  At(stage, s, n)
  BY Stages DEF At, BeforeCleanup, Reconciling

\* Whatever becomes of a save: what holds of the old and of the new state holds
\* of both copies.
LEMMA SaveKeeps ==
    ASSUME IInv, NEW next, Update(next), NEW n, NEW stage,
           Unsent(mem, n), Unsent(next, n), At(stage, mem, n), At(stage, next, n)
    PROVE  /\ Unsent(mem', n) /\ Unsent(disk', n)
           /\ At(stage, mem', n) /\ At(stage, disk', n)
           /\ open /\ open' = open
  <1>1. mem = disk
    BY DEF IInv, MemIsDisk, Update, Commits, CommitFails, Writable
  <1>2. mem' \in {mem, next} /\ disk' \in {mem, next} /\ open /\ open' = open
    BY <1>1 DEF Update, Commits, CommitFails, Writable
  <1> QED
    BY <1>2

LEMMA QuietKeeps ==
    ASSUME OnceInv, Quiet
    PROVE  OnceInv'
  <1>1. sent' = sent /\ mem' = mem /\ disk' = disk /\ open' = open
    BY DEF Quiet, storeVars, vars, durableVars
  <1>2. CASE pc' = pc
    BY <1>1, <1>2 DEF OnceInv, Unsent, At, Waiting, Pending, CleanupBegun, Counted
  <1>3. CASE pc' = "idle" \/ (pc' \in BeforeSubmit /\ (open \/ pc # "idle"))
    <2>1. At(pc', mem', sent) /\ At(pc', disk', sent)
      BY <1>3, AtNowhere
    <2> QED
      BY <1>1, <1>3, <2>1, KeptInv DEF OnceInv, Keeps
  <1>4. CASE pc \in BeforeCleanup /\ pc' \in (BeforeCleanup \ {"submit"}) \cup {"finish"}
    <2>1. sent.cleanup = 0 /\ open
      BY <1>4, Stages DEF OnceInv, At
    <2>2. At(pc', mem, sent) /\ At(pc', disk, sent)
      BY <1>4, <2>1, Stages DEF At
    <2> QED
      BY <1>1, <2>1, <2>2, KeptInv DEF OnceInv, Keeps
  <1> QED
    BY <1>2, <1>3, <1>4 DEF Quiet

\* A later process reads off the journal that no removal was sent.
LEMMA VisitKeeps ==
    ASSUME OnceInv, Visit
    PROVE  OnceInv'
  <1>1. sent' = sent /\ mem' = mem /\ disk' = disk /\ open' = open /\ open /\ pc' = "command"
    BY DEF Visit, storeVars, vars, durableVars, Goto
  <1>2. sent.cleanup = 0
    BY DEF Visit, OnceInv, Unsent, Waiting, CleanupBegun
  <1>3. At(pc', mem, sent) /\ At(pc', disk, sent)
    BY <1>1, <1>2 DEF At
  <1> QED
    BY <1>1, <1>3, KeptInv DEF OnceInv, Keeps

\* The two requests: each is sent from a stage that says it was not, while both
\* copies of the journal say that it may have been.
LEMMA SubmitKeeps ==
    ASSUME OnceInv, Submit
    PROVE  OnceInv'
  <1>1. /\ mem' = mem /\ disk' = disk /\ open' = open
        /\ sent' = [sent EXCEPT !.import = @ + 1] /\ pc = "submit"
        /\ pc' \in {"submitted", "idle"}
    BY DEF Submit, storeVars, vars, durableVars, Goto, Leave
  <1>2. sent.import = 0 /\ sent.cleanup = 0 /\ Waiting(mem) /\ Waiting(disk) /\ open
    BY <1>1, Stages DEF OnceInv, At
  <1>3. sent' = [import |-> 1, cleanup |-> 0]
    BY <1>1, <1>2 DEF OnceInv, Counted
  <1>4. Counted(sent') /\ sent'.cleanup = 0
    BY <1>3 DEF Counted
  <1>5. Unsent(mem, sent') /\ Unsent(disk, sent')
    BY <1>2, <1>4 DEF Unsent
  <1>6. At(pc', mem, sent') /\ At(pc', disk, sent')
    BY <1>1, <1>4 DEF At
  <1> QED
    BY <1>1, <1>2, <1>4, <1>5, <1>6 DEF OnceInv, Unsent, At, Waiting, Pending, CleanupBegun, Counted

LEMMA RemoveKeeps ==
    ASSUME OnceInv, RemoveItem
    PROVE  OnceInv'
  <1>1. /\ mem' = mem /\ disk' = disk /\ open' = open
        /\ sent' = [sent EXCEPT !.cleanup = @ + 1] /\ pc = "remove"
        /\ pc' \in {"finish", "idle"}
    BY DEF RemoveItem, storeVars, vars, durableVars, Goto, Leave
  <1>2. /\ sent.cleanup = 0 /\ open
        /\ Waiting(mem) /\ Waiting(disk) /\ CleanupBegun(mem) /\ CleanupBegun(disk)
    BY <1>1 DEF OnceInv, At
  <1>3. Counted(sent')
    BY <1>1, <1>2 DEF OnceInv, Counted
  <1>4. Unsent(mem, sent') /\ Unsent(disk, sent')
    BY <1>2 DEF Unsent
  <1>5. At(pc', mem, sent') /\ At(pc', disk, sent')
    BY <1>1, AtNowhere
  <1> QED
    BY <1>1, <1>2, <1>3, <1>4, <1>5
       DEF OnceInv, Unsent, At, Waiting, Pending, CleanupBegun, Counted

-----------------------------------------------------------------------------
(* The steps that save. *)

\* A submission is begun only when no trace of one is left.
LEMMA BeginKeeps ==
    ASSUME IInv, OnceInv, BeginImport
    PROVE  OnceInv'
  <1> DEFINE op == NewOperation(Request, "manual-import-requested", FALSE, "requested")
  <1>1. PICK attempt \in 0 .. MaxInt :
           Begin(Request, "manual-import-requested", FALSE, "requested", {}, attempt)
    BY DEF BeginImport
  <1> DEFINE next == Begun(mem, ImportKey, op, {}, attempt)
  <1>2. /\ ImportKey \notin mem.completed
        /\ \A k \in Pending(mem) : ~Fences(mem.operations[k], op)
        /\ Update(next)
    BY <1>1, ImportKeys DEF Begin, AlreadyDone, Fenced
  <1>3. Sound(mem) /\ op.phase = "manual-import-requested" /\ op \in Operation
        /\ IsEntryOf(op, Request)
    BY ImportKeys, NewOperationType DEF IInv, NewOperation, Phases
  <1>4. ~Waiting(mem)
    BY <1>2, <1>3, KeyFree, ImportKeys DEF Waiting
  <1>5. sent.import = 0 /\ sent.cleanup = 0
    BY <1>2, <1>4 DEF OnceInv, Unsent
  <1>6. next.operations[ImportKey] = op /\ op # NoOp
    BY <1>3, ImportKeys, NoOpAssumption DEF Begun, WithOperation, WithAttempts, Sound, State
  <1> HIDE DEF next, op
  <1>7. Waiting(next) /\ ~CleanupBegun(next)
    BY <1>3, <1>6, ImportKeys DEF Waiting, Pending, CleanupBegun
  <1>8. Unsent(next, sent) /\ At("submit", next, sent)
    BY <1>5, <1>7 DEF Unsent, At
  <1>9. sent' = sent /\ pc' = IF writeErr' THEN "idle" ELSE "submit"
    BY DEF BeginImport, AfterSave, Leave, Goto, historyVars
  <1>10. Unsent(mem', sent) /\ Unsent(disk', sent) /\ open' /\ open
    <2>1. At("idle", mem, sent) /\ At("idle", next, sent)
      BY AtNowhere
    <2> QED
      BY <1>2, <1>8, <2>1, SaveKeeps DEF OnceInv
  <1>11. CASE writeErr'
    BY <1>9, <1>10, <1>11, AtNowhere, KeptInv DEF Keeps
  <1>12. CASE ~writeErr'
    <2>1. mem' = next /\ disk' = next
      BY <1>2, <1>12 DEF Update, Commits, CommitFails
    <2> QED
      BY <1>8, <1>9, <1>10, <1>12, <2>1, KeptInv DEF Keeps
  <1> QED
    BY <1>11, <1>12

\* What the import's own rewritings of its entry leave behind.
LEMMA Rewritten ==
    ASSUME NEW s, Sound(s), Waiting(s), NEW op \in Operation
    PROVE  /\ Waiting(WithOperation(s, ImportKey, op))
           /\ WithOperation(s, ImportKey, op).operations[ImportKey] = op
           /\ WithOperation(s, ImportKey, op).completed = s.completed
  BY ImportKeys, NoOpAssumption DEF WithOperation, Waiting, Pending, Sound, State

LEMMA SubmittedKeeps ==
    ASSUME IInv, OnceInv, RecordSubmitted
    PROVE  OnceInv'
  <1> DEFINE next == WithSubmittedImport(mem, ImportKey)
  <1>1. Waiting(mem) /\ Update(next) /\ pc = "submitted" /\ sent' = sent
    BY DEF RecordSubmitted, ImportSubmitted, Waiting, historyVars
  <1>2. pc' = "idle" \/ pc' = "command"
    BY DEF RecordSubmitted, Leave, Goto
  <1>3. sent.cleanup = 0
    BY <1>1, Stages DEF OnceInv, At
  <1>4. Waiting(next)
    <2>1. ImportKey \in Pending(mem) /\ Sound(mem)
      BY <1>1 DEF IInv, Waiting
    <2> DEFINE op == [mem.operations[ImportKey] EXCEPT !.phase = "manual-import-submitted",
                                                      !.import = "submitted"]
    <2>2. op \in Operation
      <3>1. mem.operations[ImportKey] \in Operation
        BY <2>1 DEF Sound, State, Pending
      <3> QED
        BY <3>1 DEF Operation, Phases
    <2>3. next = WithOperation(mem, ImportKey, op)
      BY DEF WithSubmittedImport
    <2> HIDE DEF op, next
    <2> QED
      BY <1>1, <2>1, <2>2, <2>3, Rewritten
  <1> HIDE DEF next
  <1>5. Unsent(next, sent) /\ At(pc', next, sent) /\ At(pc', mem, sent)
    BY <1>2, <1>3, <1>4 DEF Unsent, At
  <1> QED
    BY <1>1, <1>5, SaveKeeps, KeptInv DEF OnceInv, Keeps

LEMMA CleanupKeeps ==
    ASSUME IInv, OnceInv, RecordCleanup
    PROVE  OnceInv'
  <1> DEFINE next == WithPhase(mem, ImportKey, "manual-import-cleanup-requested")
  <1>1. Waiting(mem) /\ Update(next) /\ pc = "cleanup" /\ sent' = sent
    BY DEF RecordCleanup, Phase, Waiting, historyVars
  <1>2. pc' = IF writeErr' THEN "idle" ELSE "remove"
    BY DEF RecordCleanup, AfterSave, Leave, Goto
  <1>3. sent.cleanup = 0
    BY <1>1, Stages DEF OnceInv, At
  <1>4. Waiting(next) /\ CleanupBegun(next)
    <2>1. ImportKey \in Pending(mem) /\ Sound(mem)
      BY <1>1 DEF IInv, Waiting
    <2> DEFINE op == [mem.operations[ImportKey] EXCEPT
                        !.phase = "manual-import-cleanup-requested"]
    <2>2. op \in Operation /\ op.phase = "manual-import-cleanup-requested"
      <3>1. mem.operations[ImportKey] \in Operation
        BY <2>1 DEF Sound, State, Pending
      <3> QED
        BY <3>1 DEF Operation, Phases
    <2>3. next = WithOperation(mem, ImportKey, op)
      BY DEF WithPhase
    <2> HIDE DEF op, next
    <2> QED
      BY <1>1, <2>1, <2>2, <2>3, Rewritten DEF CleanupBegun
  <1> HIDE DEF next
  <1>5. Unsent(next, sent) /\ At("remove", next, sent)
    BY <1>3, <1>4 DEF Unsent, At
  <1>6. Unsent(mem', sent) /\ Unsent(disk', sent) /\ open /\ open'
    <2>1. At("idle", mem, sent) /\ At("idle", next, sent)
      BY AtNowhere
    <2> QED
      BY <1>1, <1>5, <2>1, SaveKeeps DEF OnceInv
  <1>7. CASE writeErr'
    BY <1>1, <1>2, <1>6, <1>7, AtNowhere, KeptInv DEF Keeps
  <1>8. CASE ~writeErr'
    <2>1. mem' = next /\ disk' = next
      BY <1>1, <1>8 DEF Update, Commits, CommitFails
    <2> QED
      BY <1>1, <1>2, <1>5, <1>6, <1>8, <2>1, KeptInv DEF Keeps
  <1> QED
    BY <1>7, <1>8

LEMMA FinishKeeps ==
    ASSUME IInv, OnceInv, Finish
    PROVE  OnceInv'
  <1> DEFINE next == WithCompletion(mem, ImportKey)
  <1>1. Waiting(mem) /\ Update(next) /\ sent' = sent /\ pc' = "idle"
    BY DEF Finish, Complete, Waiting, historyVars, Leave, Goto
  <1>2. ImportKey \in next.completed /\ ~Waiting(next)
    <2>1. ImportKey \in Pending(mem) /\ Sound(mem)
      BY <1>1 DEF IInv, Waiting
    <2>2. Sound(next) /\ next.completed = mem.completed \cup {ImportKey}
      BY <2>1, CompletionSound
    <2> HIDE DEF next
    <2>3. Pending(next) \cap next.completed = {}
      BY <2>2 DEF Sound
    <2> QED
      BY <2>2, <2>3 DEF Waiting
  <1> HIDE DEF next
  <1>3. Unsent(next, sent) /\ At(pc', next, sent) /\ At(pc', mem, sent)
    BY <1>1, <1>2, AtNowhere DEF Unsent
  <1> QED
    BY <1>1, <1>3, SaveKeeps, KeptInv DEF OnceInv, Keeps

\* The others' saves leave the entry of the import alone.
LEMMA OtherSaveKeeps ==
    ASSUME IInv, OnceInv, NEW next, Update(next), UNCHANGED <<pc, sent>>,
           next.operations[ImportKey] = mem.operations[ImportKey],
           ImportKey \in next.completed <=> ImportKey \in mem.completed
    PROVE  OnceInv'
  <1>1. Unsent(next, sent) /\ At(pc, next, sent)
    BY SameEntry DEF OnceInv
  <1> QED
    BY <1>1, SaveKeeps, KeptInv DEF OnceInv, Keeps

LEMMA MediaKeeps ==
    ASSUME IInv, OnceInv, NEW r \in MediaRequests, MediaBegins(r) \/ MediaCompletes(r)
    PROVE  OnceInv'
  <1>1. r \in Requests /\ r.key \in Keys /\ r.key # ImportKey /\ ImportKey \in Keys
    BY ImportKeys
  <1>2. mem \in State
    BY DEF IInv, Sound
  <1>3. UNCHANGED <<pc, sent>>
    BY DEF MediaBegins, MediaCompletes, guardVars, historyVars
  <1>4. CASE MediaBegins(r)
    <2> DEFINE op == NewOperation(r, "delete-requested", FALSE, "none")
    <2>1. PICK attempt \in 0 .. MaxInt : Begin(r, "delete-requested", FALSE, "none", {}, attempt)
      BY <1>4 DEF MediaBegins
    <2> DEFINE next == Begun(mem, r.key, op, {}, attempt)
    <2>2. Update(next)
      BY <2>1 DEF Begin
    <2> HIDE DEF op
    <2>3. /\ next.operations[ImportKey] = mem.operations[ImportKey]
          /\ next.completed = mem.completed
      BY <1>1, <1>2 DEF Begun, WithOperation, WithAttempts, State
    <2> HIDE DEF next
    <2> QED
      BY <1>3, <2>2, <2>3, OtherSaveKeeps
  <1>5. CASE MediaCompletes(r)
    <2> DEFINE next == WithCompletion(mem, r.key)
    <2>1. Update(next)
      BY <1>5 DEF MediaCompletes, Complete
    <2>2. /\ next.operations[ImportKey] = mem.operations[ImportKey]
          /\ ImportKey \in next.completed <=> ImportKey \in mem.completed
      BY <1>1, <1>2 DEF WithCompletion, WithOperation, State
    <2> HIDE DEF next
    <2> QED
      BY <1>3, <2>1, <2>2, OtherSaveKeeps
  <1> QED
    BY <1>4, <1>5

LEMMA SaveOtherKeeps ==
    ASSUME IInv, OnceInv, SaveOther
    PROVE  OnceInv'
  BY OtherSaveKeeps DEF SaveOther, SaveWebhooks, guardVars, historyVars

\* A process that ends, and one that loads and binds the file.
LEMMA DieKeeps ==
    ASSUME OnceInv, Die
    PROVE  OnceInv'
  <1>1. mem' = disk /\ disk' = disk /\ sent' = sent /\ pc' = "idle"
    BY DEF Die, Stop, Crash, Leave, Goto, historyVars
  <1>2. Unsent(mem', sent) /\ Unsent(disk', sent) /\ At(pc', mem', sent) /\ At(pc', disk', sent)
    BY <1>1, AtNowhere DEF OnceInv
  <1> QED
    BY <1>1, <1>2, KeptInv DEF Keeps

LEMMA RestartKeeps ==
    ASSUME IInv, OnceInv, Restart
    PROVE  OnceInv'
  <1>1. PICK configured \in Bindings : Start(configured)
    BY DEF Restart
  <1> DEFINE b == Bound(Migrated(disk), configured)
  <1>2. b.operations = disk.operations /\ b.completed = disk.completed
    BY BoundSound DEF IInv
  <1> HIDE DEF b
  <1>3. Unsent(b, sent) /\ At(pc, b, sent)
    BY <1>2, SameEntry DEF OnceInv
  <1>4. mem' \in {b, disk} /\ disk' \in {b, disk} /\ ~open
    BY <1>1 DEF Start, Starts, StartFails, b
  <1>5. sent' = sent /\ pc' = pc
    BY DEF Restart, guardVars, historyVars
  <1> QED
    BY <1>3, <1>4, <1>5, KeptInv DEF OnceInv, Keeps

LEMMA OnceNext ==
    ASSUME IInv, OnceInv, [ImportNext]_importVars
    PROVE  OnceInv'
  <1>1. CASE UNCHANGED importVars
    <2>1. Quiet
      BY <1>1 DEF Quiet, importVars, guardVars, historyVars
    <2> QED
      BY <2>1, QuietKeeps
  <1>2. CASE StoreActs
    BY <1>2, BeginKeeps, SubmittedKeeps, CleanupKeeps, FinishKeeps, MediaKeeps, SaveOtherKeeps,
       DieKeeps, RestartKeeps DEF StoreActs
  <1>3. CASE Submit \/ RemoveItem \/ Visit \/ Quiet
    BY <1>3, SubmitKeeps, RemoveKeeps, VisitKeeps, QuietKeeps
  <1> QED
    BY <1>1, <1>2, <1>3, StepKinds

LEMMA OnceInit ==
    ASSUME ImportInit
    PROVE  OnceInv
  <1>1. pc = "idle" /\ sent = [import |-> 0, cleanup |-> 0]
    BY DEF ImportInit
  <1>2. At(pc, mem, sent) /\ At(pc, disk, sent)
    BY <1>1, AtNowhere
  <1> QED
    BY <1>1, <1>2 DEF OnceInv, Counted, Unsent

\* Whatever answers, saves and processes are lost, the import and the removal of
\* its queue row are each sent to Arr at most once for the download.
THEOREM ImportedOnceCorrect == ImportSpec => []ImportedOnce
  <1>1. OnceInv => ImportedOnce
    BY DEF OnceInv, Counted, ImportedOnce
  <1>2. ImportInit => OnceInv
    BY OnceInit
  <1>3. IInv /\ OnceInv /\ [ImportNext]_importVars => OnceInv'
    BY OnceNext
  <1>4. ImportSpec => []IInv
    BY ImportImplementsStore, Invariance, PTL
  <1> QED
    BY <1>1, <1>2, <1>3, <1>4, PTL DEF ImportSpec
-----------------------------------------------------------------------------
(* What the process knows of Arr and of the files.  What a look found is   *)
(* still so, or it changed after the last look and is among raced.         *)

Raced(window, x) == <<window, x>> \in raced

Found == Reconciling \ {"command", "evidence"}

Job == [group : SUBSET (Episodes \X BOOLEAN), targets : SUBSET Episodes,
        listed : SUBSET Sources, selected : SUBSET Sources, after : Nat,
        files : (UNION {[S -> Nat] : S \in SUBSET Sources}) \cup {<<>>},
        checked : SUBSET Sources, item : Episodes \cup {Elsewhere}]

WorldTyped ==
    /\ rows \in [Episodes \cup {Elsewhere} -> RowStates]
    /\ listed \subseteq Sources /\ good \subseteq Sources
    /\ history \in Seq(Event) /\ Len(history) <= MaxHistory
    /\ library \in [Episodes -> 0 .. Len(history)] /\ goodFiles \subseteq 1 .. Len(history)
    /\ cleared \in 0 .. Len(history)
    /\ command \in [status : {"none", "running", "done"}, todo : SUBSET Sources]
    /\ journal \in [after : 0 .. Len(history), files : SUBSET Sources, targets : SUBSET Episodes]
    /\ raced \subseteq (DOMAIN Windows) \X (Episodes \cup Sources \cup {Elsewhere})
    /\ changes \in 0 .. MaxChanges

\* The import that ReadEvidence took for the one of s.
Imported(s, i) == i \in journal.after + 1 .. Len(history) /\ history[i].source = s

\* What a stage says of the locals, whatever Arr does.
Locals(stage, j) ==
    /\ j \in Job /\ j.after <= Len(history) /\ j.selected \subseteq j.listed
    /\ stage \notin {"probe", "snapshot", "verify", "reverify"} => j.checked = {}
    /\ stage \in {"probe", "rediscover", "replan", "retarget", "recheck", "after", "snapshot",
                  "begin", "submit"} => CoversExactly(j.selected, j.targets)
    /\ stage \in {"verify", "reverify"} => j.checked \subseteq journal.files
    /\ stage \in Found => DOMAIN j.files = journal.files
                          /\ \A s \in journal.files : Imported(s, j.files[s])
    /\ stage \notin Found => j.files = <<>>

\* What the looks before the submission are still worth.
Judged(stage, j) ==
    /\ stage \in Windows["targets"] =>
          \A e \in j.targets : e \in Missing \/ Raced("targets", e)
    /\ stage \in Windows["group"] =>
          \A r \in DOMAIN rows : rows[r] # "active" \/ Raced("group", r)
    /\ stage = "snapshot" => \A s \in j.checked : s \in good \/ Raced("sources", s)
    /\ stage \in {"begin", "submit"} => \A s \in j.selected : s \in good \/ Raced("sources", s)

InPlace(s, i) ==
    \A e \in Carries[s] : (library[e] = i /\ i \in goodFiles) \/ Raced("verified", e)

\* What the looks after it are still worth.
Verified(stage, j) ==
    /\ stage = "reverify" => \A s \in j.checked : InPlace(s, j.files[s])
    /\ stage \in Windows["verified"] \ {"reverify"} =>
          \A s \in journal.files : InPlace(s, j.files[s])
    /\ stage \in Windows["needed"] => \A e \in Missing : Raced("needed", e)
    /\ stage \in Windows["residual"] =>
          \A r \in DOMAIN rows : rows[r] # "active" \/ Raced("residual", r)

Window(stage, j) == Locals(stage, j) /\ Judged(stage, j) /\ Verified(stage, j)

WindowInv ==
    /\ WorldTyped /\ CarriedOnce
    /\ pc \in {"idle"} \cup Submitting \cup Reconciling
    /\ Window(pc, job)

LEMMA WindowsAre ==
    /\ Windows["targets"] = {"recheck", "after", "snapshot", "begin", "submit"}
    /\ Windows["group"] = {"after", "snapshot", "begin", "submit"}
    /\ Windows["sources"] = {"snapshot", "begin", "submit"}
    /\ Windows["verified"] = {"reverify", "residual", "cleanup plan", "needed", "cleanup check",
                              "still needed", "cleanup", "remove", "finish"}
    /\ Windows["needed"] = {"cleanup", "remove"}
    /\ Windows["residual"] = {"still needed", "cleanup", "remove"}
    /\ DOMAIN Windows = {"targets", "group", "sources", "verified", "needed", "residual"}
    /\ Found = {"verify", "reverify", "residual", "cleanup plan", "needed", "cleanup check",
                "still needed", "cleanup", "remove", "finish"}
  BY DEF Windows, Found, Reconciling

\* Nothing is claimed of a process that has nothing to do.
LEMMA IdleWindow == WorldTyped => Window("idle", NoJob)
  <1> SUFFICES ASSUME WorldTyped PROVE Window("idle", NoJob)
    OBVIOUS
  <1>1. NoJob \in Job /\ NoJob.after = 0 /\ NoJob.selected = {} /\ NoJob.listed = {}
        /\ NoJob.checked = {} /\ NoJob.files = <<>>
    BY DEF NoJob, Job
  <1>2. 0 <= Len(history)
    BY DEF WorldTyped
  <1> HIDE DEF NoJob
  <1> QED
    BY <1>1, <1>2, WindowsAre DEF Window, Locals, Judged, Verified

\* A window depends on these variables only.
LEMMA SameWindow ==
    ASSUME NEW stage, NEW j, Window(stage, j),
           UNCHANGED <<rows, good, library, goodFiles, history, journal, raced>>
    PROVE  Window(stage, j)'
  BY DEF Window, Locals, Judged, Verified, InPlace, Imported, Raced, Missing

\* A stage in which nothing is claimed of the looks.
LEMMA FreshWindow ==
    ASSUME NEW stage \in {"targets", "command"}, NEW j, Locals(stage, j),
           UNCHANGED <<history, journal>>
    PROVE  Window(stage, j)'
  BY WindowsAre DEF Window, Locals, Judged, Verified, Imported

LEMMA SameWorld ==
    ASSUME WindowInv, UNCHANGED <<arrVars, journal, changes>>, raced' = raced \/ raced' = {}
    PROVE  WorldTyped' /\ CarriedOnce'
  BY DEF WindowInv, WorldTyped, CarriedOnce, arrVars, downloadVars, libraryVars

\* A step that reads, and leaves with what the next stage says.
LEMMA Moves ==
    ASSUME WindowInv, UNCHANGED <<arrVars, journal, changes, raced>>,
           NEW stage, NEW j, (pc' = stage /\ job' = j) \/ (pc' = pc /\ job' = job) \/ Leave,
           stage \in {"idle"} \cup Submitting \cup Reconciling,
           Window(stage, j)
    PROVE  WindowInv'
  <1>1. WorldTyped' /\ CarriedOnce'
    BY SameWorld
  <1>2. CASE pc' = stage /\ job' = j
    BY <1>1, <1>2, SameWindow DEF WindowInv, arrVars, downloadVars, libraryVars
  <1>3. CASE pc' = pc /\ job' = job
    <2>1. PICK k : k = job
      OBVIOUS
    <2>2. Window(pc, k)
      BY <2>1 DEF WindowInv
    <2>3. PICK s : s = pc
      OBVIOUS
    <2>4. Window(s, k)'
      BY <2>2, <2>3, SameWindow DEF arrVars, downloadVars, libraryVars
    <2> QED
      BY <1>1, <1>3, <2>1, <2>3, <2>4 DEF WindowInv
  <1>4. CASE Leave
    <2>1. Window("idle", NoJob)'
      BY IdleWindow, SameWindow DEF WindowInv, arrVars, downloadVars, libraryVars
    <2> QED
      BY <1>1, <1>4, <2>1 DEF WindowInv, Leave, Goto
  <1> QED
    BY <1>2, <1>3, <1>4

LEMMA LookWindow ==
    ASSUME WindowInv, NEW stage, NEW ok, NEW next, NEW j, Look(stage, ok, next, j),
           next \in {"idle"} \cup Submitting \cup Reconciling,
           ok => Window(next, j)
    PROVE  WindowInv'
  <1>1. UNCHANGED <<arrVars, journal, changes, raced>>
    BY DEF Look, ReadOnly, historyVars
  <1>2. CASE ok
    <2>1. Window(next, j) /\ pc' = next /\ job' = j
      BY <1>2 DEF Look, Goto
    <2> QED
      BY <1>1, <2>1, Moves
  <1>3. CASE ~ok
    <2>1. Leave
      BY <1>3 DEF Look
    <2>2. Window("idle", NoJob)
      BY IdleWindow DEF WindowInv
    <2> QED
      BY <1>1, <2>1, <2>2, Moves
  <1> QED
    BY <1>2, <1>3

-----------------------------------------------------------------------------
(* The looks: what each claims for the next stage.                         *)

\* What the unchanged part of the locals says at the next stage.
LEMMA PlanWindow ==
    ASSUME WindowInv, PlanTargets \/ Discover
    PROVE  WindowInv'
  <1>1. WorldTyped /\ Window(pc, job) /\ job \in Job /\ Missing \in SUBSET Episodes
        /\ listed \in SUBSET Sources /\ Selected \in SUBSET Sources /\ Selected \subseteq listed
    BY DEF WindowInv, Window, Locals, WorldTyped, Missing, Selected
  <1>2. CASE PlanTargets
    <2> DEFINE k == [job EXCEPT !.targets = Missing]
    <2>1. pc = "targets"
      BY <1>2 DEF PlanTargets, Look
    <2>2. /\ k \in Job /\ k.listed = job.listed /\ k.files = job.files
          /\ k.selected = job.selected /\ k.checked = job.checked /\ k.after = job.after
      BY <1>1 DEF Job
    <2> HIDE DEF k
    <2>3. Window("check", k)
      BY <1>1, <2>1, <2>2, WindowsAre DEF Window, Locals, Judged, Verified
    <2> QED
      BY <1>2, <2>3, LookWindow DEF PlanTargets, Submitting, k
  <1>3. CASE Discover
    <2> DEFINE k == [job EXCEPT !.listed = listed, !.selected = Selected]
    <2>1. pc = "discover"
      BY <1>3 DEF Discover, Look
    <2>2. /\ k \in Job /\ k.targets = job.targets /\ k.listed = listed /\ k.files = job.files
          /\ k.selected = Selected /\ k.checked = job.checked /\ k.after = job.after
      BY <1>1 DEF Job
    <2> HIDE DEF k
    <2>3. CoversExactly(Selected, job.targets) => Window("probe", k)
      BY <1>1, <2>1, <2>2, WindowsAre DEF Window, Locals, Judged, Verified
    <2> QED
      BY <1>3, <2>3, LookWindow DEF Discover, Submitting, k
  <1> QED
    BY <1>2, <1>3

LEMMA CheckWindow ==
    ASSUME WindowInv,
           \/ CheckQueue("check", "discover") \/ CheckQueue("recheck", "after")
           \/ Rediscover \/ Replan \/ Retarget
    PROVE  WindowInv'
  <1>1. WorldTyped /\ Window(pc, job)
    BY DEF WindowInv
  <1>2. CASE CheckQueue("check", "discover")
    <2>1. pc = "check"
      BY <1>2 DEF CheckQueue, Look
    <2>2. Window("discover", job)
      BY <1>1, <2>1, WindowsAre DEF Window, Locals, Judged, Verified
    <2> QED
      BY <1>2, <2>2, LookWindow DEF CheckQueue, Submitting
  <1>3. CASE CheckQueue("recheck", "after")
    <2>1. pc = "recheck"
      BY <1>3 DEF CheckQueue, Look
    <2>2. QueueAsPlanned => \A r \in DOMAIN rows : rows[r] # "active"
      BY <1>1 DEF QueueAsPlanned, GroupRefused, WorldTyped
    <2>3. QueueAsPlanned => Window("after", job)
      BY <1>1, <2>1, <2>2, WindowsAre DEF Window, Locals, Judged, Verified
    <2> QED
      BY <1>3, <2>3, LookWindow DEF CheckQueue, Submitting
  <1>4. CASE Rediscover \/ Replan
    <2>1. pc \in {"rediscover", "replan"}
      BY <1>4 DEF Rediscover, Replan, Look
    <2>2. Window("replan", job) /\ Window("retarget", job)
      BY <1>1, <2>1, WindowsAre DEF Window, Locals, Judged, Verified
    <2> QED
      BY <1>4, <2>2, LookWindow DEF Rediscover, Replan, Submitting
  <1>5. CASE Retarget
    <2>1. pc = "retarget"
      BY <1>5 DEF Retarget, Look
    <2>2. Missing = job.targets => Window("recheck", job)
      BY <1>1, <2>1, WindowsAre DEF Window, Locals, Judged, Verified
    <2> QED
      BY <1>5, <2>2, LookWindow DEF Retarget, Submitting
  <1> QED
    BY <1>2, <1>3, <1>4, <1>5

LEMMA HighestOf ==
    ASSUME NEW m \in Nat, NEW S \in SUBSET (1 .. m)
    PROVE  Highest(S) \in 0 .. m
  <1>1. CASE \E n \in S : \A i \in S : i <= n
    <2>1. Highest(S) = CHOOSE n \in S : \A i \in S : i <= n
      BY <1>1 DEF Highest
    <2>2. (CHOOSE n \in S : \A i \in S : i <= n) \in S
      BY <1>1, Zenon
    <2>3. \A n \in S : n \in 0 .. m
      OBVIOUS
    <2> QED
      BY <2>1, <2>2, <2>3, Zenon
  <1>2. CASE ~ \E n \in S : \A i \in S : i <= n
    BY <1>2 DEF Highest
  <1> QED
    BY <1>1, <1>2

LEMMA AfterWindow ==
    ASSUME WindowInv, ReadAfter
    PROVE  WindowInv'
  <1> DEFINE ofDownload == {i \in HistoryShown : i = 1 \/ history[i].source # NoSource}
             n == Highest(ofDownload)
             k == [job EXCEPT !.after = n]
  <1>1. WorldTyped /\ Window(pc, job) /\ job \in Job /\ Len(history) \in Nat
    BY DEF WindowInv, Window, Locals, WorldTyped
  <1>2. pc = "after" /\ Look("after", TRUE, "snapshot", k)
    BY DEF ReadAfter, Look
  <1>3. n \in Nat /\ n <= Len(history)
    <2>1. ofDownload \in SUBSET (1 .. Len(history))
      BY DEF HistoryShown
    <2> HIDE DEF ofDownload
    <2>2. Highest(ofDownload) \in 0 .. Len(history)
      BY <1>1, <2>1, HighestOf
    <2> QED
      BY <1>1, <2>2
  <1> HIDE DEF n
  <1>4. /\ k \in Job /\ k.targets = job.targets /\ k.listed = job.listed /\ k.files = job.files
        /\ k.selected = job.selected /\ k.checked = job.checked /\ k.after = n
    BY <1>1, <1>3 DEF Job
  <1> HIDE DEF k
  <1>5. Window("snapshot", k)
    BY <1>1, <1>2, <1>3, <1>4, WindowsAre DEF Window, Locals, Judged, Verified
  <1> QED
    BY <1>2, <1>5, LookWindow DEF Submitting

\* One file was looked at, or all were and the looks are over.
LEMMA EachWindow ==
    ASSUME WindowInv, Probe \/ Snapshot \/ Verify \/ Reverify
    PROVE  WindowInv'
  <1> DEFINE none == [job EXCEPT !.checked = {}]
             one(s) == [job EXCEPT !.checked = job.checked \cup {s}]
  <1>1. /\ WorldTyped /\ Window(pc, job) /\ job \in Job
        /\ job.selected \subseteq Sources /\ job.checked \subseteq Sources
        /\ journal.files \subseteq Sources
    BY DEF WindowInv, Window, Locals, WorldTyped, Job
  <1>2. /\ none \in Job /\ none.targets = job.targets /\ none.listed = job.listed
        /\ none.files = job.files /\ none.selected = job.selected
        /\ none.checked = {} /\ none.after = job.after
    BY <1>1 DEF Job
  <1>3. ASSUME NEW s \in Sources
        PROVE  /\ one(s) \in Job /\ one(s).targets = job.targets
               /\ one(s).listed = job.listed /\ one(s).files = job.files
               /\ one(s).selected = job.selected
               /\ one(s).checked = job.checked \cup {s} /\ one(s).after = job.after
    BY <1>1 DEF Job
  <1>4. /\ Probe => pc = "probe"
        /\ Snapshot => pc = "snapshot"
        /\ Verify => pc = "verify"
        /\ Reverify => pc = "reverify"
    BY DEF Probe, Snapshot, Verify, Reverify, LookAtEach, Look
  <1>5. /\ Probe => \/ Look("probe", TRUE, "rediscover", none)
                    \/ \E s \in job.selected : Look("probe", IsGood(s), "probe", one(s))
        /\ Snapshot => \/ job.checked = job.selected /\ Look("snapshot", TRUE, "begin", none)
                       \/ \E s \in job.selected : Look("snapshot", IsGood(s), "snapshot", one(s))
        /\ Verify => \/ Look("verify", TRUE, "reverify", none)
                     \/ \E s \in journal.files : Look("verify", InLibrary(s), "verify", one(s))
        /\ Reverify =>
              \/ job.checked = journal.files /\ Look("reverify", TRUE, "residual", none)
              \/ \E s \in journal.files : Look("reverify", InLibrary(s), "reverify", one(s))
    BY DEF Probe, Snapshot, Verify, Reverify, LookAtEach
  <1> HIDE DEF none, one
  <1>6. CASE Probe
    <2>1. Window("rediscover", none) /\ \A s \in Sources : Window("probe", one(s))
      BY <1>1, <1>2, <1>3, <1>4, <1>6, WindowsAre DEF Window, Locals, Judged, Verified
    <2> QED
      BY <1>1, <1>5, <1>6, <2>1, LookWindow DEF Submitting
  <1>7. CASE Snapshot
    <2>1. job.checked = job.selected => Window("begin", none)
      BY <1>1, <1>2, <1>4, <1>7, WindowsAre DEF Window, Locals, Judged, Verified
    <2>2. ASSUME NEW s \in Sources, IsGood(s) PROVE Window("snapshot", one(s))
      <3>1. Locals("snapshot", one(s)) /\ Verified("snapshot", one(s))
        BY <1>1, <1>3, <1>4, <1>7, WindowsAre DEF Window, Locals, Verified
      <3>2. \A t \in one(s).checked : t \in good \/ Raced("sources", t)
        BY <1>1, <1>3, <1>4, <1>7, <2>2 DEF Window, Judged, IsGood
      <3>3. one(s).targets = job.targets
        BY <1>3
      <3>4. Judged("snapshot", one(s))
        BY <1>1, <1>4, <1>7, <3>2, <3>3, WindowsAre DEF Window, Judged
      <3> QED
        BY <3>1, <3>4 DEF Window
    <2> QED
      BY <1>1, <1>5, <1>7, <2>1, <2>2, LookWindow DEF Submitting
  <1>8. CASE Verify
    <2>1. Window("reverify", none)
      BY <1>1, <1>2, <1>4, <1>8, WindowsAre DEF Window, Locals, Judged, Verified
    <2>2. ASSUME NEW s \in journal.files PROVE Window("verify", one(s))
      <3>1. /\ one(s) \in Job /\ one(s).listed = job.listed /\ one(s).files = job.files
            /\ one(s).selected = job.selected /\ one(s).after = job.after
            /\ one(s).checked \subseteq journal.files
        BY <1>1, <1>3, <1>4, <1>8 DEF Window, Locals
      <3> QED
        BY <1>1, <1>4, <1>8, <3>1, WindowsAre DEF Window, Locals, Judged, Verified
    <2> QED
      BY <1>1, <1>5, <1>8, <2>1, <2>2, LookWindow DEF Reconciling
  <1>9. CASE Reverify
    <2>1. job.checked = journal.files => Window("residual", none)
      BY <1>1, <1>2, <1>4, <1>9, WindowsAre DEF Window, Locals, Judged, Verified
    <2>2. \A s \in Sources : InLibrary(s) => InPlace(s, job.files[s])
      BY DEF InLibrary, InPlace
    <2>3. ASSUME NEW s \in journal.files, InLibrary(s) PROVE Window("reverify", one(s))
      <3>1. Locals("reverify", one(s)) /\ Judged("reverify", one(s))
        <4>1. /\ one(s) \in Job /\ one(s).listed = job.listed /\ one(s).files = job.files
              /\ one(s).selected = job.selected /\ one(s).after = job.after
              /\ one(s).checked \subseteq journal.files
          BY <1>1, <1>3, <1>4, <1>9 DEF Window, Locals
        <4> QED
          BY <1>1, <1>4, <1>9, <4>1, WindowsAre DEF Window, Locals, Judged
      <3>2. \A t \in one(s).checked : InPlace(t, one(s).files[t])
        BY <1>1, <1>3, <1>4, <1>9, <2>2, <2>3 DEF Window, Verified
      <3>3. Verified("reverify", one(s))
        BY <3>2, WindowsAre DEF Verified
      <3> QED
        BY <3>1, <3>3 DEF Window
    <2> QED
      BY <1>1, <1>5, <1>9, <2>1, <2>3, LookWindow DEF Reconciling
  <1> QED
    BY <1>6, <1>7, <1>8, <1>9

\* The evidence is one import for each source, after the submission.
LEMMA EvidenceWindow ==
    ASSUME WindowInv, ReadEvidence
    PROVE  WindowInv'
  <1> DEFINE files == [s \in journal.files |-> CHOOSE i \in Evidence(s) : TRUE]
             k == [job EXCEPT !.files = files]
             ok == \A s \in journal.files :
                      /\ Cardinality(Evidence(s)) = 1
                      /\ \A i \in Evidence(s) : history[i].episodes = Carries[s]
  <1>1. /\ WorldTyped /\ Window(pc, job) /\ job \in Job /\ journal.files \subseteq Sources
        /\ Len(history) \in Nat /\ journal.after \in Nat
    BY DEF WindowInv, Window, Locals, WorldTyped
  <1>2. pc = "evidence" /\ Look("evidence", ok, "verify", k)
    BY DEF ReadEvidence, Look
  <1>3. ASSUME ok, NEW s \in journal.files PROVE Imported(s, files[s]) /\ files[s] \in Nat
    <2>1. Evidence(s) # {}
      <3>1. Cardinality(Evidence(s)) = 1
        BY <1>3
      <3> QED
        BY <3>1, FS_EmptySet
    <2>2. files[s] \in Evidence(s)
      BY <1>3, <2>1
    <2> HIDE DEF files
    <2> QED
      BY <1>1, <2>2 DEF Evidence, HistoryShown, Imported
  <1>4. ASSUME ok PROVE Window("verify", k)
    <2>1. DOMAIN files = journal.files /\ files = [s \in journal.files |-> files[s]]
      OBVIOUS
    <2>2. files \in [journal.files -> Nat]
      <3> HIDE DEF files
      <3> QED
        BY <1>3, <1>4, <2>1
    <2> HIDE DEF files, ok
    <2>3. /\ k \in Job /\ k.targets = job.targets /\ k.listed = job.listed /\ k.files = files
          /\ k.selected = job.selected /\ k.checked = job.checked /\ k.after = job.after
      BY <1>1, <2>2 DEF Job
    <2> HIDE DEF k
    <2> QED
      BY <1>1, <1>2, <1>3, <1>4, <2>1, <2>3, WindowsAre
         DEF Window, Locals, Judged, Verified
  <1> HIDE DEF files, ok, k
  <1> QED
    BY <1>2, <1>4, LookWindow DEF Reconciling

LEMMA GroupType == Group \in SUBSET (Episodes \X BOOLEAN)
  <1>1. ASSUME NEW e \in Episodes PROVE <<e, rows[e] = "imported">> \in Episodes \X BOOLEAN
    <2>1. CASE rows[e] = "imported"
      BY <2>1
    <2>2. CASE rows[e] # "imported"
      BY <2>2
    <2> QED
      BY <2>1, <2>2
  <1>2. ASSUME NEW g \in Group PROVE g \in Episodes \X BOOLEAN
    <2>1. PICK e \in Episodes : g = <<e, rows[e] = "imported">>
      BY <1>2, Zenon DEF Group
    <2> QED
      BY <1>1, <2>1, Zenon
  <1> QED
    BY <1>2

LEMMA ResidualWindow ==
    ASSUME WindowInv, ReadResidual \/ PlanCleanup
    PROVE  WindowInv'
  <1> DEFINE item(e) == [job EXCEPT !.item = e]
             group == [job EXCEPT !.group = Group]
  <1>1. WorldTyped /\ Window(pc, job) /\ job \in Job /\ Group \in SUBSET (Episodes \X BOOLEAN)
    BY GroupType DEF WindowInv, Window, Locals
  <1>2. pc \in {"residual", "cleanup plan"}
    BY DEF ReadResidual, PlanCleanup
  <1>3. UNCHANGED <<arrVars, journal, changes, raced>>
    BY DEF ReadResidual, PlanCleanup, ReadOnly, historyVars
  <1>4. ASSUME NEW e \in Episodes
        PROVE  /\ item(e) \in Job /\ item(e).targets = job.targets
               /\ item(e).listed = job.listed /\ item(e).files = job.files
               /\ item(e).selected = job.selected /\ item(e).checked = job.checked
               /\ item(e).after = job.after
    BY <1>1 DEF Job
  <1>5. /\ group \in Job /\ group.targets = job.targets /\ group.listed = job.listed
        /\ group.files = job.files /\ group.selected = job.selected
        /\ group.checked = job.checked /\ group.after = job.after
    BY <1>1 DEF Job
  <1>6. \/ Leave \/ Goto("finish", job) \/ Goto("needed", group)
        \/ \E e \in Episodes : Goto("cleanup plan", item(e))
    BY DEF ReadResidual, PlanCleanup
  <1> HIDE DEF item, group
  <1>7. Window("finish", job)
    BY <1>1, <1>2, WindowsAre DEF Window, Locals, Judged, Verified
  <1>8. Window("needed", group)
    BY <1>1, <1>2, <1>5, WindowsAre DEF Window, Locals, Judged, Verified
  <1>9. ASSUME NEW e \in Episodes PROVE Window("cleanup plan", item(e))
    BY <1>1, <1>2, <1>4, WindowsAre DEF Window, Locals, Judged, Verified
  <1>10. CASE Leave
    BY <1>3, <1>7, <1>10, Moves DEF Reconciling
  <1>11. CASE Goto("finish", job)
    BY <1>3, <1>7, <1>11, Moves DEF Reconciling, Goto
  <1>12. CASE Goto("needed", group)
    BY <1>3, <1>8, <1>12, Moves DEF Reconciling, Goto
  <1>13. CASE \E e \in Episodes : Goto("cleanup plan", item(e))
    BY <1>3, <1>9, <1>13, Moves DEF Reconciling, Goto
  <1> QED
    BY <1>6, <1>10, <1>11, <1>12, <1>13

LEMMA CleanupWindow ==
    ASSUME WindowInv, ReadCommand \/ Needed \/ CheckCleanup \/ StillNeeded
    PROVE  WindowInv'
  <1>1. WorldTyped /\ Window(pc, job)
    BY DEF WindowInv
  <1>2. CASE ReadCommand
    <2>1. pc = "command"
      BY <1>2 DEF ReadCommand, Look
    <2>2. Window("evidence", job)
      BY <1>1, <2>1, WindowsAre DEF Window, Locals, Judged, Verified
    <2> QED
      BY <1>2, <2>2, LookWindow DEF ReadCommand, Reconciling
  <1>3. CASE Needed
    <2>1. pc = "needed"
      BY <1>3 DEF Needed, Look
    <2>2. Window("cleanup check", job)
      BY <1>1, <2>1, WindowsAre DEF Window, Locals, Judged, Verified
    <2> QED
      BY <1>3, <2>2, LookWindow DEF Needed, Reconciling
  <1>4. CASE CheckCleanup
    <2>1. pc = "cleanup check"
      BY <1>4 DEF CheckCleanup, Look
    <2>2. QueueAsPlanned => \A r \in DOMAIN rows : rows[r] # "active"
      BY <1>1 DEF QueueAsPlanned, GroupRefused, WorldTyped
    <2>3. QueueAsPlanned => Window("still needed", job)
      BY <1>1, <2>1, <2>2, WindowsAre DEF Window, Locals, Judged, Verified
    <2> QED
      BY <1>4, <2>3, LookWindow DEF CheckCleanup, Reconciling
  <1>5. CASE StillNeeded
    <2>1. pc = "still needed"
      BY <1>5 DEF StillNeeded, Look
    <2>2. Missing = {} => Window("cleanup", job)
      BY <1>1, <2>1, WindowsAre DEF Window, Locals, Judged, Verified
    <2> QED
      BY <1>5, <2>2, LookWindow DEF StillNeeded, Reconciling
  <1> QED
    BY <1>2, <1>3, <1>4, <1>5

\* A process that gives up, and one that begins.
LEMMA LeavesWindow ==
    ASSUME WindowInv, Abort \/ Refused \/ NotBegun
    PROVE  WindowInv'
  <1>1. Leave /\ UNCHANGED <<arrVars, journal, changes, raced>>
    BY DEF Abort, Refused, NotBegun, ReadOnly, historyVars
  <1>2. Window("idle", NoJob)
    BY IdleWindow DEF WindowInv
  <1> QED
    BY <1>1, <1>2, Moves

LEMMA EntersWindow ==
    ASSUME WindowInv, Enter \/ Visit
    PROVE  WindowInv'
  <1> DEFINE k == [NoJob EXCEPT !.group = Group]
  <1>1. WorldTyped /\ Group \in SUBSET (Episodes \X BOOLEAN)
    BY GroupType DEF WindowInv
  <1>2. UNCHANGED <<arrVars, journal, changes>> /\ raced' = {}
    BY DEF Enter, Visit
  <1>3. (pc' = "targets" /\ job' = k) \/ (pc' = "command" /\ job' = NoJob)
    BY DEF Enter, Visit, Goto
  <1>4. Locals("idle", NoJob) /\ NoJob \in Job
    BY <1>1, IdleWindow DEF Window, Locals
  <1>5. /\ k \in Job /\ k.targets = NoJob.targets /\ k.listed = NoJob.listed
        /\ k.files = NoJob.files /\ k.selected = NoJob.selected
        /\ k.checked = NoJob.checked /\ k.after = NoJob.after
    <2> PICK n : n = NoJob
      OBVIOUS
    <2> QED
      BY <1>1, <1>4 DEF Job
  <1> HIDE DEF k
  <1>6. Locals("targets", k) /\ Locals("command", NoJob)
    BY <1>4, <1>5, WindowsAre DEF Locals
  <1>7. PICK l : l = k
    OBVIOUS
  <1>8. Window("targets", l)' /\ Window("command", NoJob)'
    BY <1>2, <1>6, <1>7, FreshWindow DEF arrVars, libraryVars
  <1>9. WorldTyped' /\ CarriedOnce'
    BY <1>2, SameWorld
  <1> QED
    BY <1>3, <1>7, <1>8, <1>9 DEF WindowInv, Submitting, Reconciling

-----------------------------------------------------------------------------
(* Arr and everybody else.  What they take from under a window is among    *)
(* raced.                                                                  *)

Drifts ==
    /\ UNCHANGED <<pc, job, journal>>
    /\ raced \subseteq raced'
    /\ \A i \in 1 .. Len(history) : i \in 1 .. Len(history') /\ history'[i] = history[i]
    /\ Len(history) <= Len(history')
    /\ \A e \in Episodes : pc \in Windows["targets"] /\ e \in Missing =>
          e \in Missing' \/ Raced("targets", e)'
    /\ \A w \in {"group", "residual"}, r \in DOMAIN rows :
          pc \in Windows[w] /\ rows[r] # "active" => rows'[r] # "active" \/ Raced(w, r)'
    /\ DOMAIN rows' = DOMAIN rows
    /\ \A s \in Sources : pc \in Windows["sources"] /\ s \in good =>
          s \in good' \/ Raced("sources", s)'
    /\ \A e \in Episodes, i \in 1 .. Len(history) :
          pc \in Windows["verified"] /\ library[e] = i /\ i \in goodFiles =>
             (library'[e] = i /\ i \in goodFiles') \/ Raced("verified", e)'
    /\ \A e \in Episodes : pc \in Windows["needed"] /\ e \in Missing' =>
          e \in Missing \/ Raced("needed", e)'

LEMMA DriftWindow ==
    ASSUME WindowInv, Drifts
    PROVE  Window(pc, job)'
  <1>1. PICK j : j = job
    OBVIOUS
  <1>2. PICK stage : stage = pc
    OBVIOUS
  <1>3. WorldTyped /\ Window(stage, j) /\ j \in Job /\ pc' = stage /\ job' = j
    BY <1>1, <1>2 DEF WindowInv, Window, Locals, Drifts
  <1>4. /\ \A s \in Sources : Carries[s] \subseteq Episodes
        /\ journal.files \subseteq Sources /\ journal' = journal /\ journal.after \in Nat
        /\ j.targets \subseteq Episodes /\ j.selected \subseteq Sources
        /\ j.checked \subseteq Sources /\ j.after \in Nat
        /\ Len(history) \in Nat
    BY <1>3, ImportAssumption DEF WorldTyped, Drifts, Job
  <1>5. \A w, x : Raced(w, x) => Raced(w, x)'
    BY DEF Drifts, Raced
  <1>6. Locals(stage, j)'
    <2>1. ASSUME NEW s \in journal.files, Imported(s, j.files[s]) PROVE Imported(s, j.files[s])'
      BY <1>4, <2>1 DEF Imported, Drifts
    <2>2. j.after <= Len(history')
      BY <1>3, <1>4 DEF Window, Locals, Drifts, WorldTyped
    <2> QED
      BY <1>3, <1>4, <2>1, <2>2 DEF Window, Locals
  <1>7. Judged(stage, j)'
    <2>1. stage \in Windows["targets"] =>
            \A e \in j.targets : e \in Missing' \/ Raced("targets", e)'
      BY <1>2, <1>3, <1>4, <1>5 DEF Window, Judged, Drifts
    <2>2. stage \in Windows["group"] =>
            \A r \in DOMAIN rows' : rows'[r] # "active" \/ Raced("group", r)'
      BY <1>2, <1>3, <1>5 DEF Window, Judged, Drifts
    <2>3. stage = "snapshot" => \A s \in j.checked : s \in good' \/ Raced("sources", s)'
      BY <1>2, <1>3, <1>4, <1>5, WindowsAre DEF Window, Judged, Drifts
    <2>4. stage \in {"begin", "submit"} =>
            \A s \in j.selected : s \in good' \/ Raced("sources", s)'
      BY <1>2, <1>3, <1>4, <1>5, WindowsAre DEF Window, Judged, Drifts
    <2> QED
      BY <2>1, <2>2, <2>3, <2>4 DEF Judged
  <1>8. Verified(stage, j)'
    <2>1. ASSUME stage \in Windows["verified"], NEW s \in journal.files, Imported(s, j.files[s]),
                 InPlace(s, j.files[s])
          PROVE  InPlace(s, j.files[s])'
      <3>1. j.files[s] \in 1 .. Len(history) /\ Carries[s] \subseteq Episodes
        BY <1>4, <2>1 DEF Imported
      <3> QED
        BY <1>2, <1>5, <2>1, <3>1 DEF InPlace, Drifts
    <2>2. stage \in Windows["verified"] => \A s \in journal.files : Imported(s, j.files[s])
      BY <1>3, WindowsAre DEF Window, Locals
    <2>3. stage = "reverify" => \A s \in j.checked : InPlace(s, j.files[s])'
      <3>1. stage = "reverify" => j.checked \subseteq journal.files
        BY <1>3 DEF Window, Locals
      <3> QED
        BY <1>3, <2>1, <2>2, <3>1, WindowsAre DEF Window, Verified
    <2>4. stage \in Windows["verified"] \ {"reverify"} =>
            \A s \in journal.files : InPlace(s, j.files[s])'
      BY <1>3, <2>1, <2>2 DEF Window, Verified
    <2>5. stage \in Windows["needed"] => \A e \in Missing' : Raced("needed", e)'
      BY <1>2, <1>3, <1>5 DEF Window, Verified, Drifts, Missing
    <2>6. stage \in Windows["residual"] =>
            \A r \in DOMAIN rows' : rows'[r] # "active" \/ Raced("residual", r)'
      BY <1>2, <1>3, <1>5 DEF Window, Verified, Drifts
    <2> QED
      BY <1>4, <2>3, <2>4, <2>5, <2>6 DEF Verified
  <1> QED
    BY <1>3, <1>6, <1>7, <1>8 DEF Window

LEMMA RacesAdd ==
    ASSUME NEW windows, NEW things, Races(windows, things)
    PROVE  /\ raced \subseteq raced'
           /\ \A w \in windows, x \in things : pc \in Windows[w] => Raced(w, x)'
  BY DEF Races, Raced

LEMMA RacesTyped ==
    ASSUME WorldTyped, NEW windows \in SUBSET DOMAIN Windows,
           NEW things \in SUBSET (Episodes \cup Sources \cup {Elsewhere}), Races(windows, things)
    PROVE  raced' \subseteq (DOMAIN Windows) \X (Episodes \cup Sources \cup {Elsewhere})
  <1> DEFINE U == Episodes \cup Sources \cup {Elsewhere}
             now == {w \in windows : pc \in Windows[w]}
  <1>1. now \subseteq DOMAIN Windows /\ things \subseteq U
    OBVIOUS
  <1>2. raced \subseteq (DOMAIN Windows) \X U
    BY DEF WorldTyped
  <1>3. raced' = raced \cup (now \X things)
    BY DEF Races
  <1> HIDE DEF U, now
  <1>4. now \X things \subseteq (DOMAIN Windows) \X U
    BY <1>1
  <1>5. raced' \subseteq (DOMAIN Windows) \X U
    BY <1>2, <1>3, <1>4
  <1> QED
    BY <1>5 DEF U

LEMMA ImportDrifts ==
    ASSUME WindowInv, NEW source \in Sources \cup {NoSource}, NEW episodes \in SUBSET Episodes,
           NEW passes, Import(source, episodes, passes),
           UNCHANGED <<downloadVars, guardVars>>,
           command' \in [status : {"none", "running", "done"}, todo : SUBSET Sources],
           changes' \in 0 .. MaxChanges
    PROVE  WorldTyped' /\ Drifts
  <1>1. WorldTyped /\ Len(history) \in Nat
    BY DEF WindowInv, WorldTyped
  <1>2. /\ history' = Append(history, [source |-> source, episodes |-> episodes])
        /\ [source |-> source, episodes |-> episodes] \in Event
        /\ history \in Seq(Event)
    BY <1>1 DEF Import, Event, WorldTyped
  <1>3. /\ Len(history') = Len(history) + 1 /\ history' \in Seq(Event)
        /\ \A i \in 1 .. Len(history) : history'[i] = history[i]
    BY <1>2
  <1>4. /\ raced \subseteq raced'
        /\ \A w \in {"targets", "verified", "needed"}, x \in episodes :
              pc \in Windows[w] => Raced(w, x)'
    BY RacesAdd DEF Import
  <1>5. raced' \subseteq (DOMAIN Windows) \X (Episodes \cup Sources \cup {Elsewhere})
    BY <1>1, WindowsAre, RacesTyped DEF Import
  <1>6. \A e \in Episodes : library'[e] = IF e \in episodes THEN Len(history') ELSE library[e]
    BY DEF Import
  <1>7. goodFiles \subseteq goodFiles' /\ goodFiles' \subseteq 1 .. Len(history')
    <2>1. goodFiles' = goodFiles \/ goodFiles' = goodFiles \cup {Len(history')}
      BY Zenon DEF Import
    <2>2. 1 .. Len(history) \subseteq 1 .. Len(history') /\ Len(history') \in 1 .. Len(history')
      BY <1>1, <1>3
    <2>3. goodFiles \subseteq 1 .. Len(history)
      BY <1>1 DEF WorldTyped
    <2> QED
      BY <2>1, <2>2, <2>3, Zenon
  <1>8. WorldTyped'
    <2>1. library' \in [Episodes -> 0 .. Len(history')] /\ Len(history') <= MaxHistory
      BY <1>1, <1>3, <1>6, ImportAssumption DEF Import, WorldTyped
    <2>2. cleared' \in 0 .. Len(history')
      BY <1>1, <1>3 DEF Import, WorldTyped
    <2>3. journal' \in [after : 0 .. Len(history'), files : SUBSET Sources,
                        targets : SUBSET Episodes]
      BY <1>1, <1>3 DEF guardVars, WorldTyped
    <2> QED
      BY <1>1, <1>3, <1>5, <1>7, <2>1, <2>2, <2>3 DEF WorldTyped, downloadVars
  <1>9. \A e \in Episodes : e \notin episodes => library'[e] = library[e]
    BY <1>6
  <1>10. \A e \in episodes : e \notin Missing'
    BY <1>1, <1>3, <1>6 DEF Missing, NoFile
  <1> QED
    BY <1>1, <1>3, <1>4, <1>7, <1>8, <1>9, <1>10 DEF Drifts, downloadVars, guardVars, Missing

LEMMA RowDrifts ==
    ASSUME WindowInv,
           \/ \E e \in Episodes, to \in RowStates : RowFollows(e, to)
           \/ \E r \in DOMAIN rows, to \in RowStates : MoveRow(r, to)
    PROVE  WorldTyped' /\ Drifts
  <1>1. WorldTyped
    BY DEF WindowInv
  <1>2. CASE \E e \in Episodes, to \in RowStates : RowFollows(e, to)
    <2>1. PICK e \in Episodes, to \in {"imported", "gone"} :
             rows' = [rows EXCEPT ![e] = to]
             /\ UNCHANGED <<listed, good, libraryVars, command, guardVars, historyVars>>
      BY <1>2 DEF RowFollows
    <2> QED
      BY <1>1, <2>1 DEF WorldTyped, Drifts, libraryVars, guardVars, historyVars, Missing, RowStates
  <1>3. CASE \E r \in DOMAIN rows, to \in RowStates : MoveRow(r, to)
    <2>1. PICK r \in DOMAIN rows, to \in RowStates : MoveRow(r, to)
      BY <1>3
    <2>2. /\ rows' = [rows EXCEPT ![r] = to] /\ Races({"group", "residual"}, {r})
          /\ UNCHANGED <<listed, good, libraryVars, command, guardVars>>
          /\ changes < MaxChanges /\ changes' = changes + 1
      BY <2>1 DEF MoveRow, Change
    <2>3. /\ raced \subseteq raced'
          /\ \A w \in {"group", "residual"} : pc \in Windows[w] => Raced(w, r)'
      BY <2>2, RacesAdd
    <2>4. raced' \subseteq (DOMAIN Windows) \X (Episodes \cup Sources \cup {Elsewhere})
      <3>1. r \in Episodes \cup {Elsewhere}
        BY <1>1 DEF WorldTyped
      <3> QED
        BY <1>1, <2>2, <3>1, WindowsAre, RacesTyped
    <2>5. WorldTyped'
      BY <1>1, <2>2, <2>4, ImportAssumption DEF WorldTyped, libraryVars, guardVars
    <2> QED
      BY <1>1, <2>2, <2>3, <2>5 DEF WorldTyped, Drifts, libraryVars, guardVars, Missing
  <1> QED
    BY <1>2, <1>3

LEMMA SourceDrifts ==
    ASSUME WindowInv, ClearHistory \/ \E s \in Sources : List(s) \/ EditSource(s)
    PROVE  WorldTyped' /\ Drifts
  <1>1. WorldTyped /\ Len(history) \in Nat
    BY DEF WindowInv, WorldTyped
  <1>2. CASE ClearHistory
    BY <1>1, <1>2, ImportAssumption
       DEF ClearHistory, Change, WorldTyped, Drifts, downloadVars, guardVars, Missing
  <1>3. CASE \E s \in Sources : List(s)
    BY <1>1, <1>3, ImportAssumption
       DEF List, Change, WorldTyped, Drifts, libraryVars, guardVars, Missing
  <1>4. CASE \E s \in Sources : EditSource(s)
    <2>1. PICK s \in Sources : EditSource(s)
      BY <1>4
    <2>2. /\ raced \subseteq raced'
          /\ pc \in Windows["sources"] => Raced("sources", s)'
      BY <2>1, RacesAdd DEF EditSource
    <2>3. raced' \subseteq (DOMAIN Windows) \X (Episodes \cup Sources \cup {Elsewhere})
      BY <1>1, <2>1, WindowsAre, RacesTyped DEF EditSource
    <2>4. good' \subseteq Sources /\ \A t \in Sources : t # s /\ t \in good => t \in good'
      BY <1>1, <2>1 DEF EditSource, WorldTyped
    <2>5. WorldTyped'
      BY <1>1, <2>1, <2>3, <2>4, ImportAssumption
         DEF EditSource, Change, WorldTyped, libraryVars, guardVars
    <2> QED
      BY <1>1, <2>1, <2>2, <2>4, <2>5
         DEF EditSource, Change, Drifts, libraryVars, guardVars, Missing
  <1> QED
    BY <1>2, <1>3, <1>4

LEMMA FileDrifts ==
    ASSUME WindowInv, \E e \in Episodes : EditFile(e) \/ DeleteFile(e)
    PROVE  WorldTyped' /\ Drifts
  <1>1. WorldTyped /\ Len(history) \in Nat
    BY DEF WindowInv, WorldTyped
  <1>2. PICK e \in Episodes : EditFile(e) \/ DeleteFile(e)
    OBVIOUS
  <1> DEFINE shared == {x \in Episodes : library[x] = library[e]}
  <1>3. library[e] # NoFile /\ library[e] \in 1 .. Len(history) /\ shared \subseteq Episodes
    BY <1>1, <1>2 DEF EditFile, DeleteFile, WorldTyped, NoFile
  <1>4. UNCHANGED <<downloadVars, history, cleared, command, guardVars>>
        /\ changes' \in 0 .. MaxChanges
    BY <1>1, <1>2, ImportAssumption DEF EditFile, DeleteFile, Change, WorldTyped
  <1>5. CASE EditFile(e)
    <2>1. /\ raced \subseteq raced'
          /\ \A x \in shared : pc \in Windows["verified"] => Raced("verified", x)'
      BY <1>5, RacesAdd DEF EditFile
    <2>2. raced' \subseteq (DOMAIN Windows) \X (Episodes \cup Sources \cup {Elsewhere})
      BY <1>1, <1>3, <1>5, WindowsAre, RacesTyped DEF EditFile
    <2>3. /\ library' = library /\ goodFiles' \subseteq 1 .. Len(history)
          /\ \A i \in goodFiles : i # library[e] => i \in goodFiles'
      BY <1>1, <1>3, <1>5 DEF EditFile, WorldTyped
    <2>4. WorldTyped'
      BY <1>1, <1>4, <2>2, <2>3 DEF WorldTyped, downloadVars, guardVars
    <2> QED
      BY <1>1, <1>4, <2>1, <2>3, <2>4 DEF Drifts, downloadVars, guardVars, Missing
  <1>6. CASE DeleteFile(e)
    <2>1. /\ raced \subseteq raced'
          /\ \A w \in {"targets", "verified", "needed"}, x \in shared :
                pc \in Windows[w] => Raced(w, x)'
      BY <1>6, RacesAdd DEF DeleteFile
    <2>2. raced' \subseteq (DOMAIN Windows) \X (Episodes \cup Sources \cup {Elsewhere})
      BY <1>1, <1>3, <1>6, WindowsAre, RacesTyped DEF DeleteFile
    <2>3. /\ library' \in [Episodes -> 0 .. Len(history)] /\ goodFiles' = goodFiles
          /\ \A x \in Episodes : IF x \in shared THEN library'[x] = NoFile
                                                 ELSE library'[x] = library[x]
      BY <1>1, <1>6 DEF DeleteFile, WorldTyped, NoFile
    <2>4. WorldTyped'
      BY <1>1, <1>4, <2>2, <2>3 DEF WorldTyped, downloadVars, guardVars
    <2> HIDE DEF shared
    <2>5. \A x \in Episodes : x \in Missing => x \in Missing'
      BY <2>3 DEF Missing
    <2>6. \A x \in Episodes : x \in Missing' => x \in Missing \/ x \in shared
      BY <2>3 DEF Missing
    <2> QED
      BY <1>1, <1>4, <2>1, <2>3, <2>4, <2>5, <2>6 DEF Drifts, downloadVars, guardVars
  <1> QED
    BY <1>2, <1>5, <1>6

LEMMA ArrWindow ==
    ASSUME WindowInv, Arr \/ (Surroundings /\ ~StoreActs)
    PROVE  WindowInv'
  <1>1. WorldTyped /\ CarriedOnce
    BY DEF WindowInv
  <1>2. ASSUME NEW s \in Sources, RunCommand(s) PROVE WorldTyped' /\ Drifts
    <2>1. Carries[s] \in SUBSET Episodes
      BY ImportAssumption
    <2>2. UNCHANGED <<downloadVars, guardVars>> /\ changes' \in 0 .. MaxChanges
      BY <1>1, <1>2 DEF RunCommand, WorldTyped
    <2>3. command' \in [status : {"none", "running", "done"}, todo : SUBSET Sources]
      BY <1>1, <1>2 DEF RunCommand, WorldTyped
    <2>4. Import(s, Carries[s], s \in good)
      BY <1>2 DEF RunCommand
    <2> QED
      BY <2>1, <2>2, <2>3, <2>4, ImportDrifts
  <1>3. ASSUME EndCommand PROVE WorldTyped' /\ Drifts
    <2>1. WorldTyped'
      BY <1>1, <1>3 DEF EndCommand, WorldTyped, downloadVars, libraryVars, guardVars, historyVars
    <2>2. Drifts
      BY <1>1, <1>3
         DEF EndCommand, WorldTyped, Drifts, downloadVars, libraryVars, guardVars, historyVars,
             Missing, Raced
    <2> QED
      BY <2>1, <2>2
  <1>4. ASSUME NEW source \in Sources \cup {NoSource}, NEW episodes \in SUBSET Episodes,
               NEW passes, Import(source, episodes, passes), Change,
               UNCHANGED downloadVars
        PROVE  WorldTyped' /\ Drifts
    <2>1. UNCHANGED <<downloadVars, guardVars, command>> /\ changes' \in 0 .. MaxChanges
      BY <1>1, <1>4, ImportAssumption DEF Change, WorldTyped
    <2> QED
      BY <1>1, <1>4, <2>1, ImportDrifts DEF WorldTyped
  <1>5. ASSUME NEW e \in Episodes, NEW passes \in BOOLEAN, OtherImport(e, passes)
        PROVE  WorldTyped' /\ Drifts
    BY <1>4, <1>5 DEF OtherImport
  <1>6. ASSUME NEW s \in Sources, HandImport(s) PROVE WorldTyped' /\ Drifts
    <2>1. Carries[s] \in SUBSET Episodes
      BY ImportAssumption
    <2> QED
      BY <1>4, <1>6, <2>1 DEF HandImport
  <1>7. WorldTyped' /\ Drifts
    <2>1. CASE Arr
      <3>1. CASE EndCommand \/ \E s \in Sources : RunCommand(s)
        BY <1>2, <1>3, <3>1
      <3>2. CASE \E e \in Episodes, to \in RowStates : RowFollows(e, to)
        BY <3>2, RowDrifts
      <3> QED
        BY <2>1, <3>1, <3>2 DEF Arr
    <2>2. CASE Surroundings /\ ~StoreActs
      <3>1. \/ \E r \in DOMAIN rows, to \in RowStates : MoveRow(r, to)
            \/ \E e \in Episodes : EditFile(e) \/ DeleteFile(e)
            \/ \E e \in Episodes, passes \in BOOLEAN : OtherImport(e, passes)
            \/ \E s \in Sources : List(s) \/ EditSource(s) \/ HandImport(s)
            \/ ClearHistory
        BY <2>2 DEF Surroundings, StoreActs
      <3> QED
        BY <1>5, <1>6, <3>1, RowDrifts, SourceDrifts, FileDrifts
    <2> QED
      BY <2>1, <2>2, Zenon
  <1>8. CarriedOnce'
    BY <1>1, <1>7 DEF Drifts, CarriedOnce
  <1> QED
    BY <1>7, <1>8, DriftWindow DEF WindowInv, Drifts

-----------------------------------------------------------------------------
(* The steps that send and save. *)

\* Targets that the chosen files carry exactly are carried once.
LEMMA CoversOnce ==
    ASSUME NEW selected \in SUBSET Sources, NEW targets \in SUBSET Episodes,
           CoversExactly(selected, targets), NEW e \in Episodes
    PROVE  Cardinality({s \in selected : e \in Carries[s]}) = IF e \in targets THEN 1 ELSE 0
  <1> DEFINE carriers == {s \in selected : e \in Carries[s]}
  <1>1. CASE e \in targets
    <2>1. PICK s \in selected : e \in Carries[s]
      BY <1>1 DEF CoversExactly
    <2>2. carriers = {s}
      BY <2>1 DEF CoversExactly
    <2>3. Cardinality({s}) = 1
      BY FS_Singleton
    <2> QED
      BY <1>1, <2>2, <2>3
  <1>2. CASE e \notin targets
    <2>1. carriers = {}
      BY <1>2 DEF CoversExactly
    <2> QED
      BY <1>2, <2>1, FS_EmptySet
  <1> QED
    BY <1>1, <1>2

LEMMA BeginWindow ==
    ASSUME WindowInv, BeginImport
    PROVE  WindowInv'
  <1>1. /\ WorldTyped /\ Window("begin", job) /\ job \in Job /\ Len(history) \in Nat
        /\ pc = "begin"
    BY DEF BeginImport, WindowInv, Window, Locals, WorldTyped
  <1>2. /\ journal' = [after |-> job.after, files |-> job.selected, targets |-> job.targets]
        /\ UNCHANGED <<arrVars, historyVars>>
        /\ Leave \/ Goto("submit", job)
    BY DEF BeginImport, AfterSave
  <1>3. /\ job.selected \in SUBSET Sources /\ job.targets \in SUBSET Episodes
        /\ job.after \in 0 .. Len(history) /\ CoversExactly(job.selected, job.targets)
    BY <1>1 DEF Window, Locals, Job
  <1>4. WorldTyped'
    BY <1>1, <1>2, <1>3 DEF WorldTyped, arrVars, downloadVars, libraryVars, historyVars
  <1>5. CarriedOnce'
    <2>1. journal'.files = job.selected /\ journal'.targets = job.targets
      BY <1>2
    <2> QED
      BY <1>3, <2>1, CoversOnce DEF CarriedOnce
  <1>6. PICK j : j = job
    OBVIOUS
  <1>7. Window("submit", j)'
    BY <1>1, <1>2, <1>6, WindowsAre
       DEF Window, Locals, Judged, Verified, Missing, Raced, arrVars, downloadVars,
           libraryVars, historyVars
  <1>8. CASE Leave
    <2>1. Window("idle", NoJob)'
      <3>1. Locals("idle", NoJob)'
        <4>1. Locals("idle", NoJob)
          BY <1>1, IdleWindow DEF Window
        <4> QED
          BY <1>2, <4>1, WindowsAre DEF Locals, arrVars, libraryVars
      <3> QED
        BY <3>1, WindowsAre DEF Window, Judged, Verified
    <2> QED
      BY <1>4, <1>5, <1>8, <2>1 DEF WindowInv, Leave, Goto
  <1>9. CASE Goto("submit", job)
    BY <1>4, <1>5, <1>6, <1>7, <1>9 DEF WindowInv, Goto, Submitting
  <1> QED
    BY <1>2, <1>8, <1>9

LEMMA SubmitWindow ==
    ASSUME WindowInv, Submit
    PROVE  WindowInv'
  <1>1. /\ WorldTyped /\ Window("submit", job) /\ job \in Job /\ CarriedOnce
    BY DEF Submit, WindowInv, Window, Locals
  <1>2. /\ UNCHANGED <<downloadVars, libraryVars, journal, raced, changes>>
        /\ Leave \/ Goto("submitted", job)
        /\ \/ command' = [status |-> "running", todo |-> job.selected]
           \/ command' = command
    BY DEF Submit
  <1>3. WorldTyped' /\ CarriedOnce'
    BY <1>1, <1>2 DEF WorldTyped, CarriedOnce, downloadVars, libraryVars, Job
  <1>4. PICK j : j = job
    OBVIOUS
  <1>5. Window("submitted", j)
    BY <1>1, <1>4, WindowsAre DEF Window, Locals, Judged, Verified
  <1>6. Window("submitted", j)' /\ Window("idle", NoJob)'
    BY <1>1, <1>2, <1>5, SameWindow, IdleWindow DEF downloadVars, libraryVars
  <1> QED
    BY <1>2, <1>3, <1>4, <1>6 DEF WindowInv, Leave, Goto, Submitting

LEMMA RemoveWindow ==
    ASSUME WindowInv, RemoveItem
    PROVE  WindowInv'
  <1>1. /\ WorldTyped /\ Window("remove", job) /\ job \in Job /\ CarriedOnce
    BY DEF RemoveItem, WindowInv, Window, Locals
  <1>2. /\ UNCHANGED <<good, libraryVars, command, journal, raced, changes>>
        /\ Leave \/ Goto("finish", job)
        /\ \/ /\ rows' = [r \in DOMAIN rows |-> IF r = Elsewhere THEN rows[r] ELSE "gone"]
              /\ listed' = {}
           \/ UNCHANGED <<rows, listed>>
    BY DEF RemoveItem
  <1>3. WorldTyped' /\ CarriedOnce'
    <2>1. rows' \in [Episodes \cup {Elsewhere} -> RowStates] /\ listed' \subseteq Sources
      BY <1>1, <1>2 DEF WorldTyped, RowStates
    <2> QED
      BY <1>1, <1>2, <2>1 DEF WorldTyped, CarriedOnce, libraryVars
  <1>4. PICK j : j = job
    OBVIOUS
  <1>5. Window("finish", j)'
    BY <1>1, <1>2, <1>4, WindowsAre
       DEF Window, Locals, Judged, Verified, InPlace, Imported, Raced, libraryVars
  <1>6. Window("idle", NoJob)'
    <2>1. Locals("idle", NoJob)'
      <3>1. Locals("idle", NoJob)
        BY <1>1, IdleWindow DEF Window
      <3> QED
        BY <1>2, <3>1, WindowsAre DEF Locals, libraryVars
    <2> QED
      BY <2>1, WindowsAre DEF Window, Judged, Verified
  <1> QED
    BY <1>2, <1>3, <1>4, <1>5, <1>6 DEF WindowInv, Leave, Goto, Reconciling

\* The remaining steps that save, and those of other processes.
LEMMA SavesWindow ==
    ASSUME WindowInv, StoreActs, ~BeginImport
    PROVE  WindowInv'
  <1>1. WorldTyped /\ Window(pc, job)
    BY DEF WindowInv
  <1>2. CASE RecordSubmitted
    <2>1. UNCHANGED <<arrVars, journal, changes, raced>>
          /\ (Leave \/ Goto("command", NoJob))
      BY <1>2 DEF RecordSubmitted, historyVars
    <2>2. Window("command", NoJob)
      BY <1>1, IdleWindow, WindowsAre DEF Window, Locals, Judged, Verified
    <2> QED
      BY <2>1, <2>2, Moves DEF Goto, Reconciling
  <1>3. CASE RecordCleanup
    <2>1. UNCHANGED <<arrVars, journal, changes, raced>> /\ pc = "cleanup"
          /\ (Leave \/ Goto("remove", job))
      BY <1>3 DEF RecordCleanup, historyVars, AfterSave
    <2>2. Window("remove", job)
      BY <1>1, <2>1, WindowsAre DEF Window, Locals, Judged, Verified
    <2> QED
      BY <2>1, <2>2, Moves DEF Goto, Reconciling
  <1>4. CASE Finish \/ Die
    <2>1. UNCHANGED <<arrVars, journal, changes, raced>> /\ Leave
      BY <1>4 DEF Finish, Die, historyVars
    <2> QED
      BY <1>1, <2>1, IdleWindow, Moves
  <1>5. CASE SaveOther \/ Restart \/ \E r \in MediaRequests : MediaBegins(r) \/ MediaCompletes(r)
    <2>1. UNCHANGED <<arrVars, journal, changes, raced>> /\ pc' = pc /\ job' = job
      BY <1>5 DEF SaveOther, Restart, MediaBegins, MediaCompletes, guardVars, historyVars
    <2> QED
      BY <1>1, <2>1, IdleWindow, Moves
  <1> QED
    BY <1>2, <1>3, <1>4, <1>5 DEF StoreActs

LEMMA WindowNext ==
    ASSUME WindowInv, [ImportNext]_importVars
    PROVE  WindowInv'
  <1>1. CASE Submission
    BY <1>1, PlanWindow, CheckWindow, AfterWindow, EachWindow, LeavesWindow, EntersWindow,
       BeginWindow, SubmitWindow, SavesWindow DEF Submission, StoreActs
  <1>2. CASE Reconciliation
    BY <1>2, EvidenceWindow, ResidualWindow, CleanupWindow, EachWindow, EntersWindow,
       RemoveWindow, BeginWindow, SavesWindow DEF Reconciliation, StoreActs
  <1>3. CASE Abort \/ Refused
    BY <1>3, LeavesWindow
  <1>4. CASE Arr \/ (Surroundings /\ ~StoreActs)
    BY <1>4, ArrWindow
  <1>5. CASE StoreActs
    BY <1>5, BeginWindow, SavesWindow
  <1>6. CASE Die \/ Restart
    BY <1>6, <1>5 DEF StoreActs
  <1>7. CASE UNCHANGED importVars
    <2>1. UNCHANGED <<arrVars, journal, changes, raced, pc, job>>
      BY <1>7 DEF importVars, guardVars, historyVars
    <2> QED
      BY <2>1, IdleWindow, Moves DEF WindowInv
  <1> QED
    BY <1>1, <1>2, <1>3, <1>4, <1>5, <1>6, <1>7 DEF ImportNext

LEMMA WindowInit == ImportInit => WindowInv
  <1> SUFFICES ASSUME ImportInit PROVE WindowInv
    OBVIOUS
  <1>1. history \in FirstHistories /\ history \in Seq(Event) /\ Len(history) \in Nat
        /\ Len(history) <= MaxHistory
    BY ImportAssumption DEF ImportInit
  <1>2. library \in [Episodes -> 0 .. Len(history)] /\ goodFiles \subseteq 1 .. Len(history)
    BY <1>1 DEF ImportInit, NoFile
  <1>3. WorldTyped
    BY <1>1, <1>2, ImportAssumption DEF ImportInit, WorldTyped, RowStates
  <1>4. CarriedOnce
    <2>1. journal.files = {} /\ journal.targets = {}
      BY DEF ImportInit
    <2>2. \A e \in Episodes : {s \in journal.files : e \in Carries[s]} = {}
      BY <2>1
    <2> QED
      BY <2>1, <2>2, FS_EmptySet DEF CarriedOnce
  <1>5. pc = "idle" /\ job = NoJob
    BY DEF ImportInit
  <1> QED
    BY <1>3, <1>4, <1>5, IdleWindow DEF WindowInv

LEMMA WindowInvariance == ImportSpec => []WindowInv
  BY WindowInit, WindowNext, PTL DEF ImportSpec

-----------------------------------------------------------------------------
(* The results. *)

LEMMA Invariants == ImportSpec => [](IInv /\ OnceInv /\ WindowInv)
  <1>1. ImportInit => OnceInv
    BY OnceInit
  <1>2. IInv /\ OnceInv /\ [ImportNext]_importVars => OnceInv'
    BY OnceNext
  <1>3. ImportSpec => []IInv
    BY ImportImplementsStore, Invariance, PTL
  <1> QED
    BY <1>1, <1>2, <1>3, WindowInvariance, PTL DEF ImportSpec

\* The process, its locals, the journal, Arr and the files are well typed, and
\* what the evidence names is in the history.
THEOREM ImportTypeCorrect == ImportSpec => []ImportTypeOK
  <1>1. ASSUME IInv, OnceInv, WindowInv PROVE ImportTypeOK
    <2>1. TypeOK
      BY <1>1 DEF IInv, TypeOK, Sound
    <2>2. WorldTyped /\ Window(pc, job) /\ pc \in {"idle"} \cup Submitting \cup Reconciling
      BY <1>1 DEF WindowInv
    <2>3. /\ job.targets \subseteq Episodes /\ job.selected \subseteq job.listed
          /\ job.checked \subseteq Sources /\ job.after \in 0 .. Len(history)
      BY <2>2 DEF Window, Locals, Job, WorldTyped
    <2>4. \A s \in DOMAIN job.files : job.files[s] \in journal.after + 1 .. Len(history)
      <3>1. CASE pc \in Found
        BY <2>2, <3>1 DEF Window, Locals, Imported
      <3>2. CASE pc \notin Found
        BY <2>2, <3>2 DEF Window, Locals
      <3> QED
        BY <3>1, <3>2
    <2>5. sent \in [import : Nat, cleanup : Nat]
      BY <1>1 DEF OnceInv, Counted
    <2> QED
      BY <2>1, <2>2, <2>3, <2>4, <2>5 DEF ImportTypeOK, WorldTyped
  <1> QED
    BY <1>1, Invariants, PTL

\* What a submission, journalled, carries is what was missing when it was
\* planned: each target once and no other episode, whatever Arr lists later.
THEOREM JournalCoversCorrect == ImportSpec => []JournalCovers
  <1>1. WindowInv => JournalCovers
    BY DEF WindowInv, JournalCovers
  <1> QED
    BY <1>1, Invariants, PTL

\* Each request leaves from its own stage.
LEMMA SentFrom ==
    ASSUME OnceInv, [ImportNext]_importVars
    PROVE  /\ sent'.import > sent.import => pc = "submit"
           /\ sent'.cleanup > sent.cleanup => pc = "remove"
  <1>1. sent \in [import : 0 .. 1, cleanup : 0 .. 1]
    BY DEF OnceInv, Counted
  <1>2. CASE Submit
    <2>1. pc = "submit" /\ sent'.cleanup = sent.cleanup
      BY <1>1, <1>2 DEF Submit
    <2> QED
      BY <1>1, <2>1
  <1>3. CASE RemoveItem
    <2>1. pc = "remove" /\ sent'.import = sent.import
      BY <1>1, <1>3 DEF RemoveItem
    <2> QED
      BY <1>1, <2>1
  <1>4. CASE StoreActs \/ Visit \/ Quiet \/ UNCHANGED importVars
    <2>1. sent' = sent
      BY <1>4 DEF StoreActs, BeginImport, RecordSubmitted, RecordCleanup, Finish, MediaBegins,
         MediaCompletes, SaveOther, Die, Restart, Visit, Quiet, historyVars, importVars
    <2> QED
      BY <1>1, <2>1
  <1> QED
    BY <1>2, <1>3, <1>4, StepKinds

\* What Arr is told to import passes, is wanted and is used by nobody else, unless
\* it changed after the last look.
THEOREM ImportJudgedCorrect == ImportSpec => ImportJudged
  <1> DEFINE A == sent'.import > sent.import =>
                 /\ \A s \in job.selected :
                       /\ s \in good \/ <<"sources", s>> \in raced
                       /\ \A e \in Carries[s] : e \in Missing \/ <<"targets", e>> \in raced
                 /\ \A r \in DOMAIN rows : rows[r] # "active" \/ <<"group", r>> \in raced
  <1>1. ASSUME OnceInv, WindowInv, [ImportNext]_importVars PROVE A
    <2> SUFFICES ASSUME sent'.import > sent.import
                 PROVE  /\ \A s \in job.selected :
                              /\ s \in good \/ Raced("sources", s)
                              /\ \A e \in Carries[s] : e \in Missing \/ Raced("targets", e)
                        /\ \A r \in DOMAIN rows : rows[r] # "active" \/ Raced("group", r)
      BY DEF Raced
    <2>1. pc = "submit"
      BY <1>1, SentFrom
    <2>2. Locals("submit", job) /\ Judged("submit", job)
      BY <1>1, <2>1 DEF WindowInv, Window
    <2>3. \A s \in job.selected : Carries[s] \subseteq job.targets
      BY <2>2 DEF Locals, CoversExactly
    <2> QED
      BY <2>2, <2>3, WindowsAre DEF Judged
  <1>2. OnceInv /\ WindowInv /\ [ImportNext]_importVars => [A]_importVars
    BY <1>1
  <1> QED
    BY <1>2, Invariants, PTL DEF ImportSpec, ImportJudged

\* A completed import left every file in the library, with its episodes, unless
\* that changed after the last look.
THEOREM CompletedIsVerifiedCorrect == ImportSpec => CompletedIsVerified
  <1> DEFINE A == pc = "finish" /\ ImportKey \in mem'.completed =>
                     \A s \in journal.files : LeftItsFile(s)
  <1>1. ASSUME WindowInv PROVE A
    <2> SUFFICES ASSUME pc = "finish", NEW s \in journal.files PROVE LeftItsFile(s)
      OBVIOUS
    <2>1. Locals("finish", job) /\ Verified("finish", job)
      BY <1>1 DEF WindowInv, Window
    <2>2. Imported(s, job.files[s]) /\ InPlace(s, job.files[s])
      BY <2>1, WindowsAre DEF Locals, Verified
    <2> QED
      BY <2>2 DEF LeftItsFile, Imported, InPlace, Raced
  <1>2. WindowInv /\ [ImportNext]_importVars => [A]_importVars
    BY <1>1
  <1> QED
    BY <1>2, Invariants, PTL DEF ImportSpec, CompletedIsVerified

\* What is left of a download is removed when each of its episodes has a file and
\* nobody's row still lives on it, unless that changed after the last look.
THEOREM CleanupHarmlessCorrect == ImportSpec => CleanupHarmless
  <1> DEFINE A == sent'.cleanup > sent.cleanup =>
                 /\ \A e \in Missing : <<"needed", e>> \in raced
                 /\ \A r \in DOMAIN rows : rows[r] # "active" \/ <<"residual", r>> \in raced
  <1>1. ASSUME OnceInv, WindowInv, [ImportNext]_importVars PROVE A
    <2>1. ASSUME sent'.cleanup > sent.cleanup PROVE Verified("remove", job)
      <3>1. pc = "remove"
        BY <1>1, <2>1, SentFrom
      <3> QED
        BY <1>1, <3>1 DEF WindowInv, Window
    <2> QED
      BY <2>1, WindowsAre DEF Verified, Raced
  <1>2. OnceInv /\ WindowInv /\ [ImportNext]_importVars => [A]_importVars
    BY <1>1
  <1> QED
    BY <1>2, Invariants, PTL DEF ImportSpec, CleanupHarmless
-----------------------------------------------------------------------------
(* The guard and the file are a ledger. *)

\* What a stage knows of the journal the process reads.  After a failed save the
\* file may already say more; only before the submission that is excluded.
PlaceInv ==
    /\ pc \in BeforeCleanup => Waiting(mem) /\ ~CleanupBegun(mem)
    /\ pc = "finish" => Waiting(mem) /\ (CleanupBegun(mem) => sent.cleanup > 0)
    /\ pc = "submit" => SameTrace(mem, disk, ImportKey)

LEMMA PlaceStages ==
    /\ "submit" \in BeforeCleanup /\ "submitted" \in BeforeCleanup
    /\ "command" \in BeforeCleanup /\ "cleanup" \in BeforeCleanup
    /\ "finish" \notin BeforeCleanup /\ "remove" \notin BeforeCleanup
    /\ "idle" \notin BeforeCleanup
    /\ BeforeSubmit \cap BeforeCleanup = {} /\ "finish" \notin BeforeSubmit
  BY DEF BeforeCleanup, BeforeSubmit, Submitting, Reconciling

\* What the saves for the import write, and what of the rest they leave.
LEMMA BeginWrites ==
    ASSUME IInv, BeginImport
    PROVE  \E next : /\ Update(next)
                     /\ Waiting(next) /\ ~CleanupBegun(next)
                     /\ ~Waiting(mem) /\ ImportKey \notin mem.completed
  <1> DEFINE op == NewOperation(Request, "manual-import-requested", FALSE, "requested")
  <1>1. PICK attempt \in 0 .. MaxInt :
           Begin(Request, "manual-import-requested", FALSE, "requested", {}, attempt)
    BY DEF BeginImport
  <1> DEFINE next == Begun(mem, ImportKey, op, {}, attempt)
  <1>2. /\ ImportKey \notin mem.completed
        /\ \A k \in Pending(mem) : ~Fences(mem.operations[k], op)
        /\ Update(next)
    BY <1>1, ImportKeys DEF Begin, AlreadyDone, Fenced
  <1>3. Sound(mem) /\ op.phase = "manual-import-requested" /\ op \in Operation
        /\ IsEntryOf(op, Request)
    BY ImportKeys, NewOperationType DEF IInv, NewOperation, Phases
  <1>4. ~Waiting(mem)
    BY <1>2, <1>3, KeyFree, ImportKeys DEF Waiting
  <1> HIDE DEF op
  <1>5. next.operations[ImportKey] = op
    BY <1>3, ImportKeys, OneTrace
  <1> HIDE DEF next
  <1>6. Waiting(next) /\ ~CleanupBegun(next)
    BY <1>3, <1>5, ImportKeys, NoOpAssumption DEF Waiting, Pending, CleanupBegun
  <1> QED
    BY <1>2, <1>4, <1>6

LEMMA SubmittedWrites ==
    ASSUME IInv, RecordSubmitted
    PROVE  \E next : Update(next) /\ Waiting(mem) /\ Waiting(next) /\ ~CleanupBegun(next)
  <1> DEFINE op == [mem.operations[ImportKey] EXCEPT !.phase = "manual-import-submitted",
                                                    !.import = "submitted"]
             next == WithOperation(mem, ImportKey, op)
  <1>1. ImportKey \in Pending(mem) /\ Update(next) /\ Sound(mem)
    BY DEF RecordSubmitted, ImportSubmitted, WithSubmittedImport, IInv
  <1>2. op \in Operation /\ op.phase = "manual-import-submitted"
    <2>1. mem.operations[ImportKey] \in Operation
      BY <1>1 DEF Sound, State, Pending
    <2> QED
      BY <2>1 DEF Operation, Phases
  <1> HIDE DEF op
  <1>3. Waiting(next) /\ next.operations[ImportKey] = op
    BY <1>1, <1>2, Rewritten DEF Waiting
  <1> HIDE DEF next
  <1>4. ~CleanupBegun(next)
    BY <1>2, <1>3 DEF CleanupBegun
  <1> QED
    BY <1>1, <1>3, <1>4 DEF Waiting

LEMMA CleanupWrites ==
    ASSUME IInv, RecordCleanup
    PROVE  \E next : Update(next) /\ Waiting(mem) /\ Waiting(next) /\ CleanupBegun(next)
  <1> DEFINE op == [mem.operations[ImportKey] EXCEPT !.phase = "manual-import-cleanup-requested"]
             next == WithOperation(mem, ImportKey, op)
  <1>1. ImportKey \in Pending(mem) /\ Update(next) /\ Sound(mem)
    BY DEF RecordCleanup, Phase, WithPhase, IInv
  <1>2. op \in Operation /\ op.phase = "manual-import-cleanup-requested"
    <2>1. mem.operations[ImportKey] \in Operation
      BY <1>1 DEF Sound, State, Pending
    <2> QED
      BY <2>1 DEF Operation, Phases
  <1> HIDE DEF op
  <1>3. Waiting(next) /\ next.operations[ImportKey] = op
    BY <1>1, <1>2, Rewritten DEF Waiting
  <1> HIDE DEF next
  <1>4. CleanupBegun(next)
    BY <1>2, <1>3 DEF CleanupBegun
  <1> QED
    BY <1>1, <1>3, <1>4 DEF Waiting

\* The steps of others and the starts leave what the file says of the import.
OtherActs ==
    \/ \E r \in MediaRequests : MediaBegins(r) \/ MediaCompletes(r)
    \/ SaveOther \/ Die \/ Restart

LEMMA OtherActsTrace ==
    ASSUME IInv, OtherActs
    PROVE  SameTrace(disk, disk', ImportKey) /\ sent' = sent
  <1>1. ASSUME NEW next, Update(next), SameTrace(mem, next, ImportKey)
        PROVE  SameTrace(disk, disk', ImportKey)
    BY <1>1, SaveLeaves DEF SameTrace
  <1>2. ASSUME NEW r \in MediaRequests, MediaBegins(r) \/ MediaCompletes(r)
        PROVE  SameTrace(disk, disk', ImportKey) /\ sent' = sent
    <2>1. r \in Requests /\ r.key \in Keys /\ ImportKey \in Keys \ {r.key} /\ sent' = sent
      BY <1>2, ImportKeys DEF MediaBegins, MediaCompletes, historyVars
    <2>2. Sound(mem)
      BY DEF IInv
    <2>3. CASE MediaBegins(r)
      <3> DEFINE op == NewOperation(r, "delete-requested", FALSE, "none")
      <3>1. PICK attempt \in 0 .. MaxInt : Begin(r, "delete-requested", FALSE, "none", {}, attempt)
        BY <2>3 DEF MediaBegins
      <3> DEFINE next == Begun(mem, r.key, op, {}, attempt)
      <3>2. Update(next)
        BY <3>1 DEF Begin
      <3> HIDE DEF op
      <3>3. SameTrace(mem, next, ImportKey)
        BY <2>1, <2>2, OneTrace
      <3> HIDE DEF next
      <3> QED
        BY <1>1, <2>1, <3>2, <3>3
    <2>4. CASE MediaCompletes(r)
      <3> DEFINE next == WithCompletion(mem, r.key)
      <3>1. Update(next)
        BY <2>4 DEF MediaCompletes, Complete
      <3>2. SameTrace(mem, next, ImportKey)
        BY <2>1, <2>2, OneTrace, StoreAssumption
      <3> HIDE DEF next
      <3> QED
        BY <1>1, <2>1, <3>1, <3>2
    <2> QED
      BY <1>2, <2>3, <2>4
  <1>3. CASE SaveOther
    <2>1. Update(mem) /\ sent' = sent /\ SameTrace(mem, mem, ImportKey)
      BY <1>3 DEF SaveOther, SaveWebhooks, historyVars, SameTrace
    <2> QED
      BY <1>1, <2>1
  <1>4. CASE Die
    BY <1>4 DEF Die, Stop, Crash, historyVars, SameTrace
  <1>5. CASE Restart
    BY <1>5, StartTrace DEF Restart, historyVars, SameTrace
  <1> QED
    BY <1>2, <1>3, <1>4, <1>5 DEF OtherActs
LEMMA PlaceNext ==
    ASSUME IInv, OnceInv, PlaceInv, [ImportNext]_importVars
    PROVE  PlaceInv'
  <1>1. CASE BeginImport
    <2>1. PICK next : Update(next) /\ Waiting(next) /\ ~CleanupBegun(next)
      BY <1>1, BeginWrites
    <2>2. pc' = IF writeErr' THEN "idle" ELSE "submit"
      BY <1>1 DEF BeginImport, AfterSave, Leave, Goto
    <2>3. ~writeErr' => mem' = next /\ disk' = next
      BY <2>1 DEF Update, Commits, CommitFails
    <2> QED
      BY <2>1, <2>2, <2>3, PlaceStages
         DEF PlaceInv, Waiting, Pending, CleanupBegun, SameTrace
  <1>2. CASE RecordSubmitted
    <2>1. PICK next : Update(next) /\ Waiting(next) /\ ~CleanupBegun(next)
      BY <1>2, SubmittedWrites
    <2>2. pc' = IF writeErr' THEN "idle" ELSE "command"
      BY <1>2 DEF RecordSubmitted, Leave, Goto
    <2>3. ~writeErr' => mem' = next /\ disk' = next
      BY <2>1 DEF Update, Commits, CommitFails
    <2> QED
      BY <2>1, <2>2, <2>3, PlaceStages
         DEF PlaceInv, Waiting, Pending, CleanupBegun, SameTrace
  <1>3. CASE RecordCleanup \/ Finish
    <2>1. pc' \in {"idle", "remove"}
      BY <1>3 DEF RecordCleanup, AfterSave, Finish, Leave, Goto
    <2> QED
      BY <2>1, PlaceStages DEF PlaceInv
  <1>4. CASE OtherActs
    <2>1. CASE Die \/ \E r \in MediaRequests : MediaBegins(r) \/ MediaCompletes(r)
      <3>1. pc' = "idle"
        BY <2>1 DEF Die, Leave, Goto, MediaBegins, MediaCompletes, guardVars
      <3> QED
        BY <3>1, PlaceStages DEF PlaceInv
    <2>2. CASE SaveOther
      <3>1. Update(mem) /\ pc' = pc /\ sent' = sent
        BY <2>2 DEF SaveOther, SaveWebhooks, guardVars, historyVars
      <3>2. mem' = mem /\ disk' = mem
        BY <3>1, SaveLeaves DEF Update, Commits, CommitFails
      <3> QED
        BY <3>1, <3>2 DEF PlaceInv, Waiting, Pending, CleanupBegun, SameTrace
    <2>3. CASE Restart
      <3>1. ~open /\ pc' = pc
        BY <2>3 DEF Restart, Start, Starts, StartFails, guardVars
      <3>2. pc' = "idle"
        BY <3>1 DEF OnceInv
      <3> QED
        BY <3>2, PlaceStages DEF PlaceInv
    <2> QED
      BY <1>4, <2>1, <2>2, <2>3 DEF OtherActs
  <1>5. CASE Submit
    <2>1. UNCHANGED <<mem, disk>> /\ pc = "submit" /\ pc' \in {"submitted", "idle"}
      BY <1>5 DEF Submit, storeVars, vars, durableVars, Goto, Leave
    <2> QED
      BY <2>1, PlaceStages DEF PlaceInv, Waiting, Pending, CleanupBegun
  <1>6. CASE RemoveItem
    <2>1. /\ UNCHANGED <<mem, disk>> /\ pc = "remove" /\ pc' \in {"finish", "idle"}
          /\ sent' = [sent EXCEPT !.cleanup = @ + 1]
      BY <1>6 DEF RemoveItem, storeVars, vars, durableVars, Goto, Leave
    <2>2. Waiting(mem) /\ sent.cleanup = 0 /\ Counted(sent)
      BY <2>1 DEF OnceInv, At
    <2>3. sent'.cleanup > 0
      BY <2>1, <2>2 DEF Counted
    <2> QED
      BY <2>1, <2>2, <2>3, PlaceStages DEF PlaceInv, Waiting, Pending, CleanupBegun
  <1>7. CASE Visit
    <2>1. UNCHANGED <<mem, disk>> /\ pc' = "command"
      BY <1>7 DEF Visit, storeVars, vars, durableVars, Goto
    <2>2. Waiting(mem) /\ ~CleanupBegun(mem)
      BY <1>7 DEF Visit, Waiting, CleanupBegun
    <2> QED
      BY <2>1, <2>2, PlaceStages DEF PlaceInv, Waiting, Pending, CleanupBegun
  <1>8. CASE Quiet
    <2>1. UNCHANGED <<mem, disk, sent>>
      BY <1>8 DEF Quiet, storeVars, vars, durableVars
    <2>2. \/ pc' = pc \/ pc' = "idle" \/ pc' \in BeforeSubmit
          \/ pc \in BeforeCleanup /\ pc' \in (BeforeCleanup \ {"submit"}) \cup {"finish"}
      BY <1>8 DEF Quiet
    <2> QED
      BY <2>1, <2>2, PlaceStages DEF PlaceInv, Waiting, Pending, CleanupBegun, SameTrace
  <1>9. CASE UNCHANGED importVars
    BY <1>9 DEF PlaceInv, Waiting, Pending, CleanupBegun, SameTrace, importVars, storeVars, vars,
                durableVars, guardVars, historyVars
  <1> QED
    BY <1>1, <1>2, <1>3, <1>4, <1>5, <1>6, <1>7, <1>8, <1>9, StepKinds DEF StoreActs, OtherActs

LEMMA StandIs ==
    ASSUME NEW s
    PROVE  /\ Waiting(s) /\ ~CleanupBegun(s) => Stand(s) = "import"
           /\ Waiting(s) /\ CleanupBegun(s) => Stand(s) = "cleanup"
           /\ ~Waiting(s) /\ ImportKey \in s.completed => Stand(s) = "closed"
           /\ ~Waiting(s) /\ ImportKey \notin s.completed => Stand(s) = "none"
  BY DEF Stand, Waiting, CleanupBegun

LEMMA SameStand ==
    ASSUME NEW s, NEW t, SameTrace(s, t, ImportKey)
    PROVE  Stand(t) = Stand(s)
  BY ImportKeys DEF SameTrace, Stand, Pending

\* The steps of the ledger, for what the file says and what was sent.
LEMMA LedgerSteps ==
    ASSUME Counted(sent)
    PROVE  /\ Stand(disk)' = Stand(disk) /\ sent' = sent => UNCHANGED Ledger!ledgerVars
           /\ /\ Stand(disk) = "none" /\ Stand(disk)' = "import"
              /\ sent.import = 0 /\ sent.cleanup = 0 /\ sent' = sent
              => Ledger!Announce(ImportKey, "import")
           /\ /\ Stand(disk) = "import" /\ Stand(disk)' = "cleanup"
              /\ sent.cleanup = 0 /\ sent' = sent
              => Ledger!Announce(ImportKey, "cleanup")
           /\ /\ Stand(disk)' = "closed" /\ sent' = sent
              /\ Stand(disk) = "import" \/ (Stand(disk) = "cleanup" /\ sent.cleanup > 0)
              => Ledger!Close(ImportKey)
           /\ /\ Stand(disk)' = Stand(disk)
              /\ \/ Stand(disk) = "import" /\ sent.import = 0
                    /\ sent' = [sent EXCEPT !.import = 1]
                 \/ Stand(disk) = "cleanup" /\ sent.cleanup = 0
                    /\ sent' = [sent EXCEPT !.cleanup = 1]
              => Ledger!Ask(ImportKey)
  <1>1. Stand(disk)' = Stand(disk) /\ sent' = sent => UNCHANGED Ledger!ledgerVars
    BY DEF Ledger!ledgerVars
  <1>2. ASSUME Stand(disk) = "none", Stand(disk)' = "import",
               sent.import = 0, sent.cleanup = 0, sent' = sent
        PROVE  Ledger!Announce(ImportKey, "import")
    BY <1>2 DEF Ledger!Announce
  <1>3. ASSUME Stand(disk) = "import", Stand(disk)' = "cleanup", sent.cleanup = 0, sent' = sent
        PROVE  Ledger!Announce(ImportKey, "cleanup")
    BY <1>3 DEF Ledger!Announce, Ledger!Settled, Counted
  <1>4. ASSUME Stand(disk)' = "closed", sent' = sent,
               Stand(disk) = "import" \/ (Stand(disk) = "cleanup" /\ sent.cleanup > 0)
        PROVE  Ledger!Close(ImportKey)
    BY <1>4 DEF Ledger!Close, Ledger!Settled
  <1>5. ASSUME Stand(disk)' = Stand(disk), Stand(disk) = "import", sent.import = 0,
               sent' = [sent EXCEPT !.import = 1]
        PROVE  Ledger!Ask(ImportKey)
    BY <1>5 DEF Ledger!Ask
  <1>6. ASSUME Stand(disk)' = Stand(disk), Stand(disk) = "cleanup", sent.cleanup = 0,
               sent' = [sent EXCEPT !.cleanup = 1]
        PROVE  Ledger!Ask(ImportKey)
    BY <1>6 DEF Ledger!Ask
  <1> QED
    BY <1>1, <1>2, <1>3, <1>4, <1>5, <1>6

LEMMA ImportLedgerStep ==
    ASSUME IInv, OnceInv, PlaceInv, [ImportNext]_importVars
    PROVE  [Ledger!LedgerNext]_(Ledger!ledgerVars)
  <1>1. Counted(sent)
    BY DEF OnceInv
  <1>2. ASSUME \/ UNCHANGED Ledger!ledgerVars
               \/ Ledger!Announce(ImportKey, "import") \/ Ledger!Announce(ImportKey, "cleanup")
               \/ Ledger!Close(ImportKey) \/ Ledger!Ask(ImportKey)
        PROVE  [Ledger!LedgerNext]_(Ledger!ledgerVars)
    BY <1>2 DEF Ledger!LedgerNext
  <1>3. CASE BeginImport
    <2>1. PICK next : /\ Update(next) /\ Waiting(next) /\ ~CleanupBegun(next)
                      /\ ~Waiting(mem) /\ ImportKey \notin mem.completed
      BY <1>3, BeginWrites
    <2>2. mem = disk /\ disk' \in {disk, next}
      BY <2>1, SaveLeaves
    <2>3. Stand(disk) = "none" /\ Stand(next) = "import"
      BY <2>1, <2>2, StandIs
    <2>4. sent' = sent /\ sent.import = 0 /\ sent.cleanup = 0
      BY <1>3, <2>1 DEF BeginImport, historyVars, OnceInv, Unsent
    <2>5. Stand(disk)' \in {"none", "import"}
      BY <2>2, <2>3
    <2> QED
      BY <1>1, <1>2, <2>3, <2>4, <2>5, LedgerSteps
  <1>4. CASE RecordSubmitted
    <2>1. PICK next : Update(next) /\ Waiting(mem) /\ Waiting(next) /\ ~CleanupBegun(next)
      BY <1>4, SubmittedWrites
    <2>2. mem = disk /\ disk' \in {disk, next}
      BY <2>1, SaveLeaves
    <2>3. ~CleanupBegun(mem) /\ sent' = sent
      BY <1>4, PlaceStages DEF RecordSubmitted, historyVars, PlaceInv
    <2>4. Stand(disk) = "import" /\ Stand(next) = "import"
      BY <2>1, <2>2, <2>3, StandIs
    <2>5. Stand(disk)' = "import"
      BY <2>2, <2>4
    <2> QED
      BY <1>1, <1>2, <2>3, <2>4, <2>5, LedgerSteps
  <1>5. CASE RecordCleanup
    <2>1. PICK next : Update(next) /\ Waiting(mem) /\ Waiting(next) /\ CleanupBegun(next)
      BY <1>5, CleanupWrites
    <2>2. mem = disk /\ disk' \in {disk, next}
      BY <2>1, SaveLeaves
    <2>3. ~CleanupBegun(mem) /\ sent.cleanup = 0 /\ sent' = sent
      BY <1>5, PlaceStages DEF RecordCleanup, historyVars, PlaceInv, OnceInv, At
    <2>4. Stand(disk) = "import" /\ Stand(next) = "cleanup"
      BY <2>1, <2>2, <2>3, StandIs
    <2>5. Stand(disk)' \in {"import", "cleanup"}
      BY <2>2, <2>4
    <2> QED
      BY <1>1, <1>2, <2>3, <2>4, <2>5, LedgerSteps
  <1>6. CASE Finish
    <2> DEFINE next == WithCompletion(mem, ImportKey)
    <2>1. Update(next) /\ Waiting(mem) /\ (CleanupBegun(mem) => sent.cleanup > 0) /\ sent' = sent
      BY <1>6 DEF Finish, Complete, historyVars, PlaceInv
    <2>2. mem = disk /\ disk' \in {disk, next} /\ Sound(mem)
      BY <2>1, SaveLeaves
    <2>3. next.operations[ImportKey] = NoOp /\ ImportKey \in next.completed
      BY <2>2, ImportKeys, StoreAssumption, OneTrace
    <2> HIDE DEF next
    <2>4. Stand(next) = "closed"
      BY <2>3 DEF Stand, Pending
    <2>5. \/ Stand(disk) = "import"
          \/ Stand(disk) = "cleanup" /\ sent.cleanup > 0
      BY <2>1, <2>2, StandIs
    <2>6. Stand(disk)' \in {Stand(disk), "closed"}
      BY <2>2, <2>4
    <2> QED
      BY <1>1, <1>2, <2>1, <2>5, <2>6, LedgerSteps
  <1>7. CASE OtherActs
    <2>1. SameTrace(disk, disk', ImportKey) /\ sent' = sent
      BY <1>7, OtherActsTrace
    <2>2. Stand(disk') = Stand(disk)
      BY <2>1, SameStand
    <2> QED
      BY <1>1, <1>2, <2>1, <2>2, LedgerSteps
  <1>8. CASE Submit
    <2>1. disk' = disk /\ pc = "submit" /\ sent' = [sent EXCEPT !.import = @ + 1]
      BY <1>8 DEF Submit, storeVars, vars, durableVars
    <2>2. /\ sent.import = 0 /\ Waiting(mem) /\ ~CleanupBegun(mem)
          /\ SameTrace(mem, disk, ImportKey)
      BY <2>1, PlaceStages DEF OnceInv, At, PlaceInv
    <2>3. Stand(disk) = "import" /\ Stand(disk)' = "import"
      BY <2>1, <2>2, StandIs, SameStand
    <2>4. sent' = [sent EXCEPT !.import = 1]
      BY <2>1, <2>2
    <2> QED
      BY <1>1, <1>2, <2>2, <2>3, <2>4, LedgerSteps
  <1>9. CASE RemoveItem
    <2>1. disk' = disk /\ pc = "remove" /\ sent' = [sent EXCEPT !.cleanup = @ + 1]
      BY <1>9 DEF RemoveItem, storeVars, vars, durableVars
    <2>2. sent.cleanup = 0 /\ Waiting(disk) /\ CleanupBegun(disk)
      BY <2>1 DEF OnceInv, At
    <2>3. Stand(disk) = "cleanup" /\ Stand(disk)' = "cleanup"
      BY <2>1, <2>2, StandIs
    <2>4. sent' = [sent EXCEPT !.cleanup = 1]
      BY <2>1, <2>2
    <2> QED
      BY <1>1, <1>2, <2>2, <2>3, <2>4, LedgerSteps
  <1>10. CASE Visit \/ Quiet \/ UNCHANGED importVars
    <2>1. disk' = disk /\ sent' = sent
      BY <1>10 DEF Visit, Quiet, importVars, storeVars, vars, durableVars, historyVars
    <2>2. Stand(disk)' = Stand(disk)
      BY <2>1
    <2> QED
      BY <1>1, <1>2, <2>1, <2>2, LedgerSteps
  <1> QED
    BY <1>3, <1>4, <1>5, <1>6, <1>7, <1>8, <1>9, <1>10, StepKinds DEF StoreActs, OtherActs

\* Whatever answers, saves and processes are lost: the import is announced in the
\* file before it is sent, the removal of what it leaves behind after it, each is
\* sent once, and a removal that was announced and not sent is never closed
\* (ManualImport!AsksInOrder).
THEOREM ImportAsksInOrder == ImportSpec => AsksInOrder
  <1>1. ImportInit => Ledger!LedgerInit
    <2> SUFFICES ASSUME ImportInit PROVE Ledger!LedgerInit
      OBVIOUS
    <2>1. Stand(disk) = "none" /\ sent = [r \in {"import", "cleanup"} |-> 0]
      BY ImportKeys DEF ImportInit, Init, Stand, Pending
    <2> QED
      BY <2>1 DEF Ledger!LedgerInit
  <1>2. ImportInit => PlaceInv
    BY PlaceStages DEF ImportInit, PlaceInv
  <1>3. IInv /\ OnceInv /\ PlaceInv /\ [ImportNext]_importVars => PlaceInv'
    BY PlaceNext
  <1>4. IInv /\ OnceInv /\ PlaceInv /\ [ImportNext]_importVars
           => [Ledger!LedgerNext]_(Ledger!ledgerVars)
    BY ImportLedgerStep
  <1> QED
    BY <1>1, <1>2, <1>3, <1>4, Invariants, PTL DEF ImportSpec, AsksInOrder, Ledger!LedgerSpec
=============================================================================
