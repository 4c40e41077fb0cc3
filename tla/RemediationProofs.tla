-------------------------- MODULE RemediationProofs --------------------------
(***************************************************************************)
(* Every media worker is a caller of the store (MediaSpec implements the   *)
(* specification of StateStore), and each request of an operation is sent  *)
(* at most once and only while the journal on disk announces it.  No       *)
(* episode loses more files than its budget allows; what is deleted was    *)
(* judged, and what was lost is not forgotten: for any number of files,    *)
(* episodes, workers, changes, lost answers, failed saves and restarts.    *)
(* What Arr is asked, and in which order, is that of RequestLedger.        *)
(***************************************************************************)
EXTENDS Remediation, StateStoreProofs

Job == [file : Files \cup {NoFile}, seen : Contents, ids : SUBSET Episodes,
        download : Downloads \cup {NoDownload}, via : {"none", "queue", "history"},
        automatic : BOOLEAN]

\* Types of what a worker reads.
Typed ==
    /\ pc \in [Workers -> {"idle", "probed"} \cup Locked]
    /\ job \in [Workers -> Job]
    /\ mutex \in Workers \cup {NoWorker}
    /\ content \in [Files -> Contents]
    /\ auto \in BOOLEAN
    /\ sent \in [Files -> [Requested -> Nat]]

KnownDownload(w) == job[w].download \in {FileDownload[job[w].file], NoDownload}

\* A busy worker works on a file, in a running process, and names no download
\* but the one in the file's import history.
Busy ==
    \A w \in Workers : pc[w] # "idle" =>
        job[w].file \in Files /\ open /\ KnownDownload(w)

\* The stages of an operation, from the saved Begin to Complete.
Operating == {"delete", "deleted", "refresh", "record", "reread", "fail", "failed",
              "targets", "search", "send", "finish"}

\* The requests that may have left when a worker reaches a stage.
Left(stage) ==
    CASE stage = "delete" -> {}
      [] stage \in {"deleted", "refresh", "record", "reread", "fail"} -> {"delete"}
      [] stage \in {"failed", "targets", "search", "send"} -> {"delete", "fail"}
      [] OTHER -> Requested

\* The stages at which what is announced is yet to be sent.
Asking == {"delete", "reread", "fail", "send"}

\* A worker at a stage of an operation finds it in memory and on disk, with the
\* phase that announces the request it is about to send, or one whose request
\* was sent.
StageOK(stage, f, onDisk, inMemory, requests) ==
    /\ f \in Pending(onDisk)
    /\ onDisk.operations[f] = inMemory.operations[f]
    /\ \A r \in Requested \ Left(stage) : requests[f][r] = 0
    /\ stage \in {"delete", "deleted"} => onDisk.operations[f].phase = "delete-requested"
    /\ stage \in {"reread", "fail", "failed"} => onDisk.operations[f].phase = "origin-requested"
    /\ stage = "send" => onDisk.operations[f].phase = "search-requested"
    /\ stage \notin Asking => requests[f][Announces(onDisk.operations[f].phase)] > 0

StageInv ==
    \A w \in Workers : pc[w] \in Operating => StageOK(pc[w], job[w].file, disk, mem, sent)

\* Nothing was ever sent for a file without a trace in the journal.
Fresh ==
    \A f \in Files : f \notin Pending(disk) /\ f \notin disk.completed =>
        \A r \in Requested : sent[f][r] = 0

MInv == Typed /\ Busy /\ Exclusive /\ StageInv /\ Fresh /\ OnceOnly

-----------------------------------------------------------------------------
(* Types. *)

LEMMA NoJobType == NoJob \in Job
  BY DEF NoJob, Job, Contents

LEMMA RequestForType ==
    ASSUME NEW f \in Files, NEW d \in {FileDownload[f], NoDownload}
    PROVE  RequestFor(f, d) \in Requests
  BY MediaRequests

LEMMA TypedInit == MediaInit => Typed
  BY NoJobType, MediaAssumption DEF MediaInit, Typed, Requested

\* A worker that moves on or leaves keeps the types, if its new locals have
\* theirs.
LEMMA GotoTyped ==
    ASSUME Typed, NEW w \in Workers, NEW stage \in {"idle", "probed"} \cup Locked,
           NEW locals \in Job, Goto(w, stage, locals),
           sent' \in [Files -> [Requested -> Nat]], auto' \in BOOLEAN, UNCHANGED content
    PROVE  Typed'
  BY DEF Typed, Goto, Job

LEMMA LeaveTyped ==
    ASSUME Typed, NEW w \in Workers, Leave(w),
           sent' \in [Files -> [Requested -> Nat]], auto' \in BOOLEAN, UNCHANGED content
    PROVE  Typed'
  BY NoJobType DEF Typed, Leave, Job

\* Counting a request keeps the type of the counters.
LEMMA SendType ==
    ASSUME Typed, NEW f \in Files, NEW r \in Requested, Send(f, r)
    PROVE  /\ sent' \in [Files -> [Requested -> Nat]]
           /\ \A g \in Files, q \in Requested :
                 sent'[g][q] = IF g = f /\ q = r THEN sent[g][q] + 1 ELSE sent[g][q]
  BY DEF Typed, Send

LEMMA StagesLocked ==
    /\ Operating \subseteq Locked
    /\ Reads \subseteq Locked /\ Sends \subseteq Locked /\ Saves \subseteq Locked
    /\ "idle" \notin Locked /\ "probed" \notin Locked
  BY DEF Operating, Locked, Reads, Sends, Saves

-----------------------------------------------------------------------------
(* What a worker's step does, in a form the invariant can be checked of:   *)
(* it moves to a stage or leaves, with a step of the store, and sends at   *)
(* most one request.                                                       *)

Moves(w, stage, locals) ==
    /\ pc' = [pc EXCEPT ![w] = stage]
    /\ job' = [job EXCEPT ![w] = locals]

\* One worker at a time is past the lock.
LEMMA Alone ==
    ASSUME Typed, Exclusive, NEW w \in Workers, pc[w] \in Locked, NEW v \in Workers, v # w
    PROVE  pc[v] \notin Locked
  BY DEF Exclusive

\* The invariant on stages needs checking only of the worker that moved.
LEMMA StageMoved ==
    ASSUME MInv, NEW w \in Workers, pc[w] \in Locked,
           NEW stage, NEW locals, Moves(w, stage, locals),
           stage \in Operating => StageOK(stage, locals.file, disk', mem', sent')
    PROVE  StageInv'
  <1> SUFFICES ASSUME NEW v \in Workers, pc'[v] \in Operating
               PROVE  StageOK(pc'[v], job'[v].file, disk', mem', sent')
    BY DEF StageInv
  <1>1. CASE v = w
    <2>1. pc'[v] = stage /\ job'[v] = locals
      BY <1>1 DEF Moves, MInv, Typed
    <2> QED
      BY <1>1, <2>1
  <1>2. CASE v # w
    <2>1. pc'[v] = pc[v]
      BY <1>2 DEF Moves, MInv, Typed
    <2> QED
      BY <1>2, <2>1, Alone, StagesLocked DEF MInv
  <1> QED
    BY <1>1, <1>2

\* A worker that is in no operation before and after leaves the others alone.
LEMMA StageOther ==
    ASSUME MInv, NEW w \in Workers, NEW stage, NEW locals, Moves(w, stage, locals),
           pc[w] \notin Operating, stage \notin Operating,
           UNCHANGED <<mem, disk, sent>>
    PROVE  StageInv'
  <1> SUFFICES ASSUME NEW v \in Workers, pc'[v] \in Operating
               PROVE  StageOK(pc'[v], job'[v].file, disk', mem', sent')
    BY DEF StageInv
  <1>1. v # w /\ pc'[v] = pc[v] /\ job'[v] = job[v]
    BY DEF Moves, MInv, Typed
  <1> QED
    BY <1>1 DEF MInv, StageInv

-----------------------------------------------------------------------------
(* Every step is a step of the store. *)

LEMMA StoreStep ==
    ASSUME Typed, Busy, [MediaNext]_mediaVars
    PROVE  [Next]_vars
  <1>0. Files \subseteq Keys /\ Episodes = RetryKeys \ Legacy
    BY MediaAssumption DEF Episodes
  <1>1. ASSUME NEW w \in Workers, ResetOne(w) PROVE [Next]_vars
    <2>1. job[w].ids \subseteq RetryKeys
      BY <1>0 DEF Typed, Job
    <2> QED
      BY <1>1, <2>1 DEF ResetOne, storeVars, Next
  <1>2. ASSUME NEW w \in Workers, BeginOperation(w) PROVE [Next]_vars
    <2> DEFINE r == RequestFor(job[w].file, job[w].download)
    <2>1. job[w].ids \in SUBSET (RetryKeys \ Legacy) /\ job[w].automatic \in BOOLEAN
      BY <1>0 DEF Typed, Job
    <2>2. PICK attempt \in 0 .. MaxInt :
             Begin(r, "delete-requested", job[w].automatic, "none", job[w].ids, attempt)
      BY <1>2 DEF BeginOperation
    <2>3. r \in Requests
      BY <1>2, RequestForType DEF BeginOperation, Busy, KnownDownload
    <2>4. <<"delete-requested", "none">> \in FirstPhases
      BY DEF FirstPhases, MediaFirst
    <2> HIDE DEF r
    <2>5. BeginAny
      BY <2>1, <2>2, <2>3, <2>4 DEF BeginAny
    <2> QED
      BY <2>5 DEF Next
  <1>3. ASSUME NEW w \in Workers, pc[w] \in Locked, Progress(w), ~ResetOne(w), ~BeginOperation(w)
        PROVE  [Next]_vars
    <2>1. job[w].file \in Keys /\ job[w].automatic \in BOOLEAN
      BY <1>0, <1>3, StagesLocked DEF Typed, Job, Busy
    <2>2. {"deleted", "origin-complete"} \subseteq LaterPhases
      BY DEF LaterPhases, MediaLater
    <2>3. CASE RecordDeleted(w)
      BY <2>1, <2>2, <2>3 DEF RecordDeleted, Next
    <2>4. CASE RecordFailed(w)
      BY <2>1, <2>2, <2>4 DEF RecordFailed, Next
    <2>5. CASE RecordOrigin(w)
      BY <2>1, <2>5 DEF RecordOrigin, Next
    <2>6. CASE RecordSearch(w)
      BY <2>1, <2>6 DEF RecordSearch, Next
    <2>7. CASE Finish(w)
      BY <2>1, <2>7 DEF Finish, Next
    <2>8. CASE UNCHANGED vars
      BY <2>8
    <2> QED
      BY <1>3, <2>3, <2>4, <2>5, <2>6, <2>7, <2>8
         DEF Progress, Enter, Check, ResetDone, FindOrigin, PrepareOrigin, Recheck, Remap,
             NotBegun, DeleteFile, RefreshPolicy, RereadQueue, FailOrigin, ReadTargets,
             SendSearch, Refused, Abort, storeVars
  <1>4. ASSUME NEW w \in Workers, Step(w), ~ResetOne(w), ~BeginOperation(w) PROVE [Next]_vars
    <2>1. CASE pc[w] \in Locked /\ Progress(w)
      BY <1>3, <1>4, <2>1
    <2>2. CASE UNCHANGED vars
      BY <2>2
    <2> QED
      BY <1>4, <2>1, <2>2
         DEF Step, Probe, Progress, Enter, Check, ResetDone, FindOrigin, PrepareOrigin, Recheck,
             Remap, NotBegun, DeleteFile, RecordDeleted, RefreshPolicy, RecordOrigin,
             RereadQueue, FailOrigin, RecordFailed, ReadTargets, RecordSearch, SendSearch,
             Finish, Abort, Refused, storeVars, Locked, Reads, Sends, Saves
  <1>5. CASE Surroundings
    BY <1>5 DEF Surroundings, Edit, Remove, Import, MoveOrigin, SetPolicy, SaveOther, storeVars,
          Next
  <1>6. CASE Die
    BY <1>6 DEF Die, Next
  <1>7. CASE Restart
    BY <1>7 DEF Restart, Next
  <1>8. CASE UNCHANGED mediaVars
    BY <1>8 DEF mediaVars, storeVars
  <1> QED
    BY <1>1, <1>2, <1>4, <1>5, <1>6, <1>7, <1>8 DEF MediaNext

-----------------------------------------------------------------------------
(* The shape of a worker's step. *)

\* What a step of w does to its control: it takes up a file, takes the lock,
\* goes on under the lock, or leaves.
Shape(w) ==
    \/ \E locals \in Job :
          /\ pc[w] = "idle" /\ open
          /\ locals.file \in Files /\ locals.download = NoDownload
          /\ Goto(w, "probed", locals)
    \/ /\ pc[w] = "probed" /\ mutex = NoWorker /\ mutex' = w
       /\ Moves(w, "checking", job[w])
    \/ \E stage \in Locked, locals \in Job :
          /\ pc[w] \in Locked
          /\ locals.file = job[w].file
          /\ locals.download \in {FileDownload[job[w].file], NoDownload}
          /\ Goto(w, stage, locals)
    \/ pc[w] # "idle" /\ Leave(w)

LEMMA GoesOn ==
    ASSUME NEW w \in Workers, pc[w] \in Locked, NEW stage \in Locked, NEW locals \in Job,
           locals.file = job[w].file,
           locals.download \in {FileDownload[job[w].file], NoDownload}, Goto(w, stage, locals)
    PROVE  Shape(w)
  BY DEF Shape

LEMMA Leaves ==
    ASSUME NEW w \in Workers, pc[w] # "idle", Leave(w)
    PROVE  Shape(w)
  BY DEF Shape

\* The common case: the locals stay.
LEMMA GoesOnAsIs ==
    ASSUME Typed, Busy, NEW w \in Workers, pc[w] \in Locked, NEW stage \in Locked,
           Goto(w, stage, job[w])
    PROVE  Shape(w)
  <1>1. job[w] \in Job /\ pc[w] # "idle"
    BY StagesLocked DEF Typed
  <1>2. KnownDownload(w)
    BY <1>1 DEF Busy
  <1> QED
    BY <1>1, <1>2, GoesOn DEF KnownDownload

LEMMA SaveShape ==
    ASSUME Typed, Busy, NEW w \in Workers, pc[w] \in Locked, NEW stage \in Locked,
           AfterSave(w, stage, job[w])
    PROVE  Shape(w)
  BY GoesOnAsIs, Leaves, StagesLocked DEF AfterSave

LEMMA SendShape ==
    ASSUME Typed, Busy, NEW w \in Workers, pc[w] \in Locked, NEW stage \in Locked,
           NEW acked \in BOOLEAN, AfterSend(w, acked, stage)
    PROVE  Shape(w)
  BY GoesOnAsIs, Leaves, StagesLocked DEF AfterSend

LEMMA StepShape ==
    ASSUME Typed, Busy, NEW w \in Workers, Step(w)
    PROVE  Shape(w)
  <1>0. Locked = Reads \cup Sends \cup Saves /\ "idle" \notin Locked
    BY StagesLocked DEF Locked
  <1>1. job[w] \in Job
    BY DEF Typed
  <1>2. pc[w] # "idle" => KnownDownload(w)
    BY DEF Busy
  <1>3. ASSUME NEW f \in Files, Probe(w, f) PROVE Shape(w)
    <2> DEFINE locals == [NoJob EXCEPT !.file = f, !.seen = content[f]]
    <2>1. content[f] \in Contents
      BY DEF Typed
    <2>2. locals \in Job /\ locals.file = f /\ locals.download = NoDownload
      BY <2>1 DEF Job, NoJob
    <2>3. pc[w] = "idle" /\ open /\ Goto(w, "probed", locals)
      BY <1>3 DEF Probe
    <2> HIDE DEF locals
    <2> QED
      BY <2>2, <2>3 DEF Shape
  <1>4. CASE Enter(w)
    <2>1. Moves(w, "checking", job[w])
      BY <1>4 DEF Enter, Moves, Typed
    <2> QED
      BY <1>4, <2>1 DEF Enter, Shape
  <1>5. CASE Check(w)
    <2> DEFINE ids == Assigned(job[w].file)
               locals == [job[w] EXCEPT !.ids = ids]
    <2>1. ids \in SUBSET Episodes
      BY DEF Assigned
    <2>2. locals \in Job /\ locals.file = job[w].file /\ locals.download = job[w].download
      BY <1>1, <2>1 DEF Job
    <2>3. pc[w] \in Locked /\ "resetting" \in Locked /\ "origin" \in Locked
      BY <1>5 DEF Check, Locked, Reads, Saves
    <2>4. Goto(w, "resetting", locals) \/ Leave(w) \/ Goto(w, "origin", locals)
      BY <1>5 DEF Check
    <2> HIDE DEF locals
    <2> QED
      BY <1>0, <1>2, <2>2, <2>3, <2>4, GoesOn, Leaves DEF KnownDownload
  <1>6. CASE ResetOne(w)
    <2>1. PICK e \in job[w].ids :
             \/ Goto(w, "resetting", [job[w] EXCEPT !.ids = @ \ {e}])
             \/ AfterSave(w, "resetting", [job[w] EXCEPT !.ids = @ \ {e}])
      BY <1>6 DEF ResetOne
    <2> DEFINE locals == [job[w] EXCEPT !.ids = @ \ {e}]
    <2>2. locals \in Job /\ locals.file = job[w].file /\ locals.download = job[w].download
      BY <1>1 DEF Job
    <2>3. pc[w] \in Locked /\ "resetting" \in Locked
      BY <1>6 DEF ResetOne, Locked, Saves
    <2>4. Goto(w, "resetting", locals) \/ Leave(w)
      BY <2>1 DEF AfterSave
    <2> HIDE DEF locals
    <2> QED
      BY <1>0, <1>2, <2>2, <2>3, <2>4, GoesOn, Leaves DEF KnownDownload
  <1>7. CASE FindOrigin(w)
    <2>1. PICK download \in {FileDownload[job[w].file], NoDownload} :
             Goto(w, "prepare", [job[w] EXCEPT !.download = download])
      BY <1>7 DEF FindOrigin
    <2> DEFINE locals == [job[w] EXCEPT !.download = download]
    <2>2. pc[w] \in Locked /\ "prepare" \in Locked
      BY <1>7 DEF FindOrigin, Locked, Reads
    <2>3. job[w].file \in Files
      BY <1>0, <2>2 DEF Busy
    <2>4. download \in Downloads \cup {NoDownload}
      BY <2>3, MediaAssumption
    <2>5. locals \in Job /\ locals.file = job[w].file /\ locals.download = download
      BY <1>1, <2>4 DEF Job
    <2> HIDE DEF locals
    <2> QED
      BY <2>1, <2>2, <2>5, GoesOn DEF locals
  <1>8. CASE PrepareOrigin(w)
    <2> DEFINE queued == [job[w] EXCEPT !.via = "queue"]
               listed == [job[w] EXCEPT !.via = "history", !.automatic = auto]
    <2>1. /\ queued \in Job /\ queued.file = job[w].file /\ queued.download = job[w].download
          /\ listed \in Job /\ listed.file = job[w].file /\ listed.download = job[w].download
      BY <1>1 DEF Job, Typed
    <2>2. pc[w] \in Locked /\ "recheck" \in Locked
      BY <1>8 DEF PrepareOrigin, Locked, Reads
    <2>3. \/ Goto(w, "recheck", job[w]) \/ Goto(w, "recheck", queued)
          \/ Goto(w, "recheck", listed) \/ Leave(w)
      BY <1>8 DEF PrepareOrigin
    <2> HIDE DEF queued, listed
    <2> QED
      BY <1>0, <1>2, <2>1, <2>2, <2>3, GoesOn, GoesOnAsIs, Leaves DEF KnownDownload
  <1>9. CASE RefreshPolicy(w)
    <2> DEFINE locals == [job[w] EXCEPT !.automatic = auto]
    <2>1. locals \in Job /\ locals.file = job[w].file /\ locals.download = job[w].download
      BY <1>1 DEF Job, Typed
    <2>2. pc[w] \in Locked /\ "record" \in Locked
      BY <1>9 DEF RefreshPolicy, Locked, Reads, Saves
    <2>3. Goto(w, "record", locals)
      BY <1>9 DEF RefreshPolicy
    <2> HIDE DEF locals
    <2> QED
      BY <1>0, <1>2, <2>1, <2>2, <2>3, GoesOn DEF KnownDownload
  <1>10. CASE ReadTargets(w)
    <2> DEFINE locals == [job[w] EXCEPT !.ids = {e \in job[w].ids : holder[e] = NoFile}]
    <2>1. locals \in Job /\ locals.file = job[w].file /\ locals.download = job[w].download
      BY <1>1 DEF Job
    <2>2. pc[w] \in Locked /\ "search" \in Locked /\ "finish" \in Locked
      BY <1>10 DEF ReadTargets, Locked, Reads, Saves
    <2>3. Goto(w, "finish", job[w]) \/ Goto(w, "search", locals)
      BY <1>10 DEF ReadTargets
    <2> HIDE DEF locals
    <2> QED
      BY <1>0, <1>2, <2>1, <2>2, <2>3, GoesOn, GoesOnAsIs DEF KnownDownload
  <1>11. CASE \E stage \in Locked : pc[w] \in Locked /\ AfterSave(w, stage, job[w])
    BY <1>11, SaveShape
  <1>12. CASE \E stage \in Locked, acked \in BOOLEAN :
                 pc[w] \in Locked /\ AfterSend(w, acked, stage)
    BY <1>12, SendShape
  <1>13. CASE \E stage \in Locked : pc[w] \in Locked /\ Goto(w, stage, job[w])
    BY <1>13, GoesOnAsIs
  <1>14. CASE pc[w] # "idle" /\ Leave(w)
    BY <1>14, Leaves
  <1>15. CASE BeginOperation(w) \/ RecordDeleted(w) \/ RecordOrigin(w) \/ RecordFailed(w)
              \/ RecordSearch(w)
    <2>1. pc[w] \in Locked /\ \E stage \in {"delete", "targets", "record", "refresh", "reread",
                                            "fail", "finish", "send"} :
             AfterSave(w, stage, job[w])
      BY <1>1, <1>15 DEF BeginOperation, RecordDeleted, RecordOrigin, RecordFailed, RecordSearch,
            Locked, Saves, Job
    <2> QED
      BY <1>11, <2>1 DEF Locked, Reads, Sends, Saves
  <1>16. CASE DeleteFile(w) \/ FailOrigin(w) \/ SendSearch(w)
    BY <1>12, <1>16 DEF DeleteFile, FailOrigin, SendSearch, Locked, Sends, Saves
  <1>17. CASE Recheck(w) \/ Remap(w) \/ RereadQueue(w)
    BY <1>13, <1>14, <1>17 DEF Recheck, Remap, RereadQueue, Locked, Reads, Sends, Saves
  <1>18. CASE ResetDone(w) \/ NotBegun(w) \/ Finish(w) \/ Abort(w) \/ Refused(w)
    BY <1>14, <1>18 DEF ResetDone, NotBegun, Finish, Abort, Refused, Reads, Saves
  <1> QED
    BY <1>3, <1>4, <1>5, <1>6, <1>7, <1>8, <1>9, <1>10, <1>15, <1>16, <1>17, <1>18
       DEF Step, Progress

-----------------------------------------------------------------------------
(* What a step does to the data the invariant looks at. *)

\* A worker's step sends at most the request of the stage it is at.
LEMMA StepSends ==
    ASSUME Typed, Busy, NEW w \in Workers, Step(w)
    PROVE  /\ UNCHANGED <<content, auto, open>>
           /\ \/ UNCHANGED sent
              \/ \E r \in Requested :
                    /\ Send(job[w].file, r)
                    /\ pc[w] = CASE r = "delete" -> "delete"
                                 [] r = "fail"   -> "fail"
                                 [] r = "search" -> "send"
  BY DEF Step, Progress, Probe, Enter, Check, ResetOne, ResetDone, FindOrigin, PrepareOrigin,
         Recheck, Remap, BeginOperation, NotBegun, DeleteFile, FileDeleted, RecordDeleted,
         RefreshPolicy, RecordOrigin, RereadQueue, FailOrigin, RecordFailed, ReadTargets,
         RecordSearch, SendSearch, Finish, Abort, Refused, arrVars, historyVars, storeVars, vars,
         durableVars, Requested, Begin, Phase, OriginRequested, SearchRequested, Complete,
         Reset, Update, Commits, CommitFails

\* What a step outside the workers leaves alone.
LEMMA OthersIdle ==
    ASSUME Surroundings \/ Restart \/ UNCHANGED mediaVars
    PROVE  UNCHANGED <<pc, job, mutex, sent>> /\ (UNCHANGED open \/ Restart)
  BY DEF Surroundings, Edit, Remove, Import, MoveOrigin, SetPolicy, SaveOther, Restart, mediaVars,
         guardVars, historyVars, storeVars, vars, durableVars, SaveWebhooks, Update, Commits,
         CommitFails

LEMMA ShapeTyped ==
    ASSUME Typed, NEW w \in Workers, Shape(w),
           sent' \in [Files -> [Requested -> Nat]], UNCHANGED <<content, auto>>
    PROVE  Typed'
  <1>1. auto' \in BOOLEAN
    BY DEF Typed
  <1>2. CASE \E locals \in Job : Goto(w, "probed", locals)
    BY <1>1, <1>2, GotoTyped
  <1>3. CASE pc[w] = "probed" /\ mutex = NoWorker /\ mutex' = w /\ Moves(w, "checking", job[w])
    <2>1. "checking" \in Locked
      BY DEF Locked, Reads
    <2> QED
      BY <1>1, <1>3, <2>1 DEF Typed, Moves
  <1>4. CASE \E stage \in Locked, locals \in Job : Goto(w, stage, locals)
    BY <1>1, <1>4, GotoTyped
  <1>5. CASE Leave(w)
    BY <1>1, <1>5, LeaveTyped
  <1> QED
    BY <1>2, <1>3, <1>4, <1>5 DEF Shape

LEMMA TypedNext ==
    ASSUME Typed, Busy, [MediaNext]_mediaVars
    PROVE  Typed'
  <1>1. ASSUME NEW w \in Workers, Step(w) PROVE Typed'
    <2>1. sent' \in [Files -> [Requested -> Nat]]
      <3>1. CASE UNCHANGED sent
        BY <3>1 DEF Typed
      <3>2. ASSUME NEW r \in Requested, Send(job[w].file, r), pc[w] # "idle"
            PROVE  sent' \in [Files -> [Requested -> Nat]]
        BY <3>2, SendType DEF Busy
      <3> QED
        BY <1>1, <3>1, <3>2, StepSends DEF Requested
    <2> QED
      BY <1>1, <2>1, StepSends, StepShape, ShapeTyped
  <1>2. CASE Surroundings \/ Restart \/ UNCHANGED mediaVars
    <2>1. content' \in [Files -> Contents] /\ auto' \in BOOLEAN
      BY <1>2 DEF Typed, Surroundings, Edit, Remove, FileDeleted, Import, MoveOrigin, SetPolicy,
            SaveOther, Restart, mediaVars, arrVars, Contents
    <2> QED
      BY <1>2, <2>1, OthersIdle DEF Typed
  <1>3. CASE Die
    BY <1>3, NoJobType DEF Typed, Die, arrVars, historyVars
  <1> QED
    BY <1>1, <1>2, <1>3 DEF MediaNext

LEMMA BusyNext ==
    ASSUME Typed, Busy, [MediaNext]_mediaVars
    PROVE  Busy'
  <1> SUFFICES ASSUME NEW v \in Workers, pc'[v] # "idle"
               PROVE  /\ job'[v].file \in Files /\ open'
                      /\ job'[v].download \in {FileDownload[job'[v].file], NoDownload}
    BY DEF Busy, KnownDownload
  <1>1. ASSUME NEW w \in Workers, Step(w)
        PROVE  /\ job'[v].file \in Files /\ open'
               /\ job'[v].download \in {FileDownload[job'[v].file], NoDownload}
    <2>1. Shape(w) /\ UNCHANGED open
      BY <1>1, StepShape, StepSends
    <2>2. open
      <3>1. CASE pc[w] = "idle"
        BY <2>1, <3>1, StagesLocked DEF Shape
      <3>2. CASE pc[w] # "idle"
        BY <3>2 DEF Busy
      <3> QED
        BY <3>1, <3>2
    <2>3. ASSUME NEW u \in Workers, pc[u] # "idle"
          PROVE  /\ job[u].file \in Files
                 /\ job[u].download \in {FileDownload[job[u].file], NoDownload}
      BY <2>3 DEF Busy, KnownDownload
    <2>4. CASE v # w
      <3>1. pc'[v] = pc[v] /\ job'[v] = job[v]
        BY <2>1, <2>4 DEF Shape, Goto, Moves, Leave, Typed
      <3> QED
        BY <2>1, <2>2, <2>3, <3>1
    <2>5. CASE v = w
      <3>1. CASE \E locals \in Job :
                    /\ locals.file \in Files /\ locals.download = NoDownload
                    /\ Goto(w, "probed", locals)
        BY <2>1, <2>2, <2>5, <3>1 DEF Goto, Typed
      <3>2. CASE pc[w] = "probed" /\ Moves(w, "checking", job[w])
        BY <2>1, <2>2, <2>3, <2>5, <3>2 DEF Moves, Typed
      <3>3. CASE \E stage \in Locked, locals \in Job :
                    /\ pc[w] \in Locked
                    /\ locals.file = job[w].file
                    /\ locals.download \in {FileDownload[job[w].file], NoDownload}
                    /\ Goto(w, stage, locals)
        BY <2>1, <2>2, <2>3, <2>5, <3>3, StagesLocked DEF Goto, Typed
      <3>4. CASE Leave(w)
        BY <2>5, <3>4 DEF Leave, Typed
      <3> QED
        BY <2>1, <3>1, <3>2, <3>3, <3>4 DEF Shape
    <2> QED
      BY <2>4, <2>5
  <1>4. CASE Surroundings \/ Restart \/ UNCHANGED mediaVars
    <2>1. pc'[v] = pc[v] /\ job'[v] = job[v] /\ open
      BY <1>4, OthersIdle DEF Busy
    <2>2. open'
      BY <1>4, <2>1, OthersIdle DEF Restart, Start, Starts, StartFails
    <2> QED
      BY <2>1, <2>2 DEF Busy, KnownDownload
  <1>5. CASE Die
    BY <1>5 DEF Die
  <1> QED
    BY <1>1, <1>4, <1>5 DEF MediaNext

LEMMA ExclusiveNext ==
    ASSUME Typed, Busy, Exclusive, [MediaNext]_mediaVars
    PROVE  Exclusive'
  <1> SUFFICES ASSUME NEW v \in Workers, pc'[v] \in Locked PROVE mutex' = v
    BY DEF Exclusive
  <1>1. ASSUME NEW w \in Workers, Shape(w) PROVE mutex' = v
    BY <1>1, StagesLocked, MediaAssumption
       DEF Shape, Goto, Moves, Leave, Typed, Exclusive
  <1>2. CASE Surroundings \/ Restart \/ UNCHANGED mediaVars
    BY <1>2, OthersIdle DEF Exclusive
  <1>3. CASE Die
    BY <1>3, StagesLocked DEF Die
  <1> QED
    BY <1>1, <1>2, <1>3, StepShape DEF MediaNext

-----------------------------------------------------------------------------
(* The stage invariant. *)

\* After a save that succeeded the worker finds the state it saved, in memory
\* and on disk; after one that failed it leaves.
LEMMA SavedStage ==
    ASSUME MInv, NEW w \in Workers, pc[w] \in Locked, NEW next, Update(next), UNCHANGED sent,
           NEW stage, NEW locals, AfterSave(w, stage, locals),
           StageOK(stage, locals.file, next, next, sent)
    PROVE  StageInv'
  <1>1. CASE writeErr'
    <2>1. Moves(w, "idle", NoJob)
      BY <1>1 DEF AfterSave, Leave, Moves
    <2>2. "idle" \notin Operating
      BY DEF Operating
    <2> QED
      BY <2>1, <2>2, StageMoved
  <1>2. CASE ~writeErr'
    <2>1. mem' = next /\ disk' = next
      BY <1>2 DEF Update, Commits, CommitFails
    <2>2. Moves(w, stage, locals)
      BY <1>2 DEF AfterSave, Goto, Moves
    <2> QED
      BY <2>1, <2>2, StageMoved
  <1> QED
    BY <1>1, <1>2

\* After a request the worker goes on only if it was acknowledged.
LEMMA SentStage ==
    ASSUME MInv, NEW w \in Workers, pc[w] \in Locked, NEW acked \in BOOLEAN,
           NEW stage, AfterSend(w, acked, stage), UNCHANGED <<mem, disk>>,
           StageOK(stage, job[w].file, disk, mem, sent')
    PROVE  StageInv'
  <1>1. CASE ~acked
    <2>1. Moves(w, "idle", NoJob)
      BY <1>1 DEF AfterSend, Leave, Moves
    <2>2. "idle" \notin Operating
      BY DEF Operating
    <2> QED
      BY <2>1, <2>2, StageMoved
  <1>2. CASE acked
    <2>1. Moves(w, stage, job[w])
      BY <1>2 DEF AfterSend, Goto, Moves
    <2> QED
      BY <2>1, StageMoved
  <1> QED
    BY <1>1, <1>2

\* A worker that leaves, or that reads and goes on, keeps the invariant.
LEMMA LeftStage ==
    ASSUME MInv, NEW w \in Workers, pc[w] \in Locked, Leave(w)
    PROVE  StageInv'
  <1>1. Moves(w, "idle", NoJob) /\ "idle" \notin Operating
    BY DEF Leave, Moves, Operating
  <1> QED
    BY <1>1, StageMoved

LEMMA ReadStage ==
    ASSUME MInv, NEW w \in Workers, pc[w] \in Locked, NEW stage, NEW locals,
           Goto(w, stage, locals), UNCHANGED <<mem, disk, sent>>,
           stage \in Operating => StageOK(stage, locals.file, disk, mem, sent)
    PROVE  StageInv'
  <1>1. Moves(w, stage, locals)
    BY DEF Goto, Moves
  <1> QED
    BY <1>1, StageMoved

\* The states saved by the calls of an operation.
LEMMA PhaseEntry ==
    ASSUME NEW s, Sound(s), NEW f \in Pending(s), NEW phase \in Phases
    PROVE  /\ f \in Pending(WithPhase(s, f, phase))
           /\ WithPhase(s, f, phase).operations[f].phase = phase
  <1> DEFINE op == [s.operations[f] EXCEPT !.phase = phase]
  <1>1. s.operations \in [Keys -> Operation \cup {NoOp}] /\ f \in Keys
        /\ s.operations[f] \in Operation
    BY DEF Sound, State, Pending
  <1>2. op \in Operation /\ op.phase = phase
    BY <1>1 DEF Operation
  <1> HIDE DEF op
  <1>3. s \in State
    BY DEF Sound
  <1>4. WithOperation(s, f, op).operations = [s.operations EXCEPT ![f] = op]
    BY <1>3 DEF WithOperation, State
  <1>5. WithPhase(s, f, phase) = WithOperation(s, f, op)
    BY DEF WithPhase, op
  <1>6. op # NoOp
    BY <1>2, NoOpAssumption
  <1> QED
    BY <1>1, <1>2, <1>4, <1>5, <1>6 DEF Pending

LEMMA OriginEntry ==
    ASSUME NEW s, Sound(s), NEW f \in Pending(s), NEW automatic \in BOOLEAN
    PROVE  /\ f \in Pending(WithOrigin(s, f, automatic))
           /\ WithOrigin(s, f, automatic).operations[f].phase = "origin-requested"
  <1> DEFINE op == [s.operations[f] EXCEPT !.phase = "origin-requested", !.automatic = automatic]
  <1>1. s.operations \in [Keys -> Operation \cup {NoOp}] /\ f \in Keys
        /\ s.operations[f] \in Operation
    BY DEF Sound, State, Pending
  <1>2. op \in Operation /\ op.phase = "origin-requested"
    BY <1>1 DEF Operation, Phases
  <1> HIDE DEF op
  <1>3. s \in State
    BY DEF Sound
  <1>4. WithOperation(s, f, op).operations = [s.operations EXCEPT ![f] = op]
    BY <1>3 DEF WithOperation, State
  <1>5. WithOrigin(s, f, automatic) = WithOperation(s, f, op)
    BY DEF WithOrigin, op
  <1>6. op # NoOp
    BY <1>2, NoOpAssumption
  <1> QED
    BY <1>1, <1>2, <1>4, <1>5, <1>6 DEF Pending

LEMMA BegunEntry ==
    ASSUME NEW s, Sound(s), NEW f \in Keys, NEW op \in Operation, NEW ids,
           NEW n \in 0 .. MaxInt
    PROVE  /\ f \in Pending(Begun(s, f, op, ids, n))
           /\ Begun(s, f, op, ids, n).operations[f] = op
  <1> DEFINE a == WithAttempts(s, ids, n)
  <1>1. Sound(a)
    BY AttemptsSound
  <1>2. a \in State
    BY <1>1 DEF Sound
  <1>3. Begun(s, f, op, ids, n) = WithOperation(a, f, op)
    BY DEF Begun
  <1> HIDE DEF a
  <1>4. WithOperation(a, f, op).operations = [a.operations EXCEPT ![f] = op]
    BY <1>2 DEF WithOperation, State
  <1>5. a.operations \in [Keys -> Operation \cup {NoOp}]
    BY <1>2 DEF State
  <1> QED
    BY <1>3, <1>4, <1>5, NoOpAssumption DEF Pending

\* The journal has room for the operation a worker begins, and nothing was
\* ever sent for it.
LEMMA BeginsFresh ==
    ASSUME MInv, IInv, NEW w \in Workers, BeginOperation(w)
    PROVE  StageInv'
  <1> DEFINE f == job[w].file
             r == RequestFor(f, job[w].download)
             op == NewOperation(r, "delete-requested", job[w].automatic, "none")
  <1>1. pc[w] \in Locked /\ f \in Files /\ KnownDownload(w) /\ job[w].automatic \in BOOLEAN
    BY StagesLocked DEF BeginOperation, Locked, Saves, MInv, Busy, Typed, Job
  <1>2. r \in Requests /\ r.key = f
    BY <1>1, RequestForType DEF KnownDownload, RequestFor
  <1>3. op \in Operation /\ IsEntryOf(op, r) /\ op.phase = "delete-requested"
    BY <1>1, <1>2, NewOperationType DEF Phases, NewOperation
  <1>4. PICK attempt \in 0 .. MaxInt :
           Begin(r, "delete-requested", job[w].automatic, "none", job[w].ids, attempt)
    BY DEF BeginOperation
  <1> DEFINE next == Begun(mem, f, op, job[w].ids, attempt)
  <1>5. /\ f \notin mem.completed
        /\ \A k \in Pending(mem) : ~Fences(mem.operations[k], op)
        /\ Update(next)
    BY <1>2, <1>4 DEF Begin, AlreadyDone, Fenced
  <1>6. Sound(mem) /\ ~writeErr /\ mem = disk
    BY <1>5 DEF IInv, MemIsDisk, Update, Commits, CommitFails, Writable
  <1> HIDE DEF op, r
  <1>7. f \notin Pending(disk)
    BY <1>2, <1>3, <1>5, <1>6, KeyFree
  <1>8. \A q \in Requested : sent[f][q] = 0
    BY <1>1, <1>5, <1>6, <1>7 DEF MInv, Fresh
  <1>9. f \in Pending(next) /\ next.operations[f] = op
    BY <1>1, <1>3, <1>6, BegunEntry, MediaAssumption
  <1>10. AfterSave(w, "delete", job[w]) /\ UNCHANGED sent
    BY DEF BeginOperation, historyVars
  <1> HIDE DEF next
  <1>11. StageOK("delete", f, next, next, sent)
    BY <1>3, <1>8, <1>9 DEF StageOK, Asking
  <1> QED
    BY <1>1, <1>5, <1>10, <1>11, SavedStage

\* The saves of an operation under way.
LEMMA RecordStage ==
    ASSUME MInv, IInv, NEW w \in Workers,
           RecordDeleted(w) \/ RecordOrigin(w) \/ RecordFailed(w) \/ RecordSearch(w)
    PROVE  StageInv'
  <1> DEFINE f == job[w].file
  <1>1. pc[w] \in Locked /\ UNCHANGED sent
    BY DEF RecordDeleted, RecordOrigin, RecordFailed, RecordSearch, Locked, Saves, historyVars
  <1>2. Sound(mem) /\ job[w].automatic \in BOOLEAN
    BY DEF IInv, MInv, Typed, Job
  <1>3. CASE RecordDeleted(w)
    <2>1. PICK stage \in {"targets", "record", "refresh"} : AfterSave(w, stage, job[w])
      BY <1>3 DEF RecordDeleted, MInv, Typed, Job
    <2>2. f \in Pending(mem) /\ Update(WithPhase(mem, f, "deleted"))
      BY <1>3 DEF RecordDeleted, Phase
    <2> DEFINE next == WithPhase(mem, f, "deleted")
    <2>3. f \in Pending(next) /\ next.operations[f].phase = "deleted"
      BY <1>2, <2>2, PhaseEntry DEF Phases
    <2>4. /\ \A r \in Requested \ {"delete"} : sent[f][r] = 0
          /\ sent[f]["delete"] > 0
      BY <1>3 DEF RecordDeleted, MInv, StageInv, StageOK, Operating, Left, Asking, Announces
    <2> HIDE DEF next
    <2>5. StageOK(stage, f, next, next, sent)
      BY <2>1, <2>3, <2>4 DEF StageOK, Left, Announces
    <2> QED
      BY <1>1, <2>1, <2>2, <2>5, SavedStage DEF next
  <1>4. CASE RecordOrigin(w)
    <2>1. PICK stage \in {"reread", "fail"} : AfterSave(w, stage, job[w])
      BY <1>4 DEF RecordOrigin
    <2> DEFINE next == WithOrigin(mem, f, job[w].automatic)
    <2>2. f \in Pending(mem) /\ Update(next)
      BY <1>4 DEF RecordOrigin, OriginRequested
    <2>3. f \in Pending(next) /\ next.operations[f].phase = "origin-requested"
      BY <1>2, <2>2, OriginEntry
    <2>4. \A r \in Requested \ {"delete"} : sent[f][r] = 0
      BY <1>4 DEF RecordOrigin, MInv, StageInv, StageOK, Operating, Left
    <2> HIDE DEF next
    <2>5. StageOK(stage, f, next, next, sent)
      BY <2>1, <2>3, <2>4 DEF StageOK, Left, Asking
    <2> QED
      BY <1>1, <2>1, <2>2, <2>5, SavedStage
  <1>5. CASE RecordFailed(w)
    <2>1. PICK stage \in {"targets", "finish"} : AfterSave(w, stage, job[w])
      BY <1>5 DEF RecordFailed
    <2> DEFINE next == WithPhase(mem, f, "origin-complete")
    <2>2. f \in Pending(mem) /\ Update(next)
      BY <1>5 DEF RecordFailed, Phase
    <2>3. f \in Pending(next) /\ next.operations[f].phase = "origin-complete"
      BY <1>2, <2>2, PhaseEntry DEF Phases
    <2>4. /\ \A r \in Requested \ {"delete", "fail"} : sent[f][r] = 0
          /\ sent[f]["fail"] > 0
      BY <1>5 DEF RecordFailed, MInv, StageInv, StageOK, Operating, Left, Asking, Announces
    <2> HIDE DEF next
    <2>5. StageOK(stage, f, next, next, sent)
      BY <2>1, <2>3, <2>4 DEF StageOK, Left, Announces
    <2> QED
      BY <1>1, <2>1, <2>2, <2>5, SavedStage
  <1>6. CASE RecordSearch(w)
    <2> DEFINE next == WithPhase(mem, f, "search-requested")
    <2>1. AfterSave(w, "send", job[w]) /\ f \in Pending(mem) /\ Update(next)
      BY <1>6 DEF RecordSearch, SearchRequested
    <2>2. f \in Pending(next) /\ next.operations[f].phase = "search-requested"
      BY <1>2, <2>1, PhaseEntry DEF Phases
    <2>3. \A r \in Requested \ {"delete", "fail"} : sent[f][r] = 0
      BY <1>6 DEF RecordSearch, MInv, StageInv, StageOK, Operating, Left
    <2> HIDE DEF next
    <2>4. StageOK("send", f, next, next, sent)
      BY <2>2, <2>3 DEF StageOK, Left, Asking
    <2> QED
      BY <1>1, <2>1, <2>4, SavedStage
  <1> QED
    BY <1>3, <1>4, <1>5, <1>6

\* The reads of an operation under way.
LEMMA RereadStage ==
    ASSUME MInv, NEW w \in Workers, RefreshPolicy(w) \/ RereadQueue(w) \/ ReadTargets(w)
    PROVE  StageInv'
  <1>1. pc[w] \in Locked /\ pc[w] \in Operating /\ UNCHANGED <<mem, disk, sent>>
    BY DEF RefreshPolicy, RereadQueue, ReadTargets, Locked, Reads, Operating, storeVars, vars,
           durableVars, historyVars
  <1>2. job[w] \in Job /\ StageOK(pc[w], job[w].file, disk, mem, sent)
    BY <1>1 DEF MInv, Typed, StageInv
  <1>3. CASE RefreshPolicy(w)
    <2> DEFINE locals == [job[w] EXCEPT !.automatic = auto]
    <2>1. locals.file = job[w].file /\ Goto(w, "record", locals) /\ pc[w] = "refresh"
      BY <1>2, <1>3 DEF RefreshPolicy, Job
    <2> HIDE DEF locals
    <2>2. StageOK("record", locals.file, disk, mem, sent)
      BY <1>2, <2>1 DEF StageOK, Left, Asking
    <2> QED
      BY <1>1, <2>1, <2>2, ReadStage
  <1>4. CASE RereadQueue(w)
    <2>1. StageOK("fail", job[w].file, disk, mem, sent)
      BY <1>2, <1>4 DEF RereadQueue, StageOK, Left, Asking
    <2>2. Goto(w, "fail", job[w]) \/ Leave(w)
      BY <1>4 DEF RereadQueue
    <2> QED
      BY <1>1, <2>1, <2>2, ReadStage, LeftStage
  <1>5. CASE ReadTargets(w)
    <2> DEFINE locals == [job[w] EXCEPT !.ids = {e \in job[w].ids : holder[e] = NoFile}]
    <2>1. locals.file = job[w].file /\ pc[w] = "targets"
      BY <1>2, <1>5 DEF ReadTargets, Job
    <2>2. Goto(w, "finish", job[w]) \/ Goto(w, "search", locals)
      BY <1>5 DEF ReadTargets
    <2> HIDE DEF locals
    <2>3. /\ StageOK("search", locals.file, disk, mem, sent)
          /\ StageOK("finish", job[w].file, disk, mem, sent)
      BY <1>2, <2>1 DEF StageOK, Left, Asking
    <2> QED
      BY <1>1, <2>2, <2>3, ReadStage
  <1> QED
    BY <1>3, <1>4, <1>5

\* The requests of an operation.
LEMMA RequestStage ==
    ASSUME MInv, NEW w \in Workers, DeleteFile(w) \/ FailOrigin(w) \/ SendSearch(w)
    PROVE  StageInv'
  <1> DEFINE f == job[w].file
  <1>1. pc[w] \in Locked /\ pc[w] \in Operating /\ UNCHANGED <<mem, disk>>
    BY DEF DeleteFile, FailOrigin, SendSearch, Locked, Sends, Operating, storeVars, vars,
           durableVars
  <1>2. f \in Files /\ StageOK(pc[w], f, disk, mem, sent) /\ Typed
    BY <1>1, StagesLocked DEF MInv, StageInv, Busy
  <1>3. CASE DeleteFile(w)
    <2>1. PICK acked \in BOOLEAN : AfterSend(w, acked, "deleted")
      BY <1>3 DEF DeleteFile
    <2>2. \A q \in Requested : sent'[f][q] = IF q = "delete" THEN sent[f][q] + 1 ELSE sent[f][q]
      BY <1>2, <1>3, SendType DEF DeleteFile, Requested
    <2>3. StageOK("deleted", f, disk, mem, sent')
      BY <1>2, <1>3, <2>2 DEF DeleteFile, StageOK, Left, Announces, Requested, Typed
    <2> QED
      BY <1>1, <2>1, <2>3, SentStage
  <1>4. CASE FailOrigin(w)
    <2>1. PICK acked \in BOOLEAN : AfterSend(w, acked, "failed")
      BY <1>4 DEF FailOrigin
    <2>2. \A q \in Requested : sent'[f][q] = IF q = "fail" THEN sent[f][q] + 1 ELSE sent[f][q]
      BY <1>2, <1>4, SendType DEF FailOrigin, Requested
    <2>3. StageOK("failed", f, disk, mem, sent')
      BY <1>2, <1>4, <2>2 DEF FailOrigin, StageOK, Left, Announces, Requested, Typed
    <2> QED
      BY <1>1, <2>1, <2>3, SentStage
  <1>5. CASE SendSearch(w)
    <2>1. PICK acked \in BOOLEAN : AfterSend(w, acked, "finish")
      BY <1>5 DEF SendSearch
    <2>2. \A q \in Requested : sent'[f][q] = IF q = "search" THEN sent[f][q] + 1 ELSE sent[f][q]
      BY <1>2, <1>5, SendType DEF SendSearch, Requested
    <2>3. StageOK("finish", f, disk, mem, sent')
      BY <1>2, <1>5, <2>2 DEF SendSearch, StageOK, Left, Announces, Requested, Typed
    <2> QED
      BY <1>1, <2>1, <2>3, SentStage
  <1> QED
    BY <1>3, <1>4, <1>5

LEMMA StageNext ==
    ASSUME MInv, IInv, [MediaNext]_mediaVars
    PROVE  StageInv'
  <1>1. ASSUME NEW w \in Workers, pc[w] \in Locked,
               NEW stage, NEW locals, Moves(w, stage, locals), stage \notin Operating
        PROVE  StageInv'
    BY <1>1, StageMoved
  <1>2. ASSUME NEW w \in Workers,
               Check(w) \/ ResetOne(w) \/ ResetDone(w) \/ FindOrigin(w) \/ PrepareOrigin(w)
               \/ Recheck(w) \/ Remap(w) \/ NotBegun(w) \/ Finish(w)
        PROVE  StageInv'
    <2>1. pc[w] \in Locked
      BY <1>2 DEF Check, ResetOne, ResetDone, FindOrigin, PrepareOrigin, Recheck, Remap, NotBegun,
            Finish, Locked, Reads, Saves
    <2>2. \E stage, locals : Moves(w, stage, locals) /\ stage \notin Operating
      BY <1>2 DEF Check, ResetOne, ResetDone, FindOrigin, PrepareOrigin, Recheck, Remap, NotBegun,
            Finish, AfterSave, Leave, Goto, Moves, Operating
    <2> QED
      BY <1>1, <2>1, <2>2
  <1>3. ASSUME NEW w \in Workers, Abort(w) \/ Refused(w) PROVE StageInv'
    <2>1. Moves(w, "idle", NoJob) /\ "idle" \notin Operating /\ UNCHANGED <<mem, disk, sent>>
      BY <1>3 DEF Abort, Refused, Leave, Moves, Operating, storeVars, vars, durableVars, historyVars
    <2>2. CASE pc[w] = "probed"
      BY <2>1, <2>2, StageOther DEF Operating
    <2>3. CASE pc[w] # "probed"
      BY <1>1, <1>3, <2>1, <2>3, StagesLocked DEF Abort, Refused
    <2> QED
      BY <2>2, <2>3
  <1>4. ASSUME NEW w \in Workers, Enter(w) \/ \E f \in Files : Probe(w, f) PROVE StageInv'
    <2>1. UNCHANGED <<mem, disk, sent>> /\ pc[w] \notin Operating
      BY <1>4 DEF Enter, Probe, storeVars, vars, durableVars, historyVars, Operating
    <2>2. CASE Enter(w)
      <3>1. Moves(w, "checking", job[w]) /\ "checking" \notin Operating
        BY <2>2 DEF Enter, Moves, MInv, Typed, Operating
      <3> QED
        BY <2>1, <3>1, StageOther
    <2>3. CASE \E f \in Files : Probe(w, f)
      <3>1. \E locals : Moves(w, "probed", locals)
        BY <2>3 DEF Probe, Goto, Moves
      <3>2. "probed" \notin Operating
        BY DEF Operating
      <3> QED
        BY <2>1, <3>1, <3>2, StageOther
    <2> QED
      BY <1>4, <2>2, <2>3
  <1>5. ASSUME NEW w \in Workers, Step(w) PROVE StageInv'
    BY <1>2, <1>3, <1>4, <1>5, BeginsFresh, RecordStage, RereadStage, RequestStage
       DEF Step, Progress
  <1>6. CASE UNCHANGED <<pc, job, sent, mem, disk>>
    BY <1>6 DEF MInv, StageInv
  <1>7. CASE SaveOther
    <2>1. UNCHANGED <<pc, job, sent>> /\ Update(mem)
      BY <1>7 DEF SaveOther, SaveWebhooks, guardVars, historyVars
    <2>2. mem = disk
      BY <2>1 DEF IInv, MemIsDisk, Update, Commits, CommitFails, Writable
    <2>3. mem' = mem /\ disk' = disk
      BY <2>1, <2>2 DEF Update, Commits, CommitFails
    <2> QED
      BY <1>6, <2>1, <2>3
  <1>8. CASE Surroundings /\ ~SaveOther
    BY <1>6, <1>8 DEF Surroundings, Edit, Remove, Import, MoveOrigin, SetPolicy, storeVars, vars,
          durableVars, guardVars, historyVars
  <1>9. CASE Die \/ Restart
    <2>1. \A w \in Workers : pc'[w] = "idle"
      BY <1>9 DEF Die, Restart, Start, Starts, StartFails, guardVars, MInv, Busy
    <2> QED
      BY <2>1 DEF StageInv, Operating
  <1>10. CASE UNCHANGED mediaVars
    BY <1>6, <1>10 DEF mediaVars, storeVars, vars, durableVars, guardVars, historyVars
  <1> QED
    BY <1>5, <1>7, <1>8, <1>9, <1>10 DEF MediaNext

-----------------------------------------------------------------------------
(* Requests and the journal. *)

\* A request leaves from the stage of an operation that announces it, and for
\* the first time.
LEMMA SentOnce ==
    ASSUME MInv, [MediaNext]_mediaVars, NEW f \in Files, NEW r \in Requested,
           sent'[f][r] # sent[f][r]
    PROVE  sent[f][r] = 0 /\ sent'[f][r] = 1 /\ Journalled(f, r)
  <1>1. UNCHANGED sent \/ \E w \in Workers : Step(w)
    BY OthersIdle DEF MediaNext, Die, historyVars
  <1>2. PICK w \in Workers : Step(w)
    BY <1>1
  <1>3. PICK q \in Requested :
           /\ Send(job[w].file, q)
           /\ pc[w] = CASE q = "delete" -> "delete"
                        [] q = "fail"   -> "fail"
                        [] q = "search" -> "send"
    BY <1>2, StepSends DEF MInv
  <1>4. pc[w] \in Operating /\ pc[w] # "idle"
    BY <1>3 DEF Operating, Requested
  <1>5. job[w].file \in Files /\ StageOK(pc[w], job[w].file, disk, mem, sent)
    BY <1>4 DEF MInv, Busy, StageInv
  <1>6. f = job[w].file /\ r = q /\ sent'[f][r] = sent[f][r] + 1
    BY <1>3, <1>5, SendType DEF MInv
  <1>7. sent[f][r] = 0
    BY <1>3, <1>5, <1>6 DEF StageOK, Left, Requested
  <1>8. Journalled(f, r)
    BY <1>3, <1>5, <1>6 DEF Journalled, StageOK, Requested
  <1> QED
    BY <1>6, <1>7, <1>8

LEMMA FreshNext ==
    ASSUME MInv, IInv, [MediaNext]_mediaVars
    PROVE  Fresh'
  <1> SUFFICES ASSUME NEW f \in Files, f \notin Pending(disk'), f \notin disk'.completed,
                      NEW r \in Requested
               PROVE  sent'[f][r] = 0
    BY DEF Fresh, Pending
  <1>1. [Next]_vars
    BY StoreStep DEF MInv
  <1>2. f \notin Pending(disk) /\ f \notin disk.completed
    BY <1>1, TraceKept
  <1>3. sent[f][r] = 0
    BY <1>2 DEF MInv, Fresh
  <1> QED
    BY <1>2, <1>3, SentOnce DEF Journalled

LEMMA MInvInit == MediaInit => MInv
  <1> SUFFICES ASSUME MediaInit PROVE MInv
    OBVIOUS
  <1>1. Typed
    BY TypedInit
  <1>2. \A w \in Workers : pc[w] = "idle"
    BY DEF MediaInit
  <1>3. \A f \in Files, r \in Requested : sent[f][r] = 0
    BY DEF MediaInit
  <1> QED
    BY <1>1, <1>2, <1>3, StagesLocked
       DEF MInv, Busy, Exclusive, StageInv, Operating, Fresh, OnceOnly

LEMMA MInvNext ==
    ASSUME MInv, IInv, [MediaNext]_mediaVars
    PROVE  MInv'
  <1>1. Typed' /\ Busy' /\ Exclusive'
    BY TypedNext, BusyNext, ExclusiveNext DEF MInv
  <1>2. StageInv' /\ Fresh'
    BY StageNext, FreshNext
  <1>3. OnceOnly'
    BY SentOnce DEF MInv, OnceOnly
  <1> QED
    BY <1>1, <1>2, <1>3 DEF MInv

LEMMA MediaInvariance == MediaSpec => [](MInv /\ IInv)
  <1>1. MediaInit => MInv /\ IInv
    BY MInvInit, InitInv DEF MediaInit
  <1>2. MInv /\ IInv /\ [MediaNext]_mediaVars => (MInv /\ IInv)'
    <2> SUFFICES ASSUME MInv, IInv, [MediaNext]_mediaVars PROVE MInv' /\ IInv'
      OBVIOUS
    <2>1. [Next]_vars
      BY StoreStep DEF MInv
    <2> QED
      BY <2>1, MInvNext, NextInv
  <1> QED
    BY <1>1, <1>2, PTL DEF MediaSpec

-----------------------------------------------------------------------------
(* The retry budget. *)

\* From the check of the counters to the saved Begin, each episode has an
\* attempt left; from then to the deletion each is charged once more than it
\* lost a file.
Judging == {"origin", "prepare", "recheck", "remap", "begin"}

Paid(stage, ids, n, m, d) ==
    /\ stage \in Judging => \A e \in ids : m.attempts[e] < MaxAttempts
    /\ stage = "delete" =>
          \A e \in ids : n[e] < m.attempts[e] /\ n[e] < d.attempts[e] /\ n[e] < MaxAttempts

Charged(s, n) == \A e \in Episodes : n[e] <= s.attempts[e]

BudgetInv ==
    /\ spent \in [Episodes -> Nat]
    /\ Charged(mem, spent) /\ Charged(disk, spent)
    /\ WithinBudget
    /\ \A w \in Workers : Paid(pc[w], job[w].ids, spent, mem, disk)

LEMMA CountersType ==
    ASSUME NEW s, Sound(s)
    PROVE  /\ Episodes \subseteq RetryKeys /\ MaxInt \in Nat
           /\ s.attempts \in [RetryKeys -> 0 .. MaxInt]
           /\ \A e \in Episodes : s.attempts[e] \in Nat /\ s.attempts[e] <= MaxInt
  BY StoreAssumption DEF Sound, State, Episodes

\* Only what a step changes need be looked at.
LEMMA BudgetMoved ==
    ASSUME MInv, BudgetInv, NEW w \in Workers,
           \A v \in Workers : v # w => pc'[v] = pc[v] /\ job'[v] = job[v],
           spent' = spent, mem'.attempts = mem.attempts, disk'.attempts = disk.attempts,
           Paid(pc'[w], job'[w].ids, spent, mem, disk)
    PROVE  BudgetInv'
  <1>1. \A v \in Workers : Paid(pc'[v], job'[v].ids, spent, mem, disk)
    BY DEF BudgetInv
  <1> QED
    BY <1>1 DEF BudgetInv, Charged, WithinBudget, Paid

\* A step of the worker that holds the lock: nobody else is between the check
\* and the deletion.
LEMMA BudgetAlone ==
    ASSUME MInv, NEW w \in Workers, pc[w] \in Locked,
           NEW stage, NEW locals, Moves(w, stage, locals),
           spent' \in [Episodes -> Nat], Charged(mem', spent'), Charged(disk', spent'),
           WithinBudget', Paid(stage, locals.ids, spent', mem', disk')
    PROVE  BudgetInv'
  <1> SUFFICES ASSUME NEW v \in Workers
               PROVE  Paid(pc'[v], job'[v].ids, spent', mem', disk')
    BY DEF BudgetInv
  <1>1. CASE v = w
    BY <1>1 DEF Moves, MInv, Typed
  <1>2. CASE v # w
    <2>1. pc'[v] = pc[v] /\ pc[v] \notin Locked
      BY <1>2, Alone DEF Moves, MInv, Typed
    <2>2. pc'[v] \notin Judging /\ pc'[v] # "delete"
      BY <2>1 DEF Judging, Locked, Reads, Sends, Saves
    <2> QED
      BY <2>2 DEF Paid
  <1> QED
    BY <1>1, <1>2

\* The counters are left alone by a step that saves nothing, and by a save of
\* something else.
LEMMA SameAttempts ==
    ASSUME IInv, NEW next, Update(next), next.attempts = mem.attempts
    PROVE  mem'.attempts = mem.attempts /\ disk'.attempts = disk.attempts
  BY DEF IInv, MemIsDisk, Update, Commits, CommitFails, Writable

\* The saves of an operation under way change no counter and leave for a stage
\* past the deletion.
LEMMA RecordBudget ==
    ASSUME MInv, IInv, BudgetInv, NEW w \in Workers,
           \/ RecordDeleted(w) \/ RecordOrigin(w) \/ RecordFailed(w) \/ RecordSearch(w)
           \/ Finish(w)
    PROVE  BudgetInv'
  <1>0. mem \in State
    BY DEF IInv, Sound
  <1>1. \E next : Update(next) /\ next.attempts = mem.attempts
    BY <1>0, SameCounters
       DEF RecordDeleted, RecordOrigin, RecordFailed, RecordSearch, Finish, Phase,
           OriginRequested, SearchRequested, Complete
  <1>2. mem'.attempts = mem.attempts /\ disk'.attempts = disk.attempts
    BY <1>1, SameAttempts
  <1>3. spent' = spent
    BY DEF RecordDeleted, RecordOrigin, RecordFailed, RecordSearch, Finish, historyVars
  <1>4. \E stage, locals : Moves(w, stage, locals) /\ stage \notin Judging /\ stage # "delete"
    <2>1. job[w].via \in {"none", "queue", "history"}
      BY DEF MInv, Typed, Job
    <2>2. Leave(w) \/ \E stage \in {"targets", "record", "refresh", "reread", "fail", "finish",
                                    "send"} : AfterSave(w, stage, job[w])
      BY <2>1 DEF RecordDeleted, RecordOrigin, RecordFailed, RecordSearch, Finish
    <2>3. \A stage \in {"idle", "targets", "record", "refresh", "reread", "fail", "finish",
                        "send"} :
              stage \notin Judging /\ stage # "delete"
      BY DEF Judging
    <2> QED
      BY <2>2, <2>3 DEF AfterSave, Leave, Goto, Moves
  <1>5. PICK stage, locals : Moves(w, stage, locals) /\ stage \notin Judging /\ stage # "delete"
    BY <1>4
  <1>6. /\ pc'[w] = stage
        /\ \A v \in Workers : v # w => pc'[v] = pc[v] /\ job'[v] = job[v]
    BY <1>5 DEF Moves, MInv, Typed
  <1>7. Paid(pc'[w], job'[w].ids, spent, mem, disk)
    BY <1>5, <1>6 DEF Paid
  <1> QED
    BY <1>2, <1>3, <1>6, <1>7, BudgetMoved

\* The loop that clears the counters of a valid file.
LEMMA ResetBudget ==
    ASSUME MInv, IInv, BudgetInv, NEW w \in Workers, ResetOne(w)
    PROVE  BudgetInv'
  <1>1. PICK e \in job[w].ids :
          LET rest == [job[w] EXCEPT !.ids = @ \ {e}]
          IN  \/ /\ mem.attempts[e] = 0 /\ Goto(w, "resetting", rest)
                 /\ UNCHANGED <<storeVars, spent>>
              \/ /\ Reset(e) /\ AfterSave(w, "resetting", rest)
                 /\ spent' = [spent EXCEPT ![e] = 0]
    BY DEF ResetOne
  <1> DEFINE rest == [job[w] EXCEPT !.ids = @ \ {e}]
  <1>2. /\ pc[w] = "resetting" /\ pc[w] \in Locked /\ job[w].ids \subseteq Episodes
        /\ "resetting" \notin Judging /\ "idle" \notin Judging
    BY DEF ResetOne, Locked, Saves, Judging, MInv, Typed, Job
  <1>3. CASE Goto(w, "resetting", rest) /\ UNCHANGED <<storeVars, spent>>
    <2>1. /\ pc'[w] = "resetting"
          /\ \A v \in Workers : v # w => pc'[v] = pc[v] /\ job'[v] = job[v]
      BY <1>3 DEF Goto, MInv, Typed
    <2>2. mem'.attempts = mem.attempts /\ disk'.attempts = disk.attempts /\ spent' = spent
      BY <1>3 DEF storeVars, vars, durableVars
    <2>3. Paid(pc'[w], job'[w].ids, spent, mem, disk)
      BY <1>2, <2>1 DEF Paid
    <2> QED
      BY <2>1, <2>2, <2>3, BudgetMoved
  <1>4. CASE /\ Reset(e) /\ AfterSave(w, "resetting", rest)
             /\ spent' = [spent EXCEPT ![e] = 0]
    <2> DEFINE next == WithAttempts(mem, {e}, 0)
    <2>1. mem = disk /\ mem' \in {mem, next} /\ disk' \in {mem, next}
      BY <1>4 DEF Reset, IInv, MemIsDisk, Update, Commits, CommitFails, Writable
    <2>2. /\ Episodes \subseteq RetryKeys /\ mem \in State
          /\ \A x \in Episodes : mem.attempts[x] \in Nat
      BY CountersType DEF IInv, Sound
    <2>3. next.attempts = [x \in RetryKeys |-> IF x = e THEN 0 ELSE mem.attempts[x]]
      BY <2>2 DEF WithAttempts, State
    <2> HIDE DEF next
    <2>4. /\ spent' \in [Episodes -> Nat]
          /\ \A x \in Episodes : spent'[x] = IF x = e THEN 0 ELSE spent[x]
      BY <1>4 DEF BudgetInv
    <2>5. Charged(mem, spent') /\ Charged(next, spent')
      BY <2>2, <2>3, <2>4 DEF BudgetInv, Charged
    <2>6. Charged(mem', spent') /\ Charged(disk', spent')
      BY <2>1, <2>5
    <2>7. WithinBudget'
      BY <2>4, MediaAssumption DEF BudgetInv, WithinBudget
    <2>8. PICK stage \in {"resetting", "idle"} : \E locals : Moves(w, stage, locals)
      BY <1>4 DEF AfterSave, Leave, Goto, Moves
    <2>9. \A ids : Paid(stage, ids, spent', mem', disk')
      BY <1>2, <2>8 DEF Paid
    <2> QED
      BY <1>2, <2>4, <2>6, <2>7, <2>8, <2>9, BudgetAlone
  <1> QED
    BY <1>1, <1>3, <1>4

\* Begin charges each episode of the file in the same save that opens the
\* operation; the cap keeps the charge below saturation.
LEMMA BeginBudget ==
    ASSUME MInv, IInv, BudgetInv, MaxAttempts <= MaxInt, NEW w \in Workers, BeginOperation(w)
    PROVE  BudgetInv'
  <1> DEFINE ids == job[w].ids
             r == RequestFor(job[w].file, job[w].download)
             op == NewOperation(r, "delete-requested", job[w].automatic, "none")
  <1>1. PICK attempt \in 0 .. MaxInt :
           Begin(r, "delete-requested", job[w].automatic, "none", ids, attempt)
    BY DEF BeginOperation
  <1> DEFINE next == Begun(mem, r.key, op, ids, attempt)
  <1>2. /\ pc[w] = "begin" /\ pc[w] \in Locked /\ ids \subseteq Episodes
        /\ AfterSave(w, "delete", job[w]) /\ spent' = spent
    BY DEF BeginOperation, Locked, Saves, MInv, Typed, Job, historyVars
  <1>3. /\ Update(next) /\ IsNextAttempt(mem, ids, attempt)
    BY <1>1 DEF Begin
  <1>4. mem = disk /\ mem' \in {mem, next} /\ disk' \in {mem, next}
    BY <1>3 DEF IInv, MemIsDisk, Update, Commits, CommitFails, Writable
  <1>5. ~writeErr' => mem' = next /\ disk' = next
    BY <1>3 DEF Update, Commits, CommitFails
  <1>6. /\ Episodes \subseteq RetryKeys /\ mem \in State /\ MaxInt \in Nat
        /\ \A e \in Episodes : mem.attempts[e] \in Nat /\ mem.attempts[e] <= MaxInt
    BY CountersType DEF IInv, Sound
  <1>7. next.attempts = [x \in RetryKeys |-> IF x \in ids THEN attempt ELSE mem.attempts[x]]
    BY <1>6 DEF Begun, WithOperation, WithAttempts, State
  <1> HIDE DEF next, op, r
  <1>8. \A e \in ids : mem.attempts[e] < MaxAttempts
    BY <1>2 DEF BudgetInv, Paid, Judging
  <1>9. \A e \in ids : mem.attempts[e] < attempt
    <2>1. PICK top \in {0} \cup {mem.attempts[k] : k \in ids} :
             /\ \A k \in ids : mem.attempts[k] <= top
             /\ attempt = IF top < MaxInt THEN top + 1 ELSE top
      BY <1>3 DEF IsNextAttempt
    <2>2. top \in Nat /\ \A e \in ids : mem.attempts[e] \in Nat
      BY <1>2, <1>6
    <2>3. ASSUME NEW e \in ids PROVE mem.attempts[e] < attempt
      <3>1. top < MaxInt
        <4>1. CASE top = 0
          <5>1. mem.attempts[e] \in Nat /\ mem.attempts[e] < MaxAttempts /\ MaxAttempts \in Nat
            BY <1>8, <2>2, MediaAssumption
          <5> QED
            BY <1>6, <4>1, <5>1
        <4>2. CASE \E k \in ids : top = mem.attempts[k]
          BY <1>6, <1>8, <2>2, <4>2, MediaAssumption
        <4> QED
          BY <4>1, <4>2
      <3> QED
        BY <1>6, <2>1, <2>2, <3>1
    <2> QED
      BY <2>3
  <1>10. attempt \in Nat
    BY <1>6
  <1>11. \A e \in Episodes : spent[e] \in Nat /\ spent[e] <= mem.attempts[e]
    BY DEF BudgetInv, Charged
  <1>12. Charged(mem, spent) /\ Charged(next, spent)
    BY <1>6, <1>7, <1>9, <1>10, <1>11 DEF Charged
  <1>13. Charged(mem', spent') /\ Charged(disk', spent')
    BY <1>2, <1>4, <1>12
  <1>14. spent' \in [Episodes -> Nat] /\ WithinBudget'
    BY <1>2 DEF BudgetInv, WithinBudget
  <1>15. CASE writeErr'
    <2>1. Moves(w, "idle", NoJob)
      BY <1>2, <1>15 DEF AfterSave, Leave, Moves
    <2>2. Paid("idle", NoJob.ids, spent', mem', disk')
      BY DEF Paid, Judging
    <2> QED
      BY <1>2, <1>13, <1>14, <2>1, <2>2, BudgetAlone
  <1>16. CASE ~writeErr'
    <2>1. Moves(w, "delete", job[w])
      BY <1>2, <1>16 DEF AfterSave, Goto, Moves
    <2>2. ASSUME NEW e \in ids
          PROVE  spent[e] < next.attempts[e] /\ spent[e] < MaxAttempts
      <3>1. /\ spent[e] \in Nat /\ spent[e] <= mem.attempts[e] /\ mem.attempts[e] \in Nat
            /\ mem.attempts[e] < MaxAttempts /\ mem.attempts[e] < attempt
            /\ next.attempts[e] = attempt
        BY <1>2, <1>6, <1>7, <1>8, <1>9, <1>11
      <3> QED
        BY <1>10, <3>1, MediaAssumption
    <2>3. Paid("delete", job[w].ids, spent', mem', disk')
      BY <1>2, <1>5, <1>16, <2>2 DEF Paid, Judging
    <2> QED
      BY <1>2, <1>13, <1>14, <2>1, <2>3, BudgetAlone
  <1> QED
    BY <1>15, <1>16

\* The deletion spends what Begin has charged.
LEMMA DeleteBudget ==
    ASSUME MInv, IInv, BudgetInv, NEW w \in Workers, DeleteFile(w)
    PROVE  BudgetInv'
  <1>1. /\ pc[w] = "delete" /\ pc[w] \in Locked /\ job[w].ids \subseteq Episodes
        /\ spent' = [e \in Episodes |-> IF e \in job[w].ids THEN spent[e] + 1 ELSE spent[e]]
        /\ mem' = mem /\ disk' = disk
    BY DEF DeleteFile, Locked, Sends, MInv, Typed, Job, storeVars, vars, durableVars
  <1>2. /\ \A e \in Episodes : mem.attempts[e] \in Nat /\ disk.attempts[e] \in Nat
        /\ MaxAttempts \in Nat
    BY CountersType, MediaAssumption DEF IInv
  <1>3. \A e \in Episodes : spent[e] \in Nat
    BY DEF BudgetInv
  <1>4. \A e \in job[w].ids :
            spent[e] < mem.attempts[e] /\ spent[e] < disk.attempts[e] /\ spent[e] < MaxAttempts
    BY <1>1 DEF BudgetInv, Paid
  <1>5. spent' \in [Episodes -> Nat]
    BY <1>1, <1>3
  <1>6. Charged(mem', spent') /\ Charged(disk', spent')
    BY <1>1, <1>2, <1>3, <1>4 DEF BudgetInv, Charged
  <1>7. WithinBudget'
    BY <1>1, <1>2, <1>3, <1>4 DEF BudgetInv, WithinBudget
  <1>8. PICK stage \in {"deleted", "idle"} : \E locals : Moves(w, stage, locals)
    BY DEF DeleteFile, AfterSend, Leave, Goto, Moves
  <1>9. \A ids : Paid(stage, ids, spent', mem', disk')
    BY <1>8 DEF Paid, Judging
  <1> QED
    BY <1>1, <1>5, <1>6, <1>7, <1>8, <1>9, BudgetAlone

\* The steps of the preflight: the check lets only episodes with an attempt
\* left through, and what follows works on the same ones.
LEMMA JudgeBudget ==
    ASSUME MInv, IInv, BudgetInv, NEW w \in Workers,
           Check(w) \/ FindOrigin(w) \/ PrepareOrigin(w) \/ Recheck(w) \/ Remap(w)
    PROVE  BudgetInv'
  <1>1. UNCHANGED <<storeVars, spent>>
    BY DEF Check, FindOrigin, PrepareOrigin, Recheck, Remap, historyVars
  <1>2. mem'.attempts = mem.attempts /\ disk'.attempts = disk.attempts /\ spent' = spent
    BY <1>1 DEF storeVars, vars, durableVars
  <1>3. \E stage, locals :
            /\ Moves(w, stage, locals)
            /\ stage # "delete"
            /\ stage \in Judging => \A e \in locals.ids : mem.attempts[e] < MaxAttempts
    <2>1. ASSUME Leave(w) PROVE <1>3!:
      <3>1. Moves(w, "idle", NoJob) /\ "idle" \notin Judging
        BY <2>1 DEF Leave, Moves, Judging
      <3> QED
        BY <3>1
    <2>2. CASE Check(w)
      <3> DEFINE ids == Assigned(job[w].file)
                 locals == [job[w] EXCEPT !.ids = ids]
      <3>1. locals.ids = ids /\ ids \subseteq Episodes
        BY DEF MInv, Typed, Job, Assigned
      <3>2. CASE Goto(w, "resetting", locals)
        <4>1. Moves(w, "resetting", locals) /\ "resetting" \notin Judging
          BY <3>2 DEF Goto, Moves, Judging
        <4> HIDE DEF locals
        <4> QED
          BY <4>1
      <3>3. CASE Goto(w, "origin", locals) /\ ~Exhausted(ids)
        <4>1. \A e \in ids : mem.attempts[e] \in Nat /\ ~(mem.attempts[e] >= MaxAttempts)
          BY <3>1, <3>3, CountersType DEF Exhausted, IInv
        <4>2. \A e \in locals.ids : mem.attempts[e] < MaxAttempts
          BY <3>1, <4>1, MediaAssumption
        <4> HIDE DEF locals
        <4> QED
          BY <3>3, <4>2 DEF Goto, Moves
      <3> QED
        BY <2>1, <2>2, <3>2, <3>3 DEF Check
    <2>3. CASE FindOrigin(w) \/ PrepareOrigin(w) \/ Recheck(w) \/ Remap(w)
      <3>1. \A e \in job[w].ids : mem.attempts[e] < MaxAttempts
        BY <2>3 DEF FindOrigin, PrepareOrigin, Recheck, Remap, Judging, BudgetInv, Paid
      <3>2. Leave(w) \/ \E stage, locals :
                /\ Goto(w, stage, locals) /\ locals.ids = job[w].ids /\ stage # "delete"
        <4>1. job[w] \in Job
          BY DEF MInv, Typed
        <4>2. /\ \A d : [job[w] EXCEPT !.download = d].ids = job[w].ids
              /\ [job[w] EXCEPT !.via = "queue"].ids = job[w].ids
              /\ [job[w] EXCEPT !.via = "history", !.automatic = auto].ids = job[w].ids
          BY <4>1 DEF Job
        <4> QED
          BY <2>3, <4>2 DEF FindOrigin, PrepareOrigin, Recheck, Remap
      <3> QED
        BY <2>1, <3>1, <3>2 DEF Goto, Moves
    <2> QED
      BY <2>2, <2>3
  <1>4. PICK stage, locals :
            /\ Moves(w, stage, locals)
            /\ stage # "delete"
            /\ stage \in Judging => \A e \in locals.ids : mem.attempts[e] < MaxAttempts
    BY <1>3
  <1>5. /\ pc'[w] = stage /\ job'[w] = locals
        /\ \A v \in Workers : v # w => pc'[v] = pc[v] /\ job'[v] = job[v]
    BY <1>4 DEF Moves, MInv, Typed
  <1>6. Paid(pc'[w], job'[w].ids, spent, mem, disk)
    BY <1>4, <1>5 DEF Paid
  <1> QED
    BY <1>2, <1>5, <1>6, BudgetMoved

\* Steps that concern no counter and end in a stage past the deletion or before
\* the check.
LEMMA OtherBudget ==
    ASSUME MInv, IInv, BudgetInv, NEW w \in Workers,
           \/ \E f \in Files : Probe(w, f)
           \/ Enter(w) \/ ResetDone(w) \/ NotBegun(w) \/ RefreshPolicy(w) \/ RereadQueue(w)
           \/ FailOrigin(w) \/ ReadTargets(w) \/ SendSearch(w) \/ Refused(w) \/ Abort(w)
    PROVE  BudgetInv'
  <1>1. UNCHANGED <<storeVars, spent>>
    BY DEF Probe, Enter, ResetDone, NotBegun, RefreshPolicy, RereadQueue, FailOrigin, ReadTargets,
           SendSearch, Refused, Abort, historyVars
  <1>2. mem'.attempts = mem.attempts /\ disk'.attempts = disk.attempts /\ spent' = spent
    BY <1>1 DEF storeVars, vars, durableVars
  <1>3. \E stage \in {"idle", "probed", "checking", "record", "fail", "failed", "finish",
                     "search"} : \E locals : Moves(w, stage, locals)
    <2>1. CASE Enter(w)
      <3>1. Moves(w, "checking", job[w])
        BY <2>1 DEF Enter, Moves, MInv, Typed
      <3> QED
        BY <3>1
    <2>2. CASE ~Enter(w)
      BY <2>2 DEF Probe, ResetDone, NotBegun, RefreshPolicy, RereadQueue, FailOrigin, ReadTargets,
             SendSearch, Refused, Abort, AfterSend, Leave, Goto, Moves
    <2> QED
      BY <2>1, <2>2
  <1>4. PICK stage \in {"idle", "probed", "checking", "record", "fail", "failed", "finish",
                        "search"} : \E locals : Moves(w, stage, locals)
    BY <1>3
  <1>5. PICK locals : Moves(w, stage, locals)
    BY <1>4
  <1>6. /\ pc'[w] = stage
        /\ \A v \in Workers : v # w => pc'[v] = pc[v] /\ job'[v] = job[v]
    BY <1>5 DEF Moves, MInv, Typed
  <1>7. Paid(pc'[w], job'[w].ids, spent, mem, disk)
    BY <1>6 DEF Paid, Judging
  <1> QED
    BY <1>2, <1>6, <1>7, BudgetMoved

\* A start splits composite counters, which raises those of the episodes.
LEMMA StartBudget ==
    ASSUME MInv, IInv, BudgetInv, Restart
    PROVE  BudgetInv'
  <1>1. PICK configured \in Bindings : Start(configured)
    BY DEF Restart
  <1> DEFINE b == Bound(Migrated(disk), configured)
  <1>2. ~open /\ mem' \in {disk, b} /\ disk' \in {disk, b}
    BY <1>1 DEF Start, Starts, StartFails
  <1>3. pc' = pc /\ job' = job /\ spent' = spent
    BY DEF Restart, guardVars, historyVars
  <1>4. Sound(disk) /\ Sound(b)
    BY <1>1, BoundSound DEF IInv
  <1>5. \A e \in Episodes : disk.attempts[e] <= b.attempts[e]
    <2>1. TAKE e \in Episodes
    <2>2. e \in RetryKeys \ Legacy /\ Counters(disk.attempts)
      BY <1>4 DEF Episodes, Counters, Sound, State
    <2>3. b.attempts[e] = Budget(disk, e)
      BY <1>1, <1>4, <2>2, MigrationKeepsBudget
    <2>4. disk.attempts[e] <= Budget(disk, e)
      BY <2>2, BudgetIs DEF Protecting
    <2> QED
      BY <2>3, <2>4
  <1>6. Charged(disk, spent) /\ Charged(b, spent)
    <2>1. ASSUME NEW e \in Episodes PROVE spent[e] <= b.attempts[e]
      <3>1. /\ spent[e] \in Nat /\ spent[e] <= disk.attempts[e]
            /\ disk.attempts[e] \in Nat /\ b.attempts[e] \in Nat
            /\ disk.attempts[e] <= b.attempts[e]
        BY <1>4, <1>5, CountersType DEF BudgetInv, Charged
      <3> QED
        BY <3>1
    <2> QED
      BY <2>1 DEF BudgetInv, Charged
  <1> HIDE DEF b
  <1>7. Charged(mem', spent') /\ Charged(disk', spent')
    BY <1>2, <1>3, <1>6
  <1>8. \A w \in Workers : pc'[w] = "idle"
    BY <1>2, <1>3 DEF MInv, Busy
  <1>9. \A w \in Workers : Paid(pc'[w], job'[w].ids, spent', mem', disk')
    BY <1>8 DEF Paid, Judging
  <1> QED
    BY <1>3, <1>7, <1>9 DEF BudgetInv, WithinBudget

LEMMA BudgetNext ==
    ASSUME MInv, IInv, BudgetInv, MaxAttempts <= MaxInt, [MediaNext]_mediaVars
    PROVE  BudgetInv'
  <1>1. ASSUME NEW w \in Workers, Step(w) PROVE BudgetInv'
    BY <1>1, RecordBudget, ResetBudget, BeginBudget, DeleteBudget, JudgeBudget, OtherBudget
       DEF Step, Progress
  <1>2. ASSUME UNCHANGED <<pc, job, spent>>, mem'.attempts = mem.attempts,
               disk'.attempts = disk.attempts
        PROVE  BudgetInv'
    BY <1>2 DEF BudgetInv, Charged, WithinBudget, Paid
  <1>3. CASE SaveOther
    <2>1. Update(mem) /\ UNCHANGED <<pc, job, spent>>
      BY <1>3 DEF SaveOther, SaveWebhooks, guardVars, historyVars
    <2>2. mem'.attempts = mem.attempts /\ disk'.attempts = disk.attempts
      BY <2>1, SameAttempts
    <2> QED
      BY <1>2, <2>1, <2>2
  <1>4. CASE Surroundings /\ ~SaveOther
    BY <1>2, <1>4 DEF Surroundings, Edit, Remove, Import, MoveOrigin, SetPolicy, storeVars, vars,
          durableVars, guardVars, historyVars
  <1>5. CASE Die
    <2>1. mem' = disk /\ disk' = disk /\ spent' = spent /\ \A w \in Workers : pc'[w] = "idle"
      BY <1>5 DEF Die, Stop, Crash, historyVars
    <2>2. \A w \in Workers : Paid(pc'[w], job'[w].ids, spent', mem', disk')
      BY <2>1 DEF Paid, Judging
    <2> QED
      BY <2>1, <2>2 DEF BudgetInv, WithinBudget
  <1>6. CASE Restart
    BY <1>6, StartBudget
  <1>7. CASE UNCHANGED mediaVars
    BY <1>2, <1>7 DEF mediaVars, storeVars, vars, durableVars, guardVars, historyVars
  <1> QED
    BY <1>1, <1>3, <1>4, <1>5, <1>6, <1>7 DEF MediaNext

-----------------------------------------------------------------------------
(* What a worker knows of the world.  It looks at Arr and at the file, and *)
(* acts on what it saw later: what it saw is still so, or it changed after *)
(* the last look and is among raced.                                       *)

Raced(what, f) == <<what, f>> \in raced

\* Types of the world.
WorldTyped ==
    /\ present \subseteq used /\ used \subseteq Files
    /\ holder \in [Episodes -> Files \cup {NoFile}]
    /\ origin \in [Downloads -> OriginStates]
    /\ arrSearched \subseteq Files
    /\ lostBy \in [Episodes -> Files \cup {NoFile}]
    /\ spent \in [Episodes -> Nat]
    /\ raced \subseteq {"file", "mapping", "policy"} \X (Files \cup {NoFile})
    /\ changes \in 0 .. MaxChanges

\* An episode is lost to a file that was asked to be deleted, and Arr searches
\* by itself only after a request to fail the download.
LostInv ==
    /\ \A e \in Episodes : lostBy[e] # NoFile =>
          holder[e] = NoFile /\ sent[lostBy[e]]["delete"] # 0
    /\ \A f \in arrSearched : sent[f]["fail"] # 0

\* The episodes that lost f and have no file yet are searched for.
Settled(f) ==
    \A e \in Episodes : lostBy[e] = f /\ holder[e] = NoFile =>
        \/ sent[f]["search"] > 0
        \/ f \in arrSearched
        \/ Raced("policy", f)
        \/ Raced("mapping", f)

Remembered == \A f \in Files : f \in Pending(disk) \/ Settled(f)

\* What a stage says of the locals alone.
Early == {"probed", "checking", "resetting", "origin", "prepare"}

Prepared(stage, j) ==
    /\ stage \in Judging \cup {"delete"} => j.seen = "bad"
    /\ j.via # "history" => j.automatic = FALSE
    /\ stage \in Early => j.via = "none"
    /\ stage = "refresh" => j.via = "history"
    /\ stage = "reread" => j.via = "queue"

\* What the looks at the file and at its episodes are still worth.
Looked(stage, j) ==
    /\ stage # "idle" => j.file \in used
    /\ stage \in {"remap", "begin", "delete"} /\ j.file \in present =>
          content[j.file] = "bad" \/ Raced("file", j.file)
    /\ stage \in {"begin", "delete"} /\ j.file \in present =>
          Assigned(j.file) = j.ids \/ Raced("mapping", j.file)

\* What the look at the policy is still worth, and who searches.
Followed(stage, j) ==
    /\ stage \in {"record", "fail"} /\ j.via = "history" =>
          j.automatic = auto \/ Raced("policy", j.file)
    /\ stage = "failed" =>
          (j.file \in arrSearched <=> j.automatic = TRUE) \/ Raced("policy", j.file)
    /\ stage \in {"targets", "search", "send"} =>
          j.file \notin arrSearched \/ Raced("policy", j.file)

\* The episodes the deletion left without a file are those the worker knows.
Known(stage, j) ==
    /\ stage \in {"deleted", "refresh", "record", "reread", "fail", "failed", "targets"} =>
          \A e \in Episodes : lostBy[e] = j.file => e \in j.ids \/ Raced("mapping", j.file)
    /\ stage = "finish" => Settled(j.file)

Window(stage, j) ==
    Prepared(stage, j) /\ Looked(stage, j) /\ Followed(stage, j) /\ Known(stage, j)

WindowInv ==
    /\ WorldTyped /\ LostInv /\ NoDoubleSearch /\ Remembered
    /\ \A w \in Workers : Window(pc[w], job[w])

\* What workers leave alone.
LEMMA StepWorld ==
    ASSUME NEW w \in Workers, Step(w)
    PROVE  /\ UNCHANGED <<used, content, auto, raced, changes>>
           /\ pc[w] \notin {"delete", "fail"} => UNCHANGED <<arrVars, arrSearched, lostBy>>
           /\ pc[w] \notin {"delete", "resetting"} => UNCHANGED spent
           /\ pc[w] \notin {"delete", "fail", "send"} => UNCHANGED sent
           /\ pc[w] \notin Locked => UNCHANGED <<storeVars, arrVars, historyVars, changes>>
  BY DEF Step, Progress, Probe, Enter, Check, ResetOne, ResetDone, FindOrigin, PrepareOrigin,
         Recheck, Remap, BeginOperation, NotBegun, DeleteFile, FileDeleted, RecordDeleted,
         RefreshPolicy, RecordOrigin, RereadQueue, FailOrigin, RecordFailed, ReadTargets,
         RecordSearch, SendSearch, Finish, Abort, Refused, arrVars, historyVars, Locked, Reads,
         Sends, Saves

\* A step of a worker at one of the three stages that touch the world is that
\* stage's action, or leaves the world alone.
LEMMA StepAt ==
    ASSUME NEW w \in Workers, Step(w)
    PROVE  /\ pc[w] = "delete" => DeleteFile(w)
           /\ pc[w] = "fail" => FailOrigin(w)
           /\ pc[w] = "send" => SendSearch(w)
           /\ pc[w] = "resetting" => ResetOne(w) \/ ResetDone(w) \/ Refused(w)
           /\ pc[w] = "finish" => Finish(w) \/ Refused(w)
  BY DEF Step, Progress, Probe, Enter, Check, ResetOne, ResetDone, FindOrigin, PrepareOrigin,
         Recheck, Remap, BeginOperation, NotBegun, DeleteFile, RecordDeleted,
         RefreshPolicy, RecordOrigin, RereadQueue, FailOrigin, RecordFailed, ReadTargets,
         RecordSearch, SendSearch, Finish, Abort, Refused, Reads, Saves

LEMMA WorldInit == MediaInit => WindowInv
  <1> SUFFICES ASSUME MediaInit PROVE WindowInv
    OBVIOUS
  <1>1. WorldTyped
    BY MediaAssumption DEF MediaInit, WorldTyped
  <1>2. LostInv /\ NoDoubleSearch
    BY DEF MediaInit, LostInv, NoDoubleSearch
  <1>3. Remembered
    BY MediaAssumption DEF MediaInit, Remembered, Settled
  <1>4. ASSUME NEW w \in Workers PROVE Window(pc[w], job[w])
    <2>1. pc[w] = "idle" /\ job[w] = NoJob
      BY DEF MediaInit
    <2> QED
      BY <2>1 DEF NoJob, Window, Prepared, Looked, Followed, Known, Judging, Early
  <1> QED
    BY <1>1, <1>2, <1>3, <1>4 DEF WindowInv

LEMMA DeletedTypes ==
    ASSUME WorldTyped, NEW w \in Workers, NEW f \in Files, DeleteFile(w), job[w].file = f
    PROVE  WorldTyped'
  <1>1. spent' \in [Episodes -> Nat] /\ UNCHANGED <<arrSearched, raced, changes>>
    BY DEF DeleteFile, WorldTyped
  <1>2. CASE f \in present /\ FileDeleted(f)
             /\ lostBy' = [e \in Episodes |-> IF holder[e] = f THEN f ELSE lostBy[e]]
    BY <1>1, <1>2 DEF FileDeleted, WorldTyped
  <1>3. CASE UNCHANGED <<arrVars, lostBy>>
    BY <1>1, <1>3 DEF arrVars, WorldTyped
  <1> QED
    BY <1>2, <1>3 DEF DeleteFile

LEMMA StepWorldTyped ==
    ASSUME MInv, WorldTyped, NEW w \in Workers, Step(w)
    PROVE  WorldTyped'
  <1>1. CASE pc[w] = "delete"
    <2>1. DeleteFile(w) /\ job[w].file \in Files
      BY <1>1, StepAt DEF MInv, Busy
    <2> QED
      BY <2>1, DeletedTypes
  <1>2. CASE pc[w] = "fail"
    <2>1. FailOrigin(w) /\ job[w].file \in Files
      BY <1>2, StepAt DEF MInv, Busy
    <2>2. origin' \in [Downloads -> OriginStates] /\ arrSearched' \subseteq Files
      BY <2>1 DEF FailOrigin, WorldTyped, OriginStates
    <2> QED
      BY <2>1, <2>2 DEF FailOrigin, WorldTyped
  <1>3. CASE pc[w] = "resetting"
    <2>1. (\E e \in job[w].ids : spent' = [spent EXCEPT ![e] = 0]) \/ spent' = spent
      <3>1. ResetOne(w) \/ ResetDone(w) \/ Refused(w)
        BY <1>3, StepAt
      <3>2. CASE ResetOne(w)
        BY <3>2 DEF ResetOne
      <3>3. CASE ResetDone(w) \/ Refused(w)
        BY <3>3 DEF ResetDone, Refused, historyVars
      <3> QED
        BY <3>1, <3>2, <3>3
    <2>2. spent' \in [Episodes -> Nat]
      BY <2>1 DEF WorldTyped
    <2> QED
      BY <1>3, <2>2, StepWorld DEF WorldTyped, arrVars
  <1>4. CASE pc[w] \notin {"delete", "fail", "resetting"}
    BY <1>4, StepWorld DEF WorldTyped, arrVars
  <1> QED
    BY <1>1, <1>2, <1>3, <1>4

LEMMA WorldTypedNext ==
    ASSUME MInv, WorldTyped, [MediaNext]_mediaVars
    PROVE  WorldTyped'
  <1>1. ASSUME Change PROVE changes' \in 0 .. MaxChanges
    BY <1>1, MediaAssumption DEF Change, WorldTyped
  <1>2. FileRaces \cup MappingRaces \cup PolicyRaces
          \subseteq {"file", "mapping", "policy"} \X (Files \cup {NoFile})
    BY DEF FileRaces, MappingRaces, PolicyRaces, Unwatched, MInv, Typed, Job
  <1>3. ASSUME NEW f \in Files, Edit(f) PROVE WorldTyped'
    BY <1>1, <1>2, <1>3 DEF Edit, WorldTyped
  <1>4. ASSUME NEW f \in Files, Remove(f) PROVE WorldTyped'
    BY <1>1, <1>4 DEF Remove, FileDeleted, WorldTyped, historyVars
  <1>5. ASSUME NEW f \in Files, NEW episodes \in SUBSET Episodes, Import(f, episodes)
        PROVE  WorldTyped'
    BY <1>1, <1>2, <1>5 DEF Import, WorldTyped
  <1>6. ASSUME NEW d \in Downloads, MoveOrigin(d) PROVE WorldTyped'
    BY <1>1, <1>6 DEF MoveOrigin, WorldTyped, historyVars
  <1>7. CASE SetPolicy
    BY <1>1, <1>2, <1>7 DEF SetPolicy, WorldTyped
  <1>8. CASE SaveOther \/ Die \/ Restart \/ UNCHANGED mediaVars
    BY <1>8 DEF SaveOther, Die, Restart, mediaVars, arrVars, historyVars, WorldTyped
  <1> QED
    BY <1>3, <1>4, <1>5, <1>6, <1>7, <1>8, StepWorldTyped DEF MediaNext, Surroundings

-----------------------------------------------------------------------------
(* Steps outside the workers. *)

\* What a window says does not depend on anything but these variables.
LEMMA SameWindow ==
    ASSUME NEW stage, NEW j, Window(stage, j),
           UNCHANGED <<present, used, holder, content, auto, sent, arrSearched, lostBy, raced>>
    PROVE  Window(stage, j)'
  BY DEF Window, Prepared, Looked, Followed, Known, Settled, Raced, Assigned

\* A change of Arr and the user adds to raced what it takes from under a worker.
LEMMA ChangedWindow ==
    ASSUME MInv, WindowInv, NEW w \in Workers,
           \/ \E f \in Files : Edit(f) \/ Remove(f)
           \/ \E f \in Files, episodes \in SUBSET Episodes : Import(f, episodes)
           \/ \E d \in Downloads : MoveOrigin(d)
           \/ SetPolicy
    PROVE  Window(pc[w], job[w])'
  <1> DEFINE g == job[w].file
  <1>1. /\ pc' = pc /\ job' = job /\ sent' = sent /\ arrSearched' = arrSearched
        /\ raced \subseteq raced' /\ used \subseteq used'
    BY DEF Edit, Remove, FileDeleted, Import, MoveOrigin, SetPolicy, guardVars, historyVars
  <1>2. Window(pc[w], job[w]) /\ WorldTyped /\ LostInv
    BY DEF WindowInv
  <1>3. /\ pc[w] \in {"remap", "begin", "delete"} => <<"file", g>> \in FileRaces
        /\ pc[w] \in {"begin", "delete"} => <<"mapping", g>> \in MappingRaces
        /\ pc[w] \in {"record", "fail"} => <<"policy", g>> \in PolicyRaces
    BY DEF FileRaces, MappingRaces, PolicyRaces, Unwatched
  <1>4. \A e \in Episodes : lostBy'[e] # NoFile =>
            lostBy'[e] = lostBy[e] /\ holder[e] = NoFile /\ holder'[e] = NoFile
    BY <1>2 DEF Edit, Remove, FileDeleted, Import, MoveOrigin, SetPolicy, historyVars, LostInv,
          WorldTyped
  <1>5. Prepared(pc[w], job[w])'
    BY <1>1, <1>2 DEF Window, Prepared
  <1>6. Looked(pc[w], job[w])'
    <2>1. CASE \E f \in Files : Edit(f)
      <3>1. PICK f \in Files : Edit(f)
        BY <2>1
      <3>2. /\ present' = present /\ holder' = holder /\ used' = used
            /\ g # f /\ g \in Files => content'[g] = content[g]
            /\ g = f /\ <<"file", g>> \in FileRaces => <<"file", g>> \in raced'
        BY <3>1 DEF Edit, MInv, Typed
      <3>3. g \in present => g \in Files
        BY <1>2 DEF WorldTyped
      <3> QED
        BY <1>1, <1>2, <1>3, <3>2, <3>3 DEF Window, Looked, Raced, Assigned
    <2>2. CASE \E f \in Files : Remove(f)
      <3>1. PICK f \in Files : Remove(f)
        BY <2>2
      <3>2. /\ present' = present \ {f} /\ content' = content /\ used' = used
            /\ \A e \in Episodes : holder'[e] = IF holder[e] = f THEN NoFile ELSE holder[e]
        BY <3>1 DEF Remove, FileDeleted
      <3>3. g \in present' => Assigned(g)' = Assigned(g) /\ g \in present
        <4>1. ASSUME g \in present' PROVE \A e \in Episodes : holder'[e] = g <=> holder[e] = g
          BY <1>2, <3>2, <4>1, MediaAssumption DEF WorldTyped
        <4> QED
          BY <1>1, <3>2, <4>1 DEF Assigned
      <3> QED
        BY <1>1, <1>2, <3>2, <3>3 DEF Window, Looked, Raced
    <2>3. CASE \E f \in Files, episodes \in SUBSET Episodes : Import(f, episodes)
      <3>1. PICK f \in Files, episodes \in SUBSET Episodes : Import(f, episodes)
        BY <2>3
      <3>2. /\ present' \subseteq {f} \cup present /\ content' = content /\ f \notin used
            /\ MappingRaces \subseteq raced'
        BY <3>1 DEF Import
      <3> QED
        BY <1>1, <1>2, <1>3, <3>2 DEF Window, Looked, Raced
    <2>4. CASE (\E d \in Downloads : MoveOrigin(d)) \/ SetPolicy
      <3>1. UNCHANGED <<present, used, holder, content>>
        BY <2>4 DEF MoveOrigin, SetPolicy
      <3> QED
        BY <1>1, <1>2, <3>1 DEF Window, Looked, Raced, Assigned
    <2> QED
      BY <2>1, <2>2, <2>3, <2>4
  <1>7. Followed(pc[w], job[w])'
    <2>1. auto' = auto \/ PolicyRaces \subseteq raced'
      BY DEF Edit, Remove, Import, MoveOrigin, SetPolicy, FileDeleted
    <2> QED
      BY <1>1, <1>2, <1>3, <2>1 DEF Window, Followed, Raced
  <1>8. Known(pc[w], job[w])'
    <2>1. pc[w] # "idle" => g # NoFile
      BY MediaAssumption DEF MInv, Busy
    <2> QED
      BY <1>1, <1>2, <1>4, <2>1 DEF Window, Known, Settled, Raced
  <1> QED
    BY <1>5, <1>6, <1>7, <1>8 DEF Window

\* The rest of the invariant after such a change.
LEMMA ChangedWorld ==
    ASSUME MInv, WindowInv,
           \/ \E f \in Files : Edit(f) \/ Remove(f)
           \/ \E f \in Files, episodes \in SUBSET Episodes : Import(f, episodes)
           \/ \E d \in Downloads : MoveOrigin(d)
           \/ SetPolicy
    PROVE  LostInv' /\ NoDoubleSearch' /\ Remembered'
  <1>1. /\ sent' = sent /\ arrSearched' = arrSearched /\ raced \subseteq raced' /\ disk' = disk
    BY DEF Edit, Remove, FileDeleted, Import, MoveOrigin, SetPolicy, historyVars, storeVars, vars,
           durableVars
  <1>2. LostInv /\ NoDoubleSearch /\ Remembered /\ WorldTyped
    BY DEF WindowInv
  <1>3. \A e \in Episodes : lostBy'[e] # NoFile =>
            lostBy'[e] = lostBy[e] /\ holder[e] = NoFile /\ holder'[e] = NoFile
    BY <1>2 DEF Edit, Remove, FileDeleted, Import, MoveOrigin, SetPolicy, historyVars, LostInv,
          WorldTyped
  <1>4. LostInv' /\ NoDoubleSearch'
    BY <1>1, <1>2, <1>3 DEF LostInv, NoDoubleSearch
  <1>5. ASSUME NEW f \in Files, f \notin Pending(disk') PROVE Settled(f)'
    <2>1. Settled(f) /\ f # NoFile
      BY <1>1, <1>2, <1>5, MediaAssumption DEF Remembered
    <2> QED
      BY <1>1, <1>3, <2>1 DEF Settled, Raced
  <1> QED
    BY <1>4, <1>5 DEF Remembered, Pending

-----------------------------------------------------------------------------
(* Steps of the workers. *)

\* Another worker's step does not come between a look and what rests on it.
LEMMA OtherWindow ==
    ASSUME MInv, WindowInv, NEW w \in Workers, Step(w), NEW v \in Workers, v # w
    PROVE  Window(pc[v], job[v])' /\ pc'[v] = pc[v]
  <1>1. pc'[v] = pc[v] /\ job'[v] = job[v]
    BY StepShape DEF Shape, Goto, Moves, Leave, MInv, Typed
  <1>2. Window(pc[v], job[v])
    BY DEF WindowInv
  <1>3. CASE pc[w] \in Locked
    <2>1. pc[v] \in {"idle", "probed"}
      BY <1>3, Alone DEF MInv, Typed
    <2>2. used' = used
      BY StepWorld
    <2> QED
      BY <1>1, <1>2, <2>1, <2>2
         DEF Window, Prepared, Looked, Followed, Known, Judging, Early
  <1>4. CASE pc[w] \notin Locked
    <2>1. UNCHANGED <<present, used, holder, content, auto, sent, arrSearched, lostBy, raced>>
      BY <1>4, StepWorld DEF arrVars, historyVars
    <2> QED
      BY <1>1, <1>2, <2>1, SameWindow
  <1> QED
    BY <1>1, <1>3, <1>4

LEMMA IdleWindow ==
    ASSUME Typed, NEW w \in Workers, Leave(w)
    PROVE  Window(pc[w], job[w])'
  <1>1. pc'[w] = "idle" /\ job'[w] = NoJob
    BY DEF Typed, Leave
  <1> QED
    BY <1>1 DEF NoJob, Window, Prepared, Looked, Followed, Known, Judging, Early

\* A worker that goes on finds what its next stage says.
LEMMA NextWindow ==
    ASSUME Typed, NEW w \in Workers, NEW stage, NEW locals, Moves(w, stage, locals),
           Window(stage, locals)'
    PROVE  Window(pc[w], job[w])'
  <1>1. pc'[w] = stage /\ job'[w] = locals
    BY DEF Typed, Moves
  <1> QED
    BY <1>1 DEF Window, Prepared, Looked, Followed, Known

LEMMA PreflightWindow ==
    ASSUME MInv, WindowInv, NEW w \in Workers,
           \/ \E f \in Files : Probe(w, f)
           \/ Enter(w) \/ Check(w) \/ ResetOne(w) \/ FindOrigin(w) \/ PrepareOrigin(w)
    PROVE  Window(pc[w], job[w])'
  <1>1. Typed /\ job[w] \in Job /\ Window(pc[w], job[w]) /\ WorldTyped
    BY DEF MInv, Typed, WindowInv
  <1>2. UNCHANGED <<used, present>>
    BY DEF Probe, Enter, Check, ResetOne, FindOrigin, PrepareOrigin, arrVars
  <1>3. ASSUME NEW stage \in {"probed", "checking", "resetting", "origin", "prepare", "recheck"},
               NEW locals, Moves(w, stage, locals), Prepared(stage, locals), locals.file \in used
        PROVE  Window(pc[w], job[w])'
    <2>1. Prepared(stage, locals)'
      BY <1>3 DEF Prepared
    <2>2. Looked(stage, locals)' /\ Followed(stage, locals)' /\ Known(stage, locals)'
      BY <1>2, <1>3 DEF Looked, Followed, Known
    <2> QED
      BY <1>1, <1>3, <2>1, <2>2, NextWindow DEF Window
  <1>4. CASE \E f \in Files : Probe(w, f)
    <2>1. PICK f \in Files : Probe(w, f)
      BY <1>4
    <2> DEFINE locals == [NoJob EXCEPT !.file = f, !.seen = content[f]]
    <2>2. Moves(w, "probed", locals) /\ f \in used
      BY <1>1, <2>1 DEF Probe, Goto, Moves, WorldTyped
    <2>3. locals.file = f /\ Prepared("probed", locals)
      BY DEF NoJob, Prepared, Judging, Early
    <2> HIDE DEF locals
    <2> QED
      BY <1>3, <2>2, <2>3
  <1>5. CASE Enter(w)
    <2>1. Moves(w, "checking", job[w]) /\ pc[w] = "probed"
      BY <1>1, <1>5 DEF Enter, Moves, Typed
    <2>2. Prepared("checking", job[w]) /\ job[w].file \in used
      BY <1>1, <2>1 DEF Window, Prepared, Looked, Judging, Early
    <2> QED
      BY <1>3, <2>1, <2>2
  <1>6. CASE Check(w)
    <2> DEFINE locals == [job[w] EXCEPT !.ids = Assigned(job[w].file)]
    <2>1. /\ locals.file = job[w].file /\ locals.seen = job[w].seen
          /\ locals.via = job[w].via /\ locals.automatic = job[w].automatic
      BY <1>1 DEF Job
    <2>2. pc[w] = "checking"
      BY <1>6 DEF Check
    <2>3. \/ Leave(w)
          \/ Moves(w, "resetting", locals)
          \/ job[w].seen # "good" /\ Moves(w, "origin", locals)
      BY <1>6 DEF Check, Goto, Moves
    <2> HIDE DEF locals
    <2>4. Prepared("resetting", locals) /\ locals.file \in used
      BY <1>1, <2>1, <2>2 DEF Window, Prepared, Looked, Judging, Early
    <2>5. job[w].seen # "good" => Prepared("origin", locals)
      BY <1>1, <2>1, <2>2 DEF Window, Prepared, Judging, Early, Job, Contents
    <2> QED
      BY <1>1, <1>3, <2>3, <2>4, <2>5, IdleWindow
  <1>7. CASE ResetOne(w)
    <2>1. PICK e \in job[w].ids :
             AfterSave(w, "resetting", [job[w] EXCEPT !.ids = @ \ {e}])
             \/ Goto(w, "resetting", [job[w] EXCEPT !.ids = @ \ {e}])
      BY <1>7 DEF ResetOne
    <2> DEFINE locals == [job[w] EXCEPT !.ids = @ \ {e}]
    <2>2. /\ locals.file = job[w].file /\ locals.seen = job[w].seen
          /\ locals.via = job[w].via /\ locals.automatic = job[w].automatic
      BY <1>1 DEF Job
    <2>3. pc[w] = "resetting"
      BY <1>7 DEF ResetOne
    <2>4. Leave(w) \/ Moves(w, "resetting", locals)
      BY <2>1 DEF AfterSave, Goto, Moves
    <2> HIDE DEF locals
    <2>5. Prepared("resetting", locals) /\ locals.file \in used
      BY <1>1, <2>2, <2>3 DEF Window, Prepared, Looked, Judging, Early
    <2> QED
      BY <1>1, <1>3, <2>4, <2>5, IdleWindow
  <1>8. CASE FindOrigin(w)
    <2>1. PICK download \in {FileDownload[job[w].file], NoDownload} :
             Goto(w, "prepare", [job[w] EXCEPT !.download = download])
      BY <1>8 DEF FindOrigin
    <2> DEFINE locals == [job[w] EXCEPT !.download = download]
    <2>2. /\ locals.file = job[w].file /\ locals.seen = job[w].seen
          /\ locals.via = job[w].via /\ locals.automatic = job[w].automatic
      BY <1>1 DEF Job
    <2>3. pc[w] = "origin" /\ Moves(w, "prepare", locals)
      BY <1>8, <2>1 DEF FindOrigin, Goto, Moves
    <2> HIDE DEF locals
    <2>4. Prepared("prepare", locals) /\ locals.file \in used
      BY <1>1, <2>2, <2>3 DEF Window, Prepared, Looked, Judging, Early
    <2> QED
      BY <1>3, <2>3, <2>4
  <1>9. CASE PrepareOrigin(w)
    <2> DEFINE queued == [job[w] EXCEPT !.via = "queue"]
               marked == [job[w] EXCEPT !.via = "history", !.automatic = auto]
    <2>1. /\ queued.file = job[w].file /\ queued.seen = job[w].seen
          /\ queued.via = "queue" /\ queued.automatic = job[w].automatic
          /\ marked.file = job[w].file /\ marked.seen = job[w].seen /\ marked.via = "history"
      BY <1>1 DEF Job
    <2>2. pc[w] = "prepare"
      BY <1>9 DEF PrepareOrigin
    <2>3. \/ Leave(w)
          \/ Moves(w, "recheck", job[w])
          \/ Moves(w, "recheck", queued)
          \/ Moves(w, "recheck", marked)
      BY <1>9 DEF PrepareOrigin, Goto, Moves
    <2> HIDE DEF queued, marked
    <2>4. job[w].seen = "bad" /\ job[w].automatic = FALSE /\ job[w].file \in used
      BY <1>1, <2>2 DEF Window, Prepared, Looked, Judging, Early
    <2>5. /\ Prepared("recheck", job[w]) /\ Prepared("recheck", queued)
          /\ Prepared("recheck", marked)
      BY <2>1, <2>4 DEF Prepared, Judging, Early
    <2> QED
      BY <1>1, <1>3, <2>1, <2>3, <2>4, <2>5, IdleWindow
  <1> QED
    BY <1>4, <1>5, <1>6, <1>7, <1>8, <1>9

\* The last looks before the deletion.
LEMMA LookWindow ==
    ASSUME MInv, WindowInv, NEW w \in Workers, Recheck(w) \/ Remap(w) \/ BeginOperation(w)
    PROVE  Window(pc[w], job[w])'
  <1>1. Typed /\ Window(pc[w], job[w])
    BY DEF MInv, WindowInv
  <1>2. UNCHANGED <<present, used, holder, content, raced>>
    BY DEF Recheck, Remap, BeginOperation, arrVars, historyVars
  <1>3. ASSUME NEW stage \in {"remap", "begin", "delete"}, Moves(w, stage, job[w]),
               Prepared(stage, job[w]), Looked(stage, job[w])
        PROVE  Window(pc[w], job[w])'
    <2>0. PICK locals : locals = job[w]
      OBVIOUS
    <2>1. Prepared(stage, locals) /\ Looked(stage, locals) /\ Moves(w, stage, locals)
      BY <1>3, <2>0
    <2>2. Looked(stage, locals)'
      BY <1>2, <2>1 DEF Looked, Raced, Assigned
    <2>3. Prepared(stage, locals)' /\ Followed(stage, locals)' /\ Known(stage, locals)'
      BY <1>3, <2>1 DEF Prepared, Followed, Known
    <2> QED
      BY <1>1, <2>1, <2>2, <2>3, NextWindow DEF Window
  <1>4. CASE Recheck(w)
    <2>1. pc[w] = "recheck"
      BY <1>4 DEF Recheck
    <2>2. Leave(w) \/ (Unchanged(w) /\ Moves(w, "remap", job[w]))
      BY <1>4 DEF Recheck, Goto, Moves
    <2>3. Prepared("remap", job[w])
      BY <1>1, <2>1 DEF Window, Prepared, Judging, Early
    <2>4. Unchanged(w) => Looked("remap", job[w])
      BY <1>1, <2>1 DEF Window, Prepared, Looked, Unchanged, Judging
    <2> QED
      BY <1>1, <1>3, <2>2, <2>3, <2>4, IdleWindow
  <1>5. CASE Remap(w)
    <2>1. pc[w] = "remap"
      BY <1>5 DEF Remap
    <2>2. Leave(w) \/ (Assigned(job[w].file) = job[w].ids /\ Moves(w, "begin", job[w]))
      BY <1>5 DEF Remap, Goto, Moves
    <2>3. Prepared("begin", job[w])
      BY <1>1, <2>1 DEF Window, Prepared, Judging, Early
    <2>4. Assigned(job[w].file) = job[w].ids => Looked("begin", job[w])
      BY <1>1, <2>1 DEF Window, Looked
    <2> QED
      BY <1>1, <1>3, <2>2, <2>3, <2>4, IdleWindow
  <1>6. CASE BeginOperation(w)
    <2>1. pc[w] = "begin"
      BY <1>6 DEF BeginOperation
    <2>2. Leave(w) \/ Moves(w, "delete", job[w])
      BY <1>6 DEF BeginOperation, AfterSave, Goto, Moves
    <2>3. Prepared("delete", job[w]) /\ Looked("delete", job[w])
      BY <1>1, <2>1 DEF Window, Prepared, Looked, Judging, Early
    <2> QED
      BY <1>1, <1>3, <2>2, <2>3, IdleWindow
  <1> QED
    BY <1>4, <1>5, <1>6

\* What the stages of an operation say of the requests still to come.
LEMMA NotYet ==
    ASSUME MInv, WindowInv, NEW w \in Workers, pc[w] \in Operating
    PROVE  /\ job[w].file \in Files /\ job[w].file \in Pending(disk)
           /\ pc[w] = "delete" => \A e \in Episodes : lostBy[e] # job[w].file
           /\ pc[w] \in {"deleted", "refresh", "record", "reread", "fail"} =>
                 job[w].file \notin arrSearched
           /\ pc[w] \in {"delete", "deleted", "refresh", "record", "reread", "fail", "failed",
                         "targets", "search", "send"} =>
                 sent[job[w].file]["search"] = 0
  <1>1. job[w].file \in Files
    BY StagesLocked DEF MInv, Busy
  <1>2. StageOK(pc[w], job[w].file, disk, mem, sent)
    BY DEF MInv, StageInv
  <1>3. LostInv
    BY DEF WindowInv
  <1>4. job[w].file # NoFile
    BY <1>1, MediaAssumption
  <1>5. \A r \in Requested \ Left(pc[w]) : sent[job[w].file][r] = 0
    BY <1>2 DEF StageOK
  <1>6. CASE pc[w] = "delete"
    BY <1>1, <1>2, <1>3, <1>4, <1>5, <1>6 DEF StageOK, LostInv, Left, Requested
  <1>7. CASE pc[w] \in {"deleted", "refresh", "record", "reread", "fail"}
    BY <1>1, <1>2, <1>3, <1>5, <1>7 DEF StageOK, LostInv, Left, Requested
  <1>8. CASE pc[w] \in {"failed", "targets", "search", "send", "finish"}
    BY <1>1, <1>2, <1>5, <1>8 DEF StageOK, Left, Requested
  <1> QED
    BY <1>6, <1>7, <1>8 DEF Operating

\* The deletion: the episodes it leaves without a file are those the worker
\* looked up, unless they were regrouped since.
LEMMA DeleteWindow ==
    ASSUME MInv, WindowInv, NEW w \in Workers, DeleteFile(w)
    PROVE  Window(pc[w], job[w])' /\ LostInv'
  <1> DEFINE f == job[w].file
  <1>1. pc[w] = "delete" /\ Send(f, "delete") /\ UNCHANGED <<arrSearched, raced, used>>
    BY DEF DeleteFile, FileDeleted, arrVars
  <1>2. Typed /\ Window(pc[w], job[w]) /\ WorldTyped /\ LostInv
    BY DEF MInv, WindowInv
  <1>3. f \in Files /\ f # NoFile /\ \A e \in Episodes : lostBy[e] # f
    BY <1>1, NotYet, MediaAssumption DEF Operating
  <1>4. /\ \A g \in Files, q \in Requested : sent[g][q] # 0 => sent'[g][q] # 0
        /\ sent'[f]["delete"] # 0
    <2>1. \A g \in Files, q \in Requested : sent[g][q] \in Nat
      BY <1>2 DEF Typed
    <2> QED
      BY <1>1, <1>2, <1>3, <2>1, SendType DEF Requested
  <1>5. CASE /\ f \in present /\ FileDeleted(f)
             /\ lostBy' = [e \in Episodes |-> IF holder[e] = f THEN f ELSE lostBy[e]]
             /\ \E acked \in BOOLEAN : AfterSend(w, acked, "deleted")
    <2>1. ASSUME NEW e \in Episodes, lostBy'[e] # NoFile
          PROVE  /\ holder'[e] = NoFile /\ sent'[lostBy'[e]]["delete"] # 0
                 /\ lostBy'[e] = f => holder[e] = f
      <3>1. CASE holder[e] = f
        BY <1>4, <1>5, <3>1 DEF FileDeleted
      <3>2. CASE holder[e] # f
        <4>1. lostBy'[e] = lostBy[e] /\ lostBy[e] \in Files
          BY <1>2, <1>5, <2>1, <3>2 DEF WorldTyped
        <4>2. holder[e] = NoFile /\ sent[lostBy[e]]["delete"] # 0
          BY <1>2, <2>1, <4>1 DEF LostInv
        <4> QED
          BY <1>3, <1>4, <1>5, <3>2, <4>1, <4>2 DEF FileDeleted, Requested
      <3> QED
        BY <3>1, <3>2
    <2>2. \A g \in arrSearched' : sent'[g]["fail"] # 0
      BY <1>1, <1>2, <1>4 DEF LostInv, WorldTyped, Requested
    <2>3. LostInv'
      BY <2>1, <2>2 DEF LostInv
    <2>4. \A e \in Episodes : lostBy'[e] = f => e \in job[w].ids \/ Raced("mapping", f)
      <3>1. Assigned(f) = job[w].ids \/ Raced("mapping", f)
        BY <1>1, <1>2, <1>5 DEF Window, Looked
      <3> QED
        BY <1>3, <2>1, <3>1 DEF Assigned
    <2> PICK locals : locals = job[w]
      OBVIOUS
    <2>5. Leave(w) \/ Moves(w, "deleted", locals)
      BY <1>5 DEF AfterSend, Goto, Moves
    <2>6. Prepared("deleted", locals) /\ locals.file \in used
      BY <1>1, <1>2 DEF Window, Prepared, Looked, Judging, Early
    <2>7. /\ raced' = raced /\ used' = used
          /\ \A e \in Episodes : lostBy'[e] = locals.file =>
                e \in locals.ids \/ Raced("mapping", locals.file)
      BY <1>1, <2>4
    <2>8. Window("deleted", locals)'
      BY <2>6, <2>7 DEF Window, Prepared, Looked, Followed, Known, Raced, Judging, Early
    <2> QED
      BY <1>2, <2>3, <2>5, <2>8, IdleWindow, NextWindow
  <1>6. CASE UNCHANGED <<arrVars, lostBy>> /\ AfterSend(w, FALSE, "deleted")
    <2>1. Leave(w) /\ holder' = holder
      BY <1>6 DEF AfterSend, arrVars
    <2>2. LostInv'
      BY <1>1, <1>2, <1>4, <1>6, <2>1 DEF LostInv, WorldTyped, Requested
    <2> QED
      BY <1>2, <2>1, <2>2, IdleWindow
  <1> QED
    BY <1>5, <1>6 DEF DeleteFile

\* From the deletion to the request that fails the download.
LEMMA RecordWindow ==
    ASSUME MInv, WindowInv, NEW w \in Workers,
           RecordDeleted(w) \/ RefreshPolicy(w) \/ RecordOrigin(w) \/ RereadQueue(w)
    PROVE  Window(pc[w], job[w])'
  <1>1. Typed /\ job[w] \in Job /\ Window(pc[w], job[w])
    BY DEF MInv, Typed, WindowInv
  <1>2. UNCHANGED <<used, auto, arrSearched, lostBy, raced>>
    BY DEF RecordDeleted, RefreshPolicy, RecordOrigin, RereadQueue, arrVars, historyVars
  <1>3. pc[w] \in {"deleted", "refresh", "record", "reread"}
    BY DEF RecordDeleted, RefreshPolicy, RecordOrigin, RereadQueue
  <1>4. /\ job[w].file \in used /\ job[w].file \notin arrSearched
        /\ \A e \in Episodes : lostBy[e] = job[w].file =>
              e \in job[w].ids \/ Raced("mapping", job[w].file)
        /\ job[w].via # "history" => job[w].automatic = FALSE
    BY <1>1, <1>3, NotYet DEF Window, Prepared, Looked, Known, Operating
  <1>5. ASSUME NEW stage \in {"refresh", "record", "reread", "fail", "targets"}, NEW locals,
               Moves(w, stage, locals),
               locals.file = job[w].file, locals.ids = job[w].ids,
               locals.via # "history" => locals.automatic = FALSE,
               stage = "refresh" => locals.via = "history",
               stage = "reread" => locals.via = "queue",
               stage \in {"record", "fail"} /\ locals.via = "history" =>
                   locals.automatic = auto \/ Raced("policy", locals.file)
        PROVE  Window(pc[w], job[w])'
    <2>1. Prepared(stage, locals)' /\ Looked(stage, locals)'
      BY <1>2, <1>4, <1>5 DEF Prepared, Looked, Judging, Early
    <2>2. Followed(stage, locals)'
      BY <1>2, <1>4, <1>5 DEF Followed, Raced
    <2>3. Known(stage, locals)'
      BY <1>2, <1>4, <1>5 DEF Known, Raced
    <2> QED
      BY <1>1, <1>5, <2>1, <2>2, <2>3, NextWindow DEF Window
  <1>6. CASE RecordDeleted(w)
    <2>1. \/ Leave(w)
          \/ job[w].via = "none" /\ Moves(w, "targets", job[w])
          \/ job[w].via = "queue" /\ Moves(w, "record", job[w])
          \/ job[w].via = "history" /\ Moves(w, "refresh", job[w])
      BY <1>1, <1>6 DEF RecordDeleted, AfterSave, Goto, Moves, Job
    <2> QED
      BY <1>1, <1>4, <1>5, <2>1, IdleWindow
  <1>7. CASE RefreshPolicy(w)
    <2> DEFINE locals == [job[w] EXCEPT !.automatic = auto]
    <2>1. /\ locals.file = job[w].file /\ locals.ids = job[w].ids
          /\ locals.via = job[w].via /\ locals.automatic = auto
      BY <1>1 DEF Job
    <2>2. Moves(w, "record", locals) /\ pc[w] = "refresh"
      BY <1>7 DEF RefreshPolicy, Goto, Moves
    <2> HIDE DEF locals
    <2>3. job[w].via = "history"
      BY <1>1, <2>2 DEF Window, Prepared
    <2> QED
      BY <1>5, <2>1, <2>2, <2>3
  <1>8. CASE RecordOrigin(w)
    <2>1. pc[w] = "record"
      BY <1>8 DEF RecordOrigin
    <2>2. \/ Leave(w)
          \/ job[w].via = "queue" /\ Moves(w, "reread", job[w])
          \/ Moves(w, "fail", job[w])
      BY <1>8 DEF RecordOrigin, AfterSave, Goto, Moves
    <2>3. job[w].via = "history" => job[w].automatic = auto \/ Raced("policy", job[w].file)
      BY <1>1, <2>1 DEF Window, Followed
    <2> QED
      BY <1>1, <1>4, <1>5, <2>2, <2>3, IdleWindow
  <1>9. CASE RereadQueue(w)
    <2>1. Leave(w) \/ Moves(w, "fail", job[w])
      BY <1>9 DEF RereadQueue, Goto, Moves
    <2>2. job[w].via = "queue"
      BY <1>1, <1>9 DEF RereadQueue, Window, Prepared
    <2> QED
      BY <1>1, <1>4, <1>5, <2>1, <2>2, IdleWindow
  <1> QED
    BY <1>6, <1>7, <1>8, <1>9

\* The request that fails the download, and its record: Arr searches by itself
\* if and only if the worker thinks so, or the policy has changed.
LEMMA FailWindow ==
    ASSUME MInv, WindowInv, NEW w \in Workers, FailOrigin(w) \/ RecordFailed(w)
    PROVE  Window(pc[w], job[w])'
  <1>1. Typed /\ job[w] \in Job /\ Window(pc[w], job[w])
    BY DEF MInv, Typed, WindowInv
  <1>2. PICK j : j = job[w]
    OBVIOUS
  <1>3. pc[w] \in {"fail", "failed"}
    BY DEF FailOrigin, RecordFailed
  <1>4. /\ j.file \in used
        /\ \A e \in Episodes : lostBy[e] = j.file => e \in j.ids \/ Raced("mapping", j.file)
        /\ j.via # "history" => j.automatic = FALSE
        /\ j.automatic \in BOOLEAN /\ auto \in BOOLEAN
    BY <1>1, <1>2, <1>3 DEF Window, Prepared, Looked, Known, Job, Typed
  <1>5. UNCHANGED <<used, lostBy, raced, auto>>
    BY DEF FailOrigin, RecordFailed, arrVars, historyVars
  <1>6. CASE FailOrigin(w)
    <2>1. Leave(w) \/ Moves(w, "failed", j)
      BY <1>2, <1>6 DEF FailOrigin, AfterSend, Goto, Moves
    <2>2. j.file \notin arrSearched /\ pc[w] = "fail"
      BY <1>2, <1>6, NotYet DEF FailOrigin, Operating
    <2>3. j.via = "history" => j.automatic = auto \/ Raced("policy", j.file)
      BY <1>1, <1>2, <2>2 DEF Window, Followed
    <2>4. \/ Leave(w)
          \/ arrSearched' = IF j.via = "history" /\ auto
                            THEN arrSearched \cup {j.file} ELSE arrSearched
      BY <1>2, <1>6 DEF FailOrigin, AfterSend
    <2>5. Leave(w) \/ Followed("failed", j)'
      <3>1. CASE j.via = "history" /\ auto
        BY <1>4, <1>5, <2>3, <2>4, <3>1 DEF Followed, Raced
      <3>2. CASE j.via = "history" /\ ~auto
        BY <1>4, <1>5, <2>2, <2>3, <2>4, <3>2 DEF Followed, Raced
      <3>3. CASE j.via # "history"
        BY <1>4, <2>2, <2>4, <3>3 DEF Followed
      <3> QED
        BY <3>1, <3>2, <3>3
    <2>6. Prepared("failed", j)' /\ Looked("failed", j)' /\ Known("failed", j)'
      BY <1>4, <1>5 DEF Prepared, Looked, Known, Raced, Judging, Early
    <2> QED
      BY <1>1, <2>1, <2>5, <2>6, IdleWindow, NextWindow DEF Window
  <1>7. CASE RecordFailed(w)
    <2>1. /\ pc[w] = "failed" /\ UNCHANGED <<arrSearched, holder, sent>>
          /\ (j.file \in arrSearched <=> j.automatic = TRUE) \/ Raced("policy", j.file)
      BY <1>1, <1>2, <1>7 DEF RecordFailed, Window, Followed, arrVars, historyVars
    <2>2. \/ Leave(w)
          \/ j.automatic = TRUE /\ Moves(w, "finish", j)
          \/ j.automatic = FALSE /\ Moves(w, "targets", j)
      BY <1>2, <1>4, <1>7 DEF RecordFailed, AfterSave, Goto, Moves
    <2>3. ASSUME j.automatic = TRUE PROVE Window("finish", j)'
      <3>1. Settled(j.file)'
        BY <1>5, <2>1, <2>3 DEF Settled, Raced
      <3> QED
        BY <1>4, <1>5, <3>1
           DEF Window, Prepared, Looked, Followed, Known, Judging, Early
    <2>4. ASSUME j.automatic = FALSE PROVE Window("targets", j)'
      BY <1>4, <1>5, <2>1, <2>4
         DEF Window, Prepared, Looked, Followed, Known, Raced, Judging, Early
    <2> QED
      BY <1>1, <2>2, <2>3, <2>4, IdleWindow, NextWindow
  <1> QED
    BY <1>6, <1>7

\* The replacement search.
LEMMA SearchWindow ==
    ASSUME MInv, WindowInv, NEW w \in Workers,
           ReadTargets(w) \/ RecordSearch(w) \/ SendSearch(w)
    PROVE  Window(pc[w], job[w])'
  <1>1. Typed /\ job[w] \in Job /\ Window(pc[w], job[w])
    BY DEF MInv, Typed, WindowInv
  <1>2. PICK j : j = job[w]
    OBVIOUS
  <1>3. pc[w] \in {"targets", "search", "send"}
    BY DEF ReadTargets, RecordSearch, SendSearch
  <1>4. /\ j.file \in used
        /\ j.via # "history" => j.automatic = FALSE
        /\ j.file \notin arrSearched \/ Raced("policy", j.file)
    BY <1>1, <1>2, <1>3 DEF Window, Prepared, Looked, Followed
  <1>5. UNCHANGED <<used, lostBy, raced, arrSearched, holder>>
    BY DEF ReadTargets, RecordSearch, SendSearch, arrVars, historyVars
  <1>6. ASSUME NEW stage \in {"search", "send", "finish"}, NEW locals,
               Moves(w, stage, locals), locals.file = j.file, locals.via = j.via,
               locals.automatic = j.automatic, stage = "finish" => Settled(j.file)'
        PROVE  Window(pc[w], job[w])'
    <2>1. Prepared(stage, locals)' /\ Looked(stage, locals)' /\ Followed(stage, locals)'
      BY <1>4, <1>5, <1>6 DEF Prepared, Looked, Followed, Raced, Judging, Early
    <2>2. Known(stage, locals)'
      BY <1>6 DEF Known
    <2> QED
      BY <1>1, <1>6, <2>1, <2>2, NextWindow DEF Window
  <1>7. CASE ReadTargets(w)
    <2> DEFINE missing == {e \in job[w].ids : holder[e] = NoFile}
    <2>1. \/ missing = {} /\ Moves(w, "finish", job[w])
          \/ Moves(w, "search", [job[w] EXCEPT !.ids = missing])
      BY <1>7 DEF ReadTargets, Goto, Moves
    <2>2. PICK locals : locals = [job[w] EXCEPT !.ids = missing]
      OBVIOUS
    <2>3. locals.file = j.file /\ locals.via = j.via /\ locals.automatic = j.automatic
      BY <1>1, <1>2, <2>2 DEF Job
    <2>4. \A e \in Episodes : lostBy[e] = j.file => e \in j.ids \/ Raced("mapping", j.file)
      BY <1>1, <1>2, <1>7 DEF ReadTargets, Window, Known
    <2>5. ASSUME missing = {} PROVE Settled(j.file)'
      BY <1>2, <1>5, <2>4, <2>5 DEF Settled, Raced
    <2> HIDE DEF missing
    <2> QED
      BY <1>2, <1>6, <2>1, <2>2, <2>3, <2>5
  <1>8. CASE RecordSearch(w)
    <2>1. Leave(w) \/ Moves(w, "send", j)
      BY <1>2, <1>8 DEF RecordSearch, AfterSave, Goto, Moves
    <2> QED
      BY <1>1, <1>2, <1>6, <2>1, IdleWindow
  <1>9. CASE SendSearch(w)
    <2>1. Leave(w) \/ Moves(w, "finish", j)
      BY <1>2, <1>9 DEF SendSearch, AfterSend, Goto, Moves
    <2>2. j.file \in Files /\ Send(j.file, "search")
      BY <1>2, <1>9, NotYet DEF SendSearch, Operating
    <2>3. sent'[j.file]["search"] > 0
      BY <1>1, <2>2, SendType DEF Typed, Requested
    <2>4. Settled(j.file)'
      BY <2>3 DEF Settled
    <2> QED
      BY <1>1, <1>2, <1>6, <2>1, <2>4, IdleWindow
  <1> QED
    BY <1>7, <1>8, <1>9

\* Each worker's window after a step of a worker.
LEMMA StepWindow ==
    ASSUME MInv, WindowInv, NEW w \in Workers, Step(w), NEW v \in Workers
    PROVE  Window(pc[v], job[v])'
  <1>1. CASE v # w
    BY <1>1, OtherWindow
  <1>2. ASSUME ResetDone(w) \/ NotBegun(w) \/ Finish(w) \/ Abort(w) \/ Refused(w)
        PROVE  Window(pc[w], job[w])'
    <2>1. Leave(w)
      BY <1>2 DEF ResetDone, NotBegun, Finish, Abort, Refused
    <2> QED
      BY <2>1, IdleWindow DEF MInv
  <1>3. Window(pc[w], job[w])'
    BY <1>2, PreflightWindow, LookWindow, DeleteWindow, RecordWindow, FailWindow, SearchWindow
       DEF Step, Progress
  <1> QED
    BY <1>1, <1>3

\* The saves that complete no operation.
LEMMA SameCompleted ==
    ASSUME NEW s \in State
    PROVE  /\ \A k, phase : WithPhase(s, k, phase).completed = s.completed
           /\ \A k, automatic : WithOrigin(s, k, automatic).completed = s.completed
           /\ \A ids, n : WithAttempts(s, ids, n).completed = s.completed
           /\ \A k, op, ids, n : Begun(s, k, op, ids, n).completed = s.completed
           /\ \A k : WithCompletion(s, k).completed = s.completed \cup {k}
  BY DEF WithPhase, WithOrigin, WithAttempts, Begun, WithCompletion, WithOperation, State

\* Only the worker that has finished an operation takes it from the file.
LEMMA CompletedBy ==
    ASSUME MInv, IInv, [MediaNext]_mediaVars, NEW f \in Files,
           f \in Pending(disk), f \notin Pending(disk')
    PROVE  \E w \in Workers : Finish(w) /\ job[w].file = f
  <1>1. f \in disk'.completed
    <2>1. [Next]_vars
      BY StoreStep DEF MInv
    <2> QED
      BY <2>1, TraceKept
  <1>2. f \notin disk.completed /\ mem \in State
    BY DEF IInv, Sound
  <1>3. ASSUME NEW next, Update(next), next.completed = mem.completed
        PROVE  disk'.completed = disk.completed
    BY <1>3 DEF IInv, MemIsDisk, Update, Commits, CommitFails, Writable
  <1>4. ASSUME NEW w \in Workers, Step(w) PROVE Finish(w) /\ job[w].file = f
    <2>1. CASE Finish(w)
      <3>1. Update(WithCompletion(mem, job[w].file))
        BY <2>1 DEF Finish, Complete
      <3>2. disk' = disk \/ disk' = WithCompletion(disk, job[w].file)
        BY <3>1 DEF IInv, MemIsDisk, Update, Commits, CommitFails, Writable
      <3>3. f \in disk.completed \cup {job[w].file}
        BY <1>1, <3>2, SameCompleted DEF IInv, Sound
      <3> QED
        BY <1>2, <2>1, <3>3
    <2>2. CASE \E next : Update(next) /\ next.completed = mem.completed
      BY <1>1, <1>2, <1>3, <2>2
    <2>3. CASE disk' = disk
      BY <1>1, <1>2, <2>3
    <2>4. CASE ResetOne(w)
      <3>1. CASE disk' = disk
        BY <2>3, <3>1
      <3>2. ASSUME NEW e, Reset(e) PROVE Finish(w) /\ job[w].file = f
        <4>1. WithAttempts(mem, {e}, 0).completed = mem.completed
          BY <1>2, SameCompleted
        <4>2. Update(WithAttempts(mem, {e}, 0))
          BY <3>2 DEF Reset
        <4> QED
          BY <2>2, <4>1, <4>2
      <3> QED
        BY <2>4, <3>1, <3>2 DEF ResetOne, storeVars, vars, durableVars
    <2>5. CASE BeginOperation(w)
      BY <1>2, <2>2, <2>5, SameCompleted DEF BeginOperation, Begin
    <2>6. CASE RecordDeleted(w) \/ RecordOrigin(w) \/ RecordFailed(w) \/ RecordSearch(w)
      BY <1>2, <2>2, <2>6, SameCompleted
         DEF RecordDeleted, RecordOrigin, RecordFailed, RecordSearch, Phase, OriginRequested,
             SearchRequested
    <2> QED
      BY <1>4, <2>1, <2>3, <2>4, <2>5, <2>6
         DEF Step, Progress, Probe, Enter, Check, ResetDone, FindOrigin, PrepareOrigin, Recheck,
             Remap, NotBegun, DeleteFile, RefreshPolicy, RereadQueue, FailOrigin, ReadTargets,
             SendSearch, Abort, Refused, storeVars, vars, durableVars
  <1>5. CASE SaveOther
    BY <1>1, <1>2, <1>3, <1>5 DEF SaveOther, SaveWebhooks
  <1>6. CASE Restart
    <2>1. PICK configured \in Bindings : Start(configured)
      BY <1>6 DEF Restart
    <2>2. disk' \in {disk, Bound(Migrated(disk), configured)}
      BY <2>1 DEF Start, Starts, StartFails
    <2> QED
      BY <1>1, <1>2, <2>2, BoundSound DEF IInv
  <1>7. CASE Die
    BY <1>1, <1>2, <1>7 DEF Die, Stop, Crash
  <1>8. CASE (Surroundings /\ ~SaveOther) \/ UNCHANGED mediaVars
    BY <1>1, <1>2, <1>8 DEF Surroundings, Edit, Remove, Import, MoveOrigin, SetPolicy, mediaVars,
          storeVars, vars, durableVars
  <1> QED
    BY <1>4, <1>5, <1>6, <1>7, <1>8 DEF MediaNext

\* A worker's step settles what it takes from the journal and unsettles only
\* the file it deletes, which is in the journal.
LEMMA StepRemembered ==
    ASSUME MInv, IInv, WindowInv, NEW w \in Workers, Step(w)
    PROVE  LostInv' /\ NoDoubleSearch' /\ Remembered'
  <1>1. LostInv /\ NoDoubleSearch /\ Remembered /\ WorldTyped /\ Typed /\ raced' = raced
    BY StepWorld DEF WindowInv, MInv
  <1>2. \A g \in Files, q \in Requested :
            /\ sent[g][q] \in Nat
            /\ sent'[g][q] = sent[g][q] \/ sent'[g][q] = sent[g][q] + 1
    <2>1. CASE UNCHANGED sent
      BY <1>1, <2>1 DEF Typed
    <2>2. ASSUME NEW q \in Requested, Send(job[w].file, q), pc[w] # "idle"
          PROVE  \A g \in Files, r \in Requested :
                     sent'[g][r] = sent[g][r] \/ sent'[g][r] = sent[g][r] + 1
      BY <1>1, <2>2, SendType DEF MInv, Busy
    <2> QED
      BY <1>1, <2>1, <2>2, StepSends DEF MInv, Typed, Requested
  <1>3. {"delete", "fail", "search"} \subseteq Requested
    BY DEF Requested
  <1>4. ASSUME NEW f \in Files, f \notin Pending(disk), Settled(f),
               \A e \in Episodes : lostBy'[e] = f => lostBy[e] = f,
               arrSearched \subseteq arrSearched'
        PROVE  Settled(f)'
    <2>1. ASSUME NEW e \in Episodes, lostBy'[e] = f PROVE lostBy[e] = f /\ holder[e] = NoFile
      BY <1>1, <1>4, <2>1, MediaAssumption DEF LostInv
    <2>2. sent[f]["search"] > 0 => sent'[f]["search"] > 0
      BY <1>2, <1>3
    <2> QED
      BY <1>1, <1>4, <2>1, <2>2 DEF Settled, Raced
  <1>5. ASSUME NEW f \in Files, f \in Pending(disk), f \notin Pending(disk')
        PROVE  Settled(f)'
    <2>1. [MediaNext]_mediaVars
      BY DEF MediaNext
    <2>2. PICK v \in Workers : Finish(v) /\ job[v].file = f
      BY <1>5, <2>1, CompletedBy
    <2>3. Settled(f)
      BY <2>2 DEF Finish, WindowInv, Window, Known
    <2> QED
      BY <1>1, <2>2, <2>3 DEF Finish, Settled, Raced, arrVars, historyVars
  <1>6. ASSUME \A e \in Episodes, f \in Files : f \notin Pending(disk) =>
                   (lostBy'[e] = f => lostBy[e] = f),
               arrSearched \subseteq arrSearched'
        PROVE  Remembered'
    <2>1. ASSUME NEW f \in Files, f \notin Pending(disk') PROVE Settled(f)'
      <3>1. CASE f \in Pending(disk)
        BY <1>5, <2>1, <3>1
      <3>2. CASE f \notin Pending(disk)
        BY <1>1, <1>4, <1>6, <3>2 DEF Remembered
      <3> QED
        BY <3>1, <3>2
    <2> QED
      BY <2>1 DEF Remembered, Pending
  <1>7. CASE pc[w] = "delete"
    <2>1. DeleteFile(w) /\ job[w].file \in Pending(disk)
      BY <1>7, StepAt, NotYet DEF Operating
    <2>2. LostInv'
      BY <2>1, DeleteWindow
    <2>3. arrSearched' = arrSearched /\ Send(job[w].file, "delete") /\ job[w].file \in Files
      BY <1>7, <2>1, NotYet DEF DeleteFile, Operating
    <2>4. \A f \in Files : sent'[f]["search"] = sent[f]["search"]
      BY <1>1, <1>3, <2>3, SendType
    <2>5. NoDoubleSearch'
      BY <1>1, <2>3, <2>4 DEF NoDoubleSearch, WorldTyped
    <2>6. \A e \in Episodes : lostBy'[e] = lostBy[e] \/ lostBy'[e] = job[w].file
      BY <2>1 DEF DeleteFile
    <2> QED
      BY <1>6, <2>1, <2>2, <2>3, <2>5, <2>6
  <1>8. CASE pc[w] = "fail"
    <2>1. FailOrigin(w) /\ job[w].file \in Files /\ sent[job[w].file]["search"] = 0
      BY <1>8, StepAt, NotYet DEF Operating
    <2>2. /\ Send(job[w].file, "fail") /\ UNCHANGED <<holder, lostBy>>
          /\ arrSearched \subseteq arrSearched'
          /\ arrSearched' \subseteq arrSearched \cup {job[w].file}
      BY <2>1 DEF FailOrigin
    <2>3. \A f \in Files : /\ sent'[f]["search"] = sent[f]["search"]
                           /\ sent[f]["fail"] # 0 => sent'[f]["fail"] # 0
                           /\ sent[f]["delete"] # 0 => sent'[f]["delete"] # 0
      BY <1>1, <1>2, <1>3, <2>1, <2>2, SendType
    <2>4. sent'[job[w].file]["fail"] # 0
      BY <1>1, <1>2, <1>3, <2>1, <2>2, SendType
    <2>5. LostInv'
      BY <1>1, <2>2, <2>3, <2>4 DEF LostInv, WorldTyped
    <2>6. NoDoubleSearch'
      BY <1>1, <2>1, <2>2, <2>3 DEF NoDoubleSearch, WorldTyped
    <2> QED
      BY <1>6, <2>2, <2>5, <2>6
  <1>9. CASE pc[w] = "send"
    <2>1. /\ SendSearch(w) /\ job[w].file \in Files
          /\ job[w].file \notin arrSearched \/ Raced("policy", job[w].file)
      BY <1>9, StepAt, NotYet DEF Operating, WindowInv, Window, Followed
    <2>2. Send(job[w].file, "search") /\ UNCHANGED <<holder, lostBy, arrSearched>>
      BY <2>1 DEF SendSearch, arrVars
    <2>3. \A f \in Files : /\ f # job[w].file => sent'[f]["search"] = sent[f]["search"]
                           /\ sent'[f]["fail"] = sent[f]["fail"]
                           /\ sent'[f]["delete"] = sent[f]["delete"]
      BY <1>1, <1>3, <2>1, <2>2, SendType
    <2>4. LostInv'
      BY <1>1, <2>2, <2>3 DEF LostInv, WorldTyped
    <2>5. NoDoubleSearch'
      BY <1>1, <2>1, <2>2, <2>3 DEF NoDoubleSearch, WorldTyped, Raced
    <2> QED
      BY <1>6, <2>2, <2>4, <2>5
  <1>10. CASE pc[w] \notin {"delete", "fail", "send"}
    <2>1. UNCHANGED <<holder, arrSearched, lostBy, sent>>
      BY <1>10, StepWorld DEF arrVars
    <2>2. LostInv' /\ NoDoubleSearch'
      BY <1>1, <2>1 DEF LostInv, NoDoubleSearch
    <2> QED
      BY <1>6, <2>1, <2>2
  <1> QED
    BY <1>7, <1>8, <1>9, <1>10

\* A step that leaves the world and the workers alone, or ends the process.
LEMMA QuietWorld ==
    ASSUME MInv, IInv, WindowInv, SaveOther \/ Die \/ Restart \/ UNCHANGED mediaVars
    PROVE  /\ LostInv' /\ NoDoubleSearch' /\ Remembered'
           /\ \A w \in Workers : Window(pc[w], job[w])'
  <1>1. UNCHANGED <<present, used, holder, content, auto, sent, arrSearched, lostBy, raced>>
    BY DEF SaveOther, Die, Restart, mediaVars, arrVars, historyVars
  <1>2. LostInv' /\ NoDoubleSearch'
    BY <1>1 DEF WindowInv, LostInv, NoDoubleSearch
  <1>3. ASSUME NEW f \in Files, f \notin Pending(disk') PROVE Settled(f)'
    <2>1. [MediaNext]_mediaVars
      BY DEF MediaNext, Surroundings
    <2>2. Settled(f)
      <3>1. CASE f \in Pending(disk)
        BY <1>3, <2>1, <3>1, CompletedBy DEF Finish, WindowInv, Window, Known
      <3>2. CASE f \notin Pending(disk)
        BY <3>2 DEF WindowInv, Remembered
      <3> QED
        BY <3>1, <3>2
    <2> QED
      BY <1>1, <2>2 DEF Settled, Raced
  <1>4. ASSUME NEW w \in Workers PROVE Window(pc[w], job[w])'
    <2>1. CASE Die
      <3>1. pc'[w] = "idle" /\ job'[w] = NoJob
        BY <2>1 DEF Die
      <3> QED
        BY <3>1 DEF NoJob, Window, Prepared, Looked, Followed, Known, Judging, Early
    <2>2. CASE UNCHANGED guardVars
      <3>1. pc'[w] = pc[w] /\ job'[w] = job[w] /\ Window(pc[w], job[w])
        BY <2>2 DEF guardVars, WindowInv
      <3> QED
        BY <1>1, <3>1 DEF Window, Prepared, Looked, Followed, Known, Settled, Raced, Assigned
    <2> QED
      BY <2>1, <2>2 DEF SaveOther, Restart, mediaVars
  <1> QED
    BY <1>2, <1>3, <1>4 DEF Remembered, Pending

LEMMA WindowNext ==
    ASSUME MInv, IInv, WindowInv, [MediaNext]_mediaVars
    PROVE  WindowInv'
  <1>1. WorldTyped'
    BY WorldTypedNext DEF WindowInv
  <1>2. CASE \E w \in Workers : Step(w)
    BY <1>1, <1>2, StepWindow, StepRemembered DEF WindowInv
  <1>3. CASE \/ \E f \in Files : Edit(f) \/ Remove(f)
             \/ \E f \in Files, episodes \in SUBSET Episodes : Import(f, episodes)
             \/ \E d \in Downloads : MoveOrigin(d)
             \/ SetPolicy
    BY <1>1, <1>3, ChangedWindow, ChangedWorld DEF WindowInv
  <1>4. CASE SaveOther \/ Die \/ Restart \/ UNCHANGED mediaVars
    BY <1>1, <1>4, QuietWorld DEF WindowInv
  <1> QED
    BY <1>2, <1>3, <1>4 DEF MediaNext, Surroundings

LEMMA WindowInvariance == MediaSpec => []WindowInv
  <1>1. MediaInit => WindowInv
    BY WorldInit
  <1>2. MInv /\ IInv /\ WindowInv /\ [MediaNext]_mediaVars => WindowInv'
    BY WindowNext
  <1> QED
    BY <1>1, <1>2, MediaInvariance, PTL DEF MediaSpec

-----------------------------------------------------------------------------
(* Workers come back: none is stuck, and each goes one way only. *)

\* mutationMu belongs to a worker that is past it, and a busy worker has the
\* client of its Arr server.
HeldInv ==
    /\ mutex # NoWorker => mutex \in Workers /\ pc[mutex] \in Locked
    /\ \A w \in Workers : pc[w] # "idle" => clients[Kind] # NoServer

LEMMA HeldInit == MediaInit => HeldInv
  BY DEF MediaInit, HeldInv

LEMMA StepClients ==
    ASSUME NEW w \in Workers, Step(w)
    PROVE  /\ clients' = clients
           /\ pc[w] = "idle" => clients[Kind] # NoServer
  BY DEF Step, Progress, Probe, Enter, Check, ResetOne, ResetDone, FindOrigin, PrepareOrigin,
         Recheck, Remap, BeginOperation, NotBegun, DeleteFile, RecordDeleted,
         RefreshPolicy, RecordOrigin, RereadQueue, FailOrigin, RecordFailed, ReadTargets,
         RecordSearch, SendSearch, Finish, Abort, Refused, storeVars, vars,
         Begin, Phase, OriginRequested, SearchRequested, Complete, Reset, Reads, Saves

LEMMA HeldNext ==
    ASSUME MInv, HeldInv, [MediaNext]_mediaVars
    PROVE  HeldInv'
  <1>1. ASSUME NEW w \in Workers, Step(w) PROVE HeldInv'
    <2>1. Shape(w) /\ Typed
      BY <1>1, StepShape DEF MInv
    <2>2. mutex' # NoWorker => mutex' \in Workers /\ pc'[mutex'] \in Locked
      <3>1. CASE \E locals \in Job : pc[w] = "idle" /\ Goto(w, "probed", locals)
        <4>1. mutex' = mutex /\ mutex # w
          BY <3>1, StagesLocked, MediaAssumption DEF Goto, HeldInv
        <4> QED
          BY <2>1, <3>1, <4>1 DEF Goto, HeldInv, Typed
      <3>2. CASE pc[w] = "probed" /\ mutex = NoWorker /\ mutex' = w /\ Moves(w, "checking", job[w])
        <4>1. "checking" \in Locked
          BY DEF Locked, Reads
        <4> QED
          BY <2>1, <3>2, <4>1 DEF Moves, Typed
      <3>3. CASE \E stage \in Locked, locals \in Job : Goto(w, stage, locals)
        BY <2>1, <3>3 DEF Goto, HeldInv, Typed
      <3>4. CASE Leave(w)
        BY <2>1, <3>4 DEF Leave, HeldInv, Typed
      <3> QED
        BY <2>1, <3>1, <3>2, <3>3, <3>4 DEF Shape
    <2>3. ASSUME NEW v \in Workers, pc'[v] # "idle" PROVE clients'[Kind] # NoServer
      <3>1. CASE pc[w] = "idle" \/ pc[v] # "idle"
        BY <1>1, <3>1, StepClients DEF HeldInv
      <3>2. CASE pc[w] # "idle"
        BY <1>1, <3>2, StepClients DEF HeldInv
      <3> QED
        BY <3>1, <3>2
    <2> QED
      BY <2>2, <2>3 DEF HeldInv
  <1>2. CASE Surroundings \/ Restart \/ UNCHANGED mediaVars
    <2>1. UNCHANGED <<pc, mutex>>
      BY <1>2, OthersIdle
    <2>2. ASSUME NEW v \in Workers, pc[v] # "idle" PROVE clients' = clients
      <3>1. open
        BY <2>2 DEF MInv, Busy
      <3> QED
        BY <1>2, <3>1 DEF Surroundings, Edit, Remove, Import, MoveOrigin, SetPolicy, SaveOther,
              SaveWebhooks, Restart, Start, Starts, StartFails, mediaVars, storeVars, vars
    <2> QED
      BY <2>1, <2>2 DEF HeldInv
  <1>3. CASE Die
    BY <1>3 DEF Die, HeldInv
  <1> QED
    BY <1>1, <1>2, <1>3 DEF MediaNext

LEMMA HeldInvariance == MediaSpec => []HeldInv
  <1>1. MInv /\ HeldInv /\ [MediaNext]_mediaVars => HeldInv'
    BY HeldNext
  <1> QED
    BY <1>1, HeldInit, MediaInvariance, PTL DEF MediaSpec

\* The guards of a worker's steps, without the one that gives up (Abort): what
\* Arr answers and whether a save succeeds is not the worker's to choose.
MayGoOn(w) ==
    LET f == job[w].file
        d == job[w].download
    IN  \/ pc[w] = "probed" /\ mutex = NoWorker
        \/ pc[w] \in (Reads \ {"prepare"}) \cup Sends
        \/ pc[w] = "prepare" /\ (d = NoDownload \/ origin[d] \in OriginStates)
        \/ pc[w] = "resetting" /\ (job[w].ids = {} \/ open)
        \/ /\ pc[w] = "begin"
           /\ \/ writeErr
              \/ AlreadyDone(f)
              \/ Fenced(NewOperation(RequestFor(f, d), "delete-requested", job[w].automatic,
                                     "none"))
              \/ /\ open /\ clients[Kind] # NoServer
                 /\ \E attempt \in 0 .. MaxInt : IsNextAttempt(mem, job[w].ids, attempt)
        \/ /\ pc[w] \in Saves \ {"resetting", "begin"}
           /\ writeErr \/ (open /\ f \in Pending(mem))

\* No worker is stuck: it has a step to take, or it waits for mutationMu and
\* the worker that holds it has one.  A return that keeps the lock, a save
\* that expects an operation the journal no longer has, a Begin that finds
\* neither a reason to refuse nor an attempt to charge: each would end that.
MediaNeverStuck ==
    \A w \in Workers : pc[w] # "idle" =>
        \/ MayGoOn(w)
        \/ pc[w] = "probed" /\ mutex \in Workers \ {w} /\ MayGoOn(mutex)

LEMMA LockedGoesOn ==
    ASSUME MInv, IInv, WorldTyped, HeldInv, NEW w \in Workers, pc[w] \in Locked
    PROVE  MayGoOn(w)
  <1>1. /\ pc[w] # "idle" /\ open /\ clients[Kind] # NoServer
        /\ job[w] \in Job /\ job[w].download \in Downloads \cup {NoDownload}
        /\ job[w].ids \in SUBSET RetryKeys
    BY StagesLocked DEF MInv, Typed, Busy, HeldInv, Job, Episodes
  <1>2. CASE pc[w] \in Reads \cup Sends
    BY <1>1, <1>2 DEF MayGoOn, WorldTyped
  <1>3. CASE pc[w] = "resetting"
    BY <1>1, <1>3 DEF MayGoOn
  <1>4. CASE pc[w] = "begin"
    <2>1. mem.attempts \in [RetryKeys -> 0 .. MaxInt]
      BY DEF IInv, Sound, State
    <2>2. \E attempt \in 0 .. MaxInt : IsNextAttempt(mem, job[w].ids, attempt)
      BY <1>1, <2>1, NextAttemptExists
    <2> QED
      BY <1>1, <1>4, <2>2 DEF MayGoOn
  <1>5. CASE pc[w] \in Saves \ {"resetting", "begin"}
    <2>1. pc[w] \in Operating
      BY <1>5 DEF Saves, Operating
    <2>2. StageOK(pc[w], job[w].file, disk, mem, sent)
      BY <2>1 DEF MInv, StageInv
    <2>3. job[w].file \in Pending(mem)
      BY <2>2 DEF StageOK, Pending
    <2> QED
      BY <1>1, <1>5, <2>3 DEF MayGoOn
  <1> QED
    BY <1>2, <1>3, <1>4, <1>5 DEF Locked

\* What a stage leaves ahead of a worker: it never comes back to a stage, but
\* for the loop that resets the counters.
StagesLeft == [idle |-> 0, finish |-> 1, send |-> 2, search |-> 3, targets |-> 4, failed |-> 5,
               fail |-> 6, reread |-> 7, record |-> 8, refresh |-> 9, deleted |-> 10,
               delete |-> 11, begin |-> 12, remap |-> 13, recheck |-> 14, prepare |-> 15,
               origin |-> 16, resetting |-> 17, checking |-> 18, probed |-> 19]

Advances(w) ==
    \/ StagesLeft[pc'[w]] < StagesLeft[pc[w]]
    \/ /\ pc[w] = "resetting" /\ pc'[w] = "resetting"
       /\ \E e \in job[w].ids : job'[w].ids = job[w].ids \ {e}

Stays(w) == pc'[w] = pc[w] /\ job'[w] = job[w]

\* A worker that took up a file is set back by nobody, and every step it takes
\* brings it nearer to its return: a later stage, or an episode less to reset.
OnlyForward ==
    \A w \in Workers : pc[w] # "idle" =>
        /\ Stays(w) \/ Advances(w)
        /\ Progress(w) \/ Abort(w) => Advances(w)

LEMMA StepAdvances ==
    ASSUME MInv, NEW w \in Workers, Progress(w) \/ Abort(w)
    PROVE  Advances(w)
  <1>0. pc \in [Workers -> {"idle", "probed"} \cup Locked] /\ job \in [Workers -> Job]
    BY DEF MInv, Typed
  <1>1. ASSUME NEW stage, NEW locals, Goto(w, stage, locals) PROVE pc'[w] = stage
    BY <1>0, <1>1 DEF Goto
  <1>2. Leave(w) => pc'[w] = "idle"
    BY <1>0 DEF Leave
  <1>3. ASSUME NEW stage, NEW locals, AfterSave(w, stage, locals) PROVE pc'[w] \in {stage, "idle"}
    BY <1>1, <1>2, <1>3 DEF AfterSave
  <1>4. ASSUME NEW stage, NEW acked, AfterSend(w, acked, stage) PROVE pc'[w] \in {stage, "idle"}
    BY <1>1, <1>2, <1>4 DEF AfterSend
  <1>5. CASE ResetOne(w)
    <2>1. PICK e \in job[w].ids :
             \/ Goto(w, "resetting", [job[w] EXCEPT !.ids = @ \ {e}])
             \/ AfterSave(w, "resetting", [job[w] EXCEPT !.ids = @ \ {e}])
      BY <1>5 DEF ResetOne
    <2>2. pc[w] = "resetting"
      BY <1>5 DEF ResetOne
    <2> DEFINE locals == [job[w] EXCEPT !.ids = @ \ {e}]
    <2>3. locals.ids = job[w].ids \ {e}
      BY <1>0 DEF Job
    <2> HIDE DEF locals
    <2>4. Goto(w, "resetting", locals) \/ Leave(w)
      BY <2>1 DEF AfterSave, locals
    <2>5. CASE Goto(w, "resetting", locals)
      BY <1>0, <2>2, <2>3, <2>5 DEF Goto, Advances
    <2>6. CASE Leave(w)
      BY <1>2, <2>2, <2>6 DEF Advances, StagesLeft
    <2> QED
      BY <2>4, <2>5, <2>6
  <1>6. CASE Enter(w)
    BY <1>0, <1>6 DEF Enter, Advances, StagesLeft
  <1>7. CASE Check(w) \/ ResetDone(w) \/ FindOrigin(w) \/ PrepareOrigin(w) \/ Recheck(w) \/ Remap(w)
    <2>1. \/ pc[w] = "checking" /\ pc'[w] \in {"resetting", "origin", "idle"}
          \/ pc[w] = "resetting" /\ pc'[w] = "idle"
          \/ pc[w] = "origin" /\ pc'[w] = "prepare"
          \/ pc[w] = "prepare" /\ pc'[w] \in {"recheck", "idle"}
          \/ pc[w] = "recheck" /\ pc'[w] \in {"remap", "idle"}
          \/ pc[w] = "remap" /\ pc'[w] \in {"begin", "idle"}
      BY <1>1, <1>2, <1>7 DEF Check, ResetDone, FindOrigin, PrepareOrigin, Recheck, Remap
    <2> QED
      BY <2>1 DEF Advances, StagesLeft
  <1>8. CASE BeginOperation(w) \/ NotBegun(w) \/ DeleteFile(w) \/ RefreshPolicy(w)
             \/ RereadQueue(w) \/ FailOrigin(w)
    <2>1. \/ pc[w] = "begin" /\ pc'[w] \in {"delete", "idle"}
          \/ pc[w] = "delete" /\ pc'[w] \in {"deleted", "idle"}
          \/ pc[w] = "refresh" /\ pc'[w] = "record"
          \/ pc[w] = "reread" /\ pc'[w] \in {"fail", "idle"}
          \/ pc[w] = "fail" /\ pc'[w] \in {"failed", "idle"}
      BY <1>1, <1>2, <1>3, <1>4, <1>8
         DEF BeginOperation, NotBegun, DeleteFile, RefreshPolicy, RereadQueue, FailOrigin
    <2> QED
      BY <2>1 DEF Advances, StagesLeft
  <1>9. CASE RecordDeleted(w) \/ RecordOrigin(w) \/ RecordFailed(w)
    <2>1. \/ pc[w] = "deleted" /\ \E stage \in {"targets", "record", "refresh"} :
                AfterSave(w, stage, job[w])
          \/ pc[w] = "record" /\ \E stage \in {"reread", "fail"} : AfterSave(w, stage, job[w])
          \/ pc[w] = "failed" /\ \E stage \in {"finish", "targets"} : AfterSave(w, stage, job[w])
      BY <1>0, <1>9 DEF RecordDeleted, RecordOrigin, RecordFailed, Job
    <2>2. \/ pc[w] = "deleted" /\ pc'[w] \in {"targets", "record", "refresh", "idle"}
          \/ pc[w] = "record" /\ pc'[w] \in {"reread", "fail", "idle"}
          \/ pc[w] = "failed" /\ pc'[w] \in {"finish", "targets", "idle"}
      BY <1>3, <2>1
    <2> QED
      BY <2>2 DEF Advances, StagesLeft
  <1>10. CASE ReadTargets(w) \/ RecordSearch(w) \/ SendSearch(w) \/ Finish(w)
    <2>1. \/ pc[w] = "targets" /\ pc'[w] \in {"finish", "search"}
          \/ pc[w] = "search" /\ pc'[w] \in {"send", "idle"}
          \/ pc[w] = "send" /\ pc'[w] \in {"finish", "idle"}
          \/ pc[w] = "finish" /\ pc'[w] = "idle"
      BY <1>1, <1>2, <1>3, <1>4, <1>10 DEF ReadTargets, RecordSearch, SendSearch, Finish
    <2> QED
      BY <2>1 DEF Advances, StagesLeft
  <1>11. CASE Refused(w) \/ Abort(w)
    <2>1. pc[w] \in Reads \cup Saves \cup {"probed"} /\ pc'[w] = "idle"
      BY <1>2, <1>11 DEF Refused, Abort
    <2> QED
      BY <2>1 DEF Reads, Saves, Advances, StagesLeft
  <1> QED
    BY <1>5, <1>6, <1>7, <1>8, <1>9, <1>10, <1>11 DEF Progress

LEMMA ForwardNext ==
    ASSUME MInv, [MediaNext]_mediaVars
    PROVE  OnlyForward
  <1> SUFFICES ASSUME NEW w \in Workers, pc[w] # "idle"
               PROVE  Stays(w) \/ Advances(w)
    BY StepAdvances DEF OnlyForward
  <1>1. ASSUME NEW v \in Workers, Step(v) PROVE Stays(w) \/ Advances(w)
    <2>1. CASE v = w
      BY <1>1, <2>1, StepAdvances DEF Step, Probe
    <2>2. CASE v # w
      <3>1. Shape(v) /\ Typed
        BY <1>1, StepShape DEF MInv
      <3> QED
        BY <2>2, <3>1 DEF Shape, Goto, Moves, Leave, Typed, Stays
    <2> QED
      BY <2>1, <2>2
  <1>2. CASE Surroundings \/ Restart \/ UNCHANGED mediaVars
    BY <1>2, OthersIdle DEF Stays
  <1>3. CASE Die
    <2>1. pc'[w] = "idle" /\ pc[w] \in {"probed"} \cup Locked
      BY <1>3 DEF Die, MInv, Typed
    <2> QED
      BY <2>1 DEF Advances, StagesLeft, Locked, Reads, Sends, Saves
  <1> QED
    BY <1>1, <1>2, <1>3 DEF MediaNext

-----------------------------------------------------------------------------
(* The results. *)

\* The media worker uses the store as StateStore says its callers do: every
\* behaviour of the worker, Arr and the user is one of the store, so what is
\* proved of StateStore holds of MediaSpec.
THEOREM MediaImplementsStore == MediaSpec => Spec
  <1>1. MediaInit => Init
    BY DEF MediaInit
  <1>2. MInv /\ [MediaNext]_mediaVars => [Next]_vars
    BY StoreStep DEF MInv
  <1> QED
    BY <1>1, <1>2, MediaInvariance, PTL DEF MediaSpec, Spec

\* No lost answer, retry, redelivery, failed save or restart makes the guard
\* send a deletion, failure or search of an operation twice
\* (Remediation!OnceOnly).
THEOREM OnceOnlyCorrect == MediaSpec => []OnceOnly
  <1>1. MInv => OnceOnly
    BY DEF MInv
  <1> QED
    BY <1>1, MediaInvariance, PTL

\* mutationMu serializes everything a worker does after its probe
\* (Remediation!Exclusive).
THEOREM ExclusiveCorrect == MediaSpec => []Exclusive
  <1>1. MInv => Exclusive
    BY DEF MInv
  <1> QED
    BY <1>1, MediaInvariance, PTL

\* A request leaves only while the journal on disk announces it
\* (Remediation!PersistedBefore).
THEOREM PersistedBeforeCorrect == MediaSpec => PersistedBefore
  <1>1. MInv /\ [MediaNext]_mediaVars =>
            [\A f \in Files, r \in Requested :
                sent'[f][r] > sent[f][r] => Journalled(f, r)]_mediaVars
    <2> SUFFICES ASSUME MInv, [MediaNext]_mediaVars, NEW f \in Files, NEW r \in Requested,
                        sent'[f][r] > sent[f][r]
                 PROVE  Journalled(f, r)
      OBVIOUS
    <2>1. sent[f][r] \in Nat
      BY DEF MInv, Typed
    <2>2. sent'[f][r] # sent[f][r]
      BY <2>1
    <2> QED
      BY <2>2, SentOnce
  <1> QED
    BY <1>1, MediaInvariance, PTL DEF MediaSpec, PersistedBefore

\* "The budget covers the entire destructive sequence": between two resets of
\* its counter no episode loses more than MaxAttempts files to the guard, for
\* any number of files, workers, regroupings, failed saves and restarts.  The
\* attempts allowed are within the range of a counter: config.Load allows 1000.
THEOREM WithinBudgetCorrect ==
    ASSUME MaxAttempts <= MaxInt
    PROVE  MediaSpec => []WithinBudget
  <1>1. MediaInit => BudgetInv
    <2> SUFFICES ASSUME MediaInit PROVE BudgetInv
      OBVIOUS
    <2>1. Sound(mem) /\ Sound(disk)
      BY InitInv DEF MediaInit, IInv
    <2>2. spent = [e \in Episodes |-> 0] /\ \A w \in Workers : pc[w] = "idle"
      BY DEF MediaInit
    <2>3. Charged(mem, spent) /\ Charged(disk, spent)
      BY <2>1, <2>2, CountersType DEF Charged
    <2>4. \A w \in Workers : Paid(pc[w], job[w].ids, spent, mem, disk)
      BY <2>2 DEF Paid, Judging
    <2> QED
      BY <2>2, <2>3, <2>4, MediaAssumption DEF BudgetInv, WithinBudget
  <1>2. MInv /\ IInv /\ BudgetInv /\ [MediaNext]_mediaVars => BudgetInv'
    BY BudgetNext
  <1>3. BudgetInv => WithinBudget
    BY DEF BudgetInv
  <1> QED
    BY <1>1, <1>2, <1>3, MediaInvariance, PTL DEF MediaSpec

\* The state of the media workers and of what surrounds them is well typed.
THEOREM MediaTypeCorrect == MediaSpec => []MediaTypeOK
  <1>1. MInv /\ IInv /\ WindowInv => MediaTypeOK
    BY DEF MInv, Typed, WindowInv, WorldTyped, IInv, Sound, MediaTypeOK, TypeOK, Job
  <1> QED
    BY <1>1, MediaInvariance, WindowInvariance, PTL

\* "Never duplicate the search when Arr owns automatic recovery": Arr and the
\* guard both search for a file's episodes only if the policy was changed
\* between the last look at it and the request (Remediation!NoDoubleSearch).
THEOREM NoDoubleSearchCorrect == MediaSpec => []NoDoubleSearch
  <1>1. WindowInv => NoDoubleSearch
    BY DEF WindowInv
  <1> QED
    BY <1>1, WindowInvariance, PTL

\* Whatever fails, dies or changes: an episode whose file the guard deleted is
\* still in the journal, or searched for, or has a file, or was taken from
\* under the worker in a window it cannot watch (Remediation!NotForgotten).
THEOREM NotForgottenCorrect == MediaSpec => []NotForgotten
  <1>1. WindowInv => NotForgotten
    <2> SUFFICES ASSUME WindowInv, NEW e \in Episodes,
                        lostBy[e] # NoFile, holder[e] = NoFile
                 PROVE  \/ lostBy[e] \in Pending(disk)
                        \/ sent[lostBy[e]]["search"] > 0
                        \/ lostBy[e] \in arrSearched
                        \/ <<"policy", lostBy[e]>> \in raced
                        \/ <<"mapping", lostBy[e]>> \in raced
      BY DEF NotForgotten
    <2>1. lostBy[e] \in Files
      BY DEF WindowInv, WorldTyped
    <2>2. lostBy[e] \in Pending(disk) \/ Settled(lostBy[e])
      BY <2>1 DEF WindowInv, Remembered
    <2> QED
      BY <2>2 DEF Settled, Raced
  <1> QED
    BY <1>1, WindowInvariance, PTL

\* Nothing is deleted but what was probed and found bad, with every episode
\* that shares it charged, unless it changed after the last look at it, for any
\* number of changes (Remediation!JudgedBefore).
THEOREM JudgedBeforeCorrect == MediaSpec => JudgedBefore
  <1>1. MInv /\ WindowInv /\ [MediaNext]_mediaVars =>
           [\A w \in Workers, f \in Files :
               sent'[f]["delete"] > sent[f]["delete"] /\ pc[w] = "delete" /\ f \in present =>
                   /\ content[f] = "bad" \/ <<"file", f>> \in raced
                   /\ Assigned(f) = job[w].ids \/ <<"mapping", f>> \in raced]_mediaVars
    <2> SUFFICES ASSUME MInv, WindowInv, [MediaNext]_mediaVars,
                        NEW w \in Workers, NEW f \in Files,
                        sent'[f]["delete"] > sent[f]["delete"],
                        pc[w] = "delete", f \in present
                 PROVE  /\ content[f] = "bad" \/ <<"file", f>> \in raced
                        /\ Assigned(f) = job[w].ids \/ <<"mapping", f>> \in raced
      OBVIOUS
    <2>1. sent'[f]["delete"] # sent[f]["delete"]
      <3>1. sent[f]["delete"] \in Nat
        BY DEF MInv, Typed, Requested
      <3> QED
        BY <3>1
    <2>2. PICK v \in Workers : Step(v)
      BY <2>1, OthersIdle DEF MediaNext, Die, historyVars
    <2>3. PICK r \in Requested :
             /\ Send(job[v].file, r)
             /\ pc[v] = CASE r = "delete" -> "delete"
                          [] r = "fail"   -> "fail"
                          [] r = "search" -> "send"
      BY <2>1, <2>2, StepSends DEF MInv
    <2>4. pc[v] \in Operating /\ pc[v] \in Locked /\ pc[w] \in Locked
      BY <2>3, StagesLocked DEF Operating, Requested
    <2>5. v = w /\ job[v].file \in Files
      BY <2>4, StagesLocked DEF MInv, Exclusive, Busy
    <2>6. job[w].file = f
      BY <2>1, <2>3, <2>5, SendType DEF MInv, Requested
    <2>7. Looked("delete", job[w])
      BY DEF WindowInv, Window
    <2> QED
      BY <2>6, <2>7 DEF Looked, Raced
  <1> QED
    BY <1>1, MediaInvariance, WindowInvariance, PTL DEF MediaSpec, JudgedBefore

-----------------------------------------------------------------------------
(* The workers and the file are a ledger. *)

LEMMA SameStand ==
    ASSUME NEW s, NEW t, NEW f \in Files, SameTrace(s, t, f)
    PROVE  Stand(t, f) = Stand(s, f)
  BY DEF SameTrace, Stand, Pending

\* A step that saves a state built for one file leaves the ledger as it is, or
\* moves this file to what that state says of it.
LEMMA StandMoves ==
    ASSUME IInv, NEW f \in Files, NEW next, Update(next),
           \A k \in Keys \ {f} : SameTrace(mem, next, k)
    PROVE  /\ Announced' \in {Announced, [Announced EXCEPT ![f] = Stand(next, f)]}
           /\ Announced[f] = Stand(mem, f)
  <1>1. mem = disk /\ disk' \in {disk, next}
    BY SaveLeaves
  <1>2. \A g \in Files \ {f} : Stand(next, g) = Stand(disk, g)
    BY <1>1, SameStand, MediaAssumption
  <1>3. CASE disk' = disk
    BY <1>1, <1>3 DEF Announced
  <1>4. CASE disk' = next
    BY <1>1, <1>2, <1>4 DEF Announced
  <1> QED
    BY <1>1, <1>3, <1>4

\* What the worker's stage tells of the ledger.
LEMMA StageStand ==
    ASSUME MInv, NEW w \in Workers, pc[w] \in Operating
    PROVE  /\ job[w].file \in Files
           /\ Announced[job[w].file] = Announces(mem.operations[job[w].file].phase)
           /\ mem.operations[job[w].file] = disk.operations[job[w].file]
           /\ job[w].file \in Pending(mem)
  <1>1. job[w].file \in Files /\ StageOK(pc[w], job[w].file, disk, mem, sent)
    BY StagesLocked DEF MInv, StageInv, Busy
  <1>2. /\ job[w].file \in Pending(disk)
        /\ disk.operations[job[w].file] = mem.operations[job[w].file]
    BY <1>1 DEF StageOK
  <1> QED
    BY <1>1, <1>2 DEF Announced, Stand, Pending

\* A save for one file is a step of the ledger if what the saved state says is.
LEMMA SavedIsStep ==
    ASSUME IInv, NEW f \in Files, NEW next, Update(next), UNCHANGED sent,
           \A k \in Keys \ {f} : SameTrace(mem, next, k),
           \/ Stand(next, f) = Announced[f]
           \/ /\ Stand(next, f) \in Requested
              /\ Announced[f] = "none" \/ Ledger!Settled(f)
              /\ \A q \in Requested : q = Announced[f] \/ sent[f][q] > 0 =>
                    <<q, Stand(next, f)>> \in Follows
           \/ Stand(next, f) = "closed" /\ Ledger!Settled(f)
    PROVE  [Ledger!LedgerNext]_(Ledger!ledgerVars)
  <1>1. Announced' \in {Announced, [Announced EXCEPT ![f] = Stand(next, f)]}
    BY StandMoves
  <1>2. [Announced EXCEPT ![f] = Announced[f]] = Announced
    BY DEF Announced
  <1>3. CASE Announced' = Announced
    BY <1>3 DEF Ledger!ledgerVars
  <1>4. CASE /\ Announced' = [Announced EXCEPT ![f] = Stand(next, f)]
             /\ Stand(next, f) \in Requested
             /\ Announced[f] = "none" \/ Ledger!Settled(f)
             /\ \A q \in Requested : q = Announced[f] \/ sent[f][q] > 0 =>
                   <<q, Stand(next, f)>> \in Follows
    <2>1. Ledger!Announce(f, Stand(next, f))
      BY <1>4 DEF Ledger!Announce
    <2> QED
      BY <1>4, <2>1 DEF Ledger!LedgerNext
  <1>5. CASE /\ Announced' = [Announced EXCEPT ![f] = Stand(next, f)]
             /\ Stand(next, f) = "closed" /\ Ledger!Settled(f)
    BY <1>5 DEF Ledger!Close, Ledger!LedgerNext
  <1> QED
    BY <1>1, <1>2, <1>3, <1>4, <1>5

\* Begin announces the deletion of a file for which nothing was sent.
LEMMA BeginIsStep ==
    ASSUME MInv, IInv, NEW w \in Workers, BeginOperation(w)
    PROVE  [Ledger!LedgerNext]_(Ledger!ledgerVars)
  <1> DEFINE f == job[w].file
             r == RequestFor(f, job[w].download)
             op == NewOperation(r, "delete-requested", job[w].automatic, "none")
  <1>1. f \in Files /\ KnownDownload(w) /\ job[w].automatic \in BOOLEAN
    BY DEF BeginOperation, MInv, Busy, Typed, Job
  <1>2. r \in Requests /\ r.key = f
    BY <1>1, RequestForType DEF KnownDownload, RequestFor
  <1>3. op \in Operation /\ IsEntryOf(op, r) /\ op.phase = "delete-requested"
    BY <1>1, <1>2, NewOperationType DEF Phases, NewOperation
  <1>4. PICK attempt \in 0 .. MaxInt :
           Begin(r, "delete-requested", job[w].automatic, "none", job[w].ids, attempt)
    BY DEF BeginOperation
  <1> DEFINE next == Begun(mem, f, op, job[w].ids, attempt)
  <1>5. /\ f \notin mem.completed
        /\ \A k \in Pending(mem) : ~Fences(mem.operations[k], op)
        /\ Update(next)
    BY <1>2, <1>4 DEF Begin, AlreadyDone, Fenced
  <1>6. Sound(mem) /\ mem = disk
    BY <1>5, SaveLeaves
  <1>7. UNCHANGED sent
    BY DEF BeginOperation, historyVars
  <1> HIDE DEF op, r
  <1>8. f \notin Pending(disk)
    BY <1>2, <1>3, <1>5, <1>6, KeyFree
  <1>9. \A q \in Requested : sent[f][q] = 0
    BY <1>1, <1>5, <1>6, <1>8 DEF MInv, Fresh
  <1>10. next.operations[f] = op /\ \A k \in Keys \ {f} : SameTrace(mem, next, k)
    BY <1>1, <1>6, OneTrace, MediaAssumption
  <1> HIDE DEF next
  <1>11. Stand(next, f) = "delete"
    BY <1>1, <1>3, <1>10, NoOpAssumption, MediaAssumption DEF Stand, Pending, Announces
  <1>12. Announced[f] = "none"
    BY <1>1, <1>5, <1>6, <1>8 DEF Announced, Stand
  <1>13. \A q \in Requested : ~(q = Announced[f] \/ sent[f][q] > 0)
    BY <1>9, <1>12 DEF Requested
  <1> QED
    BY <1>1, <1>5, <1>7, <1>10, <1>11, <1>12, <1>13, SavedIsStep DEF Requested

\* The saves of an operation under way, and its completion.
LEMMA RecordIsStep ==
    ASSUME MInv, IInv, NEW w \in Workers,
           RecordDeleted(w) \/ RecordOrigin(w) \/ RecordFailed(w) \/ RecordSearch(w) \/ Finish(w)
    PROVE  [Ledger!LedgerNext]_(Ledger!ledgerVars)
  <1> DEFINE f == job[w].file
  <1>1. pc[w] \in Operating /\ UNCHANGED sent
    BY DEF RecordDeleted, RecordOrigin, RecordFailed, RecordSearch, Finish, Operating, historyVars
  <1>2. /\ f \in Files /\ f \in Keys
        /\ Announced[f] = Announces(mem.operations[f].phase)
        /\ f \in Pending(mem)
        /\ job[w].automatic \in BOOLEAN
    BY <1>1, StageStand, MediaAssumption DEF MInv, Typed, Job
  <1>3. StageOK(pc[w], f, disk, mem, sent) /\ mem.operations[f] = disk.operations[f]
    BY <1>1, StageStand DEF MInv, StageInv
  <1>4. Announced[f] \in Requested
    BY <1>2 DEF Announces, Requested
  <1>5. pc[w] \notin Asking => Ledger!Settled(f)
    BY <1>2, <1>3, <1>4 DEF StageOK, Ledger!Settled
  <1>6. Sound(mem)
    BY DEF IInv
  <1>7. CASE RecordDeleted(w) \/ RecordOrigin(w) \/ RecordFailed(w) \/ RecordSearch(w)
    <2> DEFINE Writes(op, phase) == /\ Update(WithOperation(mem, f, op))
                                    /\ f \in Pending(WithOperation(mem, f, op))
                                    /\ WithOperation(mem, f, op).operations[f].phase = phase
    <2>1. ASSUME NEW phase \in Phases, Update(WithPhase(mem, f, phase))
          PROVE  \E op : Writes(op, phase)
      BY <1>2, <1>6, <2>1, PhaseEntry DEF WithPhase
    <2>2. ASSUME Update(WithOrigin(mem, f, job[w].automatic))
          PROVE  \E op : Writes(op, "origin-requested")
      <3> DEFINE op == [mem.operations[f] EXCEPT !.phase = "origin-requested",
                                                 !.automatic = job[w].automatic]
      <3>1. WithOrigin(mem, f, job[w].automatic) = WithOperation(mem, f, op)
        BY DEF WithOrigin
      <3> HIDE DEF op
      <3>2. /\ f \in Pending(WithOrigin(mem, f, job[w].automatic))
            /\ WithOrigin(mem, f, job[w].automatic).operations[f].phase = "origin-requested"
        BY <1>2, <1>6, OriginEntry
      <3> QED
        BY <2>2, <3>1, <3>2
    <2> DEFINE phase == CASE pc[w] = "deleted" -> "deleted"
                          [] pc[w] = "record" -> "origin-requested"
                          [] pc[w] = "failed" -> "origin-complete"
                          [] OTHER -> "search-requested"
    <2>3. PICK op : Writes(op, phase)
      <3>1. CASE RecordDeleted(w)
        BY <2>1, <3>1 DEF RecordDeleted, Phase, Phases
      <3>2. CASE RecordOrigin(w)
        BY <2>2, <3>2 DEF RecordOrigin, OriginRequested
      <3>3. CASE RecordFailed(w)
        BY <2>1, <3>3 DEF RecordFailed, Phase, Phases
      <3>4. CASE RecordSearch(w)
        BY <2>1, <3>4 DEF RecordSearch, SearchRequested, Phases
      <3> QED
        BY <1>7, <3>1, <3>2, <3>3, <3>4
    <2> DEFINE next == WithOperation(mem, f, op)
    <2>4. \A k \in Keys \ {f} : SameTrace(mem, next, k)
      BY <1>2, <1>6, OneTrace, StoreAssumption
    <2>5. Stand(next, f) = Announces(phase)
      BY <2>3 DEF Stand
    <2> HIDE DEF next
    <2>6. CASE RecordDeleted(w) \/ RecordFailed(w)
      <3>1. Stand(next, f) = Announced[f]
        BY <1>2, <1>3, <2>3, <2>5, <2>6 DEF next, RecordDeleted, RecordFailed, StageOK, Announces
      <3> QED
        BY <1>1, <1>2, <2>3, <2>4, <3>1, SavedIsStep DEF next
    <2>7. CASE RecordOrigin(w)
      <3>1. Stand(next, f) = "fail" /\ pc[w] = "record"
        BY <2>3, <2>5, <2>7 DEF next, RecordOrigin, Announces
      <3>2. \A q \in Requested : q = Announced[f] \/ sent[f][q] > 0 => q = "delete"
        BY <1>2, <1>3, <1>4, <3>1 DEF StageOK, Left, Asking
      <3>3. Ledger!Settled(f)
        BY <1>5, <3>1 DEF Asking
      <3>4. \A q \in Requested : q = Announced[f] \/ sent[f][q] > 0 =>
               <<q, Stand(next, f)>> \in Follows
        BY <3>1, <3>2 DEF Follows
      <3> QED
        BY <1>1, <1>2, <2>3, <2>4, <3>1, <3>3, <3>4, SavedIsStep DEF next, Requested
    <2>8. CASE RecordSearch(w)
      <3>1. Stand(next, f) = "search" /\ pc[w] = "search"
        BY <2>3, <2>5, <2>8 DEF next, RecordSearch, Announces
      <3>2. \A q \in Requested : q = Announced[f] \/ sent[f][q] > 0 => q \in {"delete", "fail"}
        BY <1>2, <1>3, <1>4, <3>1 DEF StageOK, Left, Asking
      <3>3. Ledger!Settled(f)
        BY <1>5, <3>1 DEF Asking
      <3>4. \A q \in Requested : q = Announced[f] \/ sent[f][q] > 0 =>
               <<q, Stand(next, f)>> \in Follows
        BY <3>1, <3>2 DEF Follows
      <3> QED
        BY <1>1, <1>2, <2>3, <2>4, <3>1, <3>3, <3>4, SavedIsStep DEF next, Requested
    <2> QED
      BY <1>7, <2>6, <2>7, <2>8
  <1>8. CASE Finish(w)
    <2> DEFINE next == WithCompletion(mem, f)
    <2>1. Update(next) /\ pc[w] = "finish"
      BY <1>8 DEF Finish, Complete
    <2>2. /\ next.operations[f] = NoOp /\ f \in next.completed
          /\ \A k \in Keys \ {f} : SameTrace(mem, next, k)
      BY <1>2, <1>6, OneTrace, StoreAssumption
    <2> HIDE DEF next
    <2>3. Stand(next, f) = "closed"
      BY <2>2 DEF Stand, Pending
    <2>4. Ledger!Settled(f)
      BY <1>5, <2>1 DEF Asking
    <2> QED
      BY <1>1, <1>2, <2>1, <2>2, <2>3, <2>4, SavedIsStep
  <1> QED
    BY <1>7, <1>8

\* The requests.
LEMMA RequestIsStep ==
    ASSUME MInv, IInv, NEW w \in Workers, DeleteFile(w) \/ FailOrigin(w) \/ SendSearch(w)
    PROVE  [Ledger!LedgerNext]_(Ledger!ledgerVars)
  <1> DEFINE f == job[w].file
  <1>1. pc[w] \in Operating /\ UNCHANGED disk
    BY DEF DeleteFile, FailOrigin, SendSearch, Operating, storeVars, vars, durableVars
  <1>2. /\ f \in Files
        /\ Announced[f] = Announces(disk.operations[f].phase)
        /\ StageOK(pc[w], f, disk, mem, sent)
    BY <1>1, StageStand DEF MInv, StageInv
  <1>3. PICK r \in Requested : /\ Send(f, r)
                               /\ \/ r = "delete" /\ pc[w] = "delete"
                                  \/ r = "fail" /\ pc[w] = "fail"
                                  \/ r = "search" /\ pc[w] = "send"
    BY DEF DeleteFile, FailOrigin, SendSearch, Requested
  <1>4. Announced[f] = r /\ sent[f][r] = 0
    BY <1>2, <1>3 DEF StageOK, Announces, Left
  <1>5. sent' = [sent EXCEPT ![f][r] = 1]
    BY <1>3, <1>4 DEF Send
  <1>6. Announced' = Announced
    BY <1>1 DEF Announced
  <1>7. Ledger!Ask(f)
    BY <1>4, <1>5, <1>6 DEF Ledger!Ask
  <1> QED
    BY <1>2, <1>7 DEF Ledger!LedgerNext

\* Every other step leaves requests and journal alone.
LEMMA OthersStand ==
    ASSUME MInv, IInv, [MediaNext]_mediaVars,
           ~\E w \in Workers :
               \/ BeginOperation(w) \/ RecordDeleted(w) \/ RecordOrigin(w) \/ RecordFailed(w)
               \/ RecordSearch(w) \/ Finish(w) \/ DeleteFile(w) \/ FailOrigin(w) \/ SendSearch(w)
    PROVE  UNCHANGED <<Announced, sent>>
  <1>0. Sound(mem) /\ Sound(disk)
    BY DEF IInv
  <1>1. ASSUME disk'.operations = disk.operations, disk'.completed = disk.completed
        PROVE  UNCHANGED Announced
    BY <1>1 DEF Announced, Stand, Pending
  <1>2. ASSUME NEW next, Update(next), next.operations = mem.operations,
               next.completed = mem.completed
        PROVE  UNCHANGED Announced
    BY <1>1, <1>2, SaveLeaves
  <1>3. CASE UNCHANGED <<disk, sent>>
    BY <1>1, <1>3
  <1>4. ASSUME NEW w \in Workers, ResetOne(w) PROVE UNCHANGED <<Announced, sent>>
    <2>1. UNCHANGED sent
      BY <1>4 DEF ResetOne
    <2>2. CASE UNCHANGED disk
      BY <1>1, <2>1, <2>2
    <2>3. ASSUME NEW e, Reset(e) PROVE UNCHANGED Announced
      <3>1. /\ WithAttempts(mem, {e}, 0).operations = mem.operations
            /\ WithAttempts(mem, {e}, 0).completed = mem.completed
        BY <1>0, AttemptsSound, StoreAssumption
      <3> QED
        BY <1>2, <2>3, <3>1 DEF Reset
    <2> QED
      BY <1>4, <2>1, <2>2, <2>3 DEF ResetOne, storeVars, vars, durableVars
  <1>5. ASSUME NEW w \in Workers, Step(w), ~ResetOne(w) PROVE UNCHANGED <<Announced, sent>>
    <2>1. UNCHANGED <<disk, sent>>
      BY <1>5 DEF Step, Progress, Probe, Enter, Check, ResetDone, FindOrigin, PrepareOrigin,
            Recheck, Remap, NotBegun, RefreshPolicy, RereadQueue, ReadTargets, Abort, Refused,
            storeVars, vars, durableVars, historyVars
    <2> QED
      BY <1>3, <2>1
  <1>6. CASE SaveOther
    BY <1>2, <1>6 DEF SaveOther, SaveWebhooks, historyVars
  <1>7. CASE Surroundings /\ ~SaveOther
    BY <1>3, <1>7 DEF Surroundings, Edit, Remove, Import, MoveOrigin, SetPolicy, storeVars, vars,
          durableVars, historyVars
  <1>8. CASE Restart
    BY <1>1, <1>8, StartTrace DEF Restart, historyVars
  <1>9. CASE Die \/ UNCHANGED mediaVars
    BY <1>3, <1>9 DEF Die, Stop, Crash, mediaVars, storeVars, vars, durableVars, historyVars
  <1> QED
    BY <1>4, <1>5, <1>6, <1>7, <1>8, <1>9 DEF MediaNext

\* Whatever is lost, retried, redelivered or restarted: a deletion, a failure
\* and a search leave in this order, each announced in the file before it is
\* sent and sent once, and no operation is closed with one of them announced
\* and unsent (Remediation!AsksInOrder).
THEOREM AsksInOrderCorrect == MediaSpec => AsksInOrder
  <1>1. MediaInit => Ledger!LedgerInit
    <2> SUFFICES ASSUME MediaInit PROVE Ledger!LedgerInit
      OBVIOUS
    <2>1. \A f \in Files : Stand(disk, f) = "none"
      BY MediaAssumption DEF MediaInit, Init, Stand, Pending
    <2> QED
      BY <2>1 DEF MediaInit, Announced, Ledger!LedgerInit
  <1>2. MInv /\ IInv /\ [MediaNext]_mediaVars => [Ledger!LedgerNext]_(Ledger!ledgerVars)
    BY BeginIsStep, RecordIsStep, RequestIsStep, OthersStand DEF Ledger!ledgerVars
  <1> QED
    BY <1>1, <1>2, MediaInvariance, PTL DEF MediaSpec, AsksInOrder, Ledger!LedgerSpec

\* In every reachable state each busy worker has a step to take, or waits for
\* one that has (the locking of mutationMu in applyValidation, remediation.go).
\* Together with OnlyForward this is what Remediation!Returns rests on.
THEOREM MediaNeverStuckCorrect == MediaSpec => []MediaNeverStuck
  <1>1. MInv /\ IInv /\ WindowInv /\ HeldInv => MediaNeverStuck
    <2> SUFFICES ASSUME MInv, IInv, WindowInv, HeldInv, NEW w \in Workers, pc[w] # "idle"
                 PROVE  \/ MayGoOn(w)
                        \/ pc[w] = "probed" /\ mutex \in Workers \ {w} /\ MayGoOn(mutex)
      BY DEF MediaNeverStuck
    <2>1. WorldTyped /\ pc[w] \in {"probed"} \cup Locked
      BY DEF WindowInv, MInv, Typed
    <2>2. CASE pc[w] \in Locked
      BY <2>1, <2>2, LockedGoesOn
    <2>3. CASE pc[w] = "probed" /\ mutex = NoWorker
      BY <2>3 DEF MayGoOn
    <2>4. CASE pc[w] = "probed" /\ mutex # NoWorker
      <3>1. mutex \in Workers /\ pc[mutex] \in Locked /\ mutex # w
        BY <2>4, StagesLocked DEF HeldInv
      <3>2. MayGoOn(mutex)
        BY <2>1, <3>1, LockedGoesOn
      <3> QED
        BY <2>4, <3>1, <3>2
    <2> QED
      BY <2>1, <2>2, <2>3, <2>4
  <1> QED
    BY <1>1, MediaInvariance, WindowInvariance, HeldInvariance, PTL

\* Nothing sets a worker back, and each of its steps is one of a bounded
\* number, whatever Arr, the user, the disk and the other workers do meanwhile.
THEOREM OnlyForwardCorrect == MediaSpec => [][OnlyForward]_mediaVars
  <1>1. MInv /\ [MediaNext]_mediaVars => [OnlyForward]_mediaVars
    BY ForwardNext
  <1> QED
    BY <1>1, MediaInvariance, PTL DEF MediaSpec
=============================================================================
