--------------------------- MODULE QueueRecovery ---------------------------
(***************************************************************************)
(* The scan of Arr's queue for downloads that were rejected on import      *)
(* (guard/queue_recovery.go, recoverBlockedQueue in guard/service.go): a   *)
(* rejected download is removed and blocklisted, and its episodes that     *)
(* have neither a file nor another live download are searched for.         *)
(*                                                                         *)
(* One goroutine scans.  It holds mutationMu for one download at a time;   *)
(* between downloads the media workers get it, and all the while Arr, the  *)
(* download client and the user change queue and library.  Importing an    *)
(* exhausted download is ManualImport's subject: here an import begins, or *)
(* does not, and is found complete at some later time.                     *)
(*                                                                         *)
(* This is Sonarr, and one series; a movie is a series of one episode,     *)
(* whose rows all name it.  The configuration is not the dry run.          *)
(***************************************************************************)
EXTENDS StateStore, FiniteSets

CONSTANTS
    Kind,
    Subject,        \* the series
    QueueKey,       \* download |-> the key of its operation
    Rows,           \* queue rows: [download, episode], unique IDs in Arr
    NoRow,
    NoEpisode,      \* the episode of a row Arr could not parse
    Grabbed,        \* download |-> the episodes of its grabbed history
    FirstRows,      \* the queues a scan may find: row |-> state
    Moves,          \* bound on the states rows come to later
    MediaRequests,  \* operations of the media workers
    MaxAttempts,
    MaxChanges      \* bound on what everybody else changes

Episodes == RetryKeys \ Legacy
RowStates == {"blocked", "imported", "active", "stuck", "gone"}

RequestFor(d) == [key |-> QueueKey[d], kind |-> Kind, subject |-> Subject, download |-> d]

ASSUME QueueAssumption ==
    /\ Kind \in Kinds /\ Subject \in Subjects
    /\ NoEpisode \notin Episodes
    /\ QueueKey \in [Downloads -> Keys]
    /\ \A c, d \in Downloads : QueueKey[c] = QueueKey[d] => c = d
    /\ Rows \subseteq [download : Downloads, episode : Episodes \cup {NoEpisode}]
    /\ NoRow \notin Rows
    /\ Grabbed \in [Downloads -> (SUBSET Episodes) \ {{}}]
    /\ FirstRows \subseteq [Rows -> RowStates]
    /\ Moves \subseteq RowStates
    /\ MediaRequests \subseteq {r \in Requests : \A d \in Downloads : r.key # QueueKey[d]}
    /\ \A d \in Downloads : RequestFor(d) \in Requests
    /\ MaxAttempts \in 0 .. MaxInt /\ MaxChanges \in Nat

VARIABLES
    \* Arr
    rows,       \* the queue: row |-> state
    missing,    \* episodes without a file
    \* the scan
    pc,
    todo,       \* items of this scan not yet looked at, one per download
    searched,   \* keys marked as searched in this scan
    job,        \* local variables of recoverQueueItem
    \* history and bounds
    sent,       \* download |-> how often each request was sent for its operation
    asked,      \* episode |-> searches by this component since its last reset
    issued,     \* episodes a search was sent for in this scan
    relied,     \* episodes seen to have a live download in this scan
    raced,      \* episodes that lost their file during this scan, and downloads
                \* whose rows changed after the last read before their removal
    changes

queueVars == <<rows, missing>>
scanVars == <<pc, todo, searched, job>>
historyVars == <<sent, asked, issued, relied, raced>>
storeVars == vars
recoveryVars == <<storeVars, queueVars, scanVars, historyVars, changes>>

NoPlan == [item |-> NoRow, group |-> {}, episodes |-> {}, covered |-> {}, targets |-> {},
           keys |-> {}]

Locked == {"plan", "targets", "reread", "shrink", "begin", "import", "remove", "removed",
           "again", "missing", "search", "send", "finish"}

RowsOf(d) == {r \in Rows : r.download = d /\ rows[r] # "gone"}

\* queueRecoveryGroup refuses a download with a row that is neither rejected
\* nor imported; without a rejected row there is nothing to do.
GroupRefused(d) == \E r \in RowsOf(d) : rows[r] \notin {"blocked", "imported"}
Group(d) == {<<r, rows[r]>> : r \in RowsOf(d)}
Rejected(d) == \E r \in RowsOf(d) : rows[r] = "blocked"

\* Mutant: another rejected download counts as a replacement.
CoveredByAny(d) ==
    LET others == {r \in Rows : r.download # d /\ rows[r] \in {"active", "blocked"}}
    IN  IF \E r \in others : r.episode = NoEpisode
        THEN Episodes ELSE {r.episode : r \in others}

\* queueSearchTargets: the episodes other live downloads cover, all of them if
\* Arr could not parse one of these.
Covered(d) ==
    LET live == {r \in Rows : r.download # d /\ rows[r] = "active"}
    IN  IF \E r \in live : r.episode = NoEpisode
        THEN Episodes ELSE {r.episode : r \in live}

-----------------------------------------------------------------------------
(* Control. *)

Goto(stage, locals) ==
    /\ pc' = stage
    /\ job' = locals
    /\ UNCHANGED <<todo, searched>>

\* Return from recoverQueueItem: mutationMu is released, the scan goes on.
Leave == Goto("scan", NoPlan)

AfterSave(stage, locals) == IF writeErr' THEN Leave ELSE Goto(stage, locals)

Item == job.item.download

\* recoverBlockedQueue reads the queue and takes the first rejected row of
\* each download.
StartScan ==
    /\ open /\ clients[Kind] # NoServer
    /\ pc = "idle"
    /\ \E items \in SUBSET {r \in Rows : rows[r] = "blocked"} :
          /\ \A r \in Rows : rows[r] = "blocked" =>
                Cardinality({i \in items : i.download = r.download}) = 1
          /\ todo' = items
    /\ pc' = "scan"
    /\ UNCHANGED <<storeVars, queueVars, searched, job, historyVars, changes>>

\* The local variables of the scan, and what is remembered about it, are gone.
Forget ==
    /\ pc' = "idle" /\ todo' = {} /\ searched' = {} /\ job' = NoPlan
    /\ issued' = {} /\ relied' = {} /\ raced' = {}
    /\ UNCHANGED <<queueVars, sent, asked, changes>>

EndScan ==
    /\ pc = "scan" /\ todo = {}
    /\ Forget
    /\ UNCHANGED storeVars

\* recoverQueueItem takes mutationMu.  A completed download is not touched
\* again, and one with an import in the journal is reconciled instead.
Enter(item) ==
    LET key == QueueKey[item.download]
    IN  /\ pc = "scan"
        /\ item \in todo
        /\ todo' = todo \ {item}
        /\ IF key \in mem.completed
              \/ (key \in Pending(mem) /\ mem.operations[key].import # "none")
           THEN pc' = "scan" /\ job' = NoPlan
           ELSE pc' = "plan" /\ job' = [NoPlan EXCEPT !.item = item]
        /\ UNCHANGED <<storeVars, queueVars, searched, historyVars, changes>>

\* A read fails, or there is no grabbed history (yet).
Abort ==
    /\ pc \in {"plan", "targets", "reread", "shrink", "again", "missing"}
    /\ Leave
    /\ UNCHANGED <<storeVars, queueVars, historyVars, changes>>

\* A save is refused because an earlier one failed.
Refused ==
    /\ pc \in {"begin", "removed", "search", "finish"} /\ writeErr
    /\ Leave
    /\ UNCHANGED <<storeVars, queueVars, historyVars, changes>>

-----------------------------------------------------------------------------
(* The preflight. *)

\* What a queue read lets the scan rely on.
Sees(d) ==
    relied' = relied \cup
        {e \in Episodes : \E r \in Rows : /\ r.download # d /\ rows[r] = "active"
                                          /\ r.episode \in {e, NoEpisode}}

\* planQueueRecovery: the queue and the history ...
PlanQueue ==
    /\ pc = "plan"
    /\ IF job.item \notin RowsOf(Item) \/ GroupRefused(Item) \/ ~Rejected(Item)
       THEN Leave /\ UNCHANGED relied
       ELSE /\ Goto("targets",
                    [job EXCEPT !.group = Group(Item),
                                !.episodes = Grabbed[Item] \cup
                                    ({r.episode : r \in RowsOf(Item)} \ {NoEpisode}),
                                !.covered = Covered(Item)])
            /\ Sees(Item)
    /\ UNCHANGED <<storeVars, queueVars, sent, asked, issued, raced, changes>>

\* ... and what is missing.  An imported row must have its file.
PlanTargets ==
    LET remaining == missing \cap job.episodes
    IN  /\ pc = "targets"
        /\ IF \E g \in job.group : g[2] = "imported" /\ g[1].episode \in remaining \cup {NoEpisode}
           THEN Leave
           ELSE Goto("reread", [job EXCEPT !.targets = (remaining \ job.covered) \ searched])
        /\ UNCHANGED <<storeVars, queueVars, historyVars, changes>>

\* Mutant: whatever happened to the group since it was planned, go on.
RereadNothing ==
    /\ pc = "reread"
    /\ Goto("shrink", [job EXCEPT !.covered = Covered(Item)])
    /\ Sees(Item)
    /\ UNCHANGED <<storeVars, queueVars, sent, asked, issued, raced, changes>>

\* The group must be the one that was planned.
Reread ==
    /\ pc = "reread"
    /\ IF job.item \notin RowsOf(Item) \/ GroupRefused(Item) \/ Group(Item) # job.group
       THEN Leave /\ UNCHANGED relied
       ELSE Goto("shrink", [job EXCEPT !.covered = Covered(Item)]) /\ Sees(Item)
    /\ UNCHANGED <<storeVars, queueVars, sent, asked, issued, raced, changes>>

SpentUp(e) == mem.attempts[e] >= MaxAttempts

\* The targets only shrink.  A target without attempts left stops the removal,
\* or, if Arr only hesitates over the ID of every row, leads to an import once
\* no target has one.
Shrink ==
    LET targets == ((job.targets \cap missing) \ job.covered) \ searched
        locals == [job EXCEPT !.targets = targets, !.keys = targets]
    IN  /\ pc = "shrink"
        /\ \/ /\ MaxAttempts > 0 /\ \A e \in targets : ~SpentUp(e)
              /\ Goto("begin", locals)
           \/ /\ MaxAttempts = 0 \/ \E e \in targets : SpentUp(e)
              /\ Leave
           \/ /\ MaxAttempts > 0 /\ targets # {} /\ \A e \in targets : SpentUp(e)
              /\ Goto("import", locals)
        /\ UNCHANGED <<storeVars, queueVars, historyVars, changes>>

-----------------------------------------------------------------------------
(* Import instead of removal; see ManualImport. *)

BeginImport ==
    /\ pc = "import"
    /\ \/ \E attempt \in 0 .. MaxInt :
             Begin(RequestFor(Item), "manual-import-requested", FALSE, "requested", {}, attempt)
       \/ UNCHANGED storeVars
    /\ Leave
    /\ UNCHANGED <<queueVars, historyVars, changes>>

Unlocked == pc \notin Locked

ReconcileImport(d) ==
    /\ Unlocked
    /\ QueueKey[d] \in Pending(mem) /\ mem.operations[QueueKey[d]].import # "none"
    /\ Complete(QueueKey[d])
    /\ UNCHANGED <<queueVars, scanVars, historyVars, changes>>

-----------------------------------------------------------------------------
(* The operation. *)

\* Mutant: the search is not charged.
BeginUncharged ==
    /\ pc = "begin"
    /\ \E attempt \in 0 .. MaxInt :
          Begin(RequestFor(Item), "queue-removal-requested", FALSE, "none", {}, attempt)
    /\ AfterSave("remove", job)
    /\ UNCHANGED <<queueVars, historyVars, changes>>

BeginRemoval ==
    /\ pc = "begin"
    /\ \E attempt \in 0 .. MaxInt :
          Begin(RequestFor(Item), "queue-removal-requested", FALSE, "none", job.keys, attempt)
    /\ AfterSave("remove", job)
    /\ UNCHANGED <<queueVars, historyVars, changes>>

NotBegun ==
    /\ pc = "begin"
    /\ \/ AlreadyDone(QueueKey[Item])
       \/ Fenced(NewOperation(RequestFor(Item), "queue-removal-requested", FALSE, "none"))
    /\ Leave
    /\ UNCHANGED <<storeVars, queueVars, historyVars, changes>>

Send(d, request) == sent' = [sent EXCEPT ![d][request] = @ + 1]

AfterSend(acked, stage, locals) == IF acked THEN Goto(stage, locals) ELSE Leave

\* FailQueueItem: Arr forgets the whole download, or answers that the row is
\* unknown, or does not answer.
RemoveItem ==
    /\ pc = "remove"
    /\ Send(Item, "remove")
    /\ \/ /\ rows[job.item] # "gone"
          /\ rows' = [r \in Rows |-> IF r.download = Item THEN "gone" ELSE rows[r]]
          /\ \E acked \in BOOLEAN : AfterSend(acked, "removed", job)
       \/ /\ UNCHANGED rows
          /\ Leave
    /\ UNCHANGED <<storeVars, missing, asked, issued, relied, raced, changes>>

RecordRemoved ==
    /\ pc = "removed"
    /\ Phase(QueueKey[Item], "queue-removed")
    /\ AfterSave(IF job.targets = {} THEN "finish" ELSE "again", job)
    /\ UNCHANGED <<queueVars, historyVars, changes>>

\* Another download may have come up meanwhile.  Every charged key counts as
\* searched as soon as one target is left.
ReadAgain ==
    LET targets == (job.targets \ Covered(Item)) \ searched
    IN  /\ pc = "again"
        /\ job' = [job EXCEPT !.targets = targets]
        /\ IF targets = {}
           THEN pc' = "finish" /\ UNCHANGED searched
           ELSE pc' = "missing" /\ searched' = searched \cup job.keys
        /\ Sees(Item)
        /\ UNCHANGED <<storeVars, queueVars, todo, sent, asked, issued, raced, changes>>

\* searchRemaining
ReadMissing ==
    LET targets == job.targets \cap missing
    IN  /\ pc = "missing"
        /\ Goto(IF targets = {} THEN "finish" ELSE "search", [job EXCEPT !.targets = targets])
        /\ UNCHANGED <<storeVars, queueVars, historyVars, changes>>

RecordSearch ==
    /\ pc = "search"
    /\ SearchRequested(QueueKey[Item])
    /\ AfterSave("send", job)
    /\ UNCHANGED <<queueVars, historyVars, changes>>

SendSearch ==
    /\ pc = "send"
    /\ Send(Item, "search")
    /\ asked' = [e \in Episodes |-> IF e \in job.targets THEN asked[e] + 1 ELSE asked[e]]
    /\ issued' = issued \cup job.targets
    /\ \E acked \in BOOLEAN : AfterSend(acked, "finish", job)
    /\ UNCHANGED <<storeVars, queueVars, relied, raced, changes>>

Finish ==
    /\ pc = "finish"
    /\ Complete(QueueKey[Item])
    /\ Leave
    /\ UNCHANGED <<queueVars, historyVars, changes>>

Scan ==
    \/ StartScan \/ EndScan \/ (\E item \in Rows : Enter(item))
    \/ Abort \/ Refused
    \/ PlanQueue \/ PlanTargets \/ Reread \/ Shrink
    \/ BeginImport
    \/ BeginRemoval \/ NotBegun \/ RemoveItem \/ RecordRemoved
    \/ ReadAgain \/ ReadMissing \/ RecordSearch \/ SendSearch \/ Finish

-----------------------------------------------------------------------------
(* Everybody else. *)

Change == changes < MaxChanges /\ changes' = changes + 1

\* Arr grabs, imports or rejects a download; somebody removes one.
MoveRow(r, to) ==
    /\ Change
    /\ rows[r] # to
    /\ rows[r] = "gone" => to = "active"
    /\ rows' = [rows EXCEPT ![r] = to]
    /\ raced' = IF pc \in {"shrink", "begin", "remove"} /\ r.download = Item
                THEN raced \cup {Item} ELSE raced
    /\ UNCHANGED <<storeVars, scanVars, missing, sent, asked, issued, relied>>

Gain(e) ==
    /\ Change
    /\ e \in missing
    /\ missing' = missing \ {e}
    /\ UNCHANGED <<storeVars, scanVars, rows, historyVars>>

Lose(e) ==
    /\ Change
    /\ e \notin missing
    /\ missing' = missing \cup {e}
    /\ raced' = IF pc = "idle" THEN raced ELSE raced \cup {e}
    /\ UNCHANGED <<storeVars, scanVars, rows, sent, asked, issued, relied>>

\* A media worker begins or completes an operation, or clears a counter.
MediaBegins(r, ids) ==
    /\ Change
    /\ Unlocked
    /\ \E attempt \in 0 .. MaxInt : Begin(r, "delete-requested", FALSE, "none", ids, attempt)
    /\ UNCHANGED <<queueVars, scanVars, historyVars>>

MediaCompletes(r) ==
    /\ Unlocked
    /\ r.key \in Pending(mem)
    /\ Complete(r.key)
    /\ UNCHANGED <<queueVars, scanVars, historyVars, changes>>

MediaResets(e) ==
    /\ Change
    /\ Unlocked
    /\ Reset(e)
    /\ asked' = [asked EXCEPT ![e] = 0]
    /\ UNCHANGED <<queueVars, scanVars, sent, issued, relied, raced>>

SaveOther == SaveWebhooks /\ UNCHANGED <<queueVars, scanVars, historyVars, changes>>

Die == Stop /\ Forget

Restart ==
    /\ \E configured \in Bindings : Start(configured)
    /\ UNCHANGED <<queueVars, scanVars, historyVars, changes>>

Surroundings ==
    \/ \E r \in Rows, to \in Moves : MoveRow(r, to)
    \/ \E e \in Episodes : Gain(e) \/ Lose(e) \/ MediaResets(e)
    \/ \E r \in MediaRequests : MediaCompletes(r) \/ \E ids \in SUBSET Episodes : MediaBegins(r, ids)
    \/ \E d \in Downloads : ReconcileImport(d)
    \/ SaveOther

RecoveryInit ==
    /\ Init
    /\ rows \in FirstRows
    /\ missing \in SUBSET Episodes
    /\ pc = "idle" /\ todo = {} /\ searched = {} /\ job = NoPlan
    /\ sent = [d \in Downloads |-> [remove |-> 0, search |-> 0]]
    /\ asked = [e \in Episodes |-> 0]
    /\ issued = {} /\ relied = {} /\ raced = {}
    /\ changes = 0

RecoveryNext == Scan \/ Surroundings \/ Die \/ Restart

RecoverySpec == RecoveryInit /\ [][RecoveryNext]_recoveryVars

-----------------------------------------------------------------------------
(* Correctness. *)

RecoveryTypeOK ==
    /\ TypeOK
    /\ rows \in [Rows -> RowStates] /\ missing \subseteq Episodes
    /\ pc \in {"idle", "scan"} \cup Locked
    /\ todo \subseteq Rows /\ searched \subseteq Episodes
    /\ job \in [item : Rows \cup {NoRow}, group : SUBSET (Rows \X {"blocked", "imported"}),
                episodes : SUBSET Episodes, covered : SUBSET Episodes,
                targets : SUBSET Episodes, keys : SUBSET Episodes]
    /\ sent \in [Downloads -> [remove : Nat, search : Nat]]
    /\ asked \in [Episodes -> Nat]
    /\ issued \subseteq Episodes /\ relied \subseteq Episodes
    /\ raced \subseteq Episodes \cup Downloads
    /\ changes \in 0 .. MaxChanges

\* Shutdown and restart do not replay an operation's mutations: whatever scans,
\* crashes and failed saves follow one another, a download is removed once and
\* one search is sent for it.
SentOnce == \A d \in Downloads : sent[d].remove <= 1 /\ sent[d].search <= 1

\* "Guard searches retain their attempt cap": a search suppressed at the last
\* moment may waste an attempt, but no episode is searched for more often than
\* MaxAttempts between two resets of its counter.
SearchBudget == \A e \in Episodes : asked[e] <= MaxAttempts

\* "A new active sibling, reassigned ID, or import in progress must stop before
\* any write": what is removed is the group that was planned, and the files its
\* imported rows claim were there, unless that changed after the last look.
RemovalJudged ==
    [][pc = "remove" /\ pc' # "remove" /\ open' =>
          /\ Group(Item) = job.group \/ Item \in raced
          /\ \A g \in job.group :
                g[2] = "imported" => g[1].episode \notin missing \/ g[1].episode \in raced]_recoveryVars

\* A removal leaves no episode behind: when the operation of a download is
\* completed, each of its episodes has a file, was searched for in this scan or
\* had a live download when the scan looked, unless it lost its file meanwhile.
NothingStranded ==
    [][pc = "finish" /\ QueueKey[Item] \in mem'.completed =>
          job.episodes \cap missing \subseteq issued \cup relied \cup raced]_recoveryVars
-----------------------------------------------------------------------------
(* The promise to Arr. *)

\* What the file says of a download, whoever reads it: the last request its
\* operation announced.
Stand(s, d) ==
    IF QueueKey[d] \in Pending(s)
    THEN CASE s.operations[QueueKey[d]].import # "none" -> "import"
           [] s.operations[QueueKey[d]].import = "none"
              /\ s.operations[QueueKey[d]].phase = "search-requested" -> "search"
           [] OTHER -> "remove"
    ELSE IF QueueKey[d] \in s.completed THEN "closed" ELSE "none"

\* The import is sent by ManualImport.
Ledger == INSTANCE RequestLedger WITH
    Owners <- Downloads, Asks <- {"remove", "search", "import"},
    Follows <- {<<"remove", "search">>}, Evident <- {"import"},
    announced <- [d \in Downloads |-> Stand(disk, d)],
    asked <- [d \in Downloads |->
                 [remove |-> sent[d].remove, search |-> sent[d].search, import |-> 0]]

\* The scan and the file together are a ledger: a download is removed and then
\* searched for, or imported, never both; each request is announced first and
\* sent once; and what was announced and not sent is never closed.
AsksInOrder == Ledger!LedgerSpec
=============================================================================
