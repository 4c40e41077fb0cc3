------------------------ MODULE QueueRecoveryProofs ------------------------
(***************************************************************************)
(* The scan of the queue, for every queue, library and set of requests: it *)
(* is well typed, uses the journal as StateStore allows, removes and       *)
(* searches once for each download, keeps the retry cap, removes what it   *)
(* judged, and leaves no episode of a removed download behind.             *)
(* What Arr is asked, and in which order, is that of RequestLedger.        *)
(***************************************************************************)
EXTENDS QueueRecovery, StateStoreProofs

-----------------------------------------------------------------------------
(* Types. *)

Stages == {"idle", "scan"} \cup Locked

JobType ==
    [item : Rows \cup {NoRow}, group : SUBSET (Rows \X {"blocked", "imported"}),
     episodes : SUBSET Episodes, covered : SUBSET Episodes,
     targets : SUBSET Episodes, keys : SUBSET Episodes]

QueueTyped(q, m) == q \in [Rows -> RowStates] /\ m \subseteq Episodes

PlaceTyped(stage, j, items, done) ==
    /\ stage \in Stages /\ j \in JobType
    /\ items \subseteq Rows /\ done \subseteq Episodes
    /\ stage \in Locked => j.item \in Rows

CountsTyped(n, a) == n \in [Downloads -> [remove : Nat, search : Nat]] /\ a \in [Episodes -> Nat]

SetsTyped(i, l, c, n) ==
    /\ i \subseteq Episodes /\ l \subseteq Episodes /\ c \subseteq Episodes \cup Downloads
    /\ n \in 0 .. MaxChanges

ScanInv ==
    /\ QueueTyped(rows, missing)
    /\ PlaceTyped(pc, job, todo, searched)
    /\ CountsTyped(sent, asked)
    /\ SetsTyped(issued, relied, raced, changes)

\* The download of a locked scan, and what the reads compute.
LEMMA ReadTypes ==
    ASSUME ScanInv
    PROVE  /\ pc \in Locked => /\ Item \in Downloads /\ QueueKey[Item] \in Keys
                               /\ RequestFor(Item) \in Requests /\ Grabbed[Item] \subseteq Episodes
           /\ \A d : /\ Covered(d) \subseteq Episodes
                     /\ RowsOf(d) \subseteq Rows
                     /\ ~GroupRefused(d) => Group(d) \subseteq Rows \X {"blocked", "imported"}
           /\ \A r \in Rows : r.episode \in Episodes \cup {NoEpisode} /\ r.download \in Downloads
  <1>1. \A r \in Rows : r.episode \in Episodes \cup {NoEpisode} /\ r.download \in Downloads
    BY QueueAssumption
  <1>2. pc \in Locked => Item \in Downloads
    BY <1>1 DEF ScanInv, PlaceTyped, Item
  <1>3. pc \in Locked => /\ QueueKey[Item] \in Keys
                         /\ RequestFor(Item) \in Requests /\ Grabbed[Item] \subseteq Episodes
    BY <1>2, QueueAssumption
  <1>4. ASSUME NEW d PROVE Covered(d) \subseteq Episodes
    <2>1. CASE \E r \in {r \in Rows : r.download # d /\ rows[r] = "active"} : r.episode = NoEpisode
      BY <2>1 DEF Covered
    <2>2. CASE ~\E r \in {r \in Rows : r.download # d /\ rows[r] = "active"} : r.episode = NoEpisode
      BY <1>1, <2>2 DEF Covered
    <2> QED
      BY <2>1, <2>2
  <1>5. \A d : RowsOf(d) \subseteq Rows
    BY DEF RowsOf
  <1>6. \A d : ~GroupRefused(d) => Group(d) \subseteq Rows \X {"blocked", "imported"}
    BY <1>5 DEF GroupRefused, Group
  <1> QED
    BY <1>1, <1>2, <1>3, <1>4, <1>5, <1>6

\* Where every control step leads, if the job it leaves is typed.
LEMMA GoneTo ==
    ASSUME ScanInv, NEW stage \in Stages, NEW locals \in JobType, Goto(stage, locals),
           stage \in Locked => locals.item \in Rows
    PROVE  PlaceTyped(pc', job', todo', searched')
  BY DEF ScanInv, PlaceTyped, Goto

LEMMA NoPlanTyped == NoPlan \in JobType /\ {"idle", "scan"} \cap Locked = {}
  BY DEF NoPlan, JobType, Locked

LEMMA Left ==
    ASSUME ScanInv, Leave
    PROVE  PlaceTyped(pc', job', todo', searched')
  BY GoneTo, NoPlanTyped DEF Leave, Stages

\* Going on with the same job, or one in which a set was replaced.
LEMMA GoneOn ==
    ASSUME ScanInv, pc \in Locked, NEW stage \in Stages, NEW locals \in JobType,
           locals.item = job.item, Goto(stage, locals)
    PROVE  PlaceTyped(pc', job', todo', searched')
  BY GoneTo DEF ScanInv, PlaceTyped

LEMMA JobWith ==
    ASSUME ScanInv, NEW S \in SUBSET Episodes, NEW g \in SUBSET (Rows \X {"blocked", "imported"}),
           NEW E \in SUBSET Episodes
    PROVE  /\ [job EXCEPT !.targets = S] \in JobType
           /\ [job EXCEPT !.covered = S] \in JobType
           /\ [job EXCEPT !.targets = S, !.keys = S] \in JobType
           /\ [job EXCEPT !.group = g, !.episodes = E, !.covered = S] \in JobType
           /\ [job EXCEPT !.targets = S].item = job.item
           /\ [job EXCEPT !.covered = S].item = job.item
           /\ [job EXCEPT !.targets = S, !.keys = S].item = job.item
           /\ [job EXCEPT !.group = g, !.episodes = E, !.covered = S].item = job.item
  BY DEF ScanInv, PlaceTyped, JobType

LEMMA AllStages ==
    /\ {"plan", "targets", "reread", "shrink", "begin", "import", "remove", "removed",
        "again", "missing", "search", "send", "finish"} = Locked
    /\ Locked \subseteq Stages /\ "scan" \in Stages /\ "idle" \in Stages
  BY DEF Locked, Stages

\* Every step keeps the place of the scan typed.
LEMMA PlaceNext ==
    ASSUME ScanInv, [RecoveryNext]_recoveryVars
    PROVE  PlaceTyped(pc', job', todo', searched')
  <1>0. /\ job \in JobType /\ searched \subseteq Episodes /\ todo \subseteq Rows
        /\ missing \subseteq Episodes
    BY DEF ScanInv, PlaceTyped, QueueTyped
  <1>1. CASE StartScan
    BY <1>1, AllStages, NoPlanTyped DEF StartScan, ScanInv, PlaceTyped
  <1>2. CASE EndScan \/ Die
    BY <1>2, AllStages, NoPlanTyped DEF EndScan, Die, Forget, PlaceTyped
  <1>3. ASSUME NEW item \in Rows, Enter(item) PROVE PlaceTyped(pc', job', todo', searched')
    <2>1. [NoPlan EXCEPT !.item = item] \in JobType /\ [NoPlan EXCEPT !.item = item].item = item
      BY NoPlanTyped DEF JobType
    <2>2. todo' \subseteq Rows /\ searched' = searched
      BY <1>0, <1>3 DEF Enter
    <2>3. \/ pc' = "scan" /\ job' = NoPlan
          \/ pc' = "plan" /\ job' = [NoPlan EXCEPT !.item = item]
      BY <1>3 DEF Enter
    <2> QED
      BY <1>0, <2>1, <2>2, <2>3, AllStages, NoPlanTyped DEF PlaceTyped
  <1>4. CASE Abort \/ Refused \/ NotBegun \/ BeginImport \/ Finish
    BY <1>4, Left DEF Abort, Refused, NotBegun, BeginImport, Finish
  <1>5. CASE PlanQueue
    <2>1. CASE Leave
      BY <2>1, Left
    <2>2. CASE ~Leave
      <3> DEFINE E == Grabbed[Item] \cup ({r.episode : r \in RowsOf(Item)} \ {NoEpisode})
                 locals == [job EXCEPT !.group = Group(Item), !.episodes = E,
                                       !.covered = Covered(Item)]
      <3>1. ~GroupRefused(Item) /\ Goto("targets", locals) /\ pc \in Locked
        BY <1>5, <2>2, AllStages DEF PlanQueue
      <3>2. E \subseteq Episodes /\ Group(Item) \subseteq Rows \X {"blocked", "imported"}
            /\ Covered(Item) \subseteq Episodes
        BY <3>1, ReadTypes
      <3>3. locals \in JobType /\ locals.item = job.item
        BY <3>2, JobWith
      <3> HIDE DEF locals
      <3> QED
        BY <3>1, <3>3, GoneOn, AllStages
    <2> QED
      BY <2>1, <2>2
  <1>6. CASE PlanTargets
    <2> DEFINE S == ((missing \cap job.episodes) \ job.covered) \ searched
    <2>1. S \subseteq Episodes
      BY <1>0
    <2>2. Leave \/ Goto("reread", [job EXCEPT !.targets = S])
      BY <1>6 DEF PlanTargets
    <2>3. pc \in Locked
      BY <1>6, AllStages DEF PlanTargets
    <2> HIDE DEF S
    <2>4. [job EXCEPT !.targets = S] \in JobType /\ [job EXCEPT !.targets = S].item = job.item
      BY <2>1, JobWith
    <2> QED
      BY <2>2, <2>3, <2>4, GoneOn, Left, AllStages
  <1>7. CASE Reread
    <2> DEFINE S == Covered(Item)
    <2>1. S \subseteq Episodes
      BY ReadTypes
    <2>2. Leave \/ Goto("shrink", [job EXCEPT !.covered = S])
      BY <1>7 DEF Reread
    <2>3. pc \in Locked
      BY <1>7, AllStages DEF Reread
    <2> HIDE DEF S
    <2>4. [job EXCEPT !.covered = S] \in JobType /\ [job EXCEPT !.covered = S].item = job.item
      BY <2>1, JobWith
    <2> QED
      BY <2>2, <2>3, <2>4, GoneOn, Left, AllStages
  <1>8. CASE Shrink
    <2> DEFINE S == ((job.targets \cap missing) \ job.covered) \ searched
               locals == [job EXCEPT !.targets = S, !.keys = S]
    <2>1. S \subseteq Episodes
      BY <1>0
    <2>2. Leave \/ Goto("begin", locals) \/ Goto("import", locals)
      BY <1>8 DEF Shrink
    <2>3. pc \in Locked
      BY <1>8, AllStages DEF Shrink
    <2>4. locals \in JobType /\ locals.item = job.item
      BY <2>1, JobWith
    <2> HIDE DEF locals
    <2> QED
      BY <2>2, <2>3, <2>4, GoneOn, Left, AllStages
  <1>9. CASE BeginRemoval \/ RemoveItem \/ RecordRemoved \/ RecordSearch \/ SendSearch
    <2>1. pc \in Locked
      BY <1>9, AllStages DEF BeginRemoval, RemoveItem, RecordRemoved, RecordSearch, SendSearch
    <2>2. Leave \/ \E stage \in Locked : Goto(stage, job)
      BY <1>9, AllStages DEF BeginRemoval, RemoveItem, RecordRemoved, RecordSearch, SendSearch,
         AfterSave, AfterSend
    <2> QED
      BY <1>0, <2>1, <2>2, GoneOn, Left, AllStages
  <1>10. CASE ReadAgain
    <2> DEFINE S == (job.targets \ Covered(Item)) \ searched
    <2>1. S \subseteq Episodes /\ job.keys \subseteq Episodes
      BY <1>0 DEF JobType
    <2>2. /\ job' = [job EXCEPT !.targets = S] /\ todo' = todo
          /\ pc' \in {"finish", "missing"} /\ searched' \in {searched, searched \cup job.keys}
      BY <1>10 DEF ReadAgain
    <2>3. job.item \in Rows
      BY <1>10, AllStages DEF ReadAgain, ScanInv, PlaceTyped
    <2>4. [job EXCEPT !.targets = S] \in JobType /\ [job EXCEPT !.targets = S].item = job.item
      BY <2>1, JobWith
    <2> HIDE DEF S
    <2>5. pc' \in Locked
      BY <2>2, AllStages
    <2>6. job' \in JobType /\ job'.item \in Rows
      BY <2>2, <2>3, <2>4
    <2>7. searched' \subseteq Episodes /\ todo' \subseteq Rows
      BY <1>0, <2>1, <2>2
    <2> QED
      BY <2>5, <2>6, <2>7, AllStages DEF PlaceTyped
  <1>11. CASE ReadMissing
    <2> DEFINE S == job.targets \cap missing
    <2>1. S \subseteq Episodes
      BY <1>0
    <2>2. \E stage \in Locked : Goto(stage, [job EXCEPT !.targets = S])
      BY <1>11, AllStages DEF ReadMissing
    <2>3. pc \in Locked
      BY <1>11, AllStages DEF ReadMissing
    <2> HIDE DEF S
    <2>4. [job EXCEPT !.targets = S] \in JobType /\ [job EXCEPT !.targets = S].item = job.item
      BY <2>1, JobWith
    <2> QED
      BY <2>2, <2>3, <2>4, GoneOn, AllStages
  <1>12. CASE Surroundings \/ Restart \/ UNCHANGED recoveryVars
    <2>1. UNCHANGED scanVars
      BY <1>12 DEF Surroundings, MoveRow, Gain, Lose, MediaResets, MediaCompletes, MediaBegins,
         ReconcileImport, SaveOther, Restart, recoveryVars
    <2> QED
      BY <2>1 DEF scanVars, ScanInv
  <1> QED
    BY <1>1, <1>2, <1>3, <1>4, <1>5, <1>6, <1>7, <1>8, <1>9, <1>10, <1>11, <1>12
       DEF RecoveryNext, Scan

\* Who changes the queue, the counts and the sets.
LEMMA QueueNext ==
    ASSUME ScanInv, [RecoveryNext]_recoveryVars
    PROVE  QueueTyped(rows', missing')
  <1>0. rows \in [Rows -> RowStates] /\ missing \subseteq Episodes /\ "gone" \in RowStates
    BY DEF ScanInv, QueueTyped, RowStates
  <1>1. CASE RemoveItem
    <2>1. missing' = missing /\ (rows' = rows \/
             rows' = [r \in Rows |-> IF r.download = Item THEN "gone" ELSE rows[r]])
      BY <1>1 DEF RemoveItem
    <2> QED
      BY <1>0, <2>1 DEF QueueTyped
  <1>2. CASE Surroundings
    <2>1. ASSUME NEW r \in Rows, NEW to \in Moves, MoveRow(r, to) PROVE QueueTyped(rows', missing')
      <3>1. rows' = [rows EXCEPT ![r] = to] /\ missing' = missing /\ to \in RowStates
        BY <2>1, QueueAssumption DEF MoveRow
      <3> QED
        BY <1>0, <3>1 DEF QueueTyped
    <2>2. ASSUME NEW e \in Episodes, Gain(e) \/ Lose(e) PROVE QueueTyped(rows', missing')
      BY <1>0, <2>2 DEF Gain, Lose, QueueTyped
    <2>3. ASSUME UNCHANGED queueVars PROVE QueueTyped(rows', missing')
      BY <1>0, <2>3 DEF queueVars, QueueTyped
    <2> QED
      BY <1>2, <2>1, <2>2, <2>3 DEF Surroundings, MediaResets, MediaCompletes, MediaBegins,
         ReconcileImport, SaveOther
  <1>3. CASE UNCHANGED queueVars
    BY <1>0, <1>3 DEF queueVars, QueueTyped
  <1>4. Scan => RemoveItem \/ UNCHANGED queueVars
    BY DEF Scan, StartScan, EndScan, Enter, Abort, Refused, PlanQueue, PlanTargets, Reread,
       Shrink, BeginImport, BeginRemoval, NotBegun, RecordRemoved, ReadAgain, ReadMissing,
       RecordSearch, SendSearch, Finish, Forget, queueVars
  <1>5. Die \/ Restart \/ UNCHANGED recoveryVars => UNCHANGED queueVars
    BY DEF Die, Restart, Forget, recoveryVars, queueVars
  <1> QED
    BY <1>1, <1>2, <1>3, <1>4, <1>5 DEF RecoveryNext

\* One request more for a download.
LEMMA SendTyped ==
    ASSUME ScanInv, NEW d \in Downloads, NEW request \in {"remove", "search"}, Send(d, request)
    PROVE  /\ sent' \in [Downloads -> [remove : Nat, search : Nat]]
           /\ \A c \in Downloads : c # d => sent'[c] = sent[c]
           /\ sent'[d] = [sent[d] EXCEPT ![request] = sent[d][request] + 1]
  BY DEF Send, ScanInv, CountsTyped

LEMMA CountsNext ==
    ASSUME ScanInv, [RecoveryNext]_recoveryVars
    PROVE  CountsTyped(sent', asked')
  <1>0. CountsTyped(sent, asked)
    BY DEF ScanInv
  <1>1. CASE RemoveItem
    <2>1. Item \in Downloads /\ asked' = asked /\ Send(Item, "remove")
      BY <1>1, ReadTypes, AllStages DEF RemoveItem
    <2> QED
      BY <1>0, <2>1, SendTyped DEF CountsTyped
  <1>2. CASE SendSearch
    <2>1. Item \in Downloads /\ Send(Item, "search")
      BY <1>2, ReadTypes, AllStages DEF SendSearch
    <2>2. asked' = [e \in Episodes |-> IF e \in job.targets THEN asked[e] + 1 ELSE asked[e]]
      BY <1>2 DEF SendSearch
    <2>3. asked' \in [Episodes -> Nat]
      BY <1>0, <2>2 DEF CountsTyped
    <2> QED
      BY <2>1, <2>3, SendTyped DEF CountsTyped
  <1>3. ASSUME NEW e \in Episodes, MediaResets(e) PROVE CountsTyped(sent', asked')
    <2>1. sent' = sent /\ asked' = [asked EXCEPT ![e] = 0]
      BY <1>3 DEF MediaResets
    <2> QED
      BY <1>0, <2>1 DEF CountsTyped
  <1>4. CASE UNCHANGED <<sent, asked>>
    BY <1>0, <1>4
  <1>5. Scan => RemoveItem \/ SendSearch \/ UNCHANGED <<sent, asked>>
    BY DEF Scan, StartScan, EndScan, Enter, Abort, Refused, PlanQueue, PlanTargets, Reread,
       Shrink, BeginImport, BeginRemoval, NotBegun, RecordRemoved, ReadAgain, ReadMissing,
       RecordSearch, Finish, Forget, historyVars
  <1>6. Surroundings => (\E e \in Episodes : MediaResets(e)) \/ UNCHANGED <<sent, asked>>
    BY DEF Surroundings, MoveRow, Gain, Lose, MediaCompletes, MediaBegins, ReconcileImport,
       SaveOther, historyVars
  <1>7. Die \/ Restart \/ UNCHANGED recoveryVars => UNCHANGED <<sent, asked>>
    BY DEF Die, Restart, Forget, recoveryVars, historyVars
  <1> QED
    BY <1>1, <1>2, <1>3, <1>4, <1>5, <1>6, <1>7 DEF RecoveryNext

LEMMA SetsNext ==
    ASSUME ScanInv, [RecoveryNext]_recoveryVars
    PROVE  SetsTyped(issued', relied', raced', changes')
  <1>0. /\ SetsTyped(issued, relied, raced, changes) /\ job.targets \subseteq Episodes
        /\ MaxChanges \in Nat
    BY QueueAssumption DEF ScanInv, PlaceTyped, JobType
  <1>1. ASSUME NEW d, Sees(d) PROVE relied' \subseteq Episodes
    BY <1>0, <1>1 DEF Sees, SetsTyped
  <1>2. CASE Scan
    <2>1. CASE PlanQueue \/ Reread \/ ReadAgain
      BY <1>0, <1>1, <2>1 DEF PlanQueue, Reread, ReadAgain, SetsTyped
    <2>2. CASE EndScan
      BY <1>0, <2>2 DEF EndScan, Forget, SetsTyped
    <2>3. CASE SendSearch
      BY <1>0, <2>3 DEF SendSearch, SetsTyped
    <2>4. CASE RemoveItem
      BY <1>0, <2>4 DEF RemoveItem, SetsTyped
    <2> QED
      BY <1>0, <1>2, <2>1, <2>2, <2>3, <2>4 DEF Scan, StartScan, Enter, Abort, Refused,
         PlanTargets, Shrink, BeginImport, BeginRemoval, NotBegun, RecordRemoved, ReadMissing,
         RecordSearch, Finish, historyVars
  <1>3. CASE Surroundings
    <2>1. Change => changes' \in 0 .. MaxChanges
      BY <1>0 DEF Change, SetsTyped
    <2>2. ASSUME NEW r \in Rows, NEW to \in Moves, MoveRow(r, to)
          PROVE  SetsTyped(issued', relied', raced', changes')
      <3>1. pc \in {"shrink", "begin", "remove"} => Item \in Downloads
        BY ReadTypes, AllStages
      <3> QED
        BY <1>0, <2>1, <2>2, <3>1 DEF MoveRow, SetsTyped
    <2>3. ASSUME NEW e \in Episodes, Gain(e) \/ Lose(e) \/ MediaResets(e)
          PROVE  SetsTyped(issued', relied', raced', changes')
      BY <1>0, <2>1, <2>3 DEF Gain, Lose, MediaResets, historyVars, SetsTyped
    <2>4. ASSUME NEW r \in MediaRequests, NEW ids \in SUBSET Episodes, MediaBegins(r, ids)
          PROVE  SetsTyped(issued', relied', raced', changes')
      BY <1>0, <2>1, <2>4 DEF MediaBegins, historyVars, SetsTyped
    <2> QED
      BY <1>0, <1>3, <2>2, <2>3, <2>4 DEF Surroundings, MediaCompletes, ReconcileImport,
         SaveOther, historyVars
  <1>4. CASE Die
    BY <1>0, <1>4 DEF Die, Forget, SetsTyped
  <1>5. CASE Restart \/ UNCHANGED recoveryVars
    BY <1>0, <1>5 DEF Restart, recoveryVars, historyVars
  <1> QED
    BY <1>2, <1>3, <1>4, <1>5 DEF RecoveryNext

LEMMA ScanNext ==
    ASSUME ScanInv, [RecoveryNext]_recoveryVars
    PROVE  ScanInv'
  BY PlaceNext, QueueNext, CountsNext, SetsNext
     DEF ScanInv, PlaceTyped, JobType, QueueTyped, CountsTyped, SetsTyped, Stages

LEMMA ScanInit ==
    ASSUME RecoveryInit
    PROVE  ScanInv
  <1>1. QueueTyped(rows, missing)
    BY QueueAssumption DEF RecoveryInit, QueueTyped
  <1>2. PlaceTyped(pc, job, todo, searched)
    BY NoPlanTyped, AllStages DEF RecoveryInit, PlaceTyped
  <1>3. CountsTyped(sent, asked)
    BY DEF RecoveryInit, CountsTyped
  <1>4. SetsTyped(issued, relied, raced, changes)
    BY QueueAssumption DEF RecoveryInit, SetsTyped
  <1> QED
    BY <1>1, <1>2, <1>3, <1>4 DEF ScanInv

LEMMA ScanTyped == RecoverySpec => []ScanInv
  BY ScanInit, ScanNext, PTL DEF RecoverySpec

-----------------------------------------------------------------------------
(* Every step is a step of the store, or leaves it alone. *)

\* The steps that change the store.
StoreActs ==
    \/ BeginRemoval \/ BeginImport \/ RecordRemoved \/ RecordSearch \/ Finish
    \/ \E d \in Downloads : ReconcileImport(d)
    \/ \E r \in MediaRequests :
          MediaCompletes(r) \/ \E ids \in SUBSET Episodes : MediaBegins(r, ids)
    \/ \E e \in Episodes : MediaResets(e)
    \/ SaveOther \/ Die \/ Restart

LEMMA StoreStep ==
    ASSUME [RecoveryNext]_recoveryVars
    PROVE  StoreActs \/ UNCHANGED storeVars
  <1>1. CASE Scan
    BY <1>1 DEF Scan, StoreActs, StartScan, EndScan, Enter, Abort, Refused, PlanQueue,
       PlanTargets, Reread, Shrink, NotBegun, RemoveItem, ReadAgain, ReadMissing, SendSearch
  <1>2. CASE Surroundings
    BY <1>2 DEF Surroundings, StoreActs, MoveRow, Gain, Lose
  <1>3. CASE Die \/ Restart \/ UNCHANGED recoveryVars
    BY <1>3 DEF StoreActs, recoveryVars
  <1> QED
    BY <1>1, <1>2, <1>3 DEF RecoveryNext

\* What the assumptions say of the keys and the operations begun here.
LEMMA RecoveryKeys ==
    /\ \A d \in Downloads : /\ QueueKey[d] \in Keys /\ RequestFor(d) \in Requests
                            /\ RequestFor(d).key = QueueKey[d]
    /\ \A r \in MediaRequests : /\ r \in Requests /\ r.key \in Keys
                                /\ \A d \in Downloads : r.key # QueueKey[d]
    /\ <<"queue-removal-requested", "none">> \in FirstPhases
    /\ <<"manual-import-requested", "requested">> \in FirstPhases
    /\ <<"delete-requested", "none">> \in FirstPhases
    /\ "queue-removed" \in LaterPhases
    /\ Episodes = RetryKeys \ Legacy
  BY QueueAssumption, RequestAssumption DEF RequestFor, Episodes, FirstPhases, MediaFirst,
     RemovalFirst, ImportFirst, LaterPhases, RemovalLater

\* A Begin with one of the first phases is one of the store's.
LEMMA BeginAllowed ==
    ASSUME NEW r \in Requests, NEW phase, NEW import, <<phase, import>> \in FirstPhases,
           NEW keys \in SUBSET Episodes, NEW attempt \in 0 .. MaxInt,
           Begin(r, phase, FALSE, import, keys, attempt)
    PROVE  Next
  <1>1. PICK first \in FirstPhases : first = <<phase, import>>
    OBVIOUS
  <1>2. first[1] = phase /\ first[2] = import /\ keys \in SUBSET (RetryKeys \ Legacy)
    BY <1>1, RecoveryKeys
  <1>3. Begin(r, first[1], FALSE, first[2], keys, attempt)
    BY <1>2
  <1> QED
    BY <1>2, <1>3 DEF BeginAny, Next

LEMMA StoreActsAllowed ==
    ASSUME ScanInv, StoreActs
    PROVE  [Next]_vars
  <1>1. pc \in Locked => Item \in Downloads
    BY ReadTypes
  <1>2. CASE BeginRemoval
    <2>1. PICK attempt \in 0 .. MaxInt :
             Begin(RequestFor(Item), "queue-removal-requested", FALSE, "none", job.keys, attempt)
      BY <1>2 DEF BeginRemoval
    <2>2. Item \in Downloads /\ job.keys \in SUBSET Episodes
      BY <1>1, <1>2, AllStages DEF BeginRemoval, ScanInv, PlaceTyped, JobType
    <2> QED
      BY <2>1, <2>2, BeginAllowed, RecoveryKeys
  <1>3. CASE BeginImport
    <2>1. CASE UNCHANGED storeVars
      BY <2>1 DEF storeVars
    <2>2. ASSUME NEW attempt \in 0 .. MaxInt,
                 Begin(RequestFor(Item), "manual-import-requested", FALSE, "requested", {}, attempt)
          PROVE  Next
      <3>1. Item \in Downloads /\ {} \in SUBSET Episodes
        BY <1>1, <1>3, AllStages DEF BeginImport
      <3> QED
        BY <2>2, <3>1, BeginAllowed, RecoveryKeys
    <2> QED
      BY <1>3, <2>1, <2>2 DEF BeginImport
  <1>4. CASE RecordRemoved \/ RecordSearch \/ Finish
    BY <1>1, <1>4, AllStages, RecoveryKeys DEF RecordRemoved, RecordSearch, Finish, Next
  <1>5. ASSUME NEW d \in Downloads, ReconcileImport(d) PROVE Next
    BY <1>5, RecoveryKeys DEF ReconcileImport, Next
  <1>6. ASSUME NEW r \in MediaRequests, NEW ids \in SUBSET Episodes, MediaBegins(r, ids) PROVE Next
    BY <1>6, BeginAllowed, RecoveryKeys DEF MediaBegins
  <1>7. ASSUME NEW r \in MediaRequests, MediaCompletes(r) PROVE Next
    BY <1>7, RecoveryKeys DEF MediaCompletes, Next
  <1>8. ASSUME NEW e \in Episodes, MediaResets(e) PROVE Next
    BY <1>8, RecoveryKeys DEF MediaResets, Next
  <1>9. CASE SaveOther \/ Die \/ Restart
    BY <1>9 DEF SaveOther, Die, Restart, Next
  <1> QED
    BY <1>2, <1>3, <1>4, <1>5, <1>6, <1>7, <1>8, <1>9 DEF StoreActs

\* Whatever the scan does to the state file, an arbitrary caller of the store
\* might do: each theorem about StateStore holds of it.
THEOREM RecoveryImplementsStore == RecoverySpec => Spec
  <1>1. RecoveryInit => Init
    BY DEF RecoveryInit
  <1>2. ScanInv /\ [RecoveryNext]_recoveryVars => [Next]_vars
    BY StoreStep, StoreActsAllowed DEF storeVars
  <1> QED
    BY <1>1, <1>2, ScanTyped, PTL DEF RecoverySpec, Spec

\* The scan's state is well typed, whatever happens around it.
THEOREM RecoveryTypeCorrect == RecoverySpec => []RecoveryTypeOK
  <1>1. ScanInv /\ TypeOK => RecoveryTypeOK
    BY DEF ScanInv, QueueTyped, PlaceTyped, CountsTyped, SetsTyped, JobType, Stages, RecoveryTypeOK
  <1> QED
    BY <1>1, ScanTyped, RecoveryImplementsStore, TypeCorrect, PTL

-----------------------------------------------------------------------------
(* What was sent, and what it was charged to. *)

Waiting(s, d) == QueueKey[d] \in Pending(s)
Searching(s, d) == s.operations[QueueKey[d]].phase = "search-requested"

\* What a journal without the operation, or in an earlier phase, excludes.
Unsent(s, d, n) ==
    /\ ~Waiting(s, d) /\ QueueKey[d] \notin s.completed => n.remove = 0 /\ n.search = 0
    /\ Waiting(s, d) /\ ~Searching(s, d) => n.search = 0

\* Searches are never ahead of the counters.
Charged(s, a) == \A e \in Episodes : a[e] <= s.attempts[e]

Kept(s, n, a) == (\A d \in Downloads : Unsent(s, d, n[d])) /\ Charged(s, a)

AfterBegin == {"remove", "removed", "again", "missing", "search", "send"}

\* The operation of the scan is begun: its targets are charged, its search is
\* not sent, and what it sends next is announced.
At(stage, j, s, n, a) ==
    /\ stage \in AfterBegin =>
          /\ n[j.item.download].search = 0
          /\ \A e \in j.targets : a[e] < s.attempts[e] /\ a[e] < MaxAttempts
    /\ stage = "remove" => n[j.item.download].remove = 0 /\ Waiting(s, j.item.download)
    /\ stage = "send" => Waiting(s, j.item.download) /\ Searching(s, j.item.download)

\* About to begin: every target is charged, and has an attempt left.
Budgeted(stage, j, s) ==
    stage = "begin" => j.targets \subseteq j.keys /\ \A e \in j.keys : s.attempts[e] < MaxAttempts

Within(n, a) ==
    /\ \A d \in Downloads : n[d].remove <= 1 /\ n[d].search <= 1
    /\ \A e \in Episodes : a[e] <= MaxAttempts

OnceInv ==
    /\ Within(sent, asked)
    /\ pc # "idle" => open
    /\ Kept(mem, sent, asked) /\ Kept(disk, sent, asked)
    /\ At(pc, job, mem, sent, asked) /\ At(pc, job, disk, sent, asked)
    /\ Budgeted(pc, job, mem)

\* OnceInv of the next state, part by part.
Holds(o, m, f, stage, j, n, a) ==
    /\ Within(n, a)
    /\ stage # "idle" => o
    /\ Kept(m, n, a) /\ Kept(f, n, a)
    /\ At(stage, j, m, n, a) /\ At(stage, j, f, n, a)
    /\ Budgeted(stage, j, m)

LEMMA HoldsNext ==
    ASSUME Holds(open', mem', disk', pc', job', sent', asked')
    PROVE  OnceInv'
  BY DEF Holds, OnceInv, Within, Kept, Charged, Unsent, At, Budgeted, Waiting, Searching, Pending

\* Stages of which nothing is claimed.
Elsewhere == Stages \ (AfterBegin \cup {"begin"})

LEMMA AtElsewhere ==
    ASSUME NEW stage \in Elsewhere, NEW j, NEW s, NEW n, NEW a
    PROVE  At(stage, j, s, n, a) /\ Budgeted(stage, j, s)
  BY DEF At, Budgeted, Elsewhere, AfterBegin

LEMMA ElsewhereIs ==
    /\ {"idle", "scan", "plan", "targets", "reread", "shrink", "import", "finish"} = Elsewhere
    /\ \A stage \in Stages \ Locked : stage \in Elsewhere
  BY DEF Elsewhere, Stages, Locked, AfterBegin

-----------------------------------------------------------------------------
(* The steps that neither save nor send. *)

Quiet ==
    /\ UNCHANGED <<storeVars, sent, asked>>
    /\ pc' # "idle" => open
    /\ \/ UNCHANGED <<pc, job>>
       \/ pc' \in Elsewhere
       \/ pc' = "begin" /\ Budgeted(pc', job', mem)
       \/ /\ pc \in AfterBegin /\ pc' \in {"missing", "search"}
          /\ job'.item = job.item /\ job'.targets \subseteq job.targets

LEMMA QuietKeeps ==
    ASSUME OnceInv, Quiet
    PROVE  OnceInv'
  <1>1. mem' = mem /\ disk' = disk /\ open' = open /\ sent' = sent /\ asked' = asked
    BY DEF Quiet, storeVars, vars, durableVars
  <1>2. /\ At(pc', job', mem, sent, asked) /\ At(pc', job', disk, sent, asked)
        /\ Budgeted(pc', job', mem)
    <2>1. CASE UNCHANGED <<pc, job>>
      BY <2>1 DEF OnceInv
    <2>2. CASE pc' \in Elsewhere
      BY <2>2, AtElsewhere
    <2>3. CASE pc' = "begin" /\ Budgeted(pc', job', mem)
      BY <2>3 DEF At, AfterBegin
    <2>4. CASE /\ pc \in AfterBegin /\ pc' \in {"missing", "search"}
               /\ job'.item = job.item /\ job'.targets \subseteq job.targets
      BY <2>4 DEF OnceInv, At, Budgeted
    <2> QED
      BY <2>1, <2>2, <2>3, <2>4 DEF Quiet
  <1>3. Holds(open', mem', disk', pc', job', sent', asked')
    BY <1>1, <1>2 DEF OnceInv, Holds, Quiet
  <1> QED
    BY <1>3, HoldsNext

LEMMA LeaveIsQuiet ==
    ASSUME OnceInv, pc # "idle", Leave, UNCHANGED <<storeVars, sent, asked>>
    PROVE  Quiet
  BY ElsewhereIs DEF Leave, Goto, Quiet, OnceInv

LEMMA ScanQuiet ==
    ASSUME IInv, ScanInv, OnceInv, Scan
    PROVE  StoreActs \/ RemoveItem \/ SendSearch \/ Quiet
  <1>0. pc # "idle" => open
    BY DEF OnceInv
  <1>1. CASE StartScan \/ EndScan
    BY <1>1, ElsewhereIs DEF StartScan, EndScan, Forget, historyVars, Quiet
  <1>2. CASE \E item \in Rows : Enter(item)
    BY <1>0, <1>2, ElsewhereIs DEF Enter, historyVars, Quiet
  <1>3. CASE Abort \/ Refused \/ NotBegun
    BY <1>3, LeaveIsQuiet DEF Abort, Refused, NotBegun, historyVars
  <1>4. CASE PlanQueue \/ PlanTargets \/ Reread
    BY <1>0, <1>4, ElsewhereIs, LeaveIsQuiet
       DEF PlanQueue, PlanTargets, Reread, Goto, historyVars, Quiet
  <1>5. CASE Shrink
    <2>1. UNCHANGED <<storeVars, sent, asked>> /\ pc # "idle" /\ open
      BY <1>0, <1>5 DEF Shrink, historyVars
    <2>2. CASE pc' = "begin"
      <3> DEFINE S == ((job.targets \cap missing) \ job.covered) \ searched
      <3>1. job' = [job EXCEPT !.targets = S, !.keys = S] /\ \A e \in S : ~SpentUp(e)
        BY <1>5, <2>2 DEF Shrink, Goto, Leave
      <3>2. S \subseteq Episodes
        BY DEF ScanInv, QueueTyped
      <3> HIDE DEF S
      <3>3. job'.targets = S /\ job'.keys = S
        BY <3>1 DEF ScanInv, PlaceTyped, JobType
      <3>4. \A e \in S : mem.attempts[e] \in Nat /\ MaxAttempts \in Nat /\ ~SpentUp(e)
        BY <3>1, <3>2, QueueAssumption, StoreAssumption DEF IInv, Sound, State, Episodes
      <3> QED
        BY <2>1, <2>2, <3>3, <3>4 DEF Quiet, Budgeted, SpentUp
    <2>3. CASE pc' # "begin"
      BY <1>5, <2>1, <2>3, ElsewhereIs DEF Shrink, Goto, Leave, Quiet
    <2> QED
      BY <2>2, <2>3
  <1>6. CASE ReadAgain
    <2> DEFINE S == (job.targets \ Covered(Item)) \ searched
    <2>1. /\ job' = [job EXCEPT !.targets = S] /\ S \subseteq job.targets
          /\ pc = "again" /\ pc' \in {"finish", "missing"} /\ UNCHANGED <<storeVars, sent, asked>>
      BY <1>6 DEF ReadAgain
    <2> HIDE DEF S
    <2>2. job'.item = job.item /\ job'.targets = S
      BY <2>1 DEF ScanInv, PlaceTyped, JobType
    <2> QED
      BY <1>0, <2>1, <2>2, ElsewhereIs DEF Quiet, AfterBegin
  <1>7. CASE ReadMissing
    <2> DEFINE S == job.targets \cap missing
    <2>1. /\ job' = [job EXCEPT !.targets = S] /\ S \subseteq job.targets
          /\ pc = "missing" /\ pc' \in {"finish", "search"} /\ UNCHANGED <<storeVars, sent, asked>>
      BY <1>7 DEF ReadMissing, Goto, historyVars
    <2> HIDE DEF S
    <2>2. job'.item = job.item /\ job'.targets = S
      BY <2>1 DEF ScanInv, PlaceTyped, JobType
    <2> QED
      BY <1>0, <2>1, <2>2, ElsewhereIs DEF Quiet, AfterBegin
  <1> QED
    BY <1>1, <1>2, <1>3, <1>4, <1>5, <1>6, <1>7 DEF Scan, StoreActs

LEMMA StepKinds ==
    ASSUME IInv, ScanInv, OnceInv, [RecoveryNext]_recoveryVars
    PROVE  StoreActs \/ RemoveItem \/ SendSearch \/ Quiet
  <1>0. pc # "idle" => open
    BY DEF OnceInv
  <1>1. CASE Surroundings
    BY <1>0, <1>1 DEF Surroundings, StoreActs, MoveRow, Gain, Lose, scanVars, historyVars, Quiet
  <1>2. CASE Die \/ Restart
    BY <1>2 DEF StoreActs
  <1>3. CASE UNCHANGED recoveryVars
    BY <1>0, <1>3 DEF recoveryVars, scanVars, historyVars, Quiet
  <1> QED
    BY <1>1, <1>2, <1>3, ScanQuiet DEF RecoveryNext

-----------------------------------------------------------------------------
(* The two requests. *)

LEMMA RemoveKeeps ==
    ASSUME ScanInv, OnceInv, RemoveItem
    PROVE  OnceInv'
  <1>1. /\ mem' = mem /\ disk' = disk /\ open' = open /\ asked' = asked
        /\ pc = "remove" /\ Send(Item, "remove") /\ Item \in Downloads
    BY ReadTypes, AllStages DEF RemoveItem, storeVars, vars, durableVars
  <1>2. (pc' = "removed" /\ job' = job) \/ pc' = "scan"
    BY DEF RemoveItem, AfterSend, Leave, Goto
  <1>3. /\ sent[Item].remove = 0 /\ sent[Item].search = 0 /\ open
        /\ Waiting(mem, Item) /\ Waiting(disk, Item)
        /\ \A e \in job.targets : /\ asked[e] < mem.attempts[e] /\ asked[e] < disk.attempts[e]
                                  /\ asked[e] < MaxAttempts
    BY <1>1 DEF OnceInv, At, AfterBegin, Item
  <1>4. /\ \A d \in Downloads : d # Item => sent'[d] = sent[d]
        /\ sent'[Item].remove = 1 /\ sent'[Item].search = 0
    <2>1. sent[Item] \in [remove : Nat, search : Nat]
      BY <1>1 DEF ScanInv, CountsTyped
    <2>2. /\ \A d \in Downloads : d # Item => sent'[d] = sent[d]
          /\ sent'[Item] = [sent[Item] EXCEPT !.remove = sent[Item].remove + 1]
      BY <1>1, SendTyped
    <2> QED
      BY <1>3, <2>1, <2>2
  <1>5. Within(sent', asked)
    BY <1>4 DEF OnceInv, Within
  <1>6. Kept(mem, sent', asked) /\ Kept(disk, sent', asked)
    <2>1. ASSUME NEW s, Kept(s, sent, asked), Waiting(s, Item) PROVE Kept(s, sent', asked)
      BY <1>4, <2>1 DEF Kept, Unsent
    <2> QED
      BY <1>3, <2>1 DEF OnceInv
  <1>7. /\ At(pc', job', mem, sent', asked) /\ At(pc', job', disk, sent', asked)
        /\ Budgeted(pc', job', mem)
    <2>1. CASE pc' = "removed" /\ job' = job
      BY <1>3, <1>4, <2>1 DEF At, Budgeted, Item
    <2>2. CASE pc' = "scan"
      BY <2>2, AtElsewhere, ElsewhereIs
    <2> QED
      BY <1>2, <2>1, <2>2
  <1> QED
    BY <1>1, <1>3, <1>5, <1>6, <1>7, HoldsNext DEF Holds

LEMMA SearchKeeps ==
    ASSUME IInv, ScanInv, OnceInv, SendSearch
    PROVE  OnceInv'
  <1>1. /\ mem' = mem /\ disk' = disk /\ open' = open
        /\ pc = "send" /\ Send(Item, "search") /\ Item \in Downloads
        /\ asked' = [e \in Episodes |-> IF e \in job.targets THEN asked[e] + 1 ELSE asked[e]]
    BY ReadTypes, AllStages DEF SendSearch, storeVars, vars, durableVars
  <1>2. pc' \in Elsewhere
    BY ElsewhereIs DEF SendSearch, AfterSend, Leave, Goto
  <1>3. /\ sent[Item].search = 0 /\ open
        /\ Waiting(mem, Item) /\ Waiting(disk, Item)
        /\ Searching(mem, Item) /\ Searching(disk, Item)
        /\ \A e \in job.targets : /\ asked[e] < mem.attempts[e] /\ asked[e] < disk.attempts[e]
                                  /\ asked[e] < MaxAttempts
    BY <1>1 DEF OnceInv, At, AfterBegin, Item
  <1>4. /\ \A d \in Downloads : d # Item => sent'[d] = sent[d]
        /\ sent'[Item].search = 1 /\ sent'[Item].remove = sent[Item].remove
    <2>1. sent[Item] \in [remove : Nat, search : Nat]
      BY <1>1 DEF ScanInv, CountsTyped
    <2>2. /\ \A d \in Downloads : d # Item => sent'[d] = sent[d]
          /\ sent'[Item] = [sent[Item] EXCEPT !.search = sent[Item].search + 1]
      BY <1>1, SendTyped
    <2> QED
      BY <1>3, <2>1, <2>2
  <1>5. /\ asked \in [Episodes -> Nat] /\ MaxAttempts \in Nat
        /\ \A e \in Episodes : mem.attempts[e] \in Nat /\ disk.attempts[e] \in Nat
    BY QueueAssumption, StoreAssumption DEF IInv, Sound, State, Episodes, ScanInv, CountsTyped
  <1>6. Within(sent', asked')
    <2>1. \A d \in Downloads : sent'[d].remove <= 1 /\ sent'[d].search <= 1
      BY <1>4 DEF OnceInv, Within
    <2>2. \A e \in Episodes : asked'[e] <= MaxAttempts
      BY <1>1, <1>3, <1>5 DEF OnceInv, Within
    <2> QED
      BY <2>1, <2>2 DEF Within
  <1>7. Charged(mem, asked') /\ Charged(disk, asked')
    BY <1>1, <1>3, <1>5 DEF OnceInv, Kept, Charged
  <1>8. Kept(mem, sent', asked') /\ Kept(disk, sent', asked')
    <2>1. ASSUME NEW s, Kept(s, sent, asked), Charged(s, asked'), Waiting(s, Item),
                 Searching(s, Item)
          PROVE  Kept(s, sent', asked')
      BY <1>4, <2>1 DEF Kept, Unsent
    <2> QED
      BY <1>3, <1>7, <2>1 DEF OnceInv
  <1>9. /\ At(pc', job', mem, sent', asked') /\ At(pc', job', disk, sent', asked')
        /\ Budgeted(pc', job', mem)
    BY <1>2, AtElsewhere
  <1> QED
    BY <1>1, <1>3, <1>6, <1>8, <1>9, HoldsNext DEF Holds

-----------------------------------------------------------------------------
(* What the states that are saved keep. *)

\* Whatever becomes of a save: what holds of the old and of the new state holds
\* of both copies, and after a failed one nothing is claimed of the stage.
LEMMA SavedKeeps ==
    ASSUME IInv, NEW next, Update(next), Within(sent', asked'),
           Kept(mem, sent', asked'), Kept(next, sent', asked'),
           \/ pc' \in Elsewhere
           \/ /\ ~writeErr' /\ At(pc', job', next, sent', asked')
              /\ Budgeted(pc', job', next)
    PROVE  OnceInv'
  <1>1. mem = disk /\ open /\ open' = open
    BY DEF IInv, MemIsDisk, Update, Commits, CommitFails, Writable
  <1>2. mem' \in {mem, next} /\ disk' \in {mem, next}
    BY <1>1 DEF Update, Commits, CommitFails, Writable
  <1>3. ~writeErr' => mem' = next /\ disk' = next
    BY DEF Update, Commits, CommitFails
  <1>4. Kept(mem', sent', asked') /\ Kept(disk', sent', asked')
    BY <1>2
  <1>5. /\ At(pc', job', mem', sent', asked') /\ At(pc', job', disk', sent', asked')
        /\ Budgeted(pc', job', mem')
    <2>1. CASE pc' \in Elsewhere
      BY <2>1, AtElsewhere
    <2>2. CASE /\ ~writeErr' /\ At(pc', job', next, sent', asked')
               /\ Budgeted(pc', job', next)
      BY <1>3, <2>2
    <2> QED
      BY <2>1, <2>2
  <1> QED
    BY <1>1, <1>4, <1>5, HoldsNext DEF Holds

\* The same entry and completion of a download's key.
LEMMA SameEntry ==
    ASSUME NEW s, NEW t, NEW d \in Downloads, NEW n, Unsent(s, d, n),
           t.operations[QueueKey[d]] = s.operations[QueueKey[d]],
           QueueKey[d] \in t.completed <=> QueueKey[d] \in s.completed
    PROVE  Unsent(t, d, n)
  BY RecoveryKeys DEF Unsent, Waiting, Searching, Pending

\* A charge lowers no counter, and raises each one charged, unless one of them is
\* at its end.
Raised(s, t, keys) ==
    /\ \A e \in Episodes : s.attempts[e] <= t.attempts[e]
    /\ \A e \in keys : \/ s.attempts[e] < t.attempts[e]
                       \/ \E k \in keys : s.attempts[k] >= MaxInt

LEMMA NextAttemptRaises ==
    ASSUME NEW s, s.attempts \in [RetryKeys -> 0 .. MaxInt], NEW keys \in SUBSET Episodes,
           NEW attempt, IsNextAttempt(s, keys, attempt)
    PROVE  \A e \in keys : /\ s.attempts[e] <= attempt
                           /\ \/ s.attempts[e] < attempt
                              \/ \E k \in keys : s.attempts[k] >= MaxInt
  <1>1. PICK top \in {0} \cup {s.attempts[k] : k \in keys} :
           /\ \A k \in keys : s.attempts[k] <= top
           /\ attempt = IF top < MaxInt THEN top + 1 ELSE top
    BY DEF IsNextAttempt
  <1>2. /\ MaxInt \in Nat \ {0} /\ keys \subseteq Episodes /\ Episodes \subseteq RetryKeys
        /\ \A k \in Episodes : s.attempts[k] \in 0 .. MaxInt
    BY StoreAssumption DEF Episodes
  <1>3. top = 0 \/ \E k \in keys : top = s.attempts[k]
    OBVIOUS
  <1>4. top \in 0 .. MaxInt
    BY <1>2, <1>3
  <1>5. CASE top < MaxInt
    BY <1>1, <1>2, <1>4, <1>5
  <1>6. CASE ~(top < MaxInt)
    BY <1>1, <1>2, <1>3, <1>4, <1>6
  <1> QED
    BY <1>5, <1>6

Charges(s, t, keys, attempt, a) ==
    /\ s.attempts \in [RetryKeys -> 0 .. MaxInt] /\ a \in [Episodes -> Nat]
    /\ keys \in SUBSET Episodes /\ attempt \in 0 .. MaxInt
    /\ IsNextAttempt(s, keys, attempt)
    /\ \A e \in Episodes : t.attempts[e] = IF e \in keys THEN attempt ELSE s.attempts[e]
    /\ Charged(s, a)

LEMMA ChargeRaises ==
    ASSUME NEW s, NEW t, NEW keys, NEW attempt, NEW a, Charges(s, t, keys, attempt, a)
    PROVE  Raised(s, t, keys) /\ Charged(t, a)
  <1>1. /\ MaxInt \in Nat /\ \A e \in Episodes : s.attempts[e] \in 0 .. MaxInt
    BY StoreAssumption DEF Episodes, Charges
  <1>2. Raised(s, t, keys)
    BY <1>1, NextAttemptRaises DEF Raised, Charges
  <1>3. \A e \in Episodes : a[e] \in Nat /\ t.attempts[e] \in Nat /\ s.attempts[e] \in Nat
    BY <1>1 DEF Charges
  <1> QED
    BY <1>2, <1>3 DEF Charged, Raised, Charges

\* The operation is in the state that is saved, nothing was sent for it, and its
\* keys are charged.
Starting(next, r, phase, keys) ==
    /\ Update(next) /\ Kept(next, sent, asked)
    /\ r.key \in Pending(next) /\ next.operations[r.key].phase = phase
    /\ \A d \in Downloads : QueueKey[d] = r.key => sent[d].remove = 0 /\ sent[d].search = 0
    /\ Raised(mem, next, keys)
    /\ \A e \in Episodes : next.attempts[e] \in 0 .. MaxInt

\* An operation is begun only when no trace of one is left under its key.
LEMMA BegunKept ==
    ASSUME IInv, ScanInv, OnceInv, NEW r \in Requests, NEW phase \in Phases,
           NEW import \in {"none", "requested", "submitted"},
           NEW keys \in SUBSET Episodes, NEW attempt \in 0 .. MaxInt,
           Begin(r, phase, FALSE, import, keys, attempt)
    PROVE  \E next : Starting(next, r, phase, keys)
  <1> DEFINE op == NewOperation(r, phase, FALSE, import)
             next == Begun(mem, r.key, op, keys, attempt)
  <1>1. op \in Operation /\ IsEntryOf(op, r) /\ op.phase = phase
    BY NewOperationType DEF NewOperation
  <1>2. /\ r.key \notin mem.completed /\ \A j \in Pending(mem) : ~Fences(mem.operations[j], op)
        /\ Update(next) /\ IsNextAttempt(mem, keys, attempt)
    BY DEF Begin, AlreadyDone, Fenced
  <1>3. Sound(mem) /\ mem \in State /\ r.key \in Keys
    BY RequestAssumption DEF IInv, Sound
  <1> HIDE DEF op
  <1>4. r.key \notin Pending(mem)
    BY <1>1, <1>2, <1>3, KeyFree
  <1>5. /\ next.operations = [mem.operations EXCEPT ![r.key] = op]
        /\ next.completed = mem.completed
        /\ next.attempts = [x \in RetryKeys |-> IF x \in keys THEN attempt ELSE mem.attempts[x]]
    BY <1>3 DEF Begun, WithOperation, WithAttempts, State
  <1> HIDE DEF next
  <1>6. r.key \in Pending(next) /\ next.operations[r.key].phase = phase
    BY <1>1, <1>3, <1>5, NoOpAssumption DEF Pending, State
  <1>7. \A d \in Downloads : QueueKey[d] = r.key => sent[d].remove = 0 /\ sent[d].search = 0
    BY <1>2, <1>4 DEF OnceInv, Kept, Unsent, Waiting
  <1>8. ASSUME NEW d \in Downloads PROVE Unsent(next, d, sent[d])
    <2>1. CASE QueueKey[d] = r.key
      BY <1>7, <2>1 DEF Unsent
    <2>2. CASE QueueKey[d] # r.key
      <3>1. next.operations[QueueKey[d]] = mem.operations[QueueKey[d]]
        BY <1>3, <1>5, <2>2, RecoveryKeys DEF State
      <3>2. Unsent(mem, d, sent[d]) /\ next.completed = mem.completed
        BY <1>5 DEF OnceInv, Kept
      <3> QED
        BY <3>1, <3>2, SameEntry
    <2> QED
      BY <2>1, <2>2
  <1>9. /\ mem.attempts \in [RetryKeys -> 0 .. MaxInt]
        /\ asked \in [Episodes -> Nat] /\ Charged(mem, asked)
    BY <1>3 DEF State, ScanInv, CountsTyped, OnceInv, Kept
  <1>10. \A e \in Episodes : next.attempts[e] = IF e \in keys THEN attempt ELSE mem.attempts[e]
    BY <1>5 DEF Episodes
  <1>11. Charges(mem, next, keys, attempt, asked)
    BY <1>2, <1>9, <1>10 DEF Charges
  <1>12. Charged(next, asked) /\ Raised(mem, next, keys)
    BY <1>11, ChargeRaises
  <1>13. \A e \in Episodes : next.attempts[e] \in 0 .. MaxInt
    BY <1>9, <1>10 DEF Episodes
  <1> QED
    BY <1>2, <1>6, <1>7, <1>8, <1>12, <1>13 DEF Kept, Starting

\* A phase is rewritten while no search was sent, or to announce one.
LEMMA PhaseKept ==
    ASSUME IInv, OnceInv, NEW d \in Downloads, Waiting(mem, d), sent[d].search = 0,
           NEW phase \in Phases, NEW next, next = WithPhase(mem, QueueKey[d], phase)
    PROVE  /\ Kept(next, sent, asked) /\ Waiting(next, d)
           /\ next.operations[QueueKey[d]].phase = phase /\ next.attempts = mem.attempts
  <1> DEFINE op == [mem.operations[QueueKey[d]] EXCEPT !.phase = phase]
  <1>1. mem \in State /\ QueueKey[d] \in Keys
    BY RecoveryKeys DEF IInv, Sound
  <1>2. op \in Operation /\ op.phase = phase
    BY <1>1 DEF State, Waiting, Pending, Operation
  <1> HIDE DEF op
  <1>3. /\ next.operations = [mem.operations EXCEPT ![QueueKey[d]] = op]
        /\ next.completed = mem.completed /\ next.attempts = mem.attempts
    BY <1>1 DEF WithPhase, WithOperation, State, op
  <1>4. Waiting(next, d) /\ next.operations[QueueKey[d]] = op
    BY <1>1, <1>2, <1>3, NoOpAssumption DEF Waiting, Pending, State
  <1>5. ASSUME NEW c \in Downloads PROVE Unsent(next, c, sent[c])
    <2>1. CASE c = d
      BY <1>4, <2>1 DEF Unsent
    <2>2. CASE c # d
      <3>1. QueueKey[c] # QueueKey[d] /\ QueueKey[c] \in Keys
        BY <2>2, QueueAssumption
      <3>2. next.operations[QueueKey[c]] = mem.operations[QueueKey[c]]
        BY <1>1, <1>3, <3>1 DEF State
      <3> QED
        BY <1>3, <3>2, SameEntry DEF OnceInv, Kept
    <2> QED
      BY <2>1, <2>2
  <1> QED
    BY <1>2, <1>3, <1>4, <1>5 DEF Kept, Charged, OnceInv

\* A completed key sends no more.
LEMMA CompletionKept ==
    ASSUME IInv, OnceInv, NEW k \in Pending(mem), NEW next, next = WithCompletion(mem, k)
    PROVE  Kept(next, sent, asked)
  <1>1. mem \in State /\ k \in Keys
    BY DEF IInv, Sound, Pending
  <1>2. /\ next.operations = [mem.operations EXCEPT ![k] = NoOp]
        /\ next.completed = mem.completed \cup {k} /\ next.attempts = mem.attempts
    BY <1>1 DEF WithCompletion, WithOperation, State
  <1>3. ASSUME NEW d \in Downloads PROVE Unsent(next, d, sent[d])
    <2>1. CASE QueueKey[d] = k
      BY <1>1, <1>2, <2>1 DEF Unsent, Waiting, Pending, State
    <2>2. CASE QueueKey[d] # k
      <3>1. next.operations[QueueKey[d]] = mem.operations[QueueKey[d]]
        BY <1>1, <1>2, <2>2, RecoveryKeys DEF State
      <3> QED
        BY <1>2, <2>2, <3>1, SameEntry DEF OnceInv, Kept
    <2> QED
      BY <2>1, <2>2
  <1> QED
    BY <1>2, <1>3 DEF Kept, Charged, OnceInv

-----------------------------------------------------------------------------
(* The scan's updates. *)

LEMMA ItemRequest ==
    ASSUME ScanInv, pc \in Locked
    PROVE  /\ Item \in Downloads /\ job.keys \in SUBSET Episodes
           /\ RequestFor(Item) \in Requests /\ RequestFor(Item).key = QueueKey[Item]
  <1>1. Item \in Downloads /\ job.keys \in SUBSET Episodes
    BY ReadTypes DEF ScanInv, PlaceTyped, JobType
  <1> QED
    BY <1>1, RecoveryKeys

\* With an attempt left and one more charged, there is a charge to send with.
LEMMA RoomToSend ==
    ASSUME NEW asks \in Nat, NEW before \in 0 .. MaxInt, NEW after \in 0 .. MaxInt,
           asks <= before, before < MaxAttempts, before < after
    PROVE  asks < after /\ asks < MaxAttempts
  BY QueueAssumption, StoreAssumption

LEMMA RemovalBegun ==
    ASSUME IInv, ScanInv, OnceInv, BeginRemoval
    PROVE  OnceInv'
  <1>1. PICK attempt \in 0 .. MaxInt :
           Begin(RequestFor(Item), "queue-removal-requested", FALSE, "none", job.keys, attempt)
    BY DEF BeginRemoval
  <1>2. /\ pc = "begin" /\ sent' = sent /\ asked' = asked
        /\ IF writeErr' THEN pc' = "scan" ELSE pc' = "remove" /\ job' = job
    BY DEF BeginRemoval, AfterSave, Leave, Goto, historyVars
  <1>3. /\ Item \in Downloads /\ job.keys \in SUBSET Episodes
        /\ RequestFor(Item) \in Requests /\ RequestFor(Item).key = QueueKey[Item]
    BY <1>2, ItemRequest, AllStages
  <1>4. PICK next : Starting(next, RequestFor(Item), "queue-removal-requested", job.keys)
    BY <1>1, <1>3, BegunKept DEF Phases
  <1>5. /\ Update(next) /\ Kept(next, sent, asked) /\ QueueKey[Item] \in Pending(next)
        /\ sent[Item].remove = 0 /\ sent[Item].search = 0
    BY <1>3, <1>4 DEF Starting
  <1>6. \A e \in job.targets : asked[e] < next.attempts[e] /\ asked[e] < MaxAttempts
    <2> SUFFICES ASSUME NEW e \in job.targets
                 PROVE  asked[e] < next.attempts[e] /\ asked[e] < MaxAttempts
      OBVIOUS
    <2>1. job.targets \subseteq job.keys /\ \A k \in job.keys : mem.attempts[k] < MaxAttempts
      BY <1>2 DEF OnceInv, Budgeted
    <2>2. e \in job.keys /\ e \in Episodes
      BY <1>3, <2>1
    <2>3. mem.attempts \in [RetryKeys -> 0 .. MaxInt]
      BY DEF IInv, Sound, State
    <2>4. \A k \in job.keys : ~(mem.attempts[k] >= MaxInt)
      BY <1>3, <2>1, <2>3, QueueAssumption, StoreAssumption DEF Episodes
    <2>5. mem.attempts[e] < next.attempts[e] /\ mem.attempts[e] < MaxAttempts
      BY <1>4, <2>1, <2>2, <2>4 DEF Starting, Raised
    <2>6. /\ asked[e] \in Nat /\ mem.attempts[e] \in 0 .. MaxInt
          /\ next.attempts[e] \in 0 .. MaxInt /\ asked[e] <= mem.attempts[e]
      BY <1>4, <2>2, <2>3 DEF Starting, Episodes, ScanInv, CountsTyped, OnceInv, Kept, Charged
    <2> QED
      BY <2>5, <2>6, RoomToSend
  <1>7. Within(sent', asked') /\ Kept(mem, sent', asked') /\ Kept(next, sent', asked')
    BY <1>2, <1>5 DEF OnceInv
  <1>8. CASE writeErr'
    BY <1>2, <1>5, <1>7, <1>8, SavedKeeps, ElsewhereIs
  <1>9. CASE ~writeErr'
    <2>1. At(pc', job', next, sent', asked') /\ Budgeted(pc', job', next)
      BY <1>2, <1>5, <1>6, <1>9 DEF At, Budgeted, Waiting, Item
    <2> QED
      BY <1>5, <1>7, <1>9, <2>1, SavedKeeps
  <1> QED
    BY <1>8, <1>9

\* The phase of the scan's own operation is rewritten.
LEMMA PhaseRecorded ==
    ASSUME IInv, ScanInv, OnceInv, RecordRemoved \/ RecordSearch
    PROVE  OnceInv'
  <1> DEFINE phase == IF pc = "removed" THEN "queue-removed" ELSE "search-requested"
             next == WithPhase(mem, QueueKey[Item], phase)
  <1>1. /\ pc \in {"removed", "search"} /\ QueueKey[Item] \in Pending(mem) /\ Update(next)
        /\ sent' = sent /\ asked' = asked
    BY DEF RecordRemoved, RecordSearch, Phase, SearchRequested, historyVars
  <1>2. \/ pc' = "scan" \/ pc' = "finish"
        \/ ~writeErr' /\ job' = job /\ pc = "removed" /\ pc' = "again"
        \/ ~writeErr' /\ job' = job /\ pc = "search" /\ pc' = "send"
    BY DEF RecordRemoved, RecordSearch, AfterSave, Leave, Goto
  <1>3. Item \in Downloads /\ phase \in Phases /\ Waiting(mem, Item)
    BY <1>1, ItemRequest, AllStages DEF Phases, Waiting
  <1>4. /\ sent[Item].search = 0
        /\ \A e \in job.targets : asked[e] < mem.attempts[e] /\ asked[e] < MaxAttempts
    BY <1>1 DEF OnceInv, At, AfterBegin, Item
  <1>5. /\ Kept(next, sent, asked) /\ Waiting(next, Item)
        /\ next.operations[QueueKey[Item]].phase = phase /\ next.attempts = mem.attempts
    BY <1>3, <1>4, PhaseKept
  <1>6. pc = "search" => phase = "search-requested"
    OBVIOUS
  <1> HIDE DEF next, phase
  <1>7. Within(sent', asked') /\ Kept(mem, sent', asked') /\ Kept(next, sent', asked')
    BY <1>1, <1>5 DEF OnceInv
  <1>8. CASE pc' \in {"scan", "finish"}
    BY <1>1, <1>7, <1>8, SavedKeeps, ElsewhereIs
  <1>9. CASE ~writeErr' /\ job' = job /\ pc = "removed" /\ pc' = "again"
    <2>1. At(pc', job', next, sent', asked') /\ Budgeted(pc', job', next)
      BY <1>1, <1>4, <1>5, <1>9 DEF At, Budgeted, Item
    <2> QED
      BY <1>1, <1>7, <1>9, <2>1, SavedKeeps
  <1>10. CASE ~writeErr' /\ job' = job /\ pc = "search" /\ pc' = "send"
    <2>1. At(pc', job', next, sent', asked') /\ Budgeted(pc', job', next)
      BY <1>1, <1>4, <1>5, <1>6, <1>10 DEF At, Budgeted, Searching, Item
    <2> QED
      BY <1>1, <1>7, <1>10, <2>1, SavedKeeps
  <1> QED
    BY <1>2, <1>8, <1>9, <1>10

-----------------------------------------------------------------------------
(* Updates that leave the scan nowhere in particular. *)

LEMMA UnlockedIs ==
    ASSUME ScanInv, Unlocked
    PROVE  pc \in Elsewhere
  BY ElsewhereIs DEF Unlocked, ScanInv, PlaceTyped

LEMMA CompletionRecorded ==
    ASSUME IInv, OnceInv, NEW k, Complete(k), pc' \in Elsewhere, sent' = sent, asked' = asked
    PROVE  OnceInv'
  <1> DEFINE next == WithCompletion(mem, k)
  <1>1. k \in Pending(mem) /\ Update(next)
    BY DEF Complete
  <1>2. Kept(next, sent, asked)
    BY <1>1, CompletionKept
  <1> HIDE DEF next
  <1>3. Within(sent', asked') /\ Kept(mem, sent', asked') /\ Kept(next, sent', asked')
    BY <1>2 DEF OnceInv
  <1> QED
    BY <1>1, <1>3, SavedKeeps

LEMMA BeginRecorded ==
    ASSUME IInv, ScanInv, OnceInv, NEW r \in Requests, NEW phase \in Phases,
           NEW import \in {"none", "requested", "submitted"},
           NEW keys \in SUBSET Episodes, NEW attempt \in 0 .. MaxInt,
           Begin(r, phase, FALSE, import, keys, attempt),
           pc' \in Elsewhere, sent' = sent, asked' = asked
    PROVE  OnceInv'
  <1>1. PICK next : Starting(next, r, phase, keys)
    BY BegunKept
  <1>2. Update(next) /\ Kept(next, sent, asked)
    BY <1>1 DEF Starting
  <1>3. Within(sent', asked') /\ Kept(mem, sent', asked') /\ Kept(next, sent', asked')
    BY <1>2 DEF OnceInv
  <1> QED
    BY <1>2, <1>3, SavedKeeps

LEMMA ImportBegun ==
    ASSUME IInv, ScanInv, OnceInv, BeginImport
    PROVE  OnceInv'
  <1>1. /\ pc = "import" /\ pc' = "scan" /\ sent' = sent /\ asked' = asked
        /\ pc' \in Elsewhere
    BY ElsewhereIs DEF BeginImport, Leave, Goto, historyVars
  <1>2. CASE UNCHANGED storeVars
    <2>1. Quiet
      BY <1>1, <1>2 DEF Quiet, OnceInv
    <2> QED
      BY <2>1, QuietKeeps
  <1>3. ASSUME NEW attempt \in 0 .. MaxInt,
               Begin(RequestFor(Item), "manual-import-requested", FALSE, "requested", {}, attempt)
        PROVE  OnceInv'
    <2>1. /\ RequestFor(Item) \in Requests /\ {} \in SUBSET Episodes
          /\ "manual-import-requested" \in Phases
      BY <1>1, ItemRequest, AllStages DEF Phases
    <2> QED
      BY <1>1, <1>3, <2>1, BeginRecorded
  <1> QED
    BY <1>2, <1>3 DEF BeginImport

LEMMA FinishRecorded ==
    ASSUME IInv, ScanInv, OnceInv, Finish
    PROVE  OnceInv'
  <1>1. /\ Complete(QueueKey[Item]) /\ pc' \in Elsewhere /\ sent' = sent /\ asked' = asked
    BY ElsewhereIs DEF Finish, Leave, Goto, historyVars
  <1> QED
    BY <1>1, CompletionRecorded

LEMMA OthersKeep ==
    ASSUME IInv, ScanInv, OnceInv,
           \/ \E d \in Downloads : ReconcileImport(d)
           \/ \E r \in MediaRequests :
                 MediaCompletes(r) \/ \E ids \in SUBSET Episodes : MediaBegins(r, ids)
    PROVE  OnceInv'
  <1>1. ASSUME NEW d \in Downloads, ReconcileImport(d) PROVE OnceInv'
    <2>1. Complete(QueueKey[d]) /\ pc' \in Elsewhere /\ sent' = sent /\ asked' = asked
      BY <1>1, UnlockedIs DEF ReconcileImport, scanVars, historyVars
    <2> QED
      BY <2>1, CompletionRecorded
  <1>2. ASSUME NEW r \in MediaRequests, MediaCompletes(r) PROVE OnceInv'
    <2>1. Complete(r.key) /\ pc' \in Elsewhere /\ sent' = sent /\ asked' = asked
      BY <1>2, UnlockedIs DEF MediaCompletes, scanVars, historyVars
    <2> QED
      BY <2>1, CompletionRecorded
  <1>3. ASSUME NEW r \in MediaRequests, NEW ids \in SUBSET Episodes, MediaBegins(r, ids)
        PROVE  OnceInv'
    <2>1. PICK attempt \in 0 .. MaxInt : Begin(r, "delete-requested", FALSE, "none", ids, attempt)
      BY <1>3 DEF MediaBegins
    <2>2. /\ pc' \in Elsewhere /\ sent' = sent /\ asked' = asked
          /\ r \in Requests /\ "delete-requested" \in Phases
      BY <1>3, UnlockedIs, RecoveryKeys DEF MediaBegins, scanVars, historyVars, Phases
    <2> QED
      BY <2>1, <2>2, BeginRecorded
  <1> QED
    BY <1>1, <1>2, <1>3

\* A reset clears the counter and what it counts.
LEMMA ResetRecorded ==
    ASSUME IInv, ScanInv, OnceInv, NEW e \in Episodes, MediaResets(e)
    PROVE  OnceInv'
  <1> DEFINE next == WithAttempts(mem, {e}, 0)
  <1>1. Update(next) /\ sent' = sent /\ asked' = [asked EXCEPT ![e] = 0] /\ pc' \in Elsewhere
    BY UnlockedIs DEF MediaResets, Reset, scanVars
  <1>2. /\ next.operations = mem.operations /\ next.completed = mem.completed
        /\ \A k \in Episodes : next.attempts[k] = IF k = e THEN 0 ELSE mem.attempts[k]
    BY DEF WithAttempts, IInv, Sound, State, Episodes
  <1> HIDE DEF next
  <1>3. /\ asked \in [Episodes -> Nat] /\ MaxAttempts \in Nat
        /\ \A k \in Episodes : mem.attempts[k] \in Nat
    BY QueueAssumption, StoreAssumption DEF ScanInv, CountsTyped, IInv, Sound, State, Episodes
  <1>4. Within(sent', asked')
    BY <1>1, <1>3 DEF OnceInv, Within
  <1>5. Charged(mem, asked') /\ Charged(next, asked')
    BY <1>1, <1>2, <1>3 DEF OnceInv, Kept, Charged
  <1>6. \A d \in Downloads : Unsent(mem, d, sent'[d]) /\ Unsent(next, d, sent'[d])
    BY <1>1, <1>2 DEF OnceInv, Kept, Unsent, Waiting, Searching, Pending
  <1>7. Kept(mem, sent', asked') /\ Kept(next, sent', asked')
    BY <1>5, <1>6 DEF Kept
  <1> QED
    BY <1>1, <1>4, <1>7, SavedKeeps

\* A save of the webhook jobs may fail, but writes the same state.
LEMMA OtherSaved ==
    ASSUME IInv, ScanInv, OnceInv, SaveOther
    PROVE  OnceInv'
  <1>1. /\ mem' = mem /\ disk' = disk /\ open' = open
        /\ UNCHANGED <<pc, job, sent, asked>>
    BY DEF SaveOther, SaveWebhooks, Update, Commits, CommitFails, Writable, IInv, MemIsDisk,
       scanVars, historyVars
  <1>2. Holds(open', mem', disk', pc', job', sent', asked')
    BY <1>1 DEF Holds, OnceInv
  <1> QED
    BY <1>2, HoldsNext

LEMMA DeathKeeps ==
    ASSUME OnceInv, Die
    PROVE  OnceInv'
  <1>1. mem' = disk /\ disk' = disk /\ pc' = "idle" /\ sent' = sent /\ asked' = asked
    BY DEF Die, Stop, Crash, Forget
  <1>2. /\ At(pc', job', disk, sent, asked) /\ Budgeted(pc', job', disk)
    BY <1>1, AtElsewhere, ElsewhereIs
  <1>3. Holds(open', mem', disk', pc', job', sent', asked')
    BY <1>1, <1>2 DEF Holds, OnceInv
  <1> QED
    BY <1>3, HoldsNext

\* Binding and splitting counters leave the journal alone and lower no budget.
LEMMA StartKeepsKept ==
    ASSUME Sound(disk), NEW configured \in Bindings, NEW n, NEW a \in [Episodes -> Nat],
           Kept(disk, n, a)
    PROVE  Kept(Bound(Migrated(disk), configured), n, a)
  <1> DEFINE b == Bound(Migrated(disk), configured)
  <1>1. b.operations = disk.operations /\ b.completed = disk.completed /\ disk \in State
    BY BoundSound DEF Sound
  <1>2. Counters(disk.attempts)
    BY <1>1 DEF State, Counters
  <1>3. ASSUME NEW e \in Episodes PROVE a[e] <= b.attempts[e]
    <2>1. b.attempts[e] = Budget(disk, e)
      BY MigrationKeepsBudget DEF Episodes
    <2>2. disk.attempts[e] <= Budget(disk, e) /\ Budget(disk, e) \in 0 .. MaxInt
      BY <1>2, BudgetIs DEF Episodes, Protecting
    <2>3. a[e] \in Nat /\ disk.attempts[e] \in 0 .. MaxInt /\ a[e] <= disk.attempts[e]
      BY <1>2 DEF Counters, Episodes, Kept, Charged
    <2> HIDE DEF b
    <2> QED
      BY <2>1, <2>2, <2>3, StoreAssumption
  <1> HIDE DEF b
  <1>4. \A d \in Downloads : Unsent(b, d, n[d])
    BY <1>1 DEF Kept, Unsent, Waiting, Searching, Pending
  <1>5. Kept(b, n, a)
    BY <1>3, <1>4 DEF Kept, Charged
  <1> QED
    BY <1>5 DEF b

LEMMA RestartKeeps ==
    ASSUME IInv, ScanInv, OnceInv, Restart
    PROVE  OnceInv'
  <1>1. PICK configured \in Bindings : Start(configured)
    BY DEF Restart
  <1> DEFINE b == Bound(Migrated(disk), configured)
  <1>2. ~open /\ mem' \in {disk, b} /\ disk' \in {disk, b}
    BY <1>1 DEF Start, Starts, StartFails
  <1>3. Kept(b, sent, asked)
    BY StartKeepsKept DEF IInv, ScanInv, CountsTyped, OnceInv
  <1> HIDE DEF b
  <1>4. pc' = "idle" /\ sent' = sent /\ asked' = asked
    BY <1>2 DEF Restart, scanVars, historyVars, OnceInv
  <1>5. /\ At(pc', job', mem', sent, asked) /\ At(pc', job', disk', sent, asked)
        /\ Budgeted(pc', job', mem')
    BY <1>4, AtElsewhere, ElsewhereIs
  <1>6. Kept(mem', sent, asked) /\ Kept(disk', sent, asked)
    BY <1>2, <1>3 DEF OnceInv
  <1>7. Holds(open', mem', disk', pc', job', sent', asked')
    BY <1>4, <1>5, <1>6 DEF Holds, OnceInv
  <1> QED
    BY <1>7, HoldsNext

-----------------------------------------------------------------------------
(* The invariant, and what it says. *)

LEMMA OnceNext ==
    ASSUME IInv, ScanInv, OnceInv, [RecoveryNext]_recoveryVars
    PROVE  OnceInv'
  <1>1. CASE RemoveItem \/ SendSearch \/ Quiet
    BY <1>1, RemoveKeeps, SearchKeeps, QuietKeeps
  <1>2. CASE BeginRemoval \/ BeginImport \/ RecordRemoved \/ RecordSearch \/ Finish
    BY <1>2, RemovalBegun, ImportBegun, PhaseRecorded, FinishRecorded
  <1>3. CASE \/ \E d \in Downloads : ReconcileImport(d)
             \/ \E r \in MediaRequests :
                   MediaCompletes(r) \/ \E ids \in SUBSET Episodes : MediaBegins(r, ids)
    BY <1>3, OthersKeep
  <1>4. CASE (\E e \in Episodes : MediaResets(e)) \/ SaveOther \/ Die \/ Restart
    BY <1>4, ResetRecorded, OtherSaved, DeathKeeps, RestartKeeps
  <1> QED
    BY <1>1, <1>2, <1>3, <1>4, StepKinds DEF StoreActs

LEMMA OnceInit ==
    ASSUME RecoveryInit
    PROVE  OnceInv
  <1>1. /\ pc = "idle" /\ mem = disk /\ disk.completed = {}
        /\ \A d \in Downloads : sent[d].remove = 0 /\ sent[d].search = 0
        /\ \A e \in Episodes : asked[e] = 0 /\ disk.attempts[e] \in Nat
    BY StoreAssumption DEF RecoveryInit, Init, Episodes
  <1>2. Within(sent, asked)
    BY <1>1, QueueAssumption DEF Within
  <1>3. Kept(disk, sent, asked)
    BY <1>1 DEF Kept, Unsent, Charged
  <1>4. At(pc, job, disk, sent, asked) /\ Budgeted(pc, job, disk)
    BY <1>1, AtElsewhere, ElsewhereIs
  <1> QED
    BY <1>1, <1>2, <1>3, <1>4 DEF OnceInv

LEMMA OnceHolds == RecoverySpec => []OnceInv
  <1>1. RecoveryInit => OnceInv
    BY OnceInit
  <1>2. IInv /\ ScanInv /\ OnceInv /\ [RecoveryNext]_recoveryVars => OnceInv'
    BY OnceNext
  <1> QED
    BY <1>1, <1>2, RecoveryImplementsStore, Invariance, ScanTyped, PTL DEF RecoverySpec

\* However scans, failed saves, crashes and restarts follow one another, each
\* download is removed at most once and one search is sent for it.
THEOREM SentOnceCorrect == RecoverySpec => []SentOnce
  <1>1. OnceInv => SentOnce
    BY DEF OnceInv, Within, SentOnce
  <1> QED
    BY <1>1, OnceHolds, PTL

\* No episode is searched for more often than MaxAttempts between two resets:
\* every search was charged before, to a counter that was not spent.
THEOREM SearchBudgetCorrect == RecoverySpec => []SearchBudget
  <1>1. OnceInv => SearchBudget
    BY DEF OnceInv, Within, SearchBudget
  <1> QED
    BY <1>1, OnceHolds, PTL
-----------------------------------------------------------------------------
(* What the scan's looks are worth. *)

\* An unfinished removal keeps every other Begin off the series.
Fencing(s, k) ==
    /\ k \in Pending(s)
    /\ s.operations[k].kind = Kind /\ s.operations[k].subject = Subject
    /\ s.operations[k].import = "none"

Blocked(s) == \E d \in Downloads : Fencing(s, QueueKey[d])

Watched == {"shrink", "begin", "remove"}
Underway == {"remove", "removed", "again", "missing", "search", "send", "finish"}

\* The group, now g, is the planned one, and its imported rows have their files,
\* but for what is among the changes c.
Judged(stage, j, g, m, c) ==
    /\ stage \in Watched => g = j.group \/ j.item.download \in c
    /\ stage = "targets" => \A x \in j.group : x[1].episode \in j.episodes \cup {NoEpisode}
    /\ stage \in Watched \cup {"reread"} =>
          \A x \in j.group : x[2] = "imported" => x[1].episode \notin m \/ x[1].episode \in c

\* Of the episodes of the download, those without a file are targets, or known
\* to be cared for; before Begin they may have been marked as searched.
Planned(stage, j, m, done, l, known) ==
    /\ stage \in {"targets", "shrink"} => j.covered \subseteq l
    /\ stage \in {"reread", "shrink", "begin"} =>
          j.episodes \cap m \subseteq j.targets \cup done \cup known
    /\ stage \in {"begin", "remove", "removed", "again"} => j.keys = j.targets
    /\ stage \in Underway => j.episodes \cap m \subseteq j.targets \cup known
    /\ stage = "finish" => j.episodes \cap m \subseteq known

\* A mark that came without a search leaves an operation behind that lets no
\* other removal of this scan begin.
Marked(stage, j, m, done, known, s) ==
    /\ stage \in Underway => Fencing(s, QueueKey[j.item.download])
    /\ stage \in Underway => done \cap m \subseteq j.targets \cup known
    /\ stage \in {"remove", "removed", "again", "finish"} => done \cap m \subseteq known
    /\ stage \notin Underway => done \cap m \subseteq known \/ Blocked(s)
    /\ stage = "idle" => done = {}

Known == issued \cup relied \cup raced

WindowInv ==
    /\ Judged(pc, job, Group(Item), missing, raced)
    /\ Planned(pc, job, missing, searched, relied, Known)
    /\ Marked(pc, job, missing, searched, Known, mem)

\* WindowInv of the next state, from its parts.
LEMMA WindowThen ==
    ASSUME NEW g, pc' \in Watched => g = Group(Item)',
           Judged(pc', job', g, missing', raced'),
           Planned(pc', job', missing', searched', relied', Known'),
           Marked(pc', job', missing', searched', Known', mem')
    PROVE  WindowInv'
  <1>1. Judged(pc', job', Group(Item)', missing', raced')
    BY DEF Judged
  <1> QED
    BY <1>1 DEF WindowInv, Judged, Planned, Marked, Fencing, Blocked, Pending

LEMMA UnderwayIs ==
    /\ Underway \subseteq Locked /\ Watched \subseteq Locked
    /\ {"idle", "scan", "plan", "targets", "reread", "shrink", "begin", "import"} \cap Underway = {}
    /\ {"idle", "scan", "plan", "import"} \cap Watched = {}
  BY DEF Underway, Watched, Locked

\* Between downloads only the marks count.
LEMMA NothingPlanned ==
    ASSUME WindowInv, pc' \in {"scan", "plan", "import"},
           searched' = searched, missing' = missing, Known \subseteq Known',
           searched \cap missing \subseteq Known \/ Blocked(mem')
    PROVE  WindowInv'
  <1>1. Judged(pc', job', Group(Item)', missing', raced')
    BY DEF Judged, Watched
  <1>2. Planned(pc', job', missing', searched', relied', Known')
    BY DEF Planned, Underway
  <1>3. Marked(pc', job', missing', searched', Known', mem')
    BY DEF Marked, Underway
  <1> QED
    BY <1>1, <1>2, <1>3, WindowThen

LEMMA IdleWindow ==
    ASSUME pc' = "idle", searched' = {}
    PROVE  WindowInv'
  <1>1. Judged(pc', job', Group(Item)', missing', raced')
    BY DEF Judged, Watched
  <1>2. Planned(pc', job', missing', searched', relied', Known')
    BY DEF Planned, Underway
  <1>3. Marked(pc', job', missing', searched', Known', mem')
    BY DEF Marked, Underway
  <1> QED
    BY <1>1, <1>2, <1>3, WindowThen

\* Whatever the stage, its marks are known or fence the series.
LEMMA MarksFence ==
    ASSUME ScanInv, WindowInv
    PROVE  searched \cap missing \subseteq Known \/ Blocked(mem)
  <1>1. CASE pc \in Underway
    BY <1>1, ReadTypes, UnderwayIs DEF WindowInv, Marked, Blocked, Item
  <1>2. CASE pc \notin Underway
    BY <1>2 DEF WindowInv, Marked
  <1> QED
    BY <1>1, <1>2

\* Return from recoverQueueItem without having changed the journal.
LEMMA LeaveWindow ==
    ASSUME ScanInv, WindowInv, Leave, mem' = mem, missing' = missing, Known \subseteq Known'
    PROVE  WindowInv'
  BY MarksFence, NothingPlanned DEF Leave, Goto

-----------------------------------------------------------------------------
(* What everybody else changes. *)

Drift ==
    /\ UNCHANGED <<pc, job, searched>>
    /\ issued \subseteq issued' /\ relied \subseteq relied' /\ raced \subseteq raced'
    /\ pc # "idle" => missing' \subseteq missing \cup raced'
    /\ pc \in Watched => Group(Item)' = Group(Item) \/ Item \in raced'
    /\ \A d \in Downloads : Fencing(mem, QueueKey[d]) => Fencing(mem', QueueKey[d])

LEMMA DriftWindow ==
    ASSUME ScanInv, WindowInv, Drift
    PROVE  WindowInv'
  <1>0. CASE pc = "idle"
    BY <1>0, IdleWindow DEF Drift, WindowInv, Marked
  <1>1. CASE pc # "idle"
    <2>1. PICK j : j = job
      OBVIOUS
    <2>2. PICK stage : stage = pc
      OBVIOUS
    <2>3. /\ pc' = stage /\ job' = j /\ searched' = searched /\ Known \subseteq Known'
          /\ relied \subseteq relied' /\ raced \subseteq raced'
          /\ missing' \subseteq missing \cup raced' /\ missing' \subseteq missing \cup Known'
      BY <1>1, <2>1, <2>2 DEF Drift, Known
    <2>4. Judged(stage, j, Group(Item), missing, raced)
      BY <2>1, <2>2 DEF WindowInv
    <2>5. Judged(stage, j, Group(Item)', missing', raced')
      <3>1. stage \in Watched => Group(Item)' = j.group \/ j.item.download \in raced'
        BY <2>1, <2>2, <2>3, <2>4 DEF Judged, Drift, Item
      <3>2. stage \in Watched \cup {"reread"} => \A x \in j.group :
              x[2] = "imported" => x[1].episode \notin missing' \/ x[1].episode \in raced'
        BY <2>3, <2>4 DEF Judged
      <3> QED
        BY <2>4, <3>1, <3>2 DEF Judged
    <2>6. Planned(stage, j, missing', searched, relied', Known')
      <3>1. Planned(stage, j, missing, searched, relied, Known)
        BY <2>1, <2>2 DEF WindowInv
      <3> QED
        BY <2>3, <3>1 DEF Planned
    <2>7. Marked(stage, j, missing', searched, Known', mem')
      <3>1. Marked(stage, j, missing, searched, Known, mem)
        BY <2>1, <2>2 DEF WindowInv
      <3>2. stage \in Underway => Fencing(mem', QueueKey[j.item.download])
        BY <2>1, <2>2, <3>1, ReadTypes, UnderwayIs DEF Marked, Drift, Item
      <3>3. Blocked(mem) => Blocked(mem')
        BY DEF Blocked, Drift
      <3> QED
        BY <2>3, <3>1, <3>2, <3>3 DEF Marked
    <2> QED
      BY <2>3, <2>5, <2>6, <2>7, WindowThen
  <1> QED
    BY <1>0, <1>1

\* A row of another download is not in the group.
LEMMA GroupKept ==
    ASSUME NEW r \in Rows, NEW to, rows \in [Rows -> RowStates], rows' = [rows EXCEPT ![r] = to],
           job' = job, r.download # Item
    PROVE  Group(Item)' = Group(Item)
  <1>1. \A q \in Rows : q.download = Item => rows'[q] = rows[q]
    OBVIOUS
  <1>2. Item' = Item
    BY DEF Item
  <1>3. RowsOf(Item)' = RowsOf(Item)
    BY <1>1, <1>2 DEF RowsOf
  <1>4. \A q \in RowsOf(Item) : rows'[q] = rows[q]
    BY <1>1 DEF RowsOf
  <1> QED
    BY <1>3, <1>4 DEF Group

\* The entry of another key.
LEMMA OtherKey ==
    ASSUME mem \in State, NEW key \in Keys, NEW k, k # key, Fencing(mem, k), NEW op, NEW keys, NEW n
    PROVE  /\ Fencing(WithOperation(mem, key, op), k)
           /\ Fencing(Begun(mem, key, op, keys, n), k)
           /\ Fencing(WithCompletion(mem, key), k)
           /\ Fencing(WithAttempts(mem, keys, n), k)
  <1>1. mem.operations \in [Keys -> Operation \cup {NoOp}] /\ k \in Keys /\ k \in Pending(mem)
    BY DEF State, Fencing, Pending
  <1>2. \A o : LET f == [mem.operations EXCEPT ![key] = o] IN f[k] = mem.operations[k]
    BY <1>1
  <1>3. /\ WithOperation(mem, key, op).operations = [mem.operations EXCEPT ![key] = op]
        /\ Begun(mem, key, op, keys, n).operations = [mem.operations EXCEPT ![key] = op]
        /\ WithCompletion(mem, key).operations = [mem.operations EXCEPT ![key] = NoOp]
        /\ WithAttempts(mem, keys, n).operations = mem.operations
    BY DEF State, WithOperation, Begun, WithCompletion, WithAttempts
  <1> QED
    BY <1>1, <1>2, <1>3 DEF Fencing, Pending

LEMMA UpdateIs ==
    ASSUME NEW next, Update(next)
    PROVE  mem' = mem \/ mem' = next
  BY DEF Update, Commits, CommitFails

LEMMA OthersDrift ==
    ASSUME IInv, ScanInv, OnceInv, Surroundings
    PROVE  Drift
  <1>0. mem \in State
    BY DEF IInv, Sound
  <1>1. ASSUME NEW r \in Rows, NEW to \in Moves, MoveRow(r, to) PROVE Drift
    <2>1. /\ UNCHANGED <<pc, job, searched, missing, issued, relied>> /\ mem' = mem
          /\ rows' = [rows EXCEPT ![r] = to] /\ raced \subseteq raced'
          /\ pc \in Watched /\ r.download = Item => Item \in raced'
      BY <1>1 DEF MoveRow, scanVars, storeVars, vars, durableVars, Watched
    <2>2. r.download # Item => Group(Item)' = Group(Item)
      BY <2>1, GroupKept DEF ScanInv, QueueTyped
    <2> QED
      BY <2>1, <2>2 DEF Drift
  <1>2. ASSUME NEW e \in Episodes, Gain(e) \/ Lose(e) PROVE Drift
    <2>1. /\ UNCHANGED <<pc, job, searched, issued, relied, rows>> /\ mem' = mem
          /\ raced \subseteq raced'
          /\ pc # "idle" => missing' \subseteq missing \cup raced'
      BY <1>2 DEF Gain, Lose, scanVars, storeVars, vars, durableVars, historyVars
    <2>2. Group(Item)' = Group(Item)
      BY <2>1 DEF Group, RowsOf, Item
    <2> QED
      BY <2>1, <2>2 DEF Drift
  <1>3. ASSUME UNCHANGED <<queueVars, scanVars, issued, relied, raced>>,
               \A d \in Downloads : Fencing(mem, QueueKey[d]) => Fencing(mem', QueueKey[d])
        PROVE  Drift
    <2>1. Group(Item)' = Group(Item)
      BY <1>3 DEF Group, RowsOf, Item, queueVars, scanVars
    <2> QED
      BY <1>3, <2>1 DEF Drift, queueVars, scanVars
  <1>4. ASSUME NEW e \in Episodes, MediaResets(e) PROVE Drift
    <2>1. /\ UNCHANGED <<queueVars, scanVars, issued, relied, raced>>
          /\ Update(WithAttempts(mem, {e}, 0))
      BY <1>4 DEF MediaResets, Reset
    <2>2. WithAttempts(mem, {e}, 0).operations = mem.operations
      BY <1>0 DEF WithAttempts, State
    <2>3. mem'.operations = mem.operations
      BY <2>1, <2>2, UpdateIs
    <2> QED
      BY <1>3, <2>1, <2>3 DEF Fencing, Pending
  <1>5. ASSUME NEW r \in MediaRequests, NEW ids \in SUBSET Episodes, MediaBegins(r, ids) PROVE Drift
    <2>1. PICK attempt \in 0 .. MaxInt : Begin(r, "delete-requested", FALSE, "none", ids, attempt)
      BY <1>5 DEF MediaBegins
    <2> DEFINE op == NewOperation(r, "delete-requested", FALSE, "none")
    <2>2. Update(Begun(mem, r.key, op, ids, attempt))
      BY <2>1 DEF Begin
    <2>3. UNCHANGED <<queueVars, scanVars, issued, relied, raced>>
      BY <1>5 DEF MediaBegins, historyVars
    <2> HIDE DEF op
    <2> QED
      BY <1>0, <1>3, <2>2, <2>3, UpdateIs, OtherKey, RecoveryKeys
  <1>6. ASSUME NEW r \in MediaRequests, MediaCompletes(r) PROVE Drift
    <2>1. /\ UNCHANGED <<queueVars, scanVars, issued, relied, raced>>
          /\ Update(WithCompletion(mem, r.key))
      BY <1>6 DEF MediaCompletes, Complete, historyVars
    <2> QED
      BY <1>0, <1>3, <2>1, UpdateIs, OtherKey, RecoveryKeys
  <1>7. ASSUME NEW d \in Downloads, ReconcileImport(d) PROVE Drift
    <2>1. /\ UNCHANGED <<queueVars, scanVars, issued, relied, raced>>
          /\ Update(WithCompletion(mem, QueueKey[d])) /\ ~Fencing(mem, QueueKey[d])
      BY <1>7 DEF ReconcileImport, Complete, historyVars, Fencing
    <2> QED
      BY <1>0, <1>3, <2>1, UpdateIs, OtherKey, RecoveryKeys
  <1>8. CASE SaveOther
    <2>1. /\ UNCHANGED <<queueVars, scanVars, issued, relied, raced>> /\ mem' = mem
      BY <1>8, UpdateIs DEF SaveOther, SaveWebhooks, historyVars
    <2> QED
      BY <1>3, <2>1
  <1> QED
    BY <1>1, <1>2, <1>4, <1>5, <1>6, <1>7, <1>8 DEF Surroundings

-----------------------------------------------------------------------------
(* The looks of the preflight. *)

LEMMA SeesCovered ==
    ASSUME ScanInv, NEW d, Sees(d)
    PROVE  Covered(d) \subseteq relied' /\ relied \subseteq relied'
  <1>1. \A r \in Rows : r.episode \in Episodes \cup {NoEpisode}
    BY ReadTypes
  <1> DEFINE live == {r \in Rows : r.download # d /\ rows[r] = "active"}
  <1>2. \A e \in Episodes : (\E r \in live : r.episode \in {e, NoEpisode}) => e \in relied'
    BY DEF Sees
  <1>3. Covered(d) = IF \E r \in live : r.episode = NoEpisode
                     THEN Episodes ELSE {r.episode : r \in live}
    BY DEF Covered
  <1>4. CASE \E r \in live : r.episode = NoEpisode
    <2>1. Covered(d) = Episodes /\ \A e \in Episodes : e \in relied'
      BY <1>2, <1>3, <1>4
    <2> QED
      BY <2>1 DEF Sees
  <1>5. CASE ~\E r \in live : r.episode = NoEpisode
    <2>1. Covered(d) = {r.episode : r \in live} /\ \A r \in live : r.episode \in Episodes
      BY <1>1, <1>3, <1>5
    <2>2. \A r \in live : r.episode \in relied'
      BY <1>2, <2>1
    <2> QED
      BY <2>1, <2>2 DEF Sees
  <1> QED
    BY <1>4, <1>5

LEMMA StillMarked ==
    ASSUME ScanInv, WindowInv, pc' \in {"targets", "reread", "shrink", "begin"},
           searched' = searched, missing' = missing, Known \subseteq Known', mem' = mem
    PROVE  Marked(pc', job', missing', searched', Known', mem')
  <1>1. searched \cap missing \subseteq Known' \/ Blocked(mem)
    BY MarksFence
  <1> QED
    BY <1>1 DEF Marked, Underway

LEMMA GroupEpisodes ==
    \A d : \A x \in Group(d) : x[1].episode \in {r.episode : r \in RowsOf(d)}
  BY DEF Group

LEMMA PlanQueueWindow ==
    ASSUME ScanInv, WindowInv, PlanQueue
    PROVE  WindowInv'
  <1>1. mem' = mem /\ missing' = missing /\ raced' = raced /\ issued' = issued
    BY DEF PlanQueue, storeVars, vars, durableVars, queueVars
  <1>2. CASE Leave /\ UNCHANGED relied
    BY <1>1, <1>2, LeaveWindow DEF Known
  <1>3. CASE ~(Leave /\ UNCHANGED relied)
    <2> DEFINE E == Grabbed[Item] \cup ({r.episode : r \in RowsOf(Item)} \ {NoEpisode})
    <2>1. /\ Goto("targets", [job EXCEPT !.group = Group(Item), !.episodes = E,
                                         !.covered = Covered(Item)])
          /\ Sees(Item)
      BY <1>3 DEF PlanQueue
    <2>2. Covered(Item) \subseteq relied' /\ relied \subseteq relied'
      BY <2>1, SeesCovered
    <2>3. \A x \in Group(Item) : x[1].episode \in E \cup {NoEpisode}
      BY GroupEpisodes
    <2> HIDE DEF E
    <2>4. /\ pc' = "targets" /\ searched' = searched
          /\ job'.group = Group(Item) /\ job'.episodes = E /\ job'.covered = Covered(Item)
      BY <2>1 DEF Goto, ScanInv, PlaceTyped, JobType
    <2>5. Judged(pc', job', Group(Item)', missing', raced')
      BY <2>3, <2>4 DEF Judged, Watched
    <2>6. Planned(pc', job', missing', searched', relied', Known')
      BY <2>2, <2>4 DEF Planned, Underway
    <2>7. Marked(pc', job', missing', searched', Known', mem')
      BY <1>1, <2>2, <2>4, StillMarked DEF Known
    <2> QED
      BY <2>5, <2>6, <2>7, WindowThen
  <1> QED
    BY <1>2, <1>3

LEMMA PlanTargetsWindow ==
    ASSUME ScanInv, WindowInv, PlanTargets
    PROVE  WindowInv'
  <1>1. /\ pc = "targets" /\ mem' = mem /\ missing' = missing
        /\ raced' = raced /\ issued' = issued /\ relied' = relied
    BY DEF PlanTargets, storeVars, vars, durableVars, queueVars, historyVars
  <1>2. CASE Leave
    BY <1>1, <1>2, LeaveWindow DEF Known
  <1>3. CASE ~Leave
    <2> DEFINE remaining == missing \cap job.episodes
               S == (remaining \ job.covered) \ searched
    <2>1. /\ Goto("reread", [job EXCEPT !.targets = S])
          /\ ~\E x \in job.group :
                x[2] = "imported" /\ x[1].episode \in remaining \cup {NoEpisode}
      BY <1>3 DEF PlanTargets
    <2>2. /\ pc' = "reread" /\ searched' = searched /\ job'.group = job.group
          /\ job'.episodes = job.episodes /\ job'.targets = S
      BY <2>1 DEF Goto, ScanInv, PlaceTyped, JobType
    <2>3. \A x \in job.group : x[1].episode \in job.episodes \cup {NoEpisode}
      BY <1>1 DEF WindowInv, Judged
    <2>4. \A x \in job.group : x[2] = "imported" => x[1].episode \notin missing
      BY <2>1, <2>3
    <2>5. job.episodes \cap missing \subseteq S \cup searched \cup Known
      BY <1>1 DEF WindowInv, Planned, Known
    <2> HIDE DEF S, remaining
    <2>6. Judged(pc', job', Group(Item)', missing', raced')
      BY <1>1, <2>2, <2>4 DEF Judged, Watched
    <2>7. Planned(pc', job', missing', searched', relied', Known')
      BY <1>1, <2>2, <2>5 DEF Planned, Underway, Known
    <2>8. Marked(pc', job', missing', searched', Known', mem')
      BY <1>1, <2>2, StillMarked DEF Known
    <2> QED
      BY <2>6, <2>7, <2>8, WindowThen
  <1> QED
    BY <1>2, <1>3

LEMMA RereadWindow ==
    ASSUME ScanInv, WindowInv, Reread
    PROVE  WindowInv'
  <1>1. /\ pc = "reread" /\ mem' = mem /\ missing' = missing /\ rows' = rows
        /\ raced' = raced /\ issued' = issued
    BY DEF Reread, storeVars, vars, durableVars, queueVars
  <1>2. CASE Leave /\ UNCHANGED relied
    BY <1>1, <1>2, LeaveWindow DEF Known
  <1>3. CASE ~(Leave /\ UNCHANGED relied)
    <2>1. /\ Goto("shrink", [job EXCEPT !.covered = Covered(Item)]) /\ Sees(Item)
          /\ Group(Item) = job.group
      BY <1>3 DEF Reread
    <2>2. Covered(Item) \subseteq relied' /\ relied \subseteq relied'
      BY <2>1, SeesCovered
    <2>3. /\ pc' = "shrink" /\ searched' = searched /\ job'.item = job.item
          /\ job'.group = job.group /\ job'.episodes = job.episodes
          /\ job'.targets = job.targets /\ job'.covered = Covered(Item)
      BY <2>1 DEF Goto, ScanInv, PlaceTyped, JobType
    <2>4. Group(Item)' = Group(Item)
      BY <1>1, <2>3 DEF Group, RowsOf, Item
    <2>5. Judged(pc', job', Group(Item)', missing', raced')
      BY <1>1, <2>1, <2>3, <2>4 DEF Judged, WindowInv
    <2>6. job.episodes \cap missing \subseteq job.targets \cup searched \cup Known
      BY <1>1 DEF WindowInv, Planned
    <2>7. Planned(pc', job', missing', searched', relied', Known')
      BY <1>1, <2>2, <2>3, <2>6 DEF Planned, Underway, Known
    <2>8. Marked(pc', job', missing', searched', Known', mem')
      BY <1>1, <2>2, <2>3, StillMarked DEF Known
    <2> QED
      BY <2>5, <2>7, <2>8, WindowThen
  <1> QED
    BY <1>2, <1>3

LEMMA ShrinkWindow ==
    ASSUME ScanInv, WindowInv, Shrink
    PROVE  WindowInv'
  <1> DEFINE S == ((job.targets \cap missing) \ job.covered) \ searched
             locals == [job EXCEPT !.targets = S, !.keys = S]
  <1>1. /\ pc = "shrink" /\ mem' = mem /\ missing' = missing /\ rows' = rows
        /\ raced' = raced /\ issued' = issued /\ relied' = relied
        /\ Leave \/ Goto("begin", locals) \/ Goto("import", locals)
    BY DEF Shrink, storeVars, vars, durableVars, queueVars, historyVars
  <1>2. CASE Leave
    BY <1>1, <1>2, LeaveWindow DEF Known
  <1>3. CASE Goto("import", locals)
    BY <1>1, <1>3, MarksFence, NothingPlanned DEF Goto, Known
  <1>4. CASE Goto("begin", locals)
    <2>1. job.episodes \cap missing \subseteq S \cup searched \cup Known
      BY <1>1 DEF WindowInv, Planned, Known
    <2>2. /\ pc' = "begin" /\ searched' = searched /\ job'.item = job.item
          /\ job'.group = job.group /\ job'.episodes = job.episodes
          /\ job'.targets = S /\ job'.keys = S
      BY <1>4 DEF Goto, ScanInv, PlaceTyped, JobType
    <2> HIDE DEF S, locals
    <2>3. Group(Item)' = Group(Item)
      BY <1>1, <2>2 DEF Group, RowsOf, Item
    <2>4. Judged(pc', job', Group(Item)', missing', raced')
      BY <1>1, <2>2, <2>3 DEF Judged, WindowInv, Watched
    <2>5. Planned(pc', job', missing', searched', relied', Known')
      BY <1>1, <2>1, <2>2 DEF Planned, Underway, Known
    <2>6. Marked(pc', job', missing', searched', Known', mem')
      BY <1>1, <2>2, StillMarked DEF Known
    <2> QED
      BY <2>4, <2>5, <2>6, WindowThen
  <1> QED
    BY <1>1, <1>2, <1>3, <1>4

-----------------------------------------------------------------------------
(* The operation. *)

LEMMA NotFenced ==
    ASSUME NEW d, NEW phase, NEW import,
           ~Fenced(NewOperation(RequestFor(d), phase, FALSE, import))
    PROVE  ~Blocked(mem)
  BY DEF Fenced, Fences, NewOperation, RequestFor, Blocked, Fencing

LEMMA BegunFences ==
    ASSUME mem \in State, NEW d \in Downloads, NEW phase \in Phases, NEW keys, NEW n
    PROVE  Fencing(Begun(mem, QueueKey[d], NewOperation(RequestFor(d), phase, FALSE, "none"),
                         keys, n), QueueKey[d])
  <1> DEFINE op == NewOperation(RequestFor(d), phase, FALSE, "none")
  <1>1. /\ op.kind = Kind /\ op.subject = Subject /\ op.import = "none"
        /\ op \in Operation
    BY RequestAssumption, RecoveryKeys DEF NewOperation, RequestFor, Operation
  <1>2. op # NoOp
    BY <1>1, NoOpAssumption
  <1> HIDE DEF op
  <1>3. Begun(mem, QueueKey[d], op, keys, n).operations
            = [mem.operations EXCEPT ![QueueKey[d]] = op]
    BY DEF State, WithOperation, Begun, WithAttempts
  <1>4. QueueKey[d] \in Keys /\ mem.operations \in [Keys -> Operation \cup {NoOp}]
    BY RecoveryKeys DEF State
  <1>5. Begun(mem, QueueKey[d], op, keys, n).operations[QueueKey[d]] = op
    BY <1>3, <1>4
  <1>6. Fencing(Begun(mem, QueueKey[d], op, keys, n), QueueKey[d])
    BY <1>1, <1>2, <1>4, <1>5 DEF Fencing, Pending
  <1> QED
    BY <1>6 DEF op

LEMMA BeginRemovalWindow ==
    ASSUME IInv, ScanInv, WindowInv, BeginRemoval
    PROVE  WindowInv'
  <1>1. PICK attempt \in 0 .. MaxInt :
           Begin(RequestFor(Item), "queue-removal-requested", FALSE, "none", job.keys, attempt)
    BY DEF BeginRemoval
  <1> DEFINE op == NewOperation(RequestFor(Item), "queue-removal-requested", FALSE, "none")
             next == Begun(mem, QueueKey[Item], op, job.keys, attempt)
  <1>2. /\ pc = "begin" /\ missing' = missing /\ rows' = rows
        /\ raced' = raced /\ issued' = issued /\ relied' = relied
        /\ AfterSave("remove", job)
    BY DEF BeginRemoval, queueVars, historyVars
  <1>3. Item \in Downloads /\ RequestFor(Item).key = QueueKey[Item]
    BY <1>2, ItemRequest, AllStages
  <1>4. ~Fenced(op) /\ Update(next)
    BY <1>1, <1>3 DEF Begin
  <1>5. searched \cap missing \subseteq Known
    BY <1>4, NotFenced, MarksFence
  <1>6. Known' = Known
    BY <1>2 DEF Known
  <1>7. CASE writeErr'
    <2>1. pc' = "scan" /\ searched' = searched
      BY <1>2, <1>7 DEF AfterSave, Leave, Goto
    <2> QED
      BY <1>2, <1>5, <1>6, <2>1, NothingPlanned
  <1>8. CASE ~writeErr'
    <2>1. pc' = "remove" /\ job' = job /\ searched' = searched
      BY <1>2, <1>8 DEF AfterSave, Goto
    <2>2. Fencing(next, QueueKey[Item])
      BY <1>3, BegunFences DEF IInv, Sound, Phases
    <2>3. mem' = next
      BY <1>4, <1>8 DEF Update, Commits, CommitFails
    <2> HIDE DEF next, op
    <2>4. Group(Item)' = Group(Item)
      BY <1>2, <2>1 DEF Group, RowsOf, Item
    <2>5. Judged(pc', job', Group(Item)', missing', raced')
      BY <1>2, <2>1, <2>4 DEF Judged, WindowInv, Watched
    <2>6. job.episodes \cap missing \subseteq job.targets \cup Known /\ job.keys = job.targets
      BY <1>2, <1>5 DEF WindowInv, Planned
    <2>7. Planned(pc', job', missing', searched', relied', Known')
      BY <1>2, <1>6, <2>1, <2>6 DEF Planned
    <2>8. Marked(pc', job', missing', searched', Known', mem')
      BY <1>2, <1>5, <1>6, <2>1, <2>2, <2>3 DEF Marked, Underway, Item
    <2> QED
      BY <2>5, <2>7, <2>8, WindowThen
  <1> QED
    BY <1>7, <1>8

LEMMA RemoveWindow ==
    ASSUME ScanInv, WindowInv, RemoveItem
    PROVE  WindowInv'
  <1>1. /\ pc = "remove" /\ mem' = mem /\ missing' = missing
        /\ raced' = raced /\ issued' = issued /\ relied' = relied
        /\ Leave \/ Goto("removed", job)
    BY DEF RemoveItem, AfterSend, storeVars, vars, durableVars
  <1>2. CASE Leave
    BY <1>1, <1>2, LeaveWindow DEF Known
  <1>3. CASE Goto("removed", job)
    <2>1. pc' = "removed" /\ job' = job /\ searched' = searched /\ Known' = Known
      BY <1>1, <1>3 DEF Goto, Known
    <2>2. Judged(pc', job', Group(Item)', missing', raced')
      BY <2>1 DEF Judged, Watched
    <2>3. Planned(pc', job', missing', searched', relied', Known')
      BY <1>1, <2>1 DEF Planned, WindowInv, Underway
    <2>4. Marked(pc', job', missing', searched', Known', mem')
      BY <1>1, <2>1 DEF Marked, WindowInv, Underway
    <2> QED
      BY <2>2, <2>3, <2>4, WindowThen
  <1> QED
    BY <1>1, <1>2, <1>3

\* The scan's own operation in another phase.
LEMMA PhaseFences ==
    ASSUME mem \in State, NEW k, Fencing(mem, k), NEW phase \in Phases
    PROVE  Fencing(WithPhase(mem, k, phase), k)
  <1> DEFINE op == [mem.operations[k] EXCEPT !.phase = phase]
  <1>1. k \in Keys /\ mem.operations[k] # NoOp /\ mem.operations \in [Keys -> Operation \cup {NoOp}]
    BY DEF State, Fencing, Pending
  <1>2. mem.operations[k] \in Operation
    BY <1>1
  <1>3. /\ op \in Operation /\ op.kind = mem.operations[k].kind
        /\ op.subject = mem.operations[k].subject /\ op.import = mem.operations[k].import
    BY <1>2 DEF Operation
  <1>4. op # NoOp
    BY <1>3, NoOpAssumption
  <1> HIDE DEF op
  <1>5. WithOperation(mem, k, op).operations = [mem.operations EXCEPT ![k] = op]
    BY DEF State, WithOperation
  <1>6. WithOperation(mem, k, op).operations[k] = op
    BY <1>1, <1>5
  <1>7. Fencing(WithOperation(mem, k, op), k)
    BY <1>1, <1>3, <1>4, <1>6 DEF Fencing, Pending
  <1> QED
    BY <1>7 DEF WithPhase, op

LEMMA RecordWindow ==
    ASSUME IInv, ScanInv, WindowInv, RecordRemoved \/ RecordSearch
    PROVE  WindowInv'
  <1> DEFINE phase == IF pc = "removed" THEN "queue-removed" ELSE "search-requested"
             next == WithPhase(mem, QueueKey[Item], phase)
  <1>1. /\ pc \in {"removed", "search"} /\ Update(next) /\ missing' = missing
        /\ raced' = raced /\ issued' = issued /\ relied' = relied
    BY DEF RecordRemoved, RecordSearch, Phase, SearchRequested, queueVars, historyVars
  <1>2. \/ pc' = "scan"
        \/ job' = job /\ pc = "removed" /\ pc' = "finish" /\ job.targets = {}
        \/ job' = job /\ pc = "removed" /\ pc' = "again"
        \/ job' = job /\ pc = "search" /\ pc' = "send"
    BY DEF RecordRemoved, RecordSearch, AfterSave, Leave, Goto
  <1>3. searched' = searched /\ Known' = Known
    BY <1>1 DEF RecordRemoved, RecordSearch, AfterSave, Leave, Goto, Known
  <1>4. Fencing(mem, QueueKey[Item]) /\ Item \in Downloads
    BY <1>1, ItemRequest, AllStages DEF WindowInv, Marked, Underway, Item
  <1>5. Fencing(next, QueueKey[Item])
    BY <1>4, PhaseFences DEF IInv, Sound, Phases
  <1>6. Fencing(mem', QueueKey[Item])
    BY <1>1, <1>4, <1>5, UpdateIs
  <1> HIDE DEF next, phase
  <1>7. CASE pc' = "scan"
    BY <1>1, <1>3, <1>4, <1>6, <1>7, NothingPlanned DEF Blocked
  <1>8. CASE pc' # "scan"
    <2>1. Judged(pc', job', Group(Item)', missing', raced')
      BY <1>2, <1>8 DEF Judged, Watched
    <2>2. Planned(pc', job', missing', searched', relied', Known')
      BY <1>1, <1>2, <1>3, <1>8 DEF Planned, WindowInv, Underway
    <2>3. Marked(pc', job', missing', searched', Known', mem')
      BY <1>1, <1>2, <1>3, <1>6, <1>8 DEF Marked, WindowInv, Underway, Item
    <2> QED
      BY <2>1, <2>2, <2>3, WindowThen
  <1> QED
    BY <1>7, <1>8

LEMMA ReadAgainWindow ==
    ASSUME ScanInv, WindowInv, ReadAgain
    PROVE  WindowInv'
  <1> DEFINE S == (job.targets \ Covered(Item)) \ searched
  <1>1. /\ pc = "again" /\ mem' = mem /\ missing' = missing
        /\ raced' = raced /\ issued' = issued /\ Sees(Item)
        /\ job' = [job EXCEPT !.targets = S]
        /\ IF S = {} THEN pc' = "finish" /\ searched' = searched
                     ELSE pc' = "missing" /\ searched' = searched \cup job.keys
    BY DEF ReadAgain, storeVars, vars, durableVars, queueVars
  <1>2. job'.targets = S /\ job'.episodes = job.episodes /\ job'.item = job.item
    BY <1>1 DEF ScanInv, PlaceTyped, JobType
  <1>3. Covered(Item) \subseteq Known' /\ Known \subseteq Known'
    BY <1>1, SeesCovered DEF Known
  <1>4. /\ job.episodes \cap missing \subseteq job.targets \cup Known
        /\ searched \cap missing \subseteq Known /\ job.keys = job.targets
        /\ Fencing(mem, QueueKey[Item])
    BY <1>1 DEF WindowInv, Planned, Marked, Underway, Item
  <1>5. job.targets \cap missing \subseteq S \cup Known'
    BY <1>3, <1>4
  <1> HIDE DEF S
  <1>6. Judged(pc', job', Group(Item)', missing', raced')
    BY <1>1 DEF Judged, Watched
  <1>7. Planned(pc', job', missing', searched', relied', Known')
    BY <1>1, <1>2, <1>3, <1>4, <1>5 DEF Planned, Underway
  <1>8. Marked(pc', job', missing', searched', Known', mem')
    BY <1>1, <1>2, <1>3, <1>4, <1>5 DEF Marked, Underway, Item
  <1> QED
    BY <1>6, <1>7, <1>8, WindowThen

LEMMA ReadMissingWindow ==
    ASSUME ScanInv, WindowInv, ReadMissing
    PROVE  WindowInv'
  <1> DEFINE S == job.targets \cap missing
  <1>1. /\ pc = "missing" /\ mem' = mem /\ missing' = missing /\ searched' = searched
        /\ raced' = raced /\ issued' = issued /\ relied' = relied
        /\ job' = [job EXCEPT !.targets = S]
        /\ pc' = IF S = {} THEN "finish" ELSE "search"
    BY DEF ReadMissing, Goto, storeVars, vars, durableVars, queueVars, historyVars
  <1>2. job'.targets = S /\ job'.episodes = job.episodes /\ job'.item = job.item
    BY <1>1 DEF ScanInv, PlaceTyped, JobType
  <1>3. /\ job.episodes \cap missing \subseteq S \cup Known
        /\ searched \cap missing \subseteq S \cup Known
        /\ Fencing(mem, QueueKey[Item])
    BY <1>1 DEF WindowInv, Planned, Marked, Underway, Item
  <1>4. Known' = Known
    BY <1>1 DEF Known
  <1> HIDE DEF S
  <1>5. Judged(pc', job', Group(Item)', missing', raced')
    BY <1>1 DEF Judged, Watched
  <1>6. Planned(pc', job', missing', searched', relied', Known')
    BY <1>1, <1>2, <1>3, <1>4 DEF Planned, Underway
  <1>7. Marked(pc', job', missing', searched', Known', mem')
    BY <1>1, <1>2, <1>3, <1>4 DEF Marked, Underway, Item
  <1> QED
    BY <1>5, <1>6, <1>7, WindowThen

LEMMA SendWindow ==
    ASSUME ScanInv, WindowInv, SendSearch
    PROVE  WindowInv'
  <1>1. /\ pc = "send" /\ mem' = mem /\ missing' = missing
        /\ raced' = raced /\ issued' = issued \cup job.targets /\ relied' = relied
        /\ Leave \/ Goto("finish", job)
    BY DEF SendSearch, AfterSend, storeVars, vars, durableVars, queueVars
  <1>2. Known \cup job.targets \subseteq Known'
    BY <1>1 DEF Known
  <1>3. CASE Leave
    BY <1>1, <1>2, <1>3, LeaveWindow
  <1>4. CASE Goto("finish", job)
    <2>1. pc' = "finish" /\ job' = job /\ searched' = searched
      BY <1>4 DEF Goto
    <2>2. Judged(pc', job', Group(Item)', missing', raced')
      BY <2>1 DEF Judged, Watched
    <2>3. Planned(pc', job', missing', searched', relied', Known')
      BY <1>1, <1>2, <2>1 DEF Planned, WindowInv, Underway
    <2>4. Marked(pc', job', missing', searched', Known', mem')
      BY <1>1, <1>2, <2>1 DEF Marked, WindowInv, Underway
    <2> QED
      BY <2>2, <2>3, <2>4, WindowThen
  <1> QED
    BY <1>1, <1>3, <1>4

\* Both an import that begins and a removal that ends find every mark known.
LEMMA EndsWindow ==
    ASSUME ScanInv, WindowInv, BeginImport \/ Finish
    PROVE  WindowInv'
  <1>1. Leave /\ missing' = missing /\ Known' = Known
    BY DEF BeginImport, Finish, queueVars, historyVars, Known
  <1>2. CASE UNCHANGED storeVars
    BY <1>1, <1>2, LeaveWindow DEF storeVars, vars, durableVars
  <1>3. CASE ~UNCHANGED storeVars
    <2>1. searched \cap missing \subseteq Known
      <3>1. CASE Finish
        BY <3>1 DEF Finish, WindowInv, Marked
      <3>2. CASE BeginImport
        <4>1. PICK attempt \in 0 .. MaxInt : Begin(RequestFor(Item),
                 "manual-import-requested", FALSE, "requested", {}, attempt)
          BY <1>3, <3>2 DEF BeginImport
        <4>2. ~Fenced(NewOperation(RequestFor(Item), "manual-import-requested", FALSE, "requested"))
          BY <4>1 DEF Begin
        <4> QED
          BY <4>2, NotFenced, MarksFence
      <3> QED
        BY <3>1, <3>2
    <2> QED
      BY <1>1, <2>1, NothingPlanned DEF Leave, Goto
  <1> QED
    BY <1>2, <1>3

-----------------------------------------------------------------------------
(* The windows are an invariant. *)

LEMMA ScanWindow ==
    ASSUME IInv, ScanInv, WindowInv, Scan
    PROVE  WindowInv'
  <1>1. CASE StartScan
    <2>1. /\ searched = {} /\ pc' = "scan" /\ searched' = searched
          /\ missing' = missing /\ Known' = Known
      BY <1>1 DEF StartScan, WindowInv, Marked, queueVars, historyVars, Known
    <2> QED
      BY <2>1, NothingPlanned
  <1>2. CASE EndScan
    BY <1>2, IdleWindow DEF EndScan, Forget
  <1>3. ASSUME NEW item \in Rows, Enter(item) PROVE WindowInv'
    <2>1. /\ pc' \in {"scan", "plan"} /\ searched' = searched /\ missing' = missing
          /\ Known' = Known /\ mem' = mem
      BY <1>3 DEF Enter, queueVars, historyVars, Known, storeVars, vars, durableVars
    <2> QED
      BY <2>1, MarksFence, NothingPlanned
  <1>4. CASE Abort \/ Refused \/ NotBegun
    <2>1. Leave /\ mem' = mem /\ missing' = missing /\ Known' = Known
      BY <1>4 DEF Abort, Refused, NotBegun, queueVars, historyVars, Known, storeVars, vars,
         durableVars
    <2> QED
      BY <2>1, LeaveWindow
  <1> QED
    BY <1>1, <1>2, <1>3, <1>4, PlanQueueWindow, PlanTargetsWindow, RereadWindow, ShrinkWindow,
       BeginRemovalWindow, RemoveWindow, RecordWindow, ReadAgainWindow, ReadMissingWindow,
       SendWindow, EndsWindow DEF Scan

LEMMA WindowNext ==
    ASSUME IInv, ScanInv, OnceInv, WindowInv, [RecoveryNext]_recoveryVars
    PROVE  WindowInv'
  <1>1. CASE Scan
    BY <1>1, ScanWindow
  <1>2. CASE Surroundings
    BY <1>2, OthersDrift, DriftWindow
  <1>3. CASE Die
    BY <1>3, IdleWindow DEF Die, Forget
  <1>4. CASE Restart
    <2>1. pc = "idle" /\ pc' = pc /\ searched' = searched
      BY <1>4 DEF Restart, Start, Starts, StartFails, scanVars, OnceInv
    <2> QED
      BY <2>1, IdleWindow DEF WindowInv, Marked
  <1>5. CASE UNCHANGED recoveryVars
    <2>1. Group(Item)' = Group(Item)
      BY <1>5 DEF Group, RowsOf, Item, recoveryVars, queueVars, scanVars
    <2>2. Drift
      BY <1>5, <2>1 DEF Drift, recoveryVars, queueVars, scanVars, historyVars, storeVars, vars,
         durableVars
    <2> QED
      BY <2>2, DriftWindow
  <1> QED
    BY <1>1, <1>2, <1>3, <1>4, <1>5 DEF RecoveryNext

LEMMA WindowInit == RecoveryInit => WindowInv
  <1> SUFFICES ASSUME RecoveryInit PROVE WindowInv
    OBVIOUS
  <1>1. pc = "idle" /\ searched = {}
    BY DEF RecoveryInit
  <1> QED
    BY <1>1, UnderwayIs DEF WindowInv, Judged, Planned, Marked

LEMMA Windows == RecoverySpec => []WindowInv
  <1>1. IInv /\ ScanInv /\ OnceInv /\ WindowInv /\ [RecoveryNext]_recoveryVars => WindowInv'
    BY WindowNext
  <1> QED
    BY <1>1, WindowInit, RecoveryImplementsStore, Invariance, ScanTyped, OnceHolds, PTL
       DEF RecoverySpec

\* Whatever Arr, the download client and the user do between two reads: what is
\* removed is the group that was planned, and its imported rows have their files,
\* but for what changed after the last look.
THEOREM RemovalJudgedCorrect == RecoverySpec => RemovalJudged
  <1>1. WindowInv => [pc = "remove" /\ pc' # "remove" /\ open' =>
          /\ Group(Item) = job.group \/ Item \in raced
          /\ \A g \in job.group : g[2] = "imported" =>
                g[1].episode \notin missing \/ g[1].episode \in raced]_recoveryVars
    BY DEF WindowInv, Judged, Watched, Item
  <1> QED
    BY <1>1, Windows, PTL DEF RemovalJudged

\* A removal that is completed leaves no episode behind, for any queue, history
\* and library: what the reads in between let the scan leave out is cared for.
THEOREM NothingStrandedCorrect == RecoverySpec => NothingStranded
  <1>1. WindowInv => [pc = "finish" /\ QueueKey[Item] \in mem'.completed =>
          job.episodes \cap missing \subseteq issued \cup relied \cup raced]_recoveryVars
    BY DEF WindowInv, Planned, Known
  <1> QED
    BY <1>1, Windows, PTL DEF NothingStranded
-----------------------------------------------------------------------------
(* The scan and the file are a ledger. *)

ItemKey == QueueKey[Item]

\* What a stage knows of its operation besides OnceInv and WindowInv.
Place(stage, d, m, f, n) ==
    /\ stage \in {"remove", "removed", "again", "missing", "search"} => ~Searching(m, d)
    /\ stage \in {"removed", "again", "missing", "search", "send", "finish"} => n[d].remove > 0
    /\ stage = "finish" /\ Searching(m, d) => n[d].search > 0
    /\ stage \in {"remove", "send"} => SameTrace(m, f, QueueKey[d])

PlaceInv == Place(pc, Item, mem, disk, sent)

\* Where a step leads: to a stage that is not under way, to the one it came from,
\* or on to the next request.
Onward == BeginRemoval \/ RemoveItem \/ RecordRemoved \/ ReadAgain \/ ReadMissing
              \/ RecordSearch \/ SendSearch

LEMMA WhereTo ==
    ASSUME ScanInv, [RecoveryNext]_recoveryVars
    PROVE  pc' \notin Underway \/ UNCHANGED <<pc, job>> \/ Onward
  <1>1. CASE StartScan \/ EndScan \/ Die
    BY <1>1, UnderwayIs DEF StartScan, EndScan, Die, Forget
  <1>2. CASE \E item \in Rows : Enter(item)
    BY <1>2, UnderwayIs DEF Enter
  <1>3. CASE Abort \/ Refused \/ NotBegun \/ PlanQueue \/ PlanTargets \/ Reread \/ BeginImport
             \/ Finish \/ Shrink
    BY <1>3, UnderwayIs DEF Abort, Refused, NotBegun, PlanQueue, PlanTargets, Reread,
       BeginImport, Finish, Shrink, Leave, Goto
  <1>4. CASE Surroundings \/ Restart \/ UNCHANGED recoveryVars
    BY <1>4 DEF Surroundings, MoveRow, Gain, Lose, MediaResets, MediaCompletes, MediaBegins,
       ReconcileImport, SaveOther, Restart, recoveryVars, scanVars
  <1> QED
    BY <1>1, <1>2, <1>3, <1>4 DEF RecoveryNext, Scan, Onward

\* While a download is locked, the others leave the journal alone.
LEMMA LockedJournal ==
    ASSUME IInv, OnceInv, pc \in Locked, UNCHANGED <<pc, job>>, [RecoveryNext]_recoveryVars, ~Onward
    PROVE  mem' = mem /\ disk' = disk /\ sent' = sent
  <1>1. open /\ pc # "idle" /\ pc # "scan"
    BY NoPlanTyped DEF OnceInv
  <1>2. CASE SaveOther
    BY <1>2, SaveLeaves
       DEF SaveOther, SaveWebhooks, historyVars, Update, Commits, CommitFails
  <1>3. CASE Surroundings /\ ~SaveOther
    BY <1>3 DEF Surroundings, MoveRow, Gain, Lose, MediaResets, MediaCompletes, MediaBegins,
       ReconcileImport, Unlocked, storeVars, vars, durableVars, historyVars
  <1>4. CASE Restart \/ Die
    BY <1>1, <1>4 DEF Restart, Start, Starts, StartFails, Die, Forget
  <1>5. CASE UNCHANGED recoveryVars
    BY <1>5 DEF recoveryVars, storeVars, vars, durableVars, historyVars
  <1>6. CASE Scan
    <2>1. CASE StartScan \/ EndScan \/ \E item \in Rows : Enter(item)
      BY <1>1, <2>1 DEF StartScan, EndScan, Enter
    <2>2. CASE Abort \/ Refused \/ NotBegun \/ BeginImport \/ Finish
      BY <1>1, <2>2 DEF Abort, Refused, NotBegun, BeginImport, Finish, Leave, Goto
    <2>3. CASE PlanQueue \/ PlanTargets \/ Reread \/ Shrink
      BY <2>3 DEF PlanQueue, PlanTargets, Reread, Shrink, storeVars, vars, durableVars, historyVars
    <2> QED
      BY <1>6, <2>1, <2>2, <2>3 DEF Scan, Onward
  <1> QED
    BY <1>2, <1>3, <1>4, <1>5, <1>6 DEF RecoveryNext

\* The scan's own saves: one key, one new entry.
Writes(next, phase) ==
    /\ Update(next)
    /\ Waiting(next, Item)
    /\ next.operations[ItemKey].phase = phase
    /\ next.operations[ItemKey].import = "none"
    /\ \A k \in Keys \ {ItemKey} : SameTrace(mem, next, k)

\* An operation of the download is begun where there was no trace of one.
Begins(next, phase, import) ==
    /\ ~Waiting(mem, Item) /\ ItemKey \notin mem.completed
    /\ Update(next) /\ Waiting(next, Item)
    /\ next.operations[ItemKey].phase = phase
    /\ next.operations[ItemKey].import = import
    /\ \A k \in Keys \ {ItemKey} : SameTrace(mem, next, k)

LEMMA BeginWrites ==
    ASSUME IInv, ScanInv, pc \in Locked, NEW phase \in Phases,
           NEW import \in {"none", "requested", "submitted"},
           NEW keys \in SUBSET Episodes, NEW attempt \in 0 .. MaxInt,
           Begin(RequestFor(Item), phase, FALSE, import, keys, attempt)
    PROVE  \E next : Begins(next, phase, import)
  <1> DEFINE r == RequestFor(Item)
             op == NewOperation(r, phase, FALSE, import)
             next == Begun(mem, ItemKey, op, keys, attempt)
  <1>1. r \in Requests /\ r.key = ItemKey /\ ItemKey \in Keys
    BY ItemRequest, RecoveryKeys DEF ItemKey
  <1>2. /\ op \in Operation /\ IsEntryOf(op, r) /\ op.phase = phase /\ op.import = import
        /\ Sound(mem)
    BY <1>1, NewOperationType DEF NewOperation, IInv
  <1>3. /\ ItemKey \notin mem.completed /\ \A k \in Pending(mem) : ~Fences(mem.operations[k], op)
        /\ Update(next)
    BY <1>1 DEF Begin, AlreadyDone, Fenced
  <1> HIDE DEF op, r
  <1>4. ~Waiting(mem, Item)
    BY <1>1, <1>2, <1>3, KeyFree DEF Waiting, ItemKey
  <1>5. next.operations[ItemKey] = op /\ \A k \in Keys \ {ItemKey} : SameTrace(mem, next, k)
    BY <1>1, <1>2, OneTrace
  <1> HIDE DEF next
  <1>6. Waiting(next, Item)
    BY <1>1, <1>2, <1>5, NoOpAssumption DEF Waiting, Pending, ItemKey
  <1> QED
    BY <1>2, <1>3, <1>4, <1>5, <1>6 DEF Begins

LEMMA RecordWrites ==
    ASSUME IInv, ScanInv, WindowInv, RecordRemoved \/ RecordSearch
    PROVE  \E next : Writes(next, IF pc = "removed" THEN "queue-removed" ELSE "search-requested")
  <1> DEFINE phase == IF pc = "removed" THEN "queue-removed" ELSE "search-requested"
             op == [mem.operations[ItemKey] EXCEPT !.phase = phase]
             next == WithOperation(mem, ItemKey, op)
  <1>1. /\ pc \in Locked /\ pc \in Underway /\ Update(next) /\ Sound(mem)
    BY AllStages DEF RecordRemoved, RecordSearch, Phase, SearchRequested, WithPhase, Underway, IInv,
       ItemKey
  <1>2. ItemKey \in Keys /\ Fencing(mem, ItemKey)
    BY <1>1, ItemRequest, RecoveryKeys DEF WindowInv, Marked, Item, ItemKey
  <1>3. op \in Operation /\ op.phase = phase /\ op.import = "none"
    <2>1. mem.operations[ItemKey] \in Operation /\ mem.operations[ItemKey].import = "none"
      BY <1>1, <1>2 DEF Fencing, Pending, Sound, State
    <2> QED
      BY <2>1 DEF Operation, Phases
  <1> HIDE DEF op, phase
  <1>4. next.operations[ItemKey] = op /\ \A k \in Keys \ {ItemKey} : SameTrace(mem, next, k)
    BY <1>1, <1>2, OneTrace, StoreAssumption
  <1> HIDE DEF next
  <1>5. Waiting(next, Item)
    BY <1>2, <1>3, <1>4, NoOpAssumption DEF Waiting, Pending, ItemKey
  <1>6. Writes(next, phase)
    BY <1>1, <1>3, <1>4, <1>5 DEF Writes
  <1> QED
    BY <1>6 DEF phase

LEMMA UnderwayWaits ==
    ASSUME ScanInv, WindowInv, pc \in Underway
    PROVE  /\ Item \in Downloads /\ ItemKey \in Keys /\ Waiting(mem, Item)
           /\ mem.operations[ItemKey].import = "none"
  BY ItemRequest, RecoveryKeys, UnderwayIs DEF WindowInv, Marked, Item, ItemKey, Fencing, Waiting
\* PlaceInv of the next state, for the same download.
LEMMA PlaceThen ==
    ASSUME job'.item = job.item, Place(pc', Item, mem', disk', sent')
    PROVE  PlaceInv'
  <1>1. Item' = Item
    BY DEF Item
  <1> QED
    BY <1>1 DEF PlaceInv, Place, Searching, SameTrace

\* What the two requests leave behind.
LEMMA SentCounts ==
    ASSUME ScanInv, NEW d \in Downloads, NEW request \in {"remove", "search"}, Send(d, request)
    PROVE  /\ sent'[d].remove = IF request = "remove" THEN sent[d].remove + 1 ELSE sent[d].remove
           /\ sent'[d].search = IF request = "search" THEN sent[d].search + 1 ELSE sent[d].search
           /\ sent[d].remove \in Nat /\ sent[d].search \in Nat
  <1>1. sent[d] \in [remove : Nat, search : Nat]
    BY DEF ScanInv, CountsTyped
  <1>2. sent'[d] = [sent[d] EXCEPT ![request] = sent[d][request] + 1]
    BY DEF Send, ScanInv, CountsTyped
  <1> QED
    BY <1>1, <1>2

LEMMA OnwardPlace ==
    ASSUME IInv, ScanInv, OnceInv, WindowInv, PlaceInv, Onward
    PROVE  PlaceInv'
  <1>0. ASSUME pc' \notin Underway PROVE PlaceInv'
    BY <1>0 DEF PlaceInv, Place, Underway
  <1>1. pc \in Locked /\ "scan" \notin Underway
    BY AllStages, UnderwayIs DEF Onward, BeginRemoval, RemoveItem, RecordRemoved, ReadAgain,
       ReadMissing, RecordSearch, SendSearch
  <1>2. Item \in Downloads /\ job.keys \in SUBSET Episodes
    BY <1>1, ItemRequest
  <1>3. Place(pc, Item, mem, disk, sent)
    BY DEF PlaceInv
  <1>4. CASE BeginRemoval
    <2>1. PICK attempt \in 0 .. MaxInt :
             Begin(RequestFor(Item), "queue-removal-requested", FALSE, "none", job.keys, attempt)
      BY <1>4 DEF BeginRemoval
    <2>2. \E next : Begins(next, "queue-removal-requested", "none")
      <3>1. "queue-removal-requested" \in Phases /\ "none" \in {"none", "requested", "submitted"}
        BY DEF Phases
      <3> QED
        BY <1>1, <1>2, <2>1, <3>1, BeginWrites
    <2>3. IF writeErr' THEN pc' = "scan" ELSE pc' = "remove" /\ job' = job
      BY <1>4 DEF BeginRemoval, AfterSave, Leave, Goto
    <2>4. CASE ~writeErr'
      <3>0. PICK next : Begins(next, "queue-removal-requested", "none")
        BY <2>2
      <3>1. mem' = next /\ disk' = next
        BY <2>4, <3>0 DEF Begins, Update, Commits, CommitFails
      <3>2. Place(pc', Item, mem', disk', sent')
        BY <2>3, <2>4, <3>0, <3>1 DEF Begins, Place, Searching, SameTrace, ItemKey
      <3> QED
        BY <2>3, <2>4, <3>2, PlaceThen
    <2> QED
      BY <1>0, <1>1, <2>3, <2>4
  <1>5. CASE RemoveItem
    <2>1. /\ mem' = mem /\ pc = "remove" /\ Send(Item, "remove")
          /\ (pc' = "removed" /\ job' = job) \/ pc' = "scan"
      BY <1>5 DEF RemoveItem, AfterSend, Leave, Goto, storeVars, vars, durableVars
    <2>2. sent'[Item].remove > 0 /\ ~Searching(mem, Item)
      BY <1>2, <1>3, <2>1, SentCounts DEF Place
    <2>3. CASE pc' = "removed" /\ job' = job
      <3>1. Place(pc', Item, mem', disk', sent')
        BY <2>1, <2>2, <2>3 DEF Place
      <3> QED
        BY <2>3, <3>1, PlaceThen
    <2> QED
      BY <1>0, <1>1, <2>1, <2>3
  <1>6. CASE RecordRemoved \/ RecordSearch
    <2>1. PICK next :
             Writes(next, IF pc = "removed" THEN "queue-removed" ELSE "search-requested")
      BY <1>6, RecordWrites
    <2>2. /\ sent' = sent /\ sent[Item].remove > 0
          /\ \/ pc' = "scan"
             \/ ~writeErr' /\ job' = job /\ pc = "removed" /\ pc' \in {"finish", "again"}
             \/ ~writeErr' /\ job' = job /\ pc = "search" /\ pc' = "send"
      BY <1>3, <1>6 DEF RecordRemoved, RecordSearch, AfterSave, Leave, Goto, historyVars, Place
    <2>3. CASE ~writeErr' /\ job' = job /\ pc' # "scan"
      <3>1. mem' = next /\ disk' = next
        BY <2>1, <2>3 DEF Writes, Update, Commits, CommitFails
      <3>2. pc = "removed" => ~Searching(next, Item)
        BY <2>1 DEF Writes, Searching, ItemKey
      <3>3. Place(pc', Item, mem', disk', sent')
        BY <2>2, <2>3, <3>1, <3>2 DEF Place, SameTrace
      <3> QED
        BY <2>3, <3>3, PlaceThen
    <2> QED
      BY <1>0, <1>1, <2>2, <2>3
  <1>7. CASE ReadAgain \/ ReadMissing
    <2>1. /\ mem' = mem /\ sent' = sent
          /\ pc \in {"again", "missing"} /\ pc' \in {"missing", "search", "finish"}
      BY <1>7 DEF ReadAgain, ReadMissing, Goto, storeVars, vars, durableVars, historyVars
    <2>2. job'.item = job.item
      <3>1. PICK S : job' = [job EXCEPT !.targets = S]
        BY <1>7 DEF ReadAgain, ReadMissing, Goto
      <3>2. job \in JobType
        BY DEF ScanInv, PlaceTyped
      <3> QED
        BY <3>1, <3>2 DEF JobType
    <2>3. Place(pc', Item, mem', disk', sent')
      BY <1>3, <2>1 DEF Place
    <2> QED
      BY <2>2, <2>3, PlaceThen
  <1>8. CASE SendSearch
    <2>1. /\ mem' = mem /\ pc = "send" /\ Send(Item, "search")
          /\ (pc' = "finish" /\ job' = job) \/ pc' = "scan"
      BY <1>8 DEF SendSearch, AfterSend, Leave, Goto, storeVars, vars, durableVars
    <2>2. sent'[Item].search > 0 /\ sent'[Item].remove > 0
      BY <1>2, <1>3, <2>1, SentCounts DEF Place
    <2>3. CASE pc' = "finish" /\ job' = job
      <3>1. Place(pc', Item, mem', disk', sent')
        BY <2>1, <2>2, <2>3 DEF Place
      <3> QED
        BY <2>3, <3>1, PlaceThen
    <2> QED
      BY <1>0, <1>1, <2>1, <2>3
  <1> QED
    BY <1>4, <1>5, <1>6, <1>7, <1>8 DEF Onward

LEMMA PlaceKept ==
    ASSUME IInv, ScanInv, OnceInv, WindowInv, PlaceInv, [RecoveryNext]_recoveryVars
    PROVE  PlaceInv'
  <1>1. CASE Onward
    BY <1>1, OnwardPlace
  <1>2. CASE pc' \notin Underway
    BY <1>2 DEF PlaceInv, Place, Underway
  <1>3. CASE UNCHANGED <<pc, job>> /\ pc \in Underway /\ ~Onward
    <2>1. mem' = mem /\ disk' = disk /\ sent' = sent
      BY <1>3, LockedJournal, UnderwayIs
    <2> QED
      BY <1>3, <2>1, PlaceThen DEF PlaceInv
  <1> QED
    BY <1>1, <1>2, <1>3, WhereTo

-----------------------------------------------------------------------------

Says == [d \in Downloads |-> Stand(disk, d)]
Counts == [d \in Downloads |->
              [remove |-> sent[d].remove, search |-> sent[d].search, import |-> 0]]

LEMMA SameStand ==
    ASSUME NEW s, NEW t, NEW d \in Downloads, SameTrace(s, t, QueueKey[d])
    PROVE  Stand(t, d) = Stand(s, d)
  BY RecoveryKeys DEF SameTrace, Stand, Pending

\* A save for the key of a download is a step of the ledger if what the saved state
\* says of it is.
LEMMA SavedIsStep ==
    ASSUME IInv, NEW d \in Downloads, NEW next, Update(next), UNCHANGED sent,
           \A k \in Keys \ {QueueKey[d]} : SameTrace(mem, next, k),
           \/ Stand(next, d) = Says[d]
           \/ /\ Stand(next, d) \in {"remove", "import"} /\ Says[d] = "none"
              /\ sent[d].remove = 0 /\ sent[d].search = 0
           \/ /\ Stand(next, d) = "search" /\ Says[d] = "remove"
              /\ sent[d].remove > 0 /\ sent[d].search = 0
           \/ /\ Stand(next, d) = "closed"
              /\ \/ Says[d] = "import"
                 \/ Says[d] = "remove" /\ sent[d].remove > 0
                 \/ Says[d] = "search" /\ sent[d].search > 0
    PROVE  [Ledger!LedgerNext]_(Ledger!ledgerVars)
  <1>1. mem = disk /\ disk' \in {disk, next}
    BY SaveLeaves
  <1>2. \A c \in Downloads \ {d} : Stand(next, c) = Stand(disk, c)
    BY <1>1, SameStand, QueueAssumption
  <1>3. Says' \in {Says, [Says EXCEPT ![d] = Stand(next, d)]}
    BY <1>1, <1>2 DEF Says
  <1>4. [Says EXCEPT ![d] = Says[d]] = Says /\ Counts' = Counts
    BY DEF Says, Counts
  <1>5. /\ Counts[d]["remove"] = sent[d].remove /\ Counts[d]["search"] = sent[d].search
        /\ Counts[d]["import"] = 0
    BY DEF Counts
  <1>6. CASE Says' = Says
    BY <1>4, <1>6 DEF Ledger!ledgerVars, Says, Counts
  <1>7. CASE /\ Says' = [Says EXCEPT ![d] = Stand(next, d)]
             /\ Stand(next, d) \in {"remove", "import"} /\ Says[d] = "none"
             /\ sent[d].remove = 0 /\ sent[d].search = 0
    <2>1. Ledger!Announce(d, Stand(next, d))
      BY <1>4, <1>5, <1>7 DEF Ledger!Announce, Says, Counts
    <2> QED
      BY <1>7, <2>1 DEF Ledger!LedgerNext
  <1>8. CASE /\ Says' = [Says EXCEPT ![d] = Stand(next, d)]
             /\ Stand(next, d) = "search" /\ Says[d] = "remove"
             /\ sent[d].remove > 0 /\ sent[d].search = 0
    <2>1. Ledger!Announce(d, Stand(next, d))
      BY <1>4, <1>5, <1>8 DEF Ledger!Announce, Ledger!Settled, Says, Counts
    <2> QED
      BY <1>8, <2>1 DEF Ledger!LedgerNext
  <1>9. CASE /\ Says' = [Says EXCEPT ![d] = Stand(next, d)]
             /\ Stand(next, d) = "closed"
             /\ \/ Says[d] = "import"
                \/ Says[d] = "remove" /\ sent[d].remove > 0
                \/ Says[d] = "search" /\ sent[d].search > 0
    <2>1. Ledger!Close(d)
      BY <1>4, <1>5, <1>9 DEF Ledger!Close, Ledger!Settled, Says, Counts
    <2> QED
      BY <2>1 DEF Ledger!LedgerNext
  <1> QED
    BY <1>3, <1>4, <1>6, <1>7, <1>8, <1>9

\* The two requests.
LEMMA RequestIsStep ==
    ASSUME IInv, ScanInv, OnceInv, WindowInv, PlaceInv, RemoveItem \/ SendSearch
    PROVE  [Ledger!LedgerNext]_(Ledger!ledgerVars)
  <1>1. /\ disk' = disk /\ pc \in Underway
        /\ \/ pc = "remove" /\ Send(Item, "remove")
           \/ pc = "send" /\ Send(Item, "search")
    BY DEF RemoveItem, SendSearch, Underway, storeVars, vars, durableVars
  <1>2. /\ Item \in Downloads /\ Waiting(mem, Item) /\ SameTrace(mem, disk, QueueKey[Item])
        /\ mem.operations[QueueKey[Item]].import = "none"
    BY <1>1, UnderwayWaits DEF PlaceInv, Place, ItemKey
  <1>3. PICK d \in Downloads : d = Item
    BY <1>2
  <1>4. PICK r \in {"remove", "search"} :
           /\ Send(d, r) /\ Stand(mem, d) = r /\ sent[d][r] = 0
    <2>1. CASE pc = "remove"
      <3>1. ~Searching(mem, d) /\ sent[d].remove = 0
        BY <1>3, <2>1 DEF PlaceInv, Place, OnceInv, At, Item
      <3>2. Stand(mem, d) = "remove"
        BY <1>2, <1>3, <3>1 DEF Stand, Waiting, Searching
      <3> QED
        BY <1>1, <1>3, <2>1, <3>1, <3>2
    <2>2. CASE pc = "send"
      <3>1. Searching(mem, d) /\ sent[d].search = 0
        BY <1>3, <2>2 DEF OnceInv, At, AfterBegin, Item
      <3>2. Stand(mem, d) = "search"
        BY <1>2, <1>3, <3>1 DEF Stand, Waiting, Searching
      <3> QED
        BY <1>1, <1>3, <2>2, <3>1, <3>2
    <2> QED
      BY <1>1, <2>1, <2>2
  <1>5. Stand(disk, d) = r
    BY <1>2, <1>3, <1>4, SameStand
  <1>6. Says' = Says /\ Says[d] = r /\ Counts[d][r] = 0
    BY <1>1, <1>4, <1>5 DEF Says, Counts
  <1>7. Counts' = [Counts EXCEPT ![d][r] = 1]
    <2>1. sent \in [Downloads -> [remove : Nat, search : Nat]]
      BY DEF ScanInv, CountsTyped
    <2>2. sent' = [sent EXCEPT ![d] = [sent[d] EXCEPT ![r] = 1]]
      BY <1>4, <2>1 DEF Send
    <2>3. \A c \in Downloads : Counts'[c] = [Counts EXCEPT ![d][r] = 1][c]
      <3> SUFFICES ASSUME NEW c \in Downloads
                   PROVE  Counts'[c] = [Counts EXCEPT ![d][r] = 1][c]
        OBVIOUS
      <3>1. CASE c = d
        BY <2>1, <2>2, <3>1 DEF Counts
      <3>2. CASE c # d
        BY <2>1, <2>2, <3>2 DEF Counts
      <3> QED
        BY <3>1, <3>2
    <2> QED
      BY <2>3 DEF Counts
  <1>8. Ledger!Ask(d)
    BY <1>6, <1>7 DEF Ledger!Ask, Says, Counts
  <1> QED
    BY <1>8 DEF Ledger!LedgerNext
\* The saves for a download.
LEMMA BeginIsStep ==
    ASSUME IInv, ScanInv, OnceInv, BeginRemoval \/ BeginImport
    PROVE  [Ledger!LedgerNext]_(Ledger!ledgerVars)
  <1>1. pc \in Locked /\ sent' = sent
    BY AllStages DEF BeginRemoval, BeginImport, historyVars
  <1>2. Item \in Downloads /\ job.keys \in SUBSET Episodes /\ {} \in SUBSET Episodes
    BY <1>1, ItemRequest
  <1>3. PICK d \in Downloads : d = Item
    BY <1>2
  <1>4. /\ "queue-removal-requested" \in Phases /\ "manual-import-requested" \in Phases
        /\ "none" \in {"none", "requested", "submitted"}
        /\ "requested" \in {"none", "requested", "submitted"}
    BY DEF Phases
  <1>5. \/ \E next : Begins(next, "queue-removal-requested", "none")
        \/ \E next : Begins(next, "manual-import-requested", "requested")
        \/ UNCHANGED storeVars
    <2>1. CASE BeginRemoval
      <3>1. PICK attempt \in 0 .. MaxInt :
               Begin(RequestFor(Item), "queue-removal-requested", FALSE, "none", job.keys, attempt)
        BY <2>1 DEF BeginRemoval
      <3> QED
        BY <1>1, <1>2, <1>4, <3>1, BeginWrites
    <2>2. CASE BeginImport /\ ~UNCHANGED storeVars
      <3>1. PICK attempt \in 0 .. MaxInt :
               Begin(RequestFor(Item), "manual-import-requested", FALSE, "requested", {}, attempt)
        BY <2>2 DEF BeginImport
      <3> QED
        BY <1>1, <1>2, <1>4, <3>1, BeginWrites
    <2> QED
      BY <2>1, <2>2
  <1>6. CASE UNCHANGED storeVars
    BY <1>1, <1>6 DEF Ledger!ledgerVars, Stand, storeVars, vars, durableVars
  <1>7. ASSUME NEW next, NEW phase, NEW import, Begins(next, phase, import),
               phase # "search-requested"
        PROVE  [Ledger!LedgerNext]_(Ledger!ledgerVars)
    <2>1. /\ ~Waiting(mem, d) /\ QueueKey[d] \notin mem.completed
          /\ Update(next) /\ Waiting(next, d)
          /\ next.operations[QueueKey[d]].phase = phase
          /\ \A k \in Keys \ {QueueKey[d]} : SameTrace(mem, next, k)
      BY <1>3, <1>7 DEF Begins, ItemKey
    <2>2. mem = disk
      BY <2>1, SaveLeaves
    <2>3. Says[d] = "none" /\ sent[d].remove = 0 /\ sent[d].search = 0
      BY <2>1, <2>2 DEF Says, Stand, Waiting, OnceInv, Kept, Unsent
    <2>4. Stand(next, d) \in {"remove", "import"}
      BY <1>7, <2>1 DEF Stand, Waiting
    <2> QED
      BY <1>1, <2>1, <2>3, <2>4, SavedIsStep
  <1> QED
    BY <1>5, <1>6, <1>7

LEMMA RecordIsStep ==
    ASSUME IInv, ScanInv, OnceInv, WindowInv, PlaceInv, RecordRemoved \/ RecordSearch
    PROVE  [Ledger!LedgerNext]_(Ledger!ledgerVars)
  <1>1. /\ pc \in {"removed", "search"} /\ pc \in Underway /\ sent' = sent
        /\ pc = "removed" \/ pc = "search"
    BY DEF RecordRemoved, RecordSearch, Underway, historyVars
  <1>2. /\ Item \in Downloads /\ Waiting(mem, Item)
        /\ mem.operations[QueueKey[Item]].import = "none"
    BY <1>1, UnderwayWaits DEF ItemKey
  <1>3. PICK d \in Downloads : d = Item
    BY <1>2
  <1>4. PICK next :
           Writes(next, IF pc = "removed" THEN "queue-removed" ELSE "search-requested")
    BY RecordWrites
  <1>5. /\ ~Searching(mem, d) /\ sent[d].remove > 0 /\ sent[d].search = 0
    BY <1>1, <1>3 DEF PlaceInv, Place, OnceInv, At, AfterBegin, Item
  <1>6. /\ Update(next) /\ Waiting(next, d)
        /\ next.operations[QueueKey[d]].import = "none"
        /\ \A k \in Keys \ {QueueKey[d]} : SameTrace(mem, next, k)
        /\ mem = disk
    BY <1>3, <1>4, SaveLeaves DEF Writes, ItemKey
  <1>7. Says[d] = "remove"
    BY <1>2, <1>3, <1>5, <1>6 DEF Says, Stand, Waiting, Searching
  <1>8. Stand(next, d) \in {"remove", "search"}
    BY <1>6 DEF Stand, Waiting
  <1> QED
    BY <1>1, <1>5, <1>6, <1>7, <1>8, SavedIsStep

LEMMA CloseIsStep ==
    ASSUME IInv, ScanInv, OnceInv, WindowInv, PlaceInv,
           Finish \/ \E d \in Downloads : ReconcileImport(d)
    PROVE  [Ledger!LedgerNext]_(Ledger!ledgerVars)
  <1>1. sent' = sent
    BY DEF Finish, ReconcileImport, historyVars
  <1>2. PICK d \in Downloads :
           /\ Complete(QueueKey[d])
           /\ \/ mem.operations[QueueKey[d]].import # "none"
              \/ /\ mem.operations[QueueKey[d]].import = "none" /\ sent[d].remove > 0
                 /\ Searching(mem, d) => sent[d].search > 0
    <2>1. CASE Finish
      <3>1. pc = "finish" /\ pc \in Underway /\ Complete(QueueKey[Item])
        BY <2>1 DEF Finish, Underway
      <3>2. /\ Item \in Downloads /\ mem.operations[QueueKey[Item]].import = "none"
            /\ sent[Item].remove > 0 /\ (Searching(mem, Item) => sent[Item].search > 0)
        BY <3>1, UnderwayWaits DEF PlaceInv, Place, ItemKey
      <3> QED
        BY <3>1, <3>2
    <2>2. CASE \E d \in Downloads : ReconcileImport(d)
      BY <2>2 DEF ReconcileImport
    <2> QED
      BY <2>1, <2>2
  <1> DEFINE next == WithCompletion(mem, QueueKey[d])
  <1>3. QueueKey[d] \in Pending(mem) /\ Update(next)
    BY <1>2 DEF Complete
  <1>4. Sound(mem) /\ mem = disk /\ QueueKey[d] \in Keys
    BY <1>3, SaveLeaves, RecoveryKeys
  <1>5. /\ next.operations[QueueKey[d]] = NoOp /\ QueueKey[d] \in next.completed
        /\ \A k \in Keys \ {QueueKey[d]} : SameTrace(mem, next, k)
    BY <1>4, OneTrace, StoreAssumption
  <1> HIDE DEF next
  <1>6. Stand(next, d) = "closed"
    BY <1>5 DEF Stand, Pending
  <1>7. \/ Says[d] = "import"
        \/ Says[d] = "remove" /\ sent[d].remove > 0
        \/ Says[d] = "search" /\ sent[d].search > 0
    BY <1>2, <1>3, <1>4 DEF Says, Stand, Searching
  <1> QED
    BY <1>1, <1>3, <1>5, <1>6, <1>7, SavedIsStep

\* Every other step leaves what the file says of the downloads as it is.
LEMMA OthersStand ==
    ASSUME IInv, ScanInv, OnceInv, [RecoveryNext]_recoveryVars,
           ~(BeginRemoval \/ BeginImport \/ RecordRemoved \/ RecordSearch \/ Finish
             \/ RemoveItem \/ SendSearch \/ \E d \in Downloads : ReconcileImport(d))
    PROVE  Says' = Says /\ sent' = sent
  <1>0. Sound(mem) /\ Sound(disk)
    BY DEF IInv
  <1>1. ASSUME \A d \in Downloads : SameTrace(disk, disk', QueueKey[d])
        PROVE  Says' = Says
    BY <1>1, SameStand DEF Says
  <1>2. ASSUME NEW next, Update(next), \A d \in Downloads : SameTrace(mem, next, QueueKey[d])
        PROVE  Says' = Says
    BY <1>1, <1>2, SaveLeaves DEF SameTrace
  <1>3. CASE Quiet
    <2>1. disk' = disk /\ sent' = sent
      BY <1>3 DEF Quiet, storeVars, vars, durableVars
    <2> QED
      BY <2>1 DEF Says
  <1>4. ASSUME NEW r \in MediaRequests, NEW ids \in SUBSET Episodes, MediaBegins(r, ids)
        PROVE  Says' = Says /\ sent' = sent
    <2> DEFINE op == NewOperation(r, "delete-requested", FALSE, "none")
    <2>1. PICK attempt \in 0 .. MaxInt : Begin(r, "delete-requested", FALSE, "none", ids, attempt)
      BY <1>4 DEF MediaBegins
    <2> DEFINE next == Begun(mem, r.key, op, ids, attempt)
    <2>2. Update(next) /\ sent' = sent
      BY <1>4, <2>1 DEF Begin, MediaBegins, historyVars
    <2>3. r.key \in Keys /\ \A d \in Downloads : QueueKey[d] \in Keys \ {r.key}
      BY RecoveryKeys
    <2> HIDE DEF op
    <2>4. \A k \in Keys \ {r.key} : SameTrace(mem, next, k)
      BY <1>0, <2>3, OneTrace
    <2> HIDE DEF next
    <2> QED
      BY <1>2, <2>2, <2>3, <2>4
  <1>5. ASSUME NEW r \in MediaRequests, MediaCompletes(r)
        PROVE  Says' = Says /\ sent' = sent
    <2> DEFINE next == WithCompletion(mem, r.key)
    <2>1. Update(next) /\ sent' = sent
      BY <1>5 DEF MediaCompletes, Complete, historyVars
    <2>2. r.key \in Keys /\ \A d \in Downloads : QueueKey[d] \in Keys \ {r.key}
      BY RecoveryKeys
    <2>3. \A k \in Keys \ {r.key} : SameTrace(mem, next, k)
      BY <1>0, <2>2, OneTrace, StoreAssumption
    <2> HIDE DEF next
    <2> QED
      BY <1>2, <2>1, <2>2, <2>3
  <1>6. ASSUME NEW e \in Episodes, MediaResets(e)
        PROVE  Says' = Says /\ sent' = sent
    <2> DEFINE next == WithAttempts(mem, {e}, 0)
    <2>1. Update(next) /\ sent' = sent
      BY <1>6 DEF MediaResets, Reset
    <2>2. next.operations = mem.operations /\ next.completed = mem.completed
      BY <1>0, AttemptsSound, StoreAssumption
    <2> HIDE DEF next
    <2>3. \A d \in Downloads : SameTrace(mem, next, QueueKey[d])
      BY <2>2 DEF SameTrace
    <2> QED
      BY <1>2, <2>1, <2>3
  <1>7. CASE SaveOther
    <2>1. Update(mem) /\ sent' = sent
      BY <1>7 DEF SaveOther, SaveWebhooks, historyVars
    <2>2. \A d \in Downloads : SameTrace(mem, mem, QueueKey[d])
      BY DEF SameTrace
    <2> QED
      BY <1>2, <2>1, <2>2
  <1>8. CASE Die
    <2>1. disk' = disk /\ sent' = sent
      BY <1>8 DEF Die, Stop, Crash, Forget
    <2> QED
      BY <2>1 DEF Says
  <1>9. CASE Restart
    <2>1. disk'.operations = disk.operations /\ disk'.completed = disk.completed /\ sent' = sent
      BY <1>9, StartTrace DEF Restart, historyVars
    <2>2. \A d \in Downloads : SameTrace(disk, disk', QueueKey[d])
      BY <2>1 DEF SameTrace
    <2> QED
      BY <1>1, <2>1, <2>2
  <1> QED
    BY <1>3, <1>4, <1>5, <1>6, <1>7, <1>8, <1>9, StepKinds DEF StoreActs

\* Whatever is lost, moved, restarted or refused: a download is removed before a
\* search is sent for it, each announced in the file first and sent once; a
\* download of which an import was announced is neither removed nor searched for
\* by the scan; and no operation is closed with a removal or a search announced
\* and not sent (QueueRecovery!AsksInOrder).
THEOREM RecoveryAsksInOrder == RecoverySpec => AsksInOrder
  <1>1. RecoveryInit => Ledger!LedgerInit
    <2> SUFFICES ASSUME RecoveryInit PROVE Ledger!LedgerInit
      OBVIOUS
    <2>1. \A d \in Downloads : /\ Stand(disk, d) = "none"
                               /\ sent[d].remove = 0 /\ sent[d].search = 0
      BY RecoveryKeys DEF RecoveryInit, Init, Stand, Pending
    <2>2. \A d \in Downloads :
             [remove |-> sent[d].remove, search |-> sent[d].search, import |-> 0]
                = [r \in {"remove", "search", "import"} |-> 0]
      BY <2>1
    <2> QED
      BY <2>1, <2>2 DEF Ledger!LedgerInit
  <1>2. IInv /\ ScanInv /\ OnceInv /\ WindowInv /\ PlaceInv /\ [RecoveryNext]_recoveryVars
           => [Ledger!LedgerNext]_(Ledger!ledgerVars)
    <2> SUFFICES ASSUME IInv, ScanInv, OnceInv, WindowInv, PlaceInv, [RecoveryNext]_recoveryVars
                 PROVE  [Ledger!LedgerNext]_(Ledger!ledgerVars)
      OBVIOUS
    <2>1. CASE Says' = Says /\ sent' = sent
      BY <2>1 DEF Ledger!ledgerVars, Says
    <2> QED
      BY <2>1, BeginIsStep, RecordIsStep, CloseIsStep, RequestIsStep, OthersStand
  <1>3. RecoveryInit => PlaceInv
    BY DEF RecoveryInit, PlaceInv, Place
  <1>4. IInv /\ ScanInv /\ OnceInv /\ WindowInv /\ PlaceInv /\ [RecoveryNext]_recoveryVars
           => PlaceInv'
    BY PlaceKept
  <1> QED
    BY <1>1, <1>2, <1>3, <1>4, RecoveryImplementsStore, Invariance, ScanTyped, OnceHolds, Windows,
       PTL DEF RecoverySpec, AsksInOrder, Ledger!LedgerSpec
=============================================================================
