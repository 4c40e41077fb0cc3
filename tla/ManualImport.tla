---------------------------- MODULE ManualImport ----------------------------
(***************************************************************************)
(* The last resort for a rejected download (guard/manual_import.go): when  *)
(* no missing episode has an attempt left and Arr only hesitates because   *)
(* it matched the download by ID, Arr is told to import its files.         *)
(*                                                                         *)
(* Arr imports asynchronously and its answer proves nothing.  The journal  *)
(* keeps what was submitted; later visits, every ten seconds and in every  *)
(* scan, look for the files in history and library, remove the row that a  *)
(* partial import leaves behind, and complete the operation.  mutationMu   *)
(* is held for a whole submission or visit.                                *)
(*                                                                         *)
(* One download of one series; its budget is exhausted (QueueRecovery).    *)
(***************************************************************************)
EXTENDS StateStore, Sequences, FiniteSets

CONSTANTS
    Kind, Subject, Download,
    ImportKey,      \* the key of the download's operation
    MediaRequests,  \* operations of the media workers
    Episodes,       \* the episodes of the download
    Sources,        \* its media files
    Carries,        \* source |-> the episodes its name and Arr agree on
    Elsewhere,      \* a queue row of another Arr instance with the same download
    NoSource,       \* the source of an import of another download
    FirstHistories, \* what Arr's history may be at first, the grab included
    MaxHistory,
    MaxChanges,     \* bound on what everybody else changes
    Erasable        \* whether somebody may clear Arr's history

Request == [key |-> ImportKey, kind |-> Kind, subject |-> Subject, download |-> Download]

Event == [source : Sources \cup {NoSource}, episodes : SUBSET Episodes]

ASSUME ImportAssumption ==
    /\ ImportKey \in Keys /\ Request \in Requests
    /\ MediaRequests \subseteq {r \in Requests : r.key # ImportKey}
    /\ Carries \in [Sources -> (SUBSET Episodes) \ {{}}]
    /\ Elsewhere \notin Episodes /\ NoSource \notin Sources
    /\ \A h \in FirstHistories : h \in Seq(Event) /\ Len(h) <= MaxHistory
    /\ MaxHistory \in Nat /\ MaxChanges \in Nat /\ Erasable \in BOOLEAN

VARIABLES
    \* Arr and the files
    rows,       \* queue row of an episode, or Elsewhere |-> state
    listed,     \* sources Arr offers for import
    good,       \* sources whose subtitles pass
    library,    \* episode |-> its file; a file is the index of its import
    goodFiles,  \* library files whose subtitles pass
    history,    \* imports of files, the oldest first; the first is the grab
    cleared,    \* how many of them are no longer shown
    command,    \* the import command: its status, and sources not yet imported
    \* the guard
    pc,
    job,        \* local variables of importExhaustedQueue, reconcileManualImport
    journal,    \* the PendingImport of the operation last begun
    \* history and bounds
    sent,       \* how often each request was sent for the operation
    raced,      \* <<window, thing>>: things changed after the last look at them
    changes

downloadVars == <<rows, listed, good>>
libraryVars == <<library, goodFiles, history, cleared>>
arrVars == <<downloadVars, libraryVars, command>>
guardVars == <<pc, job, journal>>
historyVars == <<sent, raced, changes>>
storeVars == vars
importVars == <<storeVars, arrVars, guardVars, historyVars>>

RowStates == {"blocked",    \* waits because of the match by ID only
              "rejected",   \* has another reason too
              "imported", "active", "gone"}

NoJob == [group |-> {}, targets |-> {}, listed |-> {}, selected |-> {},
          after |-> 0, files |-> <<>>, checked |-> {}, item |-> Elsewhere]

NoFile == 0
Missing == {e \in Episodes : library[e] = NoFile}

\* queueRecoveryGroup, for the rows of the download: which there are, and
\* whether they are imported.
Group == {<<e, rows[e] = "imported">> : e \in {x \in Episodes : rows[x] # "gone"}}
GroupRefused == \E e \in Episodes : rows[e] = "active"
Rejected == \E e \in Episodes : rows[e] \in {"blocked", "rejected"}

HistoryShown == {i \in 1 .. Len(history) : i > cleared}

Submitting == {"targets", "check", "discover", "probe", "rediscover", "replan", "retarget",
               "recheck", "after", "snapshot", "begin", "submit", "submitted"}
Reconciling == {"command", "evidence", "verify", "reverify", "residual", "cleanup plan",
                "needed", "cleanup check", "still needed", "cleanup", "remove", "finish"}

\* From the last look at something to the request, or to the completion, that
\* rests on it.
Windows ==
    [targets  |-> {"recheck", "after", "snapshot", "begin", "submit"},
     group    |-> {"after", "snapshot", "begin", "submit"},
     sources  |-> {"snapshot", "begin", "submit"},
     verified |-> {"reverify", "residual", "cleanup plan", "needed", "cleanup check",
                   "still needed", "cleanup", "remove", "finish"},
     needed   |-> {"cleanup", "remove"},
     residual |-> {"still needed", "cleanup", "remove"}]

Races(windows, things) ==
    raced' = raced \cup ({w \in windows : pc \in Windows[w]} \X things)

-----------------------------------------------------------------------------
(* Control. *)

Goto(stage, locals) == pc' = stage /\ job' = locals

\* Return: mutationMu is released.
Leave == Goto("idle", NoJob)

AfterSave(stage) == IF writeErr' THEN Leave ELSE Goto(stage, job)

ReadOnly == UNCHANGED <<storeVars, arrVars, journal, historyVars>>

\* Read something, and go on if it is as it should be.
Look(stage, asItShould, next, locals) ==
    /\ pc = stage
    /\ IF asItShould THEN Goto(next, locals) ELSE Leave
    /\ ReadOnly

\* Look at one file after the other, then go on.
LookAtEach(stage, files, AsItShould(_), next) ==
    IF job.checked = files
    THEN Look(stage, TRUE, next, [job EXCEPT !.checked = {}])
    ELSE \E s \in files \ job.checked :
            Look(stage, AsItShould(s), stage, [job EXCEPT !.checked = @ \cup {s}])

\* A read fails.
Abort ==
    /\ pc \in (Submitting \cup Reconciling) \
              {"begin", "submit", "submitted", "cleanup", "remove", "finish"}
    /\ Leave
    /\ ReadOnly

\* A save is refused because an earlier one failed.
Refused ==
    /\ pc \in {"begin", "submitted", "cleanup", "finish"} /\ writeErr
    /\ Leave
    /\ ReadOnly

-----------------------------------------------------------------------------
(* Submission: importExhaustedQueue. *)

\* What planQueueRecovery finds in the queue and, the grab included, in history.
Plannable == ~GroupRefused /\ Rejected /\ cleared = 0

\* recoverQueueItem, in short: QueueRecovery has it in full.
Enter ==
    /\ open /\ clients[Kind] # NoServer
    /\ pc = "idle"
    /\ ~AlreadyDone(ImportKey) /\ ImportKey \notin Pending(mem)
    /\ Plannable
    /\ Goto("targets", [NoJob EXCEPT !.group = Group])
    /\ UNCHANGED <<storeVars, arrVars, journal, sent, changes>>
    /\ raced' = {}

ImportedHaveFiles(group) == \A g \in group : g[2] => g[1] \notin Missing

PlanTargets ==
    Look("targets", Missing # {} /\ ImportedHaveFiles(job.group),
         "check", [job EXCEPT !.targets = Missing])

\* checkImportQueue, with and without the question of the reason.
QueueAsPlanned == ~GroupRefused /\ Group = job.group /\ rows[Elsewhere] = "gone"
OnlyMatchedByID == \A e \in Episodes : rows[e] # "rejected"

CheckQueue(stage, next) == Look(stage, QueueAsPlanned /\ OnlyMatchedByID, next, job)

\* The candidates that carry a target; files of episodes that are there are
\* left alone.
Selected == {s \in listed : Carries[s] \cap job.targets # {}}

\* Mutant: that a candidate also carries an episode that has a file is ignored.
CoversLoosely(selected, targets) == targets \subseteq UNION {Carries[s] : s \in selected}

\* They must carry every target once, and nothing else.
CoversExactly(selected, targets) ==
    /\ UNION {Carries[s] : s \in selected} = targets
    /\ \A s, t \in selected : s # t => Carries[s] \cap Carries[t] = {}

Discover ==
    Look("discover", CoversExactly(Selected, job.targets),
         "probe", [job EXCEPT !.listed = listed, !.selected = Selected])

IsGood(s) == s \in good

Probe == LookAtEach("probe", job.selected, IsGood, "rediscover")

\* After the slow probes everything is read again.
Rediscover == Look("rediscover", listed = job.listed, "replan", job)

Replan == Look("replan", Plannable /\ Group = job.group, "retarget", job)

\* Mutant: the targets of the fresh plan are not compared.
RetargetNothing == Look("retarget", TRUE, "recheck", job)

Retarget ==
    Look("retarget", Missing = job.targets /\ ImportedHaveFiles(job.group), "recheck", job)

\* The newest event of the download that is there already.
ReadAfter ==
    LET ofDownload == {i \in HistoryShown : i = 1 \/ history[i].source # NoSource}
    IN  Look("after", TRUE, "snapshot", [job EXCEPT !.after = Highest(ofDownload)])

Snapshot == LookAtEach("snapshot", job.selected, IsGood, "begin")

BeginImport ==
    /\ pc = "begin"
    /\ \E attempt \in 0 .. MaxInt :
          Begin(Request, "manual-import-requested", FALSE, "requested", {}, attempt)
    /\ journal' = [after |-> job.after, files |-> job.selected, targets |-> job.targets]
    /\ AfterSave("submit")
    /\ UNCHANGED <<arrVars, historyVars>>

\* Another operation concerns the series.  (That this one is completed was
\* excluded under the same lock.)
NotBegun ==
    /\ pc = "begin"
    /\ Fenced(NewOperation(Request, "manual-import-requested", FALSE, "requested"))
    /\ Leave
    /\ ReadOnly

Submit ==
    /\ pc = "submit"
    /\ sent' = [sent EXCEPT !.import = @ + 1]
    /\ \/ /\ command' = [status |-> "running", todo |-> job.selected]
          /\ \E acked \in BOOLEAN : IF acked THEN Goto("submitted", job) ELSE Leave
       \/ UNCHANGED command /\ Leave
    /\ UNCHANGED <<storeVars, downloadVars, libraryVars, journal, raced, changes>>

RecordSubmitted ==
    /\ pc = "submitted"
    /\ ImportSubmitted(ImportKey)
    /\ IF writeErr' THEN Leave ELSE Goto("command", NoJob)
    /\ UNCHANGED <<arrVars, journal, historyVars>>

-----------------------------------------------------------------------------
(* Every later visit: reconcileManualImport and cleanupManualImport. *)

\* An uncertain removal is not looked at again.
Visit ==
    /\ open /\ clients[Kind] # NoServer
    /\ pc = "idle"
    /\ ImportKey \in Pending(mem)
    /\ mem.operations[ImportKey].import # "none"
    /\ mem.operations[ImportKey].phase # "manual-import-cleanup-requested"
    /\ Goto("command", NoJob)
    /\ UNCHANGED <<storeVars, arrVars, journal, sent, changes>>
    /\ raced' = {}

\* Without an acknowledgement there is no command to ask for.
ReadCommand ==
    Look("command",
         ~(mem.operations[ImportKey].import = "submitted" /\ command.status = "running"),
         "evidence", job)

\* Mutant: any import of the source is evidence, however old.
EvidenceOfOld(s) == {i \in HistoryShown : history[i].source = s}

\* The imports of a source since the submission.
Evidence(s) == {i \in HistoryShown : i > journal.after /\ history[i].source = s}

\* One for each source, of the episodes expected.
ReadEvidence ==
    Look("evidence",
         \A s \in journal.files :
            /\ Cardinality(Evidence(s)) = 1
            /\ \A i \in Evidence(s) : history[i].episodes = Carries[s],
         "verify",
         [job EXCEPT !.files = [s \in journal.files |-> CHOOSE i \in Evidence(s) : TRUE]])

\* Mutant: that the file is in the library is enough.
InLibraryUnprobed(s) == \E e \in Episodes : library[e] = job.files[s]

\* The file is in the library, has the episodes, and its subtitles pass.
InLibrary(s) ==
    LET file == job.files[s]
    IN  {e \in Episodes : library[e] = file} = Carries[s] /\ file \in goodFiles

Verify == LookAtEach("verify", journal.files, InLibrary, "reverify")

Reverify == LookAtEach("reverify", journal.files, InLibrary, "residual")

\* A partial import may leave a rejected row behind.
ReadResidual ==
    /\ pc = "residual"
    /\ IF GroupRefused THEN Leave
       ELSE IF ~Rejected THEN Goto("finish", job)
       ELSE \E e \in Episodes : /\ rows[e] \in {"blocked", "rejected"}
                                /\ Goto("cleanup plan", [job EXCEPT !.item = e])
    /\ ReadOnly

PlanCleanup ==
    /\ pc = "cleanup plan"
    /\ IF rows[job.item] = "gone" THEN Goto("finish", job)
       ELSE IF GroupRefused \/ cleared > 0 THEN Leave
       ELSE IF ~Rejected THEN Goto("finish", job)
       ELSE Goto("needed", [job EXCEPT !.group = Group])
    /\ ReadOnly

\* All episodes of the download have files.  (The library read that belongs to
\* the plan asks for less and is left out.)
Needed == Look("needed", Missing = {}, "cleanup check", job)

CheckCleanup == Look("cleanup check", QueueAsPlanned, "still needed", job)

\* Mutant: the second read of the library is left out.
StillNeededIgnored == Look("still needed", TRUE, "cleanup", job)

StillNeeded == Look("still needed", Missing = {}, "cleanup", job)

RecordCleanup ==
    /\ pc = "cleanup"
    /\ Phase(ImportKey, "manual-import-cleanup-requested")
    /\ AfterSave("remove")
    /\ UNCHANGED <<arrVars, journal, historyVars>>

\* RemoveImportedQueueItem: Arr drops the download, and its client the files.
RemoveItem ==
    /\ pc = "remove"
    /\ sent' = [sent EXCEPT !.cleanup = @ + 1]
    /\ \/ /\ rows[job.item] # "gone"
          /\ rows' = [r \in DOMAIN rows |-> IF r = Elsewhere THEN rows[r] ELSE "gone"]
          /\ listed' = {}
          /\ \E acked \in BOOLEAN : IF acked THEN Goto("finish", job) ELSE Leave
       \/ UNCHANGED <<rows, listed>> /\ Leave
    /\ UNCHANGED <<storeVars, good, libraryVars, command, journal, raced, changes>>

Finish ==
    /\ pc = "finish"
    /\ Complete(ImportKey)
    /\ Leave
    /\ UNCHANGED <<arrVars, journal, historyVars>>

Submission ==
    \/ Enter \/ PlanTargets \/ CheckQueue("check", "discover")
    \/ Discover \/ Probe \/ Rediscover \/ Replan \/ Retarget
    \/ CheckQueue("recheck", "after") \/ ReadAfter \/ Snapshot
    \/ BeginImport \/ NotBegun \/ Submit \/ RecordSubmitted

Reconciliation ==
    \/ Visit \/ ReadCommand \/ ReadEvidence \/ Verify \/ Reverify
    \/ ReadResidual \/ PlanCleanup \/ Needed \/ CheckCleanup \/ StillNeeded
    \/ RecordCleanup \/ RemoveItem \/ Finish

-----------------------------------------------------------------------------
(* Arr carries the command out. *)

\* A new file takes the episodes over from the files they had.
Import(source, episodes, passes) ==
    /\ Len(history) < MaxHistory
    /\ history' = Append(history, [source |-> source, episodes |-> episodes])
    /\ library' = [e \in Episodes |-> IF e \in episodes THEN Len(history') ELSE library[e]]
    /\ goodFiles' = IF passes THEN goodFiles \cup {Len(history')} ELSE goodFiles
    /\ Races({"targets", "verified", "needed"}, episodes)
    /\ UNCHANGED cleared

RunCommand(s) ==
    /\ s \in command.todo \cap listed
    /\ Import(s, Carries[s], s \in good)
    /\ command' = [command EXCEPT !.todo = @ \ {s}]
    /\ UNCHANGED <<storeVars, downloadVars, guardVars, sent, changes>>

\* It ends, perhaps before all is done.
EndCommand ==
    /\ command.status = "running"
    /\ command' = [status |-> "done", todo |-> {}]
    /\ UNCHANGED <<storeVars, downloadVars, libraryVars, guardVars, historyVars>>

\* The rows of imported episodes follow, some time.
RowFollows(e, to) ==
    /\ rows[e] \in {"blocked", "rejected", "imported"} /\ library[e] # NoFile
    /\ to \in {"imported", "gone"} \ {rows[e]}
    /\ rows' = [rows EXCEPT ![e] = to]
    /\ UNCHANGED <<storeVars, listed, good, libraryVars, command, guardVars, historyVars>>

-----------------------------------------------------------------------------
(* Everybody else. *)

Change ==
    /\ changes < MaxChanges /\ changes' = changes + 1
    /\ UNCHANGED <<storeVars, command, guardVars, sent>>

MoveRow(r, to) ==
    /\ Change
    /\ rows[r] # to
    /\ r = Elsewhere => to \in {"active", "gone"}
    /\ rows' = [rows EXCEPT ![r] = to]
    /\ Races({"group", "residual"}, {r})
    /\ UNCHANGED <<listed, good, libraryVars>>

List(s) ==
    /\ Change
    /\ listed' = IF s \in listed THEN listed \ {s} ELSE listed \cup {s}
    /\ UNCHANGED <<rows, good, libraryVars, raced>>

EditSource(s) ==
    /\ Change
    /\ good' = IF s \in good THEN good \ {s} ELSE good \cup {s}
    /\ Races({"sources"}, {s})
    /\ UNCHANGED <<rows, listed, libraryVars>>

EditFile(e) ==
    /\ Change
    /\ library[e] # NoFile
    /\ goodFiles' = IF library[e] \in goodFiles THEN goodFiles \ {library[e]}
                                                ELSE goodFiles \cup {library[e]}
    /\ Races({"verified"}, {x \in Episodes : library[x] = library[e]})
    /\ UNCHANGED <<downloadVars, library, history, cleared>>

DeleteFile(e) ==
    /\ Change
    /\ library[e] # NoFile
    /\ library' = [x \in Episodes |-> IF library[x] = library[e] THEN NoFile ELSE library[x]]
    /\ Races({"targets", "verified", "needed"}, {x \in Episodes : library[x] = library[e]})
    /\ UNCHANGED <<downloadVars, goodFiles, history, cleared>>

\* Another download is imported, or the user imports a source by hand.
OtherImport(e, passes) ==
    /\ Change
    /\ Import(NoSource, {e}, passes)
    /\ UNCHANGED downloadVars

HandImport(s) ==
    /\ Change
    /\ s \in listed
    /\ Import(s, Carries[s], s \in good)
    /\ UNCHANGED downloadVars

ClearHistory ==
    /\ Erasable
    /\ Change
    /\ cleared' = Len(history)
    /\ UNCHANGED <<downloadVars, library, goodFiles, history, raced>>

\* A media worker begins or completes an operation.
MediaBegins(r) ==
    /\ pc = "idle"
    /\ \E attempt \in 0 .. MaxInt : Begin(r, "delete-requested", FALSE, "none", {}, attempt)
    /\ UNCHANGED <<arrVars, guardVars, historyVars>>

MediaCompletes(r) ==
    /\ pc = "idle"
    /\ r.key \in Pending(mem)
    /\ Complete(r.key)
    /\ UNCHANGED <<arrVars, guardVars, historyVars>>

SaveOther == SaveWebhooks /\ UNCHANGED <<arrVars, guardVars, historyVars>>

Die == Stop /\ Leave /\ UNCHANGED <<arrVars, journal, historyVars>>

\* validateImportJournal, as far as a submission could fail it: there was some
\* history, and the files carry the operation's episodes, each once.
CarriedOnce ==
    \A e \in Episodes : Cardinality({s \in journal.files : e \in Carries[s]})
                         = IF e \in journal.targets THEN 1 ELSE 0

Journalled == ImportKey \in Pending(disk) /\ disk.operations[ImportKey].import # "none"

Loads == Journalled => journal.after >= 1 /\ journal.files # {} /\ CarriedOnce

Restart ==
    /\ Loads
    /\ \E configured \in Bindings : Start(configured)
    /\ UNCHANGED <<arrVars, guardVars, historyVars>>

Arr ==
    \/ \E s \in Sources : RunCommand(s)
    \/ EndCommand
    \/ \E e \in Episodes, to \in RowStates : RowFollows(e, to)

Surroundings ==
    \/ \E r \in DOMAIN rows, to \in RowStates : MoveRow(r, to)
    \/ \E e \in Episodes : EditFile(e) \/ DeleteFile(e)
    \/ \E e \in Episodes, passes \in BOOLEAN : OtherImport(e, passes)
    \/ \E s \in Sources : List(s) \/ EditSource(s) \/ HandImport(s)
    \/ ClearHistory
    \/ \E r \in MediaRequests : MediaBegins(r) \/ MediaCompletes(r)
    \/ SaveOther

ImportInit ==
    /\ Init
    /\ rows \in [Episodes \cup {Elsewhere} -> {"blocked", "imported", "gone"}]
    /\ rows[Elsewhere] = "gone" /\ \E e \in Episodes : rows[e] = "blocked"
    /\ listed \in SUBSET Sources
    /\ good = Sources
    /\ history \in FirstHistories
    /\ library \in [Episodes -> {NoFile} \cup {i \in 1 .. Len(history) : i > 1}]
    /\ \A e \in Episodes : library[e] # NoFile => e \in history[library[e]].episodes
    /\ \A e \in Episodes : rows[e] = "imported" => library[e] # NoFile
    /\ goodFiles = {i \in 1 .. Len(history) : i > 1}
    /\ cleared = 0
    /\ command = [status |-> "none", todo |-> {}]
    /\ pc = "idle" /\ job = NoJob
    /\ journal = [after |-> 0, files |-> {}, targets |-> {}]
    /\ sent = [import |-> 0, cleanup |-> 0]
    /\ raced = {} /\ changes = 0

ImportNext ==
    \/ Submission \/ Reconciliation \/ Abort \/ Refused
    \/ Arr \/ Surroundings \/ Die \/ Restart

ImportSpec == ImportInit /\ [][ImportNext]_importVars

-----------------------------------------------------------------------------
(* Correctness. *)

ImportTypeOK ==
    /\ TypeOK
    /\ rows \in [Episodes \cup {Elsewhere} -> RowStates]
    /\ listed \subseteq Sources /\ good \subseteq Sources
    /\ history \in Seq(Event) /\ Len(history) <= MaxHistory
    /\ library \in [Episodes -> 0 .. Len(history)] /\ goodFiles \subseteq 1 .. Len(history)
    /\ cleared \in 0 .. Len(history)
    /\ command \in [status : {"none", "running", "done"}, todo : SUBSET Sources]
    /\ pc \in {"idle"} \cup Submitting \cup Reconciling
    /\ job.targets \subseteq Episodes /\ job.selected \subseteq job.listed
    /\ job.checked \subseteq Sources /\ job.after \in 0 .. Len(history)
    /\ \A s \in DOMAIN job.files : job.files[s] \in journal.after + 1 .. Len(history)
    /\ journal \in [after : 0 .. Len(history), files : SUBSET Sources, targets : SUBSET Episodes]
    /\ sent \in [import : Nat, cleanup : Nat]
    /\ raced \subseteq (DOMAIN Windows) \X (Episodes \cup Sources \cup {Elsewhere})
    /\ changes \in 0 .. MaxChanges

\* "An uncertain import is never resubmitted automatically.  An uncertain
\* residual queue removal is also never replayed": whatever answers, saves and
\* processes were lost, each request is sent once.
ImportedOnce == sent.import <= 1 /\ sent.cleanup <= 1

\* "Existing library files are never selected for replacement", subtitles pass
\* and nobody else uses the download: what is submitted was so at the last look
\* and is so still, unless it changed in between.
ImportJudged ==
    [][sent'.import > sent.import =>
          /\ \A s \in job.selected :
                /\ s \in good \/ <<"sources", s>> \in raced
                /\ \A e \in Carries[s] : e \in Missing \/ <<"targets", e>> \in raced
          /\ \A r \in DOMAIN rows : rows[r] # "active" \/ <<"group", r>> \in raced]_importVars

LeftItsFile(s) ==
    \E i \in journal.after + 1 .. Len(history) :
        /\ history[i].source = s
        /\ \A e \in Carries[s] : \/ library[e] = i /\ i \in goodFiles
                                 \/ <<"verified", e>> \in raced

\* "Completion requires new matching import history, correct current library
\* file/episode assignments, and successful subtitle validation": a completed
\* import left every file it was submitted for in the library, imported after
\* the submission was journalled or, by somebody's hand, just before.
CompletedIsVerified ==
    [][pc = "finish" /\ ImportKey \in mem'.completed =>
          \A s \in journal.files : LeftItsFile(s)]_importVars

\* "Guard removes it only after ... confirming all pack targets have managed
\* files": the download is deleted only when each of its episodes has a file
\* and no row, in whichever instance, still lives on it, unless that changed
\* after the last look.
CleanupHarmless ==
    [][sent'.cleanup > sent.cleanup =>
          /\ \A e \in Missing : <<"needed", e>> \in raced
          /\ \A r \in DOMAIN rows : rows[r] # "active" \/ <<"residual", r>> \in raced]_importVars

\* A journal without history is refused by the loader of the next process
\* ("invalid manual import journal"): none is written.
JournalLoads == Loads

\* Whatever Arr lists, and whichever episodes come and go meanwhile, a submission
\* carries each target once and no other episode.
JournalCovers == Journalled => CarriedOnce
-----------------------------------------------------------------------------
(* The promise to Arr. *)

\* What the file says of the import, whoever reads it: the last request that was
\* announced.
Stand(s) ==
    IF ImportKey \in Pending(s)
    THEN IF s.operations[ImportKey].phase = "manual-import-cleanup-requested"
         THEN "cleanup" ELSE "import"
    ELSE IF ImportKey \in s.completed THEN "closed" ELSE "none"

\* Whether the files were imported is seen in history and library; whether the
\* row was removed is not.
Ledger == INSTANCE RequestLedger WITH
    Owners <- {ImportKey}, Asks <- {"import", "cleanup"}, Evident <- {"import"},
    Follows <- {<<"import", "cleanup">>},
    announced <- [k \in {ImportKey} |-> Stand(disk)], asked <- [k \in {ImportKey} |-> sent]

\* The guard and the file together are a ledger: the import is announced before it
\* is sent, what it leaves behind is removed after it, both are sent once, and an
\* uncertain removal is never closed.
AsksInOrder == Ledger!LedgerSpec
=============================================================================
