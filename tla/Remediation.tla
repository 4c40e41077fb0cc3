---------------------------- MODULE Remediation ----------------------------
(***************************************************************************)
(* The media worker: a file whose subtitles failed validation is deleted,  *)
(* its download is failed in Arr, and a replacement is searched for        *)
(* (guard/remediation.go, guard/safety.go).                                *)
(*                                                                         *)
(* Workers probe files concurrently and then take mutationMu for the       *)
(* preflight and all mutations.  Arr, the user and the file system change  *)
(* between any two steps; a request may fail, or succeed and lose its      *)
(* answer; a save may fail; the process may die anywhere.  Any worker may  *)
(* take up any file at any time, which covers webhooks, redeliveries,      *)
(* retries and scans.                                                      *)
(*                                                                         *)
(* This is Sonarr: an element of RetryKeys is an episode.  Radarr takes the *)
(* same steps with one movie per file, without the check of the mapping.   *)
(***************************************************************************)
EXTENDS StateStore

CONSTANTS
    Kind,          \* the Arr instance the files belong to
    Files,         \* media file IDs; also the key of a file's operation
    NoFile,
    FileSubject,   \* the series or movie of a file
    FileDownload,  \* the download its import history names, or NoDownload
    Pack,          \* the episodes a download has queue rows for
    FirstFiles,    \* episode |-> its file when the guard is deployed, or NoFile
    Workers,
    NoWorker,
    MaxAttempts,   \* config MAX_ATTEMPTS
    MaxChanges     \* bound on what Arr and the user change

Episodes == RetryKeys \ Legacy

ASSUME MediaAssumption ==
    /\ Kind \in Kinds
    /\ Files \subseteq Keys
    /\ NoFile \notin Files
    /\ NoWorker \notin Workers
    /\ FileSubject \in [Files -> Subjects]
    /\ FileDownload \in [Files -> Downloads \cup {NoDownload}]
    /\ Pack \in [Downloads -> SUBSET Episodes]
    /\ FirstFiles \in [Episodes -> Files \cup {NoFile}]
    /\ MaxAttempts \in Nat
    /\ MaxChanges \in Nat

VARIABLES
    \* Arr and the file system
    present,      \* files Arr knows
    used,         \* file IDs Arr has given out; it never reuses one
    holder,       \* episode |-> its file
    content,      \* what a probe of the file finds, "good" or "bad"
    origin,       \* download |-> where Arr has it
    auto,         \* effective "redownload failed" policy of AutomaticHistorySearch
    \* the guard's process
    pc,           \* where each worker is
    job,          \* its local variables
    mutex,        \* owner of mutationMu
    \* history and bounds
    sent,         \* file |-> how often each request was sent for its operation
    arrSearched,  \* files whose failed download made Arr search by itself
    lostBy,       \* episode |-> the file whose deletion left it without a file
    spent,        \* episode |-> deletions charged to it since its last reset
    raced,        \* what changed after the last read that could notice it
    changes

arrVars == <<present, used, holder, content, origin, auto>>
guardVars == <<pc, job, mutex>>
historyVars == <<sent, arrSearched, lostBy, spent, raced>>
storeVars == vars
mediaVars == <<storeVars, arrVars, guardVars, historyVars, changes>>

Contents == {"good", "bad"}
Requested == {"delete", "fail", "search"}
OriginStates == {"importing", "imported", "history", "failed"}

\* Stages in which a worker reads, sends a request, or saves the journal.
Reads == {"checking", "origin", "prepare", "recheck", "remap", "refresh", "reread", "targets"}
Sends == {"delete", "fail", "send"}
Saves == {"resetting", "begin", "deleted", "record", "failed", "search", "finish"}
Locked == Reads \cup Sends \cup Saves

NoJob == [file |-> NoFile, seen |-> "good", ids |-> {}, download |-> NoDownload,
          via |-> "none", automatic |-> FALSE]

Assigned(f) == {e \in Episodes : holder[e] = f}

RequestFor(f, download) ==
    [key |-> f, kind |-> Kind, subject |-> FileSubject[f], download |-> download]

\* Both requests a worker may begin for a file are among those of the store.
ASSUME MediaRequests ==
    \A f \in Files : RequestFor(f, FileDownload[f]) \in Requests
                     /\ RequestFor(f, NoDownload) \in Requests

-----------------------------------------------------------------------------
(* Control of a worker. *)

Goto(w, stage, locals) ==
    /\ pc' = [pc EXCEPT ![w] = stage]
    /\ job' = [job EXCEPT ![w] = locals]
    /\ UNCHANGED mutex

\* Mutant: mutationMu stays locked.
LeaveLocked(w) ==
    /\ pc' = [pc EXCEPT ![w] = "idle"]
    /\ job' = [job EXCEPT ![w] = NoJob]
    /\ UNCHANGED mutex

\* Return from applyValidation: the deferred Unlock runs.
Leave(w) ==
    /\ pc' = [pc EXCEPT ![w] = "idle"]
    /\ job' = [job EXCEPT ![w] = NoJob]
    /\ mutex' = IF mutex = w THEN NoWorker ELSE mutex

\* After a save: go on, or return its error.
AfterSave(w, stage, locals) ==
    IF writeErr' THEN Leave(w) ELSE Goto(w, stage, locals)

\* A read fails, or the job's context is cancelled before it takes the lock:
\* the worker returns an error.
Abort(w) ==
    /\ pc[w] \in Reads \cup {"probed"}
    /\ Leave(w)
    /\ UNCHANGED <<storeVars, arrVars, historyVars, changes>>

\* A save is refused because an earlier one failed.
Refused(w) ==
    /\ pc[w] \in Saves /\ writeErr
    /\ Leave(w)
    /\ UNCHANGED <<storeVars, arrVars, historyVars, changes>>

\* Requests: sent once, applied by Arr or not, answered or not.  Only an
\* applied request is acknowledged.
Send(f, request) == sent' = [sent EXCEPT ![f][request] = @ + 1]

AfterSend(w, acked, stage) ==
    IF acked THEN Goto(w, stage, job[w]) ELSE Leave(w)

-----------------------------------------------------------------------------
(* The preflight. *)

\* auditFile: validate runs outside mutationMu.
Probe(w, f) ==
    /\ open /\ clients[Kind] # NoServer
    /\ pc[w] = "idle"
    /\ f \in present
    /\ Goto(w, "probed", [NoJob EXCEPT !.file = f, !.seen = content[f]])
    /\ UNCHANGED <<storeVars, arrVars, historyVars, changes>>

Enter(w) ==
    /\ pc[w] = "probed"
    /\ mutex = NoWorker
    /\ mutex' = w
    /\ pc' = [pc EXCEPT ![w] = "checking"]
    /\ UNCHANGED <<job, storeVars, arrVars, historyVars, changes>>

\* sameMedia, os.SameFile and the subtitle snapshot: what was probed is there.
Unchanged(w) ==
    /\ job[w].file \in present
    /\ content[job[w].file] = job[w].seen

\* Mutant: one episode with an attempt left lets the others through.
AllExhausted(ids) == \A e \in ids : mem.attempts[e] >= MaxAttempts

Exhausted(ids) == \E e \in ids : mem.attempts[e] >= MaxAttempts

\* A valid file clears its counters; a bad one goes on while each of its
\* episodes has an attempt left.
Check(w) ==
    LET ids == Assigned(job[w].file)
    IN  /\ pc[w] = "checking"
        /\ IF Unchanged(w) /\ ids # {}
           THEN IF job[w].seen = "good"
                THEN Goto(w, "resetting", [job[w] EXCEPT !.ids = ids])
                ELSE IF MaxAttempts < 1 \/ Exhausted(ids)
                     THEN Leave(w)
                     ELSE Goto(w, "origin", [job[w] EXCEPT !.ids = ids])
           ELSE Leave(w)
        /\ UNCHANGED <<storeVars, arrVars, historyVars, changes>>

\* One round of the loop over the keys; Reset of an absent key saves nothing.
ResetOne(w) ==
    /\ pc[w] = "resetting"
    /\ \E e \in job[w].ids :
          LET rest == [job[w] EXCEPT !.ids = @ \ {e}]
          IN  \/ /\ mem.attempts[e] = 0
                 /\ Goto(w, "resetting", rest)
                 /\ UNCHANGED <<storeVars, spent>>
              \/ /\ Reset(e)
                 /\ AfterSave(w, "resetting", rest)
                 /\ spent' = [spent EXCEPT ![e] = 0]
    /\ UNCHANGED <<arrVars, sent, arrSearched, lostBy, raced, changes>>

ResetDone(w) ==
    /\ pc[w] = "resetting" /\ job[w].ids = {}
    /\ Leave(w)
    /\ UNCHANGED <<storeVars, arrVars, historyVars, changes>>

\* findOrigin: the import history of the file may not be visible.
FindOrigin(w) ==
    /\ pc[w] = "origin"
    /\ \E download \in {FileDownload[job[w].file], NoDownload} :
          Goto(w, "prepare", [job[w] EXCEPT !.download = download])
    /\ UNCHANGED <<storeVars, arrVars, historyVars, changes>>

\* prepareOrigin: how the download is to be failed, if at all; not while it is
\* being imported or an episode of it is missing.
PrepareOrigin(w) ==
    LET d == job[w].download
    IN  /\ pc[w] = "prepare"
        /\ \/ /\ d # NoDownload
              /\ \/ origin[d] = "importing"
                 \/ origin[d] = "imported" /\ \E e \in Pack[d] : holder[e] = NoFile
              /\ Leave(w)
           \/ /\ d = NoDownload \/ (d # NoDownload /\ origin[d] = "failed")
              /\ Goto(w, "recheck", job[w])
           \/ /\ d # NoDownload
              /\ origin[d] = "imported"
              /\ \A e \in Pack[d] : holder[e] # NoFile
              /\ Goto(w, "recheck", [job[w] EXCEPT !.via = "queue"])
           \/ /\ d # NoDownload
              /\ origin[d] = "history"
              /\ Goto(w, "recheck", [job[w] EXCEPT !.via = "history", !.automatic = auto])
        /\ UNCHANGED <<storeVars, arrVars, historyVars, changes>>

\* Mutant: the file is not compared again.
RecheckNothing(w) ==
    /\ pc[w] = "recheck"
    /\ Goto(w, "remap", job[w])
    /\ UNCHANGED <<storeVars, arrVars, historyVars, changes>>

\* The second look at the Arr resource and the local file ...
Recheck(w) ==
    /\ pc[w] = "recheck"
    /\ IF Unchanged(w) THEN Goto(w, "remap", job[w]) ELSE Leave(w)
    /\ UNCHANGED <<storeVars, arrVars, historyVars, changes>>

\* ... and at the episodes that share the file.
Remap(w) ==
    /\ pc[w] = "remap"
    /\ IF Assigned(job[w].file) = job[w].ids THEN Goto(w, "begin", job[w]) ELSE Leave(w)
    /\ UNCHANGED <<storeVars, arrVars, historyVars, changes>>

-----------------------------------------------------------------------------
(* The operation. *)

BeginOperation(w) ==
    LET f == job[w].file
        r == RequestFor(f, job[w].download)
    IN  /\ pc[w] = "begin"
        /\ \E attempt \in 0 .. MaxInt :
              Begin(r, "delete-requested", job[w].automatic, "none", job[w].ids, attempt)
        /\ AfterSave(w, "delete", job[w])
        /\ UNCHANGED <<arrVars, historyVars, changes>>

\* Begin starts nothing: the key is completed, or the operation is fenced.
NotBegun(w) ==
    LET r == RequestFor(job[w].file, job[w].download)
    IN  /\ pc[w] = "begin"
        /\ \/ AlreadyDone(r.key)
           \/ Fenced(NewOperation(r, "delete-requested", job[w].automatic, "none"))
        /\ Leave(w)
        /\ UNCHANGED <<storeVars, arrVars, historyVars, changes>>

\* Arr deletes the file: its episodes are missing.
FileDeleted(f) ==
    /\ present' = present \ {f}
    /\ holder' = [e \in Episodes |-> IF holder[e] = f THEN NoFile ELSE holder[e]]
    /\ UNCHANGED <<used, content, origin, auto>>

DeleteFile(w) ==
    LET f == job[w].file
    IN  /\ pc[w] = "delete"
        /\ Send(f, "delete")
        /\ spent' = [e \in Episodes |-> IF e \in job[w].ids THEN spent[e] + 1 ELSE spent[e]]
        /\ \/ /\ f \in present
              /\ FileDeleted(f)
              /\ lostBy' = [e \in Episodes |-> IF holder[e] = f THEN f ELSE lostBy[e]]
              /\ \E acked \in BOOLEAN : AfterSend(w, acked, "deleted")
           \/ /\ UNCHANGED <<arrVars, lostBy>>
              /\ AfterSend(w, FALSE, "deleted")
        /\ UNCHANGED <<storeVars, arrSearched, raced, changes>>

RecordDeleted(w) ==
    /\ pc[w] = "deleted"
    /\ Phase(job[w].file, "deleted")
    /\ AfterSave(w, CASE job[w].via = "none"    -> "targets"
                      [] job[w].via = "queue"   -> "record"
                      [] job[w].via = "history" -> "refresh", job[w])
    /\ UNCHANGED <<arrVars, historyVars, changes>>

\* Mutant: the decision made before the deletion stands.
RefreshNothing(w) ==
    /\ pc[w] = "refresh"
    /\ Goto(w, "record", job[w])
    /\ UNCHANGED <<storeVars, arrVars, historyVars, changes>>

\* Settings may have changed during the deletion: the latest policy counts.
RefreshPolicy(w) ==
    /\ pc[w] = "refresh"
    /\ Goto(w, "record", [job[w] EXCEPT !.automatic = auto])
    /\ UNCHANGED <<storeVars, arrVars, historyVars, changes>>

RecordOrigin(w) ==
    /\ pc[w] = "record"
    /\ OriginRequested(job[w].file, job[w].automatic)
    /\ AfterSave(w, IF job[w].via = "queue" THEN "reread" ELSE "fail", job[w])
    /\ UNCHANGED <<arrVars, historyVars, changes>>

\* applyOrigin reads the queue again before it removes the row.
RereadQueue(w) ==
    /\ pc[w] = "reread"
    /\ IF origin[job[w].download] = "imported" THEN Goto(w, "fail", job[w]) ELSE Leave(w)
    /\ UNCHANGED <<storeVars, arrVars, historyVars, changes>>

\* FailQueueItem tells Arr not to search (skipRedownload); the history endpoint
\* has no such option and follows Arr's policy at that moment.
FailOrigin(w) ==
    LET f == job[w].file
        d == job[w].download
    IN  /\ pc[w] = "fail"
        /\ Send(f, "fail")
        /\ \/ /\ job[w].via = "queue" => origin[d] = "imported"
              /\ origin' = [origin EXCEPT ![d] = "failed"]
              /\ arrSearched' = IF job[w].via = "history" /\ auto
                                THEN arrSearched \cup {f} ELSE arrSearched
              /\ \E acked \in BOOLEAN : AfterSend(w, acked, "failed")
           \/ /\ UNCHANGED <<origin, arrSearched>>
              /\ AfterSend(w, FALSE, "failed")
        /\ UNCHANGED <<storeVars, present, used, holder, content, auto, lostBy, spent, raced,
                       changes>>

\* Mutant: Arr is trusted to search whenever its history was marked.
RecordFailedUnsearched(w) ==
    /\ pc[w] = "failed"
    /\ Phase(job[w].file, "origin-complete")
    /\ AfterSave(w, IF job[w].via = "history" THEN "finish" ELSE "targets", job[w])
    /\ UNCHANGED <<arrVars, historyVars, changes>>

RecordFailed(w) ==
    /\ pc[w] = "failed"
    /\ Phase(job[w].file, "origin-complete")
    /\ AfterSave(w, IF job[w].automatic THEN "finish" ELSE "targets", job[w])
    /\ UNCHANGED <<arrVars, historyVars, changes>>

\* Mutant: the search is sent before it is recorded.
ReadTargetsUnrecorded(w) ==
    LET missing == {e \in job[w].ids : holder[e] = NoFile}
    IN  /\ pc[w] = "targets"
        /\ IF missing = {} THEN Goto(w, "finish", job[w])
           ELSE Goto(w, "send", [job[w] EXCEPT !.ids = missing])
        /\ UNCHANGED <<storeVars, arrVars, historyVars, changes>>

\* remainingSearchTargets: nothing to search for once replacements arrived.
ReadTargets(w) ==
    LET missing == {e \in job[w].ids : holder[e] = NoFile}
    IN  /\ pc[w] = "targets"
        /\ IF missing = {} THEN Goto(w, "finish", job[w])
           ELSE Goto(w, "search", [job[w] EXCEPT !.ids = missing])
        /\ UNCHANGED <<storeVars, arrVars, historyVars, changes>>

RecordSearch(w) ==
    /\ pc[w] = "search"
    /\ SearchRequested(job[w].file)
    /\ AfterSave(w, "send", job[w])
    /\ UNCHANGED <<arrVars, historyVars, changes>>

SendSearch(w) ==
    /\ pc[w] = "send"
    /\ Send(job[w].file, "search")
    /\ \E acked \in BOOLEAN : AfterSend(w, acked, "finish")
    /\ UNCHANGED <<storeVars, arrVars, arrSearched, lostBy, spent, raced, changes>>

Finish(w) ==
    /\ pc[w] = "finish"
    /\ Complete(job[w].file)
    /\ Leave(w)
    /\ UNCHANGED <<arrVars, historyVars, changes>>

\* Everything a worker does once it has taken up a file.
Progress(w) ==
    \/ Enter(w) \/ Check(w) \/ ResetOne(w) \/ ResetDone(w)
    \/ FindOrigin(w) \/ PrepareOrigin(w) \/ Recheck(w) \/ Remap(w)
    \/ BeginOperation(w) \/ NotBegun(w)
    \/ DeleteFile(w) \/ RecordDeleted(w)
    \/ RefreshPolicy(w) \/ RecordOrigin(w) \/ RereadQueue(w)
    \/ FailOrigin(w) \/ RecordFailed(w)
    \/ ReadTargets(w) \/ RecordSearch(w) \/ SendSearch(w)
    \/ Finish(w) \/ Refused(w)

Step(w) == (\E f \in Files : Probe(w, f)) \/ Progress(w) \/ Abort(w)

-----------------------------------------------------------------------------
(* Everyone else: Arr, the user, the file system, other goroutines.        *)

Change == changes < MaxChanges /\ changes' = changes + 1

\* The windows in which a change can no longer be noticed: from the last look
\* at the file to its deletion, and from the last look at the policy to the
\* request that depends on it.
Unwatched(what, stages) == {<<what, job[w].file>> : w \in {v \in Workers : pc[v] \in stages}}
FileRaces == Unwatched("file", {"remap", "begin", "delete"})
MappingRaces == Unwatched("mapping", {"begin", "delete"})
PolicyRaces == Unwatched("policy", {"record", "fail"})

\* A file is edited, re-tagged or replaced in place.
Edit(f) ==
    /\ Change
    /\ f \in present
    /\ content' = [content EXCEPT ![f] = IF @ = "good" THEN "bad" ELSE "good"]
    /\ raced' = raced \cup {r \in FileRaces : r[2] = f}
    /\ UNCHANGED <<storeVars, guardVars, present, used, holder, origin, auto, sent, arrSearched,
                   lostBy, spent>>

\* Arr imports a new file for some episodes.  A file that loses its last
\* episode this way is replaced: Arr removes it.
Import(f, episodes) ==
    LET after == [e \in Episodes |-> IF e \in episodes THEN f ELSE holder[e]]
    IN  /\ Change
        /\ f \notin used
        /\ used' = used \cup {f}
        /\ holder' = after
        /\ present' = {f} \cup {g \in present : \E e \in Episodes : after[e] = g}
        /\ lostBy' = [e \in Episodes |-> IF e \in episodes THEN NoFile ELSE lostBy[e]]
        /\ raced' = raced \cup MappingRaces
        /\ UNCHANGED <<storeVars, guardVars, content, origin, auto, sent, arrSearched, spent>>

\* The user deletes a file.
Remove(f) ==
    /\ Change
    /\ f \in present
    /\ FileDeleted(f)
    /\ UNCHANGED <<storeVars, guardVars, historyVars>>

\* The download client finishes importing, drops the row from the queue, or
\* the download is marked failed in Arr.
MoveOrigin(d) ==
    /\ Change
    /\ \E to \in OriginStates :
          /\ <<origin[d], to>> \in {<<"importing", "imported">>, <<"imported", "history">>,
                                    <<"imported", "failed">>, <<"history", "failed">>}
          /\ origin' = [origin EXCEPT ![d] = to]
    /\ UNCHANGED <<storeVars, guardVars, historyVars, present, used, holder, content, auto>>

\* The user changes Arr's download-client settings.
SetPolicy ==
    /\ Change
    /\ auto' = ~auto
    /\ raced' = raced \cup PolicyRaces
    /\ UNCHANGED <<storeVars, guardVars, present, used, holder, content, origin, sent,
                   arrSearched, lostBy, spent>>

\* A webhook is saved to, or removed from, the same state file.
SaveOther == SaveWebhooks /\ UNCHANGED <<arrVars, guardVars, historyVars, changes>>

Die ==
    /\ Stop
    /\ pc' = [w \in Workers |-> "idle"]
    /\ job' = [w \in Workers |-> NoJob]
    /\ mutex' = NoWorker
    /\ UNCHANGED <<arrVars, historyVars, changes>>

Restart ==
    /\ \E configured \in Bindings : Start(configured)
    /\ UNCHANGED <<arrVars, guardVars, historyVars, changes>>

Surroundings ==
    \/ \E f \in Files : Edit(f) \/ Remove(f)
    \/ \E f \in Files, episodes \in SUBSET Episodes : episodes # {} /\ Import(f, episodes)
    \/ \E d \in Downloads : MoveOrigin(d)
    \/ SetPolicy
    \/ SaveOther

MediaInit ==
    /\ Init
    /\ present = {f \in Files : \E e \in Episodes : FirstFiles[e] = f}
    /\ used = present
    /\ holder = FirstFiles
    /\ content \in [Files -> Contents]
    /\ origin \in [Downloads -> OriginStates]
    /\ auto \in BOOLEAN
    /\ pc = [w \in Workers |-> "idle"]
    /\ job = [w \in Workers |-> NoJob]
    /\ mutex = NoWorker
    /\ sent = [f \in Files |-> [r \in Requested |-> 0]]
    /\ arrSearched = {}
    /\ lostBy = [e \in Episodes |-> NoFile]
    /\ spent = [e \in Episodes |-> 0]
    /\ raced = {}
    /\ changes = 0

MediaNext ==
    \/ \E w \in Workers : Step(w)
    \/ Surroundings
    \/ Die
    \/ Restart

MediaSpec == MediaInit /\ [][MediaNext]_mediaVars

-----------------------------------------------------------------------------
(* Correctness. *)

MediaTypeOK ==
    /\ TypeOK
    /\ present \subseteq Files /\ used \subseteq Files
    /\ holder \in [Episodes -> Files \cup {NoFile}]
    /\ content \in [Files -> Contents]
    /\ origin \in [Downloads -> OriginStates]
    /\ auto \in BOOLEAN
    /\ pc \in [Workers -> {"idle", "probed"} \cup Locked]
    /\ job \in [Workers -> [file : Files \cup {NoFile}, seen : Contents,
                            ids : SUBSET Episodes, download : Downloads \cup {NoDownload},
                            via : {"none", "queue", "history"}, automatic : BOOLEAN]]
    /\ mutex \in Workers \cup {NoWorker}
    /\ sent \in [Files -> [Requested -> Nat]]
    /\ arrSearched \subseteq Files
    /\ lostBy \in [Episodes -> Files \cup {NoFile}]
    /\ spent \in [Episodes -> Nat]
    /\ raced \subseteq {"file", "mapping", "policy"} \X (Files \cup {NoFile})
    /\ changes \in 0 .. MaxChanges

\* "Not permission to replay a non-idempotent request after restart": whatever
\* is lost, retried, redelivered or restarted, each request of an operation is
\* sent at most once, ever.
OnceOnly == \A f \in Files, r \in Requested : sent[f][r] <= 1

\* "A phase is persisted BEFORE its network mutation": a request leaves only
\* while the file on disk says that exactly this request is outstanding, so a
\* crash at any point leaves a truthful journal.
Journalled(f, request) ==
    /\ f \in Pending(disk)
    /\ disk.operations[f].phase = CASE request = "delete" -> "delete-requested"
                                    [] request = "fail"   -> "origin-requested"
                                    [] request = "search" -> "search-requested"

PersistedBefore ==
    [][\A f \in Files, r \in Requested : sent'[f][r] > sent[f][r] => Journalled(f, r)]_mediaVars

\* "Never duplicate the search when Arr owns automatic recovery": Arr and the
\* guard both search for one operation only if the policy was changed between
\* the guard's last look at it and the request.
NoDoubleSearch ==
    \A f \in arrSearched : sent[f]["search"] > 0 => <<"policy", f>> \in raced

\* A file is deleted only if what Arr and the disk hold at that moment is what
\* was probed and found bad, and every episode that shares the file has been
\* charged, unless that changed after the last look at it.
JudgedBefore ==
    [][\A w \in Workers, f \in Files :
          sent'[f]["delete"] > sent[f]["delete"] /\ pc[w] = "delete" /\ f \in present =>
              /\ content[f] = "bad" \/ <<"file", f>> \in raced
              /\ Assigned(f) = job[w].ids \/ <<"mapping", f>> \in raced]_mediaVars

\* "The budget covers the entire destructive sequence": between two resets no
\* episode loses more than MaxAttempts files to the guard, however its files
\* are regrouped, replaced, or interrupted by restarts.
WithinBudget == \A e \in Episodes : spent[e] <= MaxAttempts

\* An episode whose file the guard deleted is not forgotten: while it has no
\* file, the operation is still in the journal for somebody to reconcile, or a
\* search was requested by the guard or by Arr, unless the policy or the
\* episode's file changed in an unwatched window.
NotForgotten ==
    \A e \in Episodes :
        LET f == lostBy[e]
        IN  f # NoFile /\ holder[e] = NoFile =>
                \/ f \in Pending(disk)
                \/ sent[f]["search"] > 0
                \/ f \in arrSearched
                \/ <<"policy", f>> \in raced
                \/ <<"mapping", f>> \in raced

\* Mutations are serialized: one worker at most is past the lock.
Exclusive == \A w \in Workers : pc[w] \in Locked => mutex = w

\* Fair scheduling of goroutines, Go's starvation-free mutex, and the timeout
\* of every request; no read has to fail.
MediaFairness ==
    \A w \in Workers :
        /\ SF_mediaVars(Enter(w))
        /\ WF_mediaVars(Progress(w))

FairMediaSpec == MediaSpec /\ MediaFairness

\* Workers never block each other for good: a worker that took up a file comes
\* back, whichever return, failed save or lost answer it meets on the way.
Returns == \A w \in Workers : pc[w] = "probed" ~> pc[w] = "idle"

-----------------------------------------------------------------------------
(* The promise to Arr. *)

\* The last request an operation announced.
Announces(phase) ==
    CASE phase \in {"delete-requested", "deleted"} -> "delete"
      [] phase \in {"origin-requested", "origin-complete"} -> "fail"
      [] OTHER -> "search"

\* What the file says of a media file's operation, whoever reads it.
Stand(s, f) ==
    IF f \in Pending(s) THEN Announces(s.operations[f].phase)
    ELSE IF f \in s.completed THEN "closed" ELSE "none"

Announced == [f \in Files |-> Stand(disk, f)]

Follows == {<<"delete", "fail">>, <<"delete", "search">>, <<"fail", "search">>}

Ledger == INSTANCE RequestLedger WITH
    Owners <- Files, Asks <- Requested, Follows <- Follows, Evident <- {},
    announced <- Announced, asked <- sent

\* Through crashes, restarts, lost answers and failed saves, the workers and the
\* file together are a ledger: a file is deleted before its download is failed,
\* and that before the search; each is announced first and sent once; and what
\* was announced and not sent is never closed.
AsksInOrder == Ledger!LedgerSpec
=============================================================================
