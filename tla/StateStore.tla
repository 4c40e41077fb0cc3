----------------------------- MODULE StateStore -----------------------------
(***************************************************************************)
(* guard/state.go and safety.go: the state file that keeps the retry       *)
(* counters, the journal of unfinished operations, the keys of completed   *)
(* operations and the Arr server each kind belongs to.                     *)
(*                                                                         *)
(* Callers are arbitrary here: they may begin any request of Requests and  *)
(* move any unfinished operation to any phase.  Remediation gives the      *)
(* order in which the media worker really makes these calls.               *)
(***************************************************************************)
EXTENDS Naturals, DurableState, Operations

CONSTANTS
    Servers,     \* identities of Arr servers (hash of the base URL)
    NoServer,    \* kind not configured, or not bound yet
    RetryKeys,   \* retry counters: one per episode, one per movie
    Parts,       \* legacy composite counters |-> the counters they split into
    MaxInt,      \* math.MaxInt, where a counter saturates
    NoOp         \* no journal entry under a key

Legacy == DOMAIN Parts

ASSUME StoreAssumption ==
    /\ MaxInt \in Nat \ {0}
    /\ Parts \in [Legacy -> SUBSET (RetryKeys \ Legacy)]
    /\ Legacy \subseteq RetryKeys
    /\ NoServer \notin Servers

VARIABLES
    clients,    \* the Arr server configured for each kind in this process
    begunOn     \* history: the server an operation was begun against

vars == <<durableVars, clients, begunOn>>

Operation ==
    [kind : Kinds, subject : Subjects,
     download : Downloads \cup {NoDownload}, phase : Phases,
     automatic : BOOLEAN, import : {"none", "requested", "submitted"}]

State ==
    [attempts : [RetryKeys -> 0 .. MaxInt],
     operations : [Keys -> Operation \cup {NoOp}],
     completed : SUBSET Keys,
     instances : [Kinds -> Servers \cup {NoServer}]]

ASSUME NoOpAssumption == NoOp \notin Operation

Pending(s) == {k \in Keys : s.operations[k] # NoOp}

-----------------------------------------------------------------------------
(* Loading the file and binding it to the configured servers.              *)

\* The largest element of a set of counters, 0 for no counters.
Highest(S) ==
    IF \E n \in S : \A m \in S : m <= n
    THEN CHOOSE n \in S : \A m \in S : m <= n
    ELSE 0

\* Mutant: legacy counters are dropped instead of split.
MigratedDropping(s) ==
    [s EXCEPT !.attempts = [k \in RetryKeys |-> IF k \in Legacy THEN 0 ELSE s.attempts[k]]]

\* LoadStateStore moves the count of a legacy episode combination to each of
\* its episodes, so that regrouping a release does not reset its retry cap.
Migrated(s) ==
    [s EXCEPT !.attempts = [k \in RetryKeys |->
        IF k \in Legacy THEN 0
        ELSE Highest({s.attempts[k]}
                     \cup {s.attempts[l] : l \in {m \in Legacy : k \in Parts[m]}})]]

\* Mutant: the configured server is not compared with the recorded one.
AnyServer(s, configured) == TRUE

SameServers(s, configured) ==
    \A kind \in Kinds :
        configured[kind] # NoServer => s.instances[kind] \in {NoServer, configured[kind]}

\* Mutant: a start discards the unfinished operations it finds.
BoundForgetting(s, configured) ==
    [s EXCEPT !.instances = [kind \in Kinds |->
                  IF configured[kind] # NoServer THEN configured[kind] ELSE s.instances[kind]],
              !.operations = [k \in Keys |-> NoOp]]

Bound(s, configured) ==
    [s EXCEPT !.instances = [kind \in Kinds |->
        IF configured[kind] # NoServer THEN configured[kind] ELSE s.instances[kind]]]

\* NewService: open and load the state, then Bind.
Start(configured) ==
    /\ SameServers(disk, configured)
    /\ \/ Starts(Bound(Migrated(disk), configured)) /\ clients' = configured
       \/ StartFails(Bound(Migrated(disk), configured)) /\ UNCHANGED clients
    /\ UNCHANGED begunOn

Stop ==
    /\ Crash
    /\ clients' = [kind \in Kinds |-> NoServer]
    /\ UNCHANGED begunOn

-----------------------------------------------------------------------------
(* The updates.  Each operator is the state a call builds; the actions     *)
(* below save it.                                                          *)

IsNextAttempt(s, retryKeys, attempt) ==
    \E top \in {0} \cup {s.attempts[k] : k \in retryKeys} :
        /\ \A k \in retryKeys : s.attempts[k] <= top
        /\ attempt = IF top < MaxInt THEN top + 1 ELSE top

WithAttempts(s, retryKeys, n) ==
    [s EXCEPT !.attempts = [k \in RetryKeys |->
        IF k \in retryKeys THEN n ELSE s.attempts[k]]]

\* Mutant: the journal is replaced by its newest entry.
WithOnlyOperation(s, key, op) == [s EXCEPT !.operations = [k \in {key} |-> op]]

WithOperation(s, key, op) == [s EXCEPT !.operations[key] = op]

WithPhase(s, key, phase) ==
    WithOperation(s, key, [s.operations[key] EXCEPT !.phase = phase])

WithOrigin(s, key, automatic) ==
    WithOperation(s, key, [s.operations[key] EXCEPT !.phase = "origin-requested",
                                                    !.automatic = automatic])

WithSubmittedImport(s, key) ==
    WithOperation(s, key, [s.operations[key] EXCEPT !.phase = "manual-import-submitted",
                                                    !.import = "submitted"])

WithCompletion(s, key) ==
    [WithOperation(s, key, NoOp) EXCEPT !.completed = @ \cup {key}]

NewOperation(r, phase, automatic, import) ==
    [kind |-> r.kind, subject |-> r.subject, download |-> r.download,
     phase |-> phase, automatic |-> automatic, import |-> import]

\* Mutants: completed keys are not looked up; the download is not compared.
NeverDone(key) == FALSE
FencedBySubject(op) ==
    \E k \in Pending(mem) : /\ mem.operations[k].kind = op.kind
                            /\ mem.operations[k].subject = op.subject

\* The two early returns of Begin that start nothing.
AlreadyDone(key) == key \in mem.completed
Fenced(op) == \E k \in Pending(mem) : Fences(mem.operations[k], op)

\* The state Begin saves: the journal entry and its charged counters together.
Begun(s, key, op, retryKeys, attempt) ==
    WithOperation(WithAttempts(s, retryKeys, attempt), key, op)

-----------------------------------------------------------------------------
(* One action per method that changes state.                               *)

Begin(r, phase, automatic, import, retryKeys, attempt) ==
    LET op == NewOperation(r, phase, automatic, import)
    IN  /\ clients[r.kind] # NoServer
        /\ ~AlreadyDone(r.key)
        /\ ~Fenced(op)
        /\ IsNextAttempt(mem, retryKeys, attempt)
        /\ Update(Begun(mem, r.key, op, retryKeys, attempt))
        /\ begunOn' = [begunOn EXCEPT ![r.key] = clients[r.kind]]
        /\ UNCHANGED clients

Phase(key, phase) ==
    /\ key \in Pending(mem)
    /\ Update(WithPhase(mem, key, phase))
    /\ UNCHANGED <<clients, begunOn>>

OriginRequested(key, automatic) ==
    /\ key \in Pending(mem)
    /\ Update(WithOrigin(mem, key, automatic))
    /\ UNCHANGED <<clients, begunOn>>

SearchRequested(key) ==
    /\ key \in Pending(mem)
    /\ Update(WithPhase(mem, key, "search-requested"))
    /\ UNCHANGED <<clients, begunOn>>

ImportSubmitted(key) ==
    /\ key \in Pending(mem)
    /\ mem.operations[key].import # "none"
    /\ Update(WithSubmittedImport(mem, key))
    /\ UNCHANGED <<clients, begunOn>>

\* Complete itself does not look the key up: its callers hold the operation.
Complete(key) ==
    /\ key \in Pending(mem)
    /\ Update(WithCompletion(mem, key))
    /\ UNCHANGED <<clients, begunOn>>

Reset(retryKey) ==
    /\ mem.attempts[retryKey] # 0
    /\ Update(WithAttempts(mem, {retryKey}, 0))
    /\ UNCHANGED <<clients, begunOn>>

\* AddWebhook and FinishWebhook rewrite the same file with another map changed
\* (WebhookJobs); here only their failed save matters.
SaveWebhooks ==
    /\ Update(mem)
    /\ UNCHANGED <<clients, begunOn>>

-----------------------------------------------------------------------------

Bindings == [Kinds -> Servers \cup {NoServer}]

\* The first phase each of the three callers of Begin journals an operation with,
\* and whether it carries an import.
MediaFirst   == <<"delete-requested", "none">>
RemovalFirst == <<"queue-removal-requested", "none">>
ImportFirst  == <<"manual-import-requested", "requested">>

FirstPhases == {MediaFirst, RemovalFirst, ImportFirst}

\* The phases the same callers move it to through Phase.
MediaLater   == {"deleted", "origin-complete"}
RemovalLater == {"queue-removed"}
ImportLater  == {"manual-import-cleanup-requested"}

LaterPhases == MediaLater \cup RemovalLater \cup ImportLater

\* A new file, or one an older version left behind with composite counters.
Init ==
    /\ open = FALSE
    /\ \E counts \in [RetryKeys -> 0 .. MaxInt] :
          disk = [attempts   |-> counts,
                  operations |-> [k \in Keys |-> NoOp],
                  completed  |-> {},
                  instances  |-> [kind \in Kinds |-> NoServer]]
    /\ mem = disk
    /\ writeErr = FALSE
    /\ clients = [kind \in Kinds |-> NoServer]
    /\ begunOn = [k \in Keys |-> NoServer]

BeginAny ==
    \E r \in Requests, first \in FirstPhases, automatic \in BOOLEAN,
       retryKeys \in SUBSET (RetryKeys \ Legacy), attempt \in 0 .. MaxInt :
        Begin(r, first[1], automatic, first[2], retryKeys, attempt)

Next ==
    \/ \E configured \in Bindings : Start(configured)
    \/ Stop
    \/ BeginAny
    \/ \E key \in Keys, phase \in LaterPhases : Phase(key, phase)
    \/ \E key \in Keys, automatic \in BOOLEAN : OriginRequested(key, automatic)
    \/ \E key \in Keys : SearchRequested(key)
    \/ \E key \in Keys : ImportSubmitted(key)
    \/ \E key \in Keys : Complete(key)
    \/ \E retryKey \in RetryKeys : Reset(retryKey)
    \/ SaveWebhooks

Spec == Init /\ [][Next]_vars
-----------------------------------------------------------------------------
(* Correctness. *)

TypeOK ==
    /\ open \in BOOLEAN
    /\ writeErr \in BOOLEAN
    /\ mem \in State
    /\ disk \in State
    /\ clients \in Bindings
    /\ begunOn \in [Keys -> Servers \cup {NoServer}]

\* Begin refuses an operation that shares a subject or a download with an
\* unfinished one, and restarts and failed saves keep it so: no two unfinished
\* operations of a kind ever touch the same subject or download, neither in
\* memory nor in what a restart would load.
FencesHold(s) ==
    \A j, k \in Pending(s) : j # k => ~Fences(s.operations[j], s.operations[k])

FenceUnique == FencesHold(mem) /\ FencesHold(disk)

\* Begin never reopens a completed key, so a finished sequence of mutations
\* cannot be journalled, and hence run, again.
DoneOnce ==
    /\ Pending(mem) \cap mem.completed = {}
    /\ Pending(disk) \cap disk.completed = {}

\* Bind refuses a state file of another server: an unfinished operation is only
\* ever visible to a process that talks to the server it was begun against.
ServerBound ==
    \A k \in Pending(disk) :
        LET kind == disk.operations[k].kind
        IN  /\ begunOn[k] # NoServer
            /\ open /\ clients[kind] # NoServer => clients[kind] = begunOn[k]

\* "An unfinished operation is a safety latch": no crash, failed save, restart
\* or other caller makes one disappear from the file; it leaves only by being
\* completed, and until then it keeps the identity it fences.
LatchHolds ==
    [][\A k \in Pending(disk) :
          \/ k \in disk'.completed /\ k \notin Pending(disk')
          \/ /\ k \in Pending(disk')
             /\ Fences(disk.operations[k], disk'.operations[k])
             /\ disk'.operations[k].download = disk.operations[k].download]_vars

\* A retry cap is lifted only by Reset: neither a restart (which splits legacy
\* composite counters) nor a failed save lowers the count that protects k.
Budget(s, k) ==
    Highest({s.attempts[k]} \cup {s.attempts[l] : l \in {m \in Legacy : k \in Parts[m]}})

BudgetKept ==
    [][\A k \in RetryKeys \ Legacy :
          Budget(disk', k) < Budget(disk, k) => open /\ disk'.attempts[k] = 0]_vars

\* After a failed save the store is frozen: until the restart nothing is
\* written over what the failed save may have left in place.
FrozenAfterFailure ==
    [][writeErr => /\ disk' = disk
                   /\ open' => mem' = mem]_vars

-----------------------------------------------------------------------------
(* The file, read at any moment, is an operation latch. *)

IsEntryOf(op, r) ==
    op.kind = r.kind /\ op.subject = r.subject /\ op.download = r.download

Unfinished(s) == {r \in Requests : r.key \in Pending(s) /\ IsEntryOf(s.operations[r.key], r)}

Latch == INSTANCE OperationLatch WITH
            unfinished <- Unfinished(disk),
            finished <- disk.completed

\* The store implements the latch.
ImplementsLatch == Latch!LatchSpec
=============================================================================
