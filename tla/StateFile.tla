----------------------------- MODULE StateFile -----------------------------
(***************************************************************************)
(* How one save reaches the disk: guard/state.go (updateLocked, saveLocked, *)
(* writeFileAtomic), lock_unix.go (lockStateFile, replaceStateFile) and    *)
(* safety.go (openServiceState, Bind), one system call per step.           *)
(*                                                                         *)
(* A new file is written next to the old one, flushed, renamed over it,    *)
(* and the directory is flushed.  Any call may fail; a process may die and *)
(* the machine may lose power between any two calls.  Until a file is      *)
(* flushed a power loss may tear it, and until the directory is flushed it *)
(* may bring the former file back.                                         *)
(*                                                                         *)
(* Several processes may be started on one state file.  The dry run loads  *)
(* the file without the lock, at any moment.                               *)
(***************************************************************************)
CONSTANTS
    Processes,
    NoProcess,
    Contents,      \* states a file may hold; a missing file holds the empty one
    NoContent,
    Torn,          \* part of a state: LoadStateStore cannot decode it
    Bound          \* content |-> the content Bind saves when it was loaded

ASSUME FileAssumption ==
    /\ NoProcess \notin Processes
    /\ Torn \notin Contents /\ NoContent \notin Contents
    /\ Bound \in [Contents -> Contents]

VARIABLES
    \* the file system
    lock,       \* the process that holds the flock
    path,       \* the file the state path names
    survivors,  \* the files it may name after a power loss
    \* the processes
    stage,
    serving,    \* processes whose Bind has returned without error
    state,      \* StateStore.state
    previous,   \* local variable of updateLocked
    writeErr,   \* processes whose StateStore.writeErr is set
    temp        \* the temporary file of the save under way

fsVars == <<lock, path, survivors>>
processVars == <<stage, serving, state, previous, writeErr, temp>>
fileVars == <<fsVars, processVars>>

File == [data : Contents \cup {Torn}, synced : BOOLEAN]
NoFile == [data |-> Torn, synced |-> FALSE]

\* Stages of updateLocked, each named for the call it makes next.
Saving == {"create", "write", "sync", "rename", "flush"}

Goto(p, next) == stage' = [stage EXCEPT ![p] = next]

\* The process ends, or NewService closes the store and gives up: the kernel
\* drops the lock.  A temporary file it leaves behind is never read again.
Gone(p) ==
    /\ lock' = IF lock = p THEN NoProcess ELSE lock
    /\ Goto(p, "off")
    /\ serving' = serving \ {p}
    /\ state' = [state EXCEPT ![p] = NoContent]
    /\ previous' = [previous EXCEPT ![p] = NoContent]
    /\ writeErr' = writeErr \ {p}
    /\ temp' = [temp EXCEPT ![p] = NoFile]

-----------------------------------------------------------------------------
(* Starting. *)

\* Mutant: the lock is not asked for.
LockRegardless(p) ==
    /\ stage[p] = "off"
    /\ lock' = p
    /\ Goto(p, "load")
    /\ UNCHANGED <<path, survivors, serving, state, previous, writeErr, temp>>

\* flock with LOCK_NB: a process that does not get it gives up at once.
Lock(p) ==
    /\ stage[p] = "off"
    /\ lock = NoProcess
    /\ lock' = p
    /\ Goto(p, "load")
    /\ UNCHANGED <<path, survivors, serving, state, previous, writeErr, temp>>

Load(p) ==
    /\ stage[p] = "load"
    /\ path.data # Torn
    /\ state' = [state EXCEPT ![p] = path.data]
    /\ Goto(p, "bind")
    /\ UNCHANGED <<fsVars, serving, previous, writeErr, temp>>

\* The file cannot be read or decoded, or belongs to another Arr server.
Refuse(p) ==
    /\ stage[p] \in {"load", "bind"}
    /\ Gone(p)
    /\ UNCHANGED <<path, survivors>>

-----------------------------------------------------------------------------
(* One save.  The store's mutex is held from Update to the end.            *)

Begins(p, next) ==
    /\ previous' = [previous EXCEPT ![p] = state[p]]
    /\ state' = [state EXCEPT ![p] = next]
    /\ Goto(p, "create")
    /\ UNCHANGED <<fsVars, serving, writeErr, temp>>

Bind(p) == stage[p] = "bind" /\ Begins(p, Bound[state[p]])

Update(p, next) == stage[p] = "idle" /\ p \notin writeErr /\ Begins(p, next)

CreateTemp(p) ==
    /\ stage[p] = "create"
    /\ temp' = [temp EXCEPT ![p] = NoFile]
    /\ Goto(p, "write")
    /\ UNCHANGED <<fsVars, serving, state, previous, writeErr>>

WriteTemp(p) ==
    /\ stage[p] = "write"
    /\ temp' = [temp EXCEPT ![p] = [data |-> state[p], synced |-> FALSE]]
    /\ Goto(p, "sync")
    /\ UNCHANGED <<fsVars, serving, state, previous, writeErr>>

\* Mutant: the file is renamed before it is flushed.
SyncNothing(p) ==
    /\ stage[p] = "sync"
    /\ Goto(p, "rename")
    /\ UNCHANGED <<fsVars, serving, state, previous, writeErr, temp>>

SyncTemp(p) ==
    /\ stage[p] = "sync"
    /\ temp' = [temp EXCEPT ![p].synced = TRUE]
    /\ Goto(p, "rename")
    /\ UNCHANGED <<fsVars, serving, state, previous, writeErr>>

RenameTemp(p) ==
    /\ stage[p] = "rename"
    /\ path' = temp[p]
    /\ survivors' = survivors \cup {temp[p]}
    /\ temp' = [temp EXCEPT ![p] = NoFile]
    /\ Goto(p, "flush")
    /\ UNCHANGED <<lock, serving, state, previous, writeErr>>

\* updateLocked returns nil.
Returned(p) ==
    /\ Goto(p, "idle")
    /\ serving' = serving \cup {p}
    /\ previous' = [previous EXCEPT ![p] = NoContent]
    /\ UNCHANGED <<lock, path, state, writeErr, temp>>

\* Mutant: the directory is not flushed.
FlushNothing(p) == stage[p] = "flush" /\ Returned(p) /\ UNCHANGED survivors

FlushDirectory(p) ==
    /\ stage[p] = "flush"
    /\ survivors' = {path}
    /\ Returned(p)

\* A call fails.  The temporary file is removed, memory goes back to the
\* previous state and every later update is refused; NewService does not even
\* start with a store whose Bind failed.
SaveFails(p) ==
    /\ stage[p] \in Saving
    /\ \/ /\ p \in serving
          /\ state' = [state EXCEPT ![p] = previous[p]]
          /\ writeErr' = writeErr \cup {p}
          /\ previous' = [previous EXCEPT ![p] = NoContent]
          /\ temp' = [temp EXCEPT ![p] = NoFile]
          /\ Goto(p, "idle")
          /\ UNCHANGED <<lock, serving>>
       \/ p \notin serving /\ Gone(p)
    /\ UNCHANGED <<path, survivors>>

-----------------------------------------------------------------------------
(* Faults. *)

Die(p) ==
    /\ stage[p] # "off"
    /\ Gone(p)
    /\ UNCHANGED <<path, survivors>>

\* What is left of a file after a power loss.
Remains(f) ==
    IF f.synced THEN {f} ELSE {[data |-> d, synced |-> TRUE] : d \in {f.data, Torn}}

PowerLoss ==
    /\ \E f \in survivors : path' \in Remains(f)
    /\ survivors' = {path'}
    /\ lock' = NoProcess
    /\ stage' = [p \in Processes |-> "off"]
    /\ serving' = {}
    /\ state' = [p \in Processes |-> NoContent]
    /\ previous' = [p \in Processes |-> NoContent]
    /\ writeErr' = {}
    /\ temp' = [p \in Processes |-> NoFile]

FileInit ==
    /\ lock = NoProcess
    /\ \E c \in Contents : path = [data |-> c, synced |-> TRUE]
    /\ survivors = {path}
    /\ stage = [p \in Processes |-> "off"]
    /\ serving = {}
    /\ state = [p \in Processes |-> NoContent]
    /\ previous = [p \in Processes |-> NoContent]
    /\ writeErr = {}
    /\ temp = [p \in Processes |-> NoFile]

Save(p) ==
    \/ CreateTemp(p) \/ WriteTemp(p) \/ SyncTemp(p)
    \/ RenameTemp(p) \/ FlushDirectory(p) \/ SaveFails(p)

FileNext ==
    \/ \E p \in Processes :
          \/ Lock(p) \/ Load(p) \/ Refuse(p) \/ Bind(p)
          \/ \E next \in Contents : Update(p, next)
          \/ Save(p)
          \/ Die(p)
    \/ PowerLoss

FileSpec == FileInit /\ [][FileNext]_fileVars

-----------------------------------------------------------------------------
(* Correctness. *)

FileTypeOK ==
    /\ lock \in Processes \cup {NoProcess}
    /\ path \in File /\ survivors \subseteq File
    /\ stage \in [Processes -> {"off", "load", "bind", "idle"} \cup Saving]
    /\ serving \subseteq Processes /\ writeErr \subseteq Processes
    /\ state \in [Processes -> Contents \cup {NoContent}]
    /\ previous \in [Processes -> Contents \cup {NoContent}]
    /\ temp \in [Processes -> File]

\* "Readers see either the old JSON or the new JSON, never a partially written
\* document": not in the middle of a save, and not after a power loss in the
\* middle of a save.
WholeFile == path.data # Torn

\* The process that may change the file, and the state its callers see.
Open == lock \in serving
Visible ==
    IF ~Open THEN NoContent
    ELSE IF stage[lock] \in Saving THEN previous[lock] ELSE state[lock]

Promise == INSTANCE AcknowledgedState WITH
    open <- Open,
    mem <- Visible,
    candidates <- {f.data : f \in survivors},
    writeErr <- lock \in writeErr

\* A start meets the last acknowledged state or a later one, and what a save
\* or a start without error wrote is all that is left, whatever call of whatever
\* process failed or was cut off before: the system calls keep the promise.
KeepsPromise == Promise!AcknowledgedSpec
=============================================================================
