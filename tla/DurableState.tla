---------------------------- MODULE DurableState ----------------------------
(***************************************************************************)
(* The persistence discipline every update of the guard's state follows    *)
(* (guard/state.go, updateLocked): a new state is built from the old one,  *)
(* saved, and kept in memory only if the save succeeded.  The first failed *)
(* save latches writeErr, and the store then refuses every update until    *)
(* the process is restarted.                                               *)
(*                                                                         *)
(* The store's mutex is held for the whole update, so an update is one     *)
(* step.  A save that fails may already have renamed the new file into     *)
(* place (StateFile shows the individual system calls), which is why the   *)
(* next start may find either content.                                     *)
(***************************************************************************)

VARIABLES
    open,      \* a process holds the state lock and has loaded the state
    mem,       \* StateStore.state; equal to disk while no process is open
    disk,      \* the content the next LoadStateStore would read
    writeErr   \* StateStore.writeErr # nil

durableVars == <<open, mem, disk, writeErr>>

Writable == open /\ ~writeErr

\* updateLocked, the save succeeded: the caller gets no error.
Commits(next) ==
    /\ Writable
    /\ mem' = next
    /\ disk' = next
    /\ UNCHANGED <<open, writeErr>>

\* updateLocked, the save failed: memory keeps the previous state.
CommitFails(next) ==
    /\ Writable
    /\ disk' \in {disk, next}
    /\ writeErr' = TRUE
    /\ UNCHANGED <<open, mem>>

Update(next) == Commits(next) \/ CommitFails(next)

\* openServiceState followed by Bind, the first save of a process.
Starts(bound) ==
    /\ ~open
    /\ open' = TRUE
    /\ mem' = bound
    /\ disk' = bound
    /\ UNCHANGED writeErr

\* Bind could not save: NewService closes the store and gives up.
StartFails(bound) ==
    /\ ~open
    /\ disk' \in {disk, bound}
    /\ mem' = disk'
    /\ UNCHANGED <<open, writeErr>>

\* The process exits, is killed or loses power; the kernel drops its flock.
Crash ==
    /\ open
    /\ open' = FALSE
    /\ mem' = disk
    /\ writeErr' = FALSE
    /\ UNCHANGED disk

(***************************************************************************)
(* What an update in flight promises: while no save has failed, memory and *)
(* disk agree, so every update that returned without error is durable.     *)
(***************************************************************************)
MemIsDisk == ~writeErr => mem = disk
=============================================================================
