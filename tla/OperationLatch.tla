--------------------------- MODULE OperationLatch ---------------------------
(***************************************************************************)
(* What the journal promises, without files, memory, failures or restarts  *)
(* (the comment on Operation in guard/state_model.go: an unfinished        *)
(* operation is a safety latch): an operation is opened at most once, only *)
(* while nothing unfinished touches its subject or download, and it stays  *)
(* unfinished until it is finished for good.                               *)
(***************************************************************************)
EXTENDS Operations

VARIABLES
    unfinished,   \* the requests begun and not completed
    finished      \* the keys of completed operations

latchVars == <<unfinished, finished>>

LatchInit == unfinished = {} /\ finished = {}

Open(r) ==
    /\ r.key \notin finished
    /\ \A u \in unfinished : ~Fences(u, r)
    /\ unfinished' = unfinished \cup {r}
    /\ UNCHANGED finished

Close(r) ==
    /\ r \in unfinished
    /\ unfinished' = unfinished \ {r}
    /\ finished' = finished \cup {r.key}

LatchNext == \E r \in Requests : Open(r) \/ Close(r)

LatchSpec == LatchInit /\ [][LatchNext]_latchVars
=============================================================================
