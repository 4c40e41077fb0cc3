--------------------------- MODULE RequestLedger ---------------------------
(***************************************************************************)
(* What a journalled operation promises of its requests to Arr, without    *)
(* files, memory, failures or restarts (the comment on Operation in        *)
(* guard/state_model.go: a phase is persisted before its mutation, and is  *)
(* no permission to replay it).  Each request is announced before it is    *)
(* sent, and sent once.  The next one is announced, and the operation      *)
(* closed, only when the announced one was sent, or if Arr shows later     *)
(* what became of it.  An operation that was closed is never opened again. *)
(***************************************************************************)
EXTENDS Naturals

CONSTANTS
    Owners,   \* what has at most one operation in its life: a file, a download
    Asks,     \* the requests of an operation (neither "none" nor "closed")
    Follows,  \* pairs of them: the second may be sent after the first
    Evident   \* those of which Arr shows later whether they were carried out

VARIABLES
    announced,   \* owner |-> its last announced request, "none" or "closed"
    asked        \* owner |-> how often each of its requests was sent

ledgerVars == <<announced, asked>>

LedgerInit ==
    /\ announced = [o \in Owners |-> "none"]
    /\ asked = [o \in Owners |-> [r \in Asks |-> 0]]

\* Nothing that was announced is still to be sent.
Settled(o) ==
    /\ announced[o] \in Asks
    /\ asked[o][announced[o]] > 0 \/ announced[o] \in Evident

Announce(o, r) ==
    /\ announced[o] = "none" \/ Settled(o)
    /\ announced[o] \in Asks => <<announced[o], r>> \in Follows
    /\ \A q \in Asks : asked[o][q] > 0 => <<q, r>> \in Follows
    /\ announced' = [announced EXCEPT ![o] = r]
    /\ UNCHANGED asked

Ask(o) ==
    /\ announced[o] \in Asks
    /\ asked[o][announced[o]] = 0
    /\ asked' = [asked EXCEPT ![o][announced[o]] = 1]
    /\ UNCHANGED announced

Close(o) ==
    /\ Settled(o)
    /\ announced' = [announced EXCEPT ![o] = "closed"]
    /\ UNCHANGED asked

LedgerNext == \E o \in Owners : Ask(o) \/ Close(o) \/ \E r \in Asks : Announce(o, r)

LedgerSpec == LedgerInit /\ [][LedgerNext]_ledgerVars
=============================================================================
