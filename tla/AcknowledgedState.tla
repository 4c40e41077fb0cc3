------------------------- MODULE AcknowledgedState -------------------------
(***************************************************************************)
(* What the state file promises the guard, whatever the system calls that  *)
(* write it are interrupted by: a process starts from a content that the   *)
(* last acknowledged save wrote, or a later save that was not acknowledged; *)
(* and as soon as a save returns without error no other content is left.   *)
(*                                                                         *)
(* DurableState decides at once which content a failed save leaves behind; *)
(* here the question stays open until a process starts.  Nobody reads the  *)
(* file in between, so the models built on DurableState lose nothing by    *)
(* its early choice.                                                       *)
(***************************************************************************)
CONSTANTS
    Contents,    \* states the file may hold
    NoContent,   \* what a process that is not there has in memory
    Bound        \* content |-> the content Bind saves when it was loaded

VARIABLES
    open,        \* a process holds the lock and its Bind was saved
    mem,         \* its state
    candidates,  \* the contents the next process may load
    writeErr     \* a save of this process has failed

acknowledgedVars == <<open, mem, candidates, writeErr>>

\* A save of an open process shows, but is not acknowledged yet.
Attempts(next) ==
    /\ open /\ ~writeErr
    /\ candidates = {mem}
    /\ candidates' = {mem, next}
    /\ UNCHANGED <<open, mem, writeErr>>

Commits(next) ==
    /\ open /\ ~writeErr
    /\ candidates = {mem, next}
    /\ mem' = next
    /\ candidates' = {next}
    /\ UNCHANGED <<open, writeErr>>

Fails ==
    /\ open /\ ~writeErr
    /\ writeErr' = TRUE
    /\ UNCHANGED <<open, mem, candidates>>

\* A start shows in the file before it has succeeded, and may never succeed.
Tries ==
    /\ ~open
    /\ \E loaded \in candidates : candidates' = candidates \cup {Bound[loaded]}
    /\ UNCHANGED <<open, mem, writeErr>>

Starts ==
    /\ ~open
    /\ \E next \in candidates :
          /\ \E loaded \in Contents : next = Bound[loaded]
          /\ open' = TRUE
          /\ mem' = next
          /\ candidates' = {next}
    /\ UNCHANGED writeErr

Remaining(rest) == rest # {} /\ rest \subseteq candidates

\* A power loss may settle what an unfinished save left open.
Settles ==
    /\ ~open
    /\ Remaining(candidates')
    /\ UNCHANGED <<open, mem, writeErr>>

Dies ==
    /\ open
    /\ open' = FALSE
    /\ mem' = NoContent
    /\ Remaining(candidates')
    /\ writeErr' = FALSE

AcknowledgedInit ==
    /\ open = FALSE
    /\ mem = NoContent
    /\ candidates \in {{c} : c \in Contents}
    /\ writeErr = FALSE

AcknowledgedNext ==
    \/ \E next \in Contents : Attempts(next) \/ Commits(next)
    \/ Fails
    \/ Tries \/ Starts
    \/ Settles \/ Dies

AcknowledgedSpec == AcknowledgedInit /\ [][AcknowledgedNext]_acknowledgedVars
=============================================================================
