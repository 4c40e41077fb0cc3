---------------------------- MODULE SettledState ----------------------------
(***************************************************************************)
(* AcknowledgedState leaves open which content a failed save left behind   *)
(* until a process starts from it; DurableState, on which the models of    *)
(* the guard are built, settles it at the failed save.  Here the first is  *)
(* given two prophecy variables, and with them it is the second.           *)
(*                                                                         *)
(* foretold is the content that is still there when everything is settled; *)
(* doomed says of a save in flight that it will not be acknowledged.  A    *)
(* behaviour of AcknowledgedState is never refused for want of a prophecy: *)
(* whatever step it takes, and whatever is foretold after the step, there  *)
(* was something to foretell before it (NeverRefused).                     *)
(***************************************************************************)
EXTENDS AcknowledgedState

VARIABLES foretold, doomed

settledVars == <<open, mem, candidates, writeErr, foretold, doomed>>

\* What may be foretold in a state: a content that may be found, the saved one
\* if nothing is wrong; and only a save in flight may be doomed.
MayForetell(content, lost) ==
    /\ content \in candidates
    /\ lost \in BOOLEAN
    /\ lost => open /\ ~writeErr /\ candidates # {mem}
    /\ open /\ ~writeErr /\ ~lost => content = mem

\* The step respects what is foretold before it, and after it.
AttemptsAs(next, content, lost, content2, lost2) ==
    /\ Attempts(next)
    /\ ~lost
    /\ lost2 \/ content2 = mem

CommitsAs(next, lost) ==
    /\ Commits(next)
    /\ ~lost

\* An unacknowledged save fails, or the process dies first.
LosesAs(content, lost, content2) ==
    /\ Fails \/ Dies
    /\ lost \/ writeErr \/ candidates = {mem}
    /\ content2 = content

TriesAs(content, content2) ==
    /\ Tries
    /\ content2 \in {content, Bound[content]}

StartsAs(content, content2) == Starts /\ content2 = Bound[content]

SettlesAs(content, content2) == Settles /\ content2 = content

\* A step from one prophecy to another.
Foretells(content, lost, content2, lost2) ==
    \/ \E next \in Contents :
          AttemptsAs(next, content, lost, content2, lost2) \/ CommitsAs(next, lost)
    \/ LosesAs(content, lost, content2)
    \/ TriesAs(content, content2) \/ StartsAs(content, content2) \/ SettlesAs(content, content2)

SettledInit == AcknowledgedInit /\ MayForetell(foretold, doomed)

SettledNext ==
    /\ Foretells(foretold, doomed, foretold', doomed')
    /\ MayForetell(foretold, doomed)'

SettledSpec == SettledInit /\ [][SettledNext]_settledVars

-----------------------------------------------------------------------------
(* The models' view of the same steps. *)

Durable == INSTANCE DurableState WITH
    mem <- IF open THEN mem ELSE foretold,
    disk <- foretold,
    writeErr <- writeErr \/ doomed

\* Exactly what DurableState lets its users do.
DurableInit == ~open /\ foretold \in Contents /\ ~writeErr /\ ~doomed

DurableNext ==
    \/ \E next \in Contents : Durable!Update(next)
    \/ Durable!Starts(Bound[foretold]) \/ Durable!StartFails(Bound[foretold])
    \/ Durable!Crash

DurableSpec == DurableInit /\ [][DurableNext]_(Durable!durableVars)

\* The promise of the state file, with what was to be foretold, is the
\* persistence the models assume.
SettlesEarly == DurableSpec
=============================================================================
