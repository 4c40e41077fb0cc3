------------------------- MODULE SettledStateProofs -------------------------
(***************************************************************************)
(* AcknowledgedState, with what is foretold, is DurableState, and to       *)
(* foretell takes no behaviour away from it.                               *)
(***************************************************************************)
EXTENDS SettledState, TLAPS

\* What Bind saves is bound already (BoundOnce in StateStoreProofs).
BindsOnce ==
    /\ Bound \in [Contents -> Contents]
    /\ \A content \in Contents : Bound[Bound[content]] = Bound[content]

\* At most one save is in flight, and a process that is there has its state.
AInv ==
    /\ open \in BOOLEAN /\ writeErr \in BOOLEAN
    /\ candidates # {} /\ candidates \subseteq Contents
    /\ ~open => ~writeErr
    /\ open => mem \in candidates
    /\ open /\ ~writeErr => \E next \in candidates : candidates = {mem, next}

LEMMA AInitOK == AcknowledgedInit => AInv
  BY DEF AcknowledgedInit, AInv

LEMMA ANextOK ==
    ASSUME BindsOnce, AInv, [AcknowledgedNext]_acknowledgedVars
    PROVE  AInv'
<1>1. CASE UNCHANGED acknowledgedVars
  BY <1>1 DEF acknowledgedVars, AInv
<1>2. ASSUME NEW next \in Contents, Attempts(next) \/ Commits(next) PROVE AInv'
  BY <1>2 DEF Attempts, Commits, AInv
<1>3. CASE Fails
  BY <1>3 DEF Fails, AInv
<1>4. CASE Tries
  BY <1>4 DEF Tries, AInv, BindsOnce
<1>5. CASE Starts
  BY <1>5 DEF Starts, AInv
<1>6. ASSUME Remaining(candidates') PROVE candidates' # {} /\ candidates' \subseteq Contents
  BY <1>6 DEF Remaining, AInv
<1>7. CASE Settles
  BY <1>6, <1>7 DEF Settles, AInv
<1>8. CASE Dies
  BY <1>6, <1>8 DEF Dies, AInv
<1>9. QED
  BY <1>1, <1>2, <1>3, <1>4, <1>5, <1>7, <1>8 DEF AcknowledgedNext

-----------------------------------------------------------------------------
(* To foretell takes no behaviour away. *)

\* In every state there is something to foretell.
LEMMA SomethingForetold ==
    ASSUME AInv
    PROVE  \E content \in Contents, lost \in BOOLEAN : MayForetell(content, lost)
<1>1. CASE open
  <2>1. MayForetell(mem, FALSE) /\ mem \in Contents
    BY <1>1 DEF MayForetell, AInv
  <2>2. QED BY <2>1
<1>2. CASE ~open
  <2>1. PICK content \in candidates : TRUE
    BY DEF AInv
  <2>2. MayForetell(content, FALSE) /\ content \in Contents
    BY <1>2, <2>1 DEF MayForetell, AInv
  <2>3. QED BY <2>2
<1>3. QED BY <1>1, <1>2

\* Whatever is foretold after a step of AcknowledgedState, something that leads
\* to it could be foretold before: the prophecy excludes no outcome of a save,
\* of a death or of a power loss.
THEOREM NeverRefused ==
    ASSUME BindsOnce, AInv, AcknowledgedNext,
           NEW after, NEW lostAfter, MayForetell(after, lostAfter)'
    PROVE  \E content, lost : /\ MayForetell(content, lost)
                              /\ Foretells(content, lost, after, lostAfter)
<1>1. ASSUME NEW content, NEW lost, MayForetell(content, lost),
             Foretells(content, lost, after, lostAfter)
      PROVE  \E c, l : MayForetell(c, l) /\ Foretells(c, l, after, lostAfter)
  BY <1>1, Zenon
<1>2. ASSUME NEW next \in Contents, Attempts(next)
      PROVE  MayForetell(mem, FALSE) /\ Foretells(mem, FALSE, after, lostAfter)
  <2>1. MayForetell(mem, FALSE)
    BY <1>2 DEF MayForetell, Attempts, AInv
  <2>2. AttemptsAs(next, mem, FALSE, after, lostAfter)
    BY <1>2 DEF AttemptsAs, MayForetell, Attempts
  <2>3. QED BY <2>1, <2>2 DEF Foretells
<1>3. ASSUME NEW next \in Contents, Commits(next)
      PROVE  MayForetell(mem, FALSE) /\ Foretells(mem, FALSE, after, lostAfter)
  <2>1. MayForetell(mem, FALSE)
    BY <1>3 DEF MayForetell, Commits, AInv
  <2>2. CommitsAs(next, FALSE)
    BY <1>3 DEF CommitsAs
  <2>3. QED BY <2>1, <2>2 DEF Foretells
<1>4. ASSUME Fails \/ Dies
      PROVE  \E lost \in BOOLEAN : /\ MayForetell(after, lost)
                                   /\ Foretells(after, lost, after, lostAfter)
  <2>1. open /\ after \in candidates
    BY <1>4 DEF Fails, Dies, Remaining, MayForetell
  <2>2. CASE writeErr \/ candidates = {mem}
    <3>1. MayForetell(after, FALSE)
      BY <2>1, <2>2 DEF MayForetell
    <3>2. LosesAs(after, FALSE, after)
      BY <1>4, <2>2 DEF LosesAs
    <3>3. QED BY <3>1, <3>2 DEF Foretells
  <2>3. CASE ~(writeErr \/ candidates = {mem})
    <3>1. MayForetell(after, TRUE)
      BY <2>1, <2>3 DEF MayForetell
    <3>2. LosesAs(after, TRUE, after)
      BY <1>4 DEF LosesAs
    <3>3. QED BY <3>1, <3>2 DEF Foretells
  <2>4. QED BY <2>2, <2>3
<1>5. ASSUME Tries
      PROVE  \E content : /\ MayForetell(content, FALSE)
                          /\ Foretells(content, FALSE, after, lostAfter)
  <2>1. ~open /\ after \in candidates'
    BY <1>5 DEF Tries, MayForetell
  <2>2. PICK content \in candidates : after \in {content, Bound[content]}
    BY <1>5, <2>1 DEF Tries
  <2>3. MayForetell(content, FALSE)
    BY <2>1 DEF MayForetell
  <2>4. TriesAs(content, after)
    BY <1>5, <2>2 DEF TriesAs
  <2>5. QED BY <2>3, <2>4 DEF Foretells
<1>6. ASSUME Starts
      PROVE  MayForetell(after, FALSE) /\ Foretells(after, FALSE, after, lostAfter)
  <2>1. ~open /\ after \in candidates
    BY <1>6 DEF Starts, MayForetell
  <2>2. \E loaded \in Contents : after = Bound[loaded]
    BY <1>6 DEF Starts, MayForetell
  <2>3. StartsAs(after, after)
    BY <1>6, <2>2 DEF StartsAs, BindsOnce
  <2>4. QED BY <2>1, <2>3 DEF MayForetell, Foretells
<1>7. ASSUME Settles
      PROVE  MayForetell(after, FALSE) /\ Foretells(after, FALSE, after, lostAfter)
  <2>1. ~open /\ after \in candidates
    BY <1>7 DEF Settles, Remaining, MayForetell
  <2>2. SettlesAs(after, after)
    BY <1>7 DEF SettlesAs
  <2>3. QED BY <2>1, <2>2 DEF MayForetell, Foretells
<1>8. QED
  BY <1>1, <1>2, <1>3, <1>4, <1>5, <1>6, <1>7, Zenon DEF AcknowledgedNext

-----------------------------------------------------------------------------
(* What is settled early is the persistence of DurableState. *)

SInv == AInv /\ MayForetell(foretold, doomed)

\* To foretell adds nothing either: SettledState takes the steps of
\* AcknowledgedState and no other.
LEMMA SettledIsAcknowledged ==
    ASSUME SettledNext
    PROVE  AcknowledgedNext
  BY DEF SettledNext, Foretells, AttemptsAs, CommitsAs, LosesAs, TriesAs, StartsAs, SettlesAs,
         AcknowledgedNext

LEMMA SNextOK ==
    ASSUME BindsOnce, SInv, [SettledNext]_settledVars
    PROVE  SInv'
<1>1. CASE UNCHANGED settledVars
  BY <1>1 DEF settledVars, SInv, AInv, MayForetell
<1>2. CASE SettledNext
  BY <1>2, SettledIsAcknowledged, ANextOK DEF SettledNext, SInv
<1>3. QED BY <1>1, <1>2

\* The state of DurableState.
View == <<open, IF open THEN mem ELSE foretold, foretold, writeErr \/ doomed>>

LEMMA SavesEarly ==
    ASSUME SInv, SInv', NEW next \in Contents,
           \/ AttemptsAs(next, foretold, doomed, foretold', doomed')
           \/ CommitsAs(next, doomed)
    PROVE  Durable!Update(next) \/ UNCHANGED View
<1>0. open /\ ~writeErr /\ ~doomed /\ foretold = mem
  BY DEF SInv, MayForetell, AttemptsAs, CommitsAs, Attempts, Commits
<1>1. CASE Commits(next)
  <2>1. open' /\ ~writeErr' /\ ~doomed' /\ mem' = next /\ foretold' = next
    BY <1>0, <1>1 DEF SInv, MayForetell, Commits
  <2>2. QED
    BY <1>0, <2>1 DEF Durable!Update, Durable!Commits, Durable!Writable
<1>2. CASE Attempts(next) /\ doomed'
  <2>1. open' /\ ~writeErr' /\ mem' = mem /\ foretold' \in {mem, next}
    BY <1>0, <1>2 DEF SInv, MayForetell, Attempts
  <2>2. QED
    BY <1>0, <1>2, <2>1 DEF Durable!Update, Durable!CommitFails, Durable!Writable
<1>3. CASE Attempts(next) /\ ~doomed'
  <2>1. open' /\ ~writeErr' /\ mem' = mem /\ foretold' = mem
    BY <1>0, <1>3 DEF SInv, MayForetell, Attempts
  <2>2. QED BY <1>0, <1>3, <2>1 DEF View
<1>4. QED BY <1>1, <1>2, <1>3 DEF AttemptsAs, CommitsAs

LEMMA LosesEarly ==
    ASSUME SInv, SInv', LosesAs(foretold, doomed, foretold')
    PROVE  \/ mem \in Contents /\ Durable!Update(mem)
           \/ Durable!Crash
           \/ UNCHANGED View
<1>0. /\ open /\ foretold' = foretold
      /\ doomed \in BOOLEAN /\ doomed' \in BOOLEAN
      /\ writeErr \in BOOLEAN /\ writeErr' \in BOOLEAN
      /\ mem \in Contents
  BY DEF LosesAs, Fails, Dies, SInv, AInv, MayForetell
<1>1. CASE Dies
  <2>1. ~open' /\ ~writeErr' /\ ~doomed'
    BY <1>1 DEF Dies, SInv, MayForetell
  <2>2. QED
    BY <1>0, <2>1 DEF Durable!Crash
<1>2. CASE Fails
  <2>1. open' /\ ~writeErr /\ writeErr' /\ ~doomed' /\ mem' = mem
    BY <1>2 DEF Fails, SInv, MayForetell
  <2>2. CASE doomed
    BY <1>0, <2>1, <2>2 DEF View
  <2>3. CASE ~doomed
    BY <1>0, <2>1, <2>3 DEF Durable!Update, Durable!CommitFails, Durable!Writable
  <2>4. QED BY <1>0, <2>2, <2>3
<1>3. QED BY <1>1, <1>2 DEF LosesAs

LEMMA StartsEarly ==
    ASSUME SInv, SInv',
           \/ TriesAs(foretold, foretold') \/ StartsAs(foretold, foretold')
           \/ SettlesAs(foretold, foretold')
    PROVE  \/ Durable!Starts(Bound[foretold]) \/ Durable!StartFails(Bound[foretold])
           \/ UNCHANGED View
<1>0. /\ ~open /\ ~writeErr /\ ~doomed
      /\ ~writeErr' /\ doomed' \in BOOLEAN
  BY DEF TriesAs, StartsAs, SettlesAs, Tries, Starts, Settles, SInv, AInv, MayForetell
<1>1. CASE StartsAs(foretold, foretold')
  <2>1. open' /\ candidates' = {mem'} /\ foretold' = Bound[foretold]
    BY <1>1 DEF StartsAs, Starts
  <2>2. foretold' = mem' /\ ~doomed'
    BY <1>0, <2>1 DEF SInv, MayForetell
  <2>3. QED
    BY <1>0, <2>1, <2>2 DEF Durable!Starts
<1>2. CASE TriesAs(foretold, foretold') \/ SettlesAs(foretold, foretold')
  <2>1. ~open' /\ open' = open /\ foretold' \in {foretold, Bound[foretold]}
    BY <1>0, <1>2 DEF TriesAs, SettlesAs, Tries, Settles
  <2>2. ~doomed'
    BY <2>1 DEF SInv, MayForetell
  <2>3. CASE foretold' = foretold
    BY <1>0, <2>1, <2>2, <2>3 DEF View
  <2>4. CASE foretold' = Bound[foretold]
    BY <1>0, <2>1, <2>2, <2>4 DEF Durable!StartFails
  <2>5. QED BY <2>1, <2>3, <2>4
<1>3. QED BY <1>1, <1>2

\* The promise of the state file is the persistence that every model of the
\* guard is built on: a failed save leaves one of two contents, at once.
THEOREM SettlesEarlyCorrect ==
    ASSUME BindsOnce
    PROVE  SettledSpec => SettlesEarly
<1>1. SettledInit => SInv
  BY AInitOK DEF SettledInit, SInv
<1>2. SInv /\ [SettledNext]_settledVars => SInv'
  BY SNextOK
<1>3. SettledInit => DurableInit
  BY DEF SettledInit, AcknowledgedInit, MayForetell, DurableInit
<1>4. SInv /\ SInv' /\ [SettledNext]_settledVars => [DurableNext]_(Durable!durableVars)
  <2> SUFFICES ASSUME SInv, SInv', [SettledNext]_settledVars
               PROVE  DurableNext \/ UNCHANGED Durable!durableVars
    OBVIOUS
  <2>1. UNCHANGED View => UNCHANGED Durable!durableVars
    BY DEF View, Durable!durableVars
  <2>2. CASE UNCHANGED settledVars
    BY <2>1, <2>2 DEF settledVars, View
  <2>3. CASE SettledNext
    BY <2>1, <2>3, SavesEarly, LosesEarly, StartsEarly DEF SettledNext, Foretells, DurableNext
  <2>4. QED BY <2>2, <2>3
<1>5. QED
  BY <1>1, <1>2, <1>3, <1>4, PTL DEF SettledSpec, SettlesEarly, DurableSpec
=============================================================================
