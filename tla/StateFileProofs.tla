-------------------------- MODULE StateFileProofs --------------------------
(***************************************************************************)
(* Proofs about StateFile.  A process that is not off holds the lock, so   *)
(* every step is taken by the lock's owner or ends all processes; the      *)
(* invariant says what the owner's stage tells about the disk.             *)
(***************************************************************************)
EXTENDS StateFile, TLAPS

Whole(f) == f.synced /\ f.data \in Contents

\* Every file that may be found is flushed and complete.
DiskOK == path \in survivors /\ \A f \in survivors : Whole(f)

Candidates == {f.data : f \in survivors}

\* Before the new file is renamed, and after it.
Before(p) == path.data = previous[p] /\ (p \in serving => survivors = {path})
After(p) ==
    /\ path.data = state[p]
    /\ p \in serving => Candidates = {previous[p], state[p]}

ProcessOK(p) ==
    /\ stage[p] # "off" => lock = p
    /\ p \in serving => stage[p] \in {"idle"} \cup Saving
    /\ p \in writeErr => p \in serving /\ stage[p] = "idle"
    /\ stage[p] = "bind" => state[p] = path.data
    /\ stage[p] = "idle" =>
          /\ p \in serving
          /\ state[p] \in Contents
          /\ p \notin writeErr => survivors = {path} /\ path.data = state[p]
    /\ stage[p] \in Saving =>
          /\ previous[p] \in Contents /\ state[p] \in Contents
          /\ p \notin serving => state[p] = Bound[previous[p]]
          /\ IF stage[p] = "flush" THEN After(p) ELSE Before(p)
    /\ stage[p] = "sync" => temp[p].data = state[p]
    /\ stage[p] = "rename" => temp[p] = [data |-> state[p], synced |-> TRUE]

IInv == FileTypeOK /\ DiskOK /\ \A p \in Processes : ProcessOK(p)

LEMMA InitOK == FileInit => IInv
  BY FileAssumption DEF FileInit, IInv, FileTypeOK, DiskOK, Whole, ProcessOK, File, NoFile,
     Saving, Before, After, Candidates

\* While p is there, every other process is off.
LEMMA Alone ==
    ASSUME IInv, NEW p \in Processes, stage[p] # "off",
           NEW q \in Processes, q # p
    PROVE  stage[q] = "off" /\ q \notin serving /\ q \notin writeErr
  BY DEF IInv, ProcessOK, Saving

\* A process that is off, and stays so, has nothing to show.
LEMMA OffOK ==
    ASSUME NEW q \in Processes,
           (stage[q])' = "off", (q \notin serving)', (q \notin writeErr)'
    PROVE  ProcessOK(q)'
  BY DEF ProcessOK, Saving

LEMMA LockOK ==
    ASSUME IInv, NEW p \in Processes, Lock(p)
    PROVE  IInv'
<1>1. FileTypeOK'
  BY DEF IInv, FileTypeOK, Lock, Goto
<1>2. DiskOK'
  BY DEF IInv, DiskOK, Whole, Lock
<1>3. ASSUME NEW q \in Processes PROVE ProcessOK(q)'
  <2>1. CASE q = p
    BY <2>1 DEF IInv, ProcessOK, FileTypeOK, Lock, Goto, Saving
  <2>2. CASE q # p
    <3>1. stage[q] = "off" /\ q \notin serving /\ q \notin writeErr
      BY FileAssumption DEF IInv, ProcessOK, Lock, Saving
    <3>2. QED
      BY <2>2, <3>1, OffOK DEF Lock, Goto, IInv, FileTypeOK
  <2>3. QED BY <2>1, <2>2
<1>4. QED BY <1>1, <1>2, <1>3 DEF IInv

LEMMA LoadOK ==
    ASSUME IInv, NEW p \in Processes, Load(p)
    PROVE  IInv'
<1>1. FileTypeOK'
  BY DEF IInv, FileTypeOK, Load, Goto, fsVars, File
<1>2. DiskOK'
  BY DEF IInv, DiskOK, Whole, Load, fsVars
<1>3. ASSUME NEW q \in Processes PROVE ProcessOK(q)'
  <2>1. CASE q = p
    BY <2>1 DEF IInv, ProcessOK, FileTypeOK, Load, Goto, Saving, fsVars
  <2>2. CASE q # p
    BY <2>2, Alone, OffOK DEF Load, Goto, IInv, FileTypeOK, fsVars
  <2>3. QED BY <2>1, <2>2
<1>4. QED BY <1>1, <1>2, <1>3 DEF IInv

LEMMA GoneOK ==
    ASSUME IInv, NEW p \in Processes, stage[p] # "off", Gone(p), UNCHANGED <<path, survivors>>
    PROVE  IInv'
<1>1. FileTypeOK'
  BY DEF IInv, FileTypeOK, Gone, Goto, NoFile, File
<1>2. DiskOK'
  BY DEF IInv, DiskOK, Whole
<1>3. ASSUME NEW q \in Processes PROVE ProcessOK(q)'
  <2>1. CASE q = p
    BY <2>1, OffOK DEF Gone, Goto, IInv, FileTypeOK
  <2>2. CASE q # p
    BY <2>2, Alone, OffOK DEF Gone, Goto, IInv, FileTypeOK
  <2>3. QED BY <2>1, <2>2
<1>4. QED BY <1>1, <1>2, <1>3 DEF IInv

LEMMA BeginsOK ==
    ASSUME IInv, NEW p \in Processes, NEW next \in Contents, Begins(p, next),
           \/ stage[p] = "bind" /\ next = Bound[state[p]]
           \/ stage[p] = "idle" /\ p \notin writeErr
    PROVE  IInv'
<1>1. state[p] \in Contents
  BY DEF IInv, ProcessOK, DiskOK, Whole
<1>2. FileTypeOK'
  BY <1>1 DEF IInv, FileTypeOK, Begins, Goto, fsVars, Saving
<1>3. DiskOK'
  BY DEF IInv, DiskOK, Whole, Begins, fsVars
<1>4. ASSUME NEW q \in Processes PROVE ProcessOK(q)'
  <2>1. CASE q = p
    BY <1>1, <2>1 DEF IInv, ProcessOK, FileTypeOK, Begins, Goto, Saving, fsVars, Before
  <2>2. CASE q # p
    BY <2>2, Alone, OffOK DEF Begins, Goto, IInv, FileTypeOK, fsVars
  <2>3. QED BY <2>1, <2>2
<1>5. QED BY <1>2, <1>3, <1>4 DEF IInv

LEMMA CreateOK ==
    ASSUME IInv, NEW p \in Processes, CreateTemp(p)
    PROVE  IInv'
<1>1. FileTypeOK'
  BY DEF IInv, FileTypeOK, CreateTemp, Goto, fsVars, NoFile, File, Saving
<1>2. DiskOK'
  BY DEF IInv, DiskOK, Whole, CreateTemp, fsVars
<1>3. ASSUME NEW q \in Processes PROVE ProcessOK(q)'
  <2>1. CASE q = p
    BY <2>1 DEF IInv, ProcessOK, FileTypeOK, CreateTemp, Goto, Saving, fsVars, Before
  <2>2. CASE q # p
    BY <2>2, Alone, OffOK DEF CreateTemp, Goto, IInv, FileTypeOK, fsVars
  <2>3. QED BY <2>1, <2>2
<1>4. QED BY <1>1, <1>2, <1>3 DEF IInv

LEMMA WriteOK ==
    ASSUME IInv, NEW p \in Processes, WriteTemp(p)
    PROVE  IInv'
<1>1. state[p] \in Contents
  BY DEF IInv, ProcessOK, WriteTemp, Saving
<1>2. FileTypeOK'
  BY <1>1 DEF IInv, FileTypeOK, WriteTemp, Goto, fsVars, File, Saving
<1>3. DiskOK'
  BY DEF IInv, DiskOK, Whole, WriteTemp, fsVars
<1>4. ASSUME NEW q \in Processes PROVE ProcessOK(q)'
  <2>1. CASE q = p
    BY <2>1 DEF IInv, ProcessOK, FileTypeOK, WriteTemp, Goto, Saving, fsVars, Before
  <2>2. CASE q # p
    BY <2>2, Alone, OffOK DEF WriteTemp, Goto, IInv, FileTypeOK, fsVars
  <2>3. QED BY <2>1, <2>2
<1>5. QED BY <1>2, <1>3, <1>4 DEF IInv

LEMMA SyncOK ==
    ASSUME IInv, NEW p \in Processes, SyncTemp(p)
    PROVE  IInv'
<1>1. temp[p] \in File /\ temp[p].data = state[p] /\ stage[p] = "sync"
  BY DEF IInv, FileTypeOK, ProcessOK, SyncTemp
<1>2. temp'[p] = [data |-> state[p], synced |-> TRUE]
  BY <1>1 DEF SyncTemp, IInv, FileTypeOK, File
<1>3. FileTypeOK'
  <2>1. temp' \in [Processes -> File]
    BY <1>1 DEF SyncTemp, IInv, FileTypeOK, File
  <2>2. QED BY <2>1 DEF IInv, FileTypeOK, SyncTemp, Goto, fsVars, Saving
<1>4. DiskOK'
  BY DEF IInv, DiskOK, Whole, SyncTemp, fsVars
<1>5. ASSUME NEW q \in Processes PROVE ProcessOK(q)'
  <2>1. CASE q = p
    BY <1>1, <1>2, <2>1 DEF IInv, ProcessOK, FileTypeOK, SyncTemp, Goto, Saving, fsVars, Before
  <2>2. CASE q # p
    BY <2>2, Alone, OffOK DEF SyncTemp, Goto, IInv, FileTypeOK, fsVars
  <2>3. QED BY <2>1, <2>2
<1>6. QED BY <1>3, <1>4, <1>5 DEF IInv

LEMMA RenameOK ==
    ASSUME IInv, NEW p \in Processes, RenameTemp(p)
    PROVE  IInv'
<1>1. /\ stage[p] = "rename"
      /\ temp[p] = [data |-> state[p], synced |-> TRUE]
      /\ state[p] \in Contents /\ previous[p] \in Contents
      /\ Before(p)
  BY DEF IInv, ProcessOK, RenameTemp, Saving
<1>2. FileTypeOK'
  BY <1>1 DEF IInv, FileTypeOK, RenameTemp, Goto, NoFile, File, Saving
<1>3. DiskOK'
  BY <1>1 DEF IInv, DiskOK, Whole, RenameTemp
<1>4. ASSUME NEW q \in Processes PROVE ProcessOK(q)'
  <2>1. CASE q = p
    <3>1. path'.data = state[p]
      BY <1>1 DEF RenameTemp
    <3>2. ASSUME p \in serving PROVE Candidates' = {previous[p], state[p]}
      <4>1. survivors' = {path, temp[p]}
        BY <1>1, <3>2 DEF Before, RenameTemp
      <4>2. QED BY <1>1, <4>1 DEF Before, Candidates
    <3>3. After(p)'
      BY <3>1, <3>2 DEF After, RenameTemp
    <3>4. QED
      BY <1>1, <2>1, <3>3 DEF IInv, ProcessOK, FileTypeOK, RenameTemp, Goto, Saving
  <2>2. CASE q # p
    BY <2>2, Alone, OffOK DEF RenameTemp, Goto, IInv, FileTypeOK
  <2>3. QED BY <2>1, <2>2
<1>5. QED BY <1>2, <1>3, <1>4 DEF IInv

LEMMA FlushOK ==
    ASSUME IInv, NEW p \in Processes, FlushDirectory(p)
    PROVE  IInv'
<1>1. stage[p] = "flush" /\ state[p] \in Contents /\ path.data = state[p]
  BY DEF IInv, ProcessOK, FlushDirectory, Saving, After
<1>2. FileTypeOK'
  BY DEF IInv, FileTypeOK, FlushDirectory, Returned, Goto
<1>3. DiskOK'
  BY DEF IInv, DiskOK, Whole, FlushDirectory, Returned
<1>4. ASSUME NEW q \in Processes PROVE ProcessOK(q)'
  <2>1. CASE q = p
    BY <1>1, <2>1 DEF IInv, ProcessOK, FileTypeOK, FlushDirectory, Returned, Goto, Saving
  <2>2. CASE q # p
    BY <2>2, Alone, <1>1, OffOK DEF FlushDirectory, Returned, Goto, IInv, FileTypeOK
  <2>3. QED BY <2>1, <2>2
<1>5. QED BY <1>2, <1>3, <1>4 DEF IInv

LEMMA FailsOK ==
    ASSUME IInv, NEW p \in Processes, SaveFails(p)
    PROVE  IInv'
<1>1. stage[p] \in Saving /\ stage[p] # "off" /\ previous[p] \in Contents
  BY DEF IInv, ProcessOK, SaveFails, Saving
<1>2. CASE p \notin serving
  BY <1>1, <1>2, GoneOK DEF SaveFails
<1>3. CASE p \in serving
  <2>0. FileTypeOK
    BY DEF IInv
  <2>1. FileTypeOK'
    <3>1. lock' = lock /\ path' = path /\ survivors' = survivors /\ serving' = serving
      BY <1>3 DEF SaveFails
    <3>2. state' \in [Processes -> Contents \cup {NoContent}]
      BY <2>0, <1>1, <1>3 DEF FileTypeOK, SaveFails
    <3>3. previous' \in [Processes -> Contents \cup {NoContent}]
      BY <2>0, <1>3 DEF FileTypeOK, SaveFails
    <3>4. temp' \in [Processes -> File]
      <4>1. NoFile \in File
        BY DEF NoFile, File
      <4>2. temp' = [temp EXCEPT ![p] = NoFile]
        BY <1>3 DEF SaveFails
      <4>3. QED BY <2>0, <4>1, <4>2 DEF FileTypeOK
    <3>5. stage' = [stage EXCEPT ![p] = "idle"] /\ writeErr' = writeErr \cup {p}
      BY <1>3 DEF SaveFails, Goto
    <3>6. QED
      BY <2>0, <3>1, <3>2, <3>3, <3>4, <3>5 DEF FileTypeOK
  <2>2. DiskOK'
    BY DEF IInv, DiskOK, Whole, SaveFails
  <2>3. ASSUME NEW q \in Processes PROVE ProcessOK(q)'
    <3>1. CASE q = p
      BY <1>1, <1>3, <3>1 DEF IInv, ProcessOK, FileTypeOK, SaveFails, Goto, Saving
    <3>2. CASE q # p
      BY <1>1, <1>3, <3>2, Alone, OffOK DEF SaveFails, Goto, IInv, FileTypeOK
    <3>3. QED BY <3>1, <3>2
  <2>4. QED BY <2>1, <2>2, <2>3 DEF IInv
<1>4. QED BY <1>2, <1>3

LEMMA PowerLossOK ==
    ASSUME IInv, PowerLoss
    PROVE  IInv'
<1>1. path' \in survivors /\ survivors' = {path'}
  BY DEF IInv, DiskOK, Whole, PowerLoss, Remains
<1>2. FileTypeOK'
  BY <1>1 DEF IInv, FileTypeOK, PowerLoss, NoFile, File
<1>3. DiskOK'
  BY <1>1 DEF IInv, DiskOK, Whole
<1>4. ASSUME NEW q \in Processes PROVE ProcessOK(q)'
  BY OffOK DEF PowerLoss
<1>5. QED BY <1>2, <1>3, <1>4 DEF IInv

LEMMA NextOK ==
    ASSUME IInv, [FileNext]_fileVars
    PROVE  IInv'
<1>1. CASE UNCHANGED fileVars
  BY <1>1 DEF IInv, FileTypeOK, DiskOK, Whole, ProcessOK, Before, After, Candidates, fileVars,
     fsVars, processVars
<1>2. CASE PowerLoss
  BY <1>2, PowerLossOK
<1>3. ASSUME NEW p \in Processes, Bind(p) PROVE IInv'
  <2>1. state[p] \in Contents
    BY <1>3 DEF Bind, IInv, ProcessOK, DiskOK, Whole
  <2>2. Bound[state[p]] \in Contents
    BY <2>1, FileAssumption
  <2>3. QED BY <1>3, <2>2, BeginsOK DEF Bind
<1>4. ASSUME NEW p \in Processes, NEW next \in Contents, Update(p, next) PROVE IInv'
  BY <1>4, BeginsOK DEF Update
<1>5. ASSUME NEW p \in Processes, Die(p) \/ Refuse(p) PROVE IInv'
  BY <1>5, GoneOK DEF Die, Refuse
<1>6. QED
  BY <1>1, <1>2, <1>3, <1>4, <1>5, LockOK, LoadOK, CreateOK, WriteOK, SyncOK, RenameOK,
     FlushOK, FailsOK DEF FileNext, Save

LEMMA Invariance == FileSpec => []IInv
<1>1. IInv /\ [FileNext]_fileVars => IInv'
  BY NextOK
<1>2. QED BY InitOK, <1>1, PTL DEF FileSpec

\* The state file's model is well typed.
THEOREM FileTypeCorrect == FileSpec => []FileTypeOK
<1>1. IInv => FileTypeOK
  BY DEF IInv
<1>2. QED BY <1>1, Invariance, PTL

\* Whoever reads the state file, in the middle of a save of any process or
\* after any number of crashes and power losses, finds a complete document.
THEOREM WholeFileCorrect == FileSpec => []WholeFile
<1>1. IInv => WholeFile
  BY FileAssumption DEF IInv, DiskOK, Whole, WholeFile
<1>2. QED BY <1>1, Invariance, PTL

-----------------------------------------------------------------------------
(* The refinement: every system call is a step of AcknowledgedState, or a  *)
(* stutter.  The abstract variables, by the owner of the lock:             *)

Failed == lock \in writeErr
Shown == <<Open, Visible, Candidates, Failed>>

LEMMA MapsInit == FileInit => Promise!AcknowledgedInit
<1> SUFFICES ASSUME FileInit PROVE Promise!AcknowledgedInit
  OBVIOUS
<1>1. ~Open /\ Visible = NoContent /\ ~Failed
  BY DEF FileInit, Open, Visible, Failed
<1>2. PICK c \in Contents : path = [data |-> c, synced |-> TRUE]
  BY DEF FileInit
<1>3. {f.data : f \in survivors} = {c}
  BY <1>2 DEF FileInit
<1>4. QED
  BY <1>1, <1>3 DEF Promise!AcknowledgedInit, Failed

\* What the owner of the lock shows.
LEMMA Owner ==
    ASSUME IInv, NEW p \in Processes, stage[p] # "off"
    PROVE  /\ lock = p
           /\ Open <=> p \in serving
           /\ Visible = IF p \notin serving THEN NoContent
                        ELSE IF stage[p] \in Saving THEN previous[p] ELSE state[p]
  BY DEF IInv, ProcessOK, Open, Visible

\* When no process is open, the others stay as they are.
LEMMA Closed ==
    ASSUME IInv, ~Open
    PROVE  Visible = NoContent /\ ~Failed
  BY FileAssumption DEF Open, Visible, Failed, IInv, ProcessOK, FileTypeOK

LEMMA StaysClosed ==
    ASSUME ~Open, ~Open', ~Failed, ~Failed'
    PROVE  UNCHANGED <<Open, Failed>>
  BY DEF Open, Failed

LEMMA SomeCandidate ==
    ASSUME IInv
    PROVE  /\ path.data \in Candidates
           /\ Candidates # {}
           /\ Candidates \subseteq Contents
  BY DEF IInv, DiskOK, Whole, Candidates

\* The end of a process, on a disk that stays as it is.
LEMMA MapsGone ==
    ASSUME IInv, IInv', NEW p \in Processes, stage[p] # "off", Gone(p),
           UNCHANGED <<path, survivors>>
    PROVE  Promise!Dies \/ UNCHANGED Shown
<1>1. lock = p /\ lock' = NoProcess
  BY Owner DEF Gone
<1>2. NoProcess \notin serving' /\ NoProcess \notin writeErr'
  BY FileAssumption DEF IInv, FileTypeOK
<1>3. ~Open' /\ Visible' = NoContent /\ ~Failed'
  BY <1>1, <1>2 DEF Open, Visible, Failed
<1>4. Candidates' = Candidates
  BY DEF Candidates
<1>5. CASE Open
  BY <1>3, <1>4, <1>5, SomeCandidate
     DEF Promise!Dies, Promise!Remaining, Failed, Candidates
<1>6. CASE ~Open
  BY <1>3, <1>4, <1>6, Closed, StaysClosed DEF Shown
<1>7. QED BY <1>5, <1>6

LEMMA MapsPowerLoss ==
    ASSUME IInv, IInv', PowerLoss
    PROVE  Promise!Dies \/ Promise!Settles
<1>1. path' \in survivors /\ survivors' = {path'}
  BY DEF IInv, DiskOK, Whole, PowerLoss, Remains
<1>2. ~Open' /\ Visible' = NoContent /\ ~Failed'
  BY DEF PowerLoss, Open, Visible, Failed
<1>3. Promise!Remaining(Candidates')
  BY <1>1 DEF Promise!Remaining, Candidates
<1>4. CASE Open
  BY <1>2, <1>3, <1>4 DEF Promise!Dies, Candidates, Failed
<1>5. CASE ~Open
  BY <1>2, <1>3, <1>5, Closed, StaysClosed DEF Promise!Settles, Candidates, Failed
<1>6. QED BY <1>4, <1>5

\* Calls that change no file that may be found and keep what the owner shows.
LEMMA MapsQuiet ==
    ASSUME IInv, IInv', NEW p \in Processes,
           stage'[p] # "off", UNCHANGED <<survivors, serving, writeErr>>,
           \/ Lock(p)
           \/ /\ stage[p] # "off"
              /\ \/ p \notin serving
                 \/ stage[p] \notin Saving /\ stage'[p] \in Saving /\ previous'[p] = state[p]
                 \/ /\ stage[p] \in Saving /\ stage'[p] \in Saving
                    /\ previous'[p] = previous[p]
    PROVE  UNCHANGED Shown
<1>1. Candidates' = Candidates
  BY DEF Candidates
<1>2. lock' = p /\ (Open' <=> p \in serving)
      /\ Visible' = IF p \notin serving THEN NoContent
                    ELSE IF stage'[p] \in Saving THEN previous'[p] ELSE state'[p]
  BY DEF IInv, ProcessOK, Open, Visible
<1>3. CASE Lock(p)
  <2>1. lock = NoProcess /\ stage[p] = "off"
    BY <1>3 DEF Lock
  <2>2. p \notin serving /\ p \notin writeErr
    BY <2>1 DEF IInv, ProcessOK, Saving
  <2>3. ~Open /\ ~Failed
    BY <2>1, FileAssumption DEF Open, Failed, IInv, FileTypeOK
  <2>4. ~Open' /\ ~Failed' /\ Visible' = NoContent
    BY <1>2, <2>2 DEF Failed
  <2>5. QED
    BY <1>1, <2>3, <2>4, Closed, StaysClosed DEF Shown
<1>4. CASE ~Lock(p)
  <2>1. stage[p] # "off"
    BY <1>4
  <2>2. /\ lock = p
        /\ Open <=> p \in serving
        /\ Visible = IF p \notin serving THEN NoContent
                     ELSE IF stage[p] \in Saving THEN previous[p] ELSE state[p]
    BY <2>1, Owner
  <2>3. Open' = Open /\ Failed' = Failed
    BY <1>2, <2>2 DEF Open, Failed
  <2>4. Visible' = Visible
    BY <1>2, <1>4, <2>2
  <2>5. QED BY <1>1, <2>3, <2>4 DEF Shown
<1>5. QED BY <1>3, <1>4

LEMMA MapsRename ==
    ASSUME IInv, IInv', NEW p \in Processes, RenameTemp(p)
    PROVE  Promise!Attempts(state[p]) \/ Promise!Tries
<1>1. /\ stage[p] = "rename" /\ stage'[p] = "flush"
      /\ temp[p].data = state[p]
      /\ previous[p] \in Contents
      /\ Before(p)
      /\ p \notin writeErr
  BY DEF IInv, ProcessOK, FileTypeOK, RenameTemp, Goto, Saving
<1>2. Candidates' = Candidates \cup {state[p]}
  BY <1>1 DEF RenameTemp, Candidates
<1>3. /\ lock = p /\ lock' = p
      /\ Open <=> p \in serving
      /\ Visible = IF p \notin serving THEN NoContent ELSE previous[p]
      /\ Visible' = IF p \notin serving THEN NoContent ELSE previous[p]
  BY <1>1, Owner DEF RenameTemp, Visible, Open, Saving
<1>4. ~Failed /\ Failed' = Failed /\ Open' = Open
  BY <1>1, <1>3 DEF Failed, Open, RenameTemp
<1>5. CASE p \in serving
  <2>1. Candidates = {previous[p]}
    BY <1>1, <1>5 DEF Before, Candidates
  <2>2. QED
    BY <1>2, <1>3, <1>4, <1>5, <2>1 DEF Promise!Attempts, Candidates, Failed
<1>6. CASE p \notin serving
  <2>1. state[p] = Bound[previous[p]] /\ previous[p] = path.data
    BY <1>1, <1>6 DEF IInv, ProcessOK, Before, Saving
  <2>2. \E loaded \in Candidates : Candidates' = Candidates \cup {Bound[loaded]}
    BY <1>2, <2>1, SomeCandidate
  <2>3. QED
    BY <1>3, <1>4, <1>6, <2>2 DEF Promise!Tries, Candidates, Failed
<1>7. QED BY <1>5, <1>6

LEMMA MapsFlush ==
    ASSUME IInv, IInv', NEW p \in Processes, FlushDirectory(p)
    PROVE  Promise!Commits(state[p]) \/ Promise!Starts
<1>1. /\ stage[p] = "flush" /\ stage'[p] = "idle"
      /\ previous[p] \in Contents /\ state[p] \in Contents
      /\ After(p)
      /\ p \notin writeErr
  BY DEF IInv, ProcessOK, FileTypeOK, FlushDirectory, Returned, Goto, Saving
<1>2. Candidates' = {state[p]}
  BY <1>1 DEF FlushDirectory, Returned, Candidates, After
<1>3. /\ lock = p /\ lock' = p
      /\ Open <=> p \in serving
      /\ Visible = IF p \notin serving THEN NoContent ELSE previous[p]
      /\ Open' = TRUE /\ Visible' = state[p]
  <2>1. lock = p /\ lock' = p /\ p \in serving' /\ state' = state
    BY <1>1, Owner DEF FlushDirectory, Returned
  <2>2. Open' = TRUE /\ Visible' = state[p]
    BY <1>1, <2>1 DEF Open, Visible, Saving
  <2>3. QED
    BY <1>1, <2>1, <2>2, Owner DEF Saving
<1>4. ~Failed /\ Failed' = Failed
  BY <1>1, <1>3 DEF Failed, FlushDirectory, Returned
<1>5. CASE p \in serving
  <2>1. Candidates = {previous[p], state[p]}
    BY <1>1, <1>5 DEF After
  <2>2. Open' = Open
    BY <1>3, <1>5 DEF Open
  <2>3. QED
    BY <1>2, <1>3, <1>4, <1>5, <2>1, <2>2 DEF Promise!Commits, Candidates, Failed
<1>6. CASE p \notin serving
  <2>1. state[p] = Bound[previous[p]] /\ state[p] \in Candidates
    BY <1>1, <1>6, SomeCandidate DEF IInv, ProcessOK, After, Saving
  <2>2. QED
    BY <1>1, <1>2, <1>3, <1>4, <1>6, <2>1 DEF Promise!Starts, Candidates, Failed
<1>7. QED BY <1>5, <1>6

LEMMA MapsFails ==
    ASSUME IInv, IInv', NEW p \in Processes, SaveFails(p)
    PROVE  Promise!Fails \/ Promise!Dies \/ UNCHANGED Shown
<1>1. CASE p \notin serving
  BY <1>1, MapsGone DEF SaveFails, Saving
<1>2. CASE p \in serving
  <2>1. /\ stage[p] \in Saving /\ stage'[p] = "idle"
        /\ state'[p] = previous[p]
        /\ p \notin writeErr /\ p \in writeErr'
    BY <1>2 DEF IInv, ProcessOK, FileTypeOK, SaveFails, Goto, Saving
  <2>2. lock = p /\ lock' = p /\ serving' = serving /\ survivors' = survivors
    BY <1>2, <2>1, Owner DEF SaveFails, Saving
  <2>3. /\ Open' = Open /\ Open
        /\ Visible = previous[p] /\ Visible' = previous[p]
    BY <1>2, <2>1, <2>2 DEF Open, Visible, Saving
  <2>4. ~Failed /\ Failed' = TRUE
    BY <2>1, <2>2 DEF Failed
  <2>5. QED
    BY <2>2, <2>3, <2>4 DEF Promise!Fails, Failed
<1>3. QED BY <1>1, <1>2

LEMMA MapsNext ==
    ASSUME IInv, IInv', [FileNext]_fileVars
    PROVE  Promise!AcknowledgedNext \/ UNCHANGED Shown
<1>1. CASE UNCHANGED fileVars
  BY <1>1 DEF fileVars, fsVars, processVars, Shown, Open, Visible, Candidates, Failed
<1>2. CASE PowerLoss
  BY <1>2, MapsPowerLoss DEF Promise!AcknowledgedNext
<1>3. ASSUME NEW p \in Processes, Lock(p) PROVE UNCHANGED Shown
  BY <1>3, MapsQuiet DEF Lock, Goto, IInv, FileTypeOK
<1>4. ASSUME NEW p \in Processes, Load(p) PROVE UNCHANGED Shown
  <2>1. stage[p] = "load" /\ stage'[p] = "bind"
        /\ UNCHANGED <<survivors, serving, writeErr>>
    BY <1>4 DEF Load, Goto, IInv, FileTypeOK, fsVars
  <2>2. p \notin serving
    BY <2>1 DEF IInv, ProcessOK, Saving
  <2>3. QED BY <2>1, <2>2, MapsQuiet
<1>5. ASSUME NEW p \in Processes, Die(p) \/ Refuse(p)
      PROVE Promise!Dies \/ UNCHANGED Shown
  BY <1>5, MapsGone DEF Die, Refuse
<1>6. ASSUME NEW p \in Processes, NEW next \in Contents, Begins(p, next),
             stage[p] \in {"bind", "idle"}
      PROVE UNCHANGED Shown
  <2>1. /\ stage[p] # "off" /\ stage[p] \notin Saving /\ stage'[p] = "create"
        /\ previous'[p] = state[p]
        /\ UNCHANGED <<survivors, serving, writeErr>>
    BY <1>6 DEF Begins, Goto, IInv, FileTypeOK, fsVars, Saving
  <2>2. stage'[p] # "off" /\ stage'[p] \in Saving
    BY <2>1 DEF Saving
  <2>3. QED BY <2>1, <2>2, MapsQuiet
<1>7. ASSUME NEW p \in Processes, Bind(p) PROVE UNCHANGED Shown
  <2>1. state[p] \in Contents
    BY <1>7 DEF Bind, IInv, ProcessOK, DiskOK, Whole
  <2>2. Bound[state[p]] \in Contents
    BY <2>1, FileAssumption
  <2>3. QED BY <1>6, <1>7, <2>2 DEF Bind
<1>8. ASSUME NEW p \in Processes, NEW next \in Contents, Update(p, next)
      PROVE UNCHANGED Shown
  BY <1>6, <1>8 DEF Update
<1>9. ASSUME NEW p \in Processes, CreateTemp(p) \/ WriteTemp(p) \/ SyncTemp(p)
      PROVE UNCHANGED Shown
  <2>1. /\ stage[p] \in Saving /\ stage'[p] \in Saving
        /\ previous'[p] = previous[p]
        /\ UNCHANGED <<survivors, serving, writeErr>>
    BY <1>9 DEF CreateTemp, WriteTemp, SyncTemp, Goto, IInv, FileTypeOK, fsVars, Saving
  <2>2. stage[p] # "off" /\ stage'[p] # "off"
    BY <2>1 DEF Saving
  <2>3. QED BY <2>1, <2>2, MapsQuiet
<1>10. ASSUME NEW p \in Processes, RenameTemp(p) \/ FlushDirectory(p)
       PROVE Promise!AcknowledgedNext
  <2>1. state[p] \in Contents
    BY <1>10 DEF IInv, ProcessOK, RenameTemp, FlushDirectory, Saving
  <2>2. CASE RenameTemp(p)
    <3>1. Promise!Attempts(state[p]) \/ Promise!Tries
      BY <2>2, MapsRename
    <3>2. QED BY ONLY <2>1, <3>1 DEF Promise!AcknowledgedNext, Promise!Attempts
  <2>3. CASE FlushDirectory(p)
    <3>1. Promise!Commits(state[p]) \/ Promise!Starts
      BY <2>3, MapsFlush
    <3>2. QED BY ONLY <2>1, <3>1 DEF Promise!AcknowledgedNext, Promise!Commits
  <2>4. QED BY <1>10, <2>2, <2>3
<1>11. ASSUME NEW p \in Processes, SaveFails(p)
       PROVE Promise!AcknowledgedNext \/ UNCHANGED Shown
  BY <1>11, MapsFails DEF Promise!AcknowledgedNext
<1>12. CASE FileNext
  BY <1>2, <1>3, <1>4, <1>5, <1>7, <1>8, <1>9, <1>10, <1>11, <1>12
     DEF FileNext, Save, Promise!AcknowledgedNext
<1>13. QED BY <1>1, <1>12

\* The system calls keep the promise of AcknowledgedState: whatever call of
\* whatever process fails or is cut off, a start meets the last acknowledged
\* state or a later one, and nothing but what an acknowledged save wrote
\* survives it.
THEOREM KeepsPromiseCorrect == FileSpec => KeepsPromise
<1>1. IInv /\ IInv' /\ [FileNext]_fileVars
      => [Promise!AcknowledgedNext]_<<Open, Visible, {f.data : f \in survivors}, Failed>>
  BY MapsNext DEF Shown, Candidates
<1>2. QED
  BY MapsInit, Invariance, <1>1, PTL
     DEF FileSpec, KeepsPromise, Promise!AcknowledgedSpec, Promise!acknowledgedVars, Failed
=============================================================================
