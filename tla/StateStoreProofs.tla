-------------------------- MODULE StateStoreProofs --------------------------
(***************************************************************************)
(* Type correctness, the fence and the refinement of StateStore, for every *)
(* set of requests, servers and counters.                                  *)
(*                                                                         *)
(* Every update builds the next state from mem and saves it, so the        *)
(* invariant is stated of one state (Sound) and proved once of each        *)
(* operator that builds a state; SaveKeepsSound lifts it to memory and     *)
(* disk for whichever outcome the save has.                                *)
(* The second half is about the counters: what protects a key does not     *)
(* fall, and a start that is repeated changes nothing.                     *)
(***************************************************************************)
EXTENDS StateStore, WellFoundedInduction, TLAPS

\* The journal entry under a key belongs to a request with that key.
FromRequests(s) ==
    \A k \in Pending(s) : \E r \in Requests : r.key = k /\ IsEntryOf(s.operations[k], r)

Sound(s) ==
    /\ s \in State
    /\ FencesHold(s)
    /\ Pending(s) \cap s.completed = {}
    /\ FromRequests(s)

IInv ==
    /\ open \in BOOLEAN
    /\ writeErr \in BOOLEAN
    /\ writeErr => open
    /\ clients \in Bindings
    /\ begunOn \in [Keys -> Servers \cup {NoServer}]
    /\ MemIsDisk
    /\ Sound(mem)
    /\ Sound(disk)

-----------------------------------------------------------------------------
\* A request is its key and what identifies the operation.
LEMMA RequestIdentity ==
    ASSUME NEW q \in Requests, NEW r \in Requests, q.key = r.key, IsEntryOf(q, r)
    PROVE  q = r
  <1>1. \A x \in Requests :
           x = [key |-> x.key, kind |-> x.kind, subject |-> x.subject, download |-> x.download]
    BY RequestAssumption
  <1>2. q = [key |-> q.key, kind |-> q.kind, subject |-> q.subject, download |-> q.download]
    BY <1>1
  <1>3. r = [key |-> r.key, kind |-> r.kind, subject |-> r.subject, download |-> r.download]
    BY <1>1
  <1> QED
    BY <1>2, <1>3 DEF IsEntryOf

-----------------------------------------------------------------------------
(* The operators that build a state. *)

\* A counter never leaves its range: the largest of some counters is one.
LEMMA HighestType ==
    ASSUME NEW S \in SUBSET (0 .. MaxInt)
    PROVE  Highest(S) \in 0 .. MaxInt
  <1>1. CASE \E n \in S : \A m \in S : m <= n
    <2>1. Highest(S) = CHOOSE n \in S : \A m \in S : m <= n
      BY <1>1 DEF Highest
    <2>2. (CHOOSE n \in S : \A m \in S : m <= n) \in S
      BY <1>1, Zenon
    <2> QED
      BY <2>1, <2>2
  <1>2. CASE ~\E n \in S : \A m \in S : m <= n
    BY <1>2, StoreAssumption DEF Highest
  <1> QED
    BY <1>1, <1>2

\* Loading splits counters and binds servers; the journal is left alone.
LEMMA BoundSound ==
    ASSUME NEW s, Sound(s), NEW configured \in Bindings
    PROVE  /\ Sound(Bound(Migrated(s), configured))
           /\ Bound(Migrated(s), configured).operations = s.operations
           /\ Bound(Migrated(s), configured).completed = s.completed
  <1> DEFINE m == Migrated(s)
             b == Bound(m, configured)
  <1>1. s \in State
    BY DEF Sound
  <1>2. m.attempts \in [RetryKeys -> 0 .. MaxInt]
    <2> SUFFICES ASSUME NEW k \in RetryKeys, k \notin Legacy
                 PROVE  Highest({s.attempts[k]}
                            \cup {s.attempts[l] : l \in {n \in Legacy : k \in Parts[n]}})
                          \in 0 .. MaxInt
      BY <1>1, StoreAssumption DEF Migrated, State
    <2>1. {s.attempts[k]} \cup {s.attempts[l] : l \in {n \in Legacy : k \in Parts[n]}}
            \in SUBSET (0 .. MaxInt)
      BY <1>1, StoreAssumption DEF State
    <2> QED
      BY <2>1, HighestType
  <1>3. m \in State /\ m.operations = s.operations /\ m.completed = s.completed
    <2>1. m = [s EXCEPT !.attempts = m.attempts]
      BY <1>1 DEF Migrated, State
    <2> QED
      BY <1>1, <1>2, <2>1 DEF State
  <1>4. b \in State /\ b.operations = s.operations /\ b.completed = s.completed
    BY <1>3 DEF Bound, State, Bindings
  <1> QED
    BY <1>4 DEF Sound, Pending, FencesHold, FromRequests

\* Charging or resetting counters leaves the journal alone.
LEMMA AttemptsSound ==
    ASSUME NEW s, Sound(s), NEW retryKeys, NEW n \in 0 .. MaxInt
    PROVE  /\ Sound(WithAttempts(s, retryKeys, n))
           /\ WithAttempts(s, retryKeys, n).operations = s.operations
           /\ WithAttempts(s, retryKeys, n).completed = s.completed
  <1> DEFINE a == WithAttempts(s, retryKeys, n)
  <1>1. s \in State
    BY DEF Sound
  <1>2. a \in State /\ a.operations = s.operations /\ a.completed = s.completed
    BY <1>1 DEF WithAttempts, State
  <1> QED
    BY <1>2 DEF Sound, Pending, FencesHold, FromRequests

\* Rewriting an entry without touching what identifies it keeps every fence.
LEMMA RewriteSound ==
    ASSUME NEW s, Sound(s), NEW k \in Pending(s), NEW op \in Operation,
           op.kind = s.operations[k].kind,
           op.subject = s.operations[k].subject,
           op.download = s.operations[k].download
    PROVE  /\ Sound(WithOperation(s, k, op))
           /\ Unfinished(WithOperation(s, k, op)) = Unfinished(s)
           /\ WithOperation(s, k, op).completed = s.completed
  <1> DEFINE w == WithOperation(s, k, op)
  <1>1. s \in State /\ k \in Keys
    BY DEF Sound, Pending
  <1>2. w \in State /\ w.completed = s.completed
    BY <1>1 DEF WithOperation, State
  <1>3. w.operations = [s.operations EXCEPT ![k] = op]
    BY <1>1 DEF WithOperation, State
  <1>4. Pending(w) = Pending(s)
    BY <1>1, <1>3, NoOpAssumption DEF Pending, State
  <1>5. \A j \in Pending(w) :
            /\ w.operations[j].kind = s.operations[j].kind
            /\ w.operations[j].subject = s.operations[j].subject
            /\ w.operations[j].download = s.operations[j].download
    BY <1>1, <1>3, <1>4 DEF Pending, State
  <1>6. FencesHold(w)
    BY <1>4, <1>5 DEF Sound, FencesHold, Fences
  <1>7. FromRequests(w)
    BY <1>4, <1>5 DEF Sound, FromRequests, IsEntryOf
  <1>8. Unfinished(w) = Unfinished(s)
    BY <1>4, <1>5 DEF Unfinished, IsEntryOf
  <1> QED
    BY <1>2, <1>4, <1>6, <1>7, <1>8 DEF Sound

\* The three calls that rewrite an entry.
LEMMA PhaseSound ==
    ASSUME NEW s, Sound(s), NEW k \in Pending(s), NEW phase \in Phases
    PROVE  /\ Sound(WithPhase(s, k, phase))
           /\ Unfinished(WithPhase(s, k, phase)) = Unfinished(s)
           /\ WithPhase(s, k, phase).completed = s.completed
  <1> DEFINE op == [s.operations[k] EXCEPT !.phase = phase]
  <1>1. s.operations[k] \in Operation
    BY DEF Sound, State, Pending
  <1>2. op \in Operation /\ op.kind = s.operations[k].kind
          /\ op.subject = s.operations[k].subject /\ op.download = s.operations[k].download
    BY <1>1 DEF Operation
  <1> HIDE DEF op
  <1>3. /\ Sound(WithOperation(s, k, op))
        /\ Unfinished(WithOperation(s, k, op)) = Unfinished(s)
        /\ WithOperation(s, k, op).completed = s.completed
    BY <1>2, RewriteSound
  <1> QED
    BY <1>3 DEF WithPhase, op

LEMMA OriginSound ==
    ASSUME NEW s, Sound(s), NEW k \in Pending(s), NEW automatic \in BOOLEAN
    PROVE  /\ Sound(WithOrigin(s, k, automatic))
           /\ Unfinished(WithOrigin(s, k, automatic)) = Unfinished(s)
           /\ WithOrigin(s, k, automatic).completed = s.completed
  <1> DEFINE op == [s.operations[k] EXCEPT !.phase = "origin-requested",
                                           !.automatic = automatic]
  <1>1. s.operations[k] \in Operation
    BY DEF Sound, State, Pending
  <1>2. op \in Operation /\ op.kind = s.operations[k].kind
          /\ op.subject = s.operations[k].subject /\ op.download = s.operations[k].download
    BY <1>1 DEF Operation, Phases
  <1> HIDE DEF op
  <1>3. /\ Sound(WithOperation(s, k, op))
        /\ Unfinished(WithOperation(s, k, op)) = Unfinished(s)
        /\ WithOperation(s, k, op).completed = s.completed
    BY <1>2, RewriteSound
  <1> QED
    BY <1>3 DEF WithOrigin, op

LEMMA SubmittedSound ==
    ASSUME NEW s, Sound(s), NEW k \in Pending(s)
    PROVE  /\ Sound(WithSubmittedImport(s, k))
           /\ Unfinished(WithSubmittedImport(s, k)) = Unfinished(s)
           /\ WithSubmittedImport(s, k).completed = s.completed
  <1> DEFINE op == [s.operations[k] EXCEPT !.phase = "manual-import-submitted",
                                           !.import = "submitted"]
  <1>1. s.operations[k] \in Operation
    BY DEF Sound, State, Pending
  <1>2. op \in Operation /\ op.kind = s.operations[k].kind
          /\ op.subject = s.operations[k].subject /\ op.download = s.operations[k].download
    BY <1>1 DEF Operation, Phases
  <1> HIDE DEF op
  <1>3. /\ Sound(WithOperation(s, k, op))
        /\ Unfinished(WithOperation(s, k, op)) = Unfinished(s)
        /\ WithOperation(s, k, op).completed = s.completed
    BY <1>2, RewriteSound
  <1> QED
    BY <1>3 DEF WithSubmittedImport, op

\* Completing an operation closes exactly its request.
LEMMA CompletionSound ==
    ASSUME NEW s, Sound(s), NEW k \in Pending(s)
    PROVE  /\ Sound(WithCompletion(s, k))
           /\ WithCompletion(s, k).completed = s.completed \cup {k}
           /\ \E r \in Unfinished(s) :
                 r.key = k /\ Unfinished(WithCompletion(s, k)) = Unfinished(s) \ {r}
  <1> DEFINE w == WithCompletion(s, k)
  <1>1. s \in State /\ k \in Keys
    BY DEF Sound, Pending
  <1>2. /\ w \in State
        /\ w.operations = [s.operations EXCEPT ![k] = NoOp]
        /\ w.completed = s.completed \cup {k}
    BY <1>1 DEF WithCompletion, WithOperation, State
  <1>3. Pending(w) = Pending(s) \ {k}
    BY <1>1, <1>2 DEF Pending, State
  <1>4. \A j \in Pending(w) : w.operations[j] = s.operations[j]
    BY <1>1, <1>2, <1>3 DEF Pending, State
  <1>5. FencesHold(w)
    BY <1>3, <1>4 DEF Sound, FencesHold
  <1>6. FromRequests(w)
    BY <1>3, <1>4 DEF Sound, FromRequests
  <1>7. Pending(w) \cap w.completed = {}
    BY <1>2, <1>3 DEF Sound
  <1>8. PICK r \in Requests : r.key = k /\ IsEntryOf(s.operations[k], r)
    BY DEF Sound, FromRequests
  <1>9. \A q \in Requests : q.key = k /\ IsEntryOf(s.operations[k], q) => q = r
    BY <1>8, RequestIdentity DEF IsEntryOf
  <1>10. Unfinished(w) = Unfinished(s) \ {r}
    BY <1>3, <1>4, <1>8, <1>9 DEF Unfinished
  <1>11. r \in Unfinished(s)
    BY <1>8 DEF Unfinished
  <1> QED
    BY <1>2, <1>5, <1>6, <1>7, <1>8, <1>10, <1>11 DEF Sound

\* The key of an unfenced request is free: its own entry would have fenced it.
LEMMA KeyFree ==
    ASSUME NEW s, Sound(s), NEW r \in Requests, NEW op, IsEntryOf(op, r),
           \A k \in Pending(s) : ~Fences(s.operations[k], op)
    PROVE  r.key \notin Pending(s)
  <1> SUFFICES ASSUME r.key \in Pending(s) PROVE FALSE
    OBVIOUS
  <1>1. PICK q \in Requests : q.key = r.key /\ IsEntryOf(s.operations[r.key], q)
    BY DEF Sound, FromRequests
  <1>2. Fences(q, r)
    BY <1>1, RequestAssumption
  <1>3. Fences(s.operations[r.key], op)
    BY <1>1, <1>2 DEF Fences, IsEntryOf
  <1> QED
    BY <1>3

\* Beginning an unfenced operation opens exactly its request.
LEMMA BegunSound ==
    ASSUME NEW s, Sound(s), NEW r \in Requests, NEW op \in Operation, IsEntryOf(op, r),
           NEW retryKeys, NEW n \in 0 .. MaxInt,
           r.key \notin s.completed,
           \A k \in Pending(s) : ~Fences(s.operations[k], op)
    PROVE  /\ Sound(Begun(s, r.key, op, retryKeys, n))
           /\ Begun(s, r.key, op, retryKeys, n).completed = s.completed
           /\ Unfinished(Begun(s, r.key, op, retryKeys, n)) = Unfinished(s) \cup {r}
           /\ \A u \in Unfinished(s) : ~Fences(u, r)
  <1> DEFINE a == WithAttempts(s, retryKeys, n)
             w == WithOperation(a, r.key, op)
  <1>1. /\ r.key \in Keys
        /\ op.kind = r.kind /\ op.subject = r.subject /\ op.download = r.download
    BY RequestAssumption DEF IsEntryOf
  <1>2. Sound(a) /\ a.operations = s.operations /\ a.completed = s.completed
    BY AttemptsSound
  <1>3. Pending(a) = Pending(s) /\ Unfinished(a) = Unfinished(s)
    BY <1>2 DEF Pending, Unfinished
  <1> HIDE DEF a
  <1>4. \A u \in Unfinished(s) : ~Fences(u, r)
    <2> SUFFICES ASSUME NEW u \in Unfinished(s), Fences(u, r)
                 PROVE  FALSE
      OBVIOUS
    <2>1. u.key \in Pending(s) /\ IsEntryOf(s.operations[u.key], u)
      BY DEF Unfinished
    <2>2. Fences(s.operations[u.key], op)
      BY <1>1, <2>1 DEF Fences, IsEntryOf
    <2> QED
      BY <2>1, <2>2
  <1>5. r.key \notin Pending(a)
    BY <1>2, <1>3, KeyFree
  <1>6. a \in State
    BY <1>2 DEF Sound
  <1>7. /\ w \in State
        /\ w.operations = [a.operations EXCEPT ![r.key] = op]
        /\ w.completed = a.completed
    BY <1>1, <1>6 DEF WithOperation, State
  <1>8. Pending(w) = Pending(a) \cup {r.key}
    BY <1>1, <1>6, <1>7, NoOpAssumption DEF Pending, State
  <1>9. w.operations[r.key] = op
    BY <1>1, <1>6, <1>7 DEF State
  <1>10. \A j \in Pending(a) : w.operations[j] = a.operations[j]
    BY <1>5, <1>6, <1>7 DEF Pending, State
  <1>11. \A j \in Pending(a) : ~Fences(a.operations[j], op) /\ ~Fences(op, a.operations[j])
    <2>1. \A j \in Pending(a) : ~Fences(a.operations[j], op)
      BY <1>2, <1>3
    <2> QED
      BY <2>1 DEF Fences
  <1>12. FencesHold(w)
    <2> SUFFICES ASSUME NEW j \in Pending(w), NEW k \in Pending(w), j # k
                 PROVE  ~Fences(w.operations[j], w.operations[k])
      BY DEF FencesHold
    <2>1. CASE j = r.key
      BY <2>1, <1>8, <1>9, <1>10, <1>11
    <2>2. CASE k = r.key
      BY <2>2, <1>8, <1>9, <1>10, <1>11
    <2>3. CASE j # r.key /\ k # r.key
      BY <2>3, <1>2, <1>8, <1>10 DEF Sound, FencesHold
    <2> QED
      BY <2>1, <2>2, <2>3
  <1>13. FromRequests(w)
    BY <1>1, <1>2, <1>8, <1>9, <1>10 DEF Sound, FromRequests, IsEntryOf
  <1>14. Pending(w) \cap w.completed = {}
    BY <1>2, <1>7, <1>8 DEF Sound
  <1>15. Unfinished(w) = Unfinished(s) \cup {r}
    <2>1. \A q \in Requests : q.key = r.key /\ IsEntryOf(op, q) <=> q = r
      BY <1>1, RequestIdentity DEF IsEntryOf
    <2> QED
      BY <1>3, <1>5, <1>8, <1>9, <1>10, <2>1 DEF Unfinished
  <1>16. Sound(w) /\ w.completed = s.completed
    BY <1>2, <1>7, <1>12, <1>13, <1>14 DEF Sound
  <1> QED
    BY <1>4, <1>15, <1>16 DEF Begun, a

\* The entry Begin writes is an operation, and belongs to its request.
LEMMA NewOperationType ==
    ASSUME NEW r \in Requests, NEW phase \in Phases, NEW automatic \in BOOLEAN,
           NEW import \in {"none", "requested", "submitted"}
    PROVE  /\ NewOperation(r, phase, automatic, import) \in Operation
           /\ IsEntryOf(NewOperation(r, phase, automatic, import), r)
  BY RequestAssumption DEF NewOperation, Operation, IsEntryOf

-----------------------------------------------------------------------------
(* The save, and the invariant. *)

\* Whatever the save's outcome, memory and disk are sound if the state saved
\* and the state kept are; while no save has failed they agree.
LEMMA SaveKeepsSound ==
    ASSUME IInv, NEW next, Sound(next), Update(next)
    PROVE  /\ Sound(mem') /\ Sound(disk')
           /\ open' = open /\ writeErr' \in BOOLEAN /\ open
           /\ MemIsDisk'
           /\ disk' = disk \/ (mem = disk /\ disk' = next)
  <1>1. mem = disk
    BY DEF IInv, MemIsDisk, Update, Commits, CommitFails, Writable
  <1>2. CASE Commits(next)
    BY <1>1, <1>2 DEF IInv, Commits, Writable, MemIsDisk
  <1>3. CASE CommitFails(next)
    BY <1>1, <1>3 DEF IInv, CommitFails, Writable, MemIsDisk
  <1> QED
    BY <1>2, <1>3 DEF Update

\* A step that saves a sound state and leaves the ghost and the clients typed.
LEMMA SavingStep ==
    ASSUME IInv, NEW next, Sound(next), Update(next),
           clients' = clients, begunOn' \in [Keys -> Servers \cup {NoServer}]
    PROVE  IInv'
  BY SaveKeepsSound DEF IInv, Bindings, MemIsDisk, Sound, State, Operation, Pending,
        FencesHold, Fences, FromRequests, IsEntryOf, Phases

LEMMA InitInv == Init => IInv
  <1> SUFFICES ASSUME Init PROVE IInv
    OBVIOUS
  <1>1. disk \in State /\ Pending(disk) = {} /\ disk.completed = {}
    BY DEF Init, State, Pending
  <1>2. Sound(disk)
    BY <1>1 DEF Sound, FencesHold, FromRequests
  <1> QED
    BY <1>2 DEF Init, IInv, MemIsDisk, Bindings

LEMMA StartInv ==
    ASSUME IInv, NEW configured \in Bindings, Start(configured)
    PROVE  IInv'
  <1> DEFINE b == Bound(Migrated(disk), configured)
  <1>1. Sound(b)
    BY BoundSound DEF IInv
  <1> HIDE DEF b
  <1>2. CASE Starts(b) /\ clients' = configured
    <2>1. Sound(mem)' /\ Sound(disk)'
      BY <1>1, <1>2 DEF Starts, Sound, State, Operation, Pending, FencesHold, Fences,
            FromRequests, IsEntryOf, Phases
    <2> QED
      BY <1>2, <2>1 DEF Start, Starts, IInv, MemIsDisk, Bindings
  <1>3. CASE StartFails(b) /\ UNCHANGED clients
    <2>1. Sound(mem)' /\ Sound(disk)'
      BY <1>1, <1>3 DEF IInv, StartFails, Sound, State, Operation, Pending, FencesHold, Fences,
            FromRequests, IsEntryOf, Phases
    <2> QED
      BY <1>3, <2>1 DEF Start, StartFails, IInv, MemIsDisk, Bindings
  <1> QED
    BY <1>2, <1>3 DEF Start, b

LEMMA StopInv ==
    ASSUME IInv, Stop
    PROVE  IInv'
  <1>1. Sound(mem)' /\ Sound(disk)'
    BY DEF Stop, Crash, IInv, Sound, State, Operation, Pending, FencesHold, Fences,
          FromRequests, IsEntryOf, Phases
  <1> QED
    BY <1>1 DEF Stop, Crash, IInv, MemIsDisk, Bindings

LEMMA BeginInv ==
    ASSUME IInv, NEW r \in Requests, NEW phase \in Phases, NEW automatic \in BOOLEAN,
           NEW import \in {"none", "requested", "submitted"},
           NEW retryKeys, NEW attempt \in 0 .. MaxInt,
           Begin(r, phase, automatic, import, retryKeys, attempt)
    PROVE  IInv'
  <1> DEFINE op == NewOperation(r, phase, automatic, import)
  <1>1. op \in Operation /\ IsEntryOf(op, r)
    BY NewOperationType
  <1>2. /\ r.key \notin mem.completed
        /\ \A k \in Pending(mem) : ~Fences(mem.operations[k], op)
        /\ Update(Begun(mem, r.key, op, retryKeys, attempt))
        /\ clients' = clients
    BY DEF Begin, AlreadyDone, Fenced
  <1>3. begunOn' \in [Keys -> Servers \cup {NoServer}] /\ Sound(mem)
    BY RequestAssumption DEF IInv, Begin, Bindings
  <1> HIDE DEF op
  <1>4. Sound(Begun(mem, r.key, op, retryKeys, attempt))
    BY <1>1, <1>2, <1>3, BegunSound
  <1> QED
    BY <1>2, <1>3, <1>4, SavingStep

\* The phases FirstPhases and LaterPhases name are phases.
LEMMA PhaseTypes ==
    /\ LaterPhases \subseteq Phases
    /\ "search-requested" \in Phases
    /\ \A first \in FirstPhases :
          first[1] \in Phases /\ first[2] \in {"none", "requested", "submitted"}
  BY DEF LaterPhases, MediaLater, RemovalLater, ImportLater,
         FirstPhases, MediaFirst, RemovalFirst, ImportFirst, Phases

\* The invariant is inductive: one case for each action of the store.
LEMMA NextInv == IInv /\ [Next]_vars => IInv'
  <1> SUFFICES ASSUME IInv, [Next]_vars PROVE IInv'
    OBVIOUS
  <1>0. begunOn \in [Keys -> Servers \cup {NoServer}] /\ Sound(mem)
    BY DEF IInv
  <1>1. ASSUME NEW configured \in Bindings, Start(configured) PROVE IInv'
    BY <1>1, StartInv
  <1>2. CASE Stop
    BY <1>2, StopInv
  <1>3. CASE BeginAny
    BY <1>3, BeginInv, PhaseTypes DEF BeginAny
  <1>4. ASSUME NEW key \in Keys, NEW phase \in LaterPhases, Phase(key, phase) PROVE IInv'
    <2>1. Sound(WithPhase(mem, key, phase))
      BY <1>0, <1>4, PhaseSound, PhaseTypes DEF Phase
    <2> QED
      BY <1>0, <1>4, <2>1, SavingStep DEF Phase
  <1>5. ASSUME NEW key \in Keys, NEW automatic \in BOOLEAN, OriginRequested(key, automatic)
        PROVE IInv'
    <2>1. Sound(WithOrigin(mem, key, automatic))
      BY <1>0, <1>5, OriginSound DEF OriginRequested
    <2> QED
      BY <1>0, <1>5, <2>1, SavingStep DEF OriginRequested
  <1>6. ASSUME NEW key \in Keys, SearchRequested(key) PROVE IInv'
    <2>1. Sound(WithPhase(mem, key, "search-requested"))
      BY <1>0, <1>6, PhaseSound, PhaseTypes DEF SearchRequested
    <2> QED
      BY <1>0, <1>6, <2>1, SavingStep DEF SearchRequested
  <1>7. ASSUME NEW key \in Keys, ImportSubmitted(key) PROVE IInv'
    <2>1. Sound(WithSubmittedImport(mem, key))
      BY <1>0, <1>7, SubmittedSound DEF ImportSubmitted
    <2> QED
      BY <1>0, <1>7, <2>1, SavingStep DEF ImportSubmitted
  <1>8. ASSUME NEW key \in Keys, Complete(key) PROVE IInv'
    <2>1. Sound(WithCompletion(mem, key))
      BY <1>0, <1>8, CompletionSound DEF Complete
    <2> QED
      BY <1>0, <1>8, <2>1, SavingStep DEF Complete
  <1>9. ASSUME NEW retryKey \in RetryKeys, Reset(retryKey) PROVE IInv'
    <2>1. Sound(WithAttempts(mem, {retryKey}, 0))
      BY <1>0, AttemptsSound, StoreAssumption
    <2> QED
      BY <1>0, <1>9, <2>1, SavingStep DEF Reset
  <1>10. CASE SaveWebhooks
    BY <1>0, <1>10, SavingStep DEF SaveWebhooks
  <1>11. CASE UNCHANGED vars
    BY <1>11 DEF IInv, vars, durableVars, MemIsDisk, Bindings, Sound, State, Operation,
          Pending, FencesHold, Fences, FromRequests, IsEntryOf, Phases
  <1> QED
    BY <1>1, <1>2, <1>3, <1>4, <1>5, <1>6, <1>7, <1>8, <1>9, <1>10, <1>11 DEF Next

\* The inductive invariant holds of every behaviour of the store.
LEMMA Invariance == Spec => []IInv
  BY InitInv, NextInv, PTL DEF Spec

-----------------------------------------------------------------------------
(* The results. *)

\* Every reachable state of the store is well typed (StateStore!TypeOK).
THEOREM TypeCorrect == Spec => []TypeOK
  <1>1. IInv => TypeOK
    BY DEF IInv, TypeOK, Sound
  <1> QED
    BY <1>1, Invariance, PTL

\* No two unfinished operations share a subject or a download, in memory or in
\* what a restart loads: Begin's fence for every set of requests.
THEOREM FenceCorrect == Spec => []FenceUnique
  <1>1. IInv => FenceUnique
    BY DEF IInv, FenceUnique, Sound
  <1> QED
    BY <1>1, Invariance, PTL

\* A completed key is never journalled again.
THEOREM DoneOnceCorrect == Spec => []DoneOnce
  <1>1. IInv => DoneOnce
    BY DEF IInv, DoneOnce, Sound
  <1> QED
    BY <1>1, Invariance, PTL

\* While no save has failed, every update that returned is on disk.
THEOREM DurableCorrect == Spec => []MemIsDisk
  <1>1. IInv => MemIsDisk
    BY DEF IInv
  <1> QED
    BY <1>1, Invariance, PTL

\* updateLocked refuses to write once a save has failed, and a restart loads
\* the file without writing it before Bind.
THEOREM FrozenCorrect == Spec => FrozenAfterFailure
  <1>1. IInv /\ [Next]_vars => [writeErr => disk' = disk /\ (open' => mem' = mem)]_vars
    <2> SUFFICES ASSUME IInv, Next, writeErr
                 PROVE  disk' = disk /\ (open' => mem' = mem)
      BY DEF vars, durableVars
    <2>1. open
      BY DEF IInv
    <2>2. \A next : ~Update(next)
      BY DEF Update, Commits, CommitFails, Writable
    <2>3. Stop
      BY <2>1, <2>2 DEF Next, Start, Starts, StartFails, BeginAny, Begin, Phase, OriginRequested,
            SearchRequested, ImportSubmitted, Complete, Reset, SaveWebhooks
    <2> QED
      BY <2>3 DEF Stop, Crash
  <1> QED
    BY <1>1, Invariance, PTL DEF Spec, FrozenAfterFailure

-----------------------------------------------------------------------------
(* The store implements the latch. *)

SameLatch == Unfinished(disk') = Unfinished(disk) /\ disk'.completed = disk.completed

Opens(r) ==
    /\ r.key \notin disk.completed
    /\ \A u \in Unfinished(disk) : ~Fences(u, r)
    /\ Unfinished(disk') = Unfinished(disk) \cup {r}
    /\ disk'.completed = disk.completed

Closes(r) ==
    /\ r \in Unfinished(disk)
    /\ Unfinished(disk') = Unfinished(disk) \ {r}
    /\ disk'.completed = disk.completed \cup {r.key}

\* Saving a state with the same journal leaves the latch alone.
LEMMA SaveKeepsLatch ==
    ASSUME IInv, NEW next, Sound(next), Update(next),
           Unfinished(next) = Unfinished(mem), next.completed = mem.completed
    PROVE  SameLatch
  BY SaveKeepsSound DEF SameLatch

\* What each step of the store does to the latch the file represents.
LEMMA LatchStep ==
    ASSUME IInv, [Next]_vars
    PROVE  SameLatch \/ \E r \in Requests : Opens(r) \/ Closes(r)
  <1>0. Sound(mem) /\ Sound(disk) /\ (Writable => mem = disk)
    BY DEF IInv, MemIsDisk, Writable
  <1>1. ASSUME NEW configured \in Bindings, Start(configured) PROVE SameLatch
    <2> DEFINE b == Bound(Migrated(disk), configured)
    <2>1. b.operations = disk.operations /\ b.completed = disk.completed
      BY <1>0, BoundSound
    <2>2. Unfinished(b) = Unfinished(disk)
      BY <2>1 DEF Unfinished, Pending
    <2>3. disk' \in {disk, b}
      BY <1>1 DEF Start, Starts, StartFails
    <2> HIDE DEF b
    <2> QED
      BY <2>1, <2>2, <2>3 DEF SameLatch
  <1>2. CASE Stop
    BY <1>2 DEF Stop, Crash, SameLatch
  <1>3. ASSUME NEW r \in Requests, NEW phase \in Phases, NEW automatic \in BOOLEAN,
               NEW import \in {"none", "requested", "submitted"},
               NEW retryKeys, NEW attempt \in 0 .. MaxInt,
               Begin(r, phase, automatic, import, retryKeys, attempt)
        PROVE  SameLatch \/ Opens(r)
    <2> DEFINE op == NewOperation(r, phase, automatic, import)
               next == Begun(mem, r.key, op, retryKeys, attempt)
    <2>1. op \in Operation /\ IsEntryOf(op, r)
      BY NewOperationType
    <2>2. /\ r.key \notin mem.completed
          /\ \A k \in Pending(mem) : ~Fences(mem.operations[k], op)
          /\ Update(next)
      BY <1>3 DEF Begin, AlreadyDone, Fenced
    <2> HIDE DEF op
    <2>3. /\ Sound(next)
          /\ next.completed = mem.completed
          /\ Unfinished(next) = Unfinished(mem) \cup {r}
          /\ \A u \in Unfinished(mem) : ~Fences(u, r)
      BY <1>0, <2>1, <2>2, BegunSound
    <2> HIDE DEF next
    <2>4. disk' = disk \/ (mem = disk /\ disk' = next)
      BY <2>2, <2>3, SaveKeepsSound
    <2> QED
      BY <2>2, <2>3, <2>4 DEF SameLatch, Opens
  <1>4. ASSUME NEW key \in Keys, NEW phase \in Phases, key \in Pending(mem),
               Update(WithPhase(mem, key, phase))
        PROVE  SameLatch
    BY <1>0, <1>4, PhaseSound, SaveKeepsLatch
  <1>5. ASSUME NEW key \in Keys, NEW automatic \in BOOLEAN, OriginRequested(key, automatic)
        PROVE  SameLatch
    BY <1>0, <1>5, OriginSound, SaveKeepsLatch DEF OriginRequested
  <1>6. ASSUME NEW key \in Keys, ImportSubmitted(key) PROVE SameLatch
    BY <1>0, <1>6, SubmittedSound, SaveKeepsLatch DEF ImportSubmitted
  <1>7. ASSUME NEW key \in Keys, Complete(key)
        PROVE  SameLatch \/ \E r \in Requests : Closes(r)
    <2>1. PICK r \in Unfinished(mem) :
             r.key = key /\ Unfinished(WithCompletion(mem, key)) = Unfinished(mem) \ {r}
      BY <1>0, <1>7, CompletionSound DEF Complete
    <2>2. /\ Sound(WithCompletion(mem, key))
          /\ WithCompletion(mem, key).completed = mem.completed \cup {key}
      BY <1>0, <1>7, CompletionSound DEF Complete
    <2>3. disk' = disk \/ (mem = disk /\ disk' = WithCompletion(mem, key))
      BY <1>7, <2>2, SaveKeepsSound DEF Complete
    <2>4. r \in Requests
      BY DEF Unfinished
    <2> QED
      BY <2>1, <2>2, <2>3, <2>4 DEF SameLatch, Closes
  <1>8. ASSUME NEW retryKey \in RetryKeys, Reset(retryKey) PROVE SameLatch
    <2>1. /\ Sound(WithAttempts(mem, {retryKey}, 0))
          /\ WithAttempts(mem, {retryKey}, 0).operations = mem.operations
          /\ WithAttempts(mem, {retryKey}, 0).completed = mem.completed
      BY <1>0, AttemptsSound, StoreAssumption
    <2>2. Unfinished(WithAttempts(mem, {retryKey}, 0)) = Unfinished(mem)
      BY <2>1 DEF Unfinished, Pending
    <2> QED
      BY <1>8, <2>1, <2>2, SaveKeepsLatch DEF Reset
  <1>9. CASE SaveWebhooks
    BY <1>0, <1>9, SaveKeepsLatch DEF SaveWebhooks
  <1>10. CASE UNCHANGED vars
    BY <1>10 DEF vars, durableVars, SameLatch
  <1>11. ASSUME NEW key \in Keys, NEW phase \in LaterPhases, Phase(key, phase) PROVE SameLatch
    BY <1>4, <1>11, PhaseTypes DEF Phase
  <1>12. ASSUME NEW key \in Keys, SearchRequested(key) PROVE SameLatch
    BY <1>4, <1>12, PhaseTypes DEF SearchRequested
  <1>13. ASSUME BeginAny PROVE SameLatch \/ \E r \in Requests : Opens(r)
    BY <1>3, <1>13, PhaseTypes DEF BeginAny
  <1> QED
    BY <1>1, <1>2, <1>5, <1>6, <1>7, <1>8, <1>9, <1>10, <1>11, <1>12, <1>13 DEF Next

\* Every entry on disk is the entry of one of the latch's unfinished requests.
LEMMA EntryIsUnfinished ==
    ASSUME IInv, NEW k \in Pending(disk)
    PROVE  \E r \in Unfinished(disk) : r.key = k /\ IsEntryOf(disk.operations[k], r)
  BY DEF IInv, Sound, FromRequests, Unfinished

\* A key that is in the journal on disk or completed stays one or the other.
LEMMA TraceKept ==
    ASSUME IInv, [Next]_vars, NEW k \in Pending(disk) \cup disk.completed
    PROVE  k \in Pending(disk') \cup disk'.completed
  <1>1. disk.completed \subseteq disk'.completed
    BY LatchStep DEF SameLatch, Opens, Closes
  <1>2. ASSUME NEW r \in Unfinished(disk) PROVE r.key \in Pending(disk') \cup disk'.completed
    <2>1. r \in Unfinished(disk') \/ r.key \in disk'.completed
      BY LatchStep DEF SameLatch, Opens, Closes
    <2> QED
      BY <2>1 DEF Unfinished
  <1> QED
    BY <1>1, <1>2, EntryIsUnfinished

\* What a state says of one key.
SameTrace(s, t, k) ==
    /\ t.operations[k] = s.operations[k]
    /\ k \in t.completed <=> k \in s.completed

\* A state that is built for one key says the same of every other.
LEMMA OneTrace ==
    ASSUME NEW s, Sound(s), NEW key \in Keys, NEW op, NEW ids, NEW n \in 0 .. MaxInt
    PROVE  /\ WithOperation(s, key, op).operations[key] = op
           /\ WithOperation(s, key, op).completed = s.completed
           /\ WithCompletion(s, key).operations[key] = NoOp
           /\ WithCompletion(s, key).completed = s.completed \cup {key}
           /\ Begun(s, key, op, ids, n).operations[key] = op
           /\ Begun(s, key, op, ids, n).completed = s.completed
           /\ \A k \in Keys \ {key} :
                 /\ SameTrace(s, WithOperation(s, key, op), k)
                 /\ SameTrace(s, WithCompletion(s, key), k)
                 /\ SameTrace(s, Begun(s, key, op, ids, n), k)
  <1>1. s \in State
    BY DEF Sound
  <1>2. ASSUME NEW t \in State, NEW o
        PROVE  /\ WithOperation(t, key, o).operations = [t.operations EXCEPT ![key] = o]
               /\ WithOperation(t, key, o).completed = t.completed
               /\ WithOperation(t, key, o).operations[key] = o
               /\ \A k \in Keys \ {key} : SameTrace(t, WithOperation(t, key, o), k)
    BY DEF WithOperation, State, SameTrace
  <1>3. /\ WithCompletion(s, key).operations = WithOperation(s, key, NoOp).operations
        /\ WithCompletion(s, key).completed = s.completed \cup {key}
    BY <1>1, <1>2 DEF WithCompletion, WithOperation, State
  <1> DEFINE a == WithAttempts(s, ids, n)
  <1>4. a \in State /\ a.operations = s.operations /\ a.completed = s.completed
    BY AttemptsSound DEF Sound
  <1>5. Begun(s, key, op, ids, n) = WithOperation(a, key, op)
    BY DEF Begun
  <1> HIDE DEF a
  <1>6. ASSUME NEW k \in Keys \ {key}
        PROVE  /\ SameTrace(s, WithOperation(s, key, op), k)
               /\ SameTrace(s, WithCompletion(s, key), k)
               /\ SameTrace(s, Begun(s, key, op, ids, n), k)
    <2>1. SameTrace(s, WithOperation(s, key, op), k)
      BY <1>1, <1>2
    <2>2. SameTrace(s, WithCompletion(s, key), k)
      <3>1. SameTrace(s, WithOperation(s, key, NoOp), k)
        BY <1>1, <1>2
      <3>2. k \in s.completed \cup {key} <=> k \in s.completed
        OBVIOUS
      <3> QED
        BY <1>3, <3>1, <3>2 DEF SameTrace
    <2>3. SameTrace(s, Begun(s, key, op, ids, n), k)
      <3>1. SameTrace(a, WithOperation(a, key, op), k)
        BY <1>2, <1>4
      <3> QED
        BY <1>4, <1>5, <3>1 DEF SameTrace
    <2> QED
      BY <2>1, <2>2, <2>3
  <1>7. /\ WithOperation(s, key, op).operations[key] = op
        /\ WithOperation(s, key, op).completed = s.completed
    BY <1>1, <1>2
  <1>8. WithCompletion(s, key).operations[key] = NoOp
    <2>1. WithOperation(s, key, NoOp).operations[key] = NoOp
      BY <1>1, <1>2
    <2> QED
      BY <1>3, <2>1
  <1>9. /\ Begun(s, key, op, ids, n).operations[key] = op
        /\ Begun(s, key, op, ids, n).completed = s.completed
    <2>1. /\ WithOperation(a, key, op).operations[key] = op
          /\ WithOperation(a, key, op).completed = a.completed
      BY <1>2, <1>4
    <2> QED
      BY <1>4, <1>5, <2>1
  <1> QED
    BY <1>3, <1>6, <1>7, <1>8, <1>9

\* A save leaves the file with one of two states.
LEMMA SaveLeaves ==
    ASSUME IInv, NEW next, Update(next)
    PROVE  Sound(mem) /\ mem = disk /\ disk' \in {disk, next}
  BY DEF IInv, MemIsDisk, Update, Commits, CommitFails, Writable

\* A start says the same of every key.
LEMMA StartTrace ==
    ASSUME IInv, NEW configured \in Bindings, Start(configured)
    PROVE  disk'.operations = disk.operations /\ disk'.completed = disk.completed
  BY BoundSound DEF IInv, Start, Starts, StartFails

\* An unfinished operation leaves the file only by being completed, and keeps
\* what it fences until then (StateStore!LatchHolds).
THEOREM LatchHoldsCorrect == Spec => LatchHolds
  <1>1. IInv /\ IInv' /\ [Next]_vars =>
          [\A k \in Pending(disk) :
              \/ k \in disk'.completed /\ k \notin Pending(disk')
              \/ /\ k \in Pending(disk')
                 /\ Fences(disk.operations[k], disk'.operations[k])
                 /\ disk'.operations[k].download = disk.operations[k].download]_vars
    <2> SUFFICES ASSUME IInv, IInv', [Next]_vars, NEW k \in Pending(disk)
                 PROVE  \/ k \in disk'.completed /\ k \notin Pending(disk')
                        \/ /\ k \in Pending(disk')
                           /\ Fences(disk.operations[k], disk'.operations[k])
                           /\ disk'.operations[k].download = disk.operations[k].download
      OBVIOUS
    <2>1. PICK r \in Unfinished(disk) : r.key = k /\ IsEntryOf(disk.operations[k], r)
      BY EntryIsUnfinished
    <2>2. CASE r \in Unfinished(disk')
      BY <2>1, <2>2 DEF Unfinished, IsEntryOf, Fences
    <2>3. CASE r \notin Unfinished(disk')
      <3>1. k \in disk'.completed
        BY <2>1, <2>3, LatchStep DEF SameLatch, Opens, Closes
      <3>2. Pending(disk') \cap disk'.completed = {}
        BY DEF IInv, Sound, Pending
      <3> QED
        BY <3>1, <3>2
    <2> QED
      BY <2>2, <2>3
  <1> QED
    BY <1>1, Invariance, PTL DEF Spec, LatchHolds

\* The state file, read at any moment, behaves as OperationLatch: an operation
\* is opened at most once, never against a fence, and only completion closes it.
THEOREM LatchImplemented == Spec => ImplementsLatch
  <1>1. Init => Latch!LatchInit
    <2> SUFFICES ASSUME Init PROVE Latch!LatchInit
      OBVIOUS
    <2>1. Pending(disk) = {} /\ disk.completed = {}
      BY DEF Init, Pending
    <2> QED
      BY <2>1 DEF Latch!LatchInit, Unfinished
  <1>2. IInv /\ [Next]_vars => [Latch!LatchNext]_(Latch!latchVars)
    <2> SUFFICES ASSUME IInv, [Next]_vars
                 PROVE  Latch!LatchNext \/ UNCHANGED Latch!latchVars
      OBVIOUS
    <2>1. CASE SameLatch
      BY <2>1 DEF SameLatch, Latch!latchVars, Unfinished, Pending, IsEntryOf
    <2>2. ASSUME NEW r \in Requests, Opens(r) PROVE Latch!LatchNext
      BY <2>2 DEF Opens, Latch!LatchNext, Latch!Open, Unfinished, Pending, IsEntryOf, Fences,
            Latch!Fences
    <2>3. ASSUME NEW r \in Requests, Closes(r) PROVE Latch!LatchNext
      BY <2>3 DEF Closes, Latch!LatchNext, Latch!Close, Unfinished, Pending, IsEntryOf
    <2> QED
      BY <2>1, <2>2, <2>3, LatchStep
  <1> QED
    BY <1>1, <1>2, Invariance, PTL DEF Spec, ImplementsLatch, Latch!LatchSpec

-----------------------------------------------------------------------------
(* Unfinished operations and the server they were begun against. *)

\* The file's binding is the server each of its unfinished operations was begun
\* against, and the one this process talks to.
Owned(s, begun) ==
    \A k \in Pending(s) :
        begun[k] # NoServer /\ s.instances[s.operations[k].kind] = begun[k]

Serves(s, configured) ==
    \A kind \in Kinds :
        configured[kind] # NoServer => s.instances[kind] = configured[kind]

ServerInv ==
    /\ Owned(mem, begunOn) /\ Owned(disk, begunOn)
    /\ open => Serves(mem, clients) /\ Serves(disk, clients)

\* A state with no other operations and the same binding.
Narrower(t, s) ==
    /\ t.instances = s.instances
    /\ \A k \in Pending(t) : k \in Pending(s) /\ t.operations[k].kind = s.operations[k].kind

LEMMA NarrowerUpdates ==
    ASSUME NEW s \in State
    PROVE  /\ Narrower(s, s)
           /\ \A k \in Pending(s) :
                 /\ \A phase \in Phases : Narrower(WithPhase(s, k, phase), s)
                 /\ \A automatic : Narrower(WithOrigin(s, k, automatic), s)
                 /\ Narrower(WithSubmittedImport(s, k), s)
                 /\ Narrower(WithCompletion(s, k), s)
           /\ \A retryKeys, n : Narrower(WithAttempts(s, retryKeys, n), s)
  <1>1. Narrower(s, s)
    BY DEF Narrower
  <1>2. ASSUME NEW k \in Pending(s), NEW op, op.kind = s.operations[k].kind
        PROVE  Narrower(WithOperation(s, k, op), s)
    BY <1>2 DEF Narrower, WithOperation, Pending, State
  <1>3. ASSUME NEW k \in Pending(s)
        PROVE  /\ \A phase \in Phases : Narrower(WithPhase(s, k, phase), s)
               /\ \A automatic : Narrower(WithOrigin(s, k, automatic), s)
               /\ Narrower(WithSubmittedImport(s, k), s)
    <2>1. s.operations[k] \in Operation
      BY DEF Pending, State
    <2>2. ASSUME NEW phase \in Phases PROVE Narrower(WithPhase(s, k, phase), s)
      <3>1. [s.operations[k] EXCEPT !.phase = phase].kind = s.operations[k].kind
        BY <2>1 DEF Operation
      <3> QED
        BY <1>2, <3>1 DEF WithPhase
    <2>3. ASSUME NEW automatic PROVE Narrower(WithOrigin(s, k, automatic), s)
      <3>1. [s.operations[k] EXCEPT !.phase = "origin-requested",
                                    !.automatic = automatic].kind = s.operations[k].kind
        BY <2>1 DEF Operation
      <3> QED
        BY <1>2, <3>1 DEF WithOrigin
    <2>4. Narrower(WithSubmittedImport(s, k), s)
      <3>1. [s.operations[k] EXCEPT !.phase = "manual-import-submitted",
                                    !.import = "submitted"].kind = s.operations[k].kind
        BY <2>1 DEF Operation
      <3> QED
        BY <1>2, <3>1 DEF WithSubmittedImport
    <2> QED
      BY <2>2, <2>3, <2>4
  <1>4. ASSUME NEW k \in Pending(s) PROVE Narrower(WithCompletion(s, k), s)
    <2>1. /\ WithCompletion(s, k).instances = s.instances
          /\ WithCompletion(s, k).operations = [s.operations EXCEPT ![k] = NoOp]
      BY DEF WithCompletion, WithOperation, State
    <2> QED
      BY <2>1 DEF Narrower, Pending, State
  <1>5. ASSUME NEW retryKeys, NEW n PROVE Narrower(WithAttempts(s, retryKeys, n), s)
    BY DEF Narrower, WithAttempts, Pending, State
  <1> QED
    BY <1>1, <1>3, <1>4, <1>5

LEMMA SaveKeepsServers ==
    ASSUME IInv, ServerInv, NEW next, Update(next), Narrower(next, mem),
           clients' = clients, begunOn' = begunOn
    PROVE  ServerInv'
  <1>1. mem' \in {mem, next} /\ disk' \in {mem, next} /\ open /\ open' = open
    BY DEF IInv, MemIsDisk, Update, Commits, CommitFails, Writable
  <1>2. Owned(next, begunOn) /\ Serves(next, clients)
    BY <1>1 DEF ServerInv, Owned, Serves, Narrower
  <1>3. /\ Owned(mem', begunOn) /\ Owned(disk', begunOn)
        /\ Serves(mem', clients) /\ Serves(disk', clients)
    BY <1>1, <1>2 DEF ServerInv
  <1> QED
    BY <1>3 DEF ServerInv, Owned, Serves, Pending

LEMMA BeginKeepsServers ==
    ASSUME IInv, ServerInv, NEW r \in Requests, NEW phase \in Phases,
           NEW automatic \in BOOLEAN, NEW import \in {"none", "requested", "submitted"},
           NEW retryKeys, NEW attempt \in 0 .. MaxInt,
           Begin(r, phase, automatic, import, retryKeys, attempt)
    PROVE  ServerInv'
  <1> DEFINE op == NewOperation(r, phase, automatic, import)
             next == Begun(mem, r.key, op, retryKeys, attempt)
  <1>1. op \in Operation /\ IsEntryOf(op, r)
    BY NewOperationType
  <1>2. /\ \A k \in Pending(mem) : ~Fences(mem.operations[k], op)
        /\ Update(next) /\ clients' = clients /\ clients[r.kind] # NoServer
        /\ begunOn' = [begunOn EXCEPT ![r.key] = clients[r.kind]]
    BY DEF Begin, Fenced
  <1>3. /\ Sound(mem) /\ mem \in State /\ r.key \in Keys /\ r.kind \in Kinds
        /\ begunOn \in [Keys -> Servers \cup {NoServer}]
    BY RequestAssumption DEF IInv, Sound
  <1> HIDE DEF op
  <1>4. r.key \notin Pending(mem)
    BY <1>1, <1>2, <1>3, KeyFree
  <1>5. next.instances = mem.instances /\ next.operations = [mem.operations EXCEPT ![r.key] = op]
    BY <1>3 DEF Begun, WithOperation, WithAttempts, State
  <1> HIDE DEF next
  <1>6. mem' \in {mem, next} /\ disk' \in {mem, next} /\ open /\ open' = open
    BY <1>2 DEF IInv, MemIsDisk, Update, Commits, CommitFails, Writable
  <1>7. Owned(mem, begunOn')
    BY <1>2, <1>3, <1>4 DEF ServerInv, Owned, Pending
  <1>8. Owned(next, begunOn')
    <2> SUFFICES ASSUME NEW k \in Pending(next)
                 PROVE  /\ begunOn'[k] # NoServer
                        /\ next.instances[next.operations[k].kind] = begunOn'[k]
      BY DEF Owned
    <2>1. CASE k = r.key
      <3>1. next.operations[k] = op /\ op.kind = r.kind /\ begunOn'[k] = clients[r.kind]
        BY <1>1, <1>2, <1>3, <1>5, <2>1 DEF State, IsEntryOf
      <3> QED
        BY <1>2, <1>3, <1>5, <1>6, <3>1 DEF ServerInv, Serves
    <2>2. CASE k # r.key
      <3>1. k \in Pending(mem) /\ next.operations[k] = mem.operations[k]
        BY <1>3, <1>5, <2>2 DEF Pending, State
      <3> QED
        BY <1>5, <1>7, <3>1 DEF Owned
    <2> QED
      BY <2>1, <2>2
  <1>9. Serves(next, clients) /\ Serves(mem, clients)
    BY <1>5, <1>6 DEF ServerInv, Serves
  <1>10. /\ Owned(mem', begunOn') /\ Owned(disk', begunOn')
         /\ Serves(mem', clients) /\ Serves(disk', clients)
    BY <1>6, <1>7, <1>8, <1>9
  <1> QED
    BY <1>2, <1>10 DEF ServerInv, Owned, Serves, Pending

LEMMA StartKeepsServers ==
    ASSUME IInv, ServerInv, NEW configured \in Bindings, Start(configured)
    PROVE  ServerInv'
  <1> DEFINE b == Bound(Migrated(disk), configured)
  <1>1. /\ disk \in State /\ b.operations = disk.operations
        /\ begunOn' = begunOn /\ SameServers(disk, configured)
    BY BoundSound DEF IInv, Sound, Start
  <1>2. b.instances = [kind \in Kinds |-> IF configured[kind] # NoServer
                                          THEN configured[kind] ELSE disk.instances[kind]]
    BY <1>1 DEF Bound, Migrated, State
  <1>3. /\ mem' \in {b, disk} /\ disk' \in {b, disk}
        /\ open' => mem' = b /\ disk' = b /\ clients' = configured
    BY DEF Start, Starts, StartFails, IInv, ServerInv
  <1> HIDE DEF b
  <1>4. Owned(b, begunOn)
    <2> SUFFICES ASSUME NEW k \in Pending(b)
                 PROVE  begunOn[k] # NoServer /\ b.instances[b.operations[k].kind] = begunOn[k]
      BY DEF Owned
    <2>1. k \in Pending(disk) /\ b.operations[k] = disk.operations[k]
      BY <1>1 DEF Pending
    <2>2. disk.operations[k].kind \in Kinds
      BY <1>1, <2>1 DEF Pending, State, Operation
    <2>3. begunOn[k] # NoServer /\ disk.instances[disk.operations[k].kind] = begunOn[k]
      BY <2>1 DEF ServerInv, Owned
    <2> QED
      BY <1>1, <1>2, <2>1, <2>2, <2>3 DEF SameServers
  <1>5. Serves(b, configured)
    BY <1>2 DEF Serves
  <1>6. Owned(mem', begunOn) /\ Owned(disk', begunOn)
    BY <1>3, <1>4 DEF ServerInv
  <1>7. open' => Serves(mem', clients') /\ Serves(disk', clients')
    BY <1>3, <1>5
  <1> QED
    BY <1>1, <1>6, <1>7 DEF ServerInv, Owned, Serves, Pending

LEMMA ServerNext == IInv /\ ServerInv /\ [Next]_vars => ServerInv'
  <1> SUFFICES ASSUME IInv, ServerInv, [Next]_vars PROVE ServerInv'
    OBVIOUS
  <1>0. mem \in State
    BY DEF IInv, Sound
  <1>1. ASSUME NEW configured \in Bindings, Start(configured) PROVE ServerInv'
    BY <1>1, StartKeepsServers
  <1>2. CASE Stop
    BY <1>2 DEF Stop, Crash, ServerInv, Owned, Pending
  <1>3. CASE BeginAny
    BY <1>3, BeginKeepsServers, PhaseTypes DEF BeginAny
  <1>4. ASSUME NEW key \in Keys, NEW phase \in LaterPhases, Phase(key, phase) PROVE ServerInv'
    BY <1>0, <1>4, NarrowerUpdates, SaveKeepsServers, PhaseTypes DEF Phase
  <1>5. ASSUME NEW key \in Keys, NEW automatic \in BOOLEAN, OriginRequested(key, automatic)
        PROVE ServerInv'
    BY <1>0, <1>5, NarrowerUpdates, SaveKeepsServers DEF OriginRequested
  <1>6. ASSUME NEW key \in Keys, SearchRequested(key) PROVE ServerInv'
    BY <1>0, <1>6, NarrowerUpdates, SaveKeepsServers, PhaseTypes DEF SearchRequested
  <1>7. ASSUME NEW key \in Keys, ImportSubmitted(key) PROVE ServerInv'
    BY <1>0, <1>7, NarrowerUpdates, SaveKeepsServers DEF ImportSubmitted
  <1>8. ASSUME NEW key \in Keys, Complete(key) PROVE ServerInv'
    BY <1>0, <1>8, NarrowerUpdates, SaveKeepsServers DEF Complete
  <1>9. ASSUME NEW retryKey \in RetryKeys, Reset(retryKey) PROVE ServerInv'
    BY <1>0, <1>9, NarrowerUpdates, SaveKeepsServers DEF Reset
  <1>10. CASE SaveWebhooks
    BY <1>0, <1>10, NarrowerUpdates, SaveKeepsServers DEF SaveWebhooks
  <1>11. CASE UNCHANGED vars
    BY <1>11 DEF vars, durableVars, ServerInv, Owned, Serves, Pending
  <1> QED
    BY <1>1, <1>2, <1>3, <1>4, <1>5, <1>6, <1>7, <1>8, <1>9, <1>10, <1>11 DEF Next

\* No process ever acts on an operation that was begun against another server.
THEOREM ServerBoundCorrect == Spec => []ServerBound
  <1>1. IInv /\ ServerInv => ServerBound
    <2> SUFFICES ASSUME IInv, ServerInv, NEW k \in Pending(disk)
                 PROVE  LET kind == disk.operations[k].kind
                        IN  /\ begunOn[k] # NoServer
                            /\ open /\ clients[kind] # NoServer => clients[kind] = begunOn[k]
      BY DEF ServerBound
    <2>1. disk.operations[k].kind \in Kinds
      BY DEF IInv, Sound, Pending, State, Operation
    <2> QED
      BY <2>1 DEF ServerInv, Owned, Serves
  <1>2. Init => ServerInv
    BY DEF Init, ServerInv, Owned, Serves, Pending
  <1> QED
    BY <1>1, <1>2, ServerNext, Invariance, PTL DEF Spec

-----------------------------------------------------------------------------
(***************************************************************************)
(* The retry counters: whatever is loaded, split, charged or half saved,   *)
(* only a reset lowers the count that protects a key.                      *)
(***************************************************************************)

(* Highest is the maximum. *)

\* A set of counters has a largest element: its least upper bound.
LEMMA HighestBounds ==
    ASSUME NEW S \in SUBSET (0 .. MaxInt), NEW n \in S
    PROVE  n <= Highest(S) /\ Highest(S) \in S
  <1> DEFINE bounds == {m \in Nat : \A x \in S : x <= m}
             less == OpToRel(<, Nat)
  <1>1. MaxInt \in bounds
    BY StoreAssumption
  <1>2. IsWellFoundedOn(less, Nat)
    BY NatLessThanWellFounded
  <1>3. bounds \subseteq Nat /\ bounds # {}
    BY <1>1
  <1>4. \A x, y \in Nat : <<x, y>> \in less <=> x < y
    BY DEF OpToRel
  <1> HIDE DEF bounds, less
  <1>5. PICK top \in bounds : \A m \in bounds : ~(<<m, top>> \in less)
    BY <1>2, <1>3, WFMin
  <1>6. \A m \in bounds : ~(m < top)
    BY <1>3, <1>4, <1>5
  <1>7. top \in S
    <2> SUFFICES ASSUME top \notin S PROVE FALSE
      OBVIOUS
    <2>1. top \in Nat /\ \A x \in S : x \in Nat /\ x <= top /\ x # top
      BY <1>5, StoreAssumption DEF bounds
    <2>2. top - 1 \in Nat /\ \A x \in S : x <= top - 1
      BY <2>1
    <2> QED
      BY <1>6, <2>1, <2>2 DEF bounds
  <1>8. \E m \in S : \A x \in S : x <= m
    BY <1>5, <1>7 DEF bounds
  <1>9. Highest(S) = CHOOSE m \in S : \A x \in S : x <= m
    BY <1>8 DEF Highest
  <1> QED
    BY <1>8, <1>9, Zenon

\* What bounds every counter bounds the highest.
LEMMA HighestLeast ==
    ASSUME NEW S \in SUBSET (0 .. MaxInt), NEW n \in Nat, \A m \in S : m <= n
    PROVE  Highest(S) <= n
  <1>1. CASE \E m \in S : \A x \in S : x <= m
    <2>1. Highest(S) = CHOOSE m \in S : \A x \in S : x <= m
      BY <1>1 DEF Highest
    <2>2. (CHOOSE m \in S : \A x \in S : x <= m) \in S
      BY <1>1, Zenon
    <2> QED
      BY <2>1, <2>2
  <1>2. CASE ~\E m \in S : \A x \in S : x <= m
    BY <1>2 DEF Highest
  <1> QED
    BY <1>1, <1>2

\* Whatever counters Begin charges, it finds the attempt to charge them with.
LEMMA NextAttemptExists ==
    ASSUME NEW s, s.attempts \in [RetryKeys -> 0 .. MaxInt], NEW keys \in SUBSET RetryKeys
    PROVE  \E attempt \in 0 .. MaxInt : IsNextAttempt(s, keys, attempt)
  <1> DEFINE counts == {0} \cup {s.attempts[k] : k \in keys}
             top == Highest(counts)
             attempt == IF top < MaxInt THEN top + 1 ELSE top
  <1>1. 0 \in counts /\ counts \in SUBSET (0 .. MaxInt)
    BY StoreAssumption
  <1>2. top \in counts /\ \A n \in counts : n <= top
    <2> HIDE DEF counts
    <2> QED
      BY <1>1, HighestBounds
  <1>3. \A k \in keys : s.attempts[k] <= top
    <2> HIDE DEF top
    <2> QED
      BY <1>2
  <1>4. top \in 0 .. MaxInt
    <2> HIDE DEF top, counts
    <2> QED
      BY <1>1, <1>2
  <1>5. attempt \in 0 .. MaxInt
    <2> HIDE DEF top
    <2> QED
      BY <1>4, StoreAssumption
  <1>6. IsNextAttempt(s, keys, attempt)
    <2> HIDE DEF top
    <2> QED
      BY <1>2, <1>3 DEF IsNextAttempt
  <1> QED
    BY <1>5, <1>6

-----------------------------------------------------------------------------
(* The budget of a key. *)

Counters(a) == a \in [RetryKeys -> 0 .. MaxInt]

\* The counters that protect k: its own, and those it is a part of.
Protecting(k) == {k} \cup {l \in Legacy : k \in Parts[l]}

LEMMA BudgetIs ==
    ASSUME NEW s, Counters(s.attempts), NEW k \in RetryKeys \ Legacy
    PROVE  /\ Budget(s, k) = Highest({s.attempts[l] : l \in Protecting(k)})
           /\ {s.attempts[l] : l \in Protecting(k)} \in SUBSET (0 .. MaxInt)
           /\ Budget(s, k) \in 0 .. MaxInt
           /\ \A l \in Protecting(k) : s.attempts[l] <= Budget(s, k)
           /\ Protecting(k) \subseteq RetryKeys
  <1> DEFINE counts == {s.attempts[l] : l \in Protecting(k)}
  <1>1. Protecting(k) \subseteq RetryKeys
    BY StoreAssumption DEF Protecting
  <1>2. counts = {s.attempts[k]} \cup {s.attempts[l] : l \in {m \in Legacy : k \in Parts[m]}}
    BY DEF Protecting
  <1>3. Budget(s, k) = Highest(counts)
    BY <1>2 DEF Budget
  <1>4. counts \in SUBSET (0 .. MaxInt)
    BY <1>1 DEF Counters
  <1>5. \A l \in Protecting(k) : s.attempts[l] \in counts
    OBVIOUS
  <1> HIDE DEF counts
  <1>6. Highest(counts) \in 0 .. MaxInt /\ \A n \in counts : n <= Highest(counts)
    BY <1>4, HighestType, HighestBounds
  <1> QED
    BY <1>1, <1>3, <1>4, <1>5, <1>6 DEF counts

\* A state none of whose counters is below is not below in its budget.
LEMMA BudgetMonotone ==
    ASSUME NEW s, NEW t, Counters(s.attempts), Counters(t.attempts), NEW k \in RetryKeys \ Legacy,
           \A l \in Protecting(k) : s.attempts[l] <= Budget(t, k)
    PROVE  Budget(s, k) <= Budget(t, k)
  <1> DEFINE counts == {s.attempts[l] : l \in Protecting(k)}
  <1>1. Budget(t, k) \in Nat
    <2>1. Budget(t, k) \in 0 .. MaxInt
      BY BudgetIs
    <2> QED
      BY <2>1, StoreAssumption
  <1>2. Budget(s, k) = Highest(counts) /\ counts \in SUBSET (0 .. MaxInt)
    BY BudgetIs
  <1>3. \A n \in counts : n <= Budget(t, k)
    OBVIOUS
  <1> HIDE DEF counts
  <1> QED
    BY <1>1, <1>2, <1>3, HighestLeast

\* Splitting composite counters moves a key's budget into its own counter.
LEMMA MigrationKeepsBudget ==
    ASSUME NEW s, Sound(s), NEW configured \in Bindings, NEW k \in RetryKeys \ Legacy
    PROVE  /\ Bound(Migrated(s), configured).attempts[k] = Budget(s, k)
           /\ Budget(s, k) <= Budget(Bound(Migrated(s), configured), k)
  <1> DEFINE b == Bound(Migrated(s), configured)
  <1>1. Sound(b) /\ Counters(s.attempts) /\ s \in State
    BY BoundSound DEF Sound, State, Counters
  <1>2. Counters(b.attempts)
    BY <1>1 DEF Sound, State, Counters
  <1>3. b.attempts = [x \in RetryKeys |->
                         IF x \in Legacy THEN 0
                         ELSE Highest({s.attempts[x]}
                                      \cup {s.attempts[l] : l \in {m \in Legacy : x \in Parts[m]}})]
    BY <1>1 DEF Bound, Migrated, State
  <1> HIDE DEF b
  <1>4. b.attempts[k] = Budget(s, k)
    BY <1>3 DEF Budget
  <1>5. b.attempts[k] <= Budget(b, k)
    BY <1>2, BudgetIs DEF Protecting
  <1> QED
    BY <1>4, <1>5 DEF b

-----------------------------------------------------------------------------
(* While a process runs, composite counters are split. *)

SplitUp(s) == \A l \in Legacy : s.attempts[l] = 0

SplitInv == open => SplitUp(mem)

\* A state that is split and bound is loaded as it is, so a start that is cut
\* off may be repeated from what it left in the file.
THEOREM BoundOnce ==
    ASSUME NEW s, Sound(s), NEW configured \in Bindings
    PROVE  LET b == Bound(Migrated(s), configured)
           IN  Bound(Migrated(b), configured) = b
  <1> DEFINE b == Bound(Migrated(s), configured)
  <1>1. Sound(b) /\ Counters(b.attempts) /\ b \in State
    BY BoundSound DEF Sound, State, Counters
  <1>2. SplitUp(b)
    BY StoreAssumption DEF SplitUp, Bound, Migrated, Sound, State
  <1>3. ASSUME NEW kind \in Kinds, configured[kind] # NoServer
        PROVE  b.instances[kind] = configured[kind]
    BY <1>3 DEF Bound, Migrated, Sound, State
  <1> HIDE DEF b
  <1>4. ASSUME NEW k \in RetryKeys \ Legacy
        PROVE  Highest({b.attempts[k]}
                       \cup {b.attempts[l] : l \in {m \in Legacy : k \in Parts[m]}})
                 = b.attempts[k]
    <2> DEFINE S == {b.attempts[k]}
                    \cup {b.attempts[l] : l \in {m \in Legacy : k \in Parts[m]}}
    <2>1. S \in SUBSET (0 .. MaxInt) /\ b.attempts[k] \in S
      BY <1>1, StoreAssumption DEF Counters
    <2>2. \A m \in S : m <= b.attempts[k]
      BY <1>1, <1>2, StoreAssumption DEF Counters, SplitUp
    <2>3. b.attempts[k] \in Nat
      BY <1>1, StoreAssumption DEF Counters
    <2> HIDE DEF S
    <2>4. Highest(S) \in 0 .. MaxInt /\ b.attempts[k] <= Highest(S) /\ Highest(S) <= b.attempts[k]
      BY <2>1, <2>2, <2>3, HighestType, HighestBounds, HighestLeast
    <2>5. Highest(S) = b.attempts[k]
      BY <2>3, <2>4, StoreAssumption
    <2> QED
      BY <2>5 DEF S
  <1>5. b.attempts = [k \in RetryKeys |->
            IF k \in Legacy THEN 0
            ELSE Highest({b.attempts[k]}
                         \cup {b.attempts[l] : l \in {m \in Legacy : k \in Parts[m]}})]
    BY <1>1, <1>2, <1>4 DEF Counters, SplitUp
  <1>6. Migrated(b) = b
    BY <1>1, <1>5 DEF Migrated, State
  <1>7. b.instances = [kind \in Kinds |->
            IF configured[kind] # NoServer THEN configured[kind] ELSE b.instances[kind]]
    BY <1>1, <1>3 DEF State
  <1>8. Bound(b, configured) = b
    BY <1>1, <1>7 DEF Bound, State
  <1> QED
    BY <1>6, <1>8 DEF b

\* The updates of the journal and of the webhooks: no counter changes.
LEMMA SameCounters ==
    ASSUME NEW s \in State
    PROVE  /\ \A k, phase : WithPhase(s, k, phase).attempts = s.attempts
           /\ \A k, automatic : WithOrigin(s, k, automatic).attempts = s.attempts
           /\ \A k : WithSubmittedImport(s, k).attempts = s.attempts
           /\ \A k : WithCompletion(s, k).attempts = s.attempts
  BY DEF WithPhase, WithOrigin, WithSubmittedImport, WithCompletion, WithOperation, State

\* Every update saves a state whose composite counters are split.
LEMMA SplitSave ==
    ASSUME SplitInv, NEW next, Update(next), SplitUp(next)
    PROVE  SplitInv'
  <1>1. open /\ mem' \in {mem, next}
    BY DEF Update, Commits, CommitFails, Writable
  <1>2. SplitUp(mem')
    BY <1>1 DEF SplitInv
  <1> QED
    BY <1>2 DEF SplitInv, SplitUp

\* Begin charges, and Reset clears, counters that are not composite or already 0.
LEMMA SplitNext == IInv /\ SplitInv /\ [Next]_vars => SplitInv'
  <1> SUFFICES ASSUME IInv, SplitInv, [Next]_vars PROVE SplitInv'
    OBVIOUS
  <1>0. mem \in State
    BY DEF IInv, Sound
  <1>1. ASSUME NEW next, Update(next), next.attempts = mem.attempts PROVE SplitInv'
    <2>1. SplitUp(next)
      BY <1>1 DEF SplitInv, SplitUp, Update, Commits, CommitFails, Writable
    <2> QED
      BY <1>1, <2>1, SplitSave
  <1>2. ASSUME NEW configured \in Bindings, Start(configured) PROVE SplitInv'
    <2> DEFINE b == Bound(Migrated(disk), configured)
    <2>1. open' => mem' = b
      BY <1>2 DEF Start, Starts, StartFails
    <2>2. b.attempts = Migrated(disk).attempts
      BY DEF IInv, Sound, State, Bound, Migrated
    <2>3. SplitUp(b)
      BY <2>2, StoreAssumption DEF IInv, Sound, State, Migrated, SplitUp
    <2> HIDE DEF b
    <2> QED
      BY <2>1, <2>3 DEF SplitInv, SplitUp
  <1>3. CASE Stop \/ UNCHANGED vars
    BY <1>3 DEF Stop, Crash, vars, durableVars, SplitInv, SplitUp
  <1>4. CASE BeginAny
    <2>1. PICK r \in Requests, first \in FirstPhases, automatic \in BOOLEAN,
               retryKeys \in SUBSET (RetryKeys \ Legacy), attempt \in 0 .. MaxInt :
                  Begin(r, first[1], automatic, first[2], retryKeys, attempt)
      BY <1>4 DEF BeginAny
    <2> DEFINE next == Begun(mem, r.key, NewOperation(r, first[1], automatic, first[2]),
                             retryKeys, attempt)
    <2>2. Update(next) /\ open
      BY <2>1 DEF Begin, Update, Commits, CommitFails, Writable
    <2>3. next.attempts = [x \in RetryKeys |-> IF x \in retryKeys THEN attempt ELSE mem.attempts[x]]
      BY <1>0 DEF Begun, WithOperation, WithAttempts, State
    <2> HIDE DEF next
    <2>4. SplitUp(next)
      BY <2>2, <2>3, StoreAssumption DEF SplitInv, SplitUp
    <2> QED
      BY <2>2, <2>4, SplitSave
  <1>5. ASSUME NEW retryKey \in RetryKeys, Reset(retryKey) PROVE SplitInv'
    <2> DEFINE next == WithAttempts(mem, {retryKey}, 0)
    <2>1. Update(next) /\ open
      BY <1>5 DEF Reset, Update, Commits, CommitFails, Writable
    <2>2. next.attempts = [x \in RetryKeys |-> IF x = retryKey THEN 0 ELSE mem.attempts[x]]
      BY <1>0 DEF WithAttempts, State
    <2> HIDE DEF next
    <2>3. SplitUp(next)
      BY <2>1, <2>2, StoreAssumption DEF SplitInv, SplitUp
    <2> QED
      BY <2>1, <2>3, SplitSave
  <1>6. CASE \E key \in Keys, phase \in LaterPhases : Phase(key, phase)
    BY <1>0, <1>1, <1>6, SameCounters DEF Phase
  <1>7. CASE \E key \in Keys, automatic \in BOOLEAN : OriginRequested(key, automatic)
    BY <1>0, <1>1, <1>7, SameCounters DEF OriginRequested
  <1>8. CASE \E key \in Keys : SearchRequested(key) \/ ImportSubmitted(key) \/ Complete(key)
    BY <1>0, <1>1, <1>8, SameCounters DEF SearchRequested, ImportSubmitted, Complete
  <1>9. CASE SaveWebhooks
    BY <1>1, <1>9 DEF SaveWebhooks
  <1> QED
    BY <1>2, <1>3, <1>4, <1>5, <1>6, <1>7, <1>8, <1>9 DEF Next

\* What a step does to the counters in the file.
CounterStep(k) ==
    Budget(disk', k) < Budget(disk, k) => open /\ disk'.attempts[k] = 0

\* A save that lowers no budget.
LEMMA SaveKeepsBudget ==
    ASSUME IInv, SplitInv, NEW next, Sound(next), Update(next), SplitUp(next),
           NEW k \in RetryKeys \ Legacy, mem.attempts[k] <= next.attempts[k] \/ next.attempts[k] = 0
    PROVE  CounterStep(k)
  <1>1. mem = disk /\ open /\ open' = open /\ mem' \in {mem, next} /\ disk' \in {mem, next}
    BY DEF IInv, MemIsDisk, Update, Commits, CommitFails, Writable
  <1>2. Counters(mem.attempts) /\ Counters(next.attempts)
    BY DEF IInv, Sound, State, Counters
  <1>3. SplitUp(mem)
    BY <1>1 DEF SplitInv
  <1>4. CASE mem.attempts[k] <= next.attempts[k]
    <2>1. \A l \in Protecting(k) : mem.attempts[l] <= Budget(next, k)
      <3>1. next.attempts[k] <= Budget(next, k) /\ Budget(next, k) \in 0 .. MaxInt
        BY <1>2, BudgetIs DEF Protecting
      <3>2. mem.attempts[k] \in 0 .. MaxInt /\ next.attempts[k] \in 0 .. MaxInt
        BY <1>2 DEF Counters
      <3> QED
        BY <1>3, <1>4, <3>1, <3>2, StoreAssumption DEF SplitUp, Protecting
    <2>2. Budget(mem, k) <= Budget(next, k)
      BY <1>2, <2>1, BudgetMonotone
    <2>3. Budget(mem, k) \in 0 .. MaxInt /\ Budget(next, k) \in 0 .. MaxInt
      BY <1>2, BudgetIs
    <2>4. ~(Budget(disk', k) < Budget(disk, k))
      <3>1. CASE disk' = mem
        BY <1>1, <2>3, <3>1, StoreAssumption
      <3>2. CASE disk' = next
        BY <1>1, <2>2, <2>3, <3>2, StoreAssumption
      <3> QED
        BY <1>1, <3>1, <3>2
    <2> QED
      BY <2>4 DEF CounterStep
  <1>5. CASE next.attempts[k] = 0
    <2>1. CASE disk' = mem
      <3>1. Budget(mem, k) \in 0 .. MaxInt
        BY <1>2, BudgetIs
      <3> QED
        BY <1>1, <2>1, <3>1, StoreAssumption DEF CounterStep
    <2>2. CASE disk' = next
      BY <1>1, <1>5, <2>2 DEF CounterStep
    <2> QED
      BY <1>1, <2>1, <2>2
  <1> QED
    BY <1>4, <1>5

LEMMA BeginKeepsBudget ==
    ASSUME IInv, SplitInv, BeginAny, NEW k \in RetryKeys \ Legacy
    PROVE  CounterStep(k)
  <1>1. PICK r \in Requests, first \in FirstPhases, automatic \in BOOLEAN,
             retryKeys \in SUBSET (RetryKeys \ Legacy), attempt \in 0 .. MaxInt :
                Begin(r, first[1], automatic, first[2], retryKeys, attempt)
    BY DEF BeginAny
  <1> DEFINE op == NewOperation(r, first[1], automatic, first[2])
             next == Begun(mem, r.key, op, retryKeys, attempt)
  <1>2. op \in Operation /\ IsEntryOf(op, r)
    BY NewOperationType, PhaseTypes
  <1>3. /\ r.key \notin mem.completed /\ \A j \in Pending(mem) : ~Fences(mem.operations[j], op)
        /\ Update(next) /\ IsNextAttempt(mem, retryKeys, attempt)
    BY <1>1 DEF Begin, AlreadyDone, Fenced
  <1>4. Sound(mem) /\ mem \in State /\ open
    BY <1>3 DEF IInv, Sound, Update, Commits, CommitFails, Writable
  <1> HIDE DEF op
  <1>5. Sound(next)
    BY <1>2, <1>3, <1>4, BegunSound
  <1>6. next.attempts = [x \in RetryKeys |-> IF x \in retryKeys THEN attempt ELSE mem.attempts[x]]
    BY <1>4 DEF Begun, WithOperation, WithAttempts, State
  <1> HIDE DEF next
  <1>7. SplitUp(next)
    BY <1>4, <1>6, StoreAssumption DEF SplitInv, SplitUp
  <1>8. mem.attempts[k] <= next.attempts[k]
    <2>1. mem.attempts \in [RetryKeys -> 0 .. MaxInt]
      BY <1>4 DEF State
    <2>2. CASE k \in retryKeys
      <3>1. PICK top \in {0} \cup {mem.attempts[x] : x \in retryKeys} :
               /\ \A x \in retryKeys : mem.attempts[x] <= top
               /\ attempt = IF top < MaxInt THEN top + 1 ELSE top
        BY <1>3 DEF IsNextAttempt
      <3>2. top \in 0 .. MaxInt /\ mem.attempts[k] <= top
        BY <2>1, <2>2, <3>1, StoreAssumption
      <3> QED
        BY <1>6, <2>1, <2>2, <3>1, <3>2, StoreAssumption
    <2>3. CASE k \notin retryKeys
      BY <1>6, <2>1, <2>3, StoreAssumption
    <2> QED
      BY <2>2, <2>3
  <1> QED
    BY <1>3, <1>5, <1>7, <1>8, SaveKeepsBudget

LEMMA StartKeepsBudget ==
    ASSUME IInv, SplitInv, NEW configured \in Bindings, Start(configured),
           NEW k \in RetryKeys \ Legacy
    PROVE  CounterStep(k)
  <1> DEFINE b == Bound(Migrated(disk), configured)
  <1>1. Sound(disk) /\ Sound(b) /\ Budget(disk, k) <= Budget(b, k)
    BY MigrationKeepsBudget, BoundSound DEF IInv
  <1>2. disk' \in {b, disk}
    BY DEF Start, Starts, StartFails
  <1> HIDE DEF b
  <1>3. Budget(disk, k) \in 0 .. MaxInt /\ Budget(b, k) \in 0 .. MaxInt
    BY <1>1, BudgetIs DEF Sound, State, Counters
  <1>4. ~(Budget(disk', k) < Budget(disk, k))
    <2>1. CASE disk' = disk
      BY <1>3, <2>1, StoreAssumption
    <2>2. CASE disk' = b
      BY <1>1, <1>3, <2>2, StoreAssumption
    <2> QED
      BY <1>2, <2>1, <2>2
  <1> QED
    BY <1>4 DEF CounterStep

\* A step that leaves counters, as they are in memory, alone.
LEMMA SameKeepsBudget ==
    ASSUME IInv, SplitInv, NEW next, Sound(next), Update(next),
           next.attempts = mem.attempts, NEW k \in RetryKeys \ Legacy
    PROVE  CounterStep(k)
  <1>1. open /\ mem.attempts \in [RetryKeys -> 0 .. MaxInt]
    BY DEF IInv, Sound, State, Update, Commits, CommitFails, Writable
  <1>2. SplitUp(next) /\ mem.attempts[k] <= next.attempts[k]
    BY <1>1, StoreAssumption DEF SplitInv, SplitUp
  <1> QED
    BY <1>2, SaveKeepsBudget

LEMMA CounterNext ==
    ASSUME IInv, SplitInv, [Next]_vars, NEW k \in RetryKeys \ Legacy
    PROVE  CounterStep(k)
  <1>0. Sound(mem) /\ mem \in State
    BY DEF IInv, Sound
  <1>1. ASSUME NEW configured \in Bindings, Start(configured) PROVE CounterStep(k)
    BY <1>1, StartKeepsBudget
  <1>2. CASE Stop \/ UNCHANGED vars
    <2>1. disk' = disk
      BY <1>2 DEF Stop, Crash, vars, durableVars
    <2>2. Budget(disk, k) \in 0 .. MaxInt
      BY BudgetIs DEF IInv, Sound, State, Counters
    <2>3. ~(Budget(disk, k) < Budget(disk, k))
      BY <2>2, StoreAssumption
    <2> QED
      BY <2>1, <2>3 DEF CounterStep
  <1>3. CASE BeginAny
    BY <1>3, BeginKeepsBudget
  <1>4. ASSUME NEW key \in Keys, NEW phase \in LaterPhases, Phase(key, phase)
        PROVE  CounterStep(k)
    BY <1>0, <1>4, PhaseSound, PhaseTypes, SameCounters, SameKeepsBudget DEF Phase
  <1>5. ASSUME NEW key \in Keys, NEW automatic \in BOOLEAN, OriginRequested(key, automatic)
        PROVE  CounterStep(k)
    BY <1>0, <1>5, OriginSound, SameCounters, SameKeepsBudget DEF OriginRequested
  <1>6. ASSUME NEW key \in Keys, SearchRequested(key) PROVE CounterStep(k)
    BY <1>0, <1>6, PhaseSound, PhaseTypes, SameCounters, SameKeepsBudget DEF SearchRequested
  <1>7. ASSUME NEW key \in Keys, ImportSubmitted(key) PROVE CounterStep(k)
    BY <1>0, <1>7, SubmittedSound, SameCounters, SameKeepsBudget DEF ImportSubmitted
  <1>8. ASSUME NEW key \in Keys, Complete(key) PROVE CounterStep(k)
    BY <1>0, <1>8, CompletionSound, SameCounters, SameKeepsBudget DEF Complete
  <1>9. ASSUME NEW retryKey \in RetryKeys, Reset(retryKey) PROVE CounterStep(k)
    <2> DEFINE next == WithAttempts(mem, {retryKey}, 0)
    <2>1. Sound(next) /\ Update(next) /\ open
      BY <1>0, <1>9, AttemptsSound, StoreAssumption
         DEF Reset, Update, Commits, CommitFails, Writable
    <2>2. /\ next.attempts = [x \in RetryKeys |-> IF x = retryKey THEN 0 ELSE mem.attempts[x]]
          /\ mem.attempts \in [RetryKeys -> 0 .. MaxInt]
      BY <1>0 DEF WithAttempts, State
    <2> HIDE DEF next
    <2>3. SplitUp(next)
      BY <2>1, <2>2, StoreAssumption DEF SplitInv, SplitUp
    <2>4. mem.attempts[k] <= next.attempts[k] \/ next.attempts[k] = 0
      BY <2>2, StoreAssumption
    <2> QED
      BY <2>1, <2>3, <2>4, SaveKeepsBudget
  <1>10. CASE SaveWebhooks
    BY <1>0, <1>10, SameKeepsBudget DEF SaveWebhooks
  <1> QED
    BY <1>1, <1>2, <1>3, <1>4, <1>5, <1>6, <1>7, <1>8, <1>9, <1>10 DEF Next

\* A retry cap is lifted only by Reset, whatever fails and whatever restarts.
THEOREM BudgetKeptCorrect == Spec => BudgetKept
  <1>1. Init => SplitInv
    BY DEF Init, SplitInv
  <1>2. IInv /\ SplitInv /\ [Next]_vars =>
           [\A k \in RetryKeys \ Legacy :
               Budget(disk', k) < Budget(disk, k) => open /\ disk'.attempts[k] = 0]_vars
    BY CounterNext DEF CounterStep
  <1> QED
    BY <1>1, <1>2, SplitNext, Invariance, PTL DEF Spec, BudgetKept
=============================================================================
