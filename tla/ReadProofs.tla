----------------------------- MODULE ReadProofs -----------------------------
(***************************************************************************)
(* Proofs about Scan, PagedRead and Probe.                                 *)
(***************************************************************************)
EXTENDS Scan, PagedRead, Probe, FiniteSetTheorems, TLAPS

-----------------------------------------------------------------------------
(* Scan: what the stage of a file tells of its error and its job.          *)

FileOK(file) ==
    /\ stage[file] = "listed" => error[file] = "nil"
    /\ stage[file] = "through" /\ error[file] # "nil" => firstErr
    /\ stage[file] = "through" /\ error[file] = "retry" => file \in stored \/ cancelled
    /\ audit = "list" => stage[file] = "listed"
    /\ audit \in {"recover", "returned"} => stage[file] \in {"listed", "through"}
    /\ audit = "recover" \/ outcome = "nil" => stage[file] = "through"

ScanInv ==
    /\ stage \in [Library -> {"listed", "through"} \cup Busy]
    /\ error \in [Library -> {"nil", "retry", "review"}]
    /\ audit \in {"list", "files", "recover", "returned"}
    /\ audit \in {"list", "files"} => outcome = "none"
    /\ audit = "recover" => outcome \in {"nil", "error"}
    /\ outcome = "nil" => ~firstErr
    /\ \A file \in Library : FileOK(file)

LEMMA ScanInitOK == ScanInit => ScanInv
  BY DEF ScanInit, ScanInv, FileOK, Busy

LEMMA MainOK ==
    ASSUME ScanInv, ListFiles \/ Main \/ Cancel
    PROVE  ScanInv'
<1>1. CASE ListFiles
  BY <1>1 DEF ListFiles, Return, ScanInv, FileOK, Busy
<1>2. CASE Cancel
  BY <1>2 DEF Cancel, ScanInv, FileOK, Busy
<1>3. ASSUME NEW f \in Library, Dispatch(f) PROVE ScanInv'
  BY <1>3 DEF Dispatch, ScanInv, FileOK, Busy
<1>4. CASE Stop
  BY <1>4 DEF Stop, Return, Running, ScanInv, FileOK, Busy
<1>5. CASE Waited
  BY <1>5 DEF Waited, Return, Reported, ScanInv, FileOK, Busy
<1>6. CASE RecoverQueue
  BY <1>6 DEF RecoverQueue, Return, ScanInv, FileOK, Busy
<1>7. QED BY <1>1, <1>2, <1>3, <1>4, <1>5, <1>6 DEF Main

\* A goroutine changes its own file only.
LEMMA GoroutineOK ==
    ASSUME ScanInv, NEW f \in Library, Goroutine(f)
    PROVE  ScanInv'
<1>1. stage[f] \in Busy
  BY DEF Goroutine, Judged, Retry, SaveJob, Busy
<1>2. audit = "files" /\ outcome = "none"
  BY <1>1 DEF ScanInv, FileOK, Busy
<1>3. /\ audit' = audit /\ outcome' = outcome /\ cancelled' = cancelled
      /\ \E to \in {"through"} \cup Busy : stage' = [stage EXCEPT ![f] = to]
      /\ \E err \in {"nil", "retry", "review"} : error' = [error EXCEPT ![f] = err]
      /\ stored \subseteq stored'
      /\ stage'[f] = "through" => firstErr' = (firstErr \/ error'[f] # "nil")
      /\ stage'[f] # "through" => firstErr' = firstErr
      /\ stage'[f] = "through" /\ error'[f] = "retry" => f \in stored' \/ cancelled
  <2>0. /\ stage \in [Library -> {"listed", "through"} \cup Busy]
        /\ error \in [Library -> {"nil", "retry", "review"}]
        /\ error = [error EXCEPT ![f] = error[f]]
    BY DEF ScanInv
  <2>1. CASE Judged(f)
    BY <2>0, <2>1 DEF Judged, Through, Busy
  <2>2. CASE Retry(f)
    BY <2>0, <2>2 DEF Retry, Through, Busy
  <2>3. CASE SaveJob(f)
    BY <2>0, <2>3 DEF SaveJob, Through, Busy
  <2>4. QED BY <2>1, <2>2, <2>3 DEF Goroutine
<1>4. /\ stage' \in [Library -> {"listed", "through"} \cup Busy]
      /\ error' \in [Library -> {"nil", "retry", "review"}]
  BY <1>3 DEF ScanInv
<1>5. firstErr => firstErr'
  <2>1. CASE stage'[f] = "through"
    BY <1>3, <2>1, Zenon
  <2>2. CASE stage'[f] # "through"
    BY <1>3, <2>2, Zenon
  <2>3. QED BY <2>1, <2>2
<1>6. ASSUME NEW g \in Library PROVE FileOK(g)'
  <2>1. CASE g = f
    BY <1>2, <1>3, <1>4, <1>5, <2>1 DEF ScanInv, FileOK, Busy
  <2>2. CASE g # f
    <3>1. stage'[g] = stage[g] /\ error'[g] = error[g]
      BY <1>3, <2>2 DEF ScanInv
    <3>2. FileOK(g)
      BY DEF ScanInv
    <3>3. QED BY <1>2, <1>3, <1>4, <1>5, <3>1, <3>2 DEF FileOK
  <2>3. QED BY <2>1, <2>2
<1>7. QED BY <1>2, <1>3, <1>4, <1>5, <1>6 DEF ScanInv

LEMMA ScanNextOK ==
    ASSUME ScanInv, [ScanNext]_scanVars
    PROVE  ScanInv'
<1>1. CASE UNCHANGED scanVars
  BY <1>1 DEF scanVars, ScanInv, FileOK
<1>2. QED
  BY <1>1, MainOK, GoroutineOK DEF ScanNext

\* A library scan that was not cancelled accounts for every file, whatever the
\* number of files, slots and attempts, and reports success only if all were
\* settled.
THEOREM EveryFileAccountedCorrect == ScanSpec => []EveryFileAccounted
<1>1. ScanInv => EveryFileAccounted
  BY DEF ScanInv, FileOK, EveryFileAccounted
<1>2. QED
  BY ScanInitOK, ScanNextOK, <1>1, PTL DEF ScanSpec

-----------------------------------------------------------------------------
(* Scan: it always goes on, and nothing it does is for ever.               *)

\* An attempt is only begun, or waited for, while attempts are left.
AttemptInv ==
    /\ attempt \in [Library -> 0 .. scanReadAttempts]
    /\ \A file \in Library :
          /\ stage[file] = "listed" => attempt[file] = 0
          /\ stage[file] \in {"runs", "retries"} => attempt[file] < scanReadAttempts

LEMMA AttemptInitOK == ScanInit => AttemptInv
  BY ScanAssumption DEF ScanInit, AttemptInv

LEMMA AttemptNextOK ==
    ASSUME ScanInv, AttemptInv, [ScanNext]_scanVars
    PROVE  AttemptInv'
<1>1. /\ scanReadAttempts \in Nat /\ scanReadAttempts > 0
      /\ stage \in [Library -> {"listed", "through"} \cup Busy]
      /\ attempt \in [Library -> 0 .. scanReadAttempts]
  BY ScanAssumption DEF ScanInv, AttemptInv
<1>2. CASE UNCHANGED <<stage, attempt>>
  BY <1>2 DEF AttemptInv
<1>3. ASSUME NEW f \in Library, Dispatch(f) PROVE AttemptInv'
  BY <1>1, <1>3 DEF Dispatch, AttemptInv
<1>4. ASSUME NEW f \in Library, Judged(f) PROVE AttemptInv'
  <2>1. /\ stage[f] = "runs" /\ attempt[f] < scanReadAttempts
        /\ attempt' = [attempt EXCEPT ![f] = @ + 1] /\ attempt[f] \in Nat
    BY <1>1, <1>4 DEF Judged, AttemptInv
  <2>2. PICK to \in {"through", "queues", "retries"} :
            /\ stage' = [stage EXCEPT ![f] = to]
            /\ to = "retries" => ~Last(f)
    BY <1>4 DEF Judged, Through
  <2>3. attempt' \in [Library -> 0 .. scanReadAttempts]
    BY <1>1, <2>1
  <2>4. to = "retries" => attempt'[f] < scanReadAttempts
    <3>1. attempt'[f] \in Int /\ scanReadAttempts \in Int
      BY <1>1, <2>3
    <3>2. ~(attempt'[f] >= scanReadAttempts) => attempt'[f] < scanReadAttempts
      BY <3>1
    <3>3. QED BY <2>2, <3>2 DEF Last
  <2>5. QED BY <1>1, <2>1, <2>2, <2>3, <2>4 DEF AttemptInv
<1>5. ASSUME NEW f \in Library, Retry(f) \/ SaveJob(f) PROVE AttemptInv'
  <2>1. /\ stage[f] \in {"retries", "queues"} /\ attempt' = attempt
        /\ stage' = [stage EXCEPT ![f] = "through"]
              \/ (stage[f] = "retries" /\ stage' = [stage EXCEPT ![f] = "runs"])
    BY <1>5 DEF Retry, SaveJob, Through
  <2>2. QED BY <1>1, <2>1 DEF AttemptInv
<1>6. CASE ListFiles \/ Stop \/ Waited \/ RecoverQueue \/ Cancel
  BY <1>2, <1>6 DEF ListFiles, Stop, Waited, RecoverQueue, Cancel
<1>7. QED
  BY <1>2, <1>3, <1>4, <1>5, <1>6 DEF ScanNext, Main, Goroutine, scanVars

\* What a scan can do next, other than being cancelled: the guards of its steps.
GoesOn ==
    \/ audit \in {"list", "recover"}
    \/ audit = "files" /\ \E file \in Library : stage[file] \in Busy
    \/ audit = "files" /\ Cardinality(Running) < Workers
       /\ \E file \in Library : stage[file] = "listed"
    \/ audit = "files" /\ \A file \in Library : stage[file] = "through"

\* A scan is never stuck: as long as it has not returned, a goroutine has a
\* step to take, or a slot is free for the next file, or all are through.  A
\* slot that a goroutine kept would end that (audit's semaphore in scan.go).
ScanNeverStuck == audit # "returned" => GoesOn

THEOREM ScanNeverStuckCorrect == ScanSpec => []ScanNeverStuck
<1>1. ScanInv => ScanNeverStuck
  <2> SUFFICES ASSUME ScanInv, audit # "returned" PROVE GoesOn
    BY DEF ScanNeverStuck
  <2>1. CASE audit # "files"
    BY <2>1 DEF ScanInv, GoesOn
  <2>2. CASE audit = "files" /\ Running # {}
    BY <2>2 DEF Running, GoesOn
  <2>3. CASE audit = "files" /\ Running = {}
    <3>1. Cardinality(Running) < Workers
      BY <2>3, FS_EmptySet, ScanAssumption
    <3>2. \A file \in Library : stage[file] \in {"listed", "through"}
      BY <2>3 DEF Running, ScanInv
    <3>3. QED BY <2>3, <3>1, <3>2 DEF GoesOn
  <2>4. QED BY <2>1, <2>2, <2>3
<1>2. QED
  BY ScanInitOK, ScanNextOK, <1>1, PTL DEF ScanSpec

\* The most steps a goroutine still has to take for a file, and the scan for
\* all of them.
Left(file) ==
    LET tries == 2 * (scanReadAttempts - attempt[file])
    IN  CASE stage[file] = "through" -> 0
          [] stage[file] = "queues" -> 1
          [] stage[file] = "runs" -> tries + 1
          [] OTHER -> tries + 2

Stretches == [list |-> 3, files |-> 2, recover |-> 1, returned |-> 0]

\* No step sets a file or the scan back, and every step but a cancellation
\* brings one of them on: the retries come to an end.
ScanFalls ==
    /\ \A file \in Library : Left(file)' <= Left(file)
    /\ Stretches[audit'] <= Stretches[audit]
    /\ \A file \in Library : Dispatch(file) \/ Goroutine(file) => Left(file)' < Left(file)
    /\ ListFiles \/ Stop \/ Waited \/ RecoverQueue => Stretches[audit'] < Stretches[audit]

LEMMA LeftType ==
    ASSUME AttemptInv, NEW file \in Library
    PROVE  Left(file) \in Nat
<1>1. scanReadAttempts - attempt[file] \in Nat
  BY ScanAssumption DEF AttemptInv
<1>2. QED BY <1>1 DEF Left

\* A step of one file leaves the others as they are.
LEMMA FileFalls ==
    ASSUME ScanInv, AttemptInv, NEW f \in Library, Dispatch(f) \/ Goroutine(f)
    PROVE  /\ Left(f)' < Left(f)
           /\ \A g \in Library : g # f => Left(g)' = Left(g)
           /\ audit' = audit
<1>1. /\ scanReadAttempts \in Nat /\ attempt[f] \in Nat /\ attempt[f] <= scanReadAttempts
      /\ stage \in [Library -> {"listed", "through"} \cup Busy]
      /\ attempt \in [Library -> 0 .. scanReadAttempts]
  BY ScanAssumption DEF ScanInv, AttemptInv
<1>2. PICK to \in {"through", "queues", "retries", "runs"} : stage' = [stage EXCEPT ![f] = to]
  BY DEF Dispatch, Goroutine, Judged, Retry, SaveJob, Through
<1>3. /\ audit' = audit
      /\ attempt' = attempt \/ attempt' = [attempt EXCEPT ![f] = @ + 1]
  BY DEF Dispatch, Goroutine, Judged, Retry, SaveJob
<1>4. \A g \in Library : g # f => Left(g)' = Left(g)
  BY <1>1, <1>2, <1>3 DEF Left
<1>5. stage'[f] = to
  BY <1>1, <1>2
<1>6. CASE Dispatch(f)
  <2>1. stage[f] = "listed" /\ stage'[f] = "runs" /\ attempt' = attempt
    BY <1>1, <1>6 DEF Dispatch
  <2>2. QED BY <1>1, <1>3, <1>4, <2>1 DEF Left
<1>7. CASE Judged(f)
  <2>1. /\ stage[f] = "runs" /\ attempt'[f] = attempt[f] + 1
        /\ attempt[f] < scanReadAttempts
        /\ stage'[f] \in {"through", "queues", "retries"}
    BY <1>1, <1>7 DEF Judged, Through, AttemptInv
  <2>2. QED BY <1>1, <1>3, <1>4, <2>1 DEF Left
<1>8. CASE Retry(f)
  <2>1. stage[f] = "retries" /\ attempt' = attempt /\ stage'[f] \in {"runs", "through"}
    BY <1>1, <1>8 DEF Retry, Through
  <2>2. QED BY <1>1, <1>3, <1>4, <2>1 DEF Left
<1>9. CASE SaveJob(f)
  <2>1. stage[f] = "queues" /\ stage'[f] = "through"
    BY <1>1, <1>9 DEF SaveJob, Through
  <2>2. QED BY <1>1, <1>3, <1>4, <2>1 DEF Left
<1>10. QED BY <1>6, <1>7, <1>8, <1>9 DEF Goroutine

LEMMA ScanFallsNext ==
    ASSUME ScanInv, AttemptInv, ScanNext
    PROVE  ScanFalls
<1>1. \A file \in Library : Left(file) \in Nat
  BY LeftType
<1>2. \A file \in Library : Dispatch(file) \/ Goroutine(file) => Left(file)' < Left(file)
  BY FileFalls
<1>3. CASE \E f \in Library : Dispatch(f) \/ Goroutine(f)
  <2>1. PICK f \in Library : Dispatch(f) \/ Goroutine(f)
    BY <1>3
  <2>2. audit = "files" /\ audit' = audit
    BY <2>1, FileFalls DEF Dispatch, Goroutine, Judged, Retry, SaveJob, ScanInv, FileOK
  <2>3. ~(ListFiles \/ Stop \/ Waited \/ RecoverQueue)
    BY <2>2 DEF ListFiles, Stop, Waited, RecoverQueue, Return
  <2>4. ASSUME NEW g \in Library PROVE Left(g)' <= Left(g)
    <3>1. CASE g = f
      <4>1. attempt'[f] \in 0 .. scanReadAttempts
        BY AttemptNextOK DEF AttemptInv
      <4>2. Left(f)' \in Nat
        <5>1. scanReadAttempts - attempt'[f] \in Nat
          BY <4>1, ScanAssumption
        <5>2. QED BY <5>1 DEF Left
      <4>3. QED BY <1>1, <2>1, <3>1, <4>2, FileFalls
    <3>2. CASE g # f
      <4>1. Left(g)' = Left(g)
        BY <2>1, <3>2, FileFalls
      <4>2. QED BY <1>1, <4>1
    <3>3. QED BY <3>1, <3>2
  <2>5. Stretches[audit'] <= Stretches[audit]
    BY <2>2 DEF Stretches
  <2>6. QED BY <1>2, <2>3, <2>4, <2>5 DEF ScanFalls
<1>4. CASE ~\E f \in Library : Dispatch(f) \/ Goroutine(f)
  <2>1. ListFiles \/ Stop \/ Waited \/ RecoverQueue \/ Cancel
    BY <1>4 DEF ScanNext, Main
  <2>2. UNCHANGED <<stage, attempt>>
    BY <2>1 DEF ListFiles, Stop, Waited, RecoverQueue, Cancel
  <2>3. \A file \in Library : Left(file)' = Left(file)
    BY <2>2 DEF Left
  <2>4. ListFiles \/ Stop \/ Waited \/ RecoverQueue => Stretches[audit'] < Stretches[audit]
    BY DEF ListFiles, Stop, Waited, RecoverQueue, Return, Stretches
  <2>5. Cancel => audit' = audit /\ audit \in DOMAIN Stretches
    BY DEF Cancel, ScanInv, Stretches
  <2>6. Stretches[audit'] <= Stretches[audit]
    BY <2>1, <2>4, <2>5 DEF Stretches, ListFiles, Stop, Waited, RecoverQueue, Return
  <2>7. QED BY <1>1, <1>4, <2>3, <2>4, <2>6 DEF ScanFalls
<1>5. QED BY <1>3, <1>4

\* A scan of any library makes a bounded number of steps: with ScanNeverStuck
\* and goroutines that are scheduled again, Audit returns.
THEOREM ScanFallsCorrect == ScanSpec => [][ScanFalls]_scanVars
<1>1. ScanInv /\ AttemptInv /\ [ScanNext]_scanVars => ScanInv' /\ AttemptInv'
  BY ScanNextOK, AttemptNextOK
<1>2. ScanInv /\ AttemptInv /\ [ScanNext]_scanVars => [ScanFalls]_scanVars
  BY ScanFallsNext
<1>3. QED
  BY ScanInitOK, AttemptInitOK, <1>1, <1>2, PTL DEF ScanSpec

-----------------------------------------------------------------------------
(* PagedRead: sequences without repetition have as many members as entries. *)

LEMMA InjectiveCardinality ==
    ASSUME NEW s \in Seq(Rows), IsInjective(s)
    PROVE  IsFiniteSet(Range(s)) /\ Cardinality(Range(s)) = Len(s)
<1>1. s \in Bijection(1..Len(s), Range(s))
  <2>1. DOMAIN s = 1..Len(s)
    OBVIOUS
  <2>2. s \in [1..Len(s) -> Range(s)]
    BY <2>1 DEF Range
  <2>3. s \in Injection(1..Len(s), Range(s))
    BY <2>1, <2>2 DEF Injection, IsInjective
  <2>4. s \in Surjection(1..Len(s), Range(s))
    BY <2>1, <2>2 DEF Surjection, Range
  <2>5. QED BY <2>3, <2>4 DEF Bijection
<1>2. IsFiniteSet(1..Len(s)) /\ Cardinality(1..Len(s)) = Len(s)
  <2>1. Len(s) \in Nat /\ Len(s) \in Int /\ 1 \in Int
    OBVIOUS
  <2>2. QED BY <2>1, FS_Interval
<1>3. QED
  BY <1>1, <1>2, FS_Bijection DEF ExistsBijection

LEMMA ListingOK ==
    ASSUME NEW s \in Listings
    PROVE  s \in Seq(Rows) /\ IsInjective(s)
<1>1. PICK n \in 0..MaxRows : s \in [1..n -> Rows] /\ IsInjective(s)
  BY DEF Listings
<1>2. QED BY <1>1, PagedAssumption

\* What is missed of the list is at most what was read and removed.
LEMMA MissedOK ==
    ASSUME NEW L, NEW A, NEW R, IsFiniteSet(L), IsFiniteSet(A), IsFiniteSet(R),
           A \subseteq L \cup R, Cardinality(L) <= Cardinality(A)
    PROVE  Cardinality(L \ A) <= Cardinality(R)
<1>1. /\ Cardinality(L \ A) = Cardinality(L) - Cardinality(L \cap A)
      /\ Cardinality(A \ L) = Cardinality(A) - Cardinality(A \cap L)
  BY FS_Difference
<1>2. A \cap L = L \cap A
  OBVIOUS
<1>3. Cardinality(A \ L) <= Cardinality(R)
  <2>1. A \ L \in SUBSET R
    OBVIOUS
  <2>2. QED BY <2>1, FS_Subset
<1>4. /\ Cardinality(L) \in Nat /\ Cardinality(A) \in Nat /\ Cardinality(R) \in Nat
      /\ Cardinality(L \cap A) \in Nat
  BY FS_CardinalityType, FS_Intersection
<1>5. Cardinality(A \cap L) = Cardinality(L \cap A)
  BY <1>2
<1> DEFINE l == Cardinality(L)  a == Cardinality(A)  both == Cardinality(L \cap A)
<1>6. l - both <= a - both
  BY <1>4
<1>7. Cardinality(L \ A) = l - both /\ Cardinality(A \ L) = a - both
  BY <1>1, <1>5
<1>8. Cardinality(L \ A) <= Cardinality(A \ L)
  BY <1>6, <1>7
<1>9. Cardinality(A \ L) \in Int /\ Cardinality(L \ A) \in Int
  BY <1>4, <1>7
<1>10. QED BY <1>3, <1>4, <1>8, <1>9

PagedInv ==
    /\ list \in Listings
    /\ all \in Seq(Rows) /\ IsInjective(all)
    /\ Range(all) \subseteq Range(list) \cup removed
    /\ IsFiniteSet(removed)
    /\ number \in Nat \ {0}
    /\ reading = "returned" => Len(list) <= Len(all)

LEMMA PagedInitOK == PagedInit => PagedInv
<1> SUFFICES ASSUME PagedInit PROVE PagedInv
  OBVIOUS
<1>1. << >> \in Seq(Rows) /\ IsInjective(<< >>) /\ Range(<< >>) = {}
  BY DEF IsInjective, Range
<1>2. QED
  BY <1>1, FS_EmptySet DEF PagedInit, PagedInv

\* A page is a part of the list, in its order.
LEMMA PageOK ==
    ASSUME PagedInv
    PROVE  Page \in Seq(Rows) /\ IsInjective(Page) /\ Range(Page) \subseteq Range(list)
<1> DEFINE first == (number - 1) * PageSize + 1
           last == number * PageSize
           end == IF last < Len(list) THEN last ELSE Len(list)
<1>1. list \in Seq(Rows) /\ IsInjective(list) /\ Len(list) \in Nat
  BY ListingOK DEF PagedInv
<1>2. first \in Nat /\ first >= 1 /\ last \in Nat
  BY PagedAssumption DEF PagedInv
<1>3. end \in Nat /\ end <= Len(list)
  BY <1>1, <1>2
<1>4. Page = SubSeq(list, first, end)
  BY DEF Page
<1> HIDE DEF first, last, end
<1>5. /\ SubSeq(list, first, end) \in Seq(Rows)
      /\ Len(SubSeq(list, first, end)) = IF first <= end THEN end - first + 1 ELSE 0
      /\ \A i \in 1..Len(SubSeq(list, first, end)) :
            /\ SubSeq(list, first, end)[i] = list[first + i - 1]
            /\ first + i - 1 \in 1..Len(list)
  BY <1>1, <1>2, <1>3
<1>6. DOMAIN list = 1..Len(list) /\ DOMAIN Page = 1..Len(Page)
  BY <1>1, <1>4, <1>5
<1>7. Range(Page) \subseteq Range(list)
  BY <1>4, <1>5, <1>6 DEF Range
<1>8. ASSUME NEW i \in DOMAIN Page, NEW j \in DOMAIN Page, Page[i] = Page[j] PROVE i = j
  <2>1. list[first + i - 1] = list[first + j - 1]
    BY <1>4, <1>5, <1>6, <1>8
  <2>2. first + i - 1 \in DOMAIN list /\ first + j - 1 \in DOMAIN list
    BY <1>4, <1>5, <1>6
  <2>3. first + i - 1 = first + j - 1
    BY <1>1, <2>1, <2>2 DEF IsInjective
  <2>4. i \in Nat /\ j \in Nat
    BY <1>6
  <2>5. QED BY <1>2, <2>3, <2>4
<1>9. QED
  BY <1>4, <1>5, <1>7, <1>8 DEF IsInjective

LEMMA AppendOK ==
    ASSUME NEW s \in Seq(Rows), NEW t \in Seq(Rows), IsInjective(s), IsInjective(t),
           Range(t) \cap Range(s) = {}
    PROVE  /\ s \o t \in Seq(Rows) /\ IsInjective(s \o t)
           /\ Range(s \o t) = Range(s) \cup Range(t)
<1>1. /\ s \o t \in Seq(Rows)
      /\ Len(s \o t) = Len(s) + Len(t)
      /\ \A i \in 1..Len(s) : (s \o t)[i] = s[i]
      /\ \A i \in 1..Len(t) : (s \o t)[Len(s) + i] = t[i]
      /\ \A i \in 1..(Len(s) + Len(t)) : i \notin 1..Len(s) =>
            i - Len(s) \in 1..Len(t) /\ (s \o t)[i] = t[i - Len(s)]
  OBVIOUS
<1>2. /\ DOMAIN s = 1..Len(s) /\ DOMAIN t = 1..Len(t) /\ DOMAIN (s \o t) = 1..(Len(s) + Len(t))
      /\ Len(s) \in Nat /\ Len(t) \in Nat
  OBVIOUS
<1>3. ASSUME NEW i \in DOMAIN (s \o t), NEW j \in DOMAIN (s \o t), (s \o t)[i] = (s \o t)[j]
      PROVE  i = j
  <2>1. CASE i \in DOMAIN s /\ j \in DOMAIN s
    BY <1>1, <1>2, <1>3, <2>1 DEF IsInjective
  <2>2. CASE i \notin DOMAIN s /\ j \notin DOMAIN s
    <3>1. i - Len(s) \in DOMAIN t /\ j - Len(s) \in DOMAIN t /\ t[i - Len(s)] = t[j - Len(s)]
      BY <1>1, <1>2, <1>3, <2>2
    <3>2. i - Len(s) = j - Len(s)
      BY <3>1 DEF IsInjective
    <3>3. i \in Nat /\ j \in Nat
      BY <1>2
    <3>4. QED BY <1>2, <3>2, <3>3
  <2>3. CASE i \in DOMAIN s /\ j \notin DOMAIN s
    <3>1. (s \o t)[i] \in Range(s) /\ (s \o t)[j] \in Range(t)
      BY <1>1, <1>2, <2>3 DEF Range
    <3>2. QED BY <1>3, <3>1
  <2>4. CASE i \notin DOMAIN s /\ j \in DOMAIN s
    <3>1. (s \o t)[j] \in Range(s) /\ (s \o t)[i] \in Range(t)
      BY <1>1, <1>2, <2>4 DEF Range
    <3>2. QED BY <1>3, <3>1
  <2>5. QED BY <2>1, <2>2, <2>3, <2>4
<1>4. Range(s \o t) \subseteq Range(s) \cup Range(t)
  BY <1>1, <1>2 DEF Range
<1>5. ASSUME NEW x \in Range(s) \cup Range(t) PROVE x \in Range(s \o t)
  <2>1. CASE x \in Range(s)
    <3>1. PICK i \in DOMAIN s : x = s[i]
      BY <2>1 DEF Range
    <3>2. i \in DOMAIN (s \o t) /\ (s \o t)[i] = x
      BY <1>1, <1>2, <3>1
    <3>3. QED BY <3>2 DEF Range
  <2>2. CASE x \in Range(t)
    <3>1. PICK i \in DOMAIN t : x = t[i]
      BY <2>2 DEF Range
    <3>2. Len(s) + i \in DOMAIN (s \o t) /\ (s \o t)[Len(s) + i] = x
      BY <1>1, <1>2, <3>1
    <3>3. QED BY <3>2 DEF Range
  <2>3. QED BY <2>1, <2>2
<1>6. QED BY <1>1, <1>3, <1>4, <1>5 DEF IsInjective

LEMMA PagedNextOK ==
    ASSUME PagedInv, [PagedNext]_pagedVars
    PROVE  PagedInv'
<1>1. CASE UNCHANGED pagedVars
  BY <1>1 DEF pagedVars, listVars, PagedInv
<1>2. CASE RepeatedID \/ TooManyPages \/ RequestFails
  BY <1>2 DEF RepeatedID, TooManyPages, RequestFails, Finish, listVars, PagedInv
<1>3. CASE LastPage \/ EndsEarly \/ NextPage
  <2>1. list' = list /\ removed' = removed
    BY <1>3 DEF LastPage, EndsEarly, NextPage, Finish, listVars
  <2>2. all' = all \o Page /\ Range(Page) \cap Range(all) = {}
    BY <1>3 DEF LastPage, EndsEarly, NextPage, AppendPage
  <2>3. /\ all' \in Seq(Rows) /\ IsInjective(all')
        /\ Range(all') \subseteq Range(list) \cup removed
    BY <2>2, PageOK, AppendOK DEF PagedInv
  <2>4. number' \in Nat \ {0} /\ (reading' = "returned" => Len(list) <= Len(all'))
    BY <1>3, <2>1, <2>2, <2>3, ListingOK
       DEF LastPage, EndsEarly, NextPage, AppendPage, Asks, Finish, PagedInv
  <2>5. QED BY <2>1, <2>3, <2>4 DEF PagedInv
<1>4. CASE Changes
  <2>1. PICK next \in Listings :
            list' = next /\ removed' = removed \cup (Range(list) \ Range(next))
    BY <1>4 DEF Changes
  <2>2. IsFiniteSet(Range(list))
    BY ListingOK, InjectiveCardinality DEF PagedInv
  <2>3. IsFiniteSet(removed')
    BY <2>1, <2>2, FS_Subset, FS_Union DEF PagedInv
  <2>4. all' = all /\ number' = number /\ reading' = reading /\ reading # "returned"
    BY <1>4 DEF Changes
  <2>5. Range(all') \subseteq Range(list') \cup removed'
    BY <2>1, <2>4 DEF PagedInv
  <2>6. QED BY <2>1, <2>3, <2>4, <2>5 DEF PagedInv
<1>5. QED BY <1>1, <1>2, <1>3, <1>4 DEF PagedNext

\* However long the list and its pages, and however often it changes, a read
\* that returns has missed no more rows than were removed while it ran.
THEOREM MissesOnlyRemovedCorrect == PagedSpec => []MissesOnlyRemoved
<1>1. PagedInv => MissesOnlyRemoved
  <2> SUFFICES ASSUME PagedInv, reading = "returned"
               PROVE  Cardinality(Range(list) \ Range(all)) <= Cardinality(removed)
    BY DEF MissesOnlyRemoved
  <2>1. /\ IsFiniteSet(Range(list)) /\ Cardinality(Range(list)) = Len(list)
        /\ IsFiniteSet(Range(all)) /\ Cardinality(Range(all)) = Len(all)
    BY ListingOK, InjectiveCardinality DEF PagedInv
  <2>2. QED BY <2>1, MissedOK DEF PagedInv
<1>2. QED
  BY PagedInitOK, PagedNextOK, <1>1, PTL DEF PagedSpec

-----------------------------------------------------------------------------
(* Probe: a report the log lets the guard trust is complete.               *)

LEMMA TrustedIsComplete ==
    ASSUME NEW streams \in Contents, NEW lost \in SUBSET Subtitles(streams),
           NEW odd \in SUBSET lost, NEW log, Admits(log, lost),
           Classify(log, Report(streams, lost, odd)) = "trusted"
    PROVE  Report(streams, lost, odd) = streams
<1>1. \A line \in log : line.text # "operational" /\ Ignorable(line, Report(streams, lost, odd))
  BY DEF Classify, Operational
<1>2. lost = {}
  <2> SUFFICES ASSUME lost # {} PROVE FALSE
    OBVIOUS
  <2>1. PICK line \in log : Excuses(line, lost)
    BY DEF Admits
  <2>2. Ignorable(line, Report(streams, lost, odd)) /\ line.text # "operational"
    BY <1>1
  <2>3. PICK stream \in lost : line.context = stream.codec
    BY <2>1, <2>2 DEF Excuses, Ignorable
  <2>4. stream \in streams /\ stream.type = "subtitle" /\ stream.codec # "format"
    BY CodecAssumption DEF Subtitles
  <2>5. DecodesMedia(Report(streams, lost, odd), stream.codec)
    BY <2>2, <2>3, <2>4 DEF Ignorable
  <2>6. PICK user \in Report(streams, lost, odd) :
            user.codec = stream.codec /\ user.type \in {"audio", "video"}
    BY <2>5 DEF DecodesMedia
  <2>7. CASE user \in streams
    BY <2>4, <2>6, <2>7, CodecAssumption
  <2>8. CASE user \notin streams
    <3>1. PICK was \in odd : user = [was EXCEPT !.type = "unknown"]
      BY <2>6, <2>8 DEF Report
    <3>2. was \in [type : STRING, codec : STRING, language : STRING, title : STRING]
      BY ProbeAssumption DEF Subtitles
    <3>3. user.type = "unknown"
      BY <3>1, <3>2
    <3>4. QED BY <2>6, <3>3
  <2>9. QED BY <2>7, <2>8
<1>3. odd = {}
  BY <1>2
<1>4. QED BY <1>2, <1>3 DEF Report

-----------------------------------------------------------------------------
(* Probe: which version each variable of the judgement belongs to.         *)

AfterThen == {"validated", "recheck", "acts"}
AfterStatAgain == {"confirm"} \cup AfterThen
AfterJudge == {"stat"} \cup AfterStatAgain
AfterProbe == {"discover"} \cup AfterJudge

ProbeTypes ==
    /\ newest \in [Files -> Nat] /\ present \subseteq Files /\ content \in Contents
    /\ step \in {"begin", "probe", "deferred"} \cup AfterProbe
    /\ before \in Nat
    /\ seen.version \in Nat
    /\ names \subseteq Sidecars
    /\ infos \in [DOMAIN infos -> Nat] /\ DOMAIN infos \subseteq names
    /\ judged \in [DOMAIN judged -> Nat] /\ DOMAIN judged \subseteq Sidecars
    /\ then.newest \in [Files -> Nat]
    /\ ~listing => names = {}
    /\ listing => step \in {"discover", "confirm", "recheck"}

\* The media file: never newer than what is there now.
MediaVersions ==
    /\ step = "probe" => before <= newest[Media]
    /\ step \in AfterProbe => before <= seen.version /\ seen.version <= newest[Media]
    /\ step \in AfterStatAgain => seen.version = before

SidecarVersions ==
    /\ \A name \in DOMAIN infos : infos[name] <= newest[name]
    /\ step \in AfterJudge => \A name \in DOMAIN judged : judged[name] <= newest[name]

Verdict ==
    step \in AfterJudge =>
        /\ valid <=> Accepts(found \cup External(DOMAIN judged), old)
        /\ trust = "trusted" \/ (trust = "media error" /\ found = {} /\ DOMAIN judged = {})

Trusted ==
    step \in AfterProbe /\ trust = "trusted" => Embedded(seen.streams) \subseteq found

\* The moment of the second listing lies between all the looks before it and
\* all those after it.  A media file that was not there then has a new version.
Anchor ==
    (step = "confirm" /\ listing) \/ step \in AfterThen =>
        /\ \A file \in Files : then.newest[file] <= newest[file]
        /\ before <= then.newest[Media]
        /\ Media \in present \ then.present => then.newest[Media] < newest[Media]
        /\ \A name \in DOMAIN judged : judged[name] <= then.newest[name]

Confirmed ==
    /\ step = "confirm" /\ listing =>
          /\ names = then.present \cap Sidecars
          /\ \A name \in DOMAIN infos : then.newest[name] <= infos[name]
    /\ step \in AfterThen =>
          /\ DOMAIN judged = then.present \cap Sidecars
          /\ \A name \in DOMAIN judged : judged[name] = then.newest[name]
    /\ step \in {"recheck", "acts"} => Media \in then.present /\ before = then.newest[Media]

ProbeInv ==
    /\ ProbeTypes /\ MediaVersions /\ SidecarVersions
    /\ Verdict /\ Trusted /\ Anchor /\ Confirmed

LEMMA MediaIsFile == Media \in Files /\ Media \notin Sidecars /\ Sidecars \subseteq Files
  BY ProbeAssumption DEF Files

LEMMA ProbeInitOK == ProbeInit => ProbeInv
<1> SUFFICES ASSUME ProbeInit PROVE ProbeInv
  OBVIOUS
<1>1. ProbeTypes
  BY MediaIsFile DEF ProbeInit, ProbeTypes, AfterProbe, AfterJudge, AfterStatAgain, AfterThen
<1>2. MediaVersions /\ SidecarVersions /\ Verdict /\ Trusted /\ Anchor /\ Confirmed
  BY DEF ProbeInit, MediaVersions, SidecarVersions, Verdict, Trusted, Anchor, Confirmed,
         AfterProbe, AfterJudge, AfterStatAgain, AfterThen
<1>3. QED BY <1>1, <1>2 DEF ProbeInv

\* Versions only grow, whatever happens to the directory.
LEMMA DirectoryOK ==
    ASSUME ProbeInv, NEW file \in Files, Write(file) \/ Remove(file) \/ PutBack(file)
    PROVE  ProbeInv'
<1>1. /\ step' = step /\ old' = old /\ before' = before /\ seen' = seen /\ found' = found
      /\ trust' = trust /\ names' = names /\ infos' = infos /\ listing' = listing
      /\ judged' = judged /\ valid' = valid /\ then' = then
  BY DEF Write, Remove, PutBack, Writes, lookVars, reportVars
<1>2. /\ newest' \in [Files -> Nat] /\ present' \subseteq Files /\ content' \in Contents
      /\ \A f \in Files : newest[f] <= newest'[f]
      /\ Media \in present' => Media \in present \/ newest[Media] < newest'[Media]
  <2>1. CASE Write(file)
    BY <2>1, MediaIsFile DEF Write, ProbeInv, ProbeTypes
  <2>2. CASE Remove(file)
    BY <2>2 DEF Remove, ProbeInv, ProbeTypes
  <2>3. CASE PutBack(file)
    BY <2>3, MediaIsFile DEF PutBack, ProbeInv, ProbeTypes
  <2>4. QED BY <2>1, <2>2, <2>3
<1>3. newest[Media] \in Nat /\ newest'[Media] \in Nat /\ before \in Nat /\ seen.version \in Nat
  BY <1>2, MediaIsFile DEF ProbeInv, ProbeTypes
<1>4. ProbeTypes'
  BY <1>1, <1>2 DEF ProbeInv, ProbeTypes
<1>5. MediaVersions'
  BY <1>1, <1>2, <1>3, MediaIsFile DEF ProbeInv, MediaVersions
<1>6. SidecarVersions'
  <2>1. ASSUME NEW name \in DOMAIN infos PROVE infos[name] <= newest'[name]
    <3>1. name \in Files /\ infos[name] \in Nat /\ infos[name] <= newest[name]
      BY MediaIsFile DEF ProbeInv, ProbeTypes, SidecarVersions
    <3>2. QED BY <1>2, <3>1 DEF ProbeInv, ProbeTypes
  <2>2. ASSUME NEW name \in DOMAIN judged, step \in AfterJudge PROVE judged[name] <= newest'[name]
    <3>1. name \in Files /\ judged[name] \in Nat /\ judged[name] <= newest[name]
      BY <2>2, MediaIsFile DEF ProbeInv, ProbeTypes, SidecarVersions
    <3>2. QED BY <1>2, <3>1 DEF ProbeInv, ProbeTypes
  <2>3. QED BY <1>1, <2>1, <2>2 DEF SidecarVersions
<1>7. Verdict' /\ Trusted' /\ Confirmed'
  <2>1. Verdict /\ Trusted /\ Confirmed
    BY DEF ProbeInv
  <2>2. Verdict'
    BY <1>1, <2>1 DEF Verdict, Accepts, External
  <2>3. Trusted'
    BY <1>1, <2>1 DEF Trusted, Embedded, Subtitles
  <2>4. Confirmed'
    BY <1>1, <2>1 DEF Confirmed
  <2>5. QED BY <2>2, <2>3, <2>4
<1>8. Anchor'
  <2> SUFFICES ASSUME (step = "confirm" /\ listing) \/ step \in AfterThen
               PROVE  /\ \A f \in Files : then.newest[f] <= newest'[f]
                      /\ before <= then.newest[Media]
                      /\ Media \in present' \ then.present => then.newest[Media] < newest'[Media]
                      /\ \A name \in DOMAIN judged : judged[name] <= then.newest[name]
    BY <1>1 DEF Anchor
  <2>1. /\ \A f \in Files : then.newest[f] <= newest[f]
        /\ before <= then.newest[Media]
        /\ Media \in present \ then.present => then.newest[Media] < newest[Media]
        /\ \A name \in DOMAIN judged : judged[name] <= then.newest[name]
    BY DEF ProbeInv, Anchor
  <2>2. then.newest \in [Files -> Nat] /\ newest \in [Files -> Nat]
    BY DEF ProbeInv, ProbeTypes
  <2>3. \A f \in Files : then.newest[f] <= newest'[f]
    BY <1>2, <2>1, <2>2
  <2>4. Media \in present' \ then.present => then.newest[Media] < newest'[Media]
    <3>1. then.newest[Media] \in Nat /\ then.newest[Media] <= newest[Media]
          /\ newest[Media] <= newest'[Media]
      BY <1>2, <2>1, <2>2, MediaIsFile
    <3>2. QED BY <1>2, <1>3, <2>1, <3>1
  <2>5. QED BY <2>1, <2>3, <2>4
<1>9. QED BY <1>4, <1>5, <1>6, <1>7, <1>8 DEF ProbeInv

\* What the two moves of DiscoverExternalSubtitles leave alone.
LEMMA LookingOK ==
    ASSUME ProbeInv, ProbeTypes', SidecarVersions', Anchor', Confirmed',
           UNCHANGED <<dirVars, step, old, reportVars, judged, valid>>
    PROVE  ProbeInv'
<1>1. MediaVersions'
  BY DEF ProbeInv, MediaVersions, dirVars, reportVars
<1>2. Verdict'
  <2>1. Verdict
    BY DEF ProbeInv
  <2>2. QED BY <2>1 DEF Verdict, Accepts, External, reportVars
<1>3. Trusted'
  <2>1. Trusted
    BY DEF ProbeInv
  <2>2. QED BY <2>1 DEF Trusted, Embedded, Subtitles, reportVars
<1>4. QED BY <1>1, <1>2, <1>3 DEF ProbeInv

LEMMA ListsOK ==
    ASSUME ProbeInv,
           \/ Lists("discover") /\ UNCHANGED then
           \/ Lists("confirm") /\ then' = [newest |-> newest, present |-> present]
           \/ Lists("recheck") /\ UNCHANGED then
    PROVE  ProbeInv'
<1>1. /\ UNCHANGED <<dirVars, step, old, reportVars, judged, valid>>
      /\ infos' = infos /\ names' = present \cap Sidecars /\ listing' /\ ~listing
      /\ step \in {"discover", "confirm", "recheck"}
      /\ \/ then' = then /\ step # "confirm"
         \/ then' = [newest |-> newest, present |-> present] /\ step = "confirm"
  BY DEF Lists
<1>2. names = {} /\ DOMAIN infos = {}
  BY <1>1 DEF ProbeInv, ProbeTypes
<1>3. ProbeTypes'
  BY <1>1, <1>2 DEF ProbeInv, ProbeTypes, dirVars, reportVars
<1>4. SidecarVersions'
  BY <1>1, <1>2 DEF ProbeInv, SidecarVersions, dirVars
<1>5. CASE step # "confirm"
  <2>1. Anchor' /\ Confirmed'
    BY <1>1, <1>5 DEF ProbeInv, Anchor, Confirmed, dirVars, reportVars
  <2>2. QED BY <1>1, <1>3, <1>4, <2>1, LookingOK
<1>6. CASE step = "confirm"
  <2>1. then'.newest = newest /\ then'.present = present
    BY <1>1, <1>6
  <2>2. \A file \in Files : newest[file] \in Nat
    BY DEF ProbeInv, ProbeTypes
  <2>3. before <= newest[Media] /\ \A name \in DOMAIN judged : judged[name] <= newest[name]
    BY <1>6, MediaIsFile
       DEF ProbeInv, MediaVersions, SidecarVersions, AfterProbe, AfterJudge, AfterStatAgain
  <2>4. Anchor'
    BY <1>1, <2>1, <2>2, <2>3, MediaIsFile DEF Anchor, dirVars, reportVars
  <2>5. Confirmed'
    BY <1>1, <1>2, <1>6, <2>1 DEF Confirmed, AfterThen
  <2>6. QED BY <1>1, <1>3, <1>4, <2>4, <2>5, LookingOK
<1>7. QED BY <1>5, <1>6

LEMMA LooksAtOK ==
    ASSUME ProbeInv, NEW name \in Sidecars, LooksAt(name)
    PROVE  ProbeInv'
<1>1. /\ UNCHANGED <<dirVars, step, old, reportVars, judged, valid>>
      /\ names' = names /\ listing' = listing /\ then' = then /\ name \in names
      /\ DOMAIN infos' = DOMAIN infos \cup {name}
      /\ infos'[name] = newest[name]
      /\ \A n \in DOMAIN infos : n # name => infos'[n] = infos[n]
      /\ infos' = [n \in DOMAIN infos' |-> infos'[n]]
  BY DEF LooksAt
<1>2. newest[name] \in Nat
  BY MediaIsFile DEF ProbeInv, ProbeTypes
<1>3. ProbeTypes'
  <2>1. infos' \in [DOMAIN infos' -> Nat] /\ DOMAIN infos' \subseteq names
    BY <1>1, <1>2 DEF ProbeInv, ProbeTypes
  <2>2. QED BY <1>1, <2>1 DEF ProbeInv, ProbeTypes, dirVars, reportVars
<1>4. SidecarVersions'
  BY <1>1, <1>2 DEF ProbeInv, SidecarVersions, dirVars
<1>5. Anchor'
  BY <1>1 DEF ProbeInv, Anchor, dirVars, reportVars
<1>6. Confirmed'
  <2>1. step = "confirm" /\ listing => then.newest[name] <= newest[name]
    BY MediaIsFile DEF ProbeInv, Anchor
  <2>2. QED BY <1>1, <2>1 DEF ProbeInv, Confirmed, dirVars, reportVars
<1>7. QED BY <1>1, <1>3, <1>4, <1>5, <1>6, LookingOK

LEMMA StatOK ==
    ASSUME ProbeInv, Stat
    PROVE  ProbeInv'
<1>1. /\ step = "begin" /\ step' = "probe" /\ before' = newest[Media]
      /\ UNCHANGED <<dirVars, old, seen, found, trust, lookVars, judged, valid, then>>
  BY DEF Stat, Goto
<1>2. ProbeTypes'
  BY <1>1, MediaIsFile DEF ProbeInv, ProbeTypes, dirVars, lookVars
<1>3. newest[Media] \in Nat
  BY MediaIsFile DEF ProbeInv, ProbeTypes
<1>4. MediaVersions' /\ SidecarVersions' /\ Verdict' /\ Trusted' /\ Anchor' /\ Confirmed'
  BY <1>1, <1>3 DEF ProbeInv, MediaVersions, SidecarVersions, Verdict, Trusted, Anchor, Confirmed,
     AfterProbe, AfterJudge, AfterStatAgain, AfterThen, dirVars, lookVars
<1>5. QED BY <1>2, <1>4 DEF ProbeInv

LEMMA FFprobeOK ==
    ASSUME ProbeInv, FFprobe
    PROVE  ProbeInv'
<1>1. /\ step = "probe" /\ step' = "discover"
      /\ seen' = [version |-> newest[Media], streams |-> content]
      /\ UNCHANGED <<dirVars, old, before, lookVars, judged, valid, then>>
  BY DEF FFprobe, Goto
<1>2. PICK lost \in SUBSET Subtitles(content), log \in Logs :
          /\ Admits(log, lost)
          /\ \E odd \in SUBSET lost :
                /\ found' = Embedded(Report(content, lost, odd))
                /\ trust' = Classify(log, Report(content, lost, odd))
  BY DEF FFprobe
<1>3. PICK odd \in SUBSET lost :
          /\ found' = Embedded(Report(content, lost, odd))
          /\ trust' = Classify(log, Report(content, lost, odd))
  BY <1>2
<1>4. Trusted'
  <2>1. trust' = "trusted" => Report(content, lost, odd) = content
    BY <1>2, <1>3, TrustedIsComplete DEF ProbeInv, ProbeTypes
  <2>2. seen'.streams = content
    BY <1>1
  <2>3. trust' = "trusted" => Embedded(seen'.streams) \subseteq found'
    BY <1>3, <2>1, <2>2
  <2>4. QED BY <2>3 DEF Trusted, Embedded, Subtitles
<1>5. newest[Media] \in Nat /\ seen'.version = newest[Media]
  BY <1>1, MediaIsFile DEF ProbeInv, ProbeTypes
<1>6. ProbeTypes'
  BY <1>1, <1>5 DEF ProbeInv, ProbeTypes, AfterProbe, dirVars, lookVars
<1>7. MediaVersions' /\ SidecarVersions' /\ Verdict' /\ Anchor' /\ Confirmed'
  BY <1>1, <1>5 DEF ProbeInv, ProbeTypes, MediaVersions, SidecarVersions, Verdict, Anchor,
     Confirmed, AfterProbe, AfterJudge, AfterStatAgain, AfterThen, dirVars, lookVars
<1>8. QED BY <1>4, <1>6, <1>7 DEF ProbeInv

LEMMA JudgeOK ==
    ASSUME ProbeInv, Judge
    PROVE  ProbeInv'
<1>1. /\ step = "discover" /\ step' = "stat" /\ DOMAIN infos = names
      /\ names' = {} /\ infos' = << >> /\ listing' = FALSE /\ judged' = infos
      /\ UNCHANGED <<dirVars, old, reportVars, then>>
  BY DEF Judge, Discovered, Goto
<1>2. ProbeTypes'
  BY <1>1 DEF ProbeInv, ProbeTypes, AfterProbe, AfterJudge, dirVars, reportVars
<1>3. Verdict'
  <2>1. valid' = Accepts(found \cup External(DOMAIN judged'), old)
    BY <1>1 DEF Judge
  <2>2. trust = "trusted" \/ (trust = "media error" /\ found = {} /\ DOMAIN judged' = {})
    BY <1>1 DEF Judge
  <2>3. QED BY <1>1, <2>1, <2>2 DEF Verdict, Accepts, External, reportVars
<1>4. Trusted'
  <2>1. Trusted
    BY DEF ProbeInv
  <2>2. QED
    BY <1>1, <2>1 DEF Trusted, Embedded, Subtitles, AfterProbe, AfterJudge, reportVars
<1>5. MediaVersions' /\ SidecarVersions' /\ Anchor' /\ Confirmed'
  BY <1>1 DEF ProbeInv, MediaVersions, SidecarVersions, Anchor, Confirmed,
     AfterProbe, AfterJudge, AfterStatAgain, AfterThen, dirVars, reportVars
<1>6. QED BY <1>2, <1>3, <1>4, <1>5 DEF ProbeInv

\* Steps between two listings.
LEMMA BetweenOK ==
    ASSUME ProbeInv, step' \in {"confirm", "validated", "recheck", "acts"},
           step \in {"stat"} \cup AfterStatAgain,
           UNCHANGED <<dirVars, old, reportVars, judged, valid, then>>,
           names' = {}, infos' \in [{} -> Nat], ~listing'
    PROVE  /\ ProbeTypes' /\ SidecarVersions' /\ Verdict' /\ Trusted'
           /\ step = "stat" /\ before = seen.version => MediaVersions'
           /\ step # "stat" => MediaVersions'
<1>1. ProbeTypes'
  BY DEF ProbeInv, ProbeTypes, AfterProbe, AfterJudge, AfterStatAgain, AfterThen, dirVars,
         reportVars
<1>2. SidecarVersions'
  BY DEF ProbeInv, SidecarVersions, AfterJudge, AfterStatAgain, AfterThen, dirVars
<1>3. Verdict'
  <2>1. Verdict /\ step \in AfterJudge
    BY DEF ProbeInv, AfterJudge
  <2>2. QED BY <2>1 DEF Verdict, Accepts, External, reportVars
<1>4. Trusted'
  <2>1. Trusted /\ step \in AfterProbe
    BY DEF ProbeInv, AfterProbe, AfterJudge
  <2>2. QED BY <2>1 DEF Trusted, Embedded, Subtitles, reportVars
<1>5. /\ step = "stat" /\ before = seen.version => MediaVersions'
      /\ step # "stat" => MediaVersions'
  BY DEF ProbeInv, MediaVersions, AfterProbe, AfterJudge, AfterStatAgain, AfterThen, dirVars,
         reportVars
<1>6. QED BY <1>1, <1>2, <1>3, <1>4, <1>5

\* The media file has kept its version since before ffprobe ran.
LEMMA StatAgainOK ==
    ASSUME ProbeInv, StatAgain
    PROVE  ProbeInv'
<1>1. /\ step = "stat" /\ step' = "confirm" /\ newest[Media] = before
      /\ UNCHANGED <<dirVars, old, reportVars, lookVars, judged, valid, then>>
  BY DEF StatAgain, Goto
<1>2. ~listing /\ names = {} /\ infos \in [{} -> Nat]
  BY <1>1 DEF ProbeInv, ProbeTypes
<1>3. names' = {} /\ infos' \in [{} -> Nat] /\ ~listing'
  BY <1>1, <1>2 DEF lookVars
<1>4. before = seen.version
  <2>1. before \in Nat /\ seen.version \in Nat
    BY DEF ProbeInv, ProbeTypes
  <2>2. QED BY <1>1, <2>1 DEF ProbeInv, MediaVersions, AfterProbe, AfterJudge
<1>5. Anchor' /\ Confirmed'
  BY <1>1, <1>3 DEF Anchor, Confirmed, AfterThen
<1>6. QED BY <1>1, <1>3, <1>4, <1>5, BetweenOK DEF ProbeInv, AfterStatAgain

\* What the guard judged was there when the second listing began.
LEMMA ConfirmOK ==
    ASSUME ProbeInv, SameSidecars("confirm", "validated")
    PROVE  ProbeInv'
<1>1. /\ step = "confirm" /\ step' = "validated" /\ listing
      /\ DOMAIN infos = names /\ infos = judged
      /\ names' = {} /\ infos' \in [{} -> Nat] /\ ~listing'
      /\ UNCHANGED <<dirVars, old, reportVars, judged, valid, then>>
  BY DEF SameSidecars, Discovered, Goto
<1>2. /\ DOMAIN judged = then.present \cap Sidecars
      /\ \A name \in DOMAIN judged : then.newest[name] <= judged[name]
      /\ \A name \in DOMAIN judged : judged[name] <= then.newest[name]
  BY <1>1 DEF ProbeInv, Anchor, Confirmed
<1>3. ASSUME NEW name \in DOMAIN judged PROVE judged[name] = then.newest[name]
  <2>1. judged[name] \in Nat /\ then.newest[name] \in Nat
    BY MediaIsFile DEF ProbeInv, ProbeTypes
  <2>2. QED BY <1>2, <2>1
<1>4. Anchor' /\ Confirmed'
  BY <1>1, <1>2, <1>3 DEF ProbeInv, Anchor, Confirmed, AfterThen, dirVars, reportVars
<1>5. QED BY <1>1, <1>4, BetweenOK DEF ProbeInv, AfterStatAgain, AfterThen

LEMMA RecheckMediaOK ==
    ASSUME ProbeInv, RecheckMedia
    PROVE  ProbeInv'
<1>1. /\ step = "validated" /\ step' = "recheck"
      /\ Media \in present /\ newest[Media] = before
      /\ UNCHANGED <<dirVars, old, reportVars, lookVars, judged, valid, then>>
  BY DEF RecheckMedia, Goto
<1>2. names' = {} /\ infos' \in [{} -> Nat] /\ ~listing'
  <2>1. ~listing /\ names = {} /\ infos \in [{} -> Nat]
    BY <1>1 DEF ProbeInv, ProbeTypes
  <2>2. QED BY <1>1, <2>1 DEF lookVars
<1>3. /\ then.newest[Media] <= newest[Media] /\ before <= then.newest[Media]
      /\ Media \in present \ then.present => then.newest[Media] < newest[Media]
  BY <1>1, MediaIsFile DEF ProbeInv, Anchor, AfterThen
<1>4. before \in Nat /\ then.newest[Media] \in Nat
  BY MediaIsFile DEF ProbeInv, ProbeTypes
<1>5. before = then.newest[Media] /\ Media \in then.present
  BY <1>1, <1>3, <1>4
<1>6. Anchor' /\ Confirmed'
  BY <1>1, <1>2, <1>5 DEF ProbeInv, Anchor, Confirmed, AfterThen, dirVars, reportVars
<1>7. QED BY <1>1, <1>2, <1>6, BetweenOK DEF ProbeInv, AfterStatAgain, AfterThen

LEMMA RecheckOK ==
    ASSUME ProbeInv, SameSidecars("recheck", "acts")
    PROVE  ProbeInv'
<1>1. /\ step = "recheck" /\ step' = "acts"
      /\ names' = {} /\ infos' \in [{} -> Nat] /\ ~listing'
      /\ UNCHANGED <<dirVars, old, reportVars, judged, valid, then>>
  BY DEF SameSidecars, Discovered, Goto
<1>2. Anchor' /\ Confirmed'
  BY <1>1 DEF ProbeInv, Anchor, Confirmed, AfterThen, dirVars, reportVars
<1>3. QED BY <1>1, <1>2, BetweenOK DEF ProbeInv, AfterStatAgain, AfterThen

LEMMA DeferOK ==
    ASSUME ProbeInv, Defer
    PROVE  ProbeInv'
<1>1. /\ step' = "deferred" /\ names' = {} /\ infos' = << >> /\ listing' = FALSE
      /\ UNCHANGED <<dirVars, old, reportVars, judged, valid, then>>
  BY DEF Defer, Goto
<1>2. ProbeTypes'
  BY <1>1 DEF ProbeInv, ProbeTypes, dirVars, reportVars
<1>3. MediaVersions' /\ SidecarVersions' /\ Verdict' /\ Trusted' /\ Anchor' /\ Confirmed'
  BY <1>1 DEF MediaVersions, SidecarVersions, Verdict, Trusted, Anchor, Confirmed,
     AfterProbe, AfterJudge, AfterStatAgain, AfterThen
<1>4. QED BY <1>2, <1>3 DEF ProbeInv

LEMMA ProbeStutterOK ==
    ASSUME ProbeInv, UNCHANGED probeVars
    PROVE  ProbeInv'
<1>1. ProbeTypes' /\ SidecarVersions' /\ Anchor' /\ Confirmed'
  BY DEF ProbeInv, ProbeTypes, SidecarVersions, Anchor, Confirmed, probeVars, dirVars
<1>2. QED BY <1>1, LookingOK DEF probeVars, reportVars

LEMMA ProbeNextOK ==
    ASSUME ProbeInv, [ProbeNext]_probeVars
    PROVE  ProbeInv'
<1>1. CASE UNCHANGED probeVars
  BY <1>1, ProbeStutterOK
<1>2. QED
  BY <1>1, StatOK, FFprobeOK, ListsOK, JudgeOK, StatAgainOK, ConfirmOK, RecheckMediaOK,
     RecheckOK, LooksAtOK, DeferOK, DirectoryOK DEF ProbeNext

LEMMA ProbeInvariant == ProbeSpec => []ProbeInv
  BY ProbeInitOK, ProbeNextOK, PTL DEF ProbeSpec

\* Whatever happens to the files between the calls of a judgement, and however
\* often: what the guard acts on was all true at one moment.
THEOREM JudgedAtOnceCorrect == ProbeSpec => []JudgedAtOnce
<1>1. ProbeInv => JudgedAtOnce
  <2> SUFFICES ASSUME ProbeInv, step = "acts"
               PROVE  /\ Media \in then.present
                      /\ seen.version = then.newest[Media]
                      /\ DOMAIN judged = then.present \cap Sidecars
                      /\ \A name \in DOMAIN judged : judged[name] = then.newest[name]
                      /\ valid <=> Accepts(found \cup External(then.present \cap Sidecars), old)
    BY DEF JudgedAtOnce
  <2>1. /\ Media \in then.present
        /\ seen.version = then.newest[Media]
        /\ DOMAIN judged = then.present \cap Sidecars
        /\ \A name \in DOMAIN judged : judged[name] = then.newest[name]
    BY DEF ProbeInv, MediaVersions, Confirmed, AfterStatAgain, AfterThen
  <2>2. valid <=> Accepts(found \cup External(DOMAIN judged), old)
    BY DEF ProbeInv, Verdict, AfterJudge, AfterStatAgain, AfterThen
  <2>3. QED BY <2>1, <2>2
<1>2. QED BY ProbeInvariant, <1>1, PTL

\* For all files, logs and policies that meet the assumptions: nothing that
\* still has an English subtitle is rejected on an incomplete report.
THEOREM EnglishProtectedCorrect == ProbeSpec => []EnglishProtected
<1>1. ProbeInv => EnglishProtected
  <2> SUFFICES ASSUME ProbeInv, step = "acts", ~valid,
                      English \in Embedded(seen.streams) \cup External(DOMAIN judged)
               PROVE  found = {} /\ DOMAIN judged = {} /\ trust = "media error"
    BY DEF EnglishProtected
  <2>1. English \notin found \cup External(DOMAIN judged)
    BY DEF ProbeInv, Verdict, Accepts, AfterJudge, AfterStatAgain, AfterThen
  <2>2. trust # "trusted"
    BY <2>1 DEF ProbeInv, Trusted, AfterProbe, AfterJudge, AfterStatAgain, AfterThen
  <2>3. QED BY <2>2 DEF ProbeInv, Verdict, AfterJudge, AfterStatAgain, AfterThen
<1>2. QED BY ProbeInvariant, <1>1, PTL
=============================================================================
