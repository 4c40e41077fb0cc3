-------------------------------- MODULE Scan --------------------------------
(***************************************************************************)
(* A library scan: guard/scan.go (Audit, for one Arr server) and retry.go  *)
(* (retryScanReads, auditFileWithRetries).  The listed files are judged by *)
(* goroutines of their own, at most Workers at a time; a file that cannot  *)
(* be judged yet is tried again and is in the end left to the durable jobs *)
(* of the service.  The queue is recovered when all files are through.     *)
(*                                                                         *)
(* What one judgement does is Remediation's and Probe's matter: here it    *)
(* succeeds, or fails with an error that canRetryProcessing accepts        *)
(* ("retry") or refuses ("review").                                        *)
(***************************************************************************)
EXTENDS Naturals, FiniteSets

CONSTANTS
    Library,           \* the files ListSubtitleGuardFiles returns
    Workers,
    scanReadAttempts

ASSUME ScanAssumption ==
    /\ IsFiniteSet(Library)
    /\ Workers \in Nat \ {0} /\ scanReadAttempts \in Nat \ {0}

VARIABLES
    audit,      \* "list", "files", "recover", "returned"
    outcome,    \* what Audit returns: "none", "nil", "error", "cancelled"
    cancelled,  \* the context is
    stage,      \* of a file: "listed", "runs", "retries", "queues", "through"
    attempt,    \* attempts made for a file
    error,      \* last error of a file: "nil", "retry", "review"
    firstErr,   \* an error was recorded
    stored      \* files with a durable job

scanVars == <<audit, outcome, cancelled, stage, attempt, error, firstErr, stored>>

\* Mutant: a goroutine that is through keeps its slot.
BusyForever == {"runs", "retries", "queues", "through"}

Busy == {"runs", "retries", "queues"}

\* Goroutines that hold a slot of the semaphore.
Running == {file \in Library : stage[file] \in Busy}

Return(how) == audit' = "returned" /\ outcome' = how

\* The list is read with the same retries: here it succeeds or fails.
ListFiles ==
    /\ audit = "list"
    /\ \/ audit' = "files" /\ UNCHANGED outcome
       \/ Return("error")
    /\ UNCHANGED <<cancelled, stage, attempt, error, firstErr, stored>>

\* A free slot of the semaphore is taken.  The select may choose it even when
\* the context is cancelled too.
Dispatch(file) ==
    /\ audit = "files"
    /\ stage[file] = "listed" /\ Cardinality(Running) < Workers
    /\ stage' = [stage EXCEPT ![file] = "runs"]
    /\ UNCHANGED <<audit, outcome, cancelled, attempt, error, firstErr, stored>>

\* The other branch of the select, and the wait for the goroutines after it.
Stop ==
    /\ audit = "files" /\ cancelled
    /\ \E file \in Library : stage[file] = "listed"
    /\ Running = {}
    /\ Return("cancelled")
    /\ UNCHANGED <<cancelled, stage, attempt, error, firstErr, stored>>

Reported == IF firstErr THEN "error" ELSE "nil"

Waited ==
    /\ audit = "files"
    /\ \A file \in Library : stage[file] = "through"
    /\ IF cancelled THEN Return("cancelled")
       ELSE audit' = "recover" /\ outcome' = Reported
    /\ UNCHANGED <<cancelled, stage, attempt, error, firstErr, stored>>

\* recoverBlockedQueue; its error is joined to the scan's.
RecoverQueue ==
    /\ audit = "recover"
    /\ \E how \in {outcome, "error"} : Return(how)
    /\ UNCHANGED <<cancelled, stage, attempt, error, firstErr, stored>>

-----------------------------------------------------------------------------
(* The goroutine of one file. *)

Last(file) == attempt'[file] >= scanReadAttempts

\* Mutant: the last result is kept, not the first error.
ThroughLast(file) ==
    /\ stage' = [stage EXCEPT ![file] = "through"]
    /\ firstErr' = (error'[file] # "nil")

Through(file) ==
    /\ stage' = [stage EXCEPT ![file] = "through"]
    /\ firstErr' = (firstErr \/ error'[file] # "nil")

\* One attempt.  The first uses the file as it was listed, the others what Arr
\* says of it now; a file that is gone meanwhile needs no judgement.
Judged(file) ==
    /\ stage[file] = "runs"
    /\ attempt' = [attempt EXCEPT ![file] = @ + 1]
    /\ \E err \in {"nil", "retry", "review"} :
          /\ error' = [error EXCEPT ![file] = err]
          /\ IF err # "retry" THEN Through(file)
             ELSE /\ stage' = [stage EXCEPT ![file] =
                         IF Last(file) \/ cancelled THEN "queues" ELSE "retries"]
                  /\ UNCHANGED firstErr
    /\ UNCHANGED <<audit, outcome, cancelled, stored>>

\* The pause between two attempts ends, or the context does.
Retry(file) ==
    /\ stage[file] = "retries"
    /\ \/ /\ stage' = [stage EXCEPT ![file] = "runs"]
          /\ UNCHANGED <<error, firstErr>>
       \/ /\ cancelled
          /\ error' = [error EXCEPT ![file] = "review"]
          /\ Through(file)
    /\ UNCHANGED <<audit, outcome, cancelled, attempt, stored>>

\* Enqueue, unless the context ended.  The job may fail to be written, which
\* is an error nothing repairs.
SaveJob(file) ==
    /\ stage[file] = "queues"
    /\ \/ ~cancelled /\ stored' = stored \cup {file} /\ UNCHANGED error
       \/ ~cancelled /\ error' = [error EXCEPT ![file] = "review"] /\ UNCHANGED stored
       \/ cancelled /\ UNCHANGED <<error, stored>>
    /\ Through(file)
    /\ UNCHANGED <<audit, outcome, cancelled, attempt>>

Cancel ==
    /\ ~cancelled /\ audit # "returned"
    /\ cancelled' = TRUE
    /\ UNCHANGED <<audit, outcome, stage, attempt, error, firstErr, stored>>

ScanInit ==
    /\ audit = "list" /\ outcome = "none"
    /\ cancelled = FALSE
    /\ stage = [file \in Library |-> "listed"]
    /\ attempt = [file \in Library |-> 0]
    /\ error = [file \in Library |-> "nil"]
    /\ firstErr = FALSE
    /\ stored = {}

Goroutine(file) == Judged(file) \/ Retry(file) \/ SaveJob(file)

Main == (\E file \in Library : Dispatch(file)) \/ Stop \/ Waited \/ RecoverQueue

ScanNext ==
    \/ ListFiles
    \/ Main
    \/ \E file \in Library : Goroutine(file)
    \/ Cancel

\* A scan that has begun goes on: every goroutine is scheduled again, and every
\* call it makes ends (HTTP requests and ffprobe have timeouts).
ScanFairness ==
    /\ WF_scanVars(Main)
    /\ \A file \in Library : WF_scanVars(Goroutine(file))

ScanSpec == ScanInit /\ [][ScanNext]_scanVars /\ ScanFairness

-----------------------------------------------------------------------------
(* Correctness. *)

\* No file falls through: a scan that was not cancelled has settled each file,
\* or left it to a durable job, or met an error that needs a person; and unless
\* every single file was settled it does not report success.
EveryFileAccounted ==
    audit = "returned" /\ ~cancelled =>
        /\ outcome = "nil" => \A file \in Library : error[file] = "nil"
        /\ \A file \in Library : error[file] = "retry" => file \in stored

\* A scan ends: more files than slots, retries and cancellation included.
ScanEnds == audit = "files" ~> audit = "returned"
=============================================================================
