----------------------------- MODULE Operations -----------------------------
(***************************************************************************)
(* The vocabulary of the operation journal (guard/state_model.go): what    *)
(* identifies an operation, the phases it is persisted with, and which     *)
(* operations exclude one another.                                         *)
(***************************************************************************)

CONSTANTS
    Kinds,       \* {"sonarr", "radarr"}
    Keys,        \* operation keys: kind:file:id and kind:queue:download
    Subjects,    \* series or movie IDs
    Downloads,   \* download IDs, compared without case
    NoDownload,  \* the empty download ID
    Requests     \* the operations a caller may begin

Phases == {"delete-requested", "deleted", "origin-requested",
           "origin-complete", "search-requested", "queue-removal-requested",
           "queue-removed", "manual-import-requested",
           "manual-import-submitted", "manual-import-cleanup-requested"}

\* An unfinished operation keeps every other one off its subject and download.
Fences(pending, op) ==
    /\ pending.kind = op.kind
    /\ \/ pending.subject = op.subject
       \/ op.download # NoDownload /\ pending.download = op.download

\* A key names one media file or one download, so two operations begun under
\* one key have the same subject or the same download.
ASSUME RequestAssumption ==
    /\ Requests \subseteq [key : Keys, kind : Kinds, subject : Subjects,
                           download : Downloads \cup {NoDownload}]
    /\ \A r, s \in Requests : r.key = s.key => Fences(r, s)
=============================================================================
