-------------------------- MODULE MCQueueRecovery --------------------------
(***************************************************************************)
(* A season pack of two episodes, and a second download of one of them,    *)
(* which may be rejected too, or be a live replacement, or have a row Arr  *)
(* could not parse.                                                        *)
(***************************************************************************)
EXTENDS QueueRecovery

MCKinds == {"sonarr"}
MCServers == {"s1"}
MCEpisodes == {"e1", "e2"}
NoParts == [k \in {} |-> {}]
MCDownloads == {"d1", "d2"}
MCQueueKey == [d \in MCDownloads |-> d]
MCKeys == MCDownloads \cup {"f"}
Request(key, download) == [key |-> key, kind |-> "sonarr", subject |-> 1, download |-> download]
MCQueueRequests == {Request(d, d) : d \in MCDownloads}
MCRequests == MCQueueRequests \cup {Request("f", NoDownload)}
MCMediaRequests == {Request("f", NoDownload)}

Row(d, e) == [download |-> d, episode |-> e]
MCRows == {Row("d1", "e1"), Row("d1", "e2"), Row("d2", "e2"), Row("d2", NoEpisode)}
MCGrabbed == [d \in MCDownloads |-> IF d = "d1" THEN {"e1", "e2"} ELSE {"e2"}]

MCFirstRows ==
    {q \in [MCRows -> {"blocked", "imported", "active", "gone"}] :
        /\ q[Row("d1", "e1")] = "blocked"
        /\ q[Row("d1", "e2")] \in {"blocked", "imported"}
        /\ q[Row("d2", "e2")] # "imported"
        /\ q[Row("d2", NoEpisode)] = "gone" \/ q[Row("d2", "e2")] = "gone"}

\* Only two rows of the pack and one of the second download.
ThreeRows == MCRows \ {Row("d2", NoEpisode)}
BothRejected == {[r \in ThreeRows |-> "blocked"]}
=============================================================================
