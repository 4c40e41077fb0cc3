--------------------------- MODULE MCRemediation ---------------------------
(***************************************************************************)
(* One series.  "Replace": one bad file and the replacement Arr may import *)
(* for it, or before it.  "Pack": two files of one download.               *)
(***************************************************************************)
EXTENDS Remediation

MCKinds == {"sonarr"}
MCServers == {"s1"}
NoParts == [k \in {} |-> {}]

TwoFiles == {"f1", "f2"}
Subject == [f \in TwoFiles |-> 1]
Request(f, download) == [key |-> f, kind |-> "sonarr", subject |-> 1, download |-> download]

OneEpisode == {"e1"}
TwoEpisodes == {"e1", "e2"}

\* Replace: f2 comes from another download, which has no import history yet.
ReplaceDownload == [f \in TwoFiles |-> IF f = "f1" THEN "d" ELSE NoDownload]
ReplacePack == [d \in {"d"} |-> {"e1"}]
ReplaceFirst == [e \in TwoEpisodes |-> IF e = "e1" THEN "f1" ELSE NoFile]

\* Pack: both files come from d.
PackDownload == [f \in TwoFiles |-> "d"]
PackPack == [d \in {"d"} |-> TwoEpisodes]
PackFirst == [e \in TwoEpisodes |-> IF e = "e1" THEN "f1" ELSE "f2"]

MCRequests == {Request(f, d) : f \in TwoFiles, d \in Downloads \cup {NoDownload}}
=============================================================================
