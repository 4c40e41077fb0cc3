--------------------------- MODULE MCManualImport ---------------------------
(***************************************************************************)
(* A pack of two episodes, as one file for each, and as a file of both     *)
(* beside them.                                                            *)
(***************************************************************************)
EXTENDS ManualImport

MCKinds == {"sonarr"}
MCServers == {"s1"}
MCRequests == {[key |-> "q", kind |-> "sonarr", subject |-> 1, download |-> "d"]}
MCMediaRequests == {[key |-> "f", kind |-> "sonarr", subject |-> 1, download |-> NoDownload]}
MCAllRequests == MCRequests \cup MCMediaRequests
NoParts == [k \in {} |-> {}]
MCEpisodes == {"e1", "e2"}

Contents == {<<"f1", {"e1"}>>, <<"f2", {"e2"}>>, <<"f12", MCEpisodes>>}
Carried(sources) == [s \in sources |-> CHOOSE c \in SUBSET MCEpisodes : <<s, c>> \in Contents]
FileEach == Carried({"f1", "f2"})
AllFiles == Carried({"f1", "f2", "f12"})

Grab == [source |-> NoSource, episodes |-> {}]
GrabOnly == {<<Grab>>}
=============================================================================
