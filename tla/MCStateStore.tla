---------------------------- MODULE MCStateStore ----------------------------
(***************************************************************************)
(* A series with a file and a blocked download of the same release, and a  *)
(* second series that claims the same download.  Two episodes and the      *)
(* legacy counter that combines them.  Two servers that may be configured. *)
(***************************************************************************)
EXTENDS StateStore

Request(key, subject) == [key |-> key, kind |-> "sonarr", subject |-> subject, download |-> "d"]

Sonarr == {"sonarr"}
TwoServers == {"s1", "s2"}

SeriesRequests ==
    {Request("sonarr:file:1", 1), Request("sonarr:queue:d", 1), Request("sonarr:file:2", 2)}
SeriesKeys == {r.key : r \in SeriesRequests}

TwoEpisodes == {"e1", "e2", "e1,e2"}
Combined == [k \in {"e1,e2"} |-> {"e1", "e2"}]
=============================================================================
