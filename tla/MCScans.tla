------------------------------ MODULE MCScans ------------------------------
(***************************************************************************)
(* A library scan, the judgement of one file and the reading of one list.  *)
(* The three machines share no state, so a behaviour runs one of them and  *)
(* leaves the others parked in an initial state.                           *)
(***************************************************************************)
EXTENDS Probe, PagedRead, Scan

\* Probe.  Files without a subtitle, with an English one, with one that only
\* its title identifies, and with one that nothing does.
MCKnown == {"en", "fr"}
Stream(type, codec, language, title) ==
    [type |-> type, codec |-> codec, language |-> language, title |-> title]
Video == Stream("video", "h264", "und", "")
EnglishText == Stream("subtitle", "subrip", "en", "")
FrenchTitle == Stream("subtitle", "subrip", "und", "fr")
Unnamed == Stream("subtitle", "pgs", "und", "")
MCContents == {{Video}, {Video, EnglishText}, {Video, EnglishText, FrenchTitle}, {Video, Unnamed}}

MCTokens ==
    [name \in {"s1", "s2"} |-> IF name = "s1" THEN <<"fr", "en">> ELSE <<"forced">>]

Line(context, text) == [context |-> context, text |-> text]
Lines == {Line(context, "other") : context \in {"h264", "subrip", "pgs", "format", "none"}}
    \cup {Line("h264", "subtitle"), Line("h264", "operational"), Line("format", "chapter")}
\* No line, one, or one after an ignorable one.
MCLogs == {{}} \cup UNION {{{line}, {Line("h264", "other"), line}} : line \in Lines}

ScanParked == ScanInit
ProbeParked == ProbeInit /\ present = {Media} /\ content = {Video} /\ ~old
PagedParked == list = << >> /\ PagedInit

MCInit ==
    \/ ScanInit /\ ProbeParked /\ PagedParked
    \/ ScanParked /\ ProbeInit /\ PagedParked
    \/ ScanParked /\ ProbeParked /\ PagedInit

MCNext ==
    \/ ProbeParked /\ PagedParked /\ ScanNext /\ UNCHANGED <<probeVars, pagedVars>>
    \/ ScanParked /\ PagedParked /\ ProbeNext /\ UNCHANGED <<scanVars, pagedVars>>
    \/ ScanParked /\ ProbeParked /\ PagedNext /\ UNCHANGED <<scanVars, probeVars>>

MCSpec == MCInit /\ [][MCNext]_<<scanVars, probeVars, pagedVars>> /\ ScanFairness
=============================================================================
