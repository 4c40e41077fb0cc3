------------------------------- MODULE Probe -------------------------------
(***************************************************************************)
(* One judgement of a media file: probe/probe.go (Validate,                *)
(* DiscoverExternalSubtitles, CheckSubtitleSnapshot), diagnostics.go       *)
(* (classifyProbeDiagnostics) and guard/remediation.go (validate and the   *)
(* local checks of applyValidationWithOrigin, just before it acts).        *)
(*                                                                         *)
(* The file system is read call by call while Arr and others replace the   *)
(* media file and write, remove and set aside the subtitle files next to   *)
(* it.  os.Stat and DirEntry.Info identify what a name holds: the version  *)
(* last written there.  A version does not return once another has taken   *)
(* its name.                                                               *)
(***************************************************************************)
EXTENDS Naturals, Sequences, FiniteSets, FiniteSetsExt, Functions

CONSTANTS
    Media,        \* the name of the media file
    Sidecars,     \* names that match it and end like a subtitle
    Tokens,       \* sidecar |-> the parts of its name after the media's
    Contents,     \* what media files hold: sets of streams
    Logs,         \* what ffprobe may log: sets of lines
    Known,        \* language codes the guard knows, "en" among them
    MaxWrites     \* bound on the changes to the files

ASSUME ProbeAssumption ==
    /\ Media \notin Sidecars /\ MaxWrites \in Nat
    /\ \A streams \in Contents :
          streams \subseteq [type : STRING, codec : STRING, language : STRING, title : STRING]

\* A codec is for subtitles or for other streams, not for both, and no codec
\* has the name of a container.
ASSUME CodecAssumption ==
    \A streams \in Contents : \A subtitle, stream \in streams :
        subtitle.type = "subtitle" =>
            /\ subtitle.codec # "format"
            /\ stream.codec = subtitle.codec => stream.type = "subtitle"

Files == Sidecars \cup {Media}

VARIABLES
    \* the directory
    newest,   \* file |-> the version last written under that name
    present,  \* names that are there now
    content,  \* what the media file holds
    writes,
    \* the judgement
    step,
    old,      \* the title is older than ten years
    before,   \* version of the media file before ffprobe
    seen,     \* version of the media file ffprobe read, and its streams
    found,    \* languages of the subtitle streams ffprobe listed
    trust,    \* what classifyProbeDiagnostics made of the log
    names,    \* DiscoverExternalSubtitles: the matching names it has listed,
    infos,    \* and the versions of those it has looked at
    listing,  \* it has listed the directory
    judged,   \* Validation.Sidecars
    valid,
    \* history, read by the properties only
    then      \* the directory when CheckSubtitleSnapshot of Validate listed it

dirVars == <<newest, present, content, writes>>
probeVars == <<dirVars, step, old, before, seen, found, trust, names, infos, listing,
              judged, valid, then>>

English == "en"
Unidentified == "und"

-----------------------------------------------------------------------------
(* The policy.  A stream is [type, codec, language, title], a line of the  *)
(* log [context, text]: a line that cannot be parsed has no context.       *)

Language(code) == IF code \in Known THEN code ELSE Unidentified

\* The language tag, or what the title says.
StreamLanguage(stream) ==
    IF stream.language \in Known THEN stream.language ELSE Language(stream.title)

\* English wherever the name says so, else the first language it names.
SidecarLanguage(name) ==
    LET parts == Tokens[name]
        named == {i \in DOMAIN parts : parts[i] \in Known}
    IN  IF English \in Range(parts) THEN English
        ELSE IF named = {} THEN Unidentified ELSE parts[Min(named)]

Subtitles(streams) == {stream \in streams : stream.type = "subtitle"}
Embedded(streams) == {StreamLanguage(stream) : stream \in Subtitles(streams)}
External(sidecars) == {SidecarLanguage(name) : name \in sidecars}

\* Old titles may keep a subtitle nobody can identify.
Accepts(languages, isOld) ==
    English \in languages \/ (isOld /\ Unidentified \in languages)

\* Mutant: a context that is no listed codec counts as a decoder's.
DecodesNoSubtitle(streams, codec) ==
    \A stream \in streams : stream.codec = codec => stream.type \in {"audio", "video"}

\* Every listed stream with this codec is audio or video, and there is one.
DecodesMedia(streams, codec) ==
    LET users == {stream \in streams : stream.codec = codec}
    IN  users # {} /\ \A stream \in users : stream.type \in {"audio", "video"}

Ignorable(line, streams) ==
    \/ line.context = "format" /\ line.text = "chapter"
    \/ /\ line.context \notin {"format", "none"}
       /\ line.text # "subtitle"
       /\ DecodesMedia(streams, line.context)

Operational(log) == \E line \in log : line.text = "operational"

Classify(log, streams) ==
    IF Operational(log) THEN "operational"
    ELSE IF \A line \in log : Ignorable(line, streams) THEN "trusted" ELSE "media error"

-----------------------------------------------------------------------------
(* ffprobe (external).  A subtitle stream it does not list as one, it      *)
(* could not read: it logs a line with the context of that stream's codec, *)
(* without a context or about subtitles, or a failure to access the file.  *)

Excuses(line, lost) ==
    \/ line.context \in {stream.codec : stream \in lost} \cup {"none"}
    \/ line.text \in {"subtitle", "operational"}

Admits(log, lost) == lost # {} => \E line \in log : Excuses(line, lost)

\* Of the lost streams, some are listed with an unknown type.
Report(streams, lost, odd) ==
    (streams \ lost) \cup {[stream EXCEPT !.type = "unknown"] : stream \in odd}

-----------------------------------------------------------------------------
(* Validate. *)

Goto(next) == step' = next

lookVars == <<names, infos, listing>>
reportVars == <<before, seen, found, trust>>

Stat ==
    /\ step = "begin"
    /\ Media \in present
    /\ before' = newest[Media]
    /\ Goto("probe")
    /\ UNCHANGED <<dirVars, old, seen, found, trust, lookVars, judged, valid, then>>

FFprobe ==
    /\ step = "probe"
    /\ Media \in present
    /\ \E lost \in SUBSET Subtitles(content), log \in Logs :
          /\ Admits(log, lost)
          /\ \E odd \in SUBSET lost :
                /\ found' = Embedded(Report(content, lost, odd))
                /\ trust' = Classify(log, Report(content, lost, odd))
    /\ seen' = [version |-> newest[Media], streams |-> content]
    /\ Goto("discover")
    /\ UNCHANGED <<dirVars, old, before, lookVars, judged, valid, then>>

\* DiscoverExternalSubtitles: os.ReadDir, then Info of each matching name.
Lists(at) ==
    /\ step = at /\ ~listing
    /\ names' = present \cap Sidecars
    /\ listing' = TRUE
    /\ UNCHANGED <<dirVars, step, old, reportVars, infos, judged, valid>>

LooksAt(name) ==
    /\ name \in (names \cap present) \ DOMAIN infos
    /\ infos' = [n \in DOMAIN infos \cup {name} |-> IF n = name THEN newest[n] ELSE infos[n]]
    /\ UNCHANGED <<dirVars, step, old, reportVars, names, listing, judged, valid, then>>

Discovered(at) ==
    /\ step = at /\ listing /\ DOMAIN infos = names
    /\ names' = {} /\ infos' = << >> /\ listing' = FALSE
    /\ UNCHANGED <<dirVars, old, reportVars, then>>

\* An untrusted report is good for a rejection only: when nothing at all was
\* found, and the log does not say that the file could not be read.
Judge ==
    /\ Discovered("discover")
    /\ trust = "trusted" \/ (trust = "media error" /\ found = {} /\ names = {})
    /\ judged' = infos
    /\ valid' = Accepts(found \cup External(names), old)
    /\ Goto("stat")

StatAgain ==
    /\ step = "stat"
    /\ Media \in present /\ newest[Media] = before
    /\ Goto("confirm")
    /\ UNCHANGED <<dirVars, old, reportVars, lookVars, judged, valid, then>>

\* CheckSubtitleSnapshot: the same names, each with the same version.
SameSidecars(at, next) ==
    /\ Discovered(at)
    /\ infos = judged
    /\ Goto(next)
    /\ UNCHANGED <<judged, valid>>

-----------------------------------------------------------------------------
(* Before the guard acts on the verdict. *)

\* Mutant: only the subtitle files are compared again.
RecheckNoMedia ==
    /\ step = "validated"
    /\ Goto("recheck")
    /\ UNCHANGED <<dirVars, old, reportVars, lookVars, judged, valid, then>>

RecheckMedia ==
    /\ step = "validated"
    /\ Media \in present /\ newest[Media] = before
    /\ Goto("recheck")
    /\ UNCHANGED <<dirVars, old, reportVars, lookVars, judged, valid, then>>

\* Any call may fail and any comparison may find a difference, that of the size
\* with the one Arr knows included: the judgement is put off and starts anew
\* another time.
Defer ==
    /\ step \notin {"acts", "deferred"}
    /\ Goto("deferred")
    /\ names' = {} /\ infos' = << >> /\ listing' = FALSE
    /\ UNCHANGED <<dirVars, old, reportVars, judged, valid, then>>

-----------------------------------------------------------------------------
(* Arr, the user and other programs, at any time.                          *)

Writes ==
    /\ step \notin {"acts", "deferred"} /\ writes < MaxWrites
    /\ writes' = writes + 1
    /\ UNCHANGED <<step, old, reportVars, lookVars, judged, valid, then>>

Write(file) ==
    /\ Writes
    /\ newest' = [newest EXCEPT ![file] = @ + 1]
    /\ present' = present \cup {file}
    /\ IF file = Media THEN content' \in Contents ELSE UNCHANGED content

Remove(file) ==
    /\ Writes
    /\ file \in present
    /\ present' = present \ {file}
    /\ UNCHANGED <<newest, content>>

\* A subtitle file that was set aside comes back; a media file does not.
PutBack(file) ==
    /\ Writes
    /\ file \in Sidecars \ present
    /\ present' = present \cup {file}
    /\ UNCHANGED <<newest, content>>

ProbeInit ==
    /\ newest = [file \in Files |-> 0]
    /\ present \in {{Media} \cup here : here \in SUBSET Sidecars}
    /\ content \in Contents
    /\ writes = 0
    /\ step = "begin"
    /\ old \in BOOLEAN
    /\ before = 0 /\ seen = [version |-> 0, streams |-> {}]
    /\ found = {} /\ trust = "trusted"
    /\ names = {} /\ infos = << >> /\ listing = FALSE
    /\ judged = << >> /\ valid = FALSE
    /\ then = [newest |-> newest, present |-> {}]

ProbeNext ==
    \/ Stat \/ FFprobe
    \/ Lists("discover") /\ UNCHANGED then
    \/ Judge \/ StatAgain
    \/ Lists("confirm") /\ then' = [newest |-> newest, present |-> present]
    \/ SameSidecars("confirm", "validated")
    \/ RecheckMedia
    \/ Lists("recheck") /\ UNCHANGED then
    \/ SameSidecars("recheck", "acts")
    \/ \E name \in Sidecars : LooksAt(name)
    \/ Defer
    \/ \E file \in Files : Write(file) \/ Remove(file) \/ PutBack(file)

ProbeSpec == ProbeInit /\ [][ProbeNext]_probeVars

-----------------------------------------------------------------------------
(* Correctness. *)

\* No two of the calls that a judgement consists of see the same directory.
\* Still, what the guard acts on was true at one single moment: when the
\* judgement listed the directory the second time, that media file was there
\* with exactly those versions of exactly those subtitle files, and the
\* verdict is the policy's for them.
JudgedAtOnce ==
    step = "acts" =>
        /\ Media \in then.present
        /\ seen.version = then.newest[Media]
        /\ DOMAIN judged = then.present \cap Sidecars
        /\ \A name \in DOMAIN judged : judged[name] = then.newest[name]
        /\ valid <=> Accepts(found \cup External(then.present \cap Sidecars), old)

\* A file that holds an English subtitle, or has one next to it, is rejected
\* (deleted and searched for again) only if nothing at all identified it:
\* ffprobe listed no subtitle, not even a foreign one, no subtitle file
\* matches, and the log blames the media and not the access to it.
EnglishProtected ==
    /\ step = "acts" /\ ~valid
    /\ English \in Embedded(seen.streams) \cup External(DOMAIN judged)
    => found = {} /\ DOMAIN judged = {} /\ trust = "media error"
=============================================================================
