------------------------------- MODULE OrasSetup -------------------------------
(***************************************************************************)
(* The action that puts the ORAS tool on the PATH of the repository's      *)
(* scanning workflow, and the script that keeps its table of releases.     *)
(*                                                                         *)
(* The script copies the checksums of upstream releases into the table;    *)
(* later, a job downloads a release and compares it with the table. In     *)
(* between upstream publishes, uploads and rebuilds releases, downloads    *)
(* are garbled, calls fail, and a maintainer asks for versions by hand.    *)
(*                                                                         *)
(* A SHA-256 checksum is modelled by the file it is the checksum of: two   *)
(* files with one checksum are left out.                                   *)
(*                                                                         *)
(* A definition whose name ends in _Word is a plausible bug in the one it  *)
(* is named after: the property checks show that they notice it.           *)
(***************************************************************************)
EXTENDS Integers

CONSTANTS
    Versions,    \* release numbers, triples of numbers
    Targets,     \* the <<platform, arch>> pairs upstream builds for
    FirstTable,  \* the versions the table of releases starts with
    Jobs,        \* workflow jobs that use the action
    Inputs,      \* what a job may ask for: version, url and checksum
    Runners,     \* the machines jobs run on: os.platform() and os.arch()
    MaxRebuilds, \* bound: how often upstream builds a release again
    MaxFaults,   \* bound: failed calls and garbled or unreadable downloads
    None, Garbled, Unreadable  \* no value; a file nobody built; no file to read

Artifacts == [version: Versions, target: Targets, build: 1 .. MaxRebuilds + 1]
Addresses == [version: Versions, target: Targets]

ASSUME OrasAssumption ==
    /\ Versions \subseteq Nat \X Nat \X Nat
    /\ FirstTable \subseteq Versions
    /\ FirstTable # {}
    /\ Targets # {}
    /\ Inputs \subseteq [version: Versions, url: Addresses \cup {None},
                         checksum: Artifacts \cup {None}]
    /\ Inputs # {}
    /\ Runners \subseteq [os: STRING, arch: STRING]
    /\ Runners # {}
    /\ MaxRebuilds \in Nat
    /\ MaxFaults \in Nat
    /\ None \notin Artifacts \cup Addresses
    /\ {Garbled, Unreadable} \cap (Artifacts \cup {None}) = {}
    /\ Garbled # Unreadable

VARIABLES
    upstream,  \* the releases on GitHub and the builds of their artifacts
    table,     \* releases.json: the checksums of each version it has
    script,    \* the run of update-releases.mjs, and what it has fetched
    rebuilds,  \* how often upstream has built a release again
    byHand,    \* history: versions a maintainer asked for
    jobs,      \* the jobs, each a run of setup.ts
    faults     \* how many faults have happened

vars == <<upstream, table, script, rebuilds, byHand, jobs, faults>>

\* Drafts, prereleases and what has not got a name like v1.2.3 are unlisted.
Release == [stage: {"unlisted", "final"}, builds: [Targets -> 0 .. MaxRebuilds + 1]]
Info == [url: Addresses, checksum: Artifacts]

\* An entry of the table: the checksums of one version, at least one.
IsEntry(e, v) ==
    /\ DOMAIN e \subseteq Targets
    /\ DOMAIN e # {}
    /\ \A t \in DOMAIN e : e[t] \in Artifacts /\ e[t].version = v /\ e[t].target = t
IsTable(r) == DOMAIN r \subseteq Versions /\ \A v \in DOMAIN r : IsEntry(r[v], v)

TypeOK ==
    /\ upstream \in [Versions -> Release]
    /\ IsTable(table)
    /\ script.step \in {"idle", "fetching"}
    /\ script.missing \subseteq Versions
    /\ IsTable(script.releases)
    /\ rebuilds \in 0 .. MaxRebuilds
    /\ byHand \subseteq Versions
    /\ jobs \in [Jobs -> [step: {"idle", "resolved", "downloaded", "done", "failed"},
                          input: Inputs, runner: Runners, info: Info \cup {None},
                          file: Artifacts \cup {None, Garbled, Unreadable}]]
    /\ faults \in 0 .. MaxFaults

Built(v) == {t \in Targets : upstream[v].builds[t] > 0}
Artifact(v, t) == [version |-> v, target |-> t, build |-> upstream[v].builds[t]]
NewJob == [step |-> "idle", input |-> CHOOSE i \in Inputs : TRUE,
           runner |-> CHOOSE r \in Runners : TRUE, info |-> None, file |-> None]
IdleScript == [step |-> "idle", missing |-> {}, releases |-> table]

Init ==
    /\ upstream = [v \in Versions |->
           IF v \in FirstTable
           THEN [stage |-> "final", builds |-> [t \in Targets |-> 1]]
           ELSE [stage |-> "unlisted", builds |-> [t \in Targets |-> 0]]]
    /\ table = [v \in FirstTable |-> [t \in Targets |-> Artifact(v, t)]]
    /\ script = IdleScript
    /\ rebuilds = 0
    /\ byHand = {}
    /\ jobs = [j \in Jobs |-> NewJob]
    /\ faults = 0

Faulty == faults < MaxFaults /\ faults' = faults + 1

(***************************************************************************)
(* Upstream.                                                               *)
(***************************************************************************)
Publish(v) ==
    /\ upstream[v].stage = "unlisted"
    /\ upstream' = [upstream EXCEPT ![v].stage = "final"]
    /\ UNCHANGED <<table, script, rebuilds, byHand, jobs, faults>>

\* The artifacts of a release and their checksums may come after it is listed.
Upload(v) ==
    /\ Built(v) = {}
    /\ \E built \in SUBSET Targets \ {{}} :
         upstream' = [upstream EXCEPT ![v].builds = [t \in Targets |-> IF t \in built THEN 1 ELSE 0]]
    /\ UNCHANGED <<table, script, rebuilds, byHand, jobs, faults>>

\* A release may be built again under its old tag.
Rebuild(v) ==
    /\ Built(v) # {}
    /\ rebuilds < MaxRebuilds
    /\ rebuilds' = rebuilds + 1
    /\ upstream' = [upstream EXCEPT ![v].builds =
           [t \in Targets |-> IF t \in Built(v) THEN @[t] + 1 ELSE 0]]
    /\ UNCHANGED <<table, script, byHand, jobs, faults>>

(***************************************************************************)
(* update-releases.mjs. One run at a time, in its own checkout.            *)
(***************************************************************************)
Newer(a, b) ==  \* compareSemver(a, b) > 0
    \E i \in 1 .. 3 : a[i] > b[i] /\ \A k \in 1 .. (i - 1) : a[k] = b[k]

ListUpstreamVersions == {v \in Versions : upstream[v].stage = "final"}

AutoMissing ==
    {v \in ListUpstreamVersions \ DOMAIN table : \A w \in DOMAIN table : Newer(v, w)}

BackfillMissing_AlreadyThere(asked) == asked
BackfillMissing(asked) == asked \ DOMAIN table

Run(missing) ==
    /\ script.step = "idle"
    /\ missing # {}
    /\ script' = [step |-> "fetching", missing |-> missing, releases |-> table]
    /\ UNCHANGED <<upstream, table, rebuilds, jobs, faults>>

\* Run by the daily schedule: what is newer than all the table has.
RunAuto == Run(AutoMissing) /\ UNCHANGED byHand

\* Run by a maintainer who names a version.
RunBackfill(v) ==
    /\ v \notin byHand
    /\ Run(BackfillMissing({v}))
    /\ byHand' = byHand \cup {v}

\* A checksums file without a line for this version throws.
Parses_Empty(v) == TRUE
Parses(v) == Built(v) # {}
ParseChecksums(v) == [t \in Built(v) |-> Artifact(v, t)]

WithEntry(releases, v) ==
    [w \in DOMAIN releases \cup {v} |-> IF w = v THEN ParseChecksums(v) ELSE releases[w]]

FetchVersionEntry_Writes(v) ==
    /\ v \in script.missing
    /\ Parses(v)
    /\ script' = [script EXCEPT !.missing = @ \ {v}, !.releases = WithEntry(@, v)]
    /\ table' = script'.releases
    /\ UNCHANGED <<upstream, rebuilds, byHand, jobs, faults>>
FetchVersionEntry(v) ==
    /\ v \in script.missing
    /\ Parses(v)
    /\ script' = [script EXCEPT !.missing = @ \ {v}, !.releases = WithEntry(@, v)]
    /\ UNCHANGED <<upstream, table, rebuilds, byHand, jobs, faults>>

\* The first error ends the run: nothing has been written.
FetchFails(v) ==
    /\ v \in script.missing
    /\ IF Parses(v) THEN Faulty ELSE UNCHANGED faults
    /\ script' = IdleScript
    /\ UNCHANGED <<upstream, table, rebuilds, byHand, jobs>>

WriteReleases ==
    /\ script.step = "fetching"
    /\ script.missing = {}
    /\ table' = script.releases
    /\ script' = [step |-> "idle", missing |-> {}, releases |-> script.releases]
    /\ UNCHANGED <<upstream, rebuilds, byHand, jobs, faults>>

(***************************************************************************)
(* setup.ts. A throw anywhere ends in setFailed.                           *)
(***************************************************************************)
MapPlatform == [linux |-> "linux", darwin |-> "darwin", win32 |-> "windows", freebsd |-> "freebsd"]
MapArch == [x64 |-> "amd64", arm64 |-> "arm64", ppc64 |-> "ppc64le", riscv64 |-> "riscv64",
            s390x |-> "s390x", arm |-> "armv7"]

TargetOf(runner) ==
    {<<MapPlatform[p], MapArch[a]>> : p \in {runner.os} \cap DOMAIN MapPlatform,
                                      a \in {runner.arch} \cap DOMAIN MapArch}

Official(version, runner) ==
    {[url |-> [version |-> version, target |-> t], checksum |-> table[version][t]] :
        t \in {t \in TargetOf(runner) : version \in DOMAIN table /\ t \in DOMAIN table[version]}}

\* The release to download; none where getReleaseInfo throws.
GetReleaseInfo(input, runner) ==
    CASE input.url # None /\ input.checksum # None -> {[url |-> input.url, checksum |-> input.checksum]}
      [] input.url = None /\ input.checksum = None -> Official(input.version, runner)
      [] OTHER -> {}

SetJob(j, job) ==
    /\ jobs' = [jobs EXCEPT ![j] = job]
    /\ UNCHANGED <<upstream, table, script, rebuilds, byHand>>
\* A job that failed keeps nothing.
SetFailed(j) == SetJob(j, [NewJob EXCEPT !.step = "failed"])

Resolve(j, input, runner) ==
    LET job == [jobs[j] EXCEPT !.input = input, !.runner = runner]
        infos == GetReleaseInfo(input, runner)
    IN  /\ jobs[j].step = "idle"
        /\ UNCHANGED faults
        /\ \/ \E info \in infos : SetJob(j, [job EXCEPT !.step = "resolved", !.info = info])
           \/ infos = {} /\ SetFailed(j)

\* What the address serves now, or what a broken connection makes of it.
DownloadTool(j) ==
    LET url == jobs[j].info.url
        Downloaded(file) == SetJob(j, [jobs[j] EXCEPT !.step = "downloaded", !.file = file])
    IN  /\ jobs[j].step = "resolved"
        /\ \/ /\ url.target \in Built(url.version)
              /\ Downloaded(Artifact(url.version, url.target))
              /\ UNCHANGED faults
           \/ /\ url.target \notin Built(url.version)
              /\ SetFailed(j)
              /\ UNCHANGED faults
           \/ Faulty /\ SetFailed(j)
           \/ Faulty /\ \E file \in {Garbled, Unreadable} : Downloaded(file)

\* The checksum of the file; none if the stream that reads it fails.
Hash(file) == {file} \ {Unreadable}

Extract(j) ==
    \/ SetJob(j, [jobs[j] EXCEPT !.step = "done", !.info = None]) /\ UNCHANGED faults
    \/ SetFailed(j) /\ Faulty

\* The file is the job's own: nobody comes between hash, extraction and PATH.
VerifyAndAddPath_NotCompared(j) ==
    /\ jobs[j].step = "downloaded"
    /\ IF Hash(jobs[j].file) # {}
       THEN Extract(j)
       ELSE SetFailed(j) /\ UNCHANGED faults
VerifyAndAddPath_Hangs(j) ==
    /\ jobs[j].step = "downloaded"
    /\ Hash(jobs[j].file) # {}
    /\ IF jobs[j].info.checksum \in Hash(jobs[j].file)
       THEN Extract(j)
       ELSE SetFailed(j) /\ UNCHANGED faults
VerifyAndAddPath(j) ==
    /\ jobs[j].step = "downloaded"
    /\ IF jobs[j].info.checksum \in Hash(jobs[j].file)
       THEN Extract(j)
       ELSE SetFailed(j) /\ UNCHANGED faults

Step(j) == DownloadTool(j) \/ VerifyAndAddPath(j)

Next ==
    \/ \E v \in Versions : Publish(v)
    \/ \E v \in Versions : Upload(v)
    \/ \E v \in Versions : Rebuild(v)
    \/ RunAuto
    \/ \E v \in Versions : RunBackfill(v)
    \/ \E v \in script.missing : FetchVersionEntry(v)
    \/ \E v \in script.missing : FetchFails(v)
    \/ WriteReleases
    \/ \E j \in Jobs, input \in Inputs, runner \in Runners : Resolve(j, input, runner)
    \/ \E j \in Jobs : Step(j)

Spec == Init /\ [][Next]_vars

(***************************************************************************)
(* Fairness: the schedule runs the script, Node goes on with what it       *)
(* began, and upstream uploads what it publishes.                          *)
(***************************************************************************)
Fairness ==
    /\ WF_vars(RunAuto)
    /\ WF_vars(\E v \in script.missing : FetchVersionEntry(v) \/ FetchFails(v))
    /\ WF_vars(WriteReleases)
    /\ \A v \in Versions : WF_vars(Upload(v))
    /\ \A j \in Jobs : WF_vars(Step(j))

FairSpec == Spec /\ Fairness

(***************************************************************************)
(* What has to hold.                                                       *)
(***************************************************************************)
OnPath(j) == jobs[j].step = "done"
AsksFor(j, v) ==
    jobs[j].input.url = None /\ jobs[j].input.checksum = None /\ jobs[j].input.version = v

\* The tool on a job's PATH is the file whose checksum the user gave, or, of
\* an official release, the one the table has for that version and the job's
\* own machine, whatever happened upstream and on the way (setup.ts:34).
OnlyPinnedTools ==
    \A j \in Jobs : OnPath(j) =>
        \/ jobs[j].file = jobs[j].input.checksum
        \/ \E v \in DOMAIN table : \E t \in TargetOf(jobs[j].runner) \cap DOMAIN table[v] :
             AsksFor(j, v) /\ jobs[j].file = table[v][t]

\* A version keeps the checksums it came into the table with, however often
\* upstream builds it again and whoever asks for it: two jobs that ask for one
\* version run the same tool, however far apart (update-releases.mjs:108).
EntriesStay ==
    [][\A v \in DOMAIN table : v \in DOMAIN table' /\ table'[v] = table[v]]_vars

Newest(v) == upstream[v].stage = "final" /\ ~\E w \in Versions : upstream[w].stage = "final" /\ Newer(w, v)

\* A release that is the newest of all when it is published, and newer than
\* all the table has, gets into the table, unless a maintainer puts a newer
\* one in by hand: a run that fails half way leaves nothing behind that would
\* hide the rest from the next (update-releases.mjs:139).
EventuallyTracked ==
    \A v \in Versions \ FirstTable :
        Newest(v) ~> v \in DOMAIN table \/ \E w \in byHand \cap DOMAIN table : Newer(w, v)

\* Every job that starts ends, with the tool or with a failure
\* (checksum.ts:22: a file that cannot be read rejects the promise).
JobsEnd == \A j \in Jobs : jobs[j].step # "idle" ~> jobs[j].step \in {"done", "failed"}
=============================================================================
