--------------------------- MODULE OrasSetupProofs ---------------------------
(***************************************************************************)
(* Theorems about OrasSetup, for any releases, machines, jobs, rebuilds    *)
(* and faults.                                                             *)
(***************************************************************************)
EXTENDS OrasSetup, TLAPS

-----------------------------------------------------------------------------
(***************************************************************************)
(* Upstream.                                                               *)
(***************************************************************************)
UpstreamInv ==
    /\ upstream \in [Versions -> Release]
    /\ rebuilds \in 0 .. MaxRebuilds
    /\ \A v \in Versions, t \in Targets : upstream[v].builds[t] <= rebuilds + 1

LEMMA UpstreamInit == ASSUME Init PROVE UpstreamInv
<1>. MaxRebuilds \in Nat
  BY OrasAssumption
<1>1. ASSUME NEW b \in {0, 1}
      PROVE  [t \in Targets |-> b] \in [Targets -> 0 .. MaxRebuilds + 1]
  OBVIOUS
<1>2. upstream \in [Versions -> Release]
  BY <1>1 DEF Init, Release
<1>3. \A v \in Versions, t \in Targets : upstream[v].builds[t] <= 1
  BY DEF Init
<1>. QED
  BY <1>2, <1>3 DEF Init, UpstreamInv

LEMMA UpstreamStep == ASSUME UpstreamInv, [Next]_vars PROVE UpstreamInv'
<1>. MaxRebuilds \in Nat
  BY OrasAssumption
<1>1. ASSUME NEW v \in Versions, Publish(v) PROVE UpstreamInv'
  BY <1>1 DEF Publish, UpstreamInv, Release
<1>2. ASSUME NEW v \in Versions, Upload(v) PROVE UpstreamInv'
  <2>1. PICK built \in SUBSET Targets \ {{}} :
            upstream' = [upstream EXCEPT ![v].builds = [t \in Targets |-> IF t \in built THEN 1 ELSE 0]]
    BY <1>2 DEF Upload
  <2>2. [t \in Targets |-> IF t \in built THEN 1 ELSE 0] \in [Targets -> 0 .. MaxRebuilds + 1]
    OBVIOUS
  <2>3. upstream' \in [Versions -> Release]
    BY <2>1, <2>2 DEF UpstreamInv, Release
  <2>4. \A w \in Versions, t \in Targets : upstream'[w].builds[t] <= rebuilds + 1
    BY <2>1 DEF UpstreamInv, Release
  <2>. QED
    BY <1>2, <2>3, <2>4 DEF Upload, UpstreamInv
<1>3. ASSUME NEW v \in Versions, Rebuild(v) PROVE UpstreamInv'
  <2>. DEFINE builds == [t \in Targets |-> IF t \in Built(v) THEN upstream[v].builds[t] + 1 ELSE 0]
  <2>1. upstream' = [upstream EXCEPT ![v].builds = builds]
    BY <1>3 DEF Rebuild, UpstreamInv
  <2>2. \A t \in Targets : /\ upstream[v].builds[t] \in Nat
                           /\ upstream[v].builds[t] <= rebuilds + 1
    BY DEF UpstreamInv, Release
  <2>3. rebuilds \in 0 .. MaxRebuilds /\ rebuilds < MaxRebuilds /\ rebuilds' = rebuilds + 1
    BY <1>3 DEF Rebuild, UpstreamInv
  <2>4. \A t \in Targets : builds[t] \in 0 .. MaxRebuilds + 1 /\ builds[t] <= rebuilds' + 1
    BY <2>2, <2>3
  <2>5. upstream' \in [Versions -> Release]
    <3>1. builds \in [Targets -> 0 .. MaxRebuilds + 1]
      BY <2>4
    <3>. HIDE DEF builds
    <3>. QED
      BY <2>1, <3>1 DEF UpstreamInv, Release
  <2>6. \A w \in Versions, t \in Targets : upstream'[w].builds[t] <= rebuilds' + 1
    <3>1. upstream'[v].builds = builds
      BY <2>1 DEF UpstreamInv, Release
    <3>2. ASSUME NEW w \in Versions, w # v, NEW t \in Targets
          PROVE  upstream'[w].builds[t] <= rebuilds' + 1
      <4>1. upstream'[w].builds[t] = upstream[w].builds[t]
        BY <2>1, <3>2 DEF UpstreamInv
      <4>2. upstream[w].builds[t] \in Nat /\ upstream[w].builds[t] <= rebuilds + 1
        BY DEF UpstreamInv, Release
      <4>. QED
        BY <2>3, <4>1, <4>2
    <3>. QED
      BY <2>4, <3>1, <3>2
  <2>. QED
    BY <2>3, <2>5, <2>6 DEF UpstreamInv
<1>4. CASE UNCHANGED <<upstream, rebuilds>>
  BY <1>4 DEF UpstreamInv
<1>5. \A v \in Versions : RunBackfill(v) => UNCHANGED <<upstream, rebuilds>>
  BY DEF RunBackfill, Run
<1>6. \A j \in Jobs, input \in Inputs, runner \in Runners :
          Resolve(j, input, runner) => UNCHANGED <<upstream, rebuilds>>
  BY DEF Resolve, SetJob, SetFailed
<1>7. \A j \in Jobs : Step(j) => UNCHANGED <<upstream, rebuilds>>
  BY DEF Step, DownloadTool, VerifyAndAddPath, Extract, SetJob, SetFailed
<1>. QED
  BY <1>1, <1>2, <1>3, <1>4, <1>5, <1>6, <1>7
     DEF Next, vars, RunAuto, Run, FetchVersionEntry, FetchFails, WriteReleases

-----------------------------------------------------------------------------
(***************************************************************************)
(* The table, and the copy that the script works on: what it fetches is    *)
(* new to the table, and it keeps what the table has.                      *)
(***************************************************************************)
ScriptInv ==
    /\ IsTable(table)
    /\ script = [step |-> script.step, missing |-> script.missing, releases |-> script.releases]
    /\ script.step \in {"idle", "fetching"}
    /\ script.missing \subseteq Versions
    /\ script.missing \cap DOMAIN table = {}
    /\ IsTable(script.releases)
    /\ \A v \in DOMAIN table : v \in DOMAIN script.releases /\ script.releases[v] = table[v]
    /\ byHand \subseteq Versions

\* An artifact that upstream has built.
LEMMA ArtifactType ==
    ASSUME UpstreamInv, NEW v \in Versions, NEW t \in Built(v)
    PROVE  /\ t \in Targets
           /\ Artifact(v, t) \in Artifacts
           /\ Artifact(v, t).version = v
           /\ Artifact(v, t).target = t
<1>1. t \in Targets /\ upstream[v].builds[t] \in 1 .. MaxRebuilds + 1
  BY OrasAssumption DEF Built, UpstreamInv, Release
<1>. QED
  BY <1>1 DEF Artifact, Artifacts

LEMMA EntryType ==
    ASSUME UpstreamInv, NEW v \in Versions, Parses(v)
    PROVE  IsEntry(ParseChecksums(v), v)
<1>1. DOMAIN ParseChecksums(v) = Built(v) /\ Built(v) # {}
  BY DEF ParseChecksums, Parses
<1>2. \A t \in Built(v) : ParseChecksums(v)[t] = Artifact(v, t)
  BY DEF ParseChecksums
<1>. QED
  BY <1>1, <1>2, ArtifactType DEF IsEntry, Built

LEMMA ScriptInit == ASSUME Init, UpstreamInv PROVE ScriptInv
<1>1. \A v \in FirstTable : v \in Versions /\ Built(v) = Targets
  <2>1. TAKE v \in FirstTable
  <2>2. v \in Versions
    BY OrasAssumption
  <2>3. upstream[v].builds = [t \in Targets |-> 1]
    BY <2>2 DEF Init
  <2>. QED
    BY <2>2, <2>3 DEF Built
<1>2. \A v \in FirstTable : IsEntry(table[v], v)
  <2>1. TAKE v \in FirstTable
  <2>2. table[v] = [t \in Targets |-> Artifact(v, t)]
    BY DEF Init
  <2>. QED
    BY <1>1, <2>2, ArtifactType, OrasAssumption DEF IsEntry
<1>3. IsTable(table)
  BY <1>2, OrasAssumption DEF IsTable, Init
<1>. QED
  BY <1>3 DEF Init, IdleScript, ScriptInv

LEMMA ScriptStep == ASSUME ScriptInv, UpstreamInv, [Next]_vars PROVE ScriptInv'
<1>1. ASSUME NEW missing \in SUBSET (Versions \ DOMAIN table), Run(missing), byHand' \subseteq Versions
      PROVE  ScriptInv'
  BY <1>1 DEF Run, ScriptInv
<1>2. CASE RunAuto
  <2>1. AutoMissing \in SUBSET (Versions \ DOMAIN table)
    BY DEF AutoMissing, ListUpstreamVersions
  <2>. QED
    BY <1>1, <1>2, <2>1 DEF RunAuto, ScriptInv
<1>3. ASSUME NEW v \in Versions, RunBackfill(v) PROVE ScriptInv'
  <2>1. BackfillMissing({v}) \in SUBSET (Versions \ DOMAIN table)
    BY DEF BackfillMissing
  <2>. QED
    BY <1>1, <1>3, <2>1 DEF RunBackfill, ScriptInv
<1>4. ASSUME NEW v \in script.missing, FetchVersionEntry(v) PROVE ScriptInv'
  <2>. DEFINE fetched == WithEntry(script.releases, v)
  <2>1. v \in Versions /\ v \notin DOMAIN table
    BY DEF ScriptInv
  <2>2. DOMAIN fetched = DOMAIN script.releases \cup {v}
    BY DEF WithEntry
  <2>3. /\ fetched[v] = ParseChecksums(v)
        /\ \A w \in DOMAIN script.releases : w # v => fetched[w] = script.releases[w]
    BY DEF WithEntry
  <2>4. IsEntry(ParseChecksums(v), v)
    BY <1>4, <2>1, EntryType DEF FetchVersionEntry
  <2>5. IsTable(fetched)
    BY <2>1, <2>2, <2>3, <2>4 DEF IsTable, ScriptInv
  <2>6. \A w \in DOMAIN table : w \in DOMAIN fetched /\ fetched[w] = table[w]
    BY <2>1, <2>2, <2>3 DEF ScriptInv
  <2>7. script' = [step |-> script.step, missing |-> script.missing \ {v}, releases |-> fetched]
    BY <1>4 DEF FetchVersionEntry, ScriptInv
  <2>8. UNCHANGED <<table, byHand>>
    BY <1>4 DEF FetchVersionEntry
  <2>. HIDE DEF fetched
  <2>. QED
    BY <2>5, <2>6, <2>7, <2>8 DEF ScriptInv
<1>5. ASSUME NEW v \in script.missing, FetchFails(v) PROVE ScriptInv'
  BY <1>5 DEF FetchFails, IdleScript, ScriptInv
<1>6. CASE WriteReleases
  BY <1>6 DEF WriteReleases, ScriptInv
<1>7. CASE UNCHANGED <<table, script, byHand>>
  BY <1>7 DEF ScriptInv
<1>8. \A v \in Versions : Publish(v) \/ Upload(v) \/ Rebuild(v) => UNCHANGED <<table, script, byHand>>
  BY DEF Publish, Upload, Rebuild
<1>9. \A j \in Jobs, input \in Inputs, runner \in Runners :
          Resolve(j, input, runner) => UNCHANGED <<table, script, byHand>>
  BY DEF Resolve, SetJob, SetFailed
<1>10. \A j \in Jobs : Step(j) => UNCHANGED <<table, script, byHand>>
  BY DEF Step, DownloadTool, VerifyAndAddPath, Extract, SetJob, SetFailed
<1>. QED
  BY <1>2, <1>3, <1>4, <1>5, <1>6, <1>7, <1>8, <1>9, <1>10 DEF Next, vars

\* What the table has it keeps: only a run that is complete writes it, with the
\* copy it took at its start and versions that the table did not have.
Kept == \A v \in DOMAIN table : v \in DOMAIN table' /\ table'[v] = table[v]

LEMMA KeptByStep == ASSUME ScriptInv, [Next]_vars PROVE Kept
<1>1. CASE WriteReleases
  BY <1>1 DEF WriteReleases, ScriptInv, Kept
<1>2. CASE UNCHANGED table
  BY <1>2 DEF Kept
<1>3. \A v \in Versions : Publish(v) \/ Upload(v) \/ Rebuild(v) \/ RunBackfill(v) => UNCHANGED table
  BY DEF Publish, Upload, Rebuild, RunBackfill, Run
<1>4. \A j \in Jobs, input \in Inputs, runner \in Runners :
          Resolve(j, input, runner) => UNCHANGED table
  BY DEF Resolve, SetJob, SetFailed
<1>5. \A j \in Jobs : Step(j) => UNCHANGED table
  BY DEF Step, DownloadTool, VerifyAndAddPath, Extract, SetJob, SetFailed
<1>. QED
  BY <1>1, <1>2, <1>3, <1>4, <1>5
     DEF Next, vars, RunAuto, Run, FetchVersionEntry, FetchFails

-----------------------------------------------------------------------------
(***************************************************************************)
(* The jobs: what a job is to install is pinned from the step on in which  *)
(* it is resolved, and what is installed is what is pinned.                *)
(***************************************************************************)
JobType == [step: {"idle", "resolved", "downloaded", "done", "failed"},
            input: Inputs, runner: Runners, info: Info \cup {None},
            file: Artifacts \cup {None, Garbled, Unreadable}]

PinnedFor(input, runner, file) ==
    \/ file = input.checksum
    \/ \E v \in DOMAIN table : \E t \in TargetOf(runner) \cap DOMAIN table[v] :
         /\ input.url = None /\ input.checksum = None /\ input.version = v
         /\ file = table[v][t]

JobOK(job) ==
    /\ job.step \in {"resolved", "downloaded"} =>
         job.info \in Info /\ PinnedFor(job.input, job.runner, job.info.checksum)
    /\ job.step = "done" => PinnedFor(job.input, job.runner, job.file)

JobInv ==
    /\ jobs \in [Jobs -> JobType]
    /\ faults \in 0 .. MaxFaults
    /\ \A j \in Jobs : JobOK(jobs[j])

LEMMA NewJobType == NewJob \in JobType /\ NewJob.step = "idle"
BY OrasAssumption DEF NewJob, JobType

\* What getReleaseInfo returns.
LEMMA InfoIsPinned ==
    ASSUME ScriptInv, NEW input \in Inputs, NEW runner \in Runners,
           NEW info \in GetReleaseInfo(input, runner)
    PROVE  info \in Info /\ PinnedFor(input, runner, info.checksum)
<1>1. /\ input.version \in Versions
      /\ input.url \in Addresses \cup {None}
      /\ input.checksum \in Artifacts \cup {None}
  BY OrasAssumption
<1>2. CASE input.url # None /\ input.checksum # None
  <2>1. info = [url |-> input.url, checksum |-> input.checksum]
    BY <1>2 DEF GetReleaseInfo
  <2>. QED
    BY <1>1, <1>2, <2>1 DEF Info, PinnedFor
<1>3. CASE input.url = None /\ input.checksum = None
  <2>1. info \in Official(input.version, runner)
    BY <1>3 DEF GetReleaseInfo
  <2>2. PICK t \in TargetOf(runner) :
          /\ input.version \in DOMAIN table
          /\ t \in DOMAIN table[input.version]
          /\ info = [url |-> [version |-> input.version, target |-> t],
                     checksum |-> table[input.version][t]]
    BY <2>1 DEF Official
  <2>3. t \in Targets /\ table[input.version][t] \in Artifacts
    BY <2>2 DEF ScriptInv, IsTable, IsEntry
  <2>4. info \in Info
    BY <1>1, <2>2, <2>3 DEF Info, Addresses
  <2>. QED
    BY <1>3, <2>2, <2>4 DEF PinnedFor
<1>4. CASE ~(input.url # None /\ input.checksum # None) /\ ~(input.url = None /\ input.checksum = None)
  BY <1>4 DEF GetReleaseInfo
<1>. QED
  BY <1>2, <1>3, <1>4

\* A checksum stays pinned, because the table keeps its entries.
LEMMA PinnedStays ==
    ASSUME Kept, NEW job, JobOK(job)
    PROVE  JobOK(job)'
BY DEF Kept, JobOK, PinnedFor

\* A job takes a step and the others do not.
LEMMA SetJobKeeps ==
    ASSUME JobInv, Kept, NEW j \in Jobs, NEW job \in JobType, JobOK(job), SetJob(j, job),
           faults' \in 0 .. MaxFaults
    PROVE  JobInv'
<1>1. jobs' = [jobs EXCEPT ![j] = job]
  BY DEF SetJob
<1>2. jobs' \in [Jobs -> JobType]
  BY <1>1 DEF JobInv
<1>3. \A k \in Jobs : JobOK(jobs'[k])
  BY <1>1 DEF JobInv
<1>4. \A k \in Jobs : JobOK(jobs[k])'
  BY <1>3, PinnedStays
<1>. QED
  BY <1>2, <1>4 DEF JobInv

LEMMA SetFailedKeeps ==
    ASSUME JobInv, Kept, NEW j \in Jobs, SetFailed(j), faults' \in 0 .. MaxFaults
    PROVE  JobInv'
<1>. DEFINE job == [NewJob EXCEPT !.step = "failed"]
<1>1. job \in JobType /\ job.step = "failed"
  BY NewJobType DEF JobType
<1>2. SetJob(j, job)
  BY DEF SetFailed
<1>3. JobOK(job)
  BY <1>1 DEF JobOK
<1>. HIDE DEF job
<1>. QED
  BY <1>1, <1>2, <1>3, SetJobKeeps

LEMMA JobStep == ASSUME JobInv, ScriptInv, UpstreamInv, [Next]_vars PROVE JobInv'
<1>1. Kept
  BY KeptByStep
<1>. MaxFaults \in Nat
  BY OrasAssumption
<1>2. ASSUME Faulty PROVE faults' \in 0 .. MaxFaults
  BY <1>2 DEF Faulty, JobInv
<1>3. ASSUME UNCHANGED jobs, faults' \in 0 .. MaxFaults PROVE JobInv'
  <2>1. \A j \in Jobs : JobOK(jobs[j])'
    BY <1>1, <1>3, PinnedStays DEF JobInv
  <2>. QED
    BY <1>3, <2>1 DEF JobInv
<1>4. ASSUME NEW j \in Jobs, NEW input \in Inputs, NEW runner \in Runners, Resolve(j, input, runner)
      PROVE  JobInv'
  <2>. DEFINE resolving == [jobs[j] EXCEPT !.input = input, !.runner = runner]
  <2>1. faults' \in 0 .. MaxFaults
    BY <1>4 DEF Resolve, JobInv
  <2>2. ASSUME NEW info \in GetReleaseInfo(input, runner),
               SetJob(j, [resolving EXCEPT !.step = "resolved", !.info = info])
        PROVE  JobInv'
    <3>. DEFINE job == [resolving EXCEPT !.step = "resolved", !.info = info]
    <3>1. info \in Info /\ PinnedFor(input, runner, info.checksum)
      BY InfoIsPinned
    <3>2. jobs[j] \in JobType
      BY DEF JobInv
    <3>3. /\ job \in JobType
          /\ job.step = "resolved"
          /\ job.input = input
          /\ job.runner = runner
          /\ job.info = info
      BY <3>1, <3>2 DEF JobType
    <3>4. SetJob(j, job)
      BY <2>2
    <3>. HIDE DEF job
    <3>5. JobOK(job)
      BY <3>1, <3>3 DEF JobOK
    <3>. QED
      BY <1>1, <2>1, <3>3, <3>4, <3>5, SetJobKeeps
  <2>3. CASE SetFailed(j)
    BY <1>1, <2>1, <2>3, SetFailedKeeps
  <2>. QED
    BY <1>4, <2>2, <2>3 DEF Resolve
<1>5. ASSUME NEW j \in Jobs, DownloadTool(j) PROVE JobInv'
  <2>1. jobs[j] \in JobType /\ JobOK(jobs[j]) /\ jobs[j].step = "resolved"
    BY <1>5 DEF JobInv, DownloadTool
  <2>2. faults' \in 0 .. MaxFaults
    BY <1>2, <1>5 DEF DownloadTool, JobInv
  <2>3. ASSUME NEW file \in Artifacts \cup {Garbled, Unreadable},
               SetJob(j, [jobs[j] EXCEPT !.step = "downloaded", !.file = file])
        PROVE  JobInv'
    <3>. DEFINE job == [jobs[j] EXCEPT !.step = "downloaded", !.file = file]
    <3>1. /\ job \in JobType
          /\ job.step = "downloaded"
          /\ job.input = jobs[j].input
          /\ job.runner = jobs[j].runner
          /\ job.info = jobs[j].info
      BY <2>1 DEF JobType
    <3>2. SetJob(j, job)
      BY <2>3
    <3>. HIDE DEF job
    <3>3. JobOK(job)
      BY <2>1, <3>1 DEF JobOK
    <3>. QED
      BY <1>1, <2>2, <3>1, <3>2, <3>3, SetJobKeeps
  <2>4. CASE SetFailed(j)
    BY <1>1, <2>2, <2>4, SetFailedKeeps
  <2>. DEFINE url == jobs[j].info.url
  <2>5. url.target \in Built(url.version) => Artifact(url.version, url.target) \in Artifacts
    <3>1. url.version \in Versions
      BY <2>1 DEF JobOK, Info, Addresses
    <3>. QED
      BY <3>1, ArtifactType
  <2>. QED
    BY <1>5, <2>3, <2>4, <2>5 DEF DownloadTool
<1>6. ASSUME NEW j \in Jobs, VerifyAndAddPath(j) PROVE JobInv'
  <2>1. jobs[j] \in JobType /\ JobOK(jobs[j]) /\ jobs[j].step = "downloaded"
    BY <1>6 DEF JobInv, VerifyAndAddPath
  <2>2. faults' \in 0 .. MaxFaults
    BY <1>2, <1>6 DEF VerifyAndAddPath, Extract, JobInv
  <2>3. ASSUME jobs[j].info.checksum = jobs[j].file,
               SetJob(j, [jobs[j] EXCEPT !.step = "done", !.info = None])
        PROVE  JobInv'
    <3>. DEFINE job == [jobs[j] EXCEPT !.step = "done", !.info = None]
    <3>1. /\ job \in JobType
          /\ job.step = "done"
          /\ job.input = jobs[j].input
          /\ job.runner = jobs[j].runner
          /\ job.file = jobs[j].file
      BY <2>1 DEF JobType
    <3>2. SetJob(j, job)
      BY <2>3
    <3>. HIDE DEF job
    <3>3. JobOK(job)
      BY <2>1, <2>3, <3>1 DEF JobOK
    <3>. QED
      BY <1>1, <2>2, <3>1, <3>2, <3>3, SetJobKeeps
  <2>4. CASE SetFailed(j)
    BY <1>1, <2>2, <2>4, SetFailedKeeps
  <2>. QED
    BY <1>6, <2>3, <2>4 DEF VerifyAndAddPath, Extract, Hash
<1>7. ASSUME NEW v \in script.missing, FetchFails(v) PROVE JobInv'
  BY <1>2, <1>3, <1>7 DEF FetchFails, JobInv
<1>8. UNCHANGED <<jobs, faults>> => JobInv'
  BY <1>3 DEF JobInv
<1>9. \A v \in Versions : Publish(v) \/ Upload(v) \/ Rebuild(v) \/ RunBackfill(v) => UNCHANGED <<jobs, faults>>
  BY DEF Publish, Upload, Rebuild, RunBackfill, Run
<1>. QED
  BY <1>4, <1>5, <1>6, <1>7, <1>8, <1>9
     DEF Next, vars, RunAuto, Run, FetchVersionEntry, WriteReleases, Step

-----------------------------------------------------------------------------
IInv == UpstreamInv /\ ScriptInv /\ JobInv

\* The inductive invariant.
THEOREM Invariance == Spec => []IInv
<1>1. ASSUME Init PROVE IInv
  <2>1. \A j \in Jobs : jobs[j] = NewJob
    BY <1>1 DEF Init
  <2>2. JobInv
    BY <1>1, <2>1, NewJobType, OrasAssumption DEF Init, JobInv, JobOK
  <2>. QED
    BY <1>1, <2>2, UpstreamInit, ScriptInit DEF IInv
<1>2. ASSUME IInv, [Next]_vars PROVE IInv'
  BY <1>2, UpstreamStep, ScriptStep, JobStep DEF IInv
<1>. QED
  BY <1>1, <1>2, PTL DEF Spec

\* Every entry of the table has checksums, all of them of its own version.
THEOREM TypeCorrect == Spec => []TypeOK
<1>1. IInv => TypeOK
  BY DEF IInv, UpstreamInv, ScriptInv, JobInv, JobType, TypeOK
<1>. QED
  BY <1>1, Invariance, PTL

\* verify: whatever upstream builds again and whatever a connection garbles, a
\* job puts nothing on the PATH but what the user or the table has pinned.
THEOREM OnlyPinnedIsInstalled == Spec => []OnlyPinnedTools
<1>1. IInv => OnlyPinnedTools
  BY DEF IInv, JobInv, JobOK, PinnedFor, OnlyPinnedTools, OnPath, AsksFor
<1>. QED
  BY <1>1, Invariance, PTL

\* main: what is in the table was not missing when a run began, and there is
\* one run at a time.
THEOREM TableKeepsEntries == Spec => EntriesStay
<1>1. IInv /\ [Next]_vars => [\A v \in DOMAIN table : v \in DOMAIN table' /\ table'[v] = table[v]]_vars
  BY KeptByStep DEF IInv, Kept
<1>. QED
  BY <1>1, Invariance, PTL DEF Spec, EntriesStay
=============================================================================
