---------------------------- MODULE ChartSource ----------------------------
(***************************************************************************)
(* How the Helm v2 chart manager gets a chart: loadChartAndConfig calls    *)
(* source.getChart, which resolves the chart's source to a directory       *)
(* through the process-wide DirCache (cloning a git repository or          *)
(* unpacking a tarball on a miss), then returns the *Chart the process-     *)
(* wide ChartCache holds for the chart's path (copying helm-toolkit into   *)
(* it when spec.dependencies is set, and running chartutil.LoadDir, on a   *)
(* miss).  loadChartAndConfig then runs processRequirements on that chart. *)
(* Both caches are never evicted; only an operator restart empties them.   *)
(* The chart controller has one worker, so loads happen one at a time:     *)
(* each load is one action.                                                *)
(*                                                                         *)
(* A chart is abstracted to the conditional subcharts it carries and       *)
(* whether helm-toolkit is among them; a chart's values to the subcharts   *)
(* they leave enabled.                                                     *)
(***************************************************************************)
EXTENDS Naturals, FiniteSets

CONSTANTS
    Charts,       \* the ArmadaCharts whose reconciles load a chart
    Sources,      \* chart sources: a location (and reference, for git)
    SourceType,   \* [Sources -> {"git", "tar", "local"}]
    AuthMethod,   \* [Sources -> {"none", "ssh", "http"}]: source.auth_method
    SourceOf,     \* [Charts -> Sources]
    SubpathOf,    \* [Charts -> subpaths]: source.subpath
    DepsOf,       \* [Charts -> BOOLEAN]: spec.dependencies is not empty
    Subcharts,    \* the conditional subcharts of the charts on disk
    MaxFaults,    \* bound on failed clones, downloads, copies and loads
    MaxRestarts   \* bound on operator restarts

ASSUME /\ SourceType \in [Sources -> {"git", "tar", "local"}]
       /\ AuthMethod \in [Sources -> {"none", "ssh", "http"}]
       /\ SourceOf \in [Charts -> Sources] /\ DepsOf \in [Charts -> BOOLEAN]
       /\ MaxFaults \in Nat /\ MaxRestarts \in Nat

\* A chart in memory, or the absence of one (a cache miss).
Chart   == [present: BOOLEAN, subcharts: SUBSET Subcharts, toolkit: BOOLEAN]
NoChart == [present |-> FALSE, subcharts |-> {}, toolkit |-> FALSE]

\* pathToChart: the cached directory and the subpath for git and tar
\* sources; for a local source the location itself, the subpath ignored.
Path(c) == IF SourceType[SourceOf[c]] = "local" THEN <<SourceOf[c], "">>
           ELSE <<SourceOf[c], SubpathOf[c]>>

Paths == {Path(c) : c \in Charts}

VARIABLES
    dirCache,      \* the sources DirCache holds a directory for
    chartCache,    \* [Paths -> Chart]: the *Chart ChartCache holds per path
    toolkitOnDisk, \* the chart directories helm-toolkit was copied into
    values,        \* [Charts -> SUBSET Subcharts]: what spec.values enables
    loaded,        \* [Charts -> Chart]: the last chart a load returned
    faults,        \* failed I/O steps so far
    restarts,      \* operator restarts so far
    stray          \* temporary files and directories no cache refers to

vars == <<dirCache, chartCache, toolkitOnDisk, values, loaded, faults, restarts, stray>>

TypeOK ==
    /\ dirCache \subseteq Sources
    /\ chartCache \in [Paths -> Chart]
    /\ toolkitOnDisk \subseteq Paths
    /\ values \in [Charts -> SUBSET Subcharts]
    /\ loaded \in [Charts -> Chart]
    /\ faults \in 0..MaxFaults /\ restarts \in 0..MaxRestarts
    /\ stray \in Nat

Init ==
    /\ dirCache = {}
    /\ chartCache = [p \in Paths |-> NoChart]
    /\ toolkitOnDisk = {}
    /\ values \in [Charts -> SUBSET Subcharts]
    /\ loaded = [c \in Charts |-> NoChart]
    /\ faults = 0 /\ restarts = 0 /\ stray = 0

-----------------------------------------------------------------------------
(* source.getChart and loadChartAndConfig.                                 *)

DirCached(c)   == SourceOf[c] \in dirCache
ChartCached(c) == chartCache[Path(c)].present

\* A DirCache miss on a git or tar source: the source is fetched.
FetchNeeded(c) == ~DirCached(c) /\ SourceType[SourceOf[c]] # "local"

\* gitClone returns "not supported" for the ssh and http auth methods.
FetchRefused(c) ==
    FetchNeeded(c) /\ SourceType[SourceOf[c]] = "git" /\ AuthMethod[SourceOf[c]] # "none"

\* goGitClone on the new directory: PlainOpen (no repository yet), RemoveAll
\* of the directory, MkdirAll of it again, PlainClone into it.
GoGitCloneSteps == {"open", "clean", "mkdir", "plainclone"}

\* goGitCheckout of the reference: Worktree, then Checkout.
GoGitCheckoutSteps == {"worktree", "checkout"}

\* gitClone's steps after the auth check: ioutil.TempDir, then goGitClone
\* and goGitCheckout.
GitCloneSteps == {"tempdir"} \cup GoGitCloneSteps \cup GoGitCheckoutSteps

\* downloadTarball: ioutil.TempFile, http.Get, ReadAll.
DownloadSteps == {"tempfile", "get", "read"}

\* readFromArchive on one entry: tar Next (an error other than EOF),
\* MkdirAll of a directory, OpenFile of a file, io.Copy into it.
ArchiveEntrySteps == {"next", "mkdirall", "openfile", "copyentry"}

\* extractTarball: Stat of the tarball, ioutil.TempDir, Open, gzip reader,
\* then readFromArchive until EOF.
ExtractSteps == {"stat", "tempdir", "opentar", "gzip"} \cup ArchiveEntrySteps

\* Where the fetch on a DirCache miss can fail.
FetchFailurePoints(c) ==
    IF ~FetchNeeded(c) THEN {}
    ELSE IF FetchRefused(c) THEN {"refused"}
    ELSE IF SourceType[SourceOf[c]] = "git" THEN GitCloneSteps
    ELSE DownloadSteps \cup ExtractSteps

\* What gitClone leaves on a failure at p: the clone directory, unless
\* TempDir failed or goGitClone removed it and could not make it again.
GitStray(p) == IF p \in {"tempdir", "mkdir"} THEN 0 ELSE 1

\* What getTarball leaves on a failure at p: the tarball file once created,
\* and the extraction directory once created.
TarballStray(p) ==
    (IF p = "tempfile" THEN 0 ELSE 1)
    + (IF p \in (ExtractSteps \ {"stat", "tempdir"}) THEN 1 ELSE 0)

\* Neither is cached nor removed.
StrayAfterFailure(c, p) ==
    IF SourceType[SourceOf[c]] = "git" THEN GitStray(p) ELSE TarballStray(p)

\* A fetched tarball file is never removed, even when it was extracted.
StrayAfterFetch(c) == IF FetchNeeded(c) /\ SourceType[SourceOf[c]] = "tar" THEN 1 ELSE 0

\* Where a load can fail, given what is cached: the fetch; copyDependency;
\* chartutil.LoadDir.  A refused source never gets past the fetch.
FailurePoints(c) ==
    FetchFailurePoints(c)
    \cup (IF FetchRefused(c) \/ ChartCached(c) THEN {}
          ELSE {"loaddir"} \cup (IF DepsOf[c] THEN {"copy"} ELSE {}))

\* copyDependency writes charts/helm-toolkit into the chart directory; it
\* runs only on a ChartCache miss of a chart with dependencies.
DiskAfterCopy(c) ==
    IF ~ChartCached(c) /\ DepsOf[c] THEN toolkitOnDisk \cup {Path(c)} ELSE toolkitOnDisk

\* chartutil.LoadDir: every subchart of the directory, helm-toolkit when
\* it was copied there.
LoadDir(c, disk) == [present |-> TRUE, subcharts |-> Subcharts, toolkit |-> Path(c) \in disk]

\* getChart: the cached *Chart of the path, else the one LoadDir returns
\* (which is then cached).
GetChart(c) == IF ChartCached(c) THEN chartCache[Path(c)] ELSE LoadDir(c, DiskAfterCopy(c))

\* processRequirements: Helm's ProcessRequirementsEnabled removes from
\* chart.Dependencies, in place, the subcharts the values disable.
ProcessRequirements(ch, v) == [ch EXCEPT !.subcharts = @ \cap v]

\* loadChartAndConfig succeeds.  The chart processed is the object the
\* ChartCache holds, so the cache keeps the processed chart.
LoadChartOk(c) ==
    /\ ~FetchRefused(c)
    /\ LET ch == ProcessRequirements(GetChart(c), values[c]) IN
          /\ chartCache' = [chartCache EXCEPT ![Path(c)] = ch]
          /\ loaded' = [loaded EXCEPT ![c] = ch]
    /\ dirCache' = dirCache \cup {SourceOf[c]}
    /\ toolkitOnDisk' = DiskAfterCopy(c)
    /\ stray' = stray + StrayAfterFetch(c)
    /\ UNCHANGED <<values, faults, restarts>>

\* loadChartAndConfig fails at point p: what getChart did before p stays.
LoadChartFailed(c) ==
    /\ faults < MaxFaults
    /\ \E p \in FailurePoints(c) :
          IF p \in FetchFailurePoints(c)
          THEN /\ stray' = stray + StrayAfterFailure(c, p)
               /\ UNCHANGED <<dirCache, toolkitOnDisk>>
          ELSE /\ dirCache' = dirCache \cup {SourceOf[c]}
               /\ toolkitOnDisk' = IF p = "loaddir" THEN DiskAfterCopy(c) ELSE toolkitOnDisk
               /\ stray' = stray + StrayAfterFetch(c)
    /\ faults' = faults + 1
    /\ UNCHANGED <<chartCache, values, loaded, restarts>>

-----------------------------------------------------------------------------
(* The environment.                                                        *)

\* A user changes spec.values, or deletes the chart and creates it again
\* with other values.
EditValues(c) ==
    /\ \E v \in SUBSET Subcharts \ {values[c]} : values' = [values EXCEPT ![c] = v]
    /\ UNCHANGED <<dirCache, chartCache, toolkitOnDisk, loaded, faults, restarts, stray>>

\* The operator restarts: both caches start empty.  A git or tar source is
\* fetched into a new temporary directory, and the old one is left behind;
\* a local one is the same directory.
OperatorRestart ==
    /\ restarts < MaxRestarts
    /\ restarts' = restarts + 1
    /\ dirCache' = {}
    /\ chartCache' = [p \in Paths |-> NoChart]
    /\ toolkitOnDisk' = {p \in toolkitOnDisk : SourceType[p[1]] = "local"}
    /\ stray' = stray + Cardinality({s \in dirCache : SourceType[s] # "local"})
    /\ UNCHANGED <<values, loaded, faults>>

Next ==
    \/ \E c \in Charts : LoadChartOk(c) \/ LoadChartFailed(c) \/ EditValues(c)
    \/ OperatorRestart

Spec == Init /\ [][Next]_vars

-----------------------------------------------------------------------------
(* Properties.                                                             *)

\* The chart a load would return if it were read from its source every
\* time: every subchart the current values leave enabled, and helm-toolkit
\* when spec.dependencies asks for it (or it was copied there before).
FreshLoad(c) ==
    [present |-> TRUE, subcharts |-> Subcharts \cap values[c],
     toolkit |-> DepsOf[c] \/ Path(c) \in toolkitOnDisk]

\* Every loadChartAndConfig returns the chart its source and current values
\* define, as the comment in loadChartAndConfig says it must ("chart is
\* mutated by the call to processRequirements, so we need to reload it
\* every time"), whatever other charts and earlier values did to the cache.
LoadsAsFresh ==
    [][\A c \in Charts : LoadChartOk(c) => loaded'[c] = FreshLoad(c)]_vars
=============================================================================
