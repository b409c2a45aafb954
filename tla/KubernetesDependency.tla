------------------------ MODULE KubernetesDependency ------------------------
(***************************************************************************)
(* KubernetesDependency: whether one dependent resource is ready, and      *)
(* whether its status changed between two versions of it.  A resource is   *)
(* reduced to the fields these rules read.                                 *)
(***************************************************************************)
EXTENDS Naturals

\* The kinds IsUnstructuredReady tells apart; "Service" stands for every
\* kind of its default branch.
Kinds == {"Pod", "Job", "Workflow", "Service"}

\* What the readiness rules read of a resource: the status of its PodReady
\* condition ("none": no such condition, the zero ConditionStatus),
\* status.succeeded of a Job (0 or not), and status.phase of a Workflow
\* ("nostatus": no status map; "nophase": a status map without a phase).
PodConds == {"none", "False", "True"}
Phases   == {"nostatus", "nophase", "Running", "Succeeded", "Failed"}

Resources == [exists: BOOLEAN, podReady: PodConds, succeeded: 0..1, phase: Phases]

\* A resource as the manifest (or a create from it) has it: no status.
ManifestRes == [exists |-> TRUE, podReady |-> "none", succeeded |-> 0, phase |-> "nostatus"]
AbsentRes   == [ManifestRes EXCEPT !.exists = FALSE]

-----------------------------------------------------------------------------
\* extractField("status.phase", u): "" when an intermediate map is missing;
\* the type assertion customResource[key].(string) panics on a status map
\* without the key.
Panic == "panic"
ExtractPhase(u) ==
    CASE u.phase = "nostatus" -> ""
      [] u.phase = "nophase"  -> Panic
      [] OTHER                -> u.phase

IsPodReady(u)      == u.podReady = "True"
IsJobReady(u)      == u.succeeded # 0
IsWorkflowReady(u) == ExtractPhase(u) = "Succeeded"

IsUnstructuredReady(k, u) ==
    CASE k = "Pod"      -> IsPodReady(u)
      [] k = "Job"      -> IsJobReady(u)
      [] k = "Workflow" -> IsWorkflowReady(u)
      [] OTHER          -> TRUE

PodStatusChanged(u, v)      == u.podReady # v.podReady
JobStatusChanged(u, v)      == u.succeeded # v.succeeded
WorkflowStatusChanged(u, v) == ExtractPhase(u) # ExtractPhase(v)

\* Mutation: the switch lacks its Workflow case (default: unchanged).
UnstructuredStatusChangedNoWorkflow(k, u, v) ==
    CASE k = "Pod" -> PodStatusChanged(u, v)
      [] k = "Job" -> JobStatusChanged(u, v)
      [] OTHER     -> FALSE

UnstructuredStatusChanged(k, u, v) ==
    CASE k = "Pod"      -> PodStatusChanged(u, v)
      [] k = "Job"      -> JobStatusChanged(u, v)
      [] k = "Workflow" -> WorkflowStatusChanged(u, v)
      [] OTHER          -> FALSE

\* The dependent predicate on an update of a resource whose spec is left
\* alone: it passes when UnstructuredStatusChanged holds.
UpdatePasses(k, u, v) == UnstructuredStatusChanged(k, u, v)
=============================================================================
