-------------------------- MODULE MCDependentWatch --------------------------
(***************************************************************************)
(* Model-checking instances of DependentWatch: a release holding a Pod, a  *)
(* Job and a Workflow (one per readiness rule), or a Pod beside a Service  *)
(* (a kind IsUnstructuredReady always counts ready); and the readiness    *)
(* rules checked against the predicate over every pair of versions.        *)
(***************************************************************************)
EXTENDS DependentWatch

CONSTANTS pod, job, wf, svc

MCResPJW == {pod, job, wf}
MCResPW  == {pod, wf}
MCResPS  == {pod, svc}

\* The order of the manifest's documents, which Tiller sorts by kind
\* (Service before Pod before Job); the Workflow, a custom kind, last.
MCOrderPJW == <<pod, job, wf>>
MCOrderPW  == <<pod, wf>>
MCOrderPS  == <<svc, pod>>

MCKindOf ==
    [r \in Res |-> CASE r = pod -> "Pod"
                     [] r = job -> "Job"
                     [] r = wf  -> "Workflow"
                     [] OTHER   -> "Service"]

-----------------------------------------------------------------------------
(* The readiness rules of KubernetesDependency over every kind and every   *)
(* pair of versions of a resource.  The definition is constant: TLC        *)
(* evaluates it once.                                                       *)

\* An update that changes whether a resource is ready passes the dependent
\* predicate (UnstructuredStatusChanged), so a watched resource that gets
\* ready, or stops being ready, always wakes its chart.
ReadinessRulesNotify ==
    \A k \in Kinds, old, new \in Resources :
       IsUnstructuredReady(k, old) # IsUnstructuredReady(k, new)
          => UpdatePasses(k, old, new)

\* The check, for every pair of versions of every kind, and in every state
\* for the version a reconcile cached against the live one: when they
\* disagree on readiness, the predicate tells them apart.
ReadinessFlipNotifies ==
    /\ ReadinessRulesNotify
    /\ \A r \in Res :
          IsUnstructuredReady(KindOf[r], work.cache[r]) # IsUnstructuredReady(KindOf[r], res[r])
             => UpdatePasses(KindOf[r], work.cache[r], res[r])
=============================================================================
