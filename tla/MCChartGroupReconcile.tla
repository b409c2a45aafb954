------------------------ MODULE MCChartGroupReconcile ------------------------
(* Instances of ChartGroupReconcile for TLC: groups of two or three charts, *)
(* and GetNextToEnable checked against its contract over every list of up   *)
(* to three charts.                                                         *)
EXTENDS ChartGroupReconcile

LOCAL SE == INSTANCE SequencesExt

CONSTANTS c1, c2, c3

MCOrder2 == <<c1, c2>>
MCOrder3 == <<c1, c2, c3>>
MCNoHtk == {}
MCUninit == {StateUninitialized}
MCUninitOrUnset == {StateUninitialized, StateEmpty}
MCUnset == {StateEmpty}
MCNoWrites == {}
MCEnableWrites == {"enable"}
MCDeleteWrites == {"delete"}

-----------------------------------------------------------------------------
(* ArmadaCharts.GetNextToEnable against the contract of spec section 4.1,  *)
(* over every list of up to three distinct charts and every stored         *)
(* TargetState and Satisfied flag, read raw as Sync reads them (an unset   *)
(* TargetState, "empty", is among the inputs).  The definitions are        *)
(* constant: TLC evaluates them once, with the model's constants.          *)

ChartNames == {c1, c2, c3}

\* A chart as stored: any TargetState, any persisted Satisfied flag.
StoredCharts == {[Absent EXCEPT !.exists = TRUE, !.target = t, !.satisfied = s] :
                    t \in TargetStates, s \in BOOLEAN}

\* The contract: the candidate is the first uninitialized chart, provided
\* every chart before it is enabled and Satisfied; an enabled chart that
\* is not Satisfied is in flight and stops the scan.
ContractNextToEnable(ns, os) ==
    {ns[k] : k \in {i \in 1..Len(ns) :
                      /\ IsTargetStateUninitialized(os[ns[i]])
                      /\ \A j \in 1..(i - 1) :
                            ~IsTargetStateUninitialized(os[ns[j]]) /\ os[ns[j]].satisfied}}

\* GetNextToEnable returns exactly the chart the contract names, or nil
\* when it names none, for every list and every stored state.
NextToEnableContract ==
    \A ns \in SE!SetToAllKPermutations(ChartNames), os \in [ChartNames -> StoredCharts] :
       GetNextToEnable(ns, os) = ContractNextToEnable(ns, os)

\* The check, over every input, and in every state for the group's list
\* and the charts as stored.
NextToEnableMeetsContract ==
    /\ NextToEnableContract
    /\ GetNextToEnable(ChartOrder, chart) = ContractNextToEnable(ChartOrder, chart)

-----------------------------------------------------------------------------
(* The values helpers of helmv2/values.go against path-wise contracts,     *)
(* over every tree of two levels on keys a and b (an inner map uses key    *)
(* a) holding a scalar, null or a map.  Constant, like the check above.    *)

\* Scalars, null and the absent value are model values, which TLC compares
\* with maps (functions) as unequal.
CONSTANTS x, y, null, none

ValKeys == {"a", "b"}
ValScalars == {x, y}
ValNil == null
V == INSTANCE Values WITH Keys <- ValKeys, Scalars <- ValScalars, Nil <- ValNil

NoValue == none
Leaves == ValScalars \cup {ValNil}
\* the maps over a subset of ks whose values are in vals
MapsOver(ks, vals) == UNION {[D -> vals] : D \in SUBSET ks}
Trees == MapsOver(ValKeys, Leaves \cup MapsOver({"a"}, Leaves))
TreePaths == {<<k>> : k \in ValKeys} \cup {<<k, j>> : k, j \in ValKeys}

\* The value a tree holds at a path, NoValue when the path leads nowhere.
RECURSIVE Lookup(_, _)
Lookup(t, p) ==
    IF p = <<>> THEN t
    ELSE IF V!IsMap(t) /\ Head(p) \in DOMAIN t THEN Lookup(t[Head(p)], Tail(p))
    ELSE NoValue

\* normalizeConfig, through removeNil, strips every null of the values at
\* every depth before Tiller coalesces them with the chart defaults: a
\* scalar stays at its path, a null leaves no key behind, a map stays a
\* map, and no path is added.
RemoveNilContract ==
    \A t \in Trees, p \in TreePaths :
       LET v == Lookup(t, p)
           r == Lookup(V!NormalizeConfig(t), p)
       IN  /\ v \in ValScalars => r = v
           /\ v \in {ValNil, NoValue} => r = NoValue
           /\ V!IsMap(v) /\ v # NoValue => V!IsMap(r) /\ r # NoValue

\* src sets a leaf (scalar or null) on a proper prefix of p, replacing
\* whatever dest held below it
Overridden(s, p) == \E n \in 1..(Len(p) - 1) : Lookup(s, SubSeq(p, 1, n)) \in Leaves

\* mergeConfig of <<dest, src>>, mergeValues preferring src: every leaf
\* src sets is in the result, a leaf of dest survives unless src sets its path or overrides a prefix,
\* a map of src stays a map, and nothing else appears.
MergeContract ==
    \A d, s \in Trees, p \in TreePaths :
       LET vd == Lookup(d, p)
           vs == Lookup(s, p)
           vm == Lookup(V!MergeConfig(<<d, s>>), p)
       IN  /\ vs \in Leaves => vm = vs
           /\ vs = NoValue /\ vd \in Leaves /\ ~Overridden(s, p) => vm = vd
           /\ vm \in Leaves => vm \in {vd, vs}
           /\ vm = NoValue <=> (vd = NoValue /\ vs = NoValue) \/ Overridden(s, p)

\* The contracts are constant: TLC evaluates each once and, as a state
\* invariant, reports a failure at the first well-typed state.

\* normalizeConfig leaves no null at any depth of a chart's values and keeps
\* every scalar and map where spec.values put it.
RemoveNilMeetsContract == TypeOK => RemoveNilContract

\* mergeConfig lets a later config's leaf win at its path, keeps an earlier
\* leaf it does not override, and invents no path.
MergeValuesMeetsContract == TypeOK => MergeContract
=============================================================================
