------------------------------- MODULE Values -------------------------------
(***************************************************************************)
(* The chart values helpers of helmv2/values.go, as pure operators on      *)
(* YAML trees.  A tree is Nil (YAML null), a scalar, or a map: a function  *)
(* whose domain is the set of its keys.  loadChartAndConfig marshals       *)
(* spec.values and hands it to normalizeConfig, which strips the nulls     *)
(* before Tiller coalesces the values with the chart's defaults.           *)
(* mergeConfig, which folds several configs with mergeValues, is compiled  *)
(* but nothing calls it.                                                   *)
(***************************************************************************)
CONSTANTS
    Keys,      \* the map keys a tree may use
    Scalars,   \* the scalar values a tree may hold
    Nil        \* YAML null (a Go nil interface value)

ASSUME Nil \notin Scalars

LOCAL INSTANCE SequencesExt

IsMap(v) == v \notin Scalars \cup {Nil}

EmptyMap == [k \in {} |-> Nil]

\* A map with the keys of `dom`, key k holding f(k).
MapOf(dom, f(_)) == [k \in dom |-> f(k)]

\* Mutation: the nils nested in a map are kept.
RemoveNilTopOnly(src) == MapOf({k \in DOMAIN src : src[k] # Nil}, LAMBDA k : src[k])

\* removeNil: a new map without the keys holding nil, nested maps cleaned
\* the same way; a scalar is copied.
RECURSIVE RemoveNil(_)
RemoveNil(src) ==
    MapOf({k \in DOMAIN src : src[k] # Nil},
          LAMBDA k : IF IsMap(src[k]) THEN RemoveNil(src[k]) ELSE src[k])

\* normalizeConfig on the config of loadChartAndConfig: yaml.Marshal of a
\* nil spec.values is "null", which Unmarshal leaves as an empty map; then
\* removeNil, and Marshal again (the tree is what the YAML text denotes).
NormalizeConfig(values) == RemoveNil(IF values = Nil THEN EmptyMap ELSE values)

\* Mutation: a key of src that dest already holds is left as dest has it.
MergeValuesKeepDest(dest, src) ==
    MapOf(DOMAIN dest \cup DOMAIN src,
          LAMBDA k : IF k \in DOMAIN dest THEN dest[k] ELSE src[k])

\* mergeValues: src's value wins for each of its keys, except that two maps
\* under one key are merged key by key.  It writes into dest, which
\* mergeConfig never reads again, so the result is all that is seen.
RECURSIVE MergeValues(_, _)
MergeValues(dest, src) ==
    MapOf(DOMAIN dest \cup DOMAIN src,
          LAMBDA k : IF k \notin DOMAIN src THEN dest[k]
                     ELSE IF k \notin DOMAIN dest THEN src[k]
                     ELSE IF ~IsMap(src[k]) \/ ~IsMap(dest[k]) THEN src[k]
                     ELSE MergeValues(dest[k], src[k]))

\* mergeConfig: the configs folded left into an empty map, each one merged
\* over what the earlier ones gave.
MergeConfig(configs) == FoldLeft(MergeValues, EmptyMap, configs)
=============================================================================
