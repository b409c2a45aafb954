--------------------------- MODULE MCChartSource ---------------------------
(* Instances of ChartSource for TLC: two charts from one git source, one   *)
(* with spec.dependencies, and a chart with one conditional subchart.      *)
EXTENDS ChartSource, TLC

CONSTANTS c1, c2, s1, sub

MCSourceType == [s \in {s1} |-> "git"]
MCAuthMethod == [s \in {s1} |-> "none"]
MCSourceOf   == [c \in {c1, c2} |-> s1]
MCSubpathOf  == [c \in {c1, c2} |-> "charts/app"]
MCDepsOf     == (c1 :> TRUE) @@ (c2 :> FALSE)
=============================================================================
