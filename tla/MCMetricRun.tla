------------------------------ MODULE MCMetricRun ------------------------------
(* Three rounds: a complete block and an incomplete one. Two CPU counters. One    *)
(* problem of publication (they only accumulate).                                 *)
EXTENDS MetricRun
CONSTANTS baseline, candidate, c1, c2
MCArms == <<baseline, candidate>>
MCProblems == [git |-> {"BENCH_TREE_DIRTY"}, environment |-> {}, arms |-> {}]
================================================================================
