--------------------------- MODULE MCInsightWorker ---------------------------
(* Instances of InsightWorker for TLC: short partitions in which the        *)
(* segments of two calls alternate or follow one another, with and without  *)
(* a record the worker skips.                                               *)
EXTENDS InsightWorker

CONSTANTS k1, k2, k3

MCCallIds == {k1, k2}
MCTopics == {<<k1, k2, k1>>, <<k1, k1, Other>>}

(* Three calls above a ceiling of one.                                      *)
MCThreeCalls == {k1, k2, k3}
MCCeilingTopics == {<<k1, k1, k2, k1>>, <<k1, k2, k3, k1>>}
=============================================================================
