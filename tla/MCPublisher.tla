----------------------------- MODULE MCPublisher -----------------------------
(* Instances of Publisher for TLC: a call that publishes a final and a      *)
(* partial, another that publishes one final, over a short channel.         *)
EXTENDS Publisher

CONSTANTS c1, c2, f1, p1, g1

MCCallers == {c1, c2}
MCJobs == {f1, p1, g1}
MCFinalJobs == {f1, g1}
MCCallerOf == [j \in MCJobs |-> IF j = g1 THEN c2 ELSE c1]
=============================================================================
