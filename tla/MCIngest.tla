------------------------------ MODULE MCIngest -------------------------------
(* Instances of Ingest: one call whose edge reconnected, so that a stale    *)
(* and a fresh connection send overlapping segments.                        *)
EXTENDS Ingest

CONSTANTS old, new, a, b

MCConns == {old, new}
MCCallOf == [c \in MCConns |-> a]

Seg(call, n, fin, valid) == [call |-> call, seq |-> n, final |-> fin, ok |-> valid]
Frame(c, s) == [conn |-> c, seg |-> s]

s0 == Seg(a, 0, TRUE, TRUE)
s1 == Seg(a, 1, TRUE, TRUE)
p1 == Seg(a, 1, FALSE, TRUE)
Stray == Seg(b, 0, TRUE, TRUE)   \* of another call than the URL says

(* A final is sent again after the reconnect.                               *)
Resent == {Frame(old, s1), Frame(new, s1)}

(* Finals and a partial for a channel that fills.                           *)
Pressure == {Frame(old, s0), Frame(new, p1), Frame(new, s1)}

(* A final is shed, and sent again on the other connection.                 *)
Again == {Frame(old, s0), Frame(new, s1), Frame(old, s1)}

MCScenarios ==
  {[frames |-> Resent, redis |-> TRUE, shutdown |-> FALSE],
   [frames |-> Pressure, redis |-> FALSE, shutdown |-> FALSE],
   [frames |-> Again, redis |-> FALSE, shutdown |-> FALSE],
   [frames |-> {Frame(old, s0), Frame(new, s1)}, redis |-> FALSE, shutdown |-> TRUE],
   [frames |-> {Frame(old, Stray), Frame(new, s1)}, redis |-> TRUE, shutdown |-> FALSE]}
=============================================================================
