--------------------------- MODULE SegmentChannel ----------------------------
(***************************************************************************)
(* What the ingest publisher promises its callers, without its channel,    *)
(* its workers or Kafka: the policy in the comment of type Publisher,      *)
(* services/ingest/internal/publish/publish.go:18-35.                      *)
(*                                                                         *)
(* A partial is accepted or dropped at once.  A final is accepted, at once *)
(* or after waiting, or refused with an error the caller sees.  What was   *)
(* accepted stays pending until it is stored or counted as failed; what    *)
(* failed may be stored all the same until closing is over, and closing    *)
(* waits for everything pending.  Nothing else is ever stored.             *)
(***************************************************************************)
CONSTANTS Jobs, FinalJobs

VARIABLES
  verdict,  (* what the caller of each job was told                         *)
  pending,  (* accepted jobs that are neither stored for good nor failed    *)
  stored,   (* jobs in the topic                                            *)
  failed,   (* jobs counted as errors                                       *)
  intake    (* "open", "closing" or "closed"                                *)

chanVars == <<verdict, pending, stored, failed, intake>>

Init ==
  /\ verdict = [j \in Jobs |-> "none"]
  /\ pending = {}
  /\ stored = {}
  /\ failed = {}
  /\ intake = "open"

Tell(j, v) ==
  /\ verdict' = [verdict EXCEPT ![j] = v]
  /\ UNCHANGED <<stored, failed, intake>>

Accept(j) ==
  /\ intake = "open"
  /\ verdict[j] \in {"none", "blocked"}
  /\ pending' = pending \cup {j}
  /\ Tell(j, "accepted")

DropPartial(j) ==
  /\ intake = "open"
  /\ verdict[j] = "none"
  /\ j \notin FinalJobs
  /\ Tell(j, "dropped")
  /\ UNCHANGED pending

MakeWait(j) ==
  /\ intake = "open"
  /\ verdict[j] = "none"
  /\ j \in FinalJobs
  /\ Tell(j, "blocked")
  /\ UNCHANGED pending

Shed(j) ==
  /\ intake = "open"
  /\ verdict[j] = "blocked"
  /\ Tell(j, "shed")
  /\ UNCHANGED pending

(* After the intake closed a call of Publish does not return at all.        *)
Panic(j) ==
  /\ intake # "open"
  /\ verdict[j] \in {"none", "blocked"}
  /\ Tell(j, "panicked")
  /\ UNCHANGED pending

Store(j) ==
  /\ j \in pending
  /\ stored' = stored \cup {j}
  /\ pending' = pending \ {j}
  /\ UNCHANGED <<verdict, failed, intake>>

(* The topic has the message, the acknowledgement was lost.                 *)
StoreUnacknowledged(j) ==
  /\ j \in pending
  /\ stored' = stored \cup {j}
  /\ UNCHANGED <<verdict, pending, failed, intake>>

Fail(j) ==
  /\ j \in pending
  /\ failed' = failed \cup {j}
  /\ pending' = pending \ {j}
  /\ UNCHANGED <<verdict, stored, intake>>

(* A write whose caller's time was up reaches the topic after all.          *)
StoreLate(j) ==
  /\ j \in failed
  /\ intake # "closed"
  /\ stored' = stored \cup {j}
  /\ UNCHANGED <<verdict, pending, failed, intake>>

StartClose ==
  /\ intake = "open"
  /\ intake' = "closing"
  /\ UNCHANGED <<verdict, pending, stored, failed>>

FinishClose ==
  /\ intake = "closing"
  /\ pending = {}
  /\ intake' = "closed"
  /\ UNCHANGED <<verdict, pending, stored, failed>>

JobStep(j) ==
  \/ Accept(j)
  \/ DropPartial(j)
  \/ MakeWait(j)
  \/ Shed(j)
  \/ Panic(j)
  \/ Store(j)
  \/ StoreUnacknowledged(j)
  \/ Fail(j)
  \/ StoreLate(j)

Next == (\E j \in Jobs : JobStep(j)) \/ StartClose \/ FinishClose

Spec == Init /\ [][Next]_chanVars

Fairness ==
  /\ \A j \in Jobs : WF_chanVars(Store(j) \/ Fail(j))
  /\ WF_chanVars(FinishClose)

FairSpec == Spec /\ Fairness
=============================================================================
