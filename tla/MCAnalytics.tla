----------------------------- MODULE MCAnalytics -----------------------------
(* Instances of Analytics for TLC: a call with a violation and its latency, *)
(* an envelope without signals, which is refused, and the summary of the    *)
(* call, which is written again with the same key and with another intent.  *)
EXTENDS Analytics

Version == [major |-> 1]
Live(call, policy) ==
  [schema_version |-> Version, kind |-> "live", call_id |-> call, agent_id |-> "ann",
   emitted_at |-> "monday", summary |-> <<>>,
   signals |-> <<[signal_id |-> "s", call_id |-> call, agent_id |-> "",
                  type |-> "compliance_violation", label |-> policy, severity |-> "high",
                  policy_id |-> policy, emitted_at |-> "monday",
                  evidence |-> <<[seq |-> 1, quote |-> "q"]>>,
                  latency |-> [stage \in {"e2e"} |-> 1]]>>]
Summary(call, intent, day) ==
  [schema_version |-> Version, kind |-> "post_call", call_id |-> call, agent_id |-> "ann",
   emitted_at |-> day, signals |-> <<>>,
   summary |-> <<[call_id |-> call, summary |-> "text", resolution |-> "escalated",
                  primary_intent |-> intent, secondary_intents |-> <<>>, action_items |-> <<>>,
                  escalated |-> TRUE, compliance_violations |-> <<"REC">>,
                  disclosures_given |-> <<>>, evidence |-> <<>>]>>]

MCInsights ==
  << Live("c1", "REC"), [Live("c1", "REC") EXCEPT !.signals = <<>>],
     Summary("c1", "billing", "malformed"), Summary("c1", "billing", "monday"),
     Summary("c1", "refund", "monday") >>
MCTables == {SIGNAL_TABLE, SUMMARY_TABLE, LATENCY_TABLE}
MCEnvelopes ==
  << <<SIGNAL_TABLE, LATENCY_TABLE>>, <<>>, <<SUMMARY_TABLE>>, <<SUMMARY_TABLE>>,
     <<SUMMARY_TABLE>> >>
MCCourse(first, last, fails, dies) ==
  [first |-> first, last |-> last, stops |-> fails, refuses |-> fails, losesAck |-> FALSE,
   crashes |-> dies]
MCCourses ==
  { MCCourse(1, 1, TRUE, 0), MCCourse(2, 3, TRUE, 0), MCCourse(3, 4, TRUE, 0),
    MCCourse(1, 3, FALSE, 1), MCCourse(4, 5, FALSE, 1), MCCourse(3, 5, TRUE, 0),
    [MCCourse(4, 4, TRUE, 0) EXCEPT !.losesAck = TRUE] }
=============================================================================
