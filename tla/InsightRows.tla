------------------------------ MODULE InsightRows ------------------------------
(***************************************************************************)
(* From an envelope of call.insights to rows: what the contract admits     *)
(* (packages/edgesense_core/contracts.py), the rows it becomes and their   *)
(* tables (services/sink/sink/rows.py, handle of main.py).  Texts are      *)
(* tokens, "" is an empty or an absent one; limits on the length of a text *)
(* are left out, limits on the length of a list are not.                   *)
(***************************************************************************)
EXTENDS Naturals, Sequences, FiniteSets, SequencesExt

SIGNAL_TABLE == "signals"
SUMMARY_TABLE == "call_summaries"
LATENCY_TABLE == "segment_latency"
CONTRACT_MAJOR == 1

(* The stages of StageLatency, in the order of their rows.                  *)
LATENCY_STAGES == <<"asr", "redact", "ingest", "queue", "analyze", "llm", "e2e">>

-----------------------------------------------------------------------------
(* What model_validate and require_compatible accept.                       *)

Compatible(version) == version.major = CONTRACT_MAJOR

ValidEvidence(span) == span.quote # ""

ValidSignal(signal) ==
  /\ "" \notin {signal.signal_id, signal.call_id, signal.label}
  /\ signal.evidence # <<>>
  /\ \A k \in DOMAIN signal.evidence : ValidEvidence(signal.evidence[k])

ValidItem(item) ==
  /\ item.description # "" /\ item.evidence # <<>>
  /\ \A k \in DOMAIN item.evidence : ValidEvidence(item.evidence[k])

ValidSummary(summary) ==
  /\ "" \notin {summary.call_id, summary.summary, summary.primary_intent}
  /\ Len(summary.secondary_intents) <= 5
  /\ Len(summary.action_items) <= 20
  /\ Len(summary.compliance_violations) <= 20 /\ Len(summary.disclosures_given) <= 20
  /\ \A k \in DOMAIN summary.action_items : ValidItem(summary.action_items[k])
  /\ Len(summary.evidence) <= 40
  /\ \A k \in DOMAIN summary.evidence : ValidEvidence(summary.evidence[k])

(* A summary is a sequence of at most one.                                  *)
ValidInsights(insights) ==
  /\ insights.call_id # ""
  /\ \A k \in DOMAIN insights.signals : ValidSignal(insights.signals[k])
  /\ \A k \in DOMAIN insights.summary : ValidSummary(insights.summary[k])
  /\ insights.kind = "post_call" => insights.summary # <<>>
  /\ insights.kind = "live" => insights.signals # <<>>

-----------------------------------------------------------------------------
(* Rows.                                                                    *)

FirstOf(texts) ==
  IF ToSet(texts) \subseteq {""} THEN "" ELSE SelectSeq(texts, LAMBDA text : text # "")[1]

(* _ts: a time that cannot be parsed becomes the time of arrival.           *)
Day(emitted, today) == IF emitted = "malformed" THEN today ELSE emitted

Column(evidence, attribute) == [k \in DOMAIN evidence |-> evidence[k][attribute]]

SignalRow(signal, agent, today) ==
  [table |-> SIGNAL_TABLE, signal_id |-> signal.signal_id, call_id |-> signal.call_id,
   agent_id |-> FirstOf(<<signal.agent_id, agent>>), signal_type |-> signal.type,
   label |-> signal.label, severity |-> signal.severity, policy_id |-> signal.policy_id,
   emitted_date |-> Day(signal.emitted_at, today),
   evidence_seq |-> Column(signal.evidence, "seq"),
   evidence_quote |-> Column(signal.evidence, "quote"),
   latency |-> signal.latency]

(* One row for each stage that ran.                                         *)
LatencyRows(signal, agent, today) ==
  LET ran == SelectSeq(LATENCY_STAGES, LAMBDA stage : stage \in DOMAIN signal.latency)
      seq == IF signal.evidence = <<>> THEN 0 ELSE signal.evidence[1].seq
  IN [k \in DOMAIN ran |->
        [table |-> LATENCY_TABLE, call_id |-> signal.call_id, seq |-> seq,
         agent_id |-> FirstOf(<<signal.agent_id, agent>>), stage |-> ran[k],
         duration_ms |-> signal.latency[ran[k]],
         emitted_date |-> Day(signal.emitted_at, today)]]

(* The sink is told neither the turns nor the redactions of the call.       *)
SummaryRow(insights, summary, today) ==
  [table |-> SUMMARY_TABLE, call_id |-> summary.call_id, agent_id |-> insights.agent_id,
   primary_intent |-> summary.primary_intent, resolution |-> summary.resolution,
   escalated |-> summary.escalated, summary |-> summary.summary,
   compliance_violations |-> summary.compliance_violations,
   disclosures_given |-> summary.disclosures_given,
   turn_count |-> 0, redaction_count |-> 0, ended_date |-> Day(insights.emitted_at, today)]

(* handle, for an envelope that parses; any other has no rows.              *)
RowsOf(insights, today) ==
  IF ~(Compatible(insights.schema_version) /\ ValidInsights(insights)) THEN <<>>
  ELSE IF insights.kind = "live"
  THEN FlattenSeq([k \in DOMAIN insights.signals |->
         <<SignalRow(insights.signals[k], insights.agent_id, today)>>
           \o LatencyRows(insights.signals[k], insights.agent_id, today)])
  ELSE [k \in DOMAIN insights.summary |-> SummaryRow(insights, insights.summary[k], today)]
=============================================================================
