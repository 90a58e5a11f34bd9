------------------------------- MODULE Analytics -------------------------------
(***************************************************************************)
(* What the sink's rows become in ClickHouse (deploy/clickhouse/           *)
(* schema.sql) and what the dashboard asks of them (services/sink/sink/    *)
(* api.py).  Summaries are in a ReplacingMergeTree: of two rows with one   *)
(* sort key a merge in the background keeps the one inserted later.  The   *)
(* rollup of the agents is fed by every insert and sees no merge.          *)
(***************************************************************************)
EXTENDS SinkWriter, InsightRows

CONSTANTS
  Insights,   (* the envelopes of the topic                                 *)
  Today,      (* the day of arrival                                         *)
  MinCalls    (* an agent with fewer is not listed (3 in the code)          *)

Contents == [m \in DOMAIN Insights |-> RowsOf(Insights[m], Today)]

ASSUME AnalyticsAssumption ==
  /\ MinCalls \in Nat
  /\ Tables = {SIGNAL_TABLE, SUMMARY_TABLE, LATENCY_TABLE}
  /\ Envelopes = [m \in DOMAIN Contents |->
                    [k \in DOMAIN Contents[m] |-> Contents[m][k].table]]

VARIABLE gone   (* summaries a merge has replaced, by batch and place       *)

analyticsVars == <<vars, gone>>

AnalyticsInit == Init /\ gone = {}

Content(r) == Contents[r[1]][r[2]]
Places(tb) == UNION {{k} \X DOMAIN stored[tb][k] : k \in DOMAIN stored[tb]}
RowAt(tb, place) == Content(stored[tb][place[1]][place[2]])

(* ORDER BY of call_summaries.                                              *)
SortKey(row) == <<row.ended_date, row.agent_id, row.primary_intent, row.call_id>>

(* generated_at is the time of the insert, the same for all of a batch.     *)
Older(p, q) == p[1] < q[1] \/ (p[1] = q[1] /\ p[2] < q[2])

Summaries == Places(SUMMARY_TABLE) \ gone
SummaryAt(place) == RowAt(SUMMARY_TABLE, place)

(* Mutant of Merge: the row inserted first is kept.                         *)
MergeKeepingFirst ==
  \E p, q \in Summaries :
    /\ Older(p, q)
    /\ SortKey(SummaryAt(p)) = SortKey(SummaryAt(q))
    /\ gone' = gone \cup {q}
    /\ UNCHANGED vars

Merge ==
  \E p, q \in Summaries :
    /\ Older(p, q)
    /\ SortKey(SummaryAt(p)) = SortKey(SummaryAt(q))
    /\ gone' = gone \cup {p}
    /\ UNCHANGED vars

AnalyticsNext ==
  \/ Next /\ UNCHANGED gone
  \/ Merge

AnalyticsSpec == AnalyticsInit /\ [][AnalyticsNext]_analyticsVars /\ Fairness

-----------------------------------------------------------------------------
(* Queries.  None of them asks for FINAL: what no merge has replaced yet is *)
(* counted.                                                                 *)

Escalated(S) == {p \in S : SummaryAt(p).escalated}
ResolvedOf(S) == {p \in S : SummaryAt(p).resolution = "resolved"}
Named(S) == UNION {{p} \X DOMAIN SummaryAt(p).compliance_violations : p \in S}

(* countIf(escalated), sum(length(compliance_violations)), countIf(resolved).*)
Tally(S) == [escalations |-> Cardinality(Escalated(S)), violations |-> Cardinality(Named(S)),
             resolved |-> Cardinality(ResolvedOf(S))]

(* Mutant of OverviewCalls: the rows are counted.                           *)
OverviewRows == Cardinality(Summaries)

(* overview: uniq(call_id), and the tally of the rows.                      *)
OverviewCalls == Cardinality({SummaryAt(p).call_id : p \in Summaries})
OverviewTally == Tally(Summaries)

(* sentiment and intents: count() of the rows.                              *)
DaySummaries(day) == {p \in Summaries : SummaryAt(p).ended_date = day}
IntentSummaries(intent) == {p \in Summaries : SummaryAt(p).primary_intent = intent}
SentimentCalls(day) == Cardinality(DaySummaries(day))
IntentCalls(intent) == Cardinality(IntentSummaries(intent))

(* violations: for each policy, if it has a name, the severe rows.          *)
Severe(row, policy) ==
  /\ row.signal_type = "compliance_violation" /\ row.policy_id # "" /\ row.policy_id = policy
  /\ row.severity \in {"critical", "high"}
SevereEvents(policy) ==
  Cardinality({p \in Places(SIGNAL_TABLE) : Severe(RowAt(SIGNAL_TABLE, p), policy)})

(* agents: agent_daily_mv adds up what is inserted, call by call only for   *)
(* the number of calls; agents with few calls are not listed.               *)
Inserted(agent) == {p \in Places(SUMMARY_TABLE) : SummaryAt(p).agent_id = agent}
AgentCalls(agent) == Cardinality({SummaryAt(p).call_id : p \in Inserted(agent)})
AgentTally(agent) == Tally(Inserted(agent))
ListedAgents == {agent \in {Insights[m].agent_id : m \in DOMAIN Insights} :
                   AgentCalls(agent) >= MinCalls}

(* call_detail: a newest row of the call, any of those of one batch.        *)
Detail(call) ==
  LET own == {p \in Summaries : SummaryAt(p).call_id = call}
  IN {SummaryAt(p) : p \in {place \in own : \A other \in own : other[1] <= place[1]}}

-----------------------------------------------------------------------------
(* Properties.                                                              *)

CallIds == {Insights[m].call_id : m \in DOMAIN Insights}
Stored(tb, p) == stored[tb][p[1]][p[2]]
StoredRows(tb) == {r \in Rows : TableOf(r) = tb /\ InStore(r)}
StoredCalls(tb) == {Content(r).call_id : r \in StoredRows(tb)}
CallsOf(S) == {SummaryAt(p).call_id : p \in S}

(* api.py:241-258: whatever is replayed, inserted twice, rewritten or       *)
(* merged, the overview counts each call that has a summary, and once.      *)
CallsCountOnce == OverviewCalls = Cardinality(StoredCalls(SUMMARY_TABLE))

(* All merges are done; a call was stored under two sort keys.              *)
Merged == \A p, q \in Summaries : Older(p, q) => SortKey(SummaryAt(p)) # SortKey(SummaryAt(q))
Reworded ==
  \E r, u \in StoredRows(SUMMARY_TABLE) :
    Content(r).call_id = Content(u).call_id /\ SortKey(Content(r)) # SortKey(Content(u))

(* schema.sql:100-103, api.py:247-252, 268 and 322: the figures that count  *)
(* rows count a call twice after a replay or a second insert; they are      *)
(* those of calls again when the merges are done, unless the call was       *)
(* summarised under another day, agent or intent.                           *)
FiguresOnceMerged ==
  Merged /\ ~Reworded =>
    /\ OverviewTally.escalations = Cardinality(CallsOf(Escalated(Summaries)))
    /\ OverviewTally.resolved = Cardinality(CallsOf(ResolvedOf(Summaries)))
    /\ \A p \in Summaries :
         /\ SentimentCalls(SummaryAt(p).ended_date)
              = Cardinality(CallsOf(DaySummaries(SummaryAt(p).ended_date)))
         /\ IntentCalls(SummaryAt(p).primary_intent)
              = Cardinality(CallsOf(IntentSummaries(SummaryAt(p).primary_intent)))

(* The sink has inserted no row a second time; no summary is written again. *)
InsertedOnce == crashes = 0 /\ ~course.losesAck
Rewritten ==
  \E r, u \in Rows :
    /\ r # u /\ {r[1], u[1]} \subseteq 1..position
    /\ TableOf(r) = SUMMARY_TABLE /\ TableOf(u) = SUMMARY_TABLE
    /\ Content(r).call_id = Content(u).call_id

(* schema.sql:81-83 and 231-246: neither signals nor the rollup of the      *)
(* agents are ever merged; as long as the sink inserts nothing twice, a     *)
(* severe event is a signal, and as long as no summary is written again     *)
(* there is nothing to merge and the rollup is the tally of the summaries.  *)
NothingCountsTwice ==
  InsertedOnce =>
    /\ \A r \in StoredRows(SIGNAL_TABLE) :
         LET policy == Content(r).policy_id IN
         SevereEvents(policy)
           = Cardinality({u \in StoredRows(SIGNAL_TABLE) : Severe(Content(u), policy)})
    /\ ~Rewritten =>
         /\ Merged
         /\ \A agent \in ListedAgents :
              LET own == {p \in Summaries : SummaryAt(p).agent_id = agent} IN
              AgentCalls(agent) = Cardinality(own) /\ AgentTally(agent) = Tally(own)

(* What the figures of the dashboard have to do with calls and signals.     *)
DashboardCountsCalls == CallsCountOnce /\ FiguresOnceMerged /\ NothingCountsTwice

(* schema.sql:100-103: "Replacing keeps the newest by version instead of    *)
(* accumulating contradictory rows that would double every aggregate": when *)
(* the merges are done a call has one summary.  The code breaks it: a       *)
(* summary that names another intent has another sort key.                  *)
ReplacingKeepsOne ==
  Merged => \A p, q \in Summaries : SummaryAt(p).call_id = SummaryAt(q).call_id => p = q

(* api.py:405-411: a merge takes nothing from the page of a call, what it   *)
(* shows changes only when a row is inserted.                               *)
DetailSurvivesMerges ==
  [][UNCHANGED stored =>
       \A call \in CallIds : Detail(call) # {} => Detail(call)' \subseteq Detail(call)
                                                  /\ Detail(call)' # {}]_analyticsVars
=============================================================================
