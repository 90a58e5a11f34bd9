----------------------------- MODULE LiveAnalysis -----------------------------
(***************************************************************************)
(* The two analysers of the worker (services/worker/worker/analysis/       *)
(* live.py and postcall.py) on the state they keep of each call            *)
(* (state.py).  The live thread takes the segments of its partition one at *)
(* a time; every Stride turns it runs the fast path over a window of the   *)
(* call and the agent over its deadline, sifts what they found and         *)
(* publishes it.  The other thread sums up calls that look quiet, or that  *)
(* make room for others: at any time, also between two segments.  A        *)
(* segment that arrives during the summary waits for the lock of its call  *)
(* and may then be analysed on the state that was summed up; a later one   *)
(* begins a new state.                                                     *)
(*                                                                         *)
(* Re-delivery, shutdown, a summary that raises and a second summary of    *)
(* the same state are modelled in InsightWorker.                           *)
(***************************************************************************)
EXTENDS AgentLoop

CONSTANTS
  WindowSize,      (* turns that the fast path looks at                     *)
  Stride,          (* new turns between two analyses                        *)
  MinConfidence,   (* percent                                               *)
  Climb,           (* percent by which confidence must climb to be news     *)
  BaseRequired,    (* disclosures that every call must contain              *)
  Scenarios        (* provider, use of the agent, segments of a partition   *)

ASSUME LiveAssumption ==
  /\ Stride \in Nat \ {0} /\ WindowSize \in Nat \ {0}
  /\ Calls # {}
  /\ \A s \in Scenarios :
       /\ s.provider \in {"offline", "azure"} /\ s.agent \in BOOLEAN
       /\ s.topic \in Seq(ToSet(s.topic))
       /\ \A segment \in ToSet(s.topic) :
            /\ segment.call \in Calls /\ segment.speaker \in Speakers
            /\ segment.text.threats \in Seq(ToSet(segment.text.threats))

VARIABLES
  useAgent,
  topic,       (* segments not heard yet                                    *)
  upto,        (* of each call: turns analysed (analysed_upto + 1)          *)
  last,        (* of each call and type: the last signal, <<>> for none     *)
  live,        (* where the live thread is                                  *)
  found,       (* risks of the path that are not sifted yet                 *)
  batch,       (* signals accepted by this analysis                         *)
  ended,       (* calls whose summary was begun (CallState.ended)           *)
  published,   (* of each call: the signals of its state, in order          *)
  summaries    (* summaries published                                       *)

liveVars == <<useAgent, topic, upto, last, live, found, batch, published>>
vars == <<agentVars, liveVars, ended, summaries>>

Here == pass["live"].call
Turns == transcript[Here]

TypeOK ==
  /\ \A c \in Calls : \A turn \in ToSet(transcript[c]) : turn.speaker \in Speakers
  /\ given \in [Calls -> SUBSET PolicyIds]
  /\ reported \in [Calls -> SUBSET (PolicyIds \union DOMAIN Spelled)]
  /\ \A p \in Threads :
       /\ pass[p].pc \in {"idle", "ready", "loop", "asking", "tools", "stopped"}
       /\ pass[p].step <= MaxSteps[p] + MaxRepairs
       /\ pass[p].repairs <= MaxRepairs /\ pass[p].attempt <= MaxRetries
  /\ live \in {"idle", "waiting", "fast", "fast_sift", "agent", "agent_sift", "publish",
              "failed"}
  /\ \A c \in Calls : upto[c] <= Len(transcript[c])
  /\ \A s \in ToSet(batch) : s.type \in SignalTypes
  /\ \A c \in Calls : \A s \in ToSet(published[c]) :
       s.evidence # <<>> /\ ToSet(s.evidence) \subseteq 1..Len(transcript[c])
  /\ ended \subseteq Calls

AnyCall == CHOOSE c \in Calls : TRUE

Init ==
  \E s \in Scenarios :
    /\ provider = s.provider /\ useAgent = s.agent /\ topic = s.topic
    /\ transcript = [c \in Calls |-> <<>>]
    /\ given = [c \in Calls |-> {}] /\ reported = [c \in Calls |-> {}]
    /\ pass = [p \in Threads |-> Resting(AnyCall)]
    /\ context = [call |-> AnyCall, required |-> {}]
    /\ flaggedYet = FALSE
    /\ upto = [c \in Calls |-> 0]
    /\ last = [c \in Calls |-> [t \in SignalTypes |-> <<>>]]
    /\ live = "idle" /\ found = <<>> /\ batch = <<>>
    /\ ended = {} /\ published = [c \in Calls |-> <<>>] /\ summaries = {}

-----------------------------------------------------------------------------
(* _required_disclosures: those of every call, and those of its intents.    *)
RequiredDisclosures(turns) ==
  LET intent == ClassifyIntent(turns)
  IN BaseRequired \union
     {p.id : p \in {q \in ToSet(Catalogue) :
                     q.intents \intersect ({intent.primary} \union intent.secondary) # {}}}

(* Mutant of WindowStart: the window is shorter than the stride.            *)
WindowStartLate(turns) == Max({1, Len(turns) + 2 - Stride})

WindowStart(turns) == Max({1, Len(turns) + 1 - WindowSize})

(* Mutant of WindowClosed: the turns of both speakers are counted.          *)
WindowClosedByAnyone(turns, id) ==
  PolicyOf(id).window > 0 /\ Len(turns) >= PolicyOf(id).window

(* _disclosure_window_closed: never for obligations of the whole call.      *)
WindowClosed(turns, id) ==
  LET policy == PolicyOf(id)
  IN policy.window > 0 /\ Len(Pick(turns, 1, ByAgent)) > policy.window

FastFlags(findings, base, top, why, about) ==
  [k \in DOMAIN findings |->
     Risk("compliance_violation", findings[k].label, Severity(findings[k].score),
          Min({top, base + (findings[k].score * 30) \div 100}),
          <<findings[k].turn>>, findings[k].policy, why, about)]

FastRisks(turns, required, about) ==
  LET missing == MissingDisclosures(turns, required)
      closed == Chosen(missing, {k \in DOMAIN missing : WindowClosed(turns, missing[k].policy)})
  IN FastFlags(ComplianceFindings(turns, WindowStart(turns)), 65, 97, "phrase", about)
       \o FastFlags(closed, 60, 92, "closed", about)
       \o EscalationFlag(turns, WindowStart(turns), about)

(* _is_change: what is news for each type of signal.                        *)
IsChange(signal, previous) ==
  CASE signal.type = "sentiment_shift" ->
         signal.evidence[1] # previous.evidence[1] \/ signal.label # previous.label
    [] signal.type = "intent" -> signal.label # previous.label
    [] OTHER -> \/ signal.label # previous.label
                \/ signal.severity # previous.severity
                \/ signal.confidence - previous.confidence >= Climb

-----------------------------------------------------------------------------
(* The live thread.                                                         *)

(* The thread that sums up holds the lock of the call.                      *)
Summing(c) == ~In("post_call", "idle") /\ pass["post_call"].call = c

(* The state of the call was dropped after its summary.                     *)
Dropped(c) == c \in ended /\ ~Summing(c)

Turn(segment) == [speaker |-> segment.speaker, text |-> segment.text]

(* should_analyse, which does not ask whether the call was summed up.       *)
ShouldAnalyse(turns, analysed) == Len(turns) - analysed >= Stride
Proceed(turns, analysed) == IF ShouldAnalyse(turns, analysed) THEN "fast" ELSE "idle"

(* _handle: the segment becomes a turn before the lock is taken.            *)
Hear ==
  /\ live = "idle" /\ topic # <<>> /\ ~Dropped(Head(topic).call)
  /\ LET c == Head(topic).call
         turns == Append(transcript[c], Turn(Head(topic)))
     IN /\ transcript' = [transcript EXCEPT ![c] = turns]
        /\ live' = IF Summing(c) THEN "waiting" ELSE Proceed(turns, upto[c])
        /\ pass' = [pass EXCEPT !["live"] = Resting(c)]
  /\ topic' = Tail(topic)
  /\ UNCHANGED <<provider, given, reported, context, flaggedYet, useAgent, upto, last,
                 found, batch, ended, published, summaries>>

(* A segment of a call whose state was dropped: a new CallState.            *)
HearAnew ==
  /\ live = "idle" /\ topic # <<>> /\ Dropped(Head(topic).call)
  /\ LET c == Head(topic).call
         turns == <<Turn(Head(topic))>>
     IN /\ transcript' = [transcript EXCEPT ![c] = turns]
        /\ given' = [given EXCEPT ![c] = {}] /\ reported' = [reported EXCEPT ![c] = {}]
        /\ upto' = [upto EXCEPT ![c] = 0]
        /\ last' = [last EXCEPT ![c] = [t \in SignalTypes |-> <<>>]]
        /\ published' = [published EXCEPT ![c] = <<>>]
        /\ ended' = ended \ {c}
        /\ live' = Proceed(turns, 0)
        /\ pass' = [pass EXCEPT !["live"] = Resting(c)]
  /\ topic' = Tail(topic)
  /\ UNCHANGED <<provider, context, flaggedYet, useAgent, found, batch, summaries>>

(* The summary is done: the segment that waited for the lock is handled on  *)
(* the state that was summed up.                                            *)
TakeLock ==
  /\ live = "waiting" /\ ~Summing(Here)
  /\ live' = Proceed(Turns, upto[Here])
  /\ UNCHANGED <<agentVars, useAgent, topic, upto, last, found, batch, ended, published,
                 summaries>>

FastPath ==
  /\ live = "fast"
  /\ \E required \in {RequiredDisclosures(Turns)} :
       /\ given' = [given EXCEPT ![Here] = @ \union GivenDisclosures(Turns, required)]
       /\ found' = FastRisks(Turns, required, {Here})
       /\ pass' = [pass EXCEPT !["live"].required = required]
  /\ live' = "fast_sift"
  /\ UNCHANGED <<provider, transcript, reported, context, flaggedYet, useAgent, topic, upto,
                 last, batch, ended, published, summaries>>

(* _to_signal and _accept for the next risk: it becomes a signal when it is *)
(* sure enough, is new to this analysis, and is news for the call.          *)
Key(signal) == <<signal.type, signal.label, signal.policy>>
New(risk) ==
  /\ risk.confidence >= MinConfidence
  /\ \A s \in ToSet(batch) : Key(s) # Key(risk)

(* Mutant of IsNews: only violations are compared with what was said.       *)
IsNewsAnyway(risk) ==
  risk.type = "compliance_violation" => risk.policy \notin reported[Here]

IsNews(risk) ==
  IF risk.type = "compliance_violation" THEN risk.policy \notin reported[Here]
  ELSE last[Here][risk.type] # <<>> => IsChange(risk, last[Here][risk.type][1])

Accept(risk) ==
  /\ New(risk) /\ IsNews(risk)
  /\ IF risk.type = "compliance_violation"
     THEN /\ reported' = [reported EXCEPT ![Here] = @ \union {risk.policy}]
          /\ UNCHANGED last
     ELSE /\ last' = [last EXCEPT ![Here][risk.type] = <<risk>>]
          /\ UNCHANGED reported
  /\ batch' = Append(batch, risk)

(* Mutant of Reject: a violation that is not sure enough is marked.         *)
RejectMarking(risk) ==
  /\ ~(New(risk) /\ IsNews(risk))
  /\ reported' = [reported EXCEPT ![Here] =
                    IF risk.type = "compliance_violation" THEN @ \union {risk.policy} ELSE @]
  /\ UNCHANGED <<batch, last>>

Reject(risk) ==
  /\ ~(New(risk) /\ IsNews(risk))
  /\ UNCHANGED <<batch, reported, last>>

Sift ==
  /\ live \in {"fast_sift", "agent_sift"} /\ found # <<>>
  /\ Accept(Head(found)) \/ Reject(Head(found))
  /\ found' = Tail(found)
  /\ UNCHANGED <<provider, transcript, given, pass, context, flaggedYet, useAgent, topic,
                 upto, live, ended, published, summaries>>

AskAgent ==
  /\ live = "fast_sift" /\ found = <<>> /\ useAgent
  /\ Begin("live", Here, pass["live"].required)
  /\ live' = "agent"
  /\ UNCHANGED <<provider, callVars, context, flaggedYet, useAgent, topic, upto, last, found,
                 batch, ended, published, summaries>>

(* What the agent flagged goes through the same sieve.                      *)
AgentPath ==
  /\ live = "agent" /\ In("live", "stopped")
  /\ found' = pass["live"].flagged
  /\ pass' = [pass EXCEPT !["live"] = Resting(Here)]
  /\ live' = "agent_sift"
  /\ UNCHANGED <<provider, callVars, context, flaggedYet, useAgent, topic, upto, last, batch,
                 ended, published, summaries>>

(* The agent path is skipped when the fast path used the budget up.         *)
EndAnalysis ==
  /\ live \in {"fast_sift", "agent_sift"} /\ found = <<>>
  /\ upto' = [upto EXCEPT ![Here] = Len(Turns)]
  /\ live' = IF batch = <<>> THEN "idle" ELSE "publish"
  /\ pass' = [pass EXCEPT !["live"] = Resting(Here)]
  /\ UNCHANGED <<provider, callVars, context, flaggedYet, useAgent, topic, last, found, batch,
                 ended, published, summaries>>

Publish ==
  /\ live = "publish"
  /\ published' = [published EXCEPT ![Here] = @ \o batch]
  /\ batch' = <<>> /\ live' = "idle"
  /\ UNCHANGED <<agentVars, useAgent, topic, upto, last, found, ended, summaries>>

(* The producer gives up: the error leaves _handle and ends the consumer.   *)
PublishFails ==
  /\ live = "publish"
  /\ live' = "failed"
  /\ UNCHANGED <<agentVars, useAgent, topic, upto, last, found, batch, ended, published,
                 summaries>>

-----------------------------------------------------------------------------
(* The summary of a call (_finalise, summarise, _build).                    *)

(* The call is tracked and its lock is free.                                *)
Free(c) ==
  /\ transcript[c] # <<>> /\ c \notin ended
  /\ live \in {"idle", "failed"} \/ Here # c

(* It looks idle, or it is the oldest when there are too many.              *)
Summarise(c) ==
  /\ In("post_call", "idle") /\ Free(c)
  /\ ended' = ended \union {c}
  /\ Begin("post_call", c, given[c])
  /\ UNCHANGED <<provider, callVars, context, flaggedYet, liveVars, summaries>>

(* _build: unknown policies are dropped, evidence must exist.  "told" is    *)
(* what was reported of the call by then.                                   *)
Build(content, call) ==
  [call |-> call, about |-> content.about, told |-> reported[call],
   resolution |-> content.resolution, intent |-> content.intent,
   escalated |-> content.escalated,
   secondary |-> content.secondary \ {content.intent},
   violations |-> content.violations \intersect PolicyIds,
   disclosures |-> content.disclosures \intersect PolicyIds,
   actions |-> {a \in content.actions : a.turn \in 1..Len(transcript[call])},
   evidence |-> Chosen(content.evidence, {k \in DOMAIN content.evidence :
                         content.evidence[k] \in 1..Len(transcript[call])})]

(* Without a valid payload nothing is published.                            *)
PublishSummary ==
  /\ In("post_call", "stopped")
  /\ summaries' =
       IF pass["post_call"].content.kind # "summary" THEN summaries
       ELSE summaries \union {Build(pass["post_call"].content, pass["post_call"].call)}
  /\ pass' = [pass EXCEPT !["post_call"] = Resting(pass["post_call"].call)]
  /\ UNCHANGED <<provider, callVars, context, flaggedYet, liveVars, ended>>

Agent(p) == AgentStep(p) /\ UNCHANGED <<liveVars, ended, summaries>>

Next ==
  \/ Hear \/ HearAnew \/ TakeLock
  \/ FastPath \/ Sift \/ AskAgent \/ AgentPath \/ EndAnalysis
  \/ Publish \/ PublishFails
  \/ \E c \in Calls : Summarise(c)
  \/ PublishSummary
  \/ \E p \in Threads : Agent(p)

Spec == Init /\ [][Next]_vars

(* A thread that is running goes on, an answer or a failure of the model    *)
(* comes in the end (requests time out), and quiet calls are swept.  The    *)
(* fairness of the steps that analyse a transcript is written with the      *)
(* state predicate that enables them.                                       *)
LiveRuns ==
  \/ live = "idle" /\ topic # <<>>
  \/ live = "waiting" /\ ~Summing(Here)
  \/ live \in {"fast", "fast_sift", "agent_sift", "publish"}
  \/ live = "agent" /\ In("live", "stopped")
LiveMoves == <<live', topic', found'>> # <<live, topic, found>>

AgentRuns(p) == pass[p].pc \in {"ready", "loop", "asking", "tools"}
AgentMoves(p) == pass'[p] # pass[p]

Fairness ==
  /\ <>[]LiveRuns => []<><<LiveMoves>>_vars
  /\ \A p \in Threads : <>[]AgentRuns(p) => []<><<AgentMoves(p)>>_vars
  /\ WF_vars(PublishSummary)
  /\ \A c \in Calls : WF_vars(Summarise(c))

FairSpec == Spec /\ Fairness

-----------------------------------------------------------------------------
(* Every prohibited phrase in a turn that was analysed has been reported:   *)
(* windows overlap, so that no turn of the agent passes between two of      *)
(* them, whatever the model does.                                           *)
NoViolationMissed ==
  \A c \in Calls : \A i \in 1..upto[c] :
    ByAgent(transcript[c][i]) =>
      transcript[c][i].text.breaks \intersect PolicyIds \subseteq reported[c]

(* A policy that is marked as flagged has its signal: it was published, is  *)
(* about to be, or the worker has stopped.  Marking comes first, so that a  *)
(* signal lost in between would never be reported.                          *)
FlaggedIsReported ==
  \A c \in Calls : \A id \in reported[c] :
    \/ \E s \in ToSet(published[c]) : s.policy = id
    \/ Here = c /\ (live = "failed" \/ \E s \in ToSet(batch) : s.policy = id)

(* Signal k is the next of its type after signal j.                         *)
Follows(j, k, type, signals) ==
  /\ j < k /\ signals[j].type = type /\ signals[k].type = type
  /\ \A i \in DOMAIN signals : j < i /\ i < k => signals[i].type # type

(* live.py:341-377: supervisors hear of a policy once per call and          *)
(* spelling, and two signals of another type that follow each other differ  *)
(* in what makes news, whichever analysis and path they come from.          *)
SignalsAreNews ==
  /\ \A c \in Calls : \A j, k \in DOMAIN published[c] :
       j # k /\ published[c][j].type = "compliance_violation"
             /\ published[c][k].type = "compliance_violation"
         => published[c][j].policy # published[c][k].policy
  /\ \A c \in Calls, t \in SignalTypes \ {"compliance_violation"} :
       \A j, k \in DOMAIN published[c] :
         Follows(j, k, t, published[c]) => IsChange(published[c][k], published[c][j])

(* What the fast path reports as missing is never given afterwards: it      *)
(* waits for the window of the disclosure to close.                         *)
NeverGiven(s, c) == ~Discloses(transcript[c], PolicyOf(Resolve(s.policy)))
FastVerdictStands ==
  \A c \in Calls : \A s \in ToSet(published[c]) : s.why = "closed" => NeverGiven(s, c)

(* The summary of a call that was made from its own transcript names every  *)
(* violation that supervisors were told about until it was published,       *)
(* whenever it is made and whatever arrives meanwhile.                      *)
SummaryCoversLive ==
  provider = "offline" =>
    \A s \in summaries : s.about = {s.call} => s.told \subseteq s.violations

(* Every pass of the agent comes to its end, and with it the analysis.      *)
EveryPassEnds == \A p \in Threads : ~In(p, "idle") ~> In(p, "idle")

(* Signals and summaries are about the call they are published for.         *)
AnswersOwnCall ==
  /\ \A c \in Calls : \A s \in ToSet(published[c]) : s.about \subseteq {c}
  /\ \A s \in summaries : s.about \subseteq {s.call}

=============================================================================
