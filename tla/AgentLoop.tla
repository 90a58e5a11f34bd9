------------------------------ MODULE AgentLoop ------------------------------
(***************************************************************************)
(* The tool-using agent of the worker (services/worker/worker/agent.py)    *)
(* with its tools (tools.py) and the two providers that answer it: the     *)
(* offline one (llm/offline.py), which walks the protocol from the rules,  *)
(* and Azure OpenAI (llm/azure.py), whose model may answer anything.       *)
(*                                                                         *)
(* Two threads run passes at the same time, the live analysis of one call  *)
(* and the summary of another, and both ask the one provider that main.py  *)
(* builds.  The offline provider keeps the context it was handed last.     *)
(* Prompts, token counts and the texts of tool results are left out; an    *)
(* answer of the model is any of Answers.                                  *)
(***************************************************************************)
EXTENDS Rules

CONSTANTS
  Calls,       (* identifiers of calls                                      *)
  MaxSteps,    (* max_steps of the prompt of each kind of pass              *)
  MaxRepairs,  (* schema repairs a pass may ask for                         *)
  MaxRetries,  (* posts of one completion beyond the first                  *)
  MaxSpans,    (* evidence turns that flag_risk looks at                    *)
  Spelled,     (* other spellings of policy ids that the catalogue resolves *)
  Answers      (* what the model may answer to a pass of each kind          *)

Kinds == {"live", "post_call"}

(* What a flagged risk says; "why" is where it comes from.                  *)
RiskFields ==
  {"type", "label", "severity", "confidence", "evidence", "policy", "why", "about"}

ASSUME AgentAssumption ==
  /\ MaxSteps \in [Kinds -> Nat \ {0}]
  /\ MaxRepairs \in Nat /\ MaxRetries \in Nat /\ MaxSpans \in Nat \ {0}
  /\ DOMAIN Spelled \intersect PolicyIds = {}
  /\ \A other \in DOMAIN Spelled : Spelled[other] \in PolicyIds
  /\ \A p \in Kinds : \A answer \in Answers[p] :
       /\ answer.calls \in Seq(ToSet(answer.calls))
       /\ \A call \in ToSet(answer.calls) : call.tool = "flag_risk" =>
            /\ DOMAIN call.risk = RiskFields /\ call.risk.why = "model"
            /\ call.risk.evidence \in Seq(ToSet(call.risk.evidence))

VARIABLES
  provider,    (* "offline" or "azure"                                      *)
  transcript,  (* of each call: its final segments (CallState.turns)        *)
  given,       (* of each call: disclosures_given                           *)
  reported,    (* of each call: violations_flagged                          *)
  pass,        (* of each thread: its pass                                  *)
  context,     (* offline provider: the call and obligations of _ctx        *)
  flaggedYet   (* offline provider: the once-only guard                     *)

callVars == <<transcript, given, reported>>
agentVars == <<provider, callVars, pass, context, flaggedYet>>

Threads == Kinds  (* one thread for each kind of pass                       *)

First(n, s) == SubSeq(s, 1, Min({n, Len(s)}))

-----------------------------------------------------------------------------
(* Tools.                                                                   *)

Unset == [kind |-> "none", about |-> {}]
Fresh(call, required) ==
  [pc |-> "ready", call |-> call, required |-> required, step |-> 0, repairs |-> 0,
   attempt |-> 0, said |-> 0, todo |-> <<>>, flagged |-> <<>>, content |-> Unset,
   end |-> ""]
Resting(call) == [Fresh(call, {}) EXCEPT !.pc = "idle"]

(* PolicyStore.get: ids are compared in upper case.                         *)
Resolve(id) ==
  IF id \in PolicyIds THEN id
  ELSE IF id \in DOMAIN Spelled THEN Spelled[id] ELSE NoPolicy

Risk(type, label, severity, confidence, evidence, policy, why, about) ==
  [type |-> type, label |-> label, severity |-> severity, confidence |-> confidence,
   evidence |-> evidence, policy |-> policy, why |-> why, about |-> about]

(* Mutant of Spans: turns are cited whether they exist or not.              *)
SpansUnchecked(turns, numbers) == First(MaxSpans, numbers)

(* evidence_for: a span for a turn that exists.                             *)
Spans(turns, numbers) ==
  LET cited == First(MaxSpans, numbers)
  IN Chosen(cited, {k \in DOMAIN cited : cited[k] \in 1..Len(turns)})

SignalTypes == {"sentiment_shift", "escalation_risk", "compliance_violation", "intent"}

(* flag_risk takes a risk of a known type when its evidence and its policy  *)
(* resolve.                                                                 *)
Flaggable(turns, risk) ==
  /\ risk.type \in SignalTypes
  /\ Spans(turns, risk.evidence) # <<>>
  /\ risk.type = "compliance_violation" => Resolve(risk.policy) # NoPolicy

(* invoke for each call of a completion: lookups and searches change        *)
(* nothing, a tool error goes back to the model.                            *)
Flagged(turns, calls) ==
  LET taken == Chosen(calls, {k \in DOMAIN calls :
                 calls[k].tool = "flag_risk" /\ Flaggable(turns, calls[k].risk)})
  IN [k \in DOMAIN taken |->
        [taken[k].risk EXCEPT !.evidence = Spans(turns, taken[k].risk.evidence)]]

-----------------------------------------------------------------------------
(* The offline provider, from the context it holds.                         *)

Severity(score) ==
  IF score >= 95 THEN "critical" ELSE IF score >= 75 THEN "high"
  ELSE IF score >= 50 THEN "medium" ELSE "low"

Lookup(id) == [tool |-> "lookup_policy", policy |-> id]
Flag(risk) == [tool |-> "flag_risk", risk |-> risk]

GatherCalls(turns, required) ==
  LET suspects == {f.policy : f \in ToSet(ComplianceFindings(turns, 1))
                                      \union ToSet(MissingDisclosures(turns, required))}
      policies == Chosen(Catalogue, {k \in DOMAIN Catalogue : Catalogue[k].id \in suspects})
      heard == EscalationFindings(turns, 1) # <<>> /\ Band(EscalationRisk(turns, 1)) # "none"
  IN First(8, [k \in DOMAIN policies |-> Lookup(policies[k].id)]
                \o IF heard THEN <<[tool |-> "search_transcript"]>> ELSE <<>>)

(* A genuine move of the customer's tone between the halves of the call,    *)
(* cited at the turn of the later half that shows it best.                  *)
Anchor(turns, numbers, sign) ==
  LET mood(i) == sign * Sentiment(turns[i].text.words)
  IN CHOOSE i \in ToSet(numbers) :
       \A j \in ToSet(numbers) : mood(i) > mood(j) \/ (mood(i) = mood(j) /\ i <= j)

Shift(label, size, turn, about) ==
  Risk("sentiment_shift", label, IF size > 60 THEN "medium" ELSE "low", Min({90, size}),
       <<turn>>, NoPolicy, "shift", about)

Drift(turns, late, delta, about) ==
  CASE delta <= -35 * Len(late) ->
         <<Shift("negative_shift", (-delta) \div Len(late), Anchor(turns, late, -1), about)>>
    [] delta >= 35 * Len(late) ->
         <<Shift("positive_shift", delta \div Len(late), Anchor(turns, late, 1), about)>>
    [] OTHER -> <<>>

Contrast(turns, early, late, about) ==
  Drift(turns, late, Tone(turns, late) - Tone(turns, early), about)

Halves(turns, said, about) ==
  IF Len(said) < 3 THEN <<>>
  ELSE Contrast(turns, SubSeq(said, 1, Len(said) \div 2),
                SubSeq(said, Len(said) + 1 - Len(said) \div 2, Len(said)), about)

SentimentShift(turns, about) == Halves(turns, Pick(turns, 1, ByCustomer), about)

Escalates(findings, score, about) ==
  IF Band(score) \notin {"medium", "high"} \/ findings = <<>> THEN <<>>
  ELSE <<Risk("escalation_risk", Top(findings).label, Band(score), score,
              [k \in 1..Min({3, Len(findings)}) |-> findings[k].turn],
              NoPolicy, "threat", about)>>

EscalationFlag(turns, from, about) ==
  Escalates(EscalationFindings(turns, from), EscalationRisk(turns, from), about)

IntentFlag(turns, about) ==
  LET intent == ClassifyIntent(turns).primary
      turn == IntentEvidence(turns, intent)
  IN IF turn = 0 THEN <<>>
     ELSE <<Risk("intent", intent, "info", 70, <<turn>>, NoPolicy, "keywords", about)>>

ComplianceFlags(findings, already, base, top, why, about) ==
  LET fresh == Chosen(findings, {k \in DOMAIN findings : findings[k].policy \notin already})
  IN [k \in DOMAIN fresh |->
        Risk("compliance_violation", fresh[k].label, Severity(fresh[k].score),
             Min({top, base + (fresh[k].score * 35) \div 100}),
             <<fresh[k].turn>>, fresh[k].policy, why, about)]

AsCalls(risks) == [k \in DOMAIN risks |-> Flag(risks[k])]

FlagCalls(turns, required, already, about) ==
  First(12, AsCalls(
    ComplianceFlags(ComplianceFindings(turns, 1), already, 60, 95, "phrase", about)
      \o ComplianceFlags(MissingDisclosures(turns, required), already, 55, 90, "missing",
                         about)
      \o EscalationFlag(turns, 1, about)
      \o SentimentShift(turns, about)
      \o IntentFlag(turns, about)))

Escalators == {"supervisor_request", "supervisor_mention", "manager_mention"}

(* Mutant of Violations: the transcript is judged anew.                     *)
ViolationsAnew(turns, required, already) ==
  {f.policy : f \in ToSet(ComplianceFindings(turns, 1))}
    \union {f.policy : f \in ToSet(MissingDisclosures(turns, required))}

(* _summary_json, of the call of the context: its violations are those of   *)
(* the transcript and those that were reported already.                     *)
Violations(turns, required, already) ==
  already \union {f.policy : f \in ToSet(ComplianceFindings(turns, 1))}
          \union {f.policy : f \in ToSet(MissingDisclosures(turns, required))}

SummaryJson(turns, required, already, disclosed, about) ==
  LET intent == ClassifyIntent(turns)
      escalated == \E f \in ToSet(EscalationFindings(turns, 1)) : f.label \in Escalators
      resolution == ClassifyResolution(turns, escalated)
  IN [kind |-> "summary", about |-> about, intent |-> intent.primary,
      secondary |-> intent.secondary, resolution |-> resolution.status,
      escalated |-> escalated,
      violations |-> Violations(turns, required, already),
      disclosures |-> disclosed \union GivenDisclosures(turns, required),
      actions |-> ActionItems(turns), evidence |-> <<resolution.turn>>]
Done == [kind |-> "done", about |-> {}]

Closing(p, turns, required, already, disclosed, about) ==
  IF p = "live" THEN Done ELSE SummaryJson(turns, required, already, disclosed, about)

-----------------------------------------------------------------------------
(* The loop.                                                                *)

In(p, pc) == pass[p].pc = pc
Stop(p, end) == pass' = [pass EXCEPT ![p].pc = "stopped", ![p].end = end]

Begin(p, call, required) == pass' = [pass EXCEPT ![p] = Fresh(call, required)]

SetContext(p) ==
  /\ In(p, "ready")
  /\ IF provider = "offline"
     THEN /\ context' = [call |-> pass[p].call, required |-> pass[p].required]
          /\ flaggedYet' = FALSE
     ELSE UNCHANGED <<context, flaggedYet>>
  /\ pass' = [pass EXCEPT ![p].pc = "loop"]
  /\ UNCHANGED <<provider, callVars>>

StepsLeft(p) == pass[p].step < MaxSteps[p] + pass[p].repairs

Exhausted(p) ==
  /\ In(p, "loop") /\ ~StepsLeft(p)
  /\ Stop(p, "exhausted")
  /\ UNCHANGED <<provider, callVars, context, flaggedYet>>

(* The deadline passed while the provider or a tool was at work.            *)
OutOfTime(p) ==
  /\ In(p, "loop") /\ StepsLeft(p) /\ pass[p].step > 0
  /\ Stop(p, "late")
  /\ UNCHANGED <<provider, callVars, context, flaggedYet>>

Ask(p) ==
  /\ In(p, "loop") /\ StepsLeft(p)
  /\ pass' = [pass EXCEPT ![p].pc = "asking", ![p].step = @ + 1, ![p].attempt = 0]
  /\ UNCHANGED <<provider, callVars, context, flaggedYet>>

(* A completion: tool calls, an accepted text, a text to be repaired.       *)
Valid(p, content) == p = "post_call" => content.kind = "summary"

UseTools(p, calls) ==
  pass' = [pass EXCEPT ![p].pc = "tools", ![p].todo = calls, ![p].said = @ + 1]

Finish(p, content) ==
  IF ~Valid(p, content) /\ pass[p].repairs < MaxRepairs
  THEN pass' = [pass EXCEPT ![p].pc = "loop", ![p].repairs = @ + 1, ![p].said = @ + 1]
  ELSE pass' = [pass EXCEPT ![p].pc = "stopped", ![p].content = content,
                            ![p].end = IF Valid(p, content) THEN "complete" ELSE "invalid"]

Complete(p, calls, content) ==
  IF calls # <<>> THEN UseTools(p, calls) ELSE Finish(p, content)

(* The offline provider works from its context, whoever asks.               *)
Gather(p, turns) ==
  /\ pass[p].said = 0
  /\ \E calls \in {GatherCalls(turns, context.required)} :
       calls # <<>> /\ UseTools(p, calls)
  /\ UNCHANGED <<flaggedYet, given>>

RaiseFlags(p, c, turns) ==
  /\ given' = [given EXCEPT ![c] = @ \union GivenDisclosures(turns, context.required)]
  /\ \E calls \in {FlagCalls(turns, context.required, reported[c], {c})} :
       \E content \in {Closing(p, turns, context.required, reported[c], given'[c], {c})} :
         /\ flaggedYet' = (calls # <<>>)
         /\ Complete(p, calls, content)

Conclude(p, c, turns) ==
  /\ \E content \in {Closing(p, turns, context.required, reported[c], given[c], {c})} :
       Finish(p, content)
  /\ UNCHANGED <<flaggedYet, given>>

CompleteOffline(p) ==
  /\ In(p, "asking") /\ provider = "offline"
  /\ \E turns \in {transcript[context.call]} :
       \/ Gather(p, turns)
       \/ /\ pass[p].said > 0 \/ GatherCalls(turns, context.required) = <<>>
          /\ IF flaggedYet THEN Conclude(p, context.call, turns)
             ELSE RaiseFlags(p, context.call, turns)
  /\ UNCHANGED <<provider, transcript, reported, context>>

(* One post to Azure: an answer, a failure worth a retry, a refusal.        *)
CompleteAzure(p) ==
  /\ In(p, "asking") /\ provider = "azure"
  /\ \E answer \in Answers[p] : Complete(p, answer.calls, answer.content)
  /\ UNCHANGED <<provider, callVars, context, flaggedYet>>

(* Mutant of PostFails: when the retries are used up they begin again.      *)
PostFailsAgain(p) ==
  /\ In(p, "asking") /\ provider = "azure"
  /\ pass' = [pass EXCEPT ![p].attempt = IF @ < MaxRetries THEN @ + 1 ELSE 0]
  /\ UNCHANGED <<provider, callVars, context, flaggedYet>>

PostFails(p) ==
  /\ In(p, "asking") /\ provider = "azure"
  /\ IF pass[p].attempt < MaxRetries
     THEN pass' = [pass EXCEPT ![p].attempt = @ + 1]
     ELSE Stop(p, "transient")
  /\ UNCHANGED <<provider, callVars, context, flaggedYet>>

PostRefused(p) ==
  /\ In(p, "asking") /\ provider = "azure"
  /\ Stop(p, "permanent")
  /\ UNCHANGED <<provider, callVars, context, flaggedYet>>

InvokeTools(p) ==
  /\ In(p, "tools")
  /\ pass' = [pass EXCEPT ![p].pc = "loop", ![p].todo = <<>>,
                          ![p].flagged = @ \o Flagged(transcript[pass[p].call], pass[p].todo)]
  /\ UNCHANGED <<provider, callVars, context, flaggedYet>>

AgentStep(p) ==
  \/ SetContext(p) \/ Exhausted(p) \/ OutOfTime(p) \/ Ask(p)
  \/ CompleteOffline(p) \/ CompleteAzure(p) \/ PostFails(p) \/ PostRefused(p)
  \/ InvokeTools(p)
=============================================================================
