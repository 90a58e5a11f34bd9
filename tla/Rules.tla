-------------------------------- MODULE Rules --------------------------------
(***************************************************************************)
(* The deterministic analysis of a transcript (services/worker/worker/     *)
(* analysis/rules.py), which the fast path of the live analysis and the    *)
(* offline provider are built from.  A text is what the patterns and       *)
(* lexicons find in it: words with a weight, threats of the customer,      *)
(* policies whose prohibited phrase (breaks) or satisfying phrase (meets)  *)
(* it contains, topics, closing marks and promises.  Scores are integers   *)
(* in percent; a quote is the number of its turn.                          *)
(***************************************************************************)
EXTENDS Integers, Sequences, FiniteSets, SequencesExt

CONSTANTS
  Catalogue,  (* the policies in the order of the catalogue                 *)
  Intents     (* the intents in the order of INTENT_KEYWORDS                *)

ASSUME RulesAssumption ==
  /\ Catalogue \in Seq(ToSet(Catalogue))
  /\ \A policy \in ToSet(Catalogue) : policy.weight \in Nat /\ policy.window \in Nat
  /\ \A j, k \in DOMAIN Catalogue : Catalogue[j].id = Catalogue[k].id => j = k

General == "general_inquiry"
Speakers == {"agent", "customer", "unknown"}
PolicyIds == {Catalogue[k].id : k \in DOMAIN Catalogue}
PolicyOf(id) == CHOOSE p \in ToSet(Catalogue) : p.id = id

(* The elements of s at the indices "which", in their order: the k-th is at *)
(* the index that has k - 1 of the others before it.                        *)
Chosen(s, which) ==
  [k \in 1..Cardinality(which) |->
     s[CHOOSE i \in which : Cardinality({j \in which : j < i}) = k - 1]]

(* Numbers of the turns from "from" on that S holds of.                     *)
Pick(turns, from, S(_)) ==
  Chosen([i \in 1..Len(turns) |-> i], {i \in from..Len(turns) : S(turns[i])})
ByAgent(turn) == turn.speaker = "agent"
ByCustomer(turn) == turn.speaker = "customer"

-----------------------------------------------------------------------------
(* Sentiment: weighted words, flipped after a negation, scaled after an     *)
(* intensifier (times, in tenths), averaged and squashed.                   *)

NegationWindow == 3
Neutral == [score |-> 0, hits |-> 0, at |-> 0, flipped |-> 0, times |-> 10]

Weigh(so, word) ==
  LET here == so.at + 1
      value == word.weight * so.times
  IN CASE word.kind = "negation"    ->
            [so EXCEPT !.at = here, !.flipped = here + NegationWindow]
       [] word.kind = "intensifier" -> [so EXCEPT !.at = here, !.times = word.weight]
       [] word.kind = "plain"       -> [so EXCEPT !.at = here]
       [] word.kind = "phrase"      ->
            [so EXCEPT !.score = @ + word.weight * 10, !.hits = @ + 1]
       [] word.kind = "weighted"    ->
            [so EXCEPT !.score = @ + (IF here <= so.flipped
                                      THEN -((value * 8) \div 10) ELSE value),
                       !.hits = @ + 1, !.at = here, !.times = 10]

Sentiment(words) ==
  LET sum == FoldLeft(Weigh, Neutral, words)
  IN IF sum.hits = 0 THEN 0
     ELSE Max({-100, Min({100, (sum.score * 135) \div (sum.hits * 1000)})})

Tone(turns, numbers) ==
  FoldLeft(LAMBDA sum, i : sum + Sentiment(turns[i].text.words), 0, numbers)

-----------------------------------------------------------------------------
(* Escalation: what the customer says, moderated by the recent tone.        *)

Finding(label, score, turn, policy) ==
  [label |-> label, score |-> score, turn |-> turn, policy |-> policy]
NoPolicy == "none"

Threats(turn, i) ==
  IF ByAgent(turn) THEN <<>>
  ELSE [j \in DOMAIN turn.text.threats |->
          Finding(turn.text.threats[j].label, turn.text.threats[j].weight, i, NoPolicy)]

EscalationFindings(turns, from) ==
  FlattenSeq([k \in 1..(Len(turns) + 1 - from) |-> Threats(turns[from + k - 1], from + k - 1)])

(* Python's max: the first of the greatest.                                 *)
Top(findings) ==
  findings[CHOOSE k \in DOMAIN findings :
    \A j \in DOMAIN findings :
      /\ findings[j].score <= findings[k].score
      /\ j < k => findings[j].score < findings[k].score]

Recent(numbers) == SubSeq(numbers, Max({1, Len(numbers) - 2}), Len(numbers))

Moderated(peak, total, n) ==
  IF n > 0 /\ total < -40 * n THEN Max({peak, 45 + Min({30, (-total) \div n - 40})})
  ELSE IF n > 0 /\ total > 25 * n THEN (peak * 55) \div 100
  ELSE peak

Band(score) ==
  IF score >= 75 THEN "high" ELSE IF score >= 45 THEN "medium"
  ELSE IF score >= 20 THEN "low" ELSE "none"

ScoreOf(turns, findings, recent) ==
  Min({100, Moderated(Max({0} \union {f.score : f \in ToSet(findings)}),
                      Tone(turns, recent), Len(recent))})

EscalationRisk(turns, from) ==
  ScoreOf(turns, EscalationFindings(turns, from), Recent(Pick(turns, from, ByCustomer)))

-----------------------------------------------------------------------------
(* Compliance: the first turn of an agent that breaks each policy, and the  *)
(* disclosures that are given or missing among the turns where they belong. *)

ComplianceFindings(turns, from) ==
  LET culprits(p) == Pick(turns, from, LAMBDA t : ByAgent(t) /\ p.id \in t.text.breaks)
      broken == Chosen(Catalogue, {k \in DOMAIN Catalogue : culprits(Catalogue[k]) # <<>>})
  IN [k \in DOMAIN broken |->
        Finding(broken[k].id, broken[k].weight, culprits(broken[k])[1], broken[k].id)]

(* _window_for: the first so many turns of the agent, or all of them.       *)
DisclosureTurns(turns, policy) ==
  LET said == Pick(turns, 1, ByAgent)
  IN IF policy.window = 0 THEN said ELSE SubSeq(said, 1, Min({policy.window, Len(said)}))

Discloses(turns, policy) ==
  \E i \in ToSet(DisclosureTurns(turns, policy)) : policy.id \in turns[i].text.meets

GivenDisclosures(turns, required) ==
  {id \in required \intersect PolicyIds : Discloses(turns, PolicyOf(id))}

MissingDisclosures(turns, required) ==
  LET absent == Chosen(Catalogue, {k \in DOMAIN Catalogue :
                  /\ Catalogue[k].id \in required
                  /\ DisclosureTurns(turns, Catalogue[k]) # <<>>
                  /\ ~Discloses(turns, Catalogue[k])})
  IN [k \in DOMAIN absent |->
        Finding(absent[k].id, absent[k].weight, DisclosureTurns(turns, absent[k])[1],
                absent[k].id)]

-----------------------------------------------------------------------------
(* Intent: keywords, heavier from the customer and early in the call.       *)

Voice(turn) == IF ByCustomer(turn) THEN 100 ELSE 45

IntentScore(turns, intent) ==
  FoldLeft(LAMBDA sum, i : sum + turns[i].text.topics[intent] * Voice(turns[i])
                                   * (2 * Len(turns) + 1 - i),
           0, [i \in 1..Len(turns) |-> i])

ClassifyIntent(turns) ==
  LET score == [k \in DOMAIN Intents |-> IntentScore(turns, Intents[k])]
      ahead(k) == {j \in DOMAIN score : score[j] > score[k] \/ (score[j] = score[k] /\ j < k)}
      first == CHOOSE k \in DOMAIN score : ahead(k) = {}
  IN IF score[first] <= 0 THEN [primary |-> General, secondary |-> {}]
     ELSE [primary |-> Intents[first],
           secondary |-> {Intents[k] : k \in {j \in DOMAIN score :
                            /\ Cardinality(ahead(j)) \in 1..3
                            /\ score[j] * 100 >= score[first] * 45}}]

(* The turn that supports the intent best, the first of equals; 0 for none. *)
IntentEvidence(turns, intent) ==
  LET weight(i) == turns[i].text.topics[intent] * Voice(turns[i])
      named == {i \in 1..Len(turns) : weight(i) > 0}
  IN IF intent \notin ToSet(Intents) \/ named = {} THEN 0
     ELSE CHOOSE i \in named :
            \A j \in named : weight(j) < weight(i) \/ (weight(j) = weight(i) /\ i <= j)

-----------------------------------------------------------------------------
(* Resolution and promises, for the summary.                                *)

LastMarked(turns, from, mark) ==
  Max({0} \union {i \in Max({1, from})..Len(turns) : mark \in turns[i].text.marks})

ClassifyResolution(turns, escalated) ==
  LET tail == Len(turns) - 4
      followed == LastMarked(turns, tail, "followup")
      settled == LastMarked(turns, tail, "resolved")
      orLast(i) == IF i = 0 THEN Len(turns) ELSE i
  IN IF escalated
     THEN [status |-> "escalated", turn |-> orLast(LastMarked(turns, 1, "escalated"))]
     ELSE IF followed > 0 THEN [status |-> "follow_up_required", turn |-> followed]
     ELSE IF settled > 0 THEN [status |-> "resolved", turn |-> settled]
     ELSE [status |-> "unresolved", turn |-> Len(turns)]

(* Every promise once, at the turn that made it first.                      *)
ActionItems(turns) ==
  LET said == {i \in 1..Len(turns) : ByAgent(turns[i])}
  IN {[promise |-> w, turn |-> Min({i \in said : w \in turns[i].text.promises})] :
        w \in UNION {turns[i].text.promises : i \in said}}
=============================================================================
