---------------------------- MODULE MCLiveAnalysis ----------------------------
(* Instances of LiveAnalysis for TLC: one call of six turns or two of up to *)
(* four, a catalogue with one policy of each kind, and a model that answers *)
(* rightly, with evidence that does not exist, with another spelling, with  *)
(* an unknown type, or with prose.                                          *)
EXTENDS LiveAnalysis

CONSTANTS a, b

MCCalls == {a, b}
MCCatalogue ==
  << [id |-> "REC", window |-> 2, intents |-> {}, weight |-> 80],
     [id |-> "MINI", window |-> 2, intents |-> {"collections"}, weight |-> 100],
     [id |-> "PROHIB", window |-> 0, intents |-> {}, weight |-> 80],
     [id |-> "CANCEL", window |-> 0, intents |-> {"plan_upgrade"}, weight |-> 55] >>
MCIntents == <<"plan_upgrade", "collections">>
MCSpelled == [rec |-> "REC"]
MCMaxSteps == [live |-> 3, post_call |-> 3]

Plain ==
  [words |-> <<>>, threats |-> <<>>, breaks |-> {}, meets |-> {},
   topics |-> [i \in ToSet(MCIntents) |-> 0], marks |-> {}, promises |-> {}]
Word(kind, weight) == [kind |-> kind, weight |-> weight]

Hello == Plain
Notice == [Plain EXCEPT !.meets = {"REC"}]
Debt == [Plain EXCEPT !.meets = {"MINI"}, !.promises = {"send a letter"}]
Promise == [Plain EXCEPT !.breaks = {"PROHIB"}, !.marks = {"resolved"}]
Overdue == [Plain EXCEPT !.topics["collections"] = 35]
Upgrade == [Plain EXCEPT !.topics["plan_upgrade"] = 35, !.words = <<Word("weighted", 50)>>]
Boss == [Plain EXCEPT !.threats = <<[label |-> "supervisor_request", weight |-> 90]>>,
                      !.words = <<Word("intensifier", 14), Word("weighted", -80)>>]
Leaving == [Plain EXCEPT !.threats = <<[label |-> "churn_threat", weight |-> 50]>>,
                         !.words = <<Word("negation", 0), Word("weighted", 60)>>]

By(call, speaker, texts) ==
  [k \in DOMAIN texts |-> [call |-> call, speaker |-> speaker[k], text |-> texts[k]]]
Alternate(call, texts) ==
  By(call, [k \in DOMAIN texts |-> IF k % 2 = 1 THEN "agent" ELSE "customer"], texts)

(* A call alone that is long, and two calls that are shorter.               *)
MCLongTopics ==
  { Alternate(a, <<Hello, Boss, Hello, Leaving, Notice, Upgrade>>),
    Alternate(a, <<Promise, Overdue, Debt, Leaving, Promise, Boss>>),
    Alternate(a, <<Notice, Upgrade, Debt, Upgrade, Promise, Boss>>) }
MCPairs ==
  { Alternate(b, <<Promise>>) \o Alternate(a, <<Hello, Boss, Hello, Leaving>>),
    Alternate(b, <<Notice>>) \o Alternate(a, <<Promise, Overdue, Debt, Leaving>>),
    Alternate(b, <<Hello, Overdue, Promise>>) \o Alternate(a, <<Notice, Upgrade>>) }
MCAzureTopics ==
  { Alternate(b, <<Promise>>) \o Alternate(a, <<Hello, Boss, Promise>>),
    Alternate(a, <<Hello, Boss, Promise, Overdue>>) }

MCOffline ==
  [provider : {"offline"}, agent : BOOLEAN, topic : MCLongTopics \union MCPairs]
MCScenarios ==
  MCOffline \union [provider : {"azure"}, agent : {TRUE}, topic : MCAzureTopics]

Cites(policy, turns, confidence) ==
  Flag(Risk("compliance_violation", "rule", "high", confidence, turns, policy, "model", {}))
UnknownType ==
  Flag(Risk("upsell", "offer", "low", 90, <<1>>, NoPolicy, "model", {}))
Answer(calls, kind) ==
  [calls |-> calls, content |-> [Unset EXCEPT !.kind = kind]]
ModelSummary ==
  [kind |-> "summary", about |-> {}, intent |-> "collections", secondary |-> {"collections"},
   resolution |-> "resolved", escalated |-> FALSE, violations |-> {"PROHIB", "OTHER"},
   disclosures |-> {}, actions |-> {[promise |-> "call", turn |-> 9]}, evidence |-> <<1, 9>>]
MCAnswers ==
  [live |-> { Answer(<<Cites("PROHIB", <<9>>, 80), Cites("rec", <<1, 9>>, 80),
                       Cites("PROHIB", <<1>>, 20), UnknownType>>, "none"),
              Answer(<<Cites("REC", <<2>>, 90)>>, "done") },
   post_call |-> { Answer(<<>>, "prose"),
                   [calls |-> <<>>, content |-> ModelSummary],
                   Answer(<<[tool |-> "search_transcript"]>>, "none") }]
=============================================================================
