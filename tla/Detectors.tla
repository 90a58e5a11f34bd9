------------------------------ MODULE Detectors ------------------------------
(***************************************************************************)
(* Detection of numbers in a transcript (services/edge-agent/edge_agent/   *)
(* redact/normalize.py, detectors.py), as operators.                       *)
(*                                                                         *)
(* A text is a sequence of atoms: a digit, however it was spoken; a stop   *)
(* (. ? ! that ends a sentence); a name, which the entity recogniser       *)
(* finds; a keyword of the context lists, one for each way the lists treat *)
(* it; any other word.  Positions are positions of atoms, so the distances *)
(* the code counts in characters are counted in atoms here.  Emails,       *)
(* addresses and the patterns that need punctuation inside a number are    *)
(* left out: they claim spans as names do.                                 *)
(*                                                                         *)
(* A detection is the span first..last it claims, with its type and the    *)
(* confidence in percent.                                                  *)
(***************************************************************************)
EXTENDS Integers, Sequences, FiniteSets, FiniteSetsExt, SequencesExt

CONSTANTS
  ContextWindow,  (* atoms on either side in which a keyword is looked for  *)
  MaxGapWords     (* words a number may have between two of its digits      *)

ASSUME DetectorsAssumption == ContextWindow \in Nat /\ MaxGapWords \in Nat

CONTEXT_WORDS ==
  [CARD |-> {"card", "charge"}, SSN |-> {"social"}, PHONE |-> {"phone"},
   DOB |-> {"birth"}, ACCOUNT |-> {"account"}]

IDENTIFIER_CONTEXT == {"card", "social", "phone", "account"}

TYPE_PRIORITY ==
  [CARD |-> 0, SSN |-> 1, DOB |-> 2, PHONE |-> 3, ACCOUNT |-> 4, PERSON |-> 6]

UNCLAIMED_MIN == 9
IDENTIFIER_MIN == 5

Digit(n) == [is |-> "digit", n |-> n]
Say(what) == [is |-> what, n |-> 0]

Kinds == {"digit", "stop", "name", "word"} \cup UNION {CONTEXT_WORDS[t] : t \in DOMAIN CONTEXT_WORDS}
Texts == Seq([is : Kinds, n : 0..9])

-----------------------------------------------------------------------------
(* The digit stream.                                                        *)

DigitsOf(text) == {i \in DOMAIN text : text[i].is = "digit"}

WordsBetween(text, i, j) ==
  Cardinality({k \in (i + 1)..(j - 1) : text[k].is \notin {"digit", "stop"}})

(* A digit with which a number cannot go on after the digit before it.      *)
Breaks(text) ==
  {b \in DigitsOf(text) :
     \E a \in DigitsOf(text) :
       /\ a < b /\ (a + 1)..(b - 1) \cap DigitsOf(text) = {}
       /\ \/ \E i \in a..b : text[i].is = "stop"
          \/ WordsBetween(text, a, b) > MaxGapWords}

(* A set of positions as a sequence.                                        *)
InOrder(S) ==
  [k \in 1..Cardinality(S) |-> CHOOSE i \in S : Cardinality({j \in S : j <= i}) = k]

(* The digits that none of the breaks separates from the one at i.          *)
Joined(text, breaks, i) == {j \in DigitsOf(text) : \A b \in breaks : b <= i <=> b <= j}

(* The runs between breaks, each as the sequence of its digits' positions.  *)
Runs(text) ==
  LET breaks == Breaks(text)
  IN  {InOrder(digits) : digits \in {Joined(text, breaks, i) : i \in DigitsOf(text)}}

LastRun(text) == InOrder(Joined(text, Breaks(text), Max(DigitsOf(text))))

(* Every second digit, counted from the right, doubled and cast out.        *)
LuhnValid(digits) ==
  LET Cast(d) == IF 2 * d > 9 THEN 2 * d - 9 ELSE 2 * d
      Term(i) == IF (i - 1) % 2 = Len(digits) % 2 THEN Cast(digits[i]) ELSE digits[i]
  IN  Len(digits) >= 12 /\ MapThenSumSet(Term, DOMAIN digits) % 10 = 0

-----------------------------------------------------------------------------
(* Classification of a digit run.                                           *)

Near(text, s, e, extra) ==
  {text[k].is : k \in ((s - ContextWindow)..(e + ContextWindow)) \cap DOMAIN text}
    \cup {extra[k].is : k \in DOMAIN extra}

HasContext(text, s, e, type, extra) == Near(text, s, e, extra) \cap CONTEXT_WORDS[type] # {}

IdentifierNearby(text, s, e, extra) == Near(text, s, e, extra) \cap IDENTIFIER_CONTEXT # {}

(* What could be claimed from the pos-th digit of a run on: sets of claims, *)
(* the rule that comes first first.                                         *)
Rules(text, extra, run, pos) ==
  LET avail == Len(run) - pos + 1
      Of(lengths) == lengths \cap 1..avail
      Value(n) == [k \in 1..n |-> text[run[pos + k - 1]].n]
      With(n, type) == HasContext(text, run[pos], run[pos + n - 1], type, extra)
      Claim(type, n, conf) == [type |-> type, start |-> pos, n |-> n, conf |-> conf]
  IN  << {Claim("CARD", n, 99) : n \in {m \in Of(13..19) : LuhnValid(Value(m))}},
         {Claim("CARD", n, 72) : n \in {m \in Of({15, 16}) : With(m, "CARD")}},
         {Claim("CARD", n, 45) : n \in Of({16})},
         {Claim("SSN", n, 90) : n \in {m \in Of({9}) : With(m, "SSN")}},
         {Claim("PHONE", n, IF With(n, "PHONE") THEN 90 ELSE 60) :
            n \in {m \in Of({10, 11}) : m = 11 => Value(m)[1] = 1}},
         {Claim("DOB", n, 80) : n \in {m \in Of({8}) : With(m, "DOB")}},
         {Claim("ACCOUNT", n, IF With(n, "ACCOUNT") THEN 85 ELSE 40) :
            n \in {Min({avail, 12})} \ 0..(UNCLAIMED_MIN - 1)},
         {Claim("ACCOUNT", n, 50) :
            n \in {m \in {avail} \ 0..(IDENTIFIER_MIN - 1) :
                     IdentifierNearby(text, run[pos], Last(run), extra)}} >>

Longest(claims) == {c \in claims : \A d \in claims : d.n <= c.n}

FirstThat(rules) ==
  {c \in UNION ToSet(rules) :
     \E k \in DOMAIN rules : c \in rules[k] /\ \A l \in 1..(k - 1) : rules[l] = {}}

(* The longest claim of the first rule that has one.                        *)
Classify(text, extra, run, pos) == Longest(FirstThat(Rules(text, extra, run, pos)))

OneOf(claims) == CHOOSE c \in claims : TRUE

(* The claims made on a run from left to right.                             *)
Scan(text, extra, run) ==
  LET from[pos \in 1..(Len(run) + 1)] ==
        IF pos > Len(run) THEN {}
        ELSE LET step(claims) == IF claims = {} THEN from[pos + 1]
                                 ELSE {OneOf(claims)} \cup from[pos + OneOf(claims).n]
             IN  step(Classify(text, extra, run, pos))
  IN  from[1]

(* ... widened to the digits of the run that nothing claimed.               *)
Absorb(run, found) ==
  LET from(c) == IF \E d \in found : d.start < c.start THEN c.start ELSE 1
      after(c) == {d.start : d \in {e \in found : e.start > c.start}}
      upto(c) == Min(after(c) \cup {Len(run) + 1}) - 1
      widened(c) == upto(c) - from(c) + 1 > c.n
  IN  {[type |-> c.type, first |-> run[from(c)], last |-> run[upto(c)],
        conf |-> IF widened(c) THEN Min({c.conf, 90}) ELSE c.conf] : c \in found}

RunDetections(text, extra, run) == Absorb(run, Scan(text, extra, run))

Names(text) ==
  {[type |-> "PERSON", first |-> i, last |-> i, conf |-> 75] :
     i \in {k \in DOMAIN text : text[k].is = "name"}}

Overlap(d, e) == d.first <= e.last /\ e.first <= d.last

(* The order of detections: by type, then longer, then surer, then left.    *)
Stronger(d, e) ==
  LET rank(x) == <<TYPE_PRIORITY[x.type], x.first - x.last, -x.conf, x.first>>
      before(r, s) == \E k \in 1..4 : r[k] < s[k] /\ \A l \in 1..(k - 1) : r[l] = s[l]
  IN  before(rank(d), rank(e))

(* Of detections that overlap the strongest is kept.                        *)
Resolve(detections) ==
  LET kept[d \in detections] == ~\E e \in detections : Stronger(e, d) /\ Overlap(d, e) /\ kept[e]
  IN  {d \in detections : kept[d]}

Detect(text, extra) ==
  Resolve(Names(text) \cup UNION {RunDetections(text, extra, run) : run \in Runs(text)})
=============================================================================
