------------------------------- MODULE Redactor -------------------------------
(***************************************************************************)
(* The streaming redactor (services/edge-agent/edge_agent/redact/          *)
(* redactor.py): every text pushed is joined to the fragment held back     *)
(* from the texts before, what was detected is hidden, and a number at the *)
(* end that may go on is held back again.                                  *)
(*                                                                         *)
(* What leaves is a sequence of marks: an atom and whether a placeholder   *)
(* stands for it.  Which placeholder the vault gives is left out.          *)
(***************************************************************************)
EXTENDS Detectors

CONSTANTS
  MaxHold,        (* max_hold_segments                                      *)
  ContextTail,    (* atoms of earlier texts that count as context           *)
  ReadbackWords,  (* more words than this end a number without context      *)
  GiveUpWords     (* ... and more than this end any number                  *)

ASSUME RedactorAssumption ==
  /\ MaxHold \in Nat \ {0} /\ ContextTail \in Nat
  /\ ReadbackWords \in Nat /\ GiveUpWords \in Nat

MAX_PII_DIGITS == 19
MIN_HOLD_DIGITS == 3

VARIABLES
  carry,        (* _carry                                                   *)
  carryAge,     (* _carry_age                                               *)
  contextTail,  (* _context_tail                                            *)
  waited        (* history: pushes the first atom of the carry has been in  *)

redactorVars == <<carry, carryAge, contextTail, waited>>

RedactorTypeOK ==
  /\ carry \in Texts
  /\ carryAge \in 0..(MaxHold - 1)
  /\ contextTail \in Texts /\ Len(contextTail) <= ContextTail
  /\ waited \in Nat

RedactorInit == carry = <<>> /\ carryAge = 0 /\ contextTail = <<>> /\ waited = 0

-----------------------------------------------------------------------------

(* len(trailing.split()): a stop counts only where it stands alone.         *)
WordsIn(trailing) ==
  Cardinality({i \in DOMAIN trailing : trailing[i].is # "stop" \/ i = 1})

(* The reader has gone on to something else.                                *)
Ended(trailing, known) ==
  \/ ~known /\ \E i \in DOMAIN trailing : trailing[i].is = "stop"
  \/ ~known /\ WordsIn(trailing) > ReadbackWords
  \/ WordsIn(trailing) > GiveUpWords

(* The last run of the text may be a part of a number.                      *)
MayGoOn(text, run, detections, extra, final) ==
  /\ \A d \in detections : ~(d.first <= run[1] /\ d.last >= Last(run) /\ d.conf >= 90)
  /\ Len(run) \in MIN_HOLD_DIGITS..(MAX_PII_DIGITS - 1)
  /\ final => ~Ended(SubSeq(text, Last(run) + 1, Len(text)),
                     IdentifierNearby(text, run[1], Last(run), extra))

(* Where the part of the text that must be withheld begins.                 *)
HoldPoint(text, detections, extra, final) ==
  LET from(run) == IF MayGoOn(text, run, detections, extra, final) THEN run[1]
                   ELSE Len(text) + 1
  IN  IF DigitsOf(text) = {} THEN Len(text) + 1 ELSE from(LastRun(text))

(* Mutant of Protect: a fragment nothing completed is let go.               *)
ProtectNothing(text, n, detections) == detections

(* A held fragment of n atoms that nothing in it claims is claimed.         *)
Protect(text, n, detections) ==
  LET digits == DigitsOf(text) \cap 1..n IN
  IF (\E d \in detections : d.first <= n) \/ Cardinality(digits) < MIN_HOLD_DIGITS
  THEN detections
  ELSE Resolve(detections \cup {[type |-> "ACCOUNT", first |-> Min(digits),
                                 last |-> Max(digits), conf |-> 50]})

Redact(text, detections) ==
  [i \in DOMAIN text |->
     [atom |-> text[i], hidden |-> \E d \in detections : i \in d.first..d.last]]

Cut(text, detections, at) ==
  [out |-> Redact(SubSeq(text, 1, at - 1), {d \in detections : d.last < at}),
   held |-> SubSeq(text, at, Len(text)),
   at |-> at]

Divide(text, detections, extra, final) ==
  Cut(text, detections, HoldPoint(text, detections, extra, final))

(* What may leave when `text` is pushed, and what may not.                  *)
Pass(text, extra, final) ==
  LET combined == carry \o text IN
  Divide(combined, Protect(combined, Len(carry), Detect(combined, extra)), extra, final)

RedactCarry(fragment) ==
  Redact(fragment, Protect(fragment, Len(fragment), Detect(fragment, contextTail)))

Tailed(text) ==
  LET known == contextTail \o text IN
  SubSeq(known, Max({1, Len(known) - ContextTail + 1}), Len(known))

(* Mutant of Preview: the scratch redactor starts without the context.      *)
PreviewBare(text) == Pass(text, <<>>, FALSE).out

(* push(text, is_final=False): a preview changes nothing.                   *)
Preview(text) == Pass(text, contextTail, FALSE).out

(* push(text): what comes of it before the age of the hold is looked at.    *)
Pushed(text) == Pass(text, contextTail, TRUE)

(* Mutant of Age: it starts again with a longer fragment.                   *)
AgeOfFragment(held) ==
  IF held = <<>> THEN 0 ELSE IF Len(held) > Len(carry) THEN 1 ELSE carryAge + 1

Age(held) == IF held = <<>> THEN 0 ELSE carryAge + 1

(* Mutant of Released: what is held too long is dropped.                    *)
ReleasedLess(pass) == pass.out

(* What push returns: a hold that is too old ends.                          *)
Released(pass) ==
  IF Age(pass.held) >= MaxHold THEN pass.out \o RedactCarry(pass.held) ELSE pass.out

Push(text, pass) ==
  LET expired == Age(pass.held) >= MaxHold
  IN  /\ carry' = IF expired THEN <<>> ELSE pass.held
      /\ carryAge' = IF expired THEN 0 ELSE Age(pass.held)
      /\ contextTail' = Tailed(text)
      /\ waited' = IF carry' = <<>> THEN 0
                   ELSE IF pass.at <= Len(carry) THEN waited + 1 ELSE 1

Flushed == RedactCarry(carry)

Flush ==
  /\ carry' = <<>>
  /\ carryAge' = 0
  /\ waited' = 0
  /\ UNCHANGED contextTail
=============================================================================
