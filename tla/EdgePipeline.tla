----------------------------- MODULE EdgePipeline -----------------------------
(***************************************************************************)
(* The pipeline of the edge agent (services/edge-agent/edge_agent/         *)
(* pipeline.py): frames of audio go through the segmenter, an utterance    *)
(* through speech recognition, which is any text, and the text through the *)
(* redactor to the transport.  One thread does all of it, a frame at a     *)
(* time.  Speakers, times and numbers of segments are left out.            *)
(***************************************************************************)
EXTENDS Segmenter, Redactor

CONSTANT Hypotheses  (* texts that speech recognition may return            *)

ASSUME EdgePipelineAssumption == Hypotheses \subseteq Texts

VARIABLES
  running,  (* there is more audio                                          *)
  heard,    (* the hypothesis of this step                                  *)
  sent      (* what this step hands to the transport, <<>> for nothing      *)

vars == <<current, redactorVars, running, heard, sent>>

Segment(final, out, withheld) ==
  IF out = <<>> THEN <<>> ELSE <<[final |-> final, out |-> out, withheld |-> withheld]>>

(* With redactor.py:115, "Give up on a hold after this many segments":      *)
(* however fragments replace each other in the carry, none waits longer.    *)
TypeOK ==
  /\ SegmenterTypeOK
  /\ RedactorTypeOK
  /\ waited < MaxHold
  /\ running \in BOOLEAN
  /\ heard \in Texts
  /\ Len(sent) <= 1

Init ==
  /\ SegmenterInit
  /\ RedactorInit
  /\ running = TRUE
  /\ heard = <<>>
  /\ sent = <<>>

KeepFrame(voiced) ==
  /\ running
  /\ Keep(voiced)
  /\ heard' = <<>> /\ sent' = <<>>
  /\ UNCHANGED <<redactorVars, running>>

(* A partial is recognised, previewed and sent.                             *)
PartialFrame(voiced, text) ==
  /\ running
  /\ Partial(voiced)
  /\ heard' = text
  /\ sent' = IF text = <<>> THEN <<>> ELSE Segment(FALSE, Preview(text), 1..Len(carry))
  /\ UNCHANGED <<redactorVars, running>>

(* An utterance is closed, recognised, pushed and sent.                     *)
FinalFrame(voiced, text) ==
  /\ running
  /\ Close(voiced)
  /\ heard' = text
  /\ IF text = <<>> THEN sent' = <<>> /\ UNCHANGED redactorVars
     ELSE \E pass \in {Pushed(text)} :
            /\ sent' = Segment(TRUE, Released(pass),
                               1..Len(carry) \cup pass.at..(Len(carry) + Len(text)))
            /\ Push(text, pass)
  /\ UNCHANGED running

(* The audio ends.  An utterance that is open is not taken; what is held    *)
(* back goes out.                                                           *)
End ==
  /\ running
  /\ running' = FALSE
  /\ heard' = <<>>
  /\ sent' = IF carry = <<>> THEN <<>> ELSE Segment(TRUE, Flushed, 1..Len(carry))
  /\ Flush
  /\ UNCHANGED current

Frame ==
  \E voiced \in BOOLEAN :
    \/ KeepFrame(voiced)
    \/ \E text \in Hypotheses : PartialFrame(voiced, text) \/ FinalFrame(voiced, text)

Next == Frame \/ End

Spec == Init /\ [][Next]_vars

(* Audio keeps coming or ends.                                              *)
FairSpec == Spec /\ WF_vars(Next)

-----------------------------------------------------------------------------
(* Properties.                                                              *)

Atoms(out) == [i \in DOMAIN out |-> out[i].atom]

(* detectors.py:11-13, "no long digit run leaves the process", and 349-352, *)
(* nor a part of one: a run of nine digits or more in a segment is hidden   *)
(* to the last digit, wherever the texts it was spoken in began.            *)
LongRunsAreHidden ==
  \A k \in DOMAIN sent :
    \A run \in Runs(Atoms(sent[k].out)) :
      Len(run) >= UNCLAIMED_MIN => \A i \in DOMAIN run : sent[k].out[run[i]].hidden

(* redactor.py:380-381, "A hold that never resolves must not become a leak. *)
(* Flush it redacted rather than releasing it", and 313-316: a digit that   *)
(* was held back leaves behind a placeholder.                               *)
HeldDigitsLeaveHidden ==
  \A k \in DOMAIN sent : \A i \in sent[k].withheld \cap DOMAIN sent[k].out :
    sent[k].out[i].atom.is = "digit" => sent[k].out[i].hidden

(* redactor.py:319-320: ... unless a name was found among what was held     *)
(* back, which counts as a claim to all of it.                              *)
HeldDigitsLeaveHiddenOrNamed ==
  \A k \in DOMAIN sent :
    \/ \E i \in sent[k].withheld \cap DOMAIN sent[k].out : sent[k].out[i].atom.is = "name"
    \/ \A i \in sent[k].withheld \cap DOMAIN sent[k].out :
         sent[k].out[i].atom.is = "digit" => sent[k].out[i].hidden

(* A number leaves the machine hidden, in one segment or over several.      *)
NumbersLeaveHidden == LongRunsAreHidden /\ HeldDigitsLeaveHiddenOrNamed

(* pipeline.py:261-262, "never dropped", and redactor.py:338-403: each text *)
(* goes out or stays held, atom by atom, in order and once, whatever was    *)
(* held before it and wherever the hold is cut or expires.                  *)
NothingIsLostOrRepeated ==
  [][current # Nothing /\ current' = Nothing =>
       (IF sent' = <<>> THEN <<>> ELSE Atoms(sent'[1].out)) \o carry' = carry \o heard']_vars

(* redactor.py:283-287 and pipeline.py:301-306: what a partial shows of a   *)
(* text its final would show as well; nothing a final would hide or hold    *)
(* crosses the network before it.                                           *)
PartialShowsNoMore ==
  \A k \in DOMAIN sent : ~sent[k].final =>
    \E final \in {Released(Pushed(heard))} : \A i \in DOMAIN sent[k].out :
      sent[k].out[i].hidden \/ (i \in DOMAIN final /\ ~final[i].hidden)
=============================================================================
