------------------------------ MODULE Segmenter ------------------------------
(***************************************************************************)
(* The voice-activity segmenter (services/edge-agent/edge_agent/audio.py). *)
(* A frame is voiced or not; times are counted in frames.                  *)
(***************************************************************************)
EXTENDS Integers

CONSTANTS
  SilenceFrames,  (* silence_ms: silence that ends an utterance             *)
  PartialFrames,  (* partial_interval_ms                                    *)
  MaxFrames       (* max_utterance_ms                                       *)

ASSUME SegmenterAssumption == {SilenceFrames, PartialFrames, MaxFrames} \subseteq Nat \ {0}

MinSpeech == 3

VARIABLE
  current   (* counters of the open utterance: its frames, those voiced,    *)
            (* the silence it ends with, frames since the last partial      *)

Nothing == [frames |-> 0, speech |-> 0, silence |-> 0, since |-> 0]

SegmenterTypeOK == current \in [{"frames", "speech", "silence", "since"} -> 0..MaxFrames]

SegmenterInit == current = Nothing

(* The utterance with one more frame.  Silence does not open one.           *)
Heard(voiced) ==
  IF current = Nothing /\ ~voiced THEN Nothing
  ELSE [frames |-> current.frames + 1,
        speech |-> current.speech + (IF voiced THEN 1 ELSE 0),
        silence |-> IF voiced THEN 0 ELSE current.silence + 1,
        since |-> current.since + 1]

Closes(u) ==
  \/ u.silence >= SilenceFrames /\ u.speech >= MinSpeech
  \/ u.frames >= MaxFrames

DueForPartial(u) == u.since >= PartialFrames /\ u.speech >= MinSpeech

Keep(voiced) ==
  /\ ~Closes(Heard(voiced))
  /\ ~DueForPartial(Heard(voiced))
  /\ current' = Heard(voiced)

Partial(voiced) ==
  /\ ~Closes(Heard(voiced))
  /\ DueForPartial(Heard(voiced))
  /\ current' = [Heard(voiced) EXCEPT !.since = 0]

(* push and take.                                                           *)
Close(voiced) ==
  /\ Closes(Heard(voiced))
  /\ current' = Nothing
=============================================================================
