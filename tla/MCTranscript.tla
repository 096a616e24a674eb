----------------------------- MODULE MCTranscript -----------------------------
(* The two parts side by side: a behaviour takes a file through Wav or the   *)
(* turns of a recording through Speakers.                                    *)
EXTENDS Wav, Speakers, TLC

Init ==
    /\ WavIdle /\ SpeakersIdle

Next ==
    \/ stage = "waiting" /\ WavNext /\ UNCHANGED speakersVars
    \/ step = "none" /\ SpeakersNext /\ UNCHANGED wavVars

Spec == Init /\ [][Next]_<<wavVars, speakersVars>>

LabelSymmetry == Permutations(Labels)
=============================================================================
