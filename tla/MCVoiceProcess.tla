--------------------------- MODULE MCVoiceProcess ---------------------------
(* Instances of VoiceProcess for TLC.                                      *)
EXTENDS VoiceProcess

CONSTANTS s1, s2, nil

TwoStreams == {s1, s2}
=============================================================================
