---------------------------- MODULE MCSpeechPipeline ----------------------------
(* Instances of SpeechPipeline for TLC.                                    *)
EXTENDS SpeechPipeline

CONSTANTS s1, s2, u1, u2

TwoStreams    == {s1, s2}
TwoUtterances == {u1, u2}
=============================================================================
