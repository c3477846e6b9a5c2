--------------------------- MODULE MCVoicePlayer ---------------------------
(* Model checking VoicePlayer: the first note ends within a buffer, the     *)
(* second with one, and a buffer of the second may begin where the first has *)
(* long ended.                                                             *)
EXTENDS VoicePlayer

Lengths == <<1, 4>>
=============================================================================
