----------------------------- MODULE MCRestart -----------------------------
(***************************************************************************)
(* An instance of KinisiRestart for TLC.  The earlier life streamed the    *)
(* encoder that the new one subscribes to, or one that it never names.     *)
(***************************************************************************)
EXTENDS KinisiRestart, MCSystem

OtherEncoder == [LegacyEncoder EXCEPT !.source = 1]
RestartRequests == {Encoder, LegacyEncoder}
EarlierLives == {Encoder, OtherEncoder}
=============================================================================
