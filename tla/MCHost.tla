------------------------------- MODULE MCHost -------------------------------
(***************************************************************************)
(* Instances of Host for TLC.                                              *)
(***************************************************************************)
EXTENDS Host

\* A supervised Readier that may restart once, then a plain service.
TwoReadiers == {1}
TwoSupervised == {1}
TwoMaxAttempts == <<1, 0>>

\* A service that restarts for ever.
FirstSupervised == {1}
Unlimited == <<0, 0>>

None == {}
OneMaxAttempts == <<0>>
=============================================================================
