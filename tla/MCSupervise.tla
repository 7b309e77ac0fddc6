----------------------------- MODULE MCSupervise -----------------------------
(***************************************************************************)
(* Three services for TLC: a plain Readier, a supervised service that may  *)
(* restart once, and a supervised one without a limit.                     *)
(***************************************************************************)
EXTENDS Supervise

MCReadiers == {1}
NoReadiers == {}

\* A plain service and a supervised one.
SecondSupervised == {2}
TwoAttempts == <<0, 1>>
MCSupervised == {2, 3}
MCMaxAttempts == <<0, 1, 0>>
=============================================================================
