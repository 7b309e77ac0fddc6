----------------------------- MODULE MCDrivers ------------------------------
(***************************************************************************)
(* The three drivers for TLC, over a host with one service.                *)
(***************************************************************************)
EXTENDS Drivers

AllDrivers == {"console", "scm", "test"}
=============================================================================
