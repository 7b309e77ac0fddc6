------------------------------ MODULE MCSingle ------------------------------
(***************************************************************************)
(* Three processes on either system, and a file for each to have open.     *)
(***************************************************************************)
EXTENDS Single

AllSystems == {"unix", "windows"}
=============================================================================
