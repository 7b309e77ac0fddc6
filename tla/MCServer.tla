------------------------------ MODULE MCServer ------------------------------
(***************************************************************************)
(* The three services for TLC: two requests, one restart.                  *)
(***************************************************************************)
EXTENDS Server

AllKinds == {"http", "grpc", "gateway"}
=============================================================================
