---------------------------- MODULE MCTollaServer ----------------------------
(***************************************************************************)
(* TollaServer for TLC: users come and go, and calls fail half-way.        *)
(***************************************************************************)
EXTENDS TollaServer
=============================================================================
