---------------------------- MODULE MCResilience ----------------------------
(* Small instances of Resilience for TLC.                                  *)
EXTENDS Resilience
=============================================================================
