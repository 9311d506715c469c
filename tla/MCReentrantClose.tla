-------------------------- MODULE MCReentrantClose --------------------------
(* A small instance of ReentrantClose for TLC.                             *)
EXTENDS ReentrantClose
=============================================================================
