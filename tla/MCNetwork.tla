------------------------------ MODULE MCNetwork ------------------------------
(***************************************************************************)
(* Network for TLC, with the paths of MCSphinx.                            *)
(***************************************************************************)
EXTENDS Network, MCSphinx
=============================================================================
