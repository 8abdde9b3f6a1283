-------------------------- MODULE MCBlockTerminators --------------------------
(***************************************************************************)
(* Three blocks besides the one modelled, two registers and an immediate,  *)
(* and words of two bits, the fewest that have a sign.                     *)
(***************************************************************************)
EXTENDS BlockTerminators, TLC

DistinctEdges == {e \in Blocks \X Blocks : e[1] # e[2]}
EqualEdges == {e \in Blocks \X Blocks : e[1] = e[2]}
=============================================================================
