------------------------------- MODULE MCDcs -------------------------------
(***************************************************************************)
(* Instances of module Dcs for TLC.                                        *)
(***************************************************************************)
EXTENDS Dcs, TLC

Others == Permutations(Inst \ {Master})
=============================================================================
