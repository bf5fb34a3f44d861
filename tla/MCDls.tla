------------------------------- MODULE MCDls -------------------------------
(***************************************************************************)
(* Instances of module Dls for TLC.                                        *)
(***************************************************************************)
EXTENDS Dls, TLC

CONSTANTS a, b, c

PairSess == {<<a, 1>>, <<a, 2>>, <<b, 1>>}
TrioSess == {<<a, 1>>, <<b, 1>>, <<b, 2>>, <<c, 1>>}
TrioSess3 == {<<a, 1>>, <<b, 1>>, <<c, 1>>}
SlowB == {<<b, 1>>}
PairSess4 == {<<a, 1>>, <<a, 2>>, <<b, 1>>, <<b, 2>>}
=============================================================================
