--------------------------- MODULE MCClientOutbox ---------------------------
(* Instances of ClientOutbox for TLC.                                      *)
EXTENDS ClientOutbox, TLC

TabSymmetry == Permutations(Tabs)
=============================================================================
