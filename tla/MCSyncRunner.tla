---------------------------- MODULE MCSyncRunner ----------------------------
(* Instances of SyncRunner for TLC.                                        *)
EXTENDS SyncRunner, TLC

RunSymmetry == Permutations(Runs)
=============================================================================
