---------------------------- MODULE MCSnapshots ----------------------------
(* Instances of Snapshots for TLC.  Names, images and pruners are          *)
(* interchangeable.                                                        *)
EXTENDS Snapshots, TLC

AnySymmetry == Permutations(Names) \cup Permutations(Images) \cup Permutations(Pruners)
============================================================================
