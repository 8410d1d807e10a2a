------------------------------ MODULE MCConfMan ------------------------------
(* Configurations of different length, few inodes, one saver or two.       *)
EXTENDS ConfMan, TLC

CONSTANTS short, long, other

MCValues  == {short, long, other}
MCSize    == [v \in MCValues |-> IF v = long THEN 2 ELSE 1]
Symmetry  == Permutations(Inodes)
==============================================================================
