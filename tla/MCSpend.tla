------------------------------ MODULE MCSpend ------------------------------
(* Small instances of Spend for TLC.                                        *)
EXTENDS Spend, TLC

\* Subagents differ in nothing but their name.
Symmetry == Permutations(Children)
=============================================================================
