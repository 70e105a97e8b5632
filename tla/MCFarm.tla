------------------------------- MODULE MCFarm -------------------------------
(* Small instances of Farm for TLC.                                        *)
EXTENDS Farm, TLC

CONSTANTS d1, d2, d3, d4, f1, f2, lA, lB, x1

Interchangeable == Permutations({d1, d2, d3, d4}) \cup Permutations({f1, f2})
                     \cup Permutations({lA, lB})
NoWindow == {}
=============================================================================
