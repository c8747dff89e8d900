---------------------------- MODULE MCTrampoline ----------------------------
(* Trampoline with every combination of set and unset parameters, of the   *)
(* limits just reached and just passed, with and without debug output.     *)
EXTENDS Trampoline

\* 24 is the first address that is not mapped as it is.
MCBases == {0, 2, 24}
MCTops == {0, 1, 3, 5, 6, 26}
MCSources == {0, 501}
MCLengths == {0, 8, 9}
MCLinuxSelectors == {16, 32}
=============================================================================
