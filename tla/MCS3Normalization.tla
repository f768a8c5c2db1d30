-------------------------- MODULE MCS3Normalization --------------------------
EXTENDS S3Normalization, TLC

(* A folder marker and a file before the normalized keys 3, 4 and 5;       *)
(* behind them a file of the same name in another directory, and one that  *)
(* does not parse as its format.                                           *)
MCRawKeys == {1, 2, 6, 7}
MCStem == [k \in MCRawKeys |-> IF k = 1 THEN 3 ELSE IF k = 7 THEN 5 ELSE 4]
MCFolders == {1}
MCUnreadable == {7}

(* Jobs differ in nothing, and only safety is checked.                     *)
JobSymmetry == Permutations(Jobs)
=============================================================================
