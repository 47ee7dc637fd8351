---------------------------- MODULE MCAnalysis ----------------------------
(* Instances of Analysis for TLC: three shots, the first two of them spoken. *)
EXTENDS Analysis

FirstTwo == {1, 2}
===========================================================================
