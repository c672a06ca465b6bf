------------------------------ MODULE MCXCopy -------------------------------
(* All pairs of alignments modulo a doubleword, and all sizes up to two      *)
(* unrolled doubleword passes with what can be left over around them.        *)
EXTENDS XCopy

MCAddresses == 8 .. 15
MCLengths == 1 .. 76
=============================================================================
