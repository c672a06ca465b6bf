----------------------------- MODULE MCXControl -----------------------------
(* A device of two rows and three columns and two external segments.        *)
EXTENDS XControl, TLC

SmallOrigins == {-1, 0, 1}
SmallSizes == (0 :> 4) @@ (1 :> 2)
ControlSymmetry == Permutations(Controls)
=============================================================================
