------------------------------ MODULE MCWindow ------------------------------
(* Two profiles; a slot may have one call under way besides the newest. *)
EXTENDS Window, TLC
CONSTANTS p1, p2
MCProfile == {p1, p2}
MCSymmetry == Permutations(MCProfile)
=============================================================================
