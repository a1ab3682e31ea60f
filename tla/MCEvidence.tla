----------------------------- MODULE MCEvidence -----------------------------
(* Two profiles, two configurations of one model, one batch. *)
EXTENDS Evidence, TLC

CONSTANTS p1, p2, c1, c2, k1

MCSavedId == [id \in {p1, p2} |-> p2]
MCKeyOf == [c \in {c1, c2} |-> k1]
MCBatch == {[ids |-> <<p1, p2>>, yes |-> TRUE]}
MCDecision == {<<"run", "run">>, <<"skip", "skip">>}
MCSymmetry == Permutations({c1, c2})
=============================================================================
