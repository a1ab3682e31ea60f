---------------------------- MODULE MCBenchmark ----------------------------
(* Two processes, two models of which the second may have two instances. *)
EXTENDS Benchmark, TLC

CONSTANTS b1, b2

MCBench == {b1, b2}
MCCopies == <<1, 2>>
MCSymmetry == Permutations(MCBench)
=============================================================================
