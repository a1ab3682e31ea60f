---------------------------- MODULE MCActivation ----------------------------
(* Two runs and two models, each loaded once: a switch, an activation beside
   what is loaded that does not roll back, and an unload. *)
EXTENDS Activation

CONSTANTS r1, r2

MCRun == {r1, r2}
MCCopies == <<1, 1>>
MCRequests ==
  {[kind |-> "apply", target |-> 2, mode |-> "exclusive", rollback |-> "always"],
   [kind |-> "apply", target |-> 1, mode |-> "coexist", rollback |-> "disabled"],
   [kind |-> "unload"]}
=============================================================================
