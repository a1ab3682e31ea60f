------------------------------- MODULE MCTray -------------------------------
(* One profile; a task of the tray may stand still while two others run. *)
EXTENDS Tray, TLC

CONSTANTS p1, m1

MCProfile == {p1}
MCHostLine == {[kind |-> "none"]}
MCModelOf == [p \in MCProfile |-> m1]
=============================================================================
