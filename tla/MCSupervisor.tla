---------------------------- MODULE MCSupervisor ----------------------------
(* Two calls and a channel of one place: a full channel, two calls in one
   child and a cancel behind a call all happen. *)
EXTENDS Supervisor
=============================================================================
