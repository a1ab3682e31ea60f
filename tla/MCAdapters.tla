----------------------------- MODULE MCAdapters -----------------------------
(* Two calls of any kind at a time, a probe that lives for two ticks, and
   transports that answer within one. *)
EXTENDS Adapters

MCClients == {"window", "tray"}
=============================================================================
