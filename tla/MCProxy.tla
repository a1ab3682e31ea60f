------------------------------ MODULE MCProxy ------------------------------
(* One virtual model, one session, two profiles with a model each, and alias
   documents that differ in what the proxy looks at. *)
EXTENDS Proxy, TLC

CONSTANTS v, p1, p2, m1, m2

MCModelOf == p1 :> m1 @@ p2 :> m2

Alias(p) == [id |-> "a", virtualModel |-> v, profileId |-> p, modelKey |-> NoModel,
             enabled |-> TRUE, activate |-> FALSE, lockSession |-> TRUE]
Doc(aliases) == [enabled |-> TRUE, sessionLock |-> TRUE, ttl |-> 2, aliases |-> aliases]

MCDocument ==
  {Doc(<<Alias(p1)>>),
   [Doc(<<[Alias(p2) EXCEPT !.activate = TRUE]>>) EXCEPT !.ttl = 1],
   Doc(<<[Alias(p1) EXCEPT !.enabled = FALSE],
         [Alias(p1) EXCEPT !.lockSession = FALSE, !.activate = TRUE, !.modelKey = m2]>>),
   [Doc(<<Alias(p2)>>) EXCEPT !.enabled = FALSE]}

(* The alias is mapped anew, to a model of its own (for SessionKeepsModel). *)
MCRemapped == {Doc(<<Alias(p1)>>), Doc(<<[Alias(p1) EXCEPT !.modelKey = m2]>>)}
=============================================================================
