----------------------------- MODULE RemoteCall -----------------------------
(***************************************************************************)
(* What the desktop may rely on when it calls a method of the sidecar: the *)
(* method runs at most once, the caller is answered exactly once, and an   *)
(* answer other than an error is the result of that very call, which ran.  *)
(* An error says nothing: the method may have run, or may still run.       *)
(***************************************************************************)
EXTENDS Naturals

CONSTANTS Call, NoAnswer, Error

VARIABLES
  asked,   \* calls made so far
  ran,     \* how often the method of a call has started
  answer   \* what a caller got: NoAnswer, Error or the result of a call

vars == <<asked, ran, answer>>

Init ==
  /\ asked = {}
  /\ ran = [c \in Call |-> 0]
  /\ answer = [c \in Call |-> NoAnswer]

Ask(c) ==
  /\ c \notin asked
  /\ asked' = asked \cup {c}
  /\ UNCHANGED <<ran, answer>>

Run(c) ==
  /\ c \in asked /\ ran[c] = 0
  /\ ran' = [ran EXCEPT ![c] = 1]
  /\ UNCHANGED <<asked, answer>>

Open(c) == c \in asked /\ answer[c] = NoAnswer

(* A process that ends fails every call it owes an answer in one step. *)
Fail ==
  /\ \E calls \in SUBSET {c \in Call : Open(c)} :
       answer' = [c \in Call |-> IF c \in calls THEN Error ELSE answer[c]]
  /\ UNCHANGED <<asked, ran>>

Return(c) ==
  /\ Open(c) /\ ran[c] = 1
  /\ answer' = [answer EXCEPT ![c] = c]
  /\ UNCHANGED <<asked, ran>>

Next == Fail \/ \E c \in Call : Ask(c) \/ Run(c) \/ Return(c)

Spec == Init /\ [][Next]_vars /\ \A c \in Call : (Open(c) ~> ~Open(c))
=============================================================================
