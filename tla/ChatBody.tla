------------------------------ MODULE ChatBody ------------------------------
(***************************************************************************)
(* What the proxy makes of a chat request (core-service/src/proxy.ts): the *)
(* checks of parseChatCompletionsRequest in their order, the body it sends *)
(* upstream, and the one answer it collects from a stream.                 *)
(*                                                                         *)
(* A generation is a function from fields to a value, Null (clear the      *)
(* field) or Absent (leave it); a body's parameters are a function from    *)
(* fields to a value or Absent.                                            *)
(***************************************************************************)
EXTENDS Integers, Sequences, SequencesExt

CONSTANTS
  Field,         \* INJECTION_FIELDS
  Null, Absent,
  MaxMessages    \* MAX_MESSAGES

(* The answer to a malformed body.  Unsupported capabilities are looked for
   before the structure, so that a client learns that they are unsupported. *)
parseChatCompletionsRequest(value) ==
  IF ~value.isRecord THEN "INVALID_REQUEST"
  ELSE IF value.asksTools THEN "UNSUPPORTED_CAPABILITY"
  ELSE IF value.model = Absent \/ Len(value.messages) \notin 1 .. MaxMessages
          \/ \E i \in DOMAIN value.messages : ~value.messages[i].wellFormed
       THEN "INVALID_REQUEST"
  ELSE "ok"

-----------------------------------------------------------------------------
(* The last system message takes the prompt; without one it goes first. *)
applySystemPrompt(messages, prompt) ==
  LET systems == {i \in DOMAIN messages : messages[i].role = "system"}
  IN  IF systems = {} THEN <<[role |-> "system", content |-> prompt]>> \o messages
      ELSE LET last == CHOOSE i \in systems : \A j \in systems : j <= i
           IN  [messages EXCEPT ![last].content = prompt]

override(params, values) ==
  [f \in Field |-> CASE values[f] = Absent -> params[f]
                     [] values[f] = Null   -> Absent
                     [] OTHER              -> values[f]]

applyGenerationToBody(body, generation) ==
  [params   |-> override(body.params, generation.values),
   messages |-> IF generation.systemPrompt \in {Null, Absent} THEN body.messages
                ELSE applySystemPrompt(body.messages, generation.systemPrompt)]

(* The profile's generation, then the alias's, then the client's own values. *)
upstreamBody(profile, alias, request) ==
  LET start    == [params |-> [f \in Field |-> Absent], messages |-> request.messages]
      injected == applyGenerationToBody(applyGenerationToBody(start, profile), alias)
  IN  [injected EXCEPT !.params = override(@, request.sampling)]

-----------------------------------------------------------------------------
(* The chunks of a stream as one answer: all of the text, the last finish
   reason and the last usage that were sent. *)
lastOf(chunks, Member(_)) ==
  LET sent == SelectSeq(chunks, LAMBDA c : Member(c) # Absent)
  IN  IF sent = <<>> THEN Absent ELSE Member(Last(sent))

nonStreamBody(chunks) ==
  [content      |-> FlattenSeq([i \in DOMAIN chunks |-> chunks[i].delta]),
   finishReason |-> lastOf(chunks, LAMBDA c : c.finishReason),
   usage        |-> lastOf(chunks, LAMBDA c : c.usage)]
=============================================================================
