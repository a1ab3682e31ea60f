------------------------------- MODULE Transport -------------------------------
(***************************************************************************)
(* The sidecar's end of its channels, one event at a time                  *)
(* (core-service protocol.ts, transports/http-rpc.ts).  A line channel     *)
(* (stdio, or a connection of the pipe) has one peer, that shows its token *)
(* first; the HTTP server has many, each request shows the token, and all  *)
(* of them share one map from ids to the calls that a cancel reaches.  The *)
(* peers choose the ids.  What a method does is Sidecar's.                 *)
(***************************************************************************)
EXTENDS Integers, Sequences, FiniteSets

CONSTANTS
  Nothing,
  CallIds   \* the ids that peers choose

VARIABLE channel  \* the state of a line channel, or of the HTTP server

(* cancels: history, the ids that cancels named. *)
Serving(transport) ==
  [transport |-> transport, open |-> TRUE, authenticated |-> FALSE, active |-> [id \in {} |-> 0],
   calls |-> <<>>, cancels |-> {}, said |-> "nothing"]

Response(code) == [code |-> code, count |-> 0, canceled |-> FALSE]
Final(count, canceled) == [code |-> "done", count |-> count, canceled |-> canceled]

Says(s, answer) == [s EXCEPT !.said = answer]
Responds(s, n, answer) == [Says(s, "nothing") EXCEPT !.calls[n].phase = "ended", !.calls[n].answer = answer]
AbortsCalls(s, ns) ==
  [s EXCEPT !.calls = [n \in DOMAIN @ |-> IF n \in ns THEN [@[n] EXCEPT !.aborted = TRUE] ELSE @[n]]]

(* The entry of the id goes, whichever call it is. *)
Frees(s, n) == [s EXCEPT !.active = [id \in DOMAIN @ \ {s.calls[n].id} |-> @[id]]]

Begins(s, id, method, path) ==
  [Says(s, "nothing") EXCEPT !.calls = Append(@, [id |-> id, method |-> method, path |-> path, phase |-> "dispatched",
                                 aborted |-> FALSE, count |-> 0, answer |-> Nothing]),
            !.active = [i \in DOMAIN @ \cup {id} |-> IF i = id THEN Len(s.calls) + 1 ELSE @[i]]]

CancelsCall(s, id) ==
  [AbortsCalls(s, {s.active[i] : i \in DOMAIN s.active \cap {id}}) EXCEPT !.cancels = @ \cup {id}]

-----------------------------------------------------------------------------
(* A line.  A first frame that is not the token's ends the session; later a
   frame that is none of the known ones is passed over. *)
lineFrame(s, frame) ==
  CASE ~s.authenticated ->
         IF frame.kind = "auth" /\ frame.valid
         THEN Says([s EXCEPT !.authenticated = TRUE], "authenticated")
         ELSE Says([s EXCEPT !.open = FALSE], "UNAUTHORIZED")
    [] s.authenticated /\ frame.kind = "cancel" -> Says(CancelsCall(s, frame.id), "nothing")
    [] s.authenticated /\ frame.kind = "rpc" -> Begins(s, frame.id, frame.method, "line")
    [] OTHER -> s

(* An HTTP request: the body is Nothing when it is too long or no JSON.  What
   has an id names a call to cancel, be it itself a request. *)
authorized(request) == request.valid

readJsonBody(s, request, Answer) == IF request.body = Nothing THEN Says(s, "400") ELSE Answer

(* (Faulty variant: every cancel is confirmed, that of an unknown id too.) *)
cancelCallConfirms(s, body) ==
  IF "id" \notin DOMAIN body THEN Says(s, "400") ELSE Says(CancelsCall(s, body.id), "canceled")

cancelCall(s, body) ==
  IF "id" \notin DOMAIN body THEN Says(s, "400")
  ELSE Says(CancelsCall(s, body.id), IF body.id \in DOMAIN s.active THEN "canceled" ELSE "not found")

startCall(s, request) ==
  IF request.body.kind # "rpc" THEN Says(s, "400")
  ELSE Begins(s, request.body.id, request.body.method, request.path)

handleRequest(s, request) ==
  LET path == request.path
  IN  CASE ~authorized(request) -> Says(s, "401")
        [] authorized(request) /\ request.method = "GET" ->
             Says(s, CASE path = "/health" -> "200" [] path = "/v1/models" -> "proxy" [] OTHER -> "405")
        [] authorized(request) /\ request.method = "POST" ->
             (CASE path \in {"/rpc", "/rpc/stream"} -> readJsonBody(s, request, startCall(s, request))
                [] path = "/rpc/cancel" -> readJsonBody(s, request, cancelCall(s, request.body))
                [] path = "/v1/chat/completions" -> readJsonBody(s, request, Says(s, "proxy"))
                [] OTHER -> Says(s, "404"))
        [] OTHER -> Says(s, "405")

-----------------------------------------------------------------------------
(* The handler of a call returns or throws; one that streams returns at once. *)
dispatchError(call, outcome) ==
  CASE call.method = "unknown" -> "METHOD_NOT_FOUND"
    [] call.method = "single" /\ outcome = "throws" -> IF call.aborted THEN "CANCELED" ELSE "failed"
    [] OTHER -> Nothing

(* On a line nothing reaches a stream that has begun. *)
emitDispatch(s, n, outcome) ==
  LET error == dispatchError(s.calls[n], outcome)
  IN  CASE error # Nothing -> Responds(Frees(s, n), n, Response(error))
        [] error = Nothing /\ s.calls[n].method = "stream" ->
             [Says(Frees(s, n), "nothing") EXCEPT !.calls[n].phase = "streaming"]
        [] OTHER -> Responds(Frees(s, n), n, Response("result"))

(* A method that streams is not run by a single call. *)
singleCall(s, n, outcome) ==
  LET error == dispatchError(s.calls[n], outcome)
  IN  CASE error # Nothing -> Responds(Frees(s, n), n, Response(error))
        [] error = Nothing /\ s.calls[n].method = "stream" -> Responds(Frees(s, n), n, Final(0, FALSE))
        [] OTHER -> Responds(Frees(s, n), n, Response("result"))

(* The result of another method is a chunk that is not counted. *)
streamCall(s, n, outcome) ==
  LET error == dispatchError(s.calls[n], outcome)
  IN  CASE error # Nothing -> Responds(Frees(s, n), n, Response(error))
        [] error = Nothing /\ s.calls[n].method = "stream" -> [Says(s, "nothing") EXCEPT !.calls[n].phase = "streaming"]
        [] OTHER -> Responds(Frees(s, n), n, Final(0, FALSE))

Settles(s, n, outcome) ==
  CASE s.calls[n].path = "line" -> emitDispatch(s, n, outcome)
    [] s.calls[n].path = "/rpc" -> singleCall(s, n, outcome)
    [] s.calls[n].path = "/rpc/stream" -> streamCall(s, n, outcome)

(* A stream has a chunk, ends or throws.  The signal is looked at when a chunk
   is there, so that an aborted stream that ends by itself was not canceled. *)
Yields(s, n, next) ==
  LET call == s.calls[n]
      freed == IF call.path = "line" THEN s ELSE Frees(s, n)
  IN  IF next = "chunk" /\ ~call.aborted THEN [Says(s, "nothing") EXCEPT !.calls[n].count = @ + 1]
      ELSE Responds(freed, n, Final(call.count, next # "end"))

(* The end of the channel, or of the server: whatever a cancel reaches is
   aborted, and the rest is waited for. *)
Closes(s) ==
  LET aborted == AbortsCalls(s, {s.active[id] : id \in DOMAIN s.active})
  IN  [aborted EXCEPT !.open = FALSE, !.said = "nothing",
                      !.active = IF s.transport = "line" THEN [id \in {} |-> 0] ELSE @]

-----------------------------------------------------------------------------
(* What peers send: the ids are theirs, and a body may be anything. *)
Methods == {"single", "stream", "unknown"}
RpcBodies ==
  [kind : {"rpc"}, id : CallIds, method : Methods] \cup [kind : {"cancel"}, id : CallIds]
    \cup {[kind |-> "junk"]}
LineFrames == RpcBodies \cup [kind : {"auth"}, valid : BOOLEAN]
Posted == {"/rpc", "/rpc/stream", "/rpc/cancel", "/v1/chat/completions"}
Requests ==
  [valid : {TRUE}, method : {"POST"}, path : Posted, body : RpcBodies]
    \cup [valid : BOOLEAN, method : {"GET", "POST", "PUT"}, path : Posted \cup {"/health", "/v1/models", "/"},
          body : {Nothing}]

(* One event of a channel that is served: a frame or a request arrives, the
   handler of a call or the stream behind it answers, or the peer goes. *)
Served == channel \in {Serving("line"), Serving("http")}

Receives ==
  /\ channel.open
  /\ \/ /\ channel.transport = "line"
        /\ \E frame \in LineFrames : channel' = lineFrame(channel, frame)
     \/ /\ channel.transport = "http"
        /\ \E request \in Requests : channel' = handleRequest(channel, request)

Works ==
  \E n \in DOMAIN channel.calls :
    \/ /\ channel.calls[n].phase = "dispatched"
       /\ \E outcome \in {"returns", "throws"} : channel' = Settles(channel, n, outcome)
    \/ /\ channel.calls[n].phase = "streaming"
       /\ \E next \in {"chunk", "end", "throws"} : channel' = Yields(channel, n, next)

Hangs ==
  /\ channel.open
  /\ channel' = Closes(channel)

ChannelSpec == Served /\ [][Receives \/ Works \/ Hangs]_channel

-----------------------------------------------------------------------------
(* On a line nothing runs before the token was shown.  The latest call of an id,
   all of whose calls are still at work, is reached by a cancel and by the end of
   the channel, except for a stream that a line has begun; a cancel that says it
   canceled has aborted an open call of that id; only cancels and the end abort;
   and only an aborted call is answered as canceled, or a stream that broke off
   (protocol.ts:39, 167-175; http-rpc.ts:251-267). *)
OpenCall(n) == channel.calls[n].phase # "ended"
Latest(n) ==
  \A m \in DOMAIN channel.calls \ {n} :
    channel.calls[m].id = channel.calls[n].id => m < n /\ channel.calls[m].phase = "dispatched"
OutOfReach(n) == channel.transport = "line" /\ channel.calls[n].phase = "streaming"

CancelsReach ==
  /\ channel.transport = "line" /\ channel.calls # <<>> => channel.authenticated
  /\ \A id \in DOMAIN channel.active :
       channel.calls[channel.active[id]].id = id /\ OpenCall(channel.active[id])
  /\ \A n \in DOMAIN channel.calls :
       LET call == channel.calls[n]
       IN  /\ OpenCall(n) /\ Latest(n) /\ ~OutOfReach(n) =>
                 IF channel.open THEN call.id \in DOMAIN channel.active /\ channel.active[call.id] = n
                 ELSE call.aborted
           /\ call.aborted => call.id \in channel.cancels \/ ~channel.open
           /\ call.answer # Nothing => (call.answer.code = "CANCELED" => call.aborted)
  /\ channel.said = "canceled" => \E n \in DOMAIN channel.calls : OpenCall(n) /\ channel.calls[n].aborted

(* What was answered stays as it was answered: no second answer, no chunk and no
   abort of a cancel that comes late, whatever the ids, gets to an ended call; no
   call is forgotten; and an abort is not taken back (protocol.ts:181-233;
   http-rpc.ts:167-247). *)
AnswersStand ==
  [][\A n \in DOMAIN channel.calls :
       /\ n \in DOMAIN channel'.calls /\ channel'.calls[n].id = channel.calls[n].id
       /\ ~OpenCall(n) => channel'.calls[n] = channel.calls[n]
       /\ channel.calls[n].aborted => channel'.calls[n].aborted]_channel
=============================================================================
