----------------------------- MODULE Supervisor -----------------------------
(***************************************************************************)
(* The desktop's supervisor of the sidecar and the line protocol between   *)
(* them (desktop/src-tauri/src/sidecar.rs, lib.rs; core-service            *)
(* protocol.ts and index.ts).  Callers put commands into a bounded channel *)
(* that one task reads: it writes them to the stdin of the child, routes   *)
(* the frames of its stdout back, starts a child that died again with a    *)
(* growing delay, and gives up after MaxFailures failures in a row.        *)
(*                                                                         *)
(* A call is its own id: ids are counted up and never used again.  The     *)
(* result of a call is the call itself, so that a result which reaches     *)
(* another caller shows.                                                   *)
(***************************************************************************)
EXTENDS Naturals, Sequences, FiniteSets, SequencesExt

CONSTANTS
  Call,
  NoAnswer, Error,
  Canceled,      \* the error CANCELED
  Capacity,      \* commands the channel holds (64)
  MaxFailures    \* MAX_RESPAWN_FAILURES

ASSUME CapacityAssumption == Capacity \in Nat \ {0}
ASSUME FailuresAssumption == MaxFailures \in Nat \ {0}
ASSUME AnswersAssumption ==
  /\ NoAnswer # Error /\ NoAnswer # Canceled /\ Error # Canceled
  /\ NoAnswer \notin Call /\ Error \notin Call /\ Canceled \notin Call

VARIABLES
  app,       \* the desktop: "up", "quitting" or "gone"
  sup,       \* where supervisor_main is
  status,    \* what the window and the tray are told
  failures,  \* consecutive failures
  queue,     \* the command channel
  sending,   \* callers that wait for a place in it
  asked,     \* calls made so far
  answer,    \* what each caller got
  canceled,  \* calls a cancel was sent for
  pending,   \* calls written to the child and not answered yet
  child,     \* the process: "none", "starting", "serving", "dead" or "closing"
  stray,     \* a child whose startup was abandoned has not ended yet
  stdin,     \* frames the child has not read
  handlers,  \* calls the child is working on
  aborted,   \* those whose signal was aborted
  stdout,    \* replies the supervisor has not read
  ran        \* history: how often a method was started

desk  == <<app, asked, canceled>>
super == <<sup, status, failures, queue, sending, pending, answer>>
proc  == <<child, stray, stdin, handlers, aborted, stdout, ran>>
vars  == <<desk, super, proc>>

Kinds == {"rpc", "cancel"}
Commands == [kind : Kinds, call : Call]
Shutdown == [kind |-> "shutdown"]
Cmd(kind, c) == [kind |-> kind, call |-> c]
Reply(c, value) == [id |-> c, value |-> value]

TypeOK ==
  /\ app \in {"up", "quitting", "gone"}
  /\ sup \in {"starting", "retrying", "running", "waiting", "drained", "exited"}
  /\ status \in {"starting", "connected", "disconnected", "auth-failed"}
  /\ failures \in 0 .. MaxFailures
  /\ queue \in Seq(Commands \cup {Shutdown}) /\ Len(queue) <= Capacity
  /\ answer \in [Call -> Call \cup {NoAnswer, Error, Canceled}]
  /\ sending \cup pending \cup canceled \subseteq asked /\ asked \subseteq Call
  /\ child \in {"none", "starting", "serving", "dead", "closing"}
  /\ stray \in BOOLEAN
  /\ stdin \in Seq(Commands)
  /\ aborted \subseteq handlers /\ handlers \subseteq Call
  /\ stdout \in Seq([id : Call, value : Call \cup {Error, Canceled}])
  /\ ran \in [Call -> Nat]
  /\ pending # {} => sup = "running"

Init ==
  /\ app = "up" /\ sup = "starting" /\ status = "starting" /\ failures = 0
  /\ queue = <<>> /\ stdin = <<>> /\ stdout = <<>>
  /\ sending = {} /\ asked = {} /\ canceled = {} /\ pending = {}
  /\ handlers = {} /\ aborted = {}
  /\ answer = [c \in Call |-> NoAnswer]
  /\ child = "none" /\ stray = FALSE
  /\ ran = [c \in Call |-> 0]

-----------------------------------------------------------------------------
(* Callers: rpc_inner. *)

Waits(c) == c \in asked /\ answer[c] = NoAnswer

(* The first answer counts: the caller has dropped its receiver after it. *)
Give(c, value) == answer' = [answer EXCEPT ![c] = IF Waits(c) THEN value ELSE @]
FailAll(calls) ==
  answer' = [c \in Call |-> IF c \in calls /\ Waits(c) THEN Error ELSE answer[c]]

Calls(c) ==
  /\ app = "up"
  /\ c \notin asked
  /\ asked' = asked \cup {c}
  /\ sending' = sending \cup {c}
  /\ UNCHANGED <<app, canceled, sup, status, failures, queue, pending, answer, proc>>

Closed == sup = "exited"

Enqueues(c) ==
  /\ c \in sending
  /\ sending' = sending \ {c}
  /\ IF Closed
     THEN Give(c, Error) /\ UNCHANGED queue
     ELSE /\ Len(queue) < Capacity
          /\ queue' = Append(queue, Cmd("rpc", c))
          /\ UNCHANGED answer
  /\ UNCHANGED <<sup, status, failures, pending, desk, proc>>

(* The wait for the answer is bounded, the wait for a place is not.  Nothing
   tells the child: the method runs on. *)
TimesOut(c) ==
  /\ Waits(c) /\ c \notin sending
  /\ Give(c, Error)
  /\ UNCHANGED <<sup, status, failures, queue, sending, pending, desk, proc>>

Cancels(c) ==
  /\ app = "up" /\ ~Closed
  /\ c \in asked \ canceled /\ c \notin sending
  /\ Len(queue) < Capacity
  /\ canceled' = canceled \cup {c}
  /\ queue' = Append(queue, Cmd("cancel", c))
  /\ UNCHANGED <<app, asked, sup, status, failures, sending, pending, answer, proc>>

-----------------------------------------------------------------------------
(* try_startup: spawn, the ready frame, the token handshake. *)

Spawns ==
  /\ sup \in {"starting", "retrying"}
  /\ child = "none"
  /\ child' = "starting"
  /\ UNCHANGED <<stray, stdin, handlers, aborted, stdout, ran, desk, super>>

Connects ==
  /\ child = "starting"
  /\ child' = "serving"
  /\ sup' = "running" /\ status' = "connected" /\ failures' = 0
  /\ UNCHANGED <<queue, sending, pending, answer, stray, stdin, handlers, aborted, stdout, ran, desk>>

(* (Faulty variants: one attempt too many; a count that starts anew.) *)
CountFailureOffByOne(n) ==
  /\ failures' = n + 1
  /\ sup' = IF n + 1 > MaxFailures THEN "drained" ELSE "waiting"
  /\ status' = "disconnected"
CountFailureAnew(n) ==
  /\ failures' = 1
  /\ sup' = "waiting"
  /\ status' = "disconnected"

(* failures += 1, and the next attempt or the end of the attempts. *)
CountFailure(n) ==
  /\ failures' = n + 1
  /\ sup' = IF n + 1 >= MaxFailures THEN "drained" ELSE "waiting"
  /\ status' = "disconnected"

(* The handle of an abandoned child is dropped, which closes its stdin. *)
Abandon ==
  /\ child' = "none"
  /\ stray' = (stray \/ child = "starting")
  /\ UNCHANGED <<stdin, handlers, aborted, stdout, ran>>

StartFails ==
  /\ sup = "starting"
  /\ CountFailure(failures)
  /\ Abandon
  /\ UNCHANGED <<queue, sending, pending, answer, desk>>

AuthRefused ==
  /\ sup = "starting" /\ child = "starting"
  /\ sup' = "retrying"
  /\ Abandon
  /\ UNCHANGED <<status, failures, queue, sending, pending, answer, desk>>

(* The one retry fails, for whatever reason. *)
RetryFails ==
  /\ sup = "retrying"
  /\ sup' = "drained" /\ status' = "auth-failed"
  /\ Abandon
  /\ UNCHANGED <<failures, queue, sending, pending, answer, desk>>

Respawns ==
  /\ sup = "waiting"
  /\ sup' = "starting" /\ status' = "starting"
  /\ UNCHANGED <<failures, queue, sending, pending, answer, desk, proc>>
-----------------------------------------------------------------------------
(* Commands.  run_loop takes them before events (a biased select);
   wait_before_respawn and drain_commands answer every call at once. *)

Take(kind) == queue # <<>> /\ Head(queue).kind = kind /\ queue' = Tail(queue)

(* The stdin of a child that has ended may still take a frame, or refuse it. *)
WritesCall ==
  LET c == Head(queue).call
  IN  /\ sup = "running" /\ Take("rpc")
      /\ \/ /\ pending' = pending \cup {c}
            /\ stdin' = IF child = "serving" THEN Append(stdin, Cmd("rpc", c)) ELSE stdin
            /\ UNCHANGED answer
         \/ /\ child = "dead"
            /\ Give(c, Error)
            /\ UNCHANGED <<pending, stdin>>
      /\ UNCHANGED <<sup, status, failures, sending, child, stray, handlers, aborted, stdout, ran, desk>>

WritesCancel ==
  /\ sup = "running" /\ Take("cancel")
  /\ stdin' = IF child = "serving" THEN Append(stdin, Head(queue)) ELSE stdin
  /\ UNCHANGED <<sup, status, failures, sending, pending, answer,
                 child, stray, handlers, aborted, stdout, ran, desk>>

RefusesCall ==
  /\ sup \in {"waiting", "drained"} /\ Take("rpc")
  /\ Give(Head(queue).call, Error)
  /\ UNCHANGED <<sup, status, failures, sending, pending, desk, proc>>

DropsCancel ==
  /\ sup \in {"waiting", "drained"} /\ Take("cancel")
  /\ UNCHANGED <<sup, status, failures, sending, pending, answer, desk, proc>>

Queued == {queue[i].call : i \in {j \in DOMAIN queue : queue[j].kind = "rpc"}}

(* The receiver is dropped: what is queued or pending fails. *)
Ends ==
  /\ sup' = "exited"
  /\ queue' = <<>> /\ pending' = {}
  /\ FailAll(Queued \cup pending)
  /\ UNCHANGED <<status, failures, sending>>

Killed ==
  /\ child' = "none"
  /\ stdin' = <<>> /\ stdout' = <<>> /\ handlers' = {} /\ aborted' = {}
  /\ UNCHANGED <<stray, ran>>

ShutsDown ==
  /\ sup \in {"running", "waiting", "drained"}
  /\ queue # <<>> /\ Head(queue) = Shutdown
  /\ Ends
  /\ Killed
  /\ UNCHANGED desk

-----------------------------------------------------------------------------
(* Events of the child. *)

Listens == sup = "running" /\ queue = <<>>

(* route_frame: the frame's id names the caller. *)
Owner(frame) == frame.id

RoutesReply ==
  LET frame == Head(stdout)
  IN  /\ Listens /\ stdout # <<>>
      /\ stdout' = Tail(stdout)
      /\ pending' = pending \ {Owner(frame)}
      /\ IF Owner(frame) \in pending THEN Give(Owner(frame), frame.value) ELSE UNCHANGED answer
      /\ UNCHANGED <<sup, status, failures, queue, sending, child, stray, stdin, handlers, aborted, ran, desk>>

(* (Faulty variant: the calls of the lost child are written to the next one.) *)
SeesEndResends ==
  /\ Listens /\ child = "dead"
  /\ UNCHANGED answer
  /\ queue' = SetToSeq({Cmd("rpc", c) : c \in pending})
  /\ pending' = {}
  /\ CountFailure(failures)
  /\ Killed
  /\ UNCHANGED <<sending, desk>>

(* Whatever replies are still unread are lost with the child. *)
SeesEnd ==
  /\ Listens /\ child = "dead"
  /\ FailAll(pending)
  /\ pending' = {}
  /\ CountFailure(failures)
  /\ Killed
  /\ UNCHANGED <<queue, sending, desk>>

-----------------------------------------------------------------------------
(* The child: serveLineFrames dispatches without waiting, so that a cancel
   overtakes the call it is for. *)

Aborts(c) == {c} \cap handlers

Reads ==
  LET frame == Head(stdin)
      c     == frame.call
  IN  /\ child \in {"serving", "closing"} /\ stdin # <<>>
      /\ stdin' = Tail(stdin)
      /\ IF frame.kind = "rpc"
         THEN /\ handlers' = handlers \cup {c}
              /\ ran' = [ran EXCEPT ![c] = @ + 1]
              /\ UNCHANGED aborted
         ELSE /\ aborted' = aborted \cup Aborts(c)
              /\ UNCHANGED <<handlers, ran>>
      /\ UNCHANGED <<child, stray, stdout, desk, super>>

(* A handler that fails after its signal was aborted answers CANCELED; one
   that ends all the same answers its result.  Nobody reads a closed pipe. *)
Replies(c) ==
  /\ c \in handlers
  /\ handlers' = handlers \ {c}
  /\ aborted' = aborted \ {c}
  /\ IF child = "closing" THEN UNCHANGED stdout
     ELSE \E value \in {c, IF c \in aborted THEN Canceled ELSE Error} :
            stdout' = Append(stdout, Reply(c, value))
  /\ UNCHANGED <<child, stray, stdin, ran, desk, super>>

Crashes ==
  /\ child = "serving"
  /\ child' = "dead"
  /\ stdin' = <<>> /\ handlers' = {} /\ aborted' = {}
  /\ UNCHANGED <<stray, stdout, ran, desk, super>>

(* End of input: the handlers are aborted and awaited, then the process ends. *)
ChildEnds ==
  /\ child = "closing" /\ stdin = <<>> /\ handlers = {}
  /\ child' = "none"
  /\ UNCHANGED <<stray, stdin, handlers, aborted, stdout, ran, desk, super>>

StrayEnds ==
  /\ stray
  /\ stray' = FALSE
  /\ UNCHANGED <<child, stdin, handlers, aborted, stdout, ran, desk, super>>

-----------------------------------------------------------------------------
(* The end of the desktop: Quit puts a shutdown into the channel if it has
   room, waits for at most three seconds, and the process ends.  The pipes of
   a child that is still there close with it. *)

Quits ==
  /\ app = "up"
  /\ app' = "quitting"
  /\ queue' = IF Len(queue) < Capacity /\ ~Closed THEN Append(queue, Shutdown) ELSE queue
  /\ UNCHANGED <<asked, canceled, sup, status, failures, sending, pending, answer, proc>>

(* (Faulty variant: the child is spawned detached from the desktop's pipes.) *)
ChildDetached == child
ChildCut ==
  CASE child \in {"starting", "serving"} -> "closing"
    [] child = "dead"                    -> "none"
    [] OTHER                             -> child

Exits ==
  /\ app = "quitting"
  /\ app' = "gone"
  /\ sup' = "exited" /\ queue' = <<>> /\ sending' = {} /\ pending' = {}
  /\ FailAll(asked)
  /\ child' = ChildCut
  /\ stdout' = <<>>
  /\ aborted' = handlers
  /\ UNCHANGED <<asked, canceled, status, failures, stray, stdin, handlers, ran>>

-----------------------------------------------------------------------------
Startup == Spawns \/ Connects \/ StartFails \/ AuthRefused \/ RetryFails \/ Respawns
Serve == WritesCall \/ WritesCancel \/ RefusesCall \/ DropsCancel \/ ShutsDown \/ RoutesReply \/ SeesEnd

Next ==
  \/ \E c \in Call : Calls(c) \/ Enqueues(c) \/ TimesOut(c) \/ Cancels(c) \/ Replies(c)
  \/ Startup \/ Serve
  \/ Reads \/ Crashes \/ ChildEnds \/ StrayEnds
  \/ Quits \/ Exits

(* The supervisor's task and the processes run; a startup ends, well or not,
   by its time limit; a handler settles; the wait before a respawn and that of
   Quit are timers.  Callers, users and crashes owe nothing, and a call need
   not have a time limit. *)
Fairness ==
  /\ WF_vars(Startup) /\ WF_vars(Serve)
  /\ WF_vars(Reads) /\ WF_vars(ChildEnds) /\ WF_vars(StrayEnds) /\ WF_vars(Exits)
  /\ \A c \in Call : WF_vars(Replies(c)) /\ SF_vars(Enqueues(c))

Spec == Init /\ [][Next]_vars /\ Fairness

-----------------------------------------------------------------------------
(* A call runs at most once, however often the child is started again, and a
   result is the caller's own although handlers end in any order: the
   supervisor and the protocol implement RemoteCall, which also says that
   every caller is answered, with or without a time limit of its own. *)
Remote == INSTANCE RemoteCall WITH
  answer <- [c \in Call |-> IF answer[c] = Canceled THEN Error ELSE answer[c]]
RemoteCallSpec == Remote!Spec

(* Nobody is told CANCELED who did not cancel: a cancel names a call by an id
   that is never used again, so a late one meets no other call. *)
CanceledAsked == \A c \in Call : answer[c] = Canceled => c \in canceled

(* After the child has died or could not be started, the supervisor connects
   again or gives up: it does not stay in between. *)
ReconnectsOrGivesUp ==
  status \in {"starting", "disconnected"} ~> (sup \in {"running", "drained", "exited"})

(* Whatever Quit meets - a full channel, a startup, a running call - no
   process of the sidecar outlives the desktop for good. *)
NoOrphan == app = "quitting" ~> (app = "gone" /\ child = "none" /\ ~stray)
=============================================================================
