---------------------------- MODULE DesktopProofs ----------------------------
(***************************************************************************)
(* Theorems about the desktop: its supervisor, for any set of calls, any   *)
(* capacity of the channel and any number of restarts, its tray, for any   *)
(* profiles and any number of overlapping tasks, and the sidecar's end of  *)
(* the channels, for any calls and ids and any number of frames.           *)
(***************************************************************************)
EXTENDS Supervisor, Tray, Transport, SequenceTheorems, TLAPS

Frames == Commands \cup {Shutdown}
ReplyFrames == [id : Call, value : Call \cup {Error, Canceled}]

-----------------------------------------------------------------------------
(* A channel or a pipe, seen as the set of what is in it. *)

(* What is put in last is in it, with what was there. *)
LEMMA RangeAppend ==
  ASSUME NEW S, NEW s \in Seq(S), NEW e \in S
  PROVE  Range(Append(s, e)) = Range(s) \cup {e} /\ Append(s, e) \in Seq(S)
<1>1. /\ Len(s) \in Nat /\ DOMAIN s = 1 .. Len(s) /\ DOMAIN Append(s, e) = 1 .. Len(s) + 1
      /\ \A i \in 1 .. Len(s) : Append(s, e)[i] = s[i]
      /\ Append(s, e)[Len(s) + 1] = e
  OBVIOUS
<1>2. \A i \in 1 .. Len(s) + 1 : i \in 1 .. Len(s) \/ i = Len(s) + 1
  BY <1>1
<1>3. Len(s) + 1 \in 1 .. Len(s) + 1 /\ \A i \in 1 .. Len(s) : i \in 1 .. Len(s) + 1
  BY <1>1
<1> QED BY <1>1, <1>2, <1>3 DEF Range

(* Taking the first frame leaves the others. *)
LEMMA RangeTail ==
  ASSUME NEW S, NEW s \in Seq(S), s # <<>>
  PROVE  /\ Range(s) = {Head(s)} \cup Range(Tail(s))
         /\ Head(s) \in S /\ Tail(s) \in Seq(S) /\ Len(Tail(s)) = Len(s) - 1
<1>1. /\ Head(s) = s[1] /\ Tail(s) \in Seq(S) /\ Len(Tail(s)) = Len(s) - 1
      /\ Len(s) \in Nat /\ Len(s) >= 1 /\ \A i \in 1 .. Len(s) - 1 : Tail(s)[i] = s[i + 1]
  OBVIOUS
<1>2. DOMAIN s = 1 .. Len(s) /\ DOMAIN Tail(s) = 1 .. Len(s) - 1
  BY <1>1
<1>3. ASSUME NEW x \in Range(s) PROVE x = Head(s) \/ x \in Range(Tail(s))
  <2>1. PICK i \in 1 .. Len(s) : x = s[i]
    BY <1>2, <1>3 DEF Range
  <2>2. CASE i = 1
    BY <2>1, <2>2, <1>1
  <2>3. CASE i # 1
    <3>1. i - 1 \in 1 .. Len(s) - 1 /\ Tail(s)[i - 1] = x
      BY <1>1, <2>1, <2>3
    <3> QED BY <3>1, <1>2 DEF Range
  <2> QED BY <2>2, <2>3
<1>4. ASSUME NEW x \in Range(Tail(s)) PROVE x \in Range(s)
  <2>1. PICK i \in 1 .. Len(s) - 1 : x = Tail(s)[i]
    BY <1>2, <1>4 DEF Range
  <2>2. i + 1 \in 1 .. Len(s) /\ x = s[i + 1]
    BY <2>1, <1>1
  <2> QED BY <2>2, <1>2 DEF Range
<1>5. Head(s) \in Range(s)
  BY <1>1, <1>2 DEF Range
<1> QED BY <1>1, <1>3, <1>4, <1>5

(* No frame twice in a pipe: a frame that is not in it may be put in... *)
LEMMA OnceAppend ==
  ASSUME NEW S, NEW s \in Seq(S), NEW e \in S, IsInjective(s), e \notin Range(s)
  PROVE  IsInjective(Append(s, e))
BY DEF Range, IsInjective

(* ... and one that is taken out is not in it any more. *)
LEMMA OnceTail ==
  ASSUME NEW S, NEW s \in Seq(S), s # <<>>, IsInjective(s)
  PROVE  IsInjective(Tail(s)) /\ Head(s) \notin Range(Tail(s))
<1>1. /\ Head(s) = s[1] /\ Len(s) \in Nat /\ Len(s) >= 1
      /\ DOMAIN s = 1 .. Len(s) /\ DOMAIN Tail(s) = 1 .. Len(s) - 1
      /\ \A i \in 1 .. Len(s) - 1 : Tail(s)[i] = s[i + 1]
  OBVIOUS
<1>2. ASSUME NEW i \in 1 .. Len(s) - 1, NEW j \in 1 .. Len(s) - 1, Tail(s)[i] = Tail(s)[j]
      PROVE  i = j
  <2>1. i + 1 \in DOMAIN s /\ j + 1 \in DOMAIN s /\ s[i + 1] = s[j + 1]
    BY <1>1, <1>2
  <2>2. i + 1 = j + 1
    BY <2>1 DEF IsInjective
  <2> QED BY <2>2
<1>3. ASSUME NEW i \in 1 .. Len(s) - 1, Tail(s)[i] = Head(s) PROVE FALSE
  <2>1. i + 1 \in DOMAIN s /\ 1 \in DOMAIN s /\ s[i + 1] = s[1]
    BY <1>1, <1>3
  <2>2. i + 1 = 1
    BY <2>1 DEF IsInjective
  <2> QED BY <2>2
<1> QED BY <1>1, <1>2, <1>3 DEF IsInjective, Range

(* An empty pipe holds nothing. *)
LEMMA RangeEmpty == Range(<<>>) = {} /\ IsInjective(<<>>)
BY DEF Range, IsInjective

(* A command is its kind and its call, and a shutdown is neither kind. *)
LEMMA FrameForms ==
  /\ \A kind \in Kinds, c \in Call :
       Cmd(kind, c) \in Frames /\ Cmd(kind, c).kind = kind /\ Cmd(kind, c).call = c
  /\ \A f \in Frames : f.kind \in Kinds => f.call \in Call /\ f = Cmd(f.kind, f.call)
  /\ \A f \in Frames : f \in Commands <=> f.kind \in Kinds
  /\ Shutdown.kind \notin Kinds /\ Shutdown \in Frames /\ Shutdown \notin Commands
<1>1. \A kind \in Kinds, c \in Call :
        Cmd(kind, c) \in Commands /\ Cmd(kind, c).kind = kind /\ Cmd(kind, c).call = c
  BY DEF Cmd, Commands
<1>2. Shutdown.kind \notin Kinds
  BY DEF Shutdown, Kinds
<1>3. \A f \in Commands : f.kind \in Kinds /\ f.call \in Call /\ f = [kind |-> f.kind, call |-> f.call]
  BY DEF Commands
<1> QED BY <1>1, <1>2, <1>3 DEF Frames, Cmd

-----------------------------------------------------------------------------
(* The inductive invariant of the supervisor, in parts.  TypeOK first. *)

(* Where the supervisor is says which child there can be, and that attempts
   are left while it still makes any. *)
Stages ==
  /\ sup \in {"starting", "retrying"} => child \in {"none", "starting"}
  /\ sup \in {"waiting", "drained"} => child = "none"
  /\ sup = "running" => child \in {"serving", "dead"}
  /\ sup = "exited" => child \in {"none", "closing"}
  /\ child \in {"none", "starting", "dead"} => handlers = {}
  /\ child = "closing" => app = "gone"
  /\ app = "gone" => sup = "exited"
  /\ sup \in {"starting", "waiting", "running"} => failures < MaxFailures

(* A call that no child has read is in one place, and has not run. *)
Unread(c) ==
  c \in sending \/ Cmd("rpc", c) \in Range(queue) \/ Cmd("rpc", c) \in Range(stdin)

OneCopy ==
  /\ IsInjective(queue) /\ IsInjective(stdin)
  /\ app = "up" => Shutdown \notin Range(queue)
  /\ \A f \in Commands : ~(f \in Range(queue) /\ f \in Range(stdin))
  /\ \A c \in sending : Cmd("rpc", c) \notin Range(queue) \cup Range(stdin)
  /\ \A c \in Call : Unread(c) => c \in asked /\ ran[c] = 0
  /\ \A c \in Call : c \notin asked => ran[c] = 0
  /\ \A c \in Call : ran[c] <= 1

(* What asks for or tells of a cancellation names a call that was canceled.
   The end of the desktop aborts every handler, but nobody hears of those. *)
CancelsAreAsked ==
  /\ \A c \in Call : Cmd("cancel", c) \in Range(queue) \cup Range(stdin) => c \in canceled
  /\ app # "gone" => aborted \subseteq canceled
  /\ \A f \in Range(stdout) : f.value = Canceled => f.id \in canceled
  /\ CanceledAsked

(* A reply is of a call that ran, and is its own result or an error. *)
RepliesAreOwn ==
  /\ \A c \in handlers : ran[c] = 1
  /\ \A f \in Range(stdout) : ran[f.id] = 1 /\ f.value \in {f.id, Error, Canceled}

DesktopInv == TypeOK /\ Stages /\ OneCopy /\ CancelsAreAsked /\ RepliesAreOwn

(* A caller that still waits is not forgotten: it waits for a place in the
   channel, its call is queued there, or it is pending; and a pending call is
   on its way to the child, with it, or on its way back, unless the child has
   died. *)
NobodyForgotten ==
  /\ \A c \in Call : Waits(c) =>
       c \in sending \/ Cmd("rpc", c) \in Range(queue) \/ c \in pending
  /\ \A c \in pending : child # "dead" =>
       \/ Cmd("rpc", c) \in Range(stdin) \/ c \in handlers
       \/ \E f \in Range(stdout) : f.id = c

-----------------------------------------------------------------------------
(* Types. *)

(* Answering a caller, or several, keeps the type of the answers. *)
LEMMA AnswerTypes ==
  ASSUME answer \in [Call -> Call \cup {NoAnswer, Error, Canceled}],
         \/ UNCHANGED answer
         \/ \E c \in Call, v \in Call \cup {Error, Canceled} : Give(c, v)
         \/ \E calls \in SUBSET Call : FailAll(calls)
  PROVE  answer' \in [Call -> Call \cup {NoAnswer, Error, Canceled}]
BY DEF Give, FailAll

(* What is taken from the channel is a command, and the rest are frames. *)
LEMMA Takes ==
  ASSUME TypeOK, NEW kind \in Kinds, Take(kind)
  PROVE  /\ Head(queue) = Cmd(kind, Head(queue).call) /\ Head(queue).call \in Call
         /\ Head(queue) \in Commands
         /\ Range(queue) = {Head(queue)} \cup Range(queue')
         /\ queue' \in Seq(Frames) /\ Len(queue') <= Capacity
         /\ IsInjective(queue) => IsInjective(queue') /\ Head(queue) \notin Range(queue')
<1>1. queue \in Seq(Frames) /\ Len(queue) \in Nat /\ Len(queue) <= Capacity /\ queue # <<>>
  BY DEF TypeOK, Take, Frames
<1>2. queue' = Tail(queue) /\ Head(queue).kind = kind
  BY DEF Take
<1>3. /\ Range(queue) = {Head(queue)} \cup Range(queue')
      /\ Head(queue) \in Frames /\ queue' \in Seq(Frames) /\ Len(queue') = Len(queue) - 1
  BY <1>1, <1>2, RangeTail
<1>4. Len(queue') <= Capacity
  BY <1>1, <1>3, CapacityAssumption
<1>5. IsInjective(queue) => IsInjective(queue') /\ Head(queue) \notin Range(queue')
  BY <1>1, <1>2, OnceTail
<1>6. Head(queue) = Cmd(kind, Head(queue).call) /\ Head(queue).call \in Call /\ Head(queue) \in Commands
  BY <1>2, <1>3, FrameForms
<1> QED BY <1>3, <1>4, <1>5, <1>6

(* What is put into the channel is in it, once if it was not there. *)
LEMMA Puts ==
  ASSUME TypeOK, NEW f \in Frames, Len(queue) < Capacity, queue' = Append(queue, f)
  PROVE  /\ Range(queue') = Range(queue) \cup {f}
         /\ queue' \in Seq(Frames) /\ Len(queue') <= Capacity
         /\ IsInjective(queue) /\ f \notin Range(queue) => IsInjective(queue')
<1>1. queue \in Seq(Frames) /\ Len(queue) \in Nat
  BY DEF TypeOK, Frames
<1>2. Len(queue') = Len(queue) + 1
  BY <1>1
<1> QED BY <1>1, <1>2, RangeAppend, OnceAppend, CapacityAssumption

(* The initial state has the declared types. *)
LEMMA InitTypes == Init => TypeOK
<1> SUFFICES ASSUME Init PROVE TypeOK
  OBVIOUS
<1>1. /\ queue \in Seq(Commands \cup {Shutdown}) /\ Len(queue) <= Capacity
      /\ stdin \in Seq(Commands) /\ stdout \in Seq([id : Call, value : Call \cup {Error, Canceled}])
  BY CapacityAssumption DEF Init
<1>2. failures \in 0 .. MaxFailures /\ ran \in [Call -> Nat]
  BY FailuresAssumption DEF Init
<1> QED BY <1>1, <1>2 DEF Init, TypeOK

(* So do the supervisor's steps on a command or an event. *)
LEMMA ServeTypes == TypeOK /\ Stages /\ OneCopy /\ Serve => TypeOK'
<1> SUFFICES ASSUME TypeOK, Stages, OneCopy, Serve PROVE TypeOK'
  OBVIOUS
<1> USE DEF desk, super, proc
<1>0. /\ queue \in Seq(Frames) /\ stdin \in Seq(Commands)
      /\ answer \in [Call -> Call \cup {NoAnswer, Error, Canceled}]
  BY DEF TypeOK, Frames
<1>1. CASE WritesCall
  <2> DEFINE c == Head(queue).call
  <2>1. c \in Call /\ Cmd("rpc", c) \in Commands /\ queue' \in Seq(Frames) /\ Len(queue') <= Capacity
    BY <1>1, Takes, FrameForms DEF WritesCall, Kinds
  <2>2. answer' \in [Call -> Call \cup {NoAnswer, Error, Canceled}]
    BY <1>0, <1>1, <2>1, AnswerTypes DEF WritesCall
  <2>3. stdin' \in Seq(Commands)
    <3>1. stdin' \in {stdin, Append(stdin, Cmd("rpc", c))}
      BY <1>1 DEF WritesCall
    <3>2. Append(stdin, Cmd("rpc", c)) \in Seq(Commands)
      BY <1>0, <2>1
    <3> QED BY <1>0, <3>1, <3>2
  <2>4. c \in asked
    BY <1>1, <2>1, Takes DEF WritesCall, Kinds, OneCopy, Unread
  <2> QED BY <1>1, <2>1, <2>2, <2>3, <2>4 DEF WritesCall, TypeOK, Frames
<1>2. CASE WritesCancel
  <2>1. Head(queue) \in Commands /\ queue' \in Seq(Frames) /\ Len(queue') <= Capacity
    BY <1>2, Takes DEF WritesCancel, Kinds
  <2>2. stdin' \in Seq(Commands)
    BY <1>0, <1>2, <2>1 DEF WritesCancel
  <2> QED BY <1>2, <2>1, <2>2 DEF WritesCancel, TypeOK, Frames
<1>3. CASE RefusesCall
  <2>1. Head(queue).call \in Call /\ queue' \in Seq(Frames) /\ Len(queue') <= Capacity
    BY <1>3, Takes DEF RefusesCall, Kinds
  <2>2. answer' \in [Call -> Call \cup {NoAnswer, Error, Canceled}]
    BY <1>0, <1>3, <2>1, AnswerTypes DEF RefusesCall
  <2> QED BY <1>3, <2>1, <2>2 DEF RefusesCall, TypeOK, Frames
<1>4. CASE DropsCancel
  <2>1. queue' \in Seq(Frames) /\ Len(queue') <= Capacity
    BY <1>4, Takes DEF DropsCancel, Kinds
  <2> QED BY <1>4, <2>1 DEF DropsCancel, TypeOK, Frames
<1>5. CASE ShutsDown
  <2>1. queue' = <<>> /\ queue' \in Seq(Commands \cup {Shutdown}) /\ Len(queue') <= Capacity
    BY <1>5, CapacityAssumption DEF ShutsDown, Ends
  <2>2. /\ stdin' \in Seq(Commands)
        /\ stdout' \in Seq([id : Call, value : Call \cup {Error, Canceled}])
    BY <1>5 DEF ShutsDown, Killed
  <2>3. answer' \in [Call -> Call \cup {NoAnswer, Error, Canceled}]
    BY <1>0, <1>5 DEF ShutsDown, Ends, FailAll
  <2> QED BY <1>5, <2>1, <2>2, <2>3 DEF ShutsDown, Ends, Killed, TypeOK
<1>6. CASE RoutesReply
  <2> DEFINE frame == Head(stdout)
  <2>1. frame \in [id : Call, value : Call \cup {Error, Canceled}]
    BY <1>6, RangeTail DEF RoutesReply, TypeOK
  <2>2. stdout' \in Seq([id : Call, value : Call \cup {Error, Canceled}])
    BY <1>6, RangeTail DEF RoutesReply, TypeOK
  <2>3. answer' \in [Call -> Call \cup {NoAnswer, Error, Canceled}]
    BY <1>0, <1>6, <2>1, AnswerTypes DEF RoutesReply, Owner
  <2> QED BY <1>6, <2>2, <2>3 DEF RoutesReply, TypeOK
<1>7. CASE SeesEnd
  <2>1. /\ stdin' \in Seq(Commands)
        /\ stdout' \in Seq([id : Call, value : Call \cup {Error, Canceled}])
    BY <1>7 DEF SeesEnd, Killed
  <2>2. answer' \in [Call -> Call \cup {NoAnswer, Error, Canceled}]
    BY <1>0, <1>7 DEF SeesEnd, FailAll
  <2>3. failures' \in 0 .. MaxFailures
    BY <1>7, FailuresAssumption DEF SeesEnd, CountFailure, Listens, Stages, TypeOK
  <2> QED BY <1>7, <2>1, <2>2, <2>3 DEF SeesEnd, CountFailure, Killed, TypeOK
<1> QED BY <1>1, <1>2, <1>3, <1>4, <1>5, <1>6, <1>7 DEF Serve

(* Every step keeps them, given which child there can be. *)
LEMMA TypeStep == TypeOK /\ Stages /\ OneCopy /\ [Next]_vars => TypeOK'
<1> SUFFICES ASSUME TypeOK, Stages, OneCopy, [Next]_vars PROVE TypeOK'
  OBVIOUS
<1> USE DEF desk, super, proc
<1>0. queue \in Seq(Frames) /\ stdin \in Seq(Commands)
  BY DEF TypeOK, Frames
<1>1. ASSUME NEW c \in Call, Calls(c) PROVE TypeOK'
  BY <1>1 DEF TypeOK, Calls
<1>2. ASSUME NEW c \in Call, Enqueues(c) PROVE TypeOK'
  <2>1. Cmd("rpc", c) \in Frames
    BY FrameForms DEF Kinds
  <2>2. queue' \in Seq(Frames) /\ Len(queue') <= Capacity
    BY <1>0, <1>2, <2>1, Puts DEF Enqueues, TypeOK
  <2>3. answer' \in [Call -> Call \cup {NoAnswer, Error, Canceled}]
    BY <1>2, AnswerTypes DEF Enqueues, TypeOK
  <2> QED BY <1>2, <2>2, <2>3 DEF Enqueues, TypeOK, Frames
<1>3. ASSUME NEW c \in Call, TimesOut(c) PROVE TypeOK'
  <2>1. answer' \in [Call -> Call \cup {NoAnswer, Error, Canceled}]
    BY <1>3, AnswerTypes DEF TimesOut, TypeOK
  <2> QED BY <1>3, <2>1 DEF TimesOut, TypeOK
<1>4. ASSUME NEW c \in Call, Cancels(c) PROVE TypeOK'
  <2>1. Cmd("cancel", c) \in Frames
    BY FrameForms DEF Kinds
  <2>2. queue' \in Seq(Frames) /\ Len(queue') <= Capacity
    BY <1>4, <2>1, Puts DEF Cancels
  <2> QED BY <1>4, <2>2 DEF Cancels, TypeOK, Frames
<1>5. ASSUME NEW c \in Call, Replies(c) PROVE TypeOK'
  <2>1. ASSUME NEW v \in Call \cup {Error, Canceled}, stdout' = Append(stdout, Reply(c, v))
        PROVE  stdout' \in Seq([id : Call, value : Call \cup {Error, Canceled}])
    BY <2>1 DEF TypeOK, Reply
  <2>2. stdout' \in Seq([id : Call, value : Call \cup {Error, Canceled}])
    BY <1>5, <2>1 DEF Replies, TypeOK
  <2> QED BY <1>5, <2>2 DEF Replies, TypeOK
<1>6. CASE Startup
  <2>1. pending = {} \/ sup = "running"
    BY DEF TypeOK
  <2>2. CASE Spawns \/ Connects \/ Respawns
    BY <2>1, <2>2, FailuresAssumption DEF TypeOK, Stages, Spawns, Connects, Respawns
  <2>3. CASE StartFails
    BY <2>1, <2>3, FailuresAssumption DEF TypeOK, Stages, StartFails, CountFailure, Abandon
  <2>4. CASE AuthRefused \/ RetryFails
    BY <2>1, <2>4, FailuresAssumption DEF TypeOK, Stages, AuthRefused, RetryFails, Abandon
  <2> QED BY <1>6, <2>2, <2>3, <2>4 DEF Startup
<1>7. CASE Serve
  BY <1>7, ServeTypes DEF TypeOK
<1>8. CASE Reads
  <2> DEFINE c == Head(stdin).call
  <2>1. stdin # <<>> /\ stdin' = Tail(stdin) /\ Head(stdin) \in Commands
    BY <1>0, <1>8, RangeTail DEF Reads
  <2>2. c \in Call /\ stdin' \in Seq(Commands)
    BY <1>0, <2>1 DEF Commands
  <2>3. handlers' \subseteq Call /\ aborted' \subseteq handlers' /\ ran' \in [Call -> Nat]
    <3>1. CASE Head(stdin).kind = "rpc"
      <4>1. handlers' = handlers \cup {c} /\ aborted' = aborted /\ ran' = [ran EXCEPT ![c] = ran[c] + 1]
        BY <1>8, <3>1 DEF Reads
      <4>2. handlers \subseteq Call /\ aborted \subseteq handlers /\ ran \in [Call -> Nat]
        BY DEF TypeOK
      <4> HIDE DEF c
      <4> QED BY <2>2, <4>1, <4>2
    <3>2. CASE Head(stdin).kind # "rpc"
      BY <1>8, <2>2, <3>2 DEF Reads, Aborts, TypeOK
    <3> QED BY <3>1, <3>2
  <2> QED BY <1>8, <2>2, <2>3 DEF Reads, TypeOK
<1>9. CASE Crashes \/ ChildEnds \/ StrayEnds
  <2>1. stdin' \in Seq(Commands)
    <3>1. stdin' = <<>> \/ stdin' = stdin
      BY <1>9 DEF Crashes, ChildEnds, StrayEnds
    <3>2. <<>> \in Seq(Commands)
      OBVIOUS
    <3> QED BY <1>0, <3>1, <3>2
  <2>2. CASE Crashes
    BY <2>1, <2>2 DEF Crashes, TypeOK
  <2>3. CASE ChildEnds
    BY <2>1, <2>3 DEF ChildEnds, TypeOK
  <2>4. CASE StrayEnds
    BY <2>1, <2>4 DEF StrayEnds, TypeOK
  <2> QED BY <1>9, <2>2, <2>3, <2>4
<1>10. CASE Quits
  <2>1. queue' \in Seq(Frames) /\ Len(queue') <= Capacity
    BY <1>0, <1>10, Puts, FrameForms DEF Quits, TypeOK
  <2> QED BY <1>10, <2>1 DEF Quits, TypeOK, Frames
<1>11. CASE Exits
  <2>1. asked \in SUBSET Call /\ answer' \in [Call -> Call \cup {NoAnswer, Error, Canceled}]
    BY <1>11, AnswerTypes DEF Exits, TypeOK
  <2>2. child' \in {"none", "starting", "serving", "dead", "closing"}
    BY <1>11 DEF Exits, ChildCut, TypeOK
  <2>3. queue' = <<>> /\ queue' \in Seq(Commands \cup {Shutdown}) /\ Len(queue') <= Capacity
    BY <1>11, CapacityAssumption DEF Exits
  <2>4. stdout' \in Seq([id : Call, value : Call \cup {Error, Canceled}])
    BY <1>11 DEF Exits
  <2> QED BY <1>11, <2>1, <2>2, <2>3, <2>4 DEF Exits, TypeOK
<1>12. CASE UNCHANGED vars
  BY <1>12 DEF vars, TypeOK
<1> QED
  BY <1>1, <1>2, <1>3, <1>4, <1>5, <1>6, <1>7, <1>8, <1>9, <1>10, <1>11, <1>12 DEF Next

-----------------------------------------------------------------------------
(* Stages. *)

(* At first the supervisor starts and there is no child. *)
LEMMA InitStages == Init => Stages
BY FailuresAssumption DEF Init, Stages

(* Every step keeps the child to where the supervisor is. *)
LEMMA StagesStep == TypeOK /\ Stages /\ [Next]_vars => Stages'
<1> SUFFICES ASSUME TypeOK, Stages, [Next]_vars PROVE Stages'
  OBVIOUS
<1> USE FailuresAssumption DEF desk, super, proc, Stages
<1>1. ASSUME NEW c \in Call, Calls(c) \/ Enqueues(c) \/ TimesOut(c) \/ Cancels(c) PROVE Stages'
  BY <1>1 DEF Calls, Enqueues, TimesOut, Cancels
<1>2. ASSUME NEW c \in Call, Replies(c) PROVE Stages'
  BY <1>2 DEF Replies
<1>3. CASE Startup
  <2>1. CASE Spawns \/ Connects \/ Respawns
    BY <2>1 DEF Spawns, Connects, Respawns, TypeOK
  <2>2. CASE StartFails \/ AuthRefused \/ RetryFails
    BY <2>2 DEF StartFails, AuthRefused, RetryFails, CountFailure, Abandon, TypeOK
  <2> QED BY <1>3, <2>1, <2>2 DEF Startup
<1>4. CASE Serve
  <2>1. CASE WritesCall \/ WritesCancel
    BY <2>1 DEF WritesCall, WritesCancel
  <2>2. CASE RefusesCall \/ DropsCancel \/ RoutesReply
    BY <2>2 DEF RefusesCall, DropsCancel, RoutesReply
  <2>3. CASE ShutsDown
    BY <2>3 DEF ShutsDown, Ends, Killed
  <2>4. CASE SeesEnd
    BY <2>4 DEF SeesEnd, CountFailure, Killed, Listens, TypeOK
  <2> QED BY <1>4, <2>1, <2>2, <2>3, <2>4 DEF Serve
<1>5. CASE Reads
  BY <1>5 DEF Reads
<1>6. CASE Crashes \/ ChildEnds \/ StrayEnds
  BY <1>6 DEF Crashes, ChildEnds, StrayEnds, TypeOK
<1>7. CASE Quits
  BY <1>7 DEF Quits, TypeOK
<1>8. CASE Exits
  BY <1>8 DEF Exits, ChildCut, TypeOK
<1>9. CASE UNCHANGED vars
  BY <1>9 DEF vars
<1> QED BY <1>1, <1>2, <1>3, <1>4, <1>5, <1>6, <1>7, <1>8, <1>9 DEF Next

-----------------------------------------------------------------------------
(* One copy of each call. *)

(* At first there is none. *)
LEMMA InitOneCopy == Init => OneCopy
BY RangeEmpty DEF Init, OneCopy, Unread

(* What does not touch the pipes, the counts or the callers in line keeps it. *)
LEMMA OneCopyKept ==
  ASSUME OneCopy, IsInjective(queue'), IsInjective(stdin'),
         Range(queue') \subseteq Range(queue), Range(stdin') \subseteq Range(stdin),
         sending' \subseteq sending, asked \subseteq asked', asked' \subseteq Call,
         asked' # asked => UNCHANGED sending,
         app' = "up" => app = "up", UNCHANGED ran
  PROVE  OneCopy'
BY DEF OneCopy, Unread

(* The supervisor's steps move a call from the channel to the child, or drop it. *)
LEMMA ServeOneCopy == TypeOK /\ Stages /\ OneCopy /\ Serve => OneCopy'
<1> SUFFICES ASSUME TypeOK, Stages, OneCopy, Serve PROVE OneCopy'
  OBVIOUS
<1> USE DEF desk, super, proc
<1>0. queue \in Seq(Frames) /\ stdin \in Seq(Commands)
  BY DEF TypeOK, Frames
<1>i. IsInjective(queue) /\ IsInjective(stdin) /\ asked \subseteq Call /\ sending \subseteq asked
  BY DEF OneCopy, TypeOK
<1>1. ASSUME NEW kind \in Kinds, Take(kind), UNCHANGED <<app, asked, sending, ran>>,
             stdin' = Append(stdin, Head(queue))
      PROVE  OneCopy'
  <2> DEFINE f == Head(queue)
  <2>1. /\ f \in Commands /\ Range(queue) = {f} \cup Range(queue')
        /\ f \notin Range(queue') /\ IsInjective(queue')
    BY <1>1, <1>i, Takes
  <2>2. f \notin Range(stdin)
    BY <2>1 DEF OneCopy
  <2>3. Range(stdin') = Range(stdin) \cup {f} /\ IsInjective(stdin')
    BY <1>0, <1>1, <1>i, <2>1, <2>2, RangeAppend, OnceAppend
  <2>4. \A c \in Call : Cmd("rpc", c) \in Commands
    BY FrameForms DEF Kinds
  <2>5. \A c \in Call : Unread(c)' => Unread(c)
    BY <1>1, <2>1, <2>3 DEF Unread
  <2>6. \A c \in sending' : Cmd("rpc", c) \notin Range(queue') \cup Range(stdin')
    BY <1>1, <2>1, <2>3 DEF OneCopy
  <2>7. \A g \in Commands : ~(g \in Range(queue') /\ g \in Range(stdin'))
    BY <2>1, <2>3 DEF OneCopy
  <2>8. app' = "up" => Shutdown \notin Range(queue')
    BY <1>1, <2>1 DEF OneCopy
  <2> QED BY <1>1, <2>1, <2>3, <2>5, <2>6, <2>7, <2>8 DEF OneCopy
<1>2. ASSUME NEW kind \in Kinds, Take(kind), UNCHANGED <<app, asked, sending, ran, stdin>>
      PROVE  OneCopy'
  BY <1>2, <1>i, Takes, OneCopyKept
<1>3. CASE WritesCall
  <2>1. Take("rpc") /\ UNCHANGED <<app, asked, sending, ran>> /\ "rpc" \in Kinds
    BY <1>3 DEF WritesCall, Kinds
  <2>2. Head(queue) = Cmd("rpc", Head(queue).call)
    BY <2>1, Takes
  <2>3. stdin' = stdin \/ stdin' = Append(stdin, Head(queue))
    BY <1>3, <2>2 DEF WritesCall
  <2> QED BY <1>1, <1>2, <2>1, <2>3
<1>4. CASE WritesCancel
  BY <1>1, <1>2, <1>4 DEF WritesCancel, Kinds
<1>5. CASE RefusesCall \/ DropsCancel
  BY <1>2, <1>5 DEF RefusesCall, DropsCancel, Kinds
<1>6. CASE ShutsDown
  <2>1. /\ UNCHANGED <<app, asked, sending, ran>> /\ queue' = <<>> /\ stdin' = <<>>
    BY <1>6 DEF ShutsDown, Ends, Killed
  <2> QED BY <1>i, <2>1, RangeEmpty, OneCopyKept
<1>7. CASE RoutesReply
  BY <1>i, <1>7, OneCopyKept DEF RoutesReply
<1>8. CASE SeesEnd
  <2>1. /\ UNCHANGED <<app, asked, sending, ran, queue>> /\ stdin' = <<>>
    BY <1>8 DEF SeesEnd, Killed
  <2> QED BY <1>i, <2>1, RangeEmpty, OneCopyKept
<1> QED BY <1>3, <1>4, <1>5, <1>6, <1>7, <1>8 DEF Serve

(* Every step keeps it. *)
LEMMA OneCopyStep == TypeOK /\ Stages /\ OneCopy /\ CancelsAreAsked /\ [Next]_vars => OneCopy'
<1> SUFFICES ASSUME TypeOK, Stages, OneCopy, CancelsAreAsked, [Next]_vars PROVE OneCopy'
  OBVIOUS
<1> USE DEF desk, super, proc
<1>0. queue \in Seq(Frames) /\ stdin \in Seq(Commands)
  BY DEF TypeOK, Frames
<1>i. IsInjective(queue) /\ IsInjective(stdin) /\ asked \subseteq Call /\ sending \subseteq asked
  BY DEF OneCopy, TypeOK
<1>1. ASSUME NEW c \in Call, Calls(c) PROVE OneCopy'
  BY <1>1, <1>i DEF Calls, OneCopy, Unread
<1>2. ASSUME NEW c \in Call, Enqueues(c) PROVE OneCopy'
  <2>1. Cmd("rpc", c) \in Frames /\ Cmd("rpc", c) # Shutdown /\ Cmd("rpc", c) \in Commands
    BY FrameForms DEF Kinds
  <2>2. CASE Closed
    BY <1>2, <1>i, <2>2, OneCopyKept DEF Enqueues
  <2>3. CASE ~Closed
    <3>1. Cmd("rpc", c) \notin Range(queue) \cup Range(stdin)
      BY <1>2 DEF Enqueues, OneCopy
    <3>2. Range(queue') = Range(queue) \cup {Cmd("rpc", c)} /\ IsInjective(queue')
      BY <1>2, <1>i, <2>1, <2>3, <3>1, Puts DEF Enqueues
    <3>3. UNCHANGED <<app, asked, stdin, ran>> /\ sending' = sending \ {c} /\ c \in sending
      BY <1>2 DEF Enqueues
    <3>4. \A d \in Call : d # c => Cmd("rpc", d) # Cmd("rpc", c)
      BY FrameForms DEF Kinds
    <3>5. \A d \in Call : Unread(d)' => Unread(d)
      BY <3>2, <3>3, <3>4 DEF Unread
    <3>6. \A d \in Call : d \in sending' => Cmd("rpc", d) \notin Range(queue') \cup Range(stdin')
      BY <3>2, <3>3, <3>4 DEF OneCopy
    <3> QED BY <1>i, <2>1, <3>1, <3>2, <3>3, <3>5, <3>6 DEF OneCopy
  <2> QED BY <2>2, <2>3
<1>3. ASSUME NEW c \in Call, TimesOut(c) PROVE OneCopy'
  BY <1>3, <1>i, OneCopyKept DEF TimesOut
<1>4. ASSUME NEW c \in Call, Cancels(c) PROVE OneCopy'
  <2>1. Cmd("cancel", c) \in Frames /\ Cmd("cancel", c) # Shutdown /\ Cmd("cancel", c) \in Commands
    BY FrameForms DEF Kinds
  <2>2. Cmd("cancel", c) \notin Range(queue) \cup Range(stdin)
    BY <1>4 DEF Cancels, CancelsAreAsked
  <2>3. Range(queue') = Range(queue) \cup {Cmd("cancel", c)} /\ IsInjective(queue')
    BY <1>4, <1>i, <2>1, <2>2, Puts DEF Cancels
  <2>4. \A d \in Call : Cmd("rpc", d) # Cmd("cancel", c)
    BY FrameForms DEF Kinds
  <2>5. UNCHANGED <<app, asked, sending, stdin, ran>>
    BY <1>4 DEF Cancels
  <2>6. \A d \in Call : Unread(d)' => Unread(d)
    BY <2>3, <2>4, <2>5 DEF Unread
  <2>7. \A d \in Call : d \in sending' => Cmd("rpc", d) \notin Range(queue') \cup Range(stdin')
    BY <2>3, <2>4, <2>5 DEF OneCopy
  <2> QED BY <1>i, <2>1, <2>2, <2>3, <2>5, <2>6, <2>7 DEF OneCopy
<1>5. ASSUME NEW c \in Call, Replies(c) PROVE OneCopy'
  BY <1>5, <1>i, OneCopyKept DEF Replies
<1>6. CASE Startup
  <2>1. UNCHANGED <<app, asked, sending, queue, stdin, ran>>
    BY <1>6 DEF Startup, Spawns, Connects, StartFails, AuthRefused, RetryFails, Respawns, Abandon
  <2> QED BY <1>i, <2>1, OneCopyKept
<1>7. CASE Serve
  BY <1>7, ServeOneCopy
<1>8. CASE Reads
  <2>1. stdin # <<>> /\ stdin' = Tail(stdin) /\ UNCHANGED <<app, asked, sending, queue>>
    BY <1>8 DEF Reads
  <2>2. /\ Range(stdin) = {Head(stdin)} \cup Range(stdin') /\ Head(stdin) \in Commands
        /\ IsInjective(stdin') /\ Head(stdin) \notin Range(stdin')
    BY <1>0, <1>i, <2>1, RangeTail, OnceTail
  <2>3. CASE Head(stdin).kind # "rpc"
    <3>1. UNCHANGED ran
      BY <1>8, <2>3 DEF Reads
    <3> QED BY <1>i, <2>1, <2>2, <3>1, OneCopyKept
  <2>4. CASE Head(stdin).kind = "rpc"
    <3>1. PICK c \in Call : Head(stdin) = Cmd("rpc", c) /\ Head(stdin).call = c
      BY <2>2, <2>4, FrameForms DEF Frames, Kinds
    <3>2. ran' = [ran EXCEPT ![c] = @ + 1]
      BY <1>8, <2>4, <3>1 DEF Reads
    <3>3. c \in asked /\ ran[c] = 0
      BY <2>2, <3>1 DEF OneCopy, Unread
    <3>4. ran'[c] = 1 /\ \A d \in Call : d # c => ran'[d] = ran[d]
      BY <3>1, <3>2, <3>3 DEF TypeOK
    <3>5. ~Unread(c)'
      BY <2>1, <2>2, <3>1 DEF OneCopy, Unread
    <3>6. \A d \in Call : Unread(d)' => Unread(d) /\ d # c
      BY <2>1, <2>2, <3>5 DEF Unread
    <3> QED BY <1>i, <2>1, <2>2, <3>3, <3>4, <3>6 DEF OneCopy
  <2> QED BY <2>3, <2>4
<1>9. CASE Crashes \/ ChildEnds \/ StrayEnds
  <2>1. UNCHANGED <<app, asked, sending, queue, ran>> /\ (UNCHANGED stdin \/ stdin' = <<>>)
    BY <1>9 DEF Crashes, ChildEnds, StrayEnds
  <2> QED BY <1>i, <2>1, RangeEmpty, OneCopyKept
<1>10. CASE Quits
  <2>1. UNCHANGED <<asked, sending, stdin, ran>> /\ app = "up" /\ app' = "quitting"
    BY <1>10 DEF Quits
  <2>2. Shutdown \notin Range(queue) /\ Shutdown \in Frames
    BY <2>1, FrameForms DEF OneCopy
  <2>3. /\ IsInjective(queue')
        /\ Range(queue') = Range(queue) \/ Range(queue') = Range(queue) \cup {Shutdown}
    BY <1>10, <1>i, <2>2, Puts DEF Quits
  <2>4. \A f \in Commands : f \in Range(queue') <=> f \in Range(queue)
    BY <2>3, FrameForms
  <2>5. \A c \in Call : Cmd("rpc", c) \in Commands
    BY FrameForms DEF Kinds
  <2> QED BY <1>i, <2>1, <2>3, <2>4, <2>5 DEF OneCopy, Unread
<1>11. CASE Exits
  <2>1. /\ UNCHANGED <<asked, stdin, ran>> /\ queue' = <<>> /\ sending' = {} /\ app' = "gone"
    BY <1>11 DEF Exits
  <2> QED BY <1>i, <2>1, RangeEmpty, OneCopyKept
<1>12. CASE UNCHANGED vars
  BY <1>12, <1>i, OneCopyKept DEF vars
<1> QED
  BY <1>1, <1>2, <1>3, <1>4, <1>5, <1>6, <1>7, <1>8, <1>9, <1>10, <1>11, <1>12 DEF Next

-----------------------------------------------------------------------------
(* Cancellations and replies. *)

(* At first nothing was canceled and nothing replied. *)
LEMMA InitReplies == Init => CancelsAreAsked /\ RepliesAreOwn
BY RangeEmpty, AnswersAssumption DEF Init, CancelsAreAsked, CanceledAsked, RepliesAreOwn

(* Failing callers tells none of them CANCELED. *)
LEMMA ErrorsAreNotCanceled ==
  ASSUME TypeOK, CanceledAsked, canceled \subseteq canceled',
         \/ UNCHANGED answer
         \/ \E c \in Call : Give(c, Error)
         \/ \E calls : FailAll(calls)
  PROVE  CanceledAsked'
BY AnswersAssumption DEF TypeOK, CanceledAsked, Give, FailAll

(* What tells nobody CANCELED, adds no cancellation to the pipes and aborts no
   handler keeps it that cancellations were asked for. *)
LEMMA CancelsKept ==
  ASSUME TypeOK, CancelsAreAsked, canceled \subseteq canceled',
         \A c \in Call : Cmd("cancel", c) \in Range(queue') \cup Range(stdin')
                           => Cmd("cancel", c) \in Range(queue) \cup Range(stdin),
         aborted' \subseteq aborted \/ app' = "gone", app = "gone" => app' = "gone",
         Range(stdout') \subseteq Range(stdout),
         CanceledAsked'
  PROVE  CancelsAreAsked'
BY DEF CancelsAreAsked

(* The supervisor's steps carry cancellations along and make none up. *)
LEMMA ServeCancels == TypeOK /\ Stages /\ OneCopy /\ CancelsAreAsked /\ Serve => CancelsAreAsked'
<1> SUFFICES ASSUME TypeOK, Stages, OneCopy, CancelsAreAsked, Serve PROVE CancelsAreAsked'
  OBVIOUS
<1> USE DEF desk, super, proc
<1>0. /\ queue \in Seq(Frames) /\ stdin \in Seq(Commands) /\ CanceledAsked
      /\ stdout \in Seq([id : Call, value : Call \cup {Error, Canceled}])
  BY DEF TypeOK, Frames, CancelsAreAsked
<1>1. CASE WritesCall \/ WritesCancel
  <2>1. PICK kind \in Kinds : Take(kind)
    BY <1>1 DEF WritesCall, WritesCancel, Kinds
  <2>2. /\ Range(queue) = {Head(queue)} \cup Range(queue') /\ Head(queue) \in Commands
        /\ Head(queue) = Cmd(kind, Head(queue).call) /\ Head(queue).call \in Call
    BY <2>1, Takes
  <2>3. stdin' = stdin \/ stdin' = Append(stdin, Head(queue))
    <3>1. CASE WritesCall
      <4>1. Take("rpc") /\ "rpc" \in Kinds
        BY <3>1 DEF WritesCall, Kinds
      <4>2. Head(queue) = Cmd("rpc", Head(queue).call)
        BY <4>1, Takes
      <4> QED BY <3>1, <4>2 DEF WritesCall
    <3>2. CASE WritesCancel
      BY <3>2 DEF WritesCancel
    <3> QED BY <1>1, <3>1, <3>2
  <2>4. Range(stdin') \subseteq Range(stdin) \cup {Head(queue)}
    <3>1. stdin \in Seq(Commands) /\ Head(queue) \in Commands
      BY <1>0, <2>2
    <3>2. Range(Append(stdin, Head(queue))) = Range(stdin) \cup {Head(queue)}
      BY <3>1, RangeAppend
    <3> QED BY <2>3, <3>2
  <2>5. UNCHANGED <<app, canceled, aborted, stdout>>
    BY <1>1 DEF WritesCall, WritesCancel
  <2>6. UNCHANGED answer \/ Give(Head(queue).call, Error)
    BY <1>1 DEF WritesCall, WritesCancel
  <2>7. CanceledAsked'
    BY <1>0, <2>2, <2>5, <2>6, ErrorsAreNotCanceled
  <2> QED BY <2>2, <2>4, <2>5, <2>7, CancelsKept
<1>2. CASE RefusesCall \/ DropsCancel
  <2>1. PICK kind \in Kinds : Take(kind)
    BY <1>2 DEF RefusesCall, DropsCancel, Kinds
  <2>2. Range(queue') \subseteq Range(queue) /\ Head(queue).call \in Call
    BY <2>1, Takes
  <2>3. /\ UNCHANGED <<app, canceled, aborted, stdin, stdout>>
        /\ UNCHANGED answer \/ Give(Head(queue).call, Error)
    BY <1>2 DEF RefusesCall, DropsCancel
  <2> QED BY <1>0, <2>2, <2>3, CancelsKept, ErrorsAreNotCanceled
<1>3. CASE ShutsDown
  <2>1. /\ UNCHANGED <<app, canceled>> /\ queue' = <<>> /\ stdin' = <<>> /\ stdout' = <<>>
        /\ aborted' = {} /\ FailAll(Queued \cup pending)
    BY <1>3 DEF ShutsDown, Ends, Killed
  <2> QED BY <1>0, <2>1, RangeEmpty, CancelsKept, ErrorsAreNotCanceled
<1>4. CASE RoutesReply
  <2>1. /\ stdout # <<>> /\ stdout' = Tail(stdout)
        /\ UNCHANGED <<app, canceled, queue, stdin, aborted>>
        /\ UNCHANGED answer \/ Give(Head(stdout).id, Head(stdout).value)
    BY <1>4 DEF RoutesReply, Owner
  <2>2. Head(stdout) \in Range(stdout) /\ Range(stdout') \subseteq Range(stdout)
    BY <1>0, <2>1, RangeTail
  <2>3. Head(stdout).value = Canceled => Head(stdout).id \in canceled
    BY <2>2 DEF CancelsAreAsked
  <2>4. CanceledAsked'
    BY <1>0, <2>1, <2>3 DEF CanceledAsked, Give, TypeOK
  <2> QED BY <2>1, <2>2, <2>4, CancelsKept
<1>5. CASE SeesEnd
  <2>1. /\ UNCHANGED <<app, canceled, queue>> /\ stdin' = <<>> /\ stdout' = <<>>
        /\ aborted' = {} /\ FailAll(pending)
    BY <1>5 DEF SeesEnd, Killed
  <2> QED BY <1>0, <2>1, RangeEmpty, CancelsKept, ErrorsAreNotCanceled
<1> QED BY <1>1, <1>2, <1>3, <1>4, <1>5 DEF Serve

(* Every step keeps it that cancellations were asked for. *)
LEMMA CancelsStep == TypeOK /\ Stages /\ OneCopy /\ CancelsAreAsked /\ [Next]_vars => CancelsAreAsked'
<1> SUFFICES ASSUME TypeOK, Stages, OneCopy, CancelsAreAsked, [Next]_vars PROVE CancelsAreAsked'
  OBVIOUS
<1> USE DEF desk, super, proc
<1>0. /\ queue \in Seq(Frames) /\ stdin \in Seq(Commands) /\ CanceledAsked
      /\ stdout \in Seq([id : Call, value : Call \cup {Error, Canceled}])
  BY DEF TypeOK, Frames, CancelsAreAsked
<1>1. ASSUME NEW c \in Call, Calls(c) \/ TimesOut(c) PROVE CancelsAreAsked'
  BY <1>0, <1>1, CancelsKept, ErrorsAreNotCanceled DEF Calls, TimesOut
<1>2. ASSUME NEW c \in Call, Enqueues(c) PROVE CancelsAreAsked'
  <2>1. UNCHANGED <<app, canceled, stdin, aborted, stdout>> /\ (UNCHANGED answer \/ Give(c, Error))
    BY <1>2 DEF Enqueues
  <2>2. Range(queue') \subseteq Range(queue) \cup {Cmd("rpc", c)}
    <3>1. Cmd("rpc", c) \in Frames
      BY FrameForms DEF Kinds
    <3> QED BY <1>2, <3>1, Puts DEF Enqueues
  <2>3. \A d \in Call : Cmd("cancel", d) # Cmd("rpc", c)
    BY FrameForms DEF Kinds
  <2> QED BY <1>0, <2>1, <2>2, <2>3, CancelsKept, ErrorsAreNotCanceled
<1>3. ASSUME NEW c \in Call, Cancels(c) PROVE CancelsAreAsked'
  <2>1. UNCHANGED <<app, answer, stdin, aborted, stdout>> /\ canceled' = canceled \cup {c}
    BY <1>3 DEF Cancels
  <2>2. Range(queue') = Range(queue) \cup {Cmd("cancel", c)}
    <3>1. Cmd("cancel", c) \in Frames
      BY FrameForms DEF Kinds
    <3> QED BY <1>3, <3>1, Puts DEF Cancels
  <2>3. \A d \in Call : Cmd("cancel", d) = Cmd("cancel", c) => d = c
    BY FrameForms DEF Kinds
  <2> QED BY <1>0, <2>1, <2>2, <2>3 DEF CancelsAreAsked, CanceledAsked
<1>4. ASSUME NEW c \in Call, Replies(c) PROVE CancelsAreAsked'
  <2>1. /\ UNCHANGED <<app, canceled, answer, queue, stdin>>
        /\ aborted' = aborted \ {c} /\ c \in handlers
    BY <1>4 DEF Replies
  <2>2. CASE child = "closing"
    BY <1>0, <1>4, <2>1, <2>2, CancelsKept, ErrorsAreNotCanceled DEF Replies
  <2>3. CASE child # "closing"
    <3>1. PICK value \in {c, IF c \in aborted THEN Canceled ELSE Error} :
            stdout' = Append(stdout, Reply(c, value))
      BY <1>4, <2>3 DEF Replies
    <3>2. Reply(c, value) \in [id : Call, value : Call \cup {Error, Canceled}]
      BY <3>1 DEF Reply
    <3>3. Range(stdout') = Range(stdout) \cup {Reply(c, value)}
      <4>1. stdout \in Seq(ReplyFrames) /\ Reply(c, value) \in ReplyFrames
        BY <1>0, <3>2 DEF ReplyFrames
      <4>2. Range(Append(stdout, Reply(c, value))) = Range(stdout) \cup {Reply(c, value)}
        BY <4>1, RangeAppend
      <4>3. stdout' = Append(stdout, Reply(c, value))
        BY <3>1
      <4> QED BY <4>2, <4>3
    <3>4. app # "gone"
      BY <2>1, <2>3 DEF Stages, TypeOK
    <3>5. value = Canceled => c \in canceled
      BY <3>1, <3>4, AnswersAssumption DEF CancelsAreAsked
    <3>6. Reply(c, value).id = c /\ Reply(c, value).value = value
      BY DEF Reply
    <3> QED BY <1>0, <2>1, <3>3, <3>5, <3>6 DEF CancelsAreAsked, CanceledAsked
  <2> QED BY <2>2, <2>3
<1>5. CASE Startup
  <2>1. UNCHANGED <<app, canceled, answer, queue, stdin, aborted, stdout>>
    BY <1>5 DEF Startup, Spawns, Connects, StartFails, AuthRefused, RetryFails, Respawns, Abandon
  <2> QED BY <1>0, <2>1, CancelsKept, ErrorsAreNotCanceled
<1>6. CASE Serve
  BY <1>6, ServeCancels
<1>7. CASE Reads
  <2>1. /\ UNCHANGED <<app, canceled, answer, queue, stdout>>
        /\ stdin # <<>> /\ stdin' = Tail(stdin)
    BY <1>7 DEF Reads
  <2>2. Range(stdin) = {Head(stdin)} \cup Range(stdin') /\ Head(stdin) \in Commands
    BY <1>0, <2>1, RangeTail
  <2>3. CASE Head(stdin).kind = "rpc"
    <3>1. UNCHANGED aborted
      BY <1>7, <2>3 DEF Reads
    <3> QED BY <1>0, <2>1, <2>2, <3>1, CancelsKept, ErrorsAreNotCanceled
  <2>4. CASE Head(stdin).kind # "rpc"
    <3>1. PICK c \in Call : Head(stdin) = Cmd("cancel", c) /\ Head(stdin).call = c
      BY <2>2, <2>4, FrameForms DEF Frames, Kinds
    <3>2. c \in canceled
      BY <2>2, <3>1 DEF CancelsAreAsked
    <3>3. aborted' \subseteq aborted \cup {c}
      BY <1>7, <2>4, <3>1 DEF Reads, Aborts
    <3> QED BY <1>0, <2>1, <2>2, <3>2, <3>3 DEF CancelsAreAsked, CanceledAsked
  <2> QED BY <2>3, <2>4
<1>8. CASE Crashes \/ ChildEnds \/ StrayEnds
  <2>1. /\ UNCHANGED <<app, canceled, answer, queue, stdout>>
        /\ UNCHANGED stdin \/ stdin' = <<>>
        /\ aborted' \subseteq aborted
    BY <1>8 DEF Crashes, ChildEnds, StrayEnds
  <2> QED BY <1>0, <2>1, RangeEmpty, CancelsKept, ErrorsAreNotCanceled
<1>9. CASE Quits
  <2>1. UNCHANGED <<canceled, answer, stdin, aborted, stdout>> /\ app = "up" /\ app' = "quitting"
    BY <1>9 DEF Quits
  <2>2. Range(queue') \subseteq Range(queue) \cup {Shutdown}
    BY <1>9, Puts, FrameForms DEF Quits
  <2>3. \A c \in Call : Cmd("cancel", c) # Shutdown
    BY FrameForms DEF Kinds
  <2> QED BY <1>0, <2>1, <2>2, <2>3, CancelsKept, ErrorsAreNotCanceled
<1>10. CASE Exits
  <2>1. /\ UNCHANGED <<canceled, stdin>> /\ queue' = <<>> /\ stdout' = <<>> /\ app' = "gone"
        /\ FailAll(asked)
    BY <1>10 DEF Exits
  <2> QED BY <1>0, <2>1, RangeEmpty, CancelsKept, ErrorsAreNotCanceled
<1>11. CASE UNCHANGED vars
  BY <1>0, <1>11, CancelsKept, ErrorsAreNotCanceled DEF vars
<1> QED BY <1>1, <1>2, <1>3, <1>4, <1>5, <1>6, <1>7, <1>8, <1>9, <1>10, <1>11 DEF Next

(* What neither starts a method nor puts a reply into the pipe keeps it that
   replies are of calls that ran. *)
LEMMA RepliesKept ==
  ASSUME RepliesAreOwn, UNCHANGED ran, handlers' \subseteq handlers,
         Range(stdout') \subseteq Range(stdout)
  PROVE  RepliesAreOwn'
BY DEF RepliesAreOwn

(* Every step keeps it. *)
LEMMA RepliesStep == TypeOK /\ OneCopy /\ RepliesAreOwn /\ [Next]_vars => RepliesAreOwn'
<1> SUFFICES ASSUME TypeOK, OneCopy, RepliesAreOwn, [Next]_vars PROVE RepliesAreOwn'
  OBVIOUS
<1> USE DEF desk, super, proc
<1>0. stdin \in Seq(Commands) /\ stdout \in Seq(ReplyFrames)
  BY DEF TypeOK, ReplyFrames
<1>1. ASSUME NEW c \in Call, Calls(c) \/ TimesOut(c) \/ Enqueues(c) \/ Cancels(c)
      PROVE  RepliesAreOwn'
  BY <1>1, RepliesKept DEF Calls, TimesOut, Enqueues, Cancels
<1>2. ASSUME NEW c \in Call, Replies(c) PROVE RepliesAreOwn'
  <2>1. UNCHANGED ran /\ handlers' = handlers \ {c} /\ c \in handlers
    BY <1>2 DEF Replies
  <2>2. CASE child = "closing"
    BY <1>2, <2>1, <2>2, RepliesKept DEF Replies
  <2>3. CASE child # "closing"
    <3>1. PICK value \in {c, IF c \in aborted THEN Canceled ELSE Error} :
            stdout' = Append(stdout, Reply(c, value))
      BY <1>2, <2>3 DEF Replies
    <3>2. value \in {c, Error, Canceled}
      BY <3>1
    <3>3. /\ Reply(c, value) \in ReplyFrames
          /\ Reply(c, value).id = c /\ Reply(c, value).value = value
      BY <3>2 DEF Reply, ReplyFrames
    <3>4. Range(stdout') = Range(stdout) \cup {Reply(c, value)}
      <4>1. Range(Append(stdout, Reply(c, value))) = Range(stdout) \cup {Reply(c, value)}
        BY <1>0, <3>3, RangeAppend
      <4> QED BY <3>1, <4>1
    <3> QED BY <2>1, <3>2, <3>3, <3>4 DEF RepliesAreOwn
  <2> QED BY <2>2, <2>3
<1>3. CASE Startup
  <2>1. UNCHANGED <<ran, handlers, stdout>>
    BY <1>3 DEF Startup, Spawns, Connects, StartFails, AuthRefused, RetryFails, Respawns, Abandon
  <2> QED BY <2>1, RepliesKept
<1>4. CASE Serve
  <2>1. UNCHANGED ran /\ (UNCHANGED handlers \/ handlers' = {})
    BY <1>4 DEF Serve, WritesCall, WritesCancel, RefusesCall, DropsCancel, ShutsDown, RoutesReply,
                SeesEnd, Killed
  <2>2. UNCHANGED stdout \/ stdout' = <<>> \/ (stdout # <<>> /\ stdout' = Tail(stdout))
    BY <1>4 DEF Serve, WritesCall, WritesCancel, RefusesCall, DropsCancel, ShutsDown, RoutesReply,
                SeesEnd, Killed
  <2>3. Range(stdout') \subseteq Range(stdout)
    BY <1>0, <2>2, RangeTail, RangeEmpty
  <2> QED BY <2>1, <2>3, RepliesKept
<1>5. CASE Reads
  <2>1. UNCHANGED stdout /\ stdin # <<>>
    BY <1>5 DEF Reads
  <2>2. Head(stdin) \in Range(stdin) /\ Head(stdin) \in Commands
    BY <1>0, <2>1, RangeTail
  <2>3. CASE Head(stdin).kind = "rpc"
    <3>1. PICK c \in Call : Head(stdin) = Cmd("rpc", c) /\ Head(stdin).call = c
      BY <2>2, <2>3, FrameForms DEF Frames, Kinds
    <3>2. ran[c] = 0
      BY <2>2, <3>1 DEF OneCopy, Unread
    <3>3. handlers' = handlers \cup {c} /\ ran' = [ran EXCEPT ![c] = @ + 1]
      BY <1>5, <2>3, <3>1 DEF Reads
    <3>4. ran'[c] = 1 /\ \A d \in Call : ran[d] = 1 => ran'[d] = 1
      BY <3>2, <3>3 DEF TypeOK
    <3>5. handlers \subseteq Call /\ \A f \in Range(stdout) : f.id \in Call
      <4>1. Range(stdout) \subseteq ReplyFrames
        BY <1>0 DEF Range
      <4> QED BY <4>1 DEF TypeOK, ReplyFrames
    <3> QED BY <2>1, <3>3, <3>4, <3>5 DEF RepliesAreOwn
  <2>4. CASE Head(stdin).kind # "rpc"
    BY <1>5, <2>1, <2>4, RepliesKept DEF Reads
  <2> QED BY <2>3, <2>4
<1>6. CASE Crashes \/ ChildEnds \/ StrayEnds
  BY <1>6, RepliesKept DEF Crashes, ChildEnds, StrayEnds
<1>7. CASE Quits
  BY <1>7, RepliesKept DEF Quits
<1>8. CASE Exits
  BY <1>8, RepliesKept, RangeEmpty DEF Exits
<1>9. CASE UNCHANGED vars
  BY <1>9, RepliesKept DEF vars
<1> QED BY <1>1, <1>2, <1>3, <1>4, <1>5, <1>6, <1>7, <1>8, <1>9 DEF Next

-----------------------------------------------------------------------------
(* The invariant holds in every reachable state, for any calls, any capacity
   and any number of restarts. *)
THEOREM DesktopInvariant == Spec => []DesktopInv
<1>1. Init => DesktopInv
  BY InitTypes, InitStages, InitOneCopy, InitReplies DEF DesktopInv
<1>2. DesktopInv /\ [Next]_vars => DesktopInv'
  BY TypeStep, StagesStep, OneCopyStep, CancelsStep, RepliesStep DEF DesktopInv
<1> QED BY <1>1, <1>2, PTL DEF Spec

(* Nobody is told CANCELED who did not cancel (protocol.ts: a cancel names its
   call by an id that is never used again), however often the child is
   started again and whatever is lost with it. *)
THEOREM OnlyCancelersAreCanceled == Spec => []CanceledAsked
BY DesktopInvariant, PTL DEF DesktopInv, CancelsAreAsked

-----------------------------------------------------------------------------
(* Nobody is forgotten. *)

(* At first nobody waits. *)
LEMMA InitNobodyForgotten == Init => NobodyForgotten
BY DEF Init, NobodyForgotten, Waits

(* Who still waits waited before, or has just called. *)
LEMMA WaitsBefore ==
  ASSUME TypeOK, UNCHANGED asked,
         \/ UNCHANGED answer
         \/ \E c \in Call : \E v : Give(c, v)
         \/ \E calls : FailAll(calls)
  PROVE  \A c \in Call : Waits(c)' => Waits(c)
BY AnswersAssumption DEF TypeOK, Waits, Give, FailAll

(* Who was failed does not wait. *)
LEMMA FailedDoNotWait ==
  ASSUME TypeOK, UNCHANGED asked, NEW calls, FailAll(calls)
  PROVE  \A c \in Call : Waits(c)' => Waits(c) /\ c \notin calls
BY AnswersAssumption DEF TypeOK, Waits, FailAll

(* Who was given an answer does not wait. *)
LEMMA GivenDoesNotWait ==
  ASSUME TypeOK, UNCHANGED asked, NEW c \in Call, NEW v \in Call \cup {Error, Canceled}, Give(c, v)
  PROVE  \A d \in Call : Waits(d)' => Waits(d) /\ d # c
BY AnswersAssumption DEF TypeOK, Waits, Give

(* The calls that are queued are those whose frame is in the channel. *)
LEMMA QueuedInChannel == TypeOK => \A c \in Call : Cmd("rpc", c) \in Range(queue) => c \in Queued
<1> SUFFICES ASSUME TypeOK, NEW c \in Call, Cmd("rpc", c) \in Range(queue) PROVE c \in Queued
  OBVIOUS
<1>1. PICK i \in DOMAIN queue : queue[i] = Cmd("rpc", c)
  BY DEF Range
<1>2. queue[i].kind = "rpc" /\ queue[i].call = c
  BY <1>1 DEF Cmd
<1> QED BY <1>2 DEF Queued

(* The supervisor answers a caller, or passes its call on. *)
LEMMA ServeForgetsNobody == TypeOK /\ Stages /\ NobodyForgotten /\ Serve => NobodyForgotten'
<1> SUFFICES ASSUME TypeOK, Stages, NobodyForgotten, Serve PROVE NobodyForgotten'
  OBVIOUS
<1> USE DEF desk, super, proc
<1>0. /\ queue \in Seq(Frames) /\ stdin \in Seq(Commands) /\ stdout \in Seq(ReplyFrames)
      /\ pending \subseteq Call
  BY DEF TypeOK, Frames, ReplyFrames
<1>1. CASE WritesCall
  <2>1. Take("rpc") /\ "rpc" \in Kinds
    BY <1>1 DEF WritesCall, Kinds
  <2>2. PICK c \in Call : Head(queue) = Cmd("rpc", c) /\ Head(queue).call = c
    BY <2>1, Takes
  <2>3. Range(queue) = {Cmd("rpc", c)} \cup Range(queue') /\ Cmd("rpc", c) \in Commands
    BY <2>1, <2>2, Takes
  <2>4. UNCHANGED <<asked, sending, child, handlers, stdout>>
    BY <1>1 DEF WritesCall
  <2>5. \A d \in Call : d # c => Cmd("rpc", d) # Cmd("rpc", c)
    BY FrameForms DEF Kinds
  <2>6. Range(Append(stdin, Cmd("rpc", c))) = Range(stdin) \cup {Cmd("rpc", c)}
    BY <1>0, <2>3, RangeAppend
  <2>7. CASE /\ pending' = pending \cup {c} /\ UNCHANGED answer
             /\ stdin' = IF child = "serving" THEN Append(stdin, Cmd("rpc", c)) ELSE stdin
    <3>1. child \in {"serving", "dead"}
      BY <1>1 DEF WritesCall, Stages
    <3>2. child # "dead" => Range(stdin') = Range(stdin) \cup {Cmd("rpc", c)}
      BY <2>6, <2>7, <3>1
    <3>3. \A d \in Call : Waits(d)' => Waits(d)
      BY <2>4, <2>7, WaitsBefore
    <3>4. \A d \in Call : Waits(d)' =>
            d \in sending' \/ Cmd("rpc", d) \in Range(queue') \/ d \in pending'
      BY <2>3, <2>4, <2>5, <2>7, <3>3 DEF NobodyForgotten
    <3>5. \A d \in pending' : child' # "dead" =>
            \/ Cmd("rpc", d) \in Range(stdin') \/ d \in handlers'
            \/ \E f \in Range(stdout') : f.id = d
      BY <2>4, <2>7, <3>2 DEF NobodyForgotten
    <3> QED BY <3>4, <3>5 DEF NobodyForgotten
  <2>8. CASE child = "dead" /\ Give(c, Error) /\ UNCHANGED <<pending, stdin>>
    <3>1. \A d \in Call : Waits(d)' => Waits(d) /\ d # c
      BY <2>4, <2>8, GivenDoesNotWait
    <3> QED BY <2>3, <2>4, <2>5, <2>8, <3>1 DEF NobodyForgotten
  <2> QED BY <1>1, <2>2, <2>7, <2>8 DEF WritesCall
<1>2. CASE WritesCancel
  <2>1. Take("cancel") /\ "cancel" \in Kinds
    BY <1>2 DEF WritesCancel, Kinds
  <2>2. PICK c \in Call : Head(queue) = Cmd("cancel", c)
    BY <2>1, Takes
  <2>3. Range(queue) = {Cmd("cancel", c)} \cup Range(queue') /\ Head(queue) \in Commands
    BY <2>1, <2>2, Takes
  <2>4. \A d \in Call : Cmd("rpc", d) # Cmd("cancel", c)
    BY FrameForms DEF Kinds
  <2>5. UNCHANGED <<asked, answer, sending, pending, child, handlers, stdout>>
    BY <1>2 DEF WritesCancel
  <2>6. Range(Append(stdin, Head(queue))) = Range(stdin) \cup {Head(queue)}
    BY <1>0, <2>3, RangeAppend
  <2>7. stdin' = Append(stdin, Head(queue)) \/ stdin' = stdin
    BY <1>2 DEF WritesCancel
  <2>8. Range(stdin) \subseteq Range(stdin')
    BY <2>6, <2>7
  <2> QED BY <2>3, <2>4, <2>5, <2>8 DEF NobodyForgotten, Waits
<1>3. CASE RefusesCall
  <2>1. Take("rpc") /\ "rpc" \in Kinds
    BY <1>3 DEF RefusesCall, Kinds
  <2>2. PICK c \in Call : Head(queue) = Cmd("rpc", c) /\ Head(queue).call = c
    BY <2>1, Takes
  <2>3. Range(queue) = {Cmd("rpc", c)} \cup Range(queue')
    BY <2>1, <2>2, Takes
  <2>4. UNCHANGED <<asked, sending, pending, child, stdin, handlers, stdout>> /\ Give(c, Error)
    BY <1>3, <2>2 DEF RefusesCall
  <2>5. \A d \in Call : Waits(d)' => Waits(d) /\ d # c
    BY <2>4, GivenDoesNotWait
  <2>6. \A d \in Call : d # c => Cmd("rpc", d) # Cmd("rpc", c)
    BY FrameForms DEF Kinds
  <2> QED BY <2>3, <2>4, <2>5, <2>6 DEF NobodyForgotten
<1>4. CASE DropsCancel
  <2>1. Take("cancel") /\ "cancel" \in Kinds
    BY <1>4 DEF DropsCancel, Kinds
  <2>2. PICK c \in Call : Head(queue) = Cmd("cancel", c)
    BY <2>1, Takes
  <2>3. Range(queue) = {Cmd("cancel", c)} \cup Range(queue')
    BY <2>1, <2>2, Takes
  <2>4. \A d \in Call : Cmd("rpc", d) # Cmd("cancel", c)
    BY FrameForms DEF Kinds
  <2>5. UNCHANGED <<asked, answer, sending, pending, child, stdin, handlers, stdout>>
    BY <1>4 DEF DropsCancel
  <2> QED BY <2>3, <2>4, <2>5 DEF NobodyForgotten, Waits
<1>5. CASE ShutsDown
  <2>1. UNCHANGED <<asked, sending>> /\ pending' = {} /\ FailAll(Queued \cup pending)
    BY <1>5 DEF ShutsDown, Ends
  <2>2. \A c \in Call : Waits(c)' => Waits(c) /\ c \notin Queued \cup pending
    BY <2>1, FailedDoNotWait
  <2> QED BY <2>1, <2>2, QueuedInChannel DEF NobodyForgotten
<1>6. CASE RoutesReply
  <2> DEFINE g == Head(stdout)
  <2>1. /\ stdout # <<>> /\ stdout' = Tail(stdout) /\ pending' = pending \ {g.id}
        /\ IF g.id \in pending THEN Give(g.id, g.value) ELSE UNCHANGED answer
        /\ UNCHANGED <<asked, queue, sending, child, stdin, handlers>>
    BY <1>6 DEF RoutesReply, Owner
  <2>2. Range(stdout) = {g} \cup Range(stdout') /\ g \in ReplyFrames
    BY <1>0, <2>1, RangeTail
  <2>3. PICK c \in Call, v \in Call \cup {Error, Canceled} : c = g.id /\ v = g.value
    BY <2>2 DEF ReplyFrames
  <2>4. \A d \in Call : Waits(d)' => Waits(d) /\ (d = c => c \notin pending)
    BY <2>1, <2>3, WaitsBefore, GivenDoesNotWait
  <2>5. \A d \in Call : Waits(d)' =>
          d \in sending' \/ Cmd("rpc", d) \in Range(queue') \/ d \in pending'
    BY <2>1, <2>3, <2>4 DEF NobodyForgotten
  <2>6. ASSUME NEW d \in pending', child' # "dead"
        PROVE  \/ Cmd("rpc", d) \in Range(stdin') \/ d \in handlers'
               \/ \E f \in Range(stdout') : f.id = d
    <3>1. d \in pending /\ d # g.id /\ child # "dead"
      BY <2>1, <2>6
    <3> QED BY <2>1, <2>2, <3>1 DEF NobodyForgotten
  <2> QED BY <2>5, <2>6 DEF NobodyForgotten
<1>7. CASE SeesEnd
  <2>1. UNCHANGED <<asked, sending, queue>> /\ pending' = {} /\ FailAll(pending)
    BY <1>7 DEF SeesEnd
  <2>2. \A c \in Call : Waits(c)' => Waits(c) /\ c \notin pending
    BY <2>1, FailedDoNotWait
  <2> QED BY <2>1, <2>2 DEF NobodyForgotten
<1> QED BY <1>1, <1>2, <1>3, <1>4, <1>5, <1>6, <1>7 DEF Serve

(* No step forgets a caller or loses a pending call of a living child. *)
LEMMA ForgetsNobodyStep == TypeOK /\ Stages /\ NobodyForgotten /\ [Next]_vars => NobodyForgotten'
<1> SUFFICES ASSUME TypeOK, Stages, NobodyForgotten, [Next]_vars PROVE NobodyForgotten'
  OBVIOUS
<1> USE DEF desk, super, proc
<1>0. /\ queue \in Seq(Frames) /\ stdin \in Seq(Commands) /\ stdout \in Seq(ReplyFrames)
      /\ pending \subseteq Call
      /\ pending # {} => sup = "running"
  BY DEF TypeOK, Frames, ReplyFrames
<1>1. ASSUME NEW c \in Call, Calls(c) PROVE NobodyForgotten'
  BY <1>1 DEF Calls, NobodyForgotten, Waits
<1>2. ASSUME NEW c \in Call, Enqueues(c) PROVE NobodyForgotten'
  <2>1. UNCHANGED <<asked, pending, child, stdin, handlers, stdout>> /\ sending' = sending \ {c}
    BY <1>2 DEF Enqueues
  <2>2. CASE Closed
    <3>1. Give(c, Error) /\ UNCHANGED queue
      BY <1>2, <2>2 DEF Enqueues
    <3>2. \A d \in Call : Waits(d)' => Waits(d) /\ d # c
      BY <2>1, <3>1, GivenDoesNotWait
    <3> QED BY <2>1, <3>1, <3>2 DEF NobodyForgotten
  <2>3. CASE ~Closed
    <3>1. Cmd("rpc", c) \in Frames
      BY FrameForms DEF Kinds
    <3>2. Range(queue') = Range(queue) \cup {Cmd("rpc", c)} /\ UNCHANGED answer
      BY <1>2, <2>3, <3>1, Puts DEF Enqueues
    <3> QED BY <2>1, <3>2 DEF NobodyForgotten, Waits
  <2> QED BY <2>2, <2>3
<1>3. ASSUME NEW c \in Call, TimesOut(c) PROVE NobodyForgotten'
  <2>1. UNCHANGED <<asked, sending, queue, pending, child, stdin, handlers, stdout>>
    BY <1>3 DEF TimesOut
  <2>2. \A d \in Call : Waits(d)' => Waits(d)
    BY <1>3, <2>1, WaitsBefore DEF TimesOut
  <2> QED BY <2>1, <2>2 DEF NobodyForgotten
<1>4. ASSUME NEW c \in Call, Cancels(c) PROVE NobodyForgotten'
  <2>1. Cmd("cancel", c) \in Frames
    BY FrameForms DEF Kinds
  <2>2. Range(queue) \subseteq Range(queue')
    BY <1>4, <2>1, Puts DEF Cancels
  <2>3. UNCHANGED <<asked, answer, sending, pending, child, stdin, handlers, stdout>>
    BY <1>4 DEF Cancels
  <2> QED BY <2>2, <2>3 DEF NobodyForgotten, Waits
<1>5. ASSUME NEW c \in Call, Replies(c) PROVE NobodyForgotten'
  <2>1. /\ UNCHANGED <<asked, answer, sending, queue, pending, child, stdin>>
        /\ handlers' = handlers \ {c}
    BY <1>5 DEF Replies
  <2>2. CASE child = "closing"
    <3>1. pending = {}
      BY <1>0, <2>2 DEF Stages
    <3> QED BY <2>1, <3>1 DEF NobodyForgotten, Waits
  <2>3. CASE child # "closing"
    <3>1. PICK value \in {c, IF c \in aborted THEN Canceled ELSE Error} :
            stdout' = Append(stdout, Reply(c, value))
      BY <1>5, <2>3 DEF Replies
    <3>2. Reply(c, value) \in ReplyFrames /\ Reply(c, value).id = c
      BY <3>1 DEF Reply, ReplyFrames
    <3>3. Range(stdout') = Range(stdout) \cup {Reply(c, value)}
      <4>1. Range(Append(stdout, Reply(c, value))) = Range(stdout) \cup {Reply(c, value)}
        BY <1>0, <3>2, RangeAppend
      <4> QED BY <3>1, <4>1
    <3> QED BY <2>1, <3>2, <3>3 DEF NobodyForgotten, Waits
  <2> QED BY <2>2, <2>3
<1>6. CASE Startup
  <2>1. UNCHANGED <<asked, answer, sending, queue, pending, stdin, handlers, stdout>>
    BY <1>6 DEF Startup, Spawns, Connects, StartFails, AuthRefused, RetryFails, Respawns, Abandon
  <2>2. pending = {}
    BY <1>0, <1>6 DEF Startup, Spawns, Connects, StartFails, AuthRefused, RetryFails, Respawns,
                      Stages
  <2> QED BY <2>1, <2>2 DEF NobodyForgotten, Waits
<1>7. CASE Serve
  BY <1>7, ServeForgetsNobody
<1>8. CASE Reads
  <2>1. /\ UNCHANGED <<asked, answer, sending, queue, pending, child, stdout>>
        /\ stdin # <<>> /\ stdin' = Tail(stdin)
    BY <1>8 DEF Reads
  <2>2. Range(stdin) = {Head(stdin)} \cup Range(stdin') /\ Head(stdin) \in Commands
    BY <1>0, <2>1, RangeTail
  <2>3. /\ handlers \subseteq handlers'
        /\ \A c \in Call : Head(stdin) = Cmd("rpc", c) => c \in handlers'
    <3>1. \A c \in Call : Head(stdin) = Cmd("rpc", c)
            => Head(stdin).kind = "rpc" /\ Head(stdin).call = c
      BY FrameForms DEF Kinds
    <3> QED BY <1>8, <3>1 DEF Reads
  <2> QED BY <1>0, <2>1, <2>2, <2>3 DEF NobodyForgotten, Waits
<1>9. CASE Crashes
  BY <1>9 DEF Crashes, NobodyForgotten, Waits
<1>10. CASE ChildEnds
  <2>1. pending = {}
    BY <1>0, <1>10 DEF ChildEnds, Stages
  <2> QED BY <1>10, <2>1 DEF ChildEnds, NobodyForgotten, Waits
<1>11. CASE StrayEnds
  BY <1>11 DEF StrayEnds, NobodyForgotten, Waits
<1>12. CASE Quits
  <2>1. Range(queue) \subseteq Range(queue')
    BY <1>12, Puts, FrameForms DEF Quits
  <2>2. UNCHANGED <<asked, answer, sending, pending, child, stdin, handlers, stdout>>
    BY <1>12 DEF Quits
  <2> QED BY <2>1, <2>2 DEF NobodyForgotten, Waits
<1>13. CASE Exits
  <2>1. UNCHANGED asked /\ pending' = {} /\ FailAll(asked)
    BY <1>13 DEF Exits
  <2>2. \A c \in Call : Waits(c)' => Waits(c) /\ c \notin asked
    BY <2>1, FailedDoNotWait
  <2> QED BY <2>1, <2>2 DEF NobodyForgotten, Waits
<1>14. CASE UNCHANGED vars
  BY <1>14 DEF vars, NobodyForgotten, Waits
<1> QED BY <1>1, <1>2, <1>3, <1>4, <1>5, <1>6, <1>7, <1>8, <1>9, <1>10, <1>11, <1>12, <1>13, <1>14
        DEF Next

(* A caller that waits is in line for the channel, in it, or pending, and a
   pending call is with the child or on its way, unless the child has died
   (sidecar.rs run_loop, fail_pending): no step of startups, restarts, lost
   replies and late answers loses a caller on the way. *)
THEOREM NobodyIsForgotten == Spec => []NobodyForgotten
<1>1. Init => NobodyForgotten
  BY InitNobodyForgotten
<1>2. DesktopInv /\ NobodyForgotten /\ [Next]_vars => NobodyForgotten'
  BY ForgetsNobodyStep DEF DesktopInv
<1> QED BY <1>1, <1>2, DesktopInvariant, PTL DEF Spec

-----------------------------------------------------------------------------
(* The supervisor implements RemoteCall. *)

(* The initial states map to initial states. *)
LEMMA RemoteInit == Init => Remote!Init
BY AnswersAssumption DEF Init, Remote!Init

(* A call is open in RemoteCall while its caller waits. *)
LEMMA OpenWaits == TypeOK => \A c \in Call : Remote!Open(c) <=> Waits(c)
BY AnswersAssumption DEF TypeOK, Remote!Open, Waits

(* Failing callers, one or several, is RemoteCall's Fail... *)
LEMMA FailingIsFail ==
  ASSUME TypeOK, UNCHANGED <<asked, ran>>, NEW calls, FailAll(calls)
  PROVE  Remote!Fail
<1> DEFINE failed == {c \in Call : c \in calls /\ Waits(c)}
<1>1. failed \in SUBSET {c \in Call : Remote!Open(c)}
  BY OpenWaits
<1>2. \A c \in Call : answer'[c] = IF c \in failed THEN Error ELSE answer[c]
  BY DEF FailAll
<1>3. [c \in Call |-> IF answer'[c] = Canceled THEN Error ELSE answer'[c]]
        = [c \in Call |-> IF c \in failed THEN Error
                          ELSE [d \in Call |-> IF answer[d] = Canceled THEN Error ELSE answer[d]][c]]
  BY <1>2, AnswersAssumption
<1> QED BY <1>1, <1>3 DEF Remote!Fail

(* ... also when the caller is told CANCELED. *)
LEMMA GivingErrorIsFail ==
  ASSUME TypeOK, UNCHANGED <<asked, ran>>,
         NEW c \in Call, NEW v \in {Error, Canceled}, Give(c, v)
  PROVE  Remote!Fail
<1> DEFINE failed == {d \in {c} : Waits(c)}
<1>1. failed \in SUBSET {d \in Call : Remote!Open(d)}
  BY OpenWaits
<1>2. \A d \in Call : answer'[d] = IF d \in failed THEN v ELSE answer[d]
  BY DEF Give, TypeOK
<1>3. [d \in Call |-> IF answer'[d] = Canceled THEN Error ELSE answer'[d]]
        = [d \in Call |-> IF d \in failed THEN Error
                          ELSE [e \in Call |-> IF answer[e] = Canceled THEN Error ELSE answer[e]][d]]
  BY <1>2, AnswersAssumption
<1> QED BY <1>1, <1>3 DEF Remote!Fail

(* A caller that still waits and gets its own result, of a call that ran, is
   RemoteCall's Return; one that waits no more gets nothing. *)
LEMMA GivingResultIsReturn ==
  ASSUME TypeOK, UNCHANGED <<asked, ran>>, NEW c \in Call, ran[c] = 1, Give(c, c)
  PROVE  Remote!Return(c) \/ UNCHANGED answer
<1>1. CASE Waits(c)
  <2>1. \A d \in Call : answer'[d] = IF d = c THEN c ELSE answer[d]
    BY <1>1 DEF Give, TypeOK
  <2>2. [d \in Call |-> IF answer'[d] = Canceled THEN Error ELSE answer'[d]]
          = [[d \in Call |-> IF answer[d] = Canceled THEN Error ELSE answer[d]] EXCEPT ![c] = c]
    BY <2>1, AnswersAssumption
  <2> QED BY <1>1, <2>2, OpenWaits DEF Remote!Return
<1>2. CASE ~Waits(c)
  BY <1>2 DEF Give, TypeOK
<1> QED BY <1>1, <1>2

(* A step that leaves the calls, their runs and their answers alone is a
   stutter of RemoteCall. *)
LEMMA Stutters ==
  ASSUME UNCHANGED <<asked, ran, answer>> PROVE UNCHANGED Remote!vars
BY DEF Remote!vars

(* Every step maps to a step or a stutter. *)
LEMMA RemoteStep == DesktopInv /\ [Next]_vars => [Remote!Next]_(Remote!vars)
<1> SUFFICES ASSUME DesktopInv, [Next]_vars PROVE Remote!Next \/ UNCHANGED Remote!vars
  OBVIOUS
<1> USE DEF desk, super, proc
<1>0. TypeOK /\ OneCopy /\ RepliesAreOwn
  BY DEF DesktopInv
<1>s. /\ queue \in Seq(Frames) /\ stdin \in Seq(Commands) /\ stdout \in Seq(ReplyFrames)
  BY <1>0 DEF TypeOK, Frames, ReplyFrames
<1>1. ASSUME NEW c \in Call, Calls(c) PROVE Remote!Next
  <2>1. Remote!Ask(c)
    BY <1>1 DEF Calls, Remote!Ask
  <2> QED BY <2>1 DEF Remote!Next
<1>2. ASSUME NEW c \in Call, Enqueues(c) \/ TimesOut(c) PROVE Remote!Next \/ UNCHANGED Remote!vars
  <2>1. UNCHANGED <<asked, ran>> /\ (UNCHANGED answer \/ Give(c, Error))
    BY <1>2 DEF Enqueues, TimesOut
  <2>2. UNCHANGED Remote!vars \/ Remote!Fail
    BY <1>0, <2>1, Stutters, GivingErrorIsFail
  <2> QED BY <2>2 DEF Remote!Next
<1>3. ASSUME NEW c \in Call, Cancels(c) \/ Replies(c) PROVE UNCHANGED Remote!vars
  BY <1>3, Stutters DEF Cancels, Replies
<1>4. CASE Startup
  <2>1. UNCHANGED <<asked, ran, answer>>
    BY <1>4 DEF Startup, Spawns, Connects, StartFails, AuthRefused, RetryFails, Respawns, Abandon
  <2> QED BY <2>1, Stutters
<1>5. CASE Serve
  <2>1. CASE WritesCall \/ RefusesCall
    <3>1. Take("rpc") /\ "rpc" \in Kinds
      BY <2>1 DEF WritesCall, RefusesCall, Kinds
    <3>2. PICK c \in Call : Head(queue).call = c
      BY <1>0, <3>1, Takes
    <3>3. UNCHANGED <<asked, ran>> /\ (UNCHANGED answer \/ Give(c, Error))
      BY <2>1, <3>2 DEF WritesCall, RefusesCall
    <3>4. UNCHANGED Remote!vars \/ Remote!Fail
      BY <1>0, <3>3, Stutters, GivingErrorIsFail
    <3> QED BY <3>4 DEF Remote!Next
  <2>2. CASE WritesCancel \/ DropsCancel
    BY <2>2, Stutters DEF WritesCancel, DropsCancel
  <2>3. CASE ShutsDown
    <3>1. UNCHANGED <<asked, ran>> /\ FailAll(Queued \cup pending)
      BY <2>3 DEF ShutsDown, Ends, Killed
    <3>2. Remote!Fail
      BY <1>0, <3>1, FailingIsFail
    <3> QED BY <3>2 DEF Remote!Next
  <2>4. CASE SeesEnd
    <3>1. UNCHANGED <<asked, ran>> /\ FailAll(pending)
      BY <2>4 DEF SeesEnd, Killed
    <3>2. Remote!Fail
      BY <1>0, <3>1, FailingIsFail
    <3> QED BY <3>2 DEF Remote!Next
  <2>5. CASE RoutesReply
    <3>1. /\ stdout # <<>> /\ UNCHANGED <<asked, ran>>
          /\ UNCHANGED answer \/ Give(Head(stdout).id, Head(stdout).value)
      BY <2>5 DEF RoutesReply, Owner
    <3>2. Head(stdout) \in Range(stdout) /\ Head(stdout) \in ReplyFrames
      BY <1>s, <3>1, RangeTail
    <3>3. PICK c \in Call, v \in Call \cup {Error, Canceled} :
            c = Head(stdout).id /\ v = Head(stdout).value
      BY <3>2 DEF ReplyFrames
    <3>4. ran[c] = 1 /\ v \in {c, Error, Canceled}
      BY <1>0, <3>2, <3>3 DEF RepliesAreOwn
    <3>5. UNCHANGED answer \/ Give(c, v)
      BY <3>1, <3>3
    <3>6. UNCHANGED Remote!vars \/ Remote!Fail \/ Remote!Return(c)
      BY <1>0, <3>1, <3>4, <3>5, Stutters, GivingErrorIsFail, GivingResultIsReturn
    <3> QED BY <3>6 DEF Remote!Next
  <2> QED BY <1>5, <2>1, <2>2, <2>3, <2>4, <2>5 DEF Serve
<1>6. CASE Reads
  <2>1. UNCHANGED <<asked, answer>> /\ stdin # <<>>
    BY <1>6 DEF Reads
  <2>2. CASE Head(stdin).kind # "rpc"
    BY <1>6, <2>1, <2>2, Stutters DEF Reads
  <2>3. CASE Head(stdin).kind = "rpc"
    <3>1. Head(stdin) \in Range(stdin) /\ Head(stdin) \in Commands
      BY <1>s, <2>1, RangeTail
    <3>2. PICK c \in Call : Head(stdin) = Cmd("rpc", c) /\ Head(stdin).call = c
      BY <2>3, <3>1, FrameForms DEF Frames, Kinds
    <3>3. c \in asked /\ ran[c] = 0
      BY <1>0, <3>1, <3>2 DEF OneCopy, Unread
    <3>4. ran' = [ran EXCEPT ![c] = 1]
      BY <1>6, <2>3, <3>2, <3>3 DEF Reads
    <3>5. Remote!Run(c)
      BY <2>1, <3>3, <3>4 DEF Remote!Run
    <3> QED BY <3>5 DEF Remote!Next
  <2> QED BY <2>2, <2>3
<1>7. CASE Crashes \/ ChildEnds \/ StrayEnds \/ Quits
  BY <1>7, Stutters DEF Crashes, ChildEnds, StrayEnds, Quits
<1>8. CASE Exits
  <2>1. UNCHANGED <<asked, ran>> /\ FailAll(asked)
    BY <1>8 DEF Exits
  <2>2. Remote!Fail
    BY <1>0, <2>1, FailingIsFail
  <2> QED BY <2>2 DEF Remote!Next
<1>9. CASE UNCHANGED vars
  BY <1>9, Stutters DEF vars
<1> QED BY <1>1, <1>2, <1>3, <1>4, <1>5, <1>6, <1>7, <1>8, <1>9 DEF Next

(* The safety part of RemoteCallSpec: whatever crashes, restarts, times out or
   comes late, a method runs at most once for a call, and a caller gets the
   result of its own call, which ran, or an error, once.  That every caller is
   answered stays with TLC. *)
THEOREM SupervisorImplementsRemoteCall ==
  Spec => Remote!Init /\ [][Remote!Next]_(Remote!vars)
<1>1. Init => Remote!Init
  BY RemoteInit
<1>2. []DesktopInv /\ [][Next]_vars => [][Remote!Next]_(Remote!vars)
  BY RemoteStep, PTL
<1> QED BY <1>1, <1>2, DesktopInvariant, PTL DEF Spec

-----------------------------------------------------------------------------
(* The tray.  An apply the shell waits for and whose run has started is the
   one the sidecar is busy with. *)
AwaitedRuns ==
  \A a \in ApplyTask : task[a].pc = "run" => running = {task[a].holds}

TasksAreTotal == task = [t \in Tasks |-> task[t]]

TrayInv == TasksAreTotal /\ OneApplyAwaited /\ AwaitedRuns

(* Where a task stands after drawing. *)
LEMMA NextPcs ==
  /\ NextPc["show"] = "set" /\ NextPc["set"] = "call"
  /\ NextPc["reshow"] = "reset" /\ NextPc["reset"] = "refresh"
  /\ NextPc["draw"] = "put" /\ NextPc["put"] = "idle"
BY DEF NextPc

(* Moving a task leaves the others where they are. *)
LEMMA Moves ==
  ASSUME TasksAreTotal, NEW t \in Tasks, NEW to, NEW holds,
         task' = [task EXCEPT ![t] = [pc |-> to, holds |-> holds]]
  PROVE  /\ TasksAreTotal'
         /\ task'[t].pc = to /\ task'[t].holds = holds
         /\ \A u \in Tasks : u # t => task'[u] = task[u]
BY DEF TasksAreTotal

(* A task that moves within the wait for an apply, or outside it, and is not
   the run of one, keeps the invariant. *)
LEMMA MovesAside ==
  ASSUME TrayInv, NEW t \in Tasks, NEW to, NEW holds,
         task' = [task EXCEPT ![t] = [pc |-> to, holds |-> holds]],
         task[t].pc \in {"show", "set", "call", "run"} <=> to \in {"show", "set", "call", "run"},
         to # "run", UNCHANGED <<busy, running>>
  PROVE  TrayInv'
<1>1. /\ TasksAreTotal' /\ task'[t].pc = to /\ task'[t].holds = holds
      /\ \A u \in Tasks : u # t => task'[u] = task[u]
  BY Moves DEF TrayInv
<1>2. Waiting' = Waiting
  BY <1>1 DEF Waiting, Tasks, ActionTask
<1>3. AwaitedRuns'
  BY <1>1 DEF AwaitedRuns, TrayInv, Tasks, ActionTask
<1> QED BY <1>1, <1>2, <1>3 DEF TrayInv, OneApplyAwaited

(* At first no task runs. *)
LEMMA InitTray == TrayInit => TrayInv
BY DEF TrayInit, TrayInv, TasksAreTotal, OneApplyAwaited, AwaitedRuns, Waiting, Idle, Tasks, ActionTask

(* Every step of the tray keeps the invariant. *)
LEMMA TrayStep == TrayInv /\ [TrayNext]_trayVars => TrayInv'
<1> SUFFICES ASSUME TrayInv, [TrayNext]_trayVars PROVE TrayInv'
  OBVIOUS
<1> USE DEF sidecar
<1>t. ApplyTask \subseteq Tasks /\ Refresh \subseteq Tasks /\ "unload" \in Tasks
  BY DEF Tasks, ActionTask
<1>1. CASE Elsewhere
  BY <1>1 DEF Elsewhere, TrayInv, TasksAreTotal, OneApplyAwaited, AwaitedRuns, Waiting
<1>2. ASSUME NEW t \in Tasks, TaskStep(t) PROVE TrayInv'
  <2>1. PICK from \in {"show", "reshow", "draw", "set", "reset", "put"} :
          /\ task[t].pc = from /\ UNCHANGED <<busy, running>>
          /\ \E holds : task' = [task EXCEPT ![t] = [pc |-> NextPc[from], holds |-> holds]]
    BY <1>2 DEF TaskStep, Composes, Draws
  <2>2. PICK holds : task' = [task EXCEPT ![t] = [pc |-> NextPc[from], holds |-> holds]]
    BY <2>1
  <2>3. /\ NextPc[from] # "run"
        /\ from \in {"show", "set", "call", "run"} <=> NextPc[from] \in {"show", "set", "call", "run"}
    BY NextPcs
  <2> QED BY <2>1, <2>2, <2>3, MovesAside
<1>3. ASSUME NEW p \in Profile, RunsOut(p) PROVE TrayInv'
  <2>1. /\ p \in running /\ ~Awaited(p) /\ UNCHANGED <<busy, task>>
    BY <1>3 DEF RunsOut
  <2>2. \A a \in ApplyTask : task[a].pc # "run"
    BY <2>1 DEF TrayInv, AwaitedRuns, Awaited
  <2> QED BY <2>1, <2>2 DEF TrayInv, TasksAreTotal, OneApplyAwaited, AwaitedRuns, Waiting
<1>4. ASSUME NEW a \in ApplyTask, NEW p \in Profile, ClickApply(a, p) PROVE TrayInv'
  <2>1. /\ ~busy /\ busy' = TRUE /\ UNCHANGED running /\ a \in Tasks
        /\ task' = [task EXCEPT ![a] = [pc |-> "show", holds |-> p]]
    BY <1>4, <1>t DEF ClickApply, Goes
  <2>2. /\ TasksAreTotal' /\ task'[a].pc = "show"
        /\ \A u \in Tasks : u # a => task'[u] = task[u]
    BY <2>1, Moves DEF TrayInv
  <2>3. Waiting = {}
    BY <2>1 DEF TrayInv, OneApplyAwaited
  <2>4. Waiting' = {a}
    BY <1>t, <2>2, <2>3 DEF Waiting
  <2>5. AwaitedRuns'
    BY <1>t, <2>1, <2>2 DEF AwaitedRuns, TrayInv
  <2> QED BY <2>1, <2>2, <2>4, <2>5 DEF TrayInv, OneApplyAwaited
<1>5. ASSUME NEW a \in ApplyTask, Applies(a) PROVE TrayInv'
  <2>1. /\ task[a].pc = "call" /\ running' = {task[a].holds} /\ UNCHANGED busy /\ a \in Tasks
        /\ task' = [task EXCEPT ![a] = [pc |-> "run", holds |-> task[a].holds]]
    BY <1>5, <1>t DEF Applies, Goes
  <2>2. /\ TasksAreTotal' /\ task'[a].pc = "run" /\ task'[a].holds = task[a].holds
        /\ \A u \in Tasks : u # a => task'[u] = task[u]
    BY <2>1, Moves DEF TrayInv
  <2>3. Waiting' = Waiting
    BY <1>t, <2>1, <2>2 DEF Waiting
  <2>4. \A b \in ApplyTask : task'[b].pc = "run" => b = a
    BY <1>t, <2>1, <2>2 DEF TrayInv, OneApplyAwaited, Waiting
  <2>5. AwaitedRuns'
    BY <2>1, <2>2, <2>4 DEF AwaitedRuns
  <2> QED BY <2>1, <2>2, <2>3, <2>5 DEF TrayInv, OneApplyAwaited
<1>6. ASSUME NEW a \in ApplyTask, Returns(a) PROVE TrayInv'
  <2>1. /\ task[a].pc \in {"call", "run"} /\ busy' = FALSE /\ a \in Tasks
        /\ task' = [task EXCEPT ![a] = [pc |-> "reshow", holds |-> None]]
    BY <1>6, <1>t DEF Returns, Goes
  <2>2. /\ TasksAreTotal' /\ task'[a].pc = "reshow"
        /\ \A u \in Tasks : u # a => task'[u] = task[u]
    BY <2>1, Moves DEF TrayInv
  <2>3. Waiting = {a}
    BY <2>1 DEF TrayInv, OneApplyAwaited, Waiting
  <2>4. Waiting' = {}
    BY <1>t, <2>2, <2>3 DEF Waiting
  <2>5. AwaitedRuns'
    BY <2>4 DEF AwaitedRuns, Waiting
  <2> QED BY <2>1, <2>2, <2>4, <2>5 DEF TrayInv, OneApplyAwaited
<1>7. CASE ClickUnload
  BY <1>7, <1>t, MovesAside DEF ClickUnload, Goes
<1>8. CASE Unloads
  BY <1>8, <1>t, MovesAside DEF Unloads, Goes
<1>9. ASSUME NEW r \in Refresh, Asks(r) \/ RefreshStep(r) PROVE TrayInv'
  <2>1. PICK to \in {"fetch", "keep", "draw"}, from \in {"idle", "fetch", "keep"} :
          /\ task[r].pc = from /\ UNCHANGED <<busy, running>>
          /\ \E holds : task' = [task EXCEPT ![r] = [pc |-> to, holds |-> holds]]
    BY <1>9 DEF Asks, RefreshStep, Answers, Keeps, Goes
  <2> QED BY <1>t, <2>1, MovesAside
<1>10. ASSUME NEW t \in ActionTask, NEW r \in Refresh, Hands(t, r) PROVE TrayInv'
  <2>1. /\ task[t].pc = "refresh" /\ task[r].pc = "idle" /\ UNCHANGED <<busy, running>>
        /\ task' = [task EXCEPT ![t] = Idle, ![r] = [pc |-> "fetch", holds |-> None]]
        /\ t \in Tasks /\ r \in Tasks
    BY <1>10, <1>t DEF Hands, Tasks
  <2>2. /\ TasksAreTotal' /\ task'[r].pc = "fetch" /\ (t # r => task'[t].pc = "idle")
        /\ \A u \in Tasks : u # r /\ u # t => task'[u] = task[u]
    BY <2>1 DEF TrayInv, TasksAreTotal, Idle
  <2>3. Waiting' = Waiting
    BY <1>t, <2>1, <2>2 DEF Waiting
  <2>4. AwaitedRuns'
    BY <1>t, <2>1, <2>2 DEF AwaitedRuns, TrayInv
  <2> QED BY <2>1, <2>2, <2>3, <2>4 DEF TrayInv, OneApplyAwaited
<1>11. CASE UNCHANGED trayVars
  BY <1>11 DEF trayVars, TrayInv, TasksAreTotal, OneApplyAwaited, AwaitedRuns, Waiting
<1> QED
  BY <1>1, <1>2, <1>3, <1>4, <1>5, <1>6, <1>7, <1>8, <1>9, <1>10, <1>11 DEF TrayNext, ApplyStep

(* The invariant of the tray holds in every reachable state. *)
THEOREM TrayInvariant == TraySpec => []TrayInv
BY InitTray, TrayStep, PTL DEF TraySpec

(* The shell waits for at most one apply of its own and its busy flag says
   whether it does (tray.rs run_apply), however many clicks, refreshes and
   late answers overlap. *)
THEOREM TrayAwaitsOneApply == TraySpec => []OneApplyAwaited
BY TrayInvariant, PTL DEF TrayInv

-----------------------------------------------------------------------------
(* The sidecar's end of a channel: types. *)
Codes == {"METHOD_NOT_FOUND", "CANCELED", "failed", "result", "done"}
Sayings ==
  {"nothing", "authenticated", "UNAUTHORIZED", "200", "400", "401", "404", "405", "proxy", "canceled",
   "not found"}
Outcomes == [code : Codes, count : Nat, canceled : BOOLEAN]
CallStates ==
  [id : CallIds, method : Methods, path : {"line", "/rpc", "/rpc/stream"},
   phase : {"dispatched", "streaming", "ended"}, aborted : BOOLEAN, count : Nat,
   answer : Outcomes \cup {Nothing}]
ActiveMaps == UNION {[ids -> Nat] : ids \in SUBSET CallIds}
Channels ==
  [transport : {"line", "http"}, open : BOOLEAN, authenticated : BOOLEAN, active : ActiveMaps,
   calls : Seq(CallStates), cancels : SUBSET CallIds, said : Sayings]

(* What is in the map of calls that a cancel reaches. *)
Reaches(s) ==
  \A id \in DOMAIN s.active :
    LET n == s.active[id]
    IN  /\ n \in DOMAIN s.calls /\ s.calls[n].id = id
        /\ s.calls[n].phase # "ended"
        /\ s.transport = "line" => s.calls[n].phase = "dispatched"

(* The calls, whatever reaches them. *)
Histories(s) ==
  /\ s.transport = "line" /\ s.calls # <<>> => s.authenticated
  /\ \A n \in DOMAIN s.calls :
       LET call == s.calls[n]
       IN  /\ call.path = "line" <=> s.transport = "line"
           /\ call.aborted => call.id \in s.cancels \/ ~s.open
           /\ call.answer # Nothing =>
                call.phase = "ended" /\ (call.answer.code = "CANCELED" => call.aborted)

LatestReached ==
  \A n \in DOMAIN channel.calls :
    OpenCall(n) /\ Latest(n) /\ ~OutOfReach(n) =>
      IF channel.open
      THEN channel.calls[n].id \in DOMAIN channel.active /\ channel.active[channel.calls[n].id] = n
      ELSE channel.calls[n].aborted

SaidTrue ==
  channel.said = "canceled" => \E n \in DOMAIN channel.calls : OpenCall(n) /\ channel.calls[n].aborted

ChannelInv == channel \in Channels /\ Reaches(channel) /\ Histories(channel) /\ LatestReached /\ SaidTrue

-----------------------------------------------------------------------------
(* A channel's state is known by its fields. *)
LEMMA ChannelFields ==
  ASSUME NEW s \in Channels
  PROVE  /\ s.transport \in {"line", "http"} /\ s.open \in BOOLEAN /\ s.authenticated \in BOOLEAN
         /\ s.calls \in Seq(CallStates) /\ s.cancels \subseteq CallIds /\ s.said \in Sayings
         /\ s.active \in ActiveMaps
         /\ Len(s.calls) \in Nat /\ DOMAIN s.calls = 1 .. Len(s.calls)
         /\ \A n \in DOMAIN s.calls : s.calls[n] \in CallStates
BY DEF Channels

(* The map goes from ids to places in the history of calls. *)
LEMMA MapFields ==
  ASSUME NEW a \in ActiveMaps
  PROVE  /\ DOMAIN a \subseteq CallIds
         /\ a = [id \in DOMAIN a |-> a[id]]
         /\ \A id \in DOMAIN a : a[id] \in Nat
BY DEF ActiveMaps

(* An entry goes or comes, and a map is left. *)
LEMMA MapForms ==
  /\ \A a \in ActiveMaps : \A d : [id \in DOMAIN a \ {d} |-> a[id]] \in ActiveMaps
  /\ \A a \in ActiveMaps, d \in CallIds, n \in Nat :
       [i \in DOMAIN a \cup {d} |-> IF i = d THEN n ELSE a[i]] \in ActiveMaps
  /\ [id \in {} |-> 0] \in ActiveMaps
<1>1. ASSUME NEW a \in ActiveMaps, NEW d PROVE [id \in DOMAIN a \ {d} |-> a[id]] \in ActiveMaps
  <2> DEFINE D == DOMAIN a \ {d}
  <2>1. D \in SUBSET CallIds /\ \A id \in D : a[id] \in Nat
    BY MapFields
  <2>2. [id \in D |-> a[id]] \in [D -> Nat]
    BY <2>1
  <2> QED BY <2>1, <2>2 DEF ActiveMaps
<1>2. ASSUME NEW a \in ActiveMaps, NEW d \in CallIds, NEW n \in Nat
      PROVE  [i \in DOMAIN a \cup {d} |-> IF i = d THEN n ELSE a[i]] \in ActiveMaps
  <2> DEFINE D == DOMAIN a \cup {d}
  <2>1. D \in SUBSET CallIds /\ \A id \in D : id = d \/ a[id] \in Nat
    BY MapFields
  <2>2. [i \in D |-> IF i = d THEN n ELSE a[i]] \in [D -> Nat]
    BY <2>1
  <2> QED BY <2>1, <2>2 DEF ActiveMaps
<1>3. [id \in {} |-> 0] \in [{} -> Nat] /\ {} \in SUBSET CallIds
  OBVIOUS
<1> QED BY <1>1, <1>2, <1>3 DEF ActiveMaps

(* What each helper leaves of a channel. *)
LEMMA SaysFields ==
  ASSUME NEW s \in Channels, NEW x \in Sayings
  PROVE  /\ Says(s, x) \in Channels /\ Says(s, x).said = x
         /\ Says(s, x).transport = s.transport /\ Says(s, x).open = s.open
         /\ Says(s, x).authenticated = s.authenticated /\ Says(s, x).calls = s.calls
         /\ Says(s, x).active = s.active /\ Says(s, x).cancels = s.cancels
BY DEF Says, Channels

(* Freeing a call takes its id's entry out of the map, and no more. *)
LEMMA FreesFields ==
  ASSUME NEW s \in Channels, NEW n \in DOMAIN s.calls
  PROVE  /\ Frees(s, n) \in Channels
         /\ Frees(s, n).active = [id \in DOMAIN s.active \ {s.calls[n].id} |-> s.active[id]]
         /\ Frees(s, n).transport = s.transport /\ Frees(s, n).open = s.open
         /\ Frees(s, n).authenticated = s.authenticated /\ Frees(s, n).calls = s.calls
         /\ Frees(s, n).said = s.said /\ Frees(s, n).cancels = s.cancels
<1>1. [id \in DOMAIN s.active \ {s.calls[n].id} |-> s.active[id]] \in ActiveMaps
  BY ChannelFields, MapForms
<1> QED BY <1>1 DEF Frees, Channels

(* One call is changed, the others are not. *)
LEMMA CallsExcept ==
  ASSUME NEW calls \in Seq(CallStates), NEW n \in DOMAIN calls, NEW c \in CallStates
  PROVE  /\ [calls EXCEPT ![n] = c] \in Seq(CallStates)
         /\ DOMAIN [calls EXCEPT ![n] = c] = DOMAIN calls
         /\ [calls EXCEPT ![n] = c][n] = c
         /\ \A m \in DOMAIN calls \ {n} : [calls EXCEPT ![n] = c][m] = calls[m]
BY ExceptSeq

(* A call's state after a step of it. *)
Ended(c, a) == [c EXCEPT !.phase = "ended", !.answer = a]
Aborting(c) == [c EXCEPT !.aborted = TRUE]

(* An answered call is a call. *)
LEMMA EndedForm ==
  ASSUME NEW c \in CallStates, NEW a \in Outcomes
  PROVE  LET d == Ended(c, a)
         IN  /\ d \in CallStates /\ d.id = c.id /\ d.path = c.path
             /\ d.aborted = c.aborted /\ d.phase = "ended" /\ d.answer = a
<1>1. /\ c.id \in CallIds /\ c.method \in Methods /\ c.path \in {"line", "/rpc", "/rpc/stream"}
      /\ c.phase \in {"dispatched", "streaming", "ended"} /\ c.aborted \in BOOLEAN /\ c.count \in Nat
      /\ c.answer \in Outcomes \cup {Nothing}
      /\ c = [id |-> c.id, method |-> c.method, path |-> c.path, phase |-> c.phase,
              aborted |-> c.aborted, count |-> c.count, answer |-> c.answer]
  BY DEF CallStates
<1> QED BY <1>1 DEF CallStates, Ended

(* A call that streams is a call. *)
LEMMA StreamingForm ==
  ASSUME NEW c \in CallStates
  PROVE  LET d == [c EXCEPT !.phase = "streaming"]
         IN  /\ d \in CallStates /\ d.id = c.id /\ d.path = c.path
             /\ d.aborted = c.aborted /\ d.phase = "streaming" /\ d.answer = c.answer
<1>1. /\ c.id \in CallIds /\ c.method \in Methods /\ c.path \in {"line", "/rpc", "/rpc/stream"}
      /\ c.phase \in {"dispatched", "streaming", "ended"} /\ c.aborted \in BOOLEAN /\ c.count \in Nat
      /\ c.answer \in Outcomes \cup {Nothing}
      /\ c = [id |-> c.id, method |-> c.method, path |-> c.path, phase |-> c.phase,
              aborted |-> c.aborted, count |-> c.count, answer |-> c.answer]
  BY DEF CallStates
<1> QED BY <1>1 DEF CallStates

(* A call with a chunk more is a call. *)
LEMMA CountedForm ==
  ASSUME NEW c \in CallStates
  PROVE  LET d == [c EXCEPT !.count = @ + 1]
         IN  /\ d \in CallStates /\ d.id = c.id /\ d.path = c.path
             /\ d.aborted = c.aborted /\ d.phase = c.phase /\ d.answer = c.answer
<1>1. /\ c.id \in CallIds /\ c.method \in Methods /\ c.path \in {"line", "/rpc", "/rpc/stream"}
      /\ c.phase \in {"dispatched", "streaming", "ended"} /\ c.aborted \in BOOLEAN /\ c.count \in Nat
      /\ c.answer \in Outcomes \cup {Nothing}
      /\ c = [id |-> c.id, method |-> c.method, path |-> c.path, phase |-> c.phase,
              aborted |-> c.aborted, count |-> c.count, answer |-> c.answer]
  BY DEF CallStates
<1> QED BY <1>1 DEF CallStates

(* An aborted call is a call. *)
LEMMA AbortedForm ==
  ASSUME NEW c \in CallStates
  PROVE  LET d == Aborting(c)
         IN  /\ d \in CallStates /\ d.id = c.id /\ d.path = c.path
             /\ d.aborted /\ d.phase = c.phase /\ d.answer = c.answer
<1>1. /\ c.id \in CallIds /\ c.method \in Methods /\ c.path \in {"line", "/rpc", "/rpc/stream"}
      /\ c.phase \in {"dispatched", "streaming", "ended"} /\ c.aborted \in BOOLEAN /\ c.count \in Nat
      /\ c.answer \in Outcomes \cup {Nothing}
      /\ c = [id |-> c.id, method |-> c.method, path |-> c.path, phase |-> c.phase,
              aborted |-> c.aborted, count |-> c.count, answer |-> c.answer]
  BY DEF CallStates
<1> QED BY <1>1 DEF CallStates, Aborting

(* One call changes, and nothing else but the map. *)
MovesCall(s, t, n) ==
  /\ t \in Channels /\ t.said = "nothing"
  /\ t.transport = s.transport /\ t.open = s.open /\ t.authenticated = s.authenticated
  /\ t.cancels = s.cancels
  /\ DOMAIN t.calls = DOMAIN s.calls
  /\ \A m \in DOMAIN s.calls \ {n} : t.calls[m] = s.calls[m]
  /\ t.calls[n].id = s.calls[n].id /\ t.calls[n].path = s.calls[n].path
  /\ t.calls[n].aborted = s.calls[n].aborted

Freed(s, t, n) == t.active = [id \in DOMAIN s.active \ {s.calls[n].id} |-> s.active[id]]

(* A call is replaced by a later state of it. *)
PutsCall(s, n, c) == [Says(s, "nothing") EXCEPT !.calls = [s.calls EXCEPT ![n] = c]]

(* Such a step is one of that call only. *)
LEMMA Turned ==
  ASSUME NEW s \in Channels, NEW n \in DOMAIN s.calls,
         NEW c \in CallStates, c.id = s.calls[n].id, c.path = s.calls[n].path,
         c.aborted = s.calls[n].aborted
  PROVE  LET r == PutsCall(s, n, c)
         IN  MovesCall(s, r, n) /\ r.active = s.active /\ r.calls[n] = c
<1>1. PICK cs : cs = [s.calls EXCEPT ![n] = c]
  OBVIOUS
<1>2. /\ cs \in Seq(CallStates) /\ DOMAIN cs = DOMAIN s.calls /\ cs[n] = c
      /\ \A m \in DOMAIN s.calls \ {n} : cs[m] = s.calls[m]
  BY <1>1, CallsExcept, ChannelFields
<1>3. PICK q : q = Says(s, "nothing")
  OBVIOUS
<1>4. "nothing" \in Sayings
  BY DEF Sayings
<1>5. /\ q \in Channels /\ q.said = "nothing"
      /\ q.transport = s.transport /\ q.open = s.open /\ q.authenticated = s.authenticated
      /\ q.active = s.active /\ q.cancels = s.cancels
  BY <1>3, <1>4, SaysFields
<1>6. PICK r : r = [q EXCEPT !.calls = cs]
  OBVIOUS
<1>7. r \in Channels /\ r.calls = cs
  BY <1>2, <1>5, <1>6 DEF Channels
<1>8. /\ r.said = q.said
      /\ r.transport = q.transport /\ r.open = q.open /\ r.authenticated = q.authenticated
      /\ r.active = q.active /\ r.cancels = q.cancels
  BY <1>5, <1>6 DEF Channels
<1>9. MovesCall(s, r, n) /\ r.active = s.active /\ r.calls[n] = c
  BY <1>2, <1>5, <1>7, <1>8 DEF MovesCall
<1> QED BY <1>1, <1>3, <1>6, <1>9 DEF PutsCall

(* An answer ends its call. *)
LEMMA AnswerMoves ==
  ASSUME NEW s \in Channels, NEW n \in DOMAIN s.calls, NEW a \in Outcomes
  PROVE  LET r == Responds(s, n, a)
         IN  MovesCall(s, r, n) /\ r.active = s.active /\ r.calls[n].phase = "ended" /\ r.calls[n].answer = a
<1>1. s.calls[n] \in CallStates
  BY ChannelFields
<1>2. PICK c : c = Ended(s.calls[n], a)
  OBVIOUS
<1>3. /\ c \in CallStates /\ c.id = s.calls[n].id /\ c.path = s.calls[n].path
      /\ c.aborted = s.calls[n].aborted /\ c.phase = "ended" /\ c.answer = a
  BY <1>1, <1>2, EndedForm
<1>4. /\ Says(s, "nothing") \in Channels /\ Says(s, "nothing").calls = s.calls /\ s.calls \in Seq(CallStates)
      /\ n \in DOMAIN s.calls
  BY SaysFields, ChannelFields DEF Sayings
<1>5. PICK cs : cs = [s.calls EXCEPT ![n] = c]
  OBVIOUS
<1>6. Responds(s, n, a) = [Says(s, "nothing") EXCEPT !.calls = cs]
  BY <1>1, <1>2, <1>4, <1>5 DEF Responds, Channels, CallStates, Ended
<1>7. Responds(s, n, a) = PutsCall(s, n, c)
  BY <1>5, <1>6 DEF PutsCall
<1> QED BY <1>3, <1>7, Turned

(* A stream starts, or has a chunk. *)
LEMMA StreamMoves ==
  ASSUME NEW s \in Channels, NEW n \in DOMAIN s.calls
  PROVE  LET r == [Says(s, "nothing") EXCEPT !.calls[n].phase = "streaming"]
         IN  /\ MovesCall(s, r, n) /\ r.active = s.active
             /\ r.calls[n].phase = "streaming" /\ r.calls[n].answer = s.calls[n].answer
<1>0. s.calls[n] \in CallStates
  BY ChannelFields
<1>1. /\ Says(s, "nothing") \in Channels /\ Says(s, "nothing").calls = s.calls
  BY SaysFields DEF Sayings
<1>2. PICK c \in CallStates : c = [s.calls[n] EXCEPT !.phase = "streaming"]
  BY <1>0, StreamingForm
<1>3. /\ c.id = s.calls[n].id /\ c.path = s.calls[n].path /\ c.aborted = s.calls[n].aborted
      /\ c.phase = "streaming" /\ c.answer = s.calls[n].answer
  BY <1>0, <1>2, StreamingForm
<1>4. PICK r : r = [Says(s, "nothing") EXCEPT !.calls[n].phase = "streaming"]
  OBVIOUS
<1>5. r = PutsCall(s, n, c)
  BY <1>0, <1>1, <1>2, <1>4 DEF Channels, CallStates, PutsCall
<1>6. MovesCall(s, r, n) /\ r.active = s.active /\ r.calls[n] = c
  BY <1>3, <1>5, Turned
<1> QED BY <1>3, <1>4, <1>6

(* A chunk is counted on its own call. *)
LEMMA CountMoves ==
  ASSUME NEW s \in Channels, NEW n \in DOMAIN s.calls
  PROVE  LET r == [Says(s, "nothing") EXCEPT !.calls[n].count = @ + 1]
         IN  /\ MovesCall(s, r, n) /\ r.active = s.active
             /\ r.calls[n].phase = s.calls[n].phase /\ r.calls[n].answer = s.calls[n].answer
<1>0. s.calls[n] \in CallStates
  BY ChannelFields
<1>1. /\ Says(s, "nothing") \in Channels /\ Says(s, "nothing").calls = s.calls
  BY SaysFields DEF Sayings
<1>2. PICK c \in CallStates : c = [s.calls[n] EXCEPT !.count = @ + 1]
  BY <1>0, CountedForm
<1>3. /\ c.id = s.calls[n].id /\ c.path = s.calls[n].path /\ c.aborted = s.calls[n].aborted
      /\ c.phase = s.calls[n].phase /\ c.answer = s.calls[n].answer
  BY <1>0, <1>2, CountedForm
<1>4. PICK r : r = [Says(s, "nothing") EXCEPT !.calls[n].count = @ + 1]
  OBVIOUS
<1>5. r = PutsCall(s, n, c)
  BY <1>0, <1>1, <1>2, <1>4 DEF Channels, CallStates, PutsCall
<1>6. MovesCall(s, r, n) /\ r.active = s.active /\ r.calls[n] = c
  BY <1>3, <1>5, Turned
<1> QED BY <1>3, <1>4, <1>6

(* What a step of a call is, to the channel. *)
EndsCall(s, t, n) ==
  /\ MovesCall(s, t, n) /\ t.calls[n].phase = "ended"
  /\ t.calls[n].answer.code = "CANCELED" => s.calls[n].aborted
  /\ Freed(s, t, n) \/ (s.calls[n].path = "line" /\ s.calls[n].phase = "streaming" /\ t.active = s.active)

StreamsCall(s, t, n) ==
  /\ MovesCall(s, t, n) /\ s.calls[n].phase = "dispatched" /\ t.calls[n].phase = "streaming"
  /\ t.calls[n].answer = s.calls[n].answer
  /\ IF s.calls[n].path = "line" THEN Freed(s, t, n) ELSE t.active = s.active

CountsCall(s, t, n) ==
  /\ MovesCall(s, t, n) /\ t.calls[n].phase = s.calls[n].phase /\ t.calls[n].answer = s.calls[n].answer
  /\ t.active = s.active

(* What the handlers answer. *)
LEMMA OutcomeForms ==
  /\ \A code \in Codes : Response(code) \in Outcomes /\ Response(code).code = code
  /\ \A count \in Nat, broke \in BOOLEAN :
       Final(count, broke) \in Outcomes /\ Final(count, broke).code = "done"
<1>1. ASSUME NEW code \in Codes PROVE Response(code) \in Outcomes /\ Response(code).code = code
  BY DEF Response, Outcomes
<1>2. ASSUME NEW count \in Nat, NEW broke \in BOOLEAN
      PROVE  Final(count, broke) \in Outcomes /\ Final(count, broke).code = "done"
  BY DEF Final, Outcomes, Codes
<1> QED BY <1>1, <1>2

(* The map, and nothing else, differs once an entry is gone. *)
LEMMA MovesFreed ==
  ASSUME NEW s \in Channels, NEW n \in DOMAIN s.calls, NEW t, MovesCall(Frees(s, n), t, n)
  PROVE  MovesCall(s, t, n)
<1>1. PICK f : f = Frees(s, n)
  OBVIOUS
<1>2. /\ f.transport = s.transport /\ f.open = s.open /\ f.authenticated = s.authenticated
      /\ f.calls = s.calls /\ f.cancels = s.cancels
  BY <1>1, FreesFields
<1>3. MovesCall(f, t, n)
  BY <1>1
<1> QED BY <1>2, <1>3 DEF MovesCall

(* An answer that frees the entry ends its call. *)
LEMMA FreedEnds ==
  ASSUME NEW s \in Channels, NEW n \in DOMAIN s.calls, NEW a \in Outcomes,
         a.code = "CANCELED" => s.calls[n].aborted
  PROVE  EndsCall(s, Responds(Frees(s, n), n, a), n)
<1>1. /\ Frees(s, n) \in Channels /\ Frees(s, n).calls = s.calls
      /\ Freed(s, Frees(s, n), n)
  BY FreesFields DEF Freed
<1>2. LET r == Responds(Frees(s, n), n, a)
      IN  /\ MovesCall(Frees(s, n), r, n) /\ r.active = Frees(s, n).active
          /\ r.calls[n].phase = "ended" /\ r.calls[n].answer = a
  BY <1>1, AnswerMoves
<1>3. MovesCall(s, Responds(Frees(s, n), n, a), n)
  BY <1>2, MovesFreed
<1> QED BY <1>1, <1>2, <1>3 DEF EndsCall, Freed

(* The handler of a call ends it or has it stream. *)
LEMMA SettlesMoves ==
  ASSUME NEW s \in Channels, NEW n \in DOMAIN s.calls, s.calls[n].phase = "dispatched", NEW outcome
  PROVE  LET t == Settles(s, n, outcome) IN EndsCall(s, t, n) \/ StreamsCall(s, t, n)
<1>1. s.calls[n] \in CallStates
  BY ChannelFields
<1> DEFINE error == dispatchError(s.calls[n], outcome)
<1>2. error # Nothing => EndsCall(s, Responds(Frees(s, n), n, Response(error)), n)
  <2>1. s.calls[n].aborted \in BOOLEAN
    BY <1>1 DEF CallStates
  <2>2. error \in {"METHOD_NOT_FOUND", "CANCELED", "failed", Nothing}
    BY <2>1 DEF dispatchError
  <2>3. error # Nothing /\ error = "CANCELED" => s.calls[n].aborted
    BY <2>1 DEF dispatchError
  <2>4. error # Nothing => error \in Codes
    BY <2>2 DEF Codes
  <2>5. error # Nothing => Response(error) \in Outcomes /\ Response(error).code = error
    BY <2>4, OutcomeForms
  <2> HIDE DEF error
  <2> QED BY <2>3, <2>5, FreedEnds
<1>3. EndsCall(s, Responds(Frees(s, n), n, Response("result")), n)
  <2>1. PICK a : a = Response("result")
    OBVIOUS
  <2>2. a \in Outcomes /\ a.code = "result"
    BY <2>1, OutcomeForms DEF Codes
  <2> QED BY <2>1, <2>2, FreedEnds
<1>4. EndsCall(s, Responds(Frees(s, n), n, Final(0, FALSE)), n)
  <2>1. PICK a : a = Final(0, FALSE)
    OBVIOUS
  <2>2. a \in Outcomes /\ a.code = "done"
    BY <2>1, OutcomeForms DEF Codes
  <2> QED BY <2>1, <2>2, FreedEnds
<1>5. s.calls[n].path = "line" =>
        StreamsCall(s, [Says(Frees(s, n), "nothing") EXCEPT !.calls[n].phase = "streaming"], n)
  <2>1. PICK f \in Channels : f = Frees(s, n)
    BY FreesFields
  <2>2. f.calls = s.calls /\ Freed(s, f, n)
    BY <2>1, FreesFields DEF Freed
  <2>3. PICK r : r = [Says(f, "nothing") EXCEPT !.calls[n].phase = "streaming"]
    OBVIOUS
  <2>4. /\ MovesCall(f, r, n) /\ r.active = f.active
        /\ r.calls[n].phase = "streaming" /\ r.calls[n].answer = f.calls[n].answer
    BY <2>2, <2>3, StreamMoves
  <2>5. MovesCall(s, r, n)
    BY <2>1, <2>4, MovesFreed
  <2> QED BY <2>1, <2>2, <2>3, <2>4, <2>5 DEF StreamsCall, Freed
<1>6. s.calls[n].path # "line" =>
        StreamsCall(s, [Says(s, "nothing") EXCEPT !.calls[n].phase = "streaming"], n)
  BY StreamMoves DEF StreamsCall
<1>7. s.calls[n].path \in {"line", "/rpc", "/rpc/stream"}
  BY <1>1 DEF CallStates
<1>8. CASE s.calls[n].path = "line"
  BY <1>2, <1>3, <1>5, <1>8 DEF Settles, emitDispatch
<1>9. CASE s.calls[n].path = "/rpc"
  BY <1>2, <1>3, <1>4, <1>9 DEF Settles, singleCall
<1>10. CASE s.calls[n].path = "/rpc/stream"
  BY <1>2, <1>4, <1>6, <1>10 DEF Settles, streamCall
<1> QED BY <1>7, <1>8, <1>9, <1>10

(* A stream ends or has a chunk. *)
LEMMA YieldsMoves ==
  ASSUME NEW s \in Channels, NEW n \in DOMAIN s.calls, s.calls[n].phase = "streaming", NEW next
  PROVE  LET t == Yields(s, n, next) IN EndsCall(s, t, n) \/ CountsCall(s, t, n)
<1>1. s.calls[n] \in CallStates /\ s.calls[n].count \in Nat
  BY ChannelFields DEF CallStates
<1>2. CountsCall(s, [Says(s, "nothing") EXCEPT !.calls[n].count = @ + 1], n)
  BY CountMoves DEF CountsCall
<1>3. PICK a : a = Final(s.calls[n].count, next # "end")
  OBVIOUS
<1>4. a \in Outcomes /\ a.code = "done"
  BY <1>1, <1>3, OutcomeForms
<1>5. EndsCall(s, Responds(Frees(s, n), n, a), n)
  BY <1>4, FreedEnds
<1>6. s.calls[n].path = "line" => EndsCall(s, Responds(s, n, a), n)
  BY <1>4, AnswerMoves DEF EndsCall
<1> QED BY <1>2, <1>3, <1>5, <1>6 DEF Yields

-----------------------------------------------------------------------------
(* A new call, a cancel and the end. *)
(* A call is new: the k-th, the latest of its id, in the map. *)
Begun(s, t, id, path, k) ==
  /\ t \in Channels /\ t.said = "nothing"
  /\ t.transport = s.transport /\ t.open = s.open /\ t.authenticated = s.authenticated
  /\ t.cancels = s.cancels
  /\ DOMAIN t.calls = DOMAIN s.calls \cup {k} /\ k \notin DOMAIN s.calls
  /\ \A m \in DOMAIN s.calls : t.calls[m] = s.calls[m] /\ m < k
  /\ t.calls[k].id = id /\ t.calls[k].path = path /\ t.calls[k].phase = "dispatched"
  /\ ~t.calls[k].aborted /\ t.calls[k].answer = Nothing
  /\ DOMAIN t.active = DOMAIN s.active \cup {id} /\ t.active[id] = k
  /\ \A i \in DOMAIN s.active \ {id} : t.active[i] = s.active[i]

(* What a frame or a request begins is such a call. *)
LEMMA BeginFields ==
  ASSUME NEW s \in Channels, NEW id \in CallIds, NEW method \in Methods,
         NEW path \in {"line", "/rpc", "/rpc/stream"}
  PROVE  \E k \in Nat : Begun(s, Begins(s, id, method, path), id, path, k)
<1>1. PICK c : c = [id |-> id, method |-> method, path |-> path, phase |-> "dispatched",
                    aborted |-> FALSE, count |-> 0, answer |-> Nothing]
  OBVIOUS
<1>2. /\ c \in CallStates /\ c.id = id /\ c.path = path /\ c.phase = "dispatched"
      /\ ~c.aborted /\ c.answer = Nothing
  BY <1>1 DEF CallStates
<1>3. PICK k : k = Len(s.calls) + 1
  OBVIOUS
<1>4. /\ s.calls \in Seq(CallStates) /\ Len(s.calls) \in Nat /\ DOMAIN s.calls = 1 .. Len(s.calls)
      /\ s.active \in ActiveMaps
  BY ChannelFields
<1>5. PICK cs : cs = Append(s.calls, c)
  OBVIOUS
<1>6. /\ cs \in Seq(CallStates) /\ DOMAIN cs = 1 .. k /\ cs[k] = c
      /\ \A m \in DOMAIN s.calls : cs[m] = s.calls[m]
  BY <1>2, <1>3, <1>4, <1>5
<1>7. /\ DOMAIN cs = DOMAIN s.calls \cup {k} /\ k \notin DOMAIN s.calls
      /\ k \in Nat /\ \A m \in DOMAIN s.calls : m < k
  BY <1>3, <1>4, <1>6
<1>8. PICK act : act = [i \in DOMAIN s.active \cup {id} |-> IF i = id THEN k ELSE s.active[i]]
  OBVIOUS
<1>9. /\ act \in ActiveMaps
      /\ DOMAIN act = DOMAIN s.active \cup {id} /\ act[id] = k
      /\ \A i \in DOMAIN s.active \ {id} : act[i] = s.active[i]
  BY <1>4, <1>7, <1>8, MapForms
<1>10. PICK q : q = Says(s, "nothing")
  OBVIOUS
<1>11. "nothing" \in Sayings
  BY DEF Sayings
<1>12. /\ q \in Channels /\ q.said = "nothing" /\ q.calls = s.calls
       /\ q.transport = s.transport /\ q.open = s.open /\ q.authenticated = s.authenticated
       /\ q.active = s.active /\ q.cancels = s.cancels
  BY <1>10, <1>11, SaysFields
<1>13. PICK r : r = [q EXCEPT !.calls = cs, !.active = act]
  OBVIOUS
<1>14. r = Begins(s, id, method, path)
  BY <1>1, <1>3, <1>5, <1>8, <1>10, <1>12, <1>13 DEF Begins, Channels
<1>15. r \in Channels /\ r.calls = cs /\ r.active = act
  BY <1>6, <1>9, <1>12, <1>13 DEF Channels
<1>16. /\ r.said = q.said
       /\ r.transport = q.transport /\ r.open = q.open /\ r.authenticated = q.authenticated
       /\ r.cancels = q.cancels
  BY <1>12, <1>13 DEF Channels
<1>17. Begun(s, r, id, path, k)
  BY <1>2, <1>6, <1>7, <1>9, <1>12, <1>15, <1>16 DEF Begun
<1> QED BY <1>7, <1>14, <1>17

(* Some calls are aborted, and each is otherwise as it was. *)
Aborted(s, t, ns) ==
  /\ t \in Channels /\ t.transport = s.transport /\ t.authenticated = s.authenticated
  /\ DOMAIN t.calls = DOMAIN s.calls
  /\ \A n \in DOMAIN s.calls :
       /\ t.calls[n].id = s.calls[n].id /\ t.calls[n].path = s.calls[n].path
       /\ t.calls[n].phase = s.calls[n].phase /\ t.calls[n].answer = s.calls[n].answer
       /\ t.calls[n].aborted <=> (s.calls[n].aborted \/ n \in ns)
       /\ n \notin ns => t.calls[n] = s.calls[n]

(* Only the calls that are named are aborted. *)
LEMMA AbortFields ==
  ASSUME NEW s \in Channels, NEW ns
  PROVE  LET r == AbortsCalls(s, ns)
         IN  /\ Aborted(s, r, ns)
             /\ r.open = s.open /\ r.cancels = s.cancels /\ r.active = s.active /\ r.said = s.said
<1>1. /\ s.calls \in Seq(CallStates) /\ Len(s.calls) \in Nat /\ DOMAIN s.calls = 1 .. Len(s.calls)
      /\ \A n \in DOMAIN s.calls : s.calls[n] \in CallStates
  BY ChannelFields
<1>2. PICK cs : cs = [n \in DOMAIN s.calls |->
                    IF n \in ns THEN Aborting(s.calls[n]) ELSE s.calls[n]]
  OBVIOUS
<1>3. ASSUME NEW n \in DOMAIN s.calls
      PROVE  /\ cs[n] \in CallStates /\ cs[n].id = s.calls[n].id /\ cs[n].path = s.calls[n].path
             /\ cs[n].phase = s.calls[n].phase /\ cs[n].answer = s.calls[n].answer
             /\ cs[n].aborted <=> (s.calls[n].aborted \/ n \in ns)
             /\ n \notin ns => cs[n] = s.calls[n]
  <2>1. cs[n] = IF n \in ns THEN Aborting(s.calls[n]) ELSE s.calls[n]
    BY <1>2
  <2>2. s.calls[n] \in CallStates
    BY <1>1
  <2>3. CASE n \in ns
    BY <2>1, <2>2, <2>3, AbortedForm
  <2>4. CASE n \notin ns
    BY <2>1, <2>2, <2>4
  <2> QED BY <2>3, <2>4
<1>4. DOMAIN cs = 1 .. Len(s.calls) /\ cs = [n \in 1 .. Len(s.calls) |-> cs[n]]
  BY <1>1, <1>2
<1>5. cs \in Seq(CallStates)
  <2>1. PICK k \in Nat : k = Len(s.calls)
    BY <1>1
  <2>2. cs \in [1 .. k -> CallStates]
    BY <1>1, <1>3, <1>4, <2>1
  <2> QED BY <2>1, <2>2, SeqDef
<1>6. PICK r : r = [s EXCEPT !.calls = cs]
  OBVIOUS
<1>7. r = AbortsCalls(s, ns)
  BY <1>2, <1>6 DEF AbortsCalls, Aborting, Channels
<1>8. /\ r \in Channels /\ r.calls = cs
      /\ r.transport = s.transport /\ r.open = s.open /\ r.authenticated = s.authenticated
      /\ r.active = s.active /\ r.cancels = s.cancels /\ r.said = s.said
  BY <1>5, <1>6 DEF Channels
<1>9. Aborted(s, r, ns)
  BY <1>1, <1>3, <1>4, <1>8 DEF Aborted
<1> QED BY <1>7, <1>8, <1>9

-----------------------------------------------------------------------------
(* Each kind of event preserves the invariant. *)
LEMMA PartsReach == ChannelInv => CancelsReach
<1> SUFFICES ASSUME ChannelInv PROVE CancelsReach
  OBVIOUS
<1>1. channel.transport = "line" /\ channel.calls # <<>> => channel.authenticated
  BY DEF ChannelInv, Histories
<1>2. \A id \in DOMAIN channel.active :
        channel.calls[channel.active[id]].id = id /\ OpenCall(channel.active[id])
  BY DEF ChannelInv, Reaches, OpenCall
<1>3. \A n \in DOMAIN channel.calls :
        /\ channel.calls[n].aborted => channel.calls[n].id \in channel.cancels \/ ~channel.open
        /\ channel.calls[n].answer # Nothing =>
             (channel.calls[n].answer.code = "CANCELED" => channel.calls[n].aborted)
  BY DEF ChannelInv, Histories
<1> QED BY <1>1, <1>2, <1>3 DEF ChannelInv, CancelsReach, LatestReached, SaidTrue

(* The end of a call. *)
LEMMA EndsStep ==
  ASSUME ChannelInv, NEW k \in DOMAIN channel.calls, channel.calls[k].phase # "ended",
         EndsCall(channel, channel', k)
  PROVE  ChannelInv'
<1> USE DEF ChannelInv
<1>1. /\ channel' \in Channels /\ channel'.said = "nothing" /\ channel'.transport = channel.transport
      /\ channel'.open = channel.open /\ channel'.authenticated = channel.authenticated
      /\ channel'.cancels = channel.cancels /\ DOMAIN channel'.calls = DOMAIN channel.calls
      /\ \A m \in DOMAIN channel.calls \ {k} : channel'.calls[m] = channel.calls[m]
      /\ channel'.calls[k].id = channel.calls[k].id /\ channel'.calls[k].path = channel.calls[k].path
      /\ channel'.calls[k].aborted = channel.calls[k].aborted
      /\ channel'.calls[k].phase = "ended"
      /\ channel'.calls[k].answer.code = "CANCELED" => channel.calls[k].aborted
  BY DEF EndsCall, MovesCall
<1>2. /\ \A id \in DOMAIN channel'.active :
           id \in DOMAIN channel.active /\ channel'.active[id] = channel.active[id]
      /\ \A id \in DOMAIN channel.active : id # channel.calls[k].id => id \in DOMAIN channel'.active
      /\ channel.calls[k].id \in DOMAIN channel'.active =>
           channel.transport = "line" /\ channel.calls[k].phase = "streaming"
  <2>1. CASE Freed(channel, channel', k)
    BY <2>1 DEF Freed
  <2>2. CASE /\ channel.calls[k].path = "line" /\ channel.calls[k].phase = "streaming"
             /\ channel'.active = channel.active
    BY <2>2 DEF Histories
  <2> QED BY <2>1, <2>2 DEF EndsCall
<1>3. Reaches(channel')
  <2> SUFFICES ASSUME NEW id \in DOMAIN channel'.active
               PROVE  LET n == channel'.active[id]
                      IN  /\ n \in DOMAIN channel'.calls /\ channel'.calls[n].id = id
                          /\ channel'.calls[n].phase # "ended"
                          /\ channel'.transport = "line" => channel'.calls[n].phase = "dispatched"
    BY DEF Reaches
  <2>1. PICK n : n = channel.active[id]
    OBVIOUS
  <2>2. /\ n \in DOMAIN channel.calls /\ channel.calls[n].id = id /\ channel.calls[n].phase # "ended"
        /\ channel.transport = "line" => channel.calls[n].phase = "dispatched"
    BY <1>2, <2>1 DEF Reaches
  <2>3. n # k
    BY <1>2, <2>1, <2>2
  <2> QED BY <1>1, <1>2, <2>1, <2>2, <2>3
<1>4. Histories(channel')
  <2>1. channel'.transport = "line" /\ channel'.calls # <<>> => channel'.authenticated
    <3>1. channel.calls # <<>>
      BY ChannelFields
    <3> QED BY <1>1, <3>1 DEF Histories
  <2>2. ASSUME NEW n \in DOMAIN channel'.calls
        PROVE  LET call == channel'.calls[n]
               IN  /\ call.path = "line" <=> channel'.transport = "line"
                   /\ call.aborted => call.id \in channel'.cancels \/ ~channel'.open
                   /\ call.answer # Nothing =>
                        call.phase = "ended" /\ (call.answer.code = "CANCELED" => call.aborted)
    <3>1. CASE n = k
      BY <1>1, <3>1 DEF Histories
    <3>2. CASE n # k
      BY <1>1, <3>2 DEF Histories
    <3> QED BY <3>1, <3>2
  <2> QED BY <2>1, <2>2 DEF Histories
<1>5. LatestReached'
  <2> SUFFICES ASSUME NEW n \in DOMAIN channel'.calls, OpenCall(n)', Latest(n)', ~OutOfReach(n)'
               PROVE  IF channel'.open
                      THEN /\ channel'.calls[n].id \in DOMAIN channel'.active
                           /\ channel'.active[channel'.calls[n].id] = n
                      ELSE channel'.calls[n].aborted
    BY DEF LatestReached
  <2>1. n # k /\ n \in DOMAIN channel.calls
    BY <1>1 DEF OpenCall
  <2>2. channel.calls[k].id # channel.calls[n].id
    BY <1>1, <2>1 DEF Latest
  <2>3. OpenCall(n) /\ ~OutOfReach(n)
    BY <1>1, <2>1 DEF OpenCall, OutOfReach
  <2>4. Latest(n)
    BY <1>1, <2>1, <2>2 DEF Latest
  <2>5. IF channel.open
        THEN channel.calls[n].id \in DOMAIN channel.active /\ channel.active[channel.calls[n].id] = n
        ELSE channel.calls[n].aborted
    BY <2>1, <2>3, <2>4 DEF LatestReached
  <2> QED BY <1>1, <1>2, <2>1, <2>2, <2>5
<1>6. SaidTrue'
  BY <1>1 DEF SaidTrue
<1> QED BY <1>1, <1>3, <1>4, <1>5, <1>6

(* A call becomes a stream; on a line, nothing reaches it any more. *)
LEMMA StreamsStep ==
  ASSUME ChannelInv, NEW k \in DOMAIN channel.calls, StreamsCall(channel, channel', k)
  PROVE  ChannelInv'
<1> USE DEF ChannelInv
<1>1. /\ channel' \in Channels /\ channel'.said = "nothing" /\ channel'.transport = channel.transport
      /\ channel'.open = channel.open /\ channel'.authenticated = channel.authenticated
      /\ channel'.cancels = channel.cancels /\ DOMAIN channel'.calls = DOMAIN channel.calls
      /\ \A m \in DOMAIN channel.calls \ {k} : channel'.calls[m] = channel.calls[m]
      /\ channel'.calls[k].id = channel.calls[k].id /\ channel'.calls[k].path = channel.calls[k].path
      /\ channel'.calls[k].aborted = channel.calls[k].aborted
      /\ channel.calls[k].phase = "dispatched" /\ channel'.calls[k].phase = "streaming"
      /\ channel'.calls[k].answer = channel.calls[k].answer
      /\ channel.calls[k].path = "line" <=> channel.transport = "line"
  BY DEF StreamsCall, MovesCall, Histories
<1>2. /\ \A id \in DOMAIN channel'.active :
           id \in DOMAIN channel.active /\ channel'.active[id] = channel.active[id]
      /\ \A id \in DOMAIN channel.active : id # channel.calls[k].id => id \in DOMAIN channel'.active
      /\ channel.transport = "line" => channel.calls[k].id \notin DOMAIN channel'.active
  <2>1. CASE channel.calls[k].path = "line"
    BY <2>1 DEF StreamsCall, Freed
  <2>2. CASE channel.calls[k].path # "line"
    BY <1>1, <2>2 DEF StreamsCall
  <2> QED BY <2>1, <2>2
<1>3. Reaches(channel')
  <2> SUFFICES ASSUME NEW id \in DOMAIN channel'.active
               PROVE  LET n == channel'.active[id]
                      IN  /\ n \in DOMAIN channel'.calls /\ channel'.calls[n].id = id
                          /\ channel'.calls[n].phase # "ended"
                          /\ channel'.transport = "line" => channel'.calls[n].phase = "dispatched"
    BY DEF Reaches
  <2>1. PICK n : n = channel.active[id]
    OBVIOUS
  <2>2. /\ n \in DOMAIN channel.calls /\ channel.calls[n].id = id /\ channel.calls[n].phase # "ended"
        /\ channel.transport = "line" => channel.calls[n].phase = "dispatched"
    BY <1>2, <2>1 DEF Reaches
  <2>3. channel.transport = "line" => n # k
    BY <1>2, <2>1, <2>2
  <2> QED BY <1>1, <1>2, <2>1, <2>2, <2>3
<1>4. Histories(channel')
  <2>1. channel'.transport = "line" /\ channel'.calls # <<>> => channel'.authenticated
    <3>1. channel.calls # <<>>
      BY ChannelFields
    <3> QED BY <1>1, <3>1 DEF Histories
  <2>2. ASSUME NEW n \in DOMAIN channel'.calls
        PROVE  LET call == channel'.calls[n]
               IN  /\ call.path = "line" <=> channel'.transport = "line"
                   /\ call.aborted => call.id \in channel'.cancels \/ ~channel'.open
                   /\ call.answer # Nothing =>
                        call.phase = "ended" /\ (call.answer.code = "CANCELED" => call.aborted)
    <3>1. CASE n = k
      BY <1>1, <3>1 DEF Histories
    <3>2. CASE n # k
      BY <1>1, <3>2 DEF Histories
    <3> QED BY <3>1, <3>2
  <2> QED BY <2>1, <2>2 DEF Histories
<1>5. LatestReached'
  <2> SUFFICES ASSUME NEW n \in DOMAIN channel'.calls, OpenCall(n)', Latest(n)', ~OutOfReach(n)'
               PROVE  IF channel'.open
                      THEN /\ channel'.calls[n].id \in DOMAIN channel'.active
                           /\ channel'.active[channel'.calls[n].id] = n
                      ELSE channel'.calls[n].aborted
    BY DEF LatestReached
  <2>1. n \in DOMAIN channel.calls /\ OpenCall(n) /\ ~OutOfReach(n) /\ channel'.calls[n].id = channel.calls[n].id
    BY <1>1 DEF OpenCall, OutOfReach
  <2>2. Latest(n)
    BY <1>1, <2>1 DEF Latest
  <2>3. IF channel.open
        THEN channel.calls[n].id \in DOMAIN channel.active /\ channel.active[channel.calls[n].id] = n
        ELSE channel.calls[n].aborted
    BY <2>1, <2>2 DEF LatestReached
  <2>4. channel.calls[n].id \in DOMAIN channel.active =>
          channel.calls[n].id \in DOMAIN channel'.active
    <3>1. CASE n = k
      BY <1>1, <3>1 DEF OutOfReach, StreamsCall
    <3>2. CASE n # k
      <4>1. channel.calls[k].id # channel.calls[n].id
        BY <1>1, <2>1, <3>2 DEF Latest
      <4> QED BY <1>2, <4>1
    <3> QED BY <3>1, <3>2
  <2>5. channel'.calls[n].aborted = channel.calls[n].aborted
    BY <1>1, <2>1
  <2> QED BY <1>1, <1>2, <2>1, <2>3, <2>4, <2>5
<1>6. SaidTrue'
  BY <1>1 DEF SaidTrue
<1> QED BY <1>1, <1>3, <1>4, <1>5, <1>6

(* A stream has a chunk. *)
LEMMA CountsStep ==
  ASSUME ChannelInv, NEW k \in DOMAIN channel.calls, CountsCall(channel, channel', k)
  PROVE  ChannelInv'
<1> USE DEF ChannelInv
<1>1. /\ channel' \in Channels /\ channel'.said = "nothing" /\ channel'.transport = channel.transport
      /\ channel'.open = channel.open /\ channel'.authenticated = channel.authenticated
      /\ channel'.cancels = channel.cancels /\ DOMAIN channel'.calls = DOMAIN channel.calls
      /\ channel'.active = channel.active
  BY DEF CountsCall, MovesCall
<1>2. ASSUME NEW n \in DOMAIN channel.calls
      PROVE  /\ channel'.calls[n].id = channel.calls[n].id /\ channel'.calls[n].path = channel.calls[n].path
             /\ channel'.calls[n].aborted = channel.calls[n].aborted
             /\ channel'.calls[n].phase = channel.calls[n].phase
             /\ channel'.calls[n].answer = channel.calls[n].answer
  BY DEF CountsCall, MovesCall
<1>3. Reaches(channel')
  BY <1>1, <1>2 DEF Reaches
<1>4. Histories(channel')
  <2>1. channel'.transport = "line" /\ channel'.calls # <<>> => channel'.authenticated
    <3>1. channel.calls # <<>>
      BY ChannelFields
    <3> QED BY <1>1, <3>1 DEF Histories
  <2> QED BY <1>1, <1>2, <2>1 DEF Histories
<1>5. LatestReached'
  <2>1. ASSUME NEW n \in DOMAIN channel.calls
        PROVE  (OpenCall(n)' <=> OpenCall(n)) /\ (Latest(n)' <=> Latest(n)) /\ (OutOfReach(n)' <=> OutOfReach(n))
    BY <1>1, <1>2 DEF OpenCall, Latest, OutOfReach
  <2> QED BY <1>1, <1>2, <2>1 DEF LatestReached
<1>6. SaidTrue'
  BY <1>1 DEF SaidTrue
<1> QED BY <1>1, <1>3, <1>4, <1>5, <1>6

(* A call comes in: it is the latest of its id, and it is in the map. *)
LEMMA BeginsStep ==
  ASSUME ChannelInv, channel.open, channel.transport = "line" => channel.authenticated,
         NEW id \in CallIds, NEW path, path = "line" <=> channel.transport = "line",
         NEW k \in Nat, Begun(channel, channel', id, path, k)
  PROVE  ChannelInv'
<1> USE DEF ChannelInv
<1>1. /\ channel' \in Channels /\ channel'.said = "nothing"
      /\ channel'.transport = channel.transport /\ channel'.open = channel.open
      /\ channel'.authenticated = channel.authenticated /\ channel'.cancels = channel.cancels
      /\ DOMAIN channel'.calls = DOMAIN channel.calls \cup {k} /\ k \notin DOMAIN channel.calls
      /\ \A m \in DOMAIN channel.calls : channel'.calls[m] = channel.calls[m] /\ m < k
      /\ channel'.calls[k].id = id /\ channel'.calls[k].path = path
      /\ channel'.calls[k].phase = "dispatched"
      /\ ~channel'.calls[k].aborted /\ channel'.calls[k].answer = Nothing
      /\ DOMAIN channel'.active = DOMAIN channel.active \cup {id} /\ channel'.active[id] = k
      /\ \A i \in DOMAIN channel.active \ {id} : channel'.active[i] = channel.active[i]
  BY DEF Begun
<1>2. Reaches(channel')
  <2> SUFFICES ASSUME NEW i \in DOMAIN channel'.active
               PROVE  LET n == channel'.active[i]
                      IN  /\ n \in DOMAIN channel'.calls /\ channel'.calls[n].id = i
                          /\ channel'.calls[n].phase # "ended"
                          /\ channel'.transport = "line" => channel'.calls[n].phase = "dispatched"
    BY DEF Reaches
  <2>1. CASE i = id
    BY <1>1, <2>1
  <2>2. CASE i # id
    BY <1>1, <2>2 DEF Reaches
  <2> QED BY <2>1, <2>2
<1>3. Histories(channel')
  <2>1. channel'.transport = "line" /\ channel'.calls # <<>> => channel'.authenticated
    BY <1>1
  <2>2. ASSUME NEW n \in DOMAIN channel'.calls
        PROVE  LET call == channel'.calls[n]
               IN  /\ call.path = "line" <=> channel'.transport = "line"
                   /\ call.aborted => call.id \in channel'.cancels \/ ~channel'.open
                   /\ call.answer # Nothing =>
                        call.phase = "ended" /\ (call.answer.code = "CANCELED" => call.aborted)
    <3>1. CASE n = k
      BY <1>1, <3>1
    <3>2. CASE n # k
      BY <1>1, <3>2 DEF Histories
    <3> QED BY <3>1, <3>2
  <2> QED BY <2>1, <2>2 DEF Histories
<1>4. LatestReached'
  <2> SUFFICES ASSUME NEW n \in DOMAIN channel'.calls, OpenCall(n)', Latest(n)', ~OutOfReach(n)'
               PROVE  /\ channel'.calls[n].id \in DOMAIN channel'.active
                      /\ channel'.active[channel'.calls[n].id] = n
    BY <1>1 DEF LatestReached
  <2>1. CASE n = k
    BY <1>1, <2>1
  <2>2. CASE n # k
    <3>1. n \in DOMAIN channel.calls /\ channel'.calls[n] = channel.calls[n] /\ n < k /\ n \in Nat /\ k \in Nat
      BY <1>1, <2>2, ChannelFields
    <3>2. channel.calls[n].id # id
      <4>1. k \in DOMAIN channel'.calls \ {n} /\ ~(k < n)
        BY <1>1, <2>2, <3>1
      <4> QED BY <1>1, <3>1, <4>1 DEF Latest
    <3>3. OpenCall(n) /\ ~OutOfReach(n)
      BY <1>1, <3>1 DEF OpenCall, OutOfReach
    <3>4. Latest(n)
      BY <1>1, <3>1 DEF Latest
    <3>5. channel.calls[n].id \in DOMAIN channel.active /\ channel.active[channel.calls[n].id] = n
      BY <3>1, <3>3, <3>4 DEF LatestReached
    <3> QED BY <1>1, <3>1, <3>2, <3>5
  <2> QED BY <2>1, <2>2
<1>5. SaidTrue'
  BY <1>1 DEF SaidTrue
<1> QED BY <1>1, <1>2, <1>3, <1>4, <1>5

(* A cancel names an id: the open call that the map has for it is aborted. *)
Reached(s, id) == {s.active[i] : i \in DOMAIN s.active \cap {id}}
CanceledBy(s, t, id) ==
  /\ Aborted(s, t, Reached(s, id)) /\ t.open = s.open /\ t.active = s.active
  /\ t.cancels = s.cancels \cup {id}
  /\ t.said = "canceled" => id \in DOMAIN s.active

(* A cancel aborts only what its id's entry names. *)
LEMMA CancelStep ==
  ASSUME ChannelInv, channel.open, NEW id \in CallIds, CanceledBy(channel, channel', id)
  PROVE  ChannelInv'
<1> USE DEF ChannelInv
<1>1. /\ channel' \in Channels /\ channel'.transport = channel.transport /\ channel'.open = channel.open
      /\ channel'.authenticated = channel.authenticated /\ channel'.active = channel.active
      /\ channel'.cancels = channel.cancels \cup {id} /\ DOMAIN channel'.calls = DOMAIN channel.calls
      /\ channel'.said = "canceled" => id \in DOMAIN channel.active
  BY DEF CanceledBy, Aborted
<1>2. ASSUME NEW n \in DOMAIN channel.calls
      PROVE  /\ channel'.calls[n].id = channel.calls[n].id /\ channel'.calls[n].path = channel.calls[n].path
             /\ channel'.calls[n].phase = channel.calls[n].phase
             /\ channel'.calls[n].answer = channel.calls[n].answer
             /\ channel'.calls[n].aborted <=>
                  (channel.calls[n].aborted \/ n \in Reached(channel, id))
  BY DEF CanceledBy, Aborted
<1>3. ASSUME NEW n \in Reached(channel, id)
      PROVE  n \in DOMAIN channel.calls /\ channel.calls[n].id = id /\ channel.calls[n].phase # "ended"
  BY DEF Reaches, Reached
<1>4. Reaches(channel')
  BY <1>1, <1>2 DEF Reaches
<1>5. Histories(channel')
  <2>1. channel'.transport = "line" /\ channel'.calls # <<>> => channel'.authenticated
    <3>1. channel'.calls # <<>> => channel.calls # <<>>
      BY <1>1, ChannelFields
    <3> QED BY <1>1, <3>1 DEF Histories
  <2>2. ASSUME NEW n \in DOMAIN channel'.calls
        PROVE  LET call == channel'.calls[n]
               IN  /\ call.path = "line" <=> channel'.transport = "line"
                   /\ call.aborted => call.id \in channel'.cancels \/ ~channel'.open
                   /\ call.answer # Nothing =>
                        call.phase = "ended" /\ (call.answer.code = "CANCELED" => call.aborted)
    BY <1>1, <1>2, <1>3 DEF Histories
  <2> QED BY <2>1, <2>2 DEF Histories
<1>6. LatestReached'
  <2>1. ASSUME NEW n \in DOMAIN channel.calls
        PROVE  (OpenCall(n)' <=> OpenCall(n)) /\ (Latest(n)' <=> Latest(n)) /\ (OutOfReach(n)' <=> OutOfReach(n))
    BY <1>1, <1>2 DEF OpenCall, Latest, OutOfReach
  <2> QED BY <1>1, <1>2, <2>1 DEF LatestReached
<1>7. SaidTrue'
  <2> SUFFICES ASSUME channel'.said = "canceled"
               PROVE  \E n \in DOMAIN channel'.calls : OpenCall(n)' /\ channel'.calls[n].aborted
    BY DEF SaidTrue
  <2>1. PICK n : n = channel.active[id]
    OBVIOUS
  <2>2. n \in Reached(channel, id)
    BY <1>1, <2>1 DEF Reached
  <2>3. n \in DOMAIN channel'.calls /\ channel'.calls[n].aborted /\ channel'.calls[n].phase # "ended"
    BY <1>1, <1>2, <1>3, <2>2
  <2> QED BY <2>3 DEF OpenCall
<1> QED BY <1>1, <1>4, <1>5, <1>6, <1>7

(* The channel ends. *)
ChannelEnds(s, t) ==
  /\ Aborted(s, t, {s.active[id] : id \in DOMAIN s.active}) /\ ~t.open /\ t.said = "nothing"
  /\ t.cancels = s.cancels
  /\ IF s.transport = "line" THEN DOMAIN t.active = {} ELSE t.active = s.active

(* The end of the channel aborts whatever the map names. *)
LEMMA ClosesStep ==
  ASSUME ChannelInv, channel.open, ChannelEnds(channel, channel')
  PROVE  ChannelInv'
<1> USE DEF ChannelInv
<1> DEFINE ns == {channel.active[id] : id \in DOMAIN channel.active}
<1>1. /\ channel' \in Channels /\ channel'.transport = channel.transport /\ ~channel'.open
      /\ channel'.authenticated = channel.authenticated /\ channel'.said = "nothing"
      /\ channel'.cancels = channel.cancels /\ DOMAIN channel'.calls = DOMAIN channel.calls
      /\ DOMAIN channel'.active = {} \/ channel'.active = channel.active
  BY DEF ChannelEnds, Aborted
<1>2. ASSUME NEW n \in DOMAIN channel.calls
      PROVE  /\ channel'.calls[n].id = channel.calls[n].id /\ channel'.calls[n].path = channel.calls[n].path
             /\ channel'.calls[n].phase = channel.calls[n].phase
             /\ channel'.calls[n].answer = channel.calls[n].answer
             /\ channel'.calls[n].aborted <=> (channel.calls[n].aborted \/ n \in ns)
  BY DEF ChannelEnds, Aborted
<1>3. Reaches(channel')
  BY <1>1, <1>2 DEF Reaches
<1>4. Histories(channel')
  <2>1. channel'.transport = "line" /\ channel'.calls # <<>> => channel'.authenticated
    <3>1. channel'.calls # <<>> => channel.calls # <<>>
      BY <1>1, ChannelFields
    <3> QED BY <1>1, <3>1 DEF Histories
  <2>2. ASSUME NEW n \in DOMAIN channel'.calls
        PROVE  LET call == channel'.calls[n]
               IN  /\ call.path = "line" <=> channel'.transport = "line"
                   /\ call.answer # Nothing =>
                        call.phase = "ended" /\ (call.answer.code = "CANCELED" => call.aborted)
    BY <1>1, <1>2 DEF Histories
  <2> QED BY <1>1, <2>1, <2>2 DEF Histories
<1>5. LatestReached'
  <2> SUFFICES ASSUME NEW n \in DOMAIN channel.calls, OpenCall(n)', Latest(n)', ~OutOfReach(n)'
               PROVE  channel'.calls[n].aborted
    BY <1>1 DEF LatestReached
  <2>1. OpenCall(n) /\ Latest(n) /\ ~OutOfReach(n)
    BY <1>1, <1>2 DEF OpenCall, Latest, OutOfReach
  <2>2. n \in ns
    BY <2>1 DEF LatestReached
  <2> QED BY <1>2, <2>2
<1>6. SaidTrue'
  BY <1>1 DEF SaidTrue
<1> QED BY <1>1, <1>3, <1>4, <1>5, <1>6

(* An answer that is of no call. *)
Quiet(s, t) ==
  /\ t \in Channels /\ t.transport = s.transport /\ t.calls = s.calls /\ t.active = s.active
  /\ t.cancels = s.cancels /\ t.said # "canceled"
  /\ t.open = s.open \/ s.calls = <<>>
  /\ s.authenticated => t.authenticated

(* An answer that is of no call changes no call. *)
LEMMA QuietStep ==
  ASSUME ChannelInv, channel.open, Quiet(channel, channel')
  PROVE  ChannelInv'
<1> USE DEF ChannelInv
<1>1. /\ channel' \in Channels /\ channel'.transport = channel.transport /\ channel'.calls = channel.calls
      /\ channel'.active = channel.active /\ channel'.cancels = channel.cancels
      /\ channel'.said # "canceled" /\ (channel'.open = channel.open \/ channel.calls = <<>>)
      /\ channel.authenticated => channel'.authenticated
  BY DEF Quiet
<1>2. ASSUME NEW n \in DOMAIN channel.calls PROVE channel'.open = channel.open
  <2>1. channel.calls # <<>>
    <3>1. CASE channel.calls = <<>>
      <4>1. DOMAIN channel.calls = {}
        BY <3>1
      <4> QED BY <4>1
    <3> QED BY <3>1
  <2> QED BY <1>1, <2>1
<1>3. Reaches(channel')
  BY <1>1 DEF Reaches
<1>4. Histories(channel')
  BY <1>1, <1>2 DEF Histories
<1>5. LatestReached'
  <2>1. ASSUME NEW n \in DOMAIN channel.calls
        PROVE  (OpenCall(n)' <=> OpenCall(n)) /\ (Latest(n)' <=> Latest(n)) /\ (OutOfReach(n)' <=> OutOfReach(n))
    BY <1>1 DEF OpenCall, Latest, OutOfReach
  <2> QED BY <1>1, <1>2, <2>1 DEF LatestReached
<1>6. SaidTrue'
  BY <1>1 DEF SaidTrue
<1> QED BY <1>1, <1>3, <1>4, <1>5, <1>6

-----------------------------------------------------------------------------
(* Each event is of one of the kinds. *)
LEMMA CancelFields ==
  ASSUME NEW s \in Channels, NEW id \in CallIds, NEW x \in Sayings,
         x = "canceled" => id \in DOMAIN s.active
  PROVE  CanceledBy(s, Says(CancelsCall(s, id), x), id)
<1>1. PICK a : a = AbortsCalls(s, Reached(s, id))
  OBVIOUS
<1>2. /\ Aborted(s, a, Reached(s, id))
      /\ a.open = s.open /\ a.cancels = s.cancels /\ a.active = s.active
  BY <1>1, AbortFields
<1>3. a \in Channels
  BY <1>2 DEF Aborted
<1>4. PICK t : t = [a EXCEPT !.cancels = a.cancels \cup {id}, !.said = x]
  OBVIOUS
<1>5. s.cancels \cup {id} \subseteq CallIds
  BY ChannelFields
<1>6. /\ t \in Channels /\ t.cancels = s.cancels \cup {id} /\ t.said = x
      /\ t.transport = a.transport /\ t.open = a.open /\ t.authenticated = a.authenticated
      /\ t.active = a.active /\ t.calls = a.calls
  BY <1>2, <1>3, <1>4, <1>5 DEF Channels
<1>7. t = Says(CancelsCall(s, id), x)
  BY <1>1, <1>3, <1>4 DEF Says, CancelsCall, Reached, Channels
<1>8. CanceledBy(s, t, id)
  BY <1>2, <1>6 DEF CanceledBy, Aborted
<1> QED BY <1>7, <1>8

(* Closes is the end of the channel. *)
LEMMA CloseFields ==
  ASSUME NEW s \in Channels
  PROVE  ChannelEnds(s, Closes(s))
<1>1. PICK ns : ns = {s.active[id] : id \in DOMAIN s.active}
  OBVIOUS
<1>2. PICK a : a = AbortsCalls(s, ns)
  OBVIOUS
<1>3. /\ Aborted(s, a, ns)
      /\ a.open = s.open /\ a.cancels = s.cancels /\ a.active = s.active
  BY <1>2, AbortFields
<1>4. a \in Channels /\ a.transport = s.transport
  BY <1>3 DEF Aborted
<1>5. PICK act : act = IF s.transport = "line" THEN [id \in {} |-> 0] ELSE a.active
  OBVIOUS
<1>6. act \in ActiveMaps /\ (IF s.transport = "line" THEN DOMAIN act = {} ELSE act = s.active)
  BY <1>3, <1>4, <1>5, MapForms, ChannelFields
<1>7. PICK t : t = [a EXCEPT !.open = FALSE, !.said = "nothing", !.active = act]
  OBVIOUS
<1>8. "nothing" \in Sayings
  BY DEF Sayings
<1>9. /\ t \in Channels /\ t.cancels = s.cancels /\ t.said = "nothing" /\ ~t.open
      /\ t.transport = a.transport /\ t.authenticated = a.authenticated
      /\ t.active = act /\ t.calls = a.calls
  BY <1>3, <1>4, <1>6, <1>7, <1>8 DEF Channels
<1>10. t = Closes(s)
  BY <1>1, <1>2, <1>4, <1>5, <1>7 DEF Closes, Channels
<1>11. ChannelEnds(s, t)
  BY <1>1, <1>3, <1>6, <1>9 DEF ChannelEnds, Aborted
<1> QED BY <1>10, <1>11

Comes(s, t) ==
  \/ t = s
  \/ Quiet(s, t)
  \/ \E id \in CallIds, path \in {"line", "/rpc", "/rpc/stream"}, k \in Nat :
       /\ path = "line" <=> s.transport = "line"
       /\ s.transport = "line" => s.authenticated
       /\ Begun(s, t, id, path, k)
  \/ \E id \in CallIds : CanceledBy(s, t, id)

(* Other answers than that of a cancel are quiet. *)
LEMMA SaysComes ==
  ASSUME NEW s \in Channels, NEW x \in Sayings, x # "canceled"
  PROVE  Comes(s, Says(s, x))
BY SaysFields DEF Comes, Quiet

(* A request that names a method is a new call. *)
LEMMA BeginsComes ==
  ASSUME NEW s \in Channels, NEW id \in CallIds, NEW method \in Methods,
         NEW path \in {"line", "/rpc", "/rpc/stream"}, path = "line" <=> s.transport = "line",
         s.transport = "line" => s.authenticated
  PROVE  Comes(s, Begins(s, id, method, path))
BY BeginFields DEF Comes

(* A frame or a request that cancels is a cancel. *)
LEMMA CancelsComes ==
  ASSUME NEW s \in Channels, NEW id \in CallIds, NEW x \in Sayings,
         x = "canceled" => id \in DOMAIN s.active
  PROVE  Comes(s, Says(CancelsCall(s, id), x))
BY CancelFields DEF Comes

(* What is in a body, by its kind. *)
LEMMA BodyForms ==
  ASSUME NEW body \in RpcBodies
  PROVE  /\ body.kind = "rpc" => body.id \in CallIds /\ body.method \in Methods
         /\ body.kind = "cancel" => body.id \in CallIds
         /\ "id" \in DOMAIN body => body.id \in CallIds
BY DEF RpcBodies

(* A request that has a body has one that was posted. *)
LEMMA RequestForms ==
  ASSUME NEW request \in Requests, request.body # Nothing
  PROVE  request.body \in RpcBodies
BY DEF Requests

(* Every frame and every request is one of these. *)
LEMMA ReceivesComes ==
  ASSUME ChannelInv, Receives
  PROVE  Comes(channel, channel')
<1>0. channel \in Channels
  BY DEF ChannelInv
<1>1. CASE channel.transport = "line"
  <2>1. PICK frame \in LineFrames : channel' = lineFrame(channel, frame)
    BY <1>1 DEF Receives
  <2>2. CASE ~channel.authenticated
    <3>0. channel.calls = <<>> /\ channel.open
      BY <1>1, <2>2 DEF ChannelInv, Histories, Receives
    <3>1. PICK a : a = [channel EXCEPT !.authenticated = TRUE]
      OBVIOUS
    <3>2. /\ a \in Channels /\ a.transport = channel.transport /\ a.open = channel.open
          /\ a.calls = channel.calls /\ a.active = channel.active /\ a.cancels = channel.cancels
          /\ a.authenticated
      BY <1>0, <3>1 DEF Channels
    <3>3. PICK b : b = [channel EXCEPT !.open = FALSE]
      OBVIOUS
    <3>4. /\ b \in Channels /\ b.transport = channel.transport
          /\ b.calls = channel.calls /\ b.active = channel.active /\ b.cancels = channel.cancels
          /\ b.authenticated = channel.authenticated
      BY <1>0, <3>3 DEF Channels
    <3>5. "authenticated" \in Sayings /\ "UNAUTHORIZED" \in Sayings
      BY DEF Sayings
    <3>6. Quiet(channel, Says(a, "authenticated"))
      BY <3>2, <3>5, SaysFields DEF Quiet
    <3>7. Quiet(channel, Says(b, "UNAUTHORIZED"))
      BY <3>0, <3>4, <3>5, SaysFields DEF Quiet
    <3>8. Comes(channel, Says(a, "authenticated")) /\ Comes(channel, Says(b, "UNAUTHORIZED"))
      BY <3>6, <3>7 DEF Comes
    <3>9. channel' \in {Says(a, "authenticated"), Says(b, "UNAUTHORIZED")}
      BY <2>1, <2>2, <3>1, <3>3 DEF lineFrame
    <3> QED BY <3>8, <3>9
  <2>3. CASE channel.authenticated
    <3>1. Comes(channel, channel)
      BY DEF Comes
    <3>2. frame.kind = "cancel" => Comes(channel, Says(CancelsCall(channel, frame.id), "nothing"))
      BY <1>0, CancelsComes, BodyForms DEF LineFrames, Sayings
    <3>3. frame.kind = "rpc" => Comes(channel, Begins(channel, frame.id, frame.method, "line"))
      BY <1>0, <1>1, <2>3, BeginsComes, BodyForms DEF LineFrames
    <3> QED BY <2>1, <2>3, <3>1, <3>2, <3>3 DEF lineFrame
  <2> QED BY <2>2, <2>3
<1>2. CASE channel.transport = "http"
  <2>1. PICK request \in Requests : channel' = handleRequest(channel, request)
    BY <1>2 DEF Receives
  <2>2. \A x \in Sayings \ {"canceled"} : Comes(channel, Says(channel, x))
    BY <1>0, SaysComes
  <2>3. /\ Comes(channel, Says(channel, "401")) /\ Comes(channel, Says(channel, "200"))
        /\ Comes(channel, Says(channel, "proxy")) /\ Comes(channel, Says(channel, "405"))
        /\ Comes(channel, Says(channel, "404")) /\ Comes(channel, Says(channel, "400"))
    BY <2>2 DEF Sayings
  <2>4. ASSUME request.body # Nothing, request.path \in {"/rpc", "/rpc/stream"}
        PROVE  Comes(channel, startCall(channel, request))
    <3>1. request.body \in RpcBodies
      BY <2>4, RequestForms
    <3>2. request.body.kind = "rpc" =>
            Comes(channel, Begins(channel, request.body.id, request.body.method, request.path))
      BY <1>0, <1>2, <2>4, <3>1, BodyForms, BeginsComes
    <3> QED BY <2>3, <3>2 DEF startCall
  <2>5. ASSUME request.body # Nothing
        PROVE  Comes(channel, cancelCall(channel, request.body))
    <3>1. request.body \in RpcBodies
      BY <2>5, RequestForms
    <3>2. ASSUME "id" \in DOMAIN request.body
          PROVE  Comes(channel, cancelCall(channel, request.body))
      <4>1. PICK x : x = IF request.body.id \in DOMAIN channel.active THEN "canceled" ELSE "not found"
        OBVIOUS
      <4>2. x \in Sayings /\ (x = "canceled" => request.body.id \in DOMAIN channel.active)
        BY <4>1 DEF Sayings
      <4>3. Comes(channel, Says(CancelsCall(channel, request.body.id), x))
        BY <1>0, <3>1, <3>2, <4>2, BodyForms, CancelsComes
      <4> QED BY <3>2, <4>1, <4>3 DEF cancelCall
    <3> QED BY <2>3, <3>2 DEF cancelCall
  <2>6. ASSUME request.method = "POST", authorized(request)
        PROVE  Comes(channel, handleRequest(channel, request))
    <3>1. CASE request.path \in {"/rpc", "/rpc/stream"}
      BY <2>3, <2>4, <2>6, <3>1 DEF handleRequest, readJsonBody
    <3>2. CASE request.path = "/rpc/cancel"
      BY <2>3, <2>5, <2>6, <3>2 DEF handleRequest, readJsonBody
    <3>3. CASE request.path = "/v1/chat/completions"
      BY <2>3, <2>6, <3>3 DEF handleRequest, readJsonBody
    <3>4. CASE request.path \notin {"/rpc", "/rpc/stream", "/rpc/cancel", "/v1/chat/completions"}
      BY <2>3, <2>6, <3>4 DEF handleRequest
    <3> QED BY <3>1, <3>2, <3>3, <3>4
  <2>7. CASE ~authorized(request)
    BY <2>1, <2>3, <2>7 DEF handleRequest
  <2>8. CASE authorized(request) /\ request.method # "POST"
    BY <2>1, <2>3, <2>8 DEF handleRequest
  <2> QED BY <2>1, <2>6, <2>7, <2>8
<1> QED BY <1>0, <1>1, <1>2 DEF Channels

(* Whatever comes, the calls that ended are as they were. *)
Stands(s, t) ==
  \A n \in DOMAIN s.calls :
    /\ n \in DOMAIN t.calls /\ t.calls[n].id = s.calls[n].id
    /\ s.calls[n].phase = "ended" => t.calls[n] = s.calls[n]
    /\ s.calls[n].aborted => t.calls[n].aborted

(* Every event keeps the invariant and leaves answered calls alone. *)
LEMMA EventPreserves ==
  ASSUME ChannelInv, Receives \/ Works \/ Hangs
  PROVE  ChannelInv' /\ Stands(channel, channel')
<1>1. channel \in Channels
  BY DEF ChannelInv
<1>2. CASE Receives
  <2>1. channel.open /\ Comes(channel, channel')
    BY <1>2, ReceivesComes DEF Receives
  <2>2. CASE Quiet(channel, channel')
    BY <2>1, <2>2, QuietStep DEF Quiet, Stands
  <2>3. ASSUME NEW id \in CallIds, NEW path \in {"line", "/rpc", "/rpc/stream"}, NEW k \in Nat,
               path = "line" <=> channel.transport = "line",
               channel.transport = "line" => channel.authenticated, Begun(channel, channel', id, path, k)
        PROVE  ChannelInv' /\ Stands(channel, channel')
    BY <2>1, <2>3, BeginsStep DEF Begun, Stands
  <2>4. ASSUME NEW id \in CallIds, CanceledBy(channel, channel', id)
        PROVE  ChannelInv' /\ Stands(channel, channel')
    <3>1. \A n \in Reached(channel, id) : channel.calls[n].phase # "ended"
      BY DEF ChannelInv, Reaches, Reached
    <3>2. Stands(channel, channel')
      BY <2>4, <3>1 DEF CanceledBy, Aborted, Stands
    <3> QED BY <2>1, <2>4, <3>2, CancelStep
  <2>5. CASE channel' = channel
    BY <2>5 DEF Stands, ChannelInv, LatestReached, SaidTrue, OpenCall, Latest, OutOfReach
  <2> QED BY <2>1, <2>2, <2>3, <2>4, <2>5 DEF Comes
<1>3. CASE Works
  <2>1. PICK n \in DOMAIN channel.calls :
          \/ /\ channel.calls[n].phase = "dispatched"
             /\ \E outcome \in {"returns", "throws"} : channel' = Settles(channel, n, outcome)
          \/ /\ channel.calls[n].phase = "streaming"
             /\ \E next \in {"chunk", "end", "throws"} : channel' = Yields(channel, n, next)
    BY <1>3 DEF Works
  <2>2. \/ EndsCall(channel, channel', n) \/ StreamsCall(channel, channel', n)
        \/ CountsCall(channel, channel', n)
    BY <1>1, <2>1, SettlesMoves, YieldsMoves
  <2>3. channel.calls[n].phase # "ended" /\ MovesCall(channel, channel', n)
    BY <2>1, <2>2 DEF EndsCall, StreamsCall, CountsCall
  <2>4. Stands(channel, channel')
    BY <2>3 DEF MovesCall, Stands
  <2> QED BY <2>2, <2>3, <2>4, EndsStep, StreamsStep, CountsStep
<1>4. CASE Hangs
  <2>1. channel.open /\ ChannelEnds(channel, channel')
    BY <1>1, <1>4, CloseFields DEF Hangs
  <2>2. \A n \in {channel.active[id] : id \in DOMAIN channel.active} : channel.calls[n].phase # "ended"
    BY DEF ChannelInv, Reaches
  <2>3. Stands(channel, channel')
    BY <2>1, <2>2 DEF ChannelEnds, Aborted, Stands
  <2> QED BY <2>1, <2>3, ClosesStep
<1> QED BY <1>2, <1>3, <1>4

(* A channel that is new has no calls. *)
LEMMA ServedInv == Served => ChannelInv
<1> SUFFICES ASSUME Served PROVE ChannelInv
  OBVIOUS
<1>1. PICK transport \in {"line", "http"} : channel = Serving(transport)
  BY DEF Served
<1>2. [id \in {} |-> 0] \in ActiveMaps
  BY MapForms
<1>3. <<>> \in Seq(CallStates)
  OBVIOUS
<1>4. channel \in Channels
  BY <1>1, <1>2, <1>3 DEF Serving, Channels, Sayings
<1>5. DOMAIN channel.active = {} /\ channel.calls = <<>> /\ channel.said = "nothing"
  BY <1>1 DEF Serving
<1>6. DOMAIN channel.calls = {}
  BY <1>5
<1> QED BY <1>4, <1>5, <1>6 DEF ChannelInv, Reaches, Histories, LatestReached, SaidTrue

(* At every moment of a channel, whatever its peers send: the map that a cancel
   goes by names open calls only, each under its own id (on a line, calls that
   are not yet streams); nothing runs on a line before the token; a call is
   aborted, or answered as canceled, for a reason; and the latest call of an id
   is in reach (protocol.ts:125-233, http-rpc.ts:147-292). *)
THEOREM ChannelInvariant == ChannelSpec => []ChannelInv
<1>1. ChannelInv /\ [Receives \/ Works \/ Hangs]_channel => ChannelInv'
  BY EventPreserves
     DEF ChannelInv, LatestReached, SaidTrue, OpenCall, Latest, OutOfReach
<1> QED BY <1>1, ServedInv, PTL DEF ChannelSpec

(* What a run checks of two calls with two ids holds for any number of them, for
   any ids, those that peers use twice included (protocol.ts:167-175,
   http-rpc.ts:251-267). *)
THEOREM CancelsReachCalls == ChannelSpec => []CancelsReach
BY ChannelInvariant, PartsReach, PTL

(* Nothing gets to a call that was answered, not even a late cancel of its id,
   for the map never names it (protocol.ts:181-233, http-rpc.ts:167-247). *)
THEOREM AnswersStandFirm == ChannelSpec => AnswersStand
<1>1. ChannelInv /\ [Receives \/ Works \/ Hangs]_channel =>
        [\A n \in DOMAIN channel.calls :
           /\ n \in DOMAIN channel'.calls /\ channel'.calls[n].id = channel.calls[n].id
           /\ ~OpenCall(n) => channel'.calls[n] = channel.calls[n]
           /\ channel.calls[n].aborted => channel'.calls[n].aborted]_channel
  BY EventPreserves DEF Stands, OpenCall
<1> QED BY <1>1, ChannelInvariant, PTL DEF ChannelSpec, AnswersStand
=============================================================================
