------------------------------ MODULE MediaPipe ------------------------------
(***************************************************************************)
(* The media pipeline of the framework's qualification test                *)
(* (applications/framework/tests/qualification/fmwk_test.c):               *)
(*                                                                         *)
(*     ExSrc --port["int"]--> ExInt --port["snk"]--> ExSnk                 *)
(*                                                                         *)
(* Each component is a task (os/erika/examples/ex_*_comp.c) that waits for *)
(* an event, executes the command in its queue, if any, and, when RUNNING, *)
(* moves data.  The controller, a task of higher priority, brings them up, *)
(* starts, stops and takes them down with MSYS_Init, MSYS_Configure,       *)
(* MSYS_Start, MSYS_Stop and MSYS_DeInit (os/erika/media_system.c), one    *)
(* command at a time.  An alarm tells ExSrc to send.                       *)
(*                                                                         *)
(* Sent bytes are numbered, so that what arrives can be compared.          *)
(***************************************************************************)
EXTENDS MediaPort

CONSTANTS
  MaxTx,      \* bound: bytes the source sends
  Plans       \* the calls an application makes; both by kind of priorities (equal)

Chain == <<"src", "int", "snk">>          \* mediaSys.component[]
Comp  == {"src", "int", "snk"}
Sink  == {"int", "snk"}                   \* components with an in-port
Up(c)   == IF c = "snk" THEN "int" ELSE "src"
Down(c) == IF c = "src" THEN "int" ELSE "snk"

Op == {"init", "config", "start", "stop", "deinit"}

ASSUME MaxTxAssumption == MaxTx \in [BOOLEAN -> Nat]
ASSUME PlansAssumption == \A e \in BOOLEAN : Plans[e] \subseteq Seq(Op)

VARIABLES
  equal,      \* the components share one priority, as in bcm8910x.xml
  \* the components
  state,      \* ExSrc_Comp.state, ...
  pc,         \* where the task is; "off" before activation
  ev,         \* its events: all of them are waited for, copied and cleared at once
  ready,      \* ready queue of their priority (when equal); its head runs
  cmd,        \* the message in the command queue: the command, then the response
  port,       \* the connections, by sink
  mem,        \* the buffers of the sinks
  next,       \* nextBufIdx
  cnt,        \* tCnt - i of MSYS_InPortProcess and MSYS_InPortCancelAll
  hold,       \* mediaBufIdx
  circ,       \* ExSnk_CIRCQ, between the ports of ExInt
  alarm,      \* AlarmVal # 0
  tx, rx,     \* txPktCount; rxData
  \* the controller
  plan,       \* the calls it is going to make
  op, at,     \* the call it makes, if any, and for which component
  waiting     \* for the response

comps == <<state, pc, ev, ready, cmd>>
data  == <<port, mem, next, cnt, hold, circ, alarm, tx, rx>>
ctl   == <<plan, op, at, waiting>>
vars  == <<equal, comps, data, ctl>>

Init ==
  /\ equal \in BOOLEAN
  /\ state = [c \in Comp |-> "reset"]
  /\ pc = [c \in Comp |-> "off"]
  /\ ev = [c \in Comp |-> FALSE]
  /\ ready = <<>>
  /\ cmd = [c \in Comp |-> "none"]
  /\ port = [c \in Sink |-> NewConnection]
  /\ mem = [c \in Sink |-> [b \in Buf |-> 0]]
  /\ next = [c \in Sink |-> 0]
  /\ cnt = [c \in Sink |-> 0]
  /\ hold = [c \in {"src", "int"} |-> NoSlot]
  /\ circ = <<>>
  /\ alarm = FALSE
  /\ tx = 0 /\ rx = <<>>
  /\ plan \in Plans[equal]
  /\ op = "none" /\ at = 1 /\ waiting = FALSE

----------------------------------------------------------------------------
(* The scheduler.  Tasks of equal priority run to their next wait, in the  *)
(* order they became ready; with other priorities any order is possible.   *)

Enqueue(c) ==
  ready' = IF equal /\ \A i \in 1 .. Len(ready) : ready[i] # c
           THEN Append(ready, c) ELSE ready

\* Two kinds of calls of SetEvent: of a component, or of none.
SetEvent(c) ==
  /\ ev' = [ev EXCEPT ![c] = pc[c] # "off"]
  /\ IF pc[c] = "wait" THEN Enqueue(c) ELSE UNCHANGED ready

NoEvent == UNCHANGED <<ev, ready>>

Goto(c, where) == pc' = [pc EXCEPT ![c] = where]

\* c's pass ends: BCM_WaitEvent blocks if no event is set.
Sleep(c, event) ==
  /\ Goto(c, "wait")
  /\ ev' = [ev EXCEPT ![c] = event]
  /\ ready' = IF equal /\ ~event THEN Tail(ready) ELSE ready

\* BCM_TerminateTask, at the end of a pass in state RESET.
Terminate(c) ==
  /\ Goto(c, "off")
  /\ ev' = [ev EXCEPT ![c] = FALSE]
  /\ ready' = IF equal THEN Tail(ready) ELSE ready

EndPass(c, s, event) ==
  \/ s = "reset" /\ Terminate(c)
  \/ s # "reset" /\ Sleep(c, event)

CtlRuns ==
  \/ op \in Op /\ ~waiting
  \/ waiting /\ \E c \in Comp : cmd[c] \in {"ok", "refused"}

\* c can take a step at pc w.
RunsAt(c, w) ==
  /\ pc[c] = w
  /\ equal => ready # <<>> /\ Head(ready) = c /\ ~CtlRuns

----------------------------------------------------------------------------
(* The controller: the commands go down the chain, those of MSYS_Start up. *)

Idle(c) == pc[c] = "off" \/ (pc[c] = "wait" /\ ~ev[c])

\* The next call, at any time (the test's FmwkIT_Alarm_CB decides when to stop);
\* a test is executed by a task below all of these.
Call ==
  /\ op = "none" /\ plan # <<>>
  /\ Head(plan) = "init" => \A c \in Comp : Idle(c)
  /\ op' = Head(plan) /\ plan' = Tail(plan)
  /\ UNCHANGED <<equal, comps, data, at, waiting>>

\* Mutant: MSYS_Stop goes up the chain, too.
TargetStopsUp == IF op \in {"start", "stop"} THEN Chain[4 - at] ELSE Chain[at]

Target == IF op = "start" THEN Chain[4 - at] ELSE Chain[at]

\* INIT activates the task; the command is sent to the task's queue.
SendCmd ==
  /\ op \in Op /\ ~waiting
  /\ cmd' = [cmd EXCEPT ![Target] = op]
  /\ LET on == op = "init" /\ pc[Target] = "off" IN
     /\ pc' = IF on THEN [pc EXCEPT ![Target] = "wait"] ELSE pc
     /\ ev' = [ev EXCEPT ![Target] = on \/ pc[Target] # "off"]
     /\ IF on \/ pc[Target] = "wait" THEN Enqueue(Target) ELSE UNCHANGED ready
  /\ waiting' = TRUE
  /\ UNCHANGED <<equal, state, data, plan, op, at>>

Responded(r) ==
  /\ waiting /\ cmd[Target] = r
  /\ waiting' = FALSE
  /\ cmd' = [cmd EXCEPT ![Target] = "none"]
  /\ UNCHANGED <<equal, state, pc, ev, ready, data, plan>>

RecvResp ==
  /\ Responded("ok")
  /\ \/ at < 3 /\ at' = at + 1 /\ op' = op
     \/ at = 3 /\ at' = 1 /\ op' = "none"

\* The call returns an error; the components after this one get no command.
RecvError == Responded("refused") /\ at' = 1 /\ op' = "none"

\* ExSrc_DataCb.
DataAlarm ==
  /\ state["src"] = "running" /\ tx < MaxTx[equal]
  /\ alarm' = TRUE
  /\ SetEvent("src")
  /\ UNCHANGED <<equal, state, pc, cmd, port, mem, next, cnt, hold, circ, tx, rx, ctl>>

----------------------------------------------------------------------------
(* The commands of a component. *)

Wake(c) ==
  /\ RunsAt(c, "wait") /\ ev[c]
  /\ ev' = [ev EXCEPT ![c] = FALSE]
  /\ Goto(c, "cmd")
  /\ UNCHANGED <<equal, state, ready, cmd, data, ctl>>

\* The commands obeyed, by state, and the state they lead to.
SourceMoves ==
  {<<"reset", "init", "init">>, <<"init", "config", "ready">>,
   <<"init", "deinit", "reset">>, <<"ready", "start", "running">>,
   <<"ready", "deinit", "reset">>, <<"running", "stop", "ready">>}

\* Mutant: the sinks start before they are configured.
MovesStartEarly(c) ==
  SourceMoves \cup {<<"init", "start", "running">> : d \in Sink \cap {c}}

Moves(c) ==
  SourceMoves
  \cup {<<"running", "deinit", IF c = "int" THEN "ready" ELSE "reset">>}
  \cup {<<"ready", "config", "ready">> : d \in Sink \cap {c}}

Move(c) == {m \in Moves(c) : m[1] = state[c] /\ m[2] = cmd[c]}

\* The handler of the command is left in the state it was entered in: a
\* component that is RUNNING goes on to its data.
GoOn(c) ==
  \/ /\ state[c] = "running"
     /\ Goto(c, IF c = "src" THEN "data" ELSE "fill")
     /\ NoEvent
  \/ state[c] # "running" /\ EndPass(c, state[c], ev[c])

NoCmd(c) ==
  /\ RunsAt(c, "cmd") /\ cmd[c] \notin Op
  /\ GoOn(c)
  /\ UNCHANGED <<equal, state, cmd, data, ctl>>

\* ExInt leaves a STOP or DEINIT in its queue until it has sent everything.
Deferred(c) ==
  c = "int" /\ state[c] = "running" /\ cmd[c] \in {"stop", "deinit"} /\ circ # <<>>

Defer(c) ==
  /\ RunsAt(c, "cmd") /\ Deferred(c)
  /\ GoOn(c)
  /\ UNCHANGED <<equal, state, cmd, data, ctl>>

Refuse(c) ==
  /\ RunsAt(c, "cmd") /\ cmd[c] \in Op /\ Move(c) = {}
  /\ cmd' = [cmd EXCEPT ![c] = "refused"]
  /\ GoOn(c)
  /\ UNCHANGED <<equal, state, data, ctl>>

\* STOP and DEINIT of a component that is RUNNING cancel its requests first.
Cancels(c) == c \in Sink /\ state[c] = "running"

\* MSYS_InPortInit and MSYS_OutPortInit.
PortsInit(c) ==
  port' = [d \in Sink |-> CASE d = c -> InPortInit(port[d])
                            [] Up(d) = c -> GetMsgIdx(port[d])
                            [] OTHER -> port[d]]

Obeyed(c, m) ==
  /\ state' = [state EXCEPT ![c] = m[3]]
  /\ cmd' = [cmd EXCEPT ![c] = "ok"]
  /\ EndPass(c, m[3], ev[c] \/ m[2] = "start")   \* START sets the task's own event

Obey(c) ==
  /\ RunsAt(c, "cmd") /\ ~Cancels(c)
  /\ \E m \in Move(c) :
       /\ Obeyed(c, m)
       /\ IF m[2] = "init" THEN PortsInit(c) ELSE UNCHANGED port
  /\ UNCHANGED <<equal, mem, next, cnt, hold, circ, alarm, tx, rx, ctl>>

CancelAll(c) ==
  /\ RunsAt(c, "cmd") /\ Cancels(c) /\ Move(c) # {} /\ ~Deferred(c)
  /\ cnt' = [cnt EXCEPT ![c] = Len(port[c].fullQ)]
  /\ Goto(c, "cancel")
  /\ UNCHANGED <<equal, state, ev, ready, cmd, port, mem, next, hold, circ, alarm, tx, rx, ctl>>

----------------------------------------------------------------------------
(* The data. *)

\* ExInt_FillBufferDone (the result of CIRCQ_Push is ignored: a full queue
\* drops the byte), ExSnk_FillBufferDone.
FillBufferDone(c) ==
  LET v == mem[c][HeadBuf(port[c])] IN
  /\ rx' = IF c = "snk" THEN Append(rx, v) ELSE rx
  /\ circ' = IF c = "int" /\ Len(circ) < Depth THEN Append(circ, v) ELSE circ

\* The first message of c's light queue.
HeadStatus(c) == port[c].st[HeadMsg(port[c])]

\* One turn of the loop of MSYS_InPortCancelAll.  A message that the source has
\* completed is delivered; of one it has not begun it sees the cancellation;
\* one that it is processing ends the loop.
Cancel(c) ==
  /\ RunsAt(c, "cancel") /\ cnt[c] > 0
  /\ port' = [port EXCEPT ![c] = CancelHead(@)]
  /\ cnt' = [cnt EXCEPT ![c] = IF HeadStatus(c) = "processing" THEN 0 ELSE @ - 1]
  /\ IF HeadStatus(c) = "completed" THEN FillBufferDone(c) ELSE UNCHANGED <<circ, rx>>
  /\ IF HeadStatus(c) = "processing" THEN NoEvent ELSE SetEvent(Up(c))
  /\ UNCHANGED <<equal, state, pc, cmd, mem, next, hold, alarm, tx, ctl>>

Cancelled(c) ==
  /\ RunsAt(c, "cancel") /\ cnt[c] = 0
  /\ \E m \in Move(c) : Obeyed(c, m)
  /\ UNCHANGED <<equal, data, ctl>>

\* One turn of the loop that posts the buffers of a sink, until it fails.
Fill(c) ==
  /\ RunsAt(c, "fill")
  /\ next' = [next EXCEPT ![c] = After(@)]
  /\ \/ /\ CanFill(port[c])
        /\ port' = [port EXCEPT ![c] = FillBuffer(@, next[c])]
        /\ SetEvent(Up(c))
        /\ UNCHANGED <<pc, cnt>>
     \/ /\ ~CanFill(port[c])
        /\ Goto(c, "take")
        /\ cnt' = [cnt EXCEPT ![c] = Len(port[c].fullQ)]
        /\ NoEvent /\ UNCHANGED port
  /\ UNCHANGED <<equal, state, cmd, mem, hold, circ, alarm, tx, rx, ctl>>

\* One turn of the loop of MSYS_InPortProcess, and its end.
Received(c) == cnt[c] > 0 /\ HeadStatus(c) = "completed"

Take(c) ==
  /\ RunsAt(c, "take") /\ Received(c)
  /\ port' = [port EXCEPT ![c] = TakeHead(@)]
  /\ cnt' = [cnt EXCEPT ![c] = @ - 1]
  /\ FillBufferDone(c)
  /\ SetEvent(Up(c))
  /\ UNCHANGED <<equal, state, pc, cmd, mem, next, hold, alarm, tx, ctl>>

Taken(c) ==
  /\ RunsAt(c, "take") /\ ~Received(c)
  /\ cnt' = [cnt EXCEPT ![c] = 0]
  /\ \/ c = "int" /\ Goto(c, "get") /\ NoEvent
     \/ c = "snk" /\ Sleep(c, ev[c])
  /\ UNCHANGED <<equal, state, cmd, port, mem, next, hold, circ, alarm, tx, rx, ctl>>

\* ExSrc fetches and clears the alarm.
ReadAlarm ==
  /\ RunsAt("src", "data")
  /\ alarm' = FALSE
  /\ \/ alarm /\ Goto("src", "get") /\ NoEvent
     \/ ~alarm /\ Sleep("src", ev["src"])
  /\ UNCHANGED <<equal, state, cmd, port, mem, next, cnt, hold, circ, tx, rx, ctl>>

\* ExSrc sends as long as there is a request (up to the bound), ExInt what it has.
HasData(c) == IF c = "src" THEN tx < MaxTx[equal] ELSE circ # <<>>
Sends(c) == HasData(c) /\ Pending(port[Down(c)]) # {}

Get(c) ==
  /\ RunsAt(c, "get") /\ Sends(c)
  /\ hold' = [hold EXCEPT ![c] = MsgIdx(port[Down(c)])]
  /\ port' = [port EXCEPT ![Down(c)] = GetMsgIdx(@)]
  /\ Goto(c, "put") /\ NoEvent
  /\ UNCHANGED <<equal, state, cmd, mem, next, cnt, circ, alarm, tx, rx, ctl>>

SentAll(c) ==
  /\ RunsAt(c, "get") /\ ~Sends(c)
  /\ Sleep(c, ev[c])
  /\ UNCHANGED <<equal, state, cmd, data, ctl>>

Put(c) ==
  /\ RunsAt(c, "put")
  /\ LET d == Down(c)
         v == IF c = "src" THEN tx + 1 ELSE Head(circ) IN
     /\ mem' = [mem EXCEPT ![d][port[d].buf[hold[c]]] = v]
     /\ port' = [port EXCEPT ![d] = CompleteMsgIdx(@, hold[c])]
     /\ SetEvent(d)
  /\ tx' = IF c = "src" THEN tx + 1 ELSE tx
  /\ circ' = IF c = "int" THEN Tail(circ) ELSE circ
  /\ hold' = [hold EXCEPT ![c] = NoSlot]
  /\ Goto(c, "get")
  /\ UNCHANGED <<equal, state, cmd, next, cnt, alarm, rx, ctl>>

----------------------------------------------------------------------------
Controller == Call \/ SendCmd \/ RecvResp \/ RecvError

Command(c) == Wake(c) \/ NoCmd(c) \/ Defer(c) \/ Refuse(c) \/ Obey(c)

InPort(c) == CancelAll(c) \/ Cancel(c) \/ Cancelled(c) \/ Fill(c) \/ Take(c) \/ Taken(c)

OutPort(c) == Get(c) \/ SentAll(c) \/ Put(c)

Next ==
  \/ Controller
  \/ DataAlarm \/ ReadAlarm
  \/ \E c \in Comp : Command(c)
  \/ \E c \in Sink : InPort(c)
  \/ \E c \in {"src", "int"} : OutPort(c)

Spec == Init /\ [][Next]_vars

----------------------------------------------------------------------------
TypeOK ==
  /\ equal \in BOOLEAN
  /\ state \in [Comp -> {"reset", "init", "ready", "running"}]
  /\ pc \in [Comp -> {"off", "wait", "cmd", "cancel", "fill", "take", "data", "get", "put"}]
  /\ ev \in [Comp -> BOOLEAN]
  /\ ready \in Seq(Comp)
  /\ cmd \in [Comp -> Op \cup {"none", "ok", "refused"}]
  /\ port \in [Sink -> Connection]
  /\ mem \in [Sink -> [Buf -> Nat]]
  /\ next \in [Sink -> Buf]
  /\ cnt \in [Sink -> 0 .. Depth]
  /\ hold \in [{"src", "int"} -> Slot \cup {NoSlot}]
  /\ circ \in Seq(Nat) /\ Len(circ) <= Depth
  /\ alarm \in BOOLEAN
  /\ tx \in Nat /\ rx \in Seq(Nat)
  /\ plan \in Seq(Op) /\ op \in Op \cup {"none"} /\ at \in 1 .. 3
  /\ waiting \in BOOLEAN

\* Whatever the priorities and the point at which a component is stopped, the
\* handles a sink has cached (media_port.c:341-353, 495, 416) are the messages
\* in its data queue, in their order: a popped handle whose message could not
\* be cancelled, or one cached over another, would block the port for ever.
HandlesFollowTheRing == \A c \in Sink : FollowsTheRing(port[c])

\* Requests are received in the order they were posted and the first that is
\* not completed stops the loop (media_port.c:395-406): the source must
\* complete them in that order, or data that is there would not be seen.
CompletedInOrder == \A c \in Sink : CompletedFirst(port[c])

\* ExInt_DeInitHandler leaves a stream that was RUNNING in READY
\* (ex_int_comp.c:414), against the table of states above it (ex_int_comp.c:75)
\* and MSYS_DeInit, which does not expect a started stream (media_system.h:285).
\* The next MSYS_Init goes no further than the source.
LeftReady ==
  state["int"] = "ready" /\ state["snk"] = "reset" /\ state["src"] \in {"reset", "init"}

\* A call that a component refuses leaves the others as they were, and one that
\* succeeds has moved them all (media_system.c:157-199, 313-354, 371-412): the
\* order of the commands is such that the first component refuses if any does.
\* The exception, which is a defect of the code, is MSYS_DeInit of a stream that
\* runs: it succeeds, and the components stay apart from then on.
StatesAgree == op = "none" => (\A c, d \in Comp : state[c] = state[d]) \/ LeftReady

\* What was received, and what is on the way, oldest first.
Arriving(c) == [i \in 1 .. Arrived(port[c]) |-> mem[c][port[c].buf[Handles(port[c])[i]]]]
Stream == rx \o Arriving("snk") \o circ \o Arriving("int")

\* With the priorities of the test, no byte is lost, doubled or overtaken
\* between the source and the sink, stops in mid-stream and restarts included:
\* the result of CIRCQ_Push (ex_int_comp.c:245) may be ignored.
NothingLost == equal => Stream = [i \in 1 .. tx |-> i]
==============================================================================
