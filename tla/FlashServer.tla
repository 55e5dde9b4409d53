----------------------------- MODULE FlashServer -----------------------------
(***************************************************************************)
(* The flash manager (system/nvm/lib/flsmgr.c) and the task that runs it   *)
(* with the flash driver (os/erika/flsmgr_osil.c, TASK(FLSMGR_Server)).    *)
(*                                                                         *)
(* Clients are other tasks: FLSMGR_Read, FLSMGR_Write, ... post a message  *)
(* in the message queue and set FLSMGR_0_MSGQ_EVENT; the server takes the  *)
(* messages in order and completes each when the driver has done it.  The  *)
(* bus interrupt sets FLASH0_EVENT, the driver's indications set           *)
(* FLSMGR_0_CB_IND_EVENT.  The server waits for any of them, takes a copy  *)
(* of the pending events, clears those, and handles the copy.              *)
(*                                                                         *)
(* The task starts with FLASH_Init done and the message that configures    *)
(* the read lane posted by itself (InitFlsMgr).  One flash device, without *)
(* the partition manager, which module PartitionMgr adds.                  *)
(***************************************************************************)
EXTENDS FlashDriver, Sequences, FiniteSets

CONSTANTS
  Clients,   \* the tasks that use the flash manager
  Server,    \* the server task, as the client of its first message
  Cmds,      \* the commands they post
  MaxLen     \* bound: sectors or pages of a command

ASSUME ClientAssumption == Server \notin Clients
ASSUME RequestAssumption ==
  /\ Cmds \subseteq (Ops \ {"CFG_READ_LANE"}) \cup {"DEINIT"}
  /\ MaxLen \in Nat \ {0}

Events == {"FLASH0", "MSGQ", "CB_IND"}
\* Length 0 stands for parameters that the driver refuses.
Requests == {r \in [cmd : Cmds, len : 0 .. MaxLen] : r.cmd = "DEINIT" => r.len = 0}
Tasks  == Clients \cup {Server}
Msgs   == [from : Tasks, cmd : Cmds \cup {"CFG_READ_LANE"}, len : 0 .. MaxLen]
NoMsg  == [from |-> Server, cmd |-> "NONE", len |-> 0]

VARIABLES
  fls, bus, eng, dev, faults,  \* module FlashDriver
  spc,      \* what the server task is about to do
  evt,      \* the events pending for the server
  mask,     \* eventMask, its copy of the events being handled
  fm,       \* FLSMGR_Comp[0].state, and
  cfgStarted,  \* isCfgLaneStarted
  posted,   \* FLSMGR_MsgQ: the posted messages, and
  proc,     \* the one being processed, each [from, cmd, len]
  cl        \* each task's message: [st, res]

drv  == <<fls, bus, eng, dev, faults>>
vars == <<fls, bus, eng, dev, faults, spc, evt, mask, fm, cfgStarted, posted,
          proc, cl>>

TypeOK ==
  /\ fls \in FlsType(MaxLen) /\ bus \in BusType /\ eng \in EngType
  /\ dev \in DevType /\ faults \in 0 .. MaxFaults
  /\ spc \in {"wait", "clear", "flash", "flsmgr"}
  /\ evt \subseteq Events /\ mask \subseteq Events
  /\ fm \in {"UNINIT", "IDLE", "BUSY"} /\ cfgStarted \in BOOLEAN
  /\ posted \in Seq(Msgs) /\ proc \in Msgs \cup {NoMsg}
  /\ cl \in [Tasks -> [st : {"idle", "waiting", "done"},
                       res : {"NONE", "SUCCESS", "FAILED"}]]

\* InitFlsMgr, up to its first wait.
Init ==
  /\ fls = FlsInit /\ bus = BusInit /\ eng = EngInit /\ dev = DevInit
  /\ faults = MaxFaults
  /\ spc = "wait" /\ evt = {"MSGQ"} /\ mask = {}
  /\ fm = "UNINIT" /\ cfgStarted = FALSE
  /\ posted = <<[from |-> Server, cmd |-> "CFG_READ_LANE", len |-> 1]>>
  /\ proc = NoMsg
  /\ cl = [t \in Tasks |-> [st |-> IF t = Server THEN "waiting" ELSE "idle",
                            res |-> "NONE"]]

----------------------------------------------------------------------------
S == [fls |-> fls, bus |-> bus, eng |-> eng, faults |-> faults, ind |-> FALSE]

Assign(s) ==
  /\ fls' = s.fls /\ bus' = s.bus /\ eng' = s.eng /\ faults' = s.faults

\* FLASH_IRQHandler0
Irq == evt' = evt \cup {"FLASH0"}

\* The controller ends a transfer; with the last one the command is executed.
HwXferDone ==
  /\ eng.run
  /\ eng' = [eng EXCEPT !.run = FALSE, !.spif = TRUE, !.rx = DevStatus(dev)]
  /\ \/ dev' = (IF eng.last THEN DevCommand(dev, eng.op) ELSE dev)
        /\ UNCHANGED faults
     \/ /\ eng.op = "WREN" /\ "wren" \in FaultKinds /\ faults > 0
        /\ faults' = faults - 1
        /\ UNCHANGED dev
  /\ Irq
  /\ UNCHANGED <<fls, bus, spc, mask, fm, cfgStarted, posted, proc, cl>>

\* The controller has read data: the watermark is reached or the session done.
HwReadData ==
  /\ eng.todo > 0
  /\ eng' = [eng EXCEPT !.todo = @ - 1, !.fifo = @ + 1]
  /\ Irq
  /\ UNCHANGED <<fls, bus, dev, faults, spc, mask, fm, cfgStarted, posted, proc, cl>>

HwDevEnd ==
  /\ dev.busy # "none"
  /\ \/ dev' = DevEnd(dev, FALSE) /\ UNCHANGED faults
     \/ /\ Micron /\ "flag" \in FaultKinds /\ faults > 0
        /\ faults' = faults - 1
        /\ dev' = DevEnd(dev, TRUE)
  /\ UNCHANGED <<fls, bus, eng, spc, evt, mask, fm, cfgStarted, posted, proc, cl>>

----------------------------------------------------------------------------
(* The clients.                                                            *)

\* FLSMGR_Read, FLSMGR_Write, FLSMGR_Erase, FLSMGR_Compare, FLSMGR_BlankCheck
\* and FLSMGR_DeInit, which refuse with BCM_ERR_UNINIT.
Post(c, r) ==
  /\ cl[c].st = "idle"
  /\ fm # "UNINIT"
  /\ posted' = Append(posted, [from |-> c, cmd |-> r.cmd, len |-> r.len])
  /\ cl' = [cl EXCEPT ![c] = [st |-> "waiting", res |-> "NONE"]]
  /\ evt' = evt \cup {"MSGQ"}
  /\ UNCHANGED <<drv, spc, mask, fm, cfgStarted, proc>>

\* FLSMGR_GetOpResult upon the completion event.
GetOpResult(c) ==
  /\ cl[c].st = "done"
  /\ cl' = [cl EXCEPT ![c] = [st |-> "idle", res |-> "NONE"]]
  /\ UNCHANGED <<drv, spc, evt, mask, fm, cfgStarted, posted, proc>>

\* FLSMGR_Cancel of a message the server has not taken yet.
Cancel(c) ==
  /\ cl[c].st = "waiting"
  /\ fm # "UNINIT"
  /\ \E i \in DOMAIN posted :
       /\ posted[i].from = c
       /\ posted' = SubSeq(posted, 1, i - 1) \o SubSeq(posted, i + 1, Len(posted))
  /\ cl' = [cl EXCEPT ![c] = [st |-> "idle", res |-> "NONE"]]
  /\ UNCHANGED <<drv, spc, evt, mask, fm, cfgStarted, proc>>

----------------------------------------------------------------------------
(* The server task.                                                        *)

\* BCM_WaitEvent returns and BCM_GetEvent copies the events.
WaitEvent ==
  /\ spc = "wait" /\ evt # {}
  /\ mask' = evt
  /\ spc' = "clear"
  /\ UNCHANGED <<drv, evt, fm, cfgStarted, posted, proc, cl>>

\* Mutant: every pending event is cleared, not only those of the copy.
ClearAll ==
  /\ spc = "clear"
  /\ evt' = {}
  /\ spc' = "flash"
  /\ UNCHANGED <<drv, mask, fm, cfgStarted, posted, proc, cl>>

\* Mutant: the flash event is left pending.
ClearNoFlash ==
  /\ spc = "clear"
  /\ evt' = evt \ (mask \ {"FLASH0"})
  /\ spc' = "flash"
  /\ UNCHANGED <<drv, mask, fm, cfgStarted, posted, proc, cl>>

ClearEvent ==
  /\ spc = "clear"
  /\ evt' = evt \ mask
  /\ spc' = "flash"
  /\ UNCHANGED <<drv, mask, fm, cfgStarted, posted, proc, cl>>

\* FLSMGR_ServerEventHandler, FLASH0_EVENT: FLASH_StateHandler and the
\* indication it gives.
HandleFlash ==
  /\ spc = "flash"
  /\ IF "FLASH0" \in mask
     THEN \E s \in StateHandler(S) :
            /\ Assign(s)
            /\ evt' = IF s.ind THEN evt \cup {"CB_IND"} ELSE evt
     ELSE UNCHANGED <<fls, bus, eng, faults, evt>>
  /\ spc' = IF mask \cap {"MSGQ", "CB_IND"} # {} THEN "flsmgr" ELSE "wait"
  /\ UNCHANGED <<dev, mask, fm, cfgStarted, posted, proc, cl>>

\* MSGQ_GetMsgIdx has no message: FLSMGR_EventHandler returns.
NoMessage ==
  /\ spc = "flsmgr" /\ proc = NoMsg /\ posted = <<>>
  /\ spc' = "wait"
  /\ UNCHANGED <<drv, evt, mask, fm, cfgStarted, posted, proc, cl>>

\* MSGQ_GetMsgIdx: the message being processed, or the next posted one.
GetMsgIdx ==
  /\ spc = "flsmgr" /\ proc = NoMsg /\ posted # <<>>
  /\ proc' = Head(posted)
  /\ posted' = Tail(posted)
  /\ UNCHANGED <<drv, spc, evt, mask, fm, cfgStarted, cl>>

\* Mutant: FLSMGR_EventHandler handles one message and returns.
CompleteOne(result) ==
  /\ cl' = [cl EXCEPT ![proc.from] = [st |-> "done", res |-> result]]
  /\ proc' = NoMsg
  /\ spc' = "wait"
  /\ UNCHANGED <<evt, mask, posted>>

\* The message is answered and MSGQ_CompleteMsgIdx called; the loop goes on.
Complete(result) ==
  /\ cl' = [cl EXCEPT ![proc.from] = [st |-> "done", res |-> result]]
  /\ proc' = NoMsg
  /\ UNCHANGED <<spc, evt, mask, posted>>

\* BCM_ERR_EAGAIN: FLSMGR_EventHandler returns, the message stays.
Again == spc' = "wait" /\ UNCHANGED <<evt, mask, posted, proc, cl>>

\* FLSMGR_UninitStateHandler before the lane configuration has started.
UninitStart ==
  /\ fm = "UNINIT" /\ ~cfgStarted
  /\ CASE proc.cmd # "CFG_READ_LANE" ->
            Complete("FAILED") /\ UNCHANGED <<drv, fm, cfgStarted>>
       [] proc.cmd = "CFG_READ_LANE" /\ ~LaneSup ->
            Complete("SUCCESS") /\ fm' = "IDLE" /\ UNCHANGED <<drv, cfgStarted>>
       [] proc.cmd = "CFG_READ_LANE" /\ LaneSup ->
            /\ \E r \in StartOp(S, "CFG_READ_LANE", 1) : Assign(r.s)
            /\ cfgStarted' = TRUE
            /\ Again /\ UNCHANGED <<dev, fm>>

Result == IF fls.opsRes = "OK" THEN "SUCCESS" ELSE "FAILED"

\* FLSMGR_UninitStateHandler while it is going on.
UninitEnd ==
  /\ fm = "UNINIT" /\ cfgStarted
  /\ IF fls.opsRes = "PENDING" THEN Again /\ UNCHANGED fm
                               ELSE Complete(Result) /\ fm' = "IDLE"
  /\ UNCHANGED <<drv, cfgStarted>>

\* FLSMGR_IdleStateHandler.  The count of the chip's work restarts (history).
IdleStart ==
  /\ fm = "IDLE" /\ proc.cmd # "DEINIT"
  /\ dev' = [dev EXCEPT !.units = 0]
  /\ \E r \in StartOp(S, proc.cmd, proc.len) :
       /\ Assign(r.s)
       /\ IF r.ok THEN Again /\ fm' = "BUSY"
                  ELSE Complete("FAILED") /\ UNCHANGED fm
  /\ UNCHANGED cfgStarted

IdleDeInit ==
  /\ fm = "IDLE" /\ proc.cmd = "DEINIT"
  /\ \E s \in DeInit(S) : Assign(s)
  /\ fm' = "UNINIT" /\ cfgStarted' = FALSE
  /\ Complete("SUCCESS")
  /\ UNCHANGED dev

\* Mutant: a pending operation is taken for a finished one.
BusyNoPending ==
  /\ fm = "BUSY" /\ fm' = "IDLE"
  /\ Complete(IF fls.opsRes = "FAIL" THEN "FAILED" ELSE "SUCCESS")
  /\ UNCHANGED <<drv, cfgStarted>>

\* FLSMGR_BusyStateHandler
Busy ==
  /\ fm = "BUSY"
  /\ IF fls.opsRes = "PENDING" THEN Again /\ UNCHANGED fm
                               ELSE Complete(Result) /\ fm' = "IDLE"
  /\ UNCHANGED <<drv, cfgStarted>>

\* FLSMGR_MsgHandler
MsgHandler ==
  /\ spc = "flsmgr" /\ proc # NoMsg
  /\ UninitStart \/ UninitEnd \/ IdleStart \/ IdleDeInit \/ Busy

----------------------------------------------------------------------------
ServerStep == WaitEvent \/ ClearEvent \/ HandleFlash \/ NoMessage \/ GetMsgIdx
              \/ MsgHandler
Next ==
  \/ HwXferDone \/ HwReadData \/ HwDevEnd
  \/ \E c \in Clients : GetOpResult(c) \/ Cancel(c) \/ \E r \in Requests : Post(c, r)
  \/ GetOpResult(Server)
  \/ ServerStep

Spec == Init /\ [][Next]_vars

\* The server task is scheduled, the controller ends its transfers and the
\* chip its erase or program cycles.  Nothing makes a client do anything.
FairSpec ==
  /\ Spec
  /\ WF_vars(ServerStep)
  /\ WF_vars(HwXferDone) /\ WF_vars(HwReadData) /\ WF_vars(HwDevEnd)

----------------------------------------------------------------------------
\* A message is answered with SUCCESS only when the chip has erased, or
\* programmed, all the sectors or pages it asks for, and is at rest
\* (FLSMGR_BusyStateHandler with FLASH_EraseStateHandler, FLASH_WriteStateHandler).
SuccessMeansDone ==
  [][ \A t \in Tasks :
        cl[t].st = "waiting" /\ cl'[t].st = "done" /\ cl'[t].res = "SUCCESS"
        /\ proc.cmd \in {"ERASE", "WRITE"}
        => dev.units = proc.len /\ dev.busy = "none" ]_vars

\* An erase, program or status write is sent to the chip only while the chip
\* is at rest with its write enable latch set: it would ignore it otherwise,
\* and nothing in the driver would notice (FLASH_SubOpsWriteEnable).
NoCommandIsIgnored ==
  eng.run /\ eng.op \in {"SE", "PP", "DATA", "WRSR"} => dev.wel /\ dev.busy = "none"

\* A bus transfer is finished by the driver only after the controller has
\* ended it: FLASH_QSPIXferReadData without SPIF "should never happen".
XferEndsWhenDone ==
  [][ bus.cmd = "XFER" /\ bus' # bus => eng.spif ]_vars

\* What the server has still to handle of its events.
Coming == evt \cup (IF spc \in {"clear", "flash"} THEN mask ELSE {})

\* No wake-up is lost: whoever has to go on has an event coming.  A transfer
\* that ended brings the driver its event, an operation that ended, or a
\* message that nobody has taken, the flash manager's.
NoLostWakeup ==
  /\ bus.cmd = "XFER" => eng.run \/ "FLASH0" \in Coming
  /\ bus.cmd = "READ" /\ fls.status = "BUSY" /\ eng.todo = 0 /\ eng.fifo > 0
       => "FLASH0" \in Coming
  /\ (posted # <<>> /\ proc = NoMsg) \/ (proc # NoMsg /\ fls.opsRes # "PENDING")
       => spc = "flsmgr" \/ {"MSGQ", "CB_IND"} \cap Coming # {}

\* FLASH_Read failed in FLASH_QSPIReadStart: nobody resets status and currCmd.
ReadNotStarted == bus.cmd = "READ" /\ eng.todo = 0 /\ eng.fifo = 0

\* The driver works exactly for the message being processed: it is never busy
\* on behalf of a message that has been answered.  The code has one exception:
\* a read whose session did not start leaves the driver busy for ever.
BusyForAMessage ==
  fls.status = "BUSY" =>
    \/ proc # NoMsg /\ (fm = "BUSY" \/ proc.cmd = "CFG_READ_LANE")
    \/ ReadNotStarted

\* FLASH_OpsHandler failed without a transfer left to call it again: errFlag is
\* set, and nothing will bring the driver to its error state.
Hung == fls.status = "BUSY" /\ fls.errFlag /\ bus.cmd # "XFER"

\* Every message is answered, but for the one way the driver has of hanging.
EveryMessageIsAnswered ==
  \A t \in Tasks : cl[t].st = "waiting" ~> cl[t].st # "waiting" \/ Hung

\* An operation that was started is indicated: it does not stay pending for
\* ever (flash.h, "On successful completion or error").
EveryOperationEnds == fls.opsRes = "PENDING" ~> fls.opsRes # "PENDING"
==============================================================================
