----------------------------- MODULE PartitionMgr ----------------------------
(***************************************************************************)
(* The partition table manager (system/nvm/lib/ptm.c) as it runs in the    *)
(* server task of the flash manager (os/erika/flsmgr_osil.c, ptm_osil.c).  *)
(*                                                                         *)
(* Clients load images, and load, write and erase user data, by messages   *)
(* to the server.  The partition manager serves them one after the other,  *)
(* by posting one or two messages to the flash manager, whose server is    *)
(* the same task: it returns, and goes on when PTM_FLASH_OP_DONE_EVENT     *)
(* says that a message of its own was completed.  User data pass through   *)
(* one RAM buffer, PTM_UserData, that the flash manager's messages point   *)
(* to.                                                                     *)
(*                                                                         *)
(* Here the flash manager is a queue of messages that are done in order    *)
(* and end with a result; module FlashServer has its inside.  A restart    *)
(* after a power failure is a behaviour that begins with whatever the      *)
(* failure left in the flash: the manager keeps nothing else.              *)
(***************************************************************************)
EXTENDS Naturals, Sequences, FiniteSets

CONSTANTS
  Clients,    \* the tasks that use the partition manager
  Images,     \* the user images, each an entry of the user image table
  NoImage,    \* an image ID that no table has
  Vals,       \* the contents clients write
  Cap,        \* bound: PTM_USER_DATA_MAX_SIZE less the header, in units
  ImgSize,    \* bound: actualSize of the firmware image, in the same units
  Requests,   \* what clients ask for
  Slots,      \* bound: the message slots of the flash manager's queue
  Others,     \* bound: the slots that other clients of it hold at a time
  FaultKinds, \* the flash operations that may fail
  MaxFaults   \* bound: how often

ASSUME ImageAssumption == NoImage \notin Images
ASSUME SizeAssumption ==
  /\ Cap \in Nat \ {0} /\ ImgSize \in Nat \ {0}
  /\ Slots \in Nat \ {0} /\ Others \in Nat /\ MaxFaults \in Nat
ASSUME FaultAssumption == FaultKinds \subseteq {"READ", "WRITE", "ERASE"}

Payload == [val : Vals, len : 1 .. Cap]
Blank   == [val |-> "blank", len |-> 0]   \* erased: no magic
Torn    == [val |-> "torn", len |-> 0]    \* partly written, or read: a wrong CRC
Content == Payload \cup {Blank, Torn}

\* off is that of PTM_LoadImg, len the caller's aBufSize.
Request(cmd, offs, lens, vals) ==
  [cmd : {cmd}, img : Images \cup {NoImage}, off : offs, len : lens, val : vals]
ASSUME RequestAssumption ==
  Requests \subseteq Request("LOAD_IMG", 0 .. ImgSize, 1 .. ImgSize, {"none"})
                 \cup Request("LOAD_USERDATA", {0}, 1 .. Cap, {"none"})
                 \cup Request("WRITE_USERDATA", {0}, 1 .. Cap + 1, Vals)
                 \cup Request("ERASE_USERDATA", {0}, {0}, {"none"})
NoReq == [cmd |-> "NONE", img |-> NoImage, off |-> 0, len |-> 0, val |-> "none"]
Nobody == "nobody"
NoMsg == [from |-> Nobody, req |-> NoReq]

\* What a client gets: a content of the user data, or a stretch of the image.
Stretch(off, len) == [val |-> "image", off |-> off, len |-> len]
NoData == [val |-> "none", len |-> 0]
Results == {"NONE", "OK", "UNKNOWN", "BUSY", "NOT_FOUND", "NOMEM", "NODEV", "DATA_INTEG"}

Events == {"FLASH", "FMSGQ", "OPDONE", "MSGQ", "SHUTDOWN"}
FlsmgrEvents == {"FLASH", "FMSGQ"}
PtmEvents    == {"OPDONE", "MSGQ"}
Tables == {"PT", "FW", "SYS", "USER"}

VARIABLES
  tbl,     \* the tables that are valid in the flash
  flash,   \* the user data in the flash
  st,      \* PTM_Comp.state,
  opState, \*   .opState, as the table whose reading it awaits,
  userTbl, \*   .userImage: it holds the entries of Images (or was cleared),
  h0, h1,  \*   .msgHdr0 and .msgHdr1: slots, 0 for NULL
  ram,     \* PTM_UserData
  rbuf,    \* the buffer of the client whose load of an image is processed
  result,  \* result of the message being processed
  posted,  \* PTM_MSGQ: the posted messages, and
  proc,    \* the one being processed, each [from, req]
  cl,      \* each client's message: [st, res, data]
  slot,    \* the slots of the flash manager's queue
  fq,      \* its messages, the one in progress first: [h, op, img, off, len]
  fl,      \* the operation of the first: at rest, running, or its result
  faults,
  mode,    \* where the task is: InitPTM, the main loop, or ended
  spc,     \* what it is about to do
  evt,     \* the events pending for the task
  mask     \* eventMask, its copy of the events being handled

ptm  == <<st, opState, userTbl, h0, h1, result>>
msgs == <<posted, proc, cl>>
fm   == <<slot, fq, fl, faults>>
vars == <<tbl, flash, st, opState, userTbl, h0, h1, ram, rbuf, result, posted, proc, cl,
          slot, fq, fl, faults, mode, spc, evt, mask>>

TypeOK ==
  /\ tbl \subseteq Tables /\ flash \in [Images -> Content]
  /\ st \in {"UNINIT", "IDLE", "BUSY", "ERROR"} /\ opState \in Tables
  /\ userTbl \in BOOLEAN
  /\ h0 \in 0 .. Slots /\ h1 \in 0 .. Slots
  /\ ram \in Content /\ rbuf \in {Torn} \cup {Stretch(o, l) : o \in 0 .. ImgSize, l \in 1 .. ImgSize}
  /\ result \in Results
  /\ \A i \in DOMAIN posted : posted[i].from \in Clients /\ posted[i].req \in Requests
  /\ proc = NoMsg \/ (proc.from \in Clients /\ proc.req \in Requests)
  /\ st = "BUSY" => proc # NoMsg /\ h0 # 0
  /\ slot \in [1 .. Slots -> {"init", "other", "posted", "SUCCESS", "FAILED"}]
  /\ \A i \in DOMAIN fq : slot[fq[i].h] = "posted"
  /\ fl \in {"rest", "run", "SUCCESS", "FAILED"} /\ faults \in 0 .. MaxFaults
  /\ mode \in {"init", "main", "stopped"} /\ spc \in {"wait", "flsmgr", "ptm"}
  /\ evt \subseteq Events /\ mask \subseteq Events

FlashMsg(h, op, m) == [h |-> h, op |-> op, img |-> m.img, off |-> m.off, len |-> m.len]

\* After InitFlsMgr and PTM_Init: the partition table is being read.
Init ==
  /\ tbl \in SUBSET Tables /\ flash \in [Images -> Content]
  /\ st = "UNINIT" /\ opState = "PT" /\ userTbl = FALSE
  /\ h0 = 1 /\ h1 = 0 /\ ram = Blank /\ rbuf = Torn /\ result = "NONE"
  /\ posted = <<>> /\ proc = NoMsg
  /\ cl = [c \in Clients |-> [st |-> "idle", res |-> "NONE", data |-> NoData]]
  /\ slot = [h \in 1 .. Slots |-> IF h = 1 THEN "posted" ELSE "init"]
  /\ fq = <<FlashMsg(1, "READ", NoReq)>> /\ fl = "rest" /\ faults = MaxFaults
  /\ mode = "init" /\ spc = "wait" /\ evt = {"FMSGQ"} /\ mask = {}

----------------------------------------------------------------------------
(* The clients, the flash and the other users of the flash manager.        *)

\* PTM_LoadImg, PTM_LoadUserData, PTM_WriteUserData, PTM_EraseUserData, which
\* refuse with BCM_ERR_INVAL_STATE in the other states.
Call(c, r) ==
  /\ cl[c].st = "idle" /\ st \in {"IDLE", "BUSY"}
  /\ posted' = Append(posted, [from |-> c, req |-> r])
  /\ cl' = [cl EXCEPT ![c].st = "waiting"]
  /\ evt' = evt \cup {"MSGQ"}
  /\ UNCHANGED <<tbl, flash, ptm, ram, rbuf, proc, fm, mode, spc, mask>>

\* PTM_GetStatus upon the completion event.
GetStatus(c) ==
  /\ cl[c].st = "done"
  /\ cl' = [cl EXCEPT ![c] = [st |-> "idle", res |-> "NONE", data |-> NoData]]
  /\ UNCHANGED <<tbl, flash, ptm, ram, rbuf, posted, proc, fm, mode, spc, evt, mask>>

\* Another client of the flash manager takes a slot, or gives it back.
OtherClient(h) ==
  /\ \/ /\ slot[h] = "init" /\ Cardinality({k \in 1 .. Slots : slot[k] = "other"}) < Others
        /\ slot' = [slot EXCEPT ![h] = "other"]
     \/ slot[h] = "other" /\ slot' = [slot EXCEPT ![h] = "init"]
  /\ UNCHANGED <<tbl, flash, ptm, ram, rbuf, msgs, fq, fl, faults, mode, spc, evt, mask>>

MayFail(op) == op \in FaultKinds /\ faults > 0

\* The flash operation in progress ends.  The data are those in the buffer now.
HwDone ==
  /\ fl = "run"
  /\ LET m == Head(fq) IN
     \/ /\ fl' = "SUCCESS"
        /\ CASE m.op = "ERASE" -> flash' = [flash EXCEPT ![m.img] = Blank]
                                  /\ UNCHANGED <<ram, rbuf>>
             [] m.op = "WRITE" -> flash' = [flash EXCEPT ![m.img] =
                                              IF @ = Blank THEN ram ELSE Torn]
                                  /\ UNCHANGED <<ram, rbuf>>
             [] m.op = "READ" /\ proc.req.cmd = "LOAD_USERDATA" ->
                                  ram' = flash[m.img] /\ UNCHANGED <<flash, rbuf>>
             [] m.op = "READ" /\ proc.req.cmd = "LOAD_IMG" ->
                                  rbuf' = Stretch(m.off, m.len) /\ UNCHANGED <<flash, ram>>
             [] m.op = "READ" /\ proc = NoMsg -> UNCHANGED <<flash, ram, rbuf>>
        /\ UNCHANGED faults
     \/ /\ fl' = "FAILED" /\ MayFail(m.op) /\ faults' = faults - 1
        /\ flash' = IF m.op = "READ" THEN flash ELSE [flash EXCEPT ![m.img] = Torn]
        /\ ram'   = IF m.op = "READ" /\ proc.req.cmd = "LOAD_USERDATA" THEN Torn ELSE ram
        /\ UNCHANGED rbuf
  /\ evt' = evt \cup {"FLASH"}
  /\ UNCHANGED <<tbl, ptm, msgs, slot, fq, mode, spc, mask>>

\* The shutdown of the system, for the main loop of the task.
Shutdown ==
  /\ mode = "main" /\ "SHUTDOWN" \notin evt
  /\ evt' = evt \cup {"SHUTDOWN"}
  /\ UNCHANGED <<tbl, flash, ptm, ram, rbuf, msgs, fm, mode, spc, mask>>

----------------------------------------------------------------------------
(* The server task.                                                        *)

\* InitPTM leaves its loop; the task goes on to the main loop, or terminates.
InitPTMEnd ==
  /\ mode = "init" /\ spc = "wait" /\ st \in {"IDLE", "ERROR"}
  /\ mode' = IF st = "IDLE" THEN "main" ELSE "stopped"
  /\ UNCHANGED <<tbl, flash, ptm, ram, rbuf, msgs, fm, spc, evt, mask>>

\* waitEvents: InitPTM does not wait for messages.
WaitEvents == IF mode = "init" THEN FlsmgrEvents \cup {"OPDONE"} ELSE Events

\* FLSMGR_ServerEventHandler is through; the shutdown event ends the loop.
EndOfRound ==
  /\ spc' = "wait"
  /\ mode' = IF "SHUTDOWN" \in mask THEN "stopped" ELSE mode

\* BCM_WaitEvent, BCM_GetEvent and BCM_ClearEvent of the events copied.
WaitEvent ==
  /\ spc = "wait" /\ mode # "stopped"
  /\ mode = "init" => st \notin {"IDLE", "ERROR"}
  /\ evt \cap WaitEvents # {}
  /\ mask' = evt \cap WaitEvents
  /\ evt' = evt \ WaitEvents
  /\ spc' = "flsmgr"
  /\ UNCHANGED <<tbl, flash, ptm, ram, rbuf, msgs, fm, mode>>

\* The first message of the flash manager's queue is completed.
FlsmgrComplete(res) ==
  /\ slot' = [slot EXCEPT ![Head(fq).h] = res]
  /\ fq' = Tail(fq)
  /\ evt' = evt \cup {"OPDONE"}
  /\ UNCHANGED <<mode, spc>>

\* FLSMGR_EventHandler returns, and PTM_EventHandler is called if it has to be.
FlsmgrReturn ==
  /\ IF mask \cap PtmEvents # {} THEN spc' = "ptm" /\ UNCHANGED mode ELSE EndOfRound
  /\ UNCHANGED <<slot, fq, evt>>

\* One turn of the loop of FLSMGR_EventHandler.
FlsmgrEventHandler ==
  /\ spc = "flsmgr"
  /\ IF mask \cap FlsmgrEvents = {} \/ fq = <<>>
     THEN FlsmgrReturn /\ UNCHANGED <<fl, faults>>
     ELSE \/ fl = "rest" /\ fl' = "run" /\ FlsmgrReturn /\ UNCHANGED faults
          \/ fl = "rest" /\ MayFail(Head(fq).op) /\ faults' = faults - 1
             /\ FlsmgrComplete("FAILED") /\ UNCHANGED fl
          \/ fl = "run" /\ FlsmgrReturn /\ UNCHANGED <<fl, faults>>
          \/ fl \in {"SUCCESS", "FAILED"} /\ FlsmgrComplete(fl) /\ fl' = "rest"
             /\ UNCHANGED faults
  /\ UNCHANGED <<tbl, flash, ptm, ram, rbuf, msgs, mask>>

----------------------------------------------------------------------------
(* PTM_EventHandler.                                                       *)

\* FLSMGR_Read, FLSMGR_Write, FLSMGR_Erase: they are refused when no slot is left.
\* Which of the free ones the queue gives is its own affair.
FreeSlots == {h \in 1 .. Slots : slot[h] = "init"}
ASlot(hs) == CHOOSE h \in hs : TRUE
Send(hs, ms) ==
  /\ slot' = [h \in 1 .. Slots |-> IF h \in hs THEN "posted" ELSE slot[h]]
  /\ fq' = fq \o ms
  /\ evt' = evt \cup {"FMSGQ"}

\* PTM_FlashGetOpsResult: the result gives the slot back, any error is FAILED.
FlashGetOpsResult(h) ==
  IF h = 0 THEN "FAILED"
  ELSE CASE slot[h] \in {"SUCCESS", "FAILED"} -> slot[h]
         [] slot[h] = "posted" -> "PENDING"
         [] OTHER -> "FAILED"
Received(hs) ==
  [h \in 1 .. Slots |->
     IF h \in hs /\ slot[h] \in {"SUCCESS", "FAILED"} THEN "init" ELSE slot[h]]

NextTable == [PT |-> "FW", FW |-> "SYS", SYS |-> "USER", USER |-> "USER"]

\* PTM_UnInitStateHandler, with PTM_InitStateHandler: the table awaited is read;
\* it is validated, and the next one requested.  Only the user image table
\* may be invalid: it is cleared.
UnInitStateHandler ==
  /\ st = "UNINIT"
  /\ LET read == FlashGetOpsResult(h0) = "SUCCESS"
         freed == Received({h0})
         hs == {h \in 1 .. Slots : freed[h] = "init"}
     IN CASE read /\ opState = "USER" ->
               /\ st' = "IDLE" /\ userTbl' = ("USER" \in tbl) /\ slot' = freed
               /\ UNCHANGED <<opState, h0, fq, evt, mode, spc>>
          [] read /\ opState # "USER" /\ opState \in tbl /\ hs # {} ->
               /\ h0' = ASlot(hs) /\ opState' = NextTable[opState]
               /\ slot' = [freed EXCEPT ![ASlot(hs)] = "posted"]
               /\ fq' = Append(fq, FlashMsg(ASlot(hs), "READ", NoReq))
               /\ evt' = evt \cup {"FMSGQ"}
               /\ EndOfRound
               /\ UNCHANGED <<st, userTbl>>
          [] OTHER ->
               /\ st' = "ERROR" /\ slot' = freed
               /\ EndOfRound
               /\ UNCHANGED <<opState, userTbl, h0, fq, evt>>
  /\ UNCHANGED <<tbl, flash, h1, result, ram, rbuf, msgs, fl, faults, mask>>

\* No message is left: PTM_EventHandler returns.
NoMessage ==
  /\ spc = "ptm" /\ st # "UNINIT" /\ proc = NoMsg /\ posted = <<>>
  /\ EndOfRound
  /\ UNCHANGED <<tbl, flash, ptm, ram, rbuf, msgs, fm, evt, mask>>

\* MSGQ_GetMsgIdx takes the next message, whose result is still BCM_ERR_UNKNOWN.
GetMsgIdx ==
  /\ spc = "ptm" /\ st # "UNINIT" /\ proc = NoMsg /\ posted # <<>>
  /\ proc' = Head(posted) /\ posted' = Tail(posted)
  /\ result' = "UNKNOWN"
  /\ UNCHANGED <<tbl, flash, st, opState, userTbl, h0, h1, ram, rbuf, cl, fm, mode, spc,
                 evt, mask>>

\* Mutant: PTM_EventHandler completes one message and returns.
CompleteAndReturn(res, data) ==
  /\ cl' = [cl EXCEPT ![proc.from] = [st |-> "done", res |-> res, data |-> data]]
  /\ proc' = NoMsg
  /\ EndOfRound

\* MSGQ_CompleteMsgIdx; the loop goes on.
Complete(res, data) ==
  /\ cl' = [cl EXCEPT ![proc.from] = [st |-> "done", res |-> res, data |-> data]]
  /\ proc' = NoMsg
  /\ UNCHANGED <<mode, spc>>

\* The state becomes BUSY: PTM_EventHandler returns, the message stays.
Begin == st' = "BUSY" /\ EndOfRound /\ UNCHANGED <<proc, cl>>

\* PTM_IdleStateHandler had an error: the message is completed with the result
\* it has by then.
Refuse(res) == Complete(res, NoData) /\ result' = "NONE" /\ UNCHANGED st

\* getImageEntry
Entry(r) == IF r.cmd = "LOAD_IMG" THEN r.img \in Images
                                  ELSE userTbl /\ r.img \in Images

\* PTM_ReadImg, PTM_CMD_LOAD_IMG: the rest of the image from the offset, or as
\* much as fits in the buffer; an offset past the end is ignored.
RestFrom(off) == IF off < ImgSize THEN ImgSize - off ELSE ImgSize
Start(off)    == IF off < ImgSize THEN off ELSE 0
LoadImg(r) ==
  /\ r.cmd = "LOAD_IMG"
  /\ LET size == RestFrom(r.off)
         read == [r EXCEPT !.off = Start(r.off),
                           !.len = IF r.len < size THEN r.len ELSE size]
         res  == IF r.len < size THEN "NOMEM" ELSE "BUSY"
         h    == ASlot(FreeSlots)
     IN CASE ~Entry(r) -> Refuse("NOT_FOUND") /\ UNCHANGED <<h0, slot, fq, evt, rbuf>>
          [] Entry(r) /\ FreeSlots = {} ->
               Refuse(res) /\ UNCHANGED <<h0, slot, fq, evt, rbuf>>
          [] OTHER -> /\ Send({h}, <<FlashMsg(h, "READ", read)>>)
                      /\ h0' = h /\ result' = res /\ rbuf' = Torn
                      /\ Begin
  /\ UNCHANGED <<h1, ram>>

\* PTM_ReadImg, PTM_CMD_LOAD_USERDATA
LoadUserData(r) ==
  /\ r.cmd = "LOAD_USERDATA"
  /\ LET h == ASlot(FreeSlots) IN
     CASE ~Entry(r) -> Refuse("NOT_FOUND") /\ UNCHANGED <<h0, slot, fq, evt>>
       [] Entry(r) /\ FreeSlots = {} -> Refuse(result) /\ UNCHANGED <<h0, slot, fq, evt>>
       [] OTHER -> /\ Send({h}, <<FlashMsg(h, "READ", r)>>) /\ h0' = h
                   /\ Begin /\ UNCHANGED result
  /\ UNCHANGED <<h1, ram, rbuf>>

\* Mutant: compared with PTM_USER_DATA_MAX_SIZE, the header forgotten.
FitsNoHeader(r) == r.len <= Cap + 1

Fits(r) == r.len <= Cap

\* PTM_WriteUD.  When the erase is accepted and the write is not, the erase
\* stays queued and msgHdr1 keeps its handle.
WriteUserData(r) ==
  /\ r.cmd = "WRITE_USERDATA"
  /\ IF ~Entry(r) \/ ~Fits(r)
     THEN Refuse(result) /\ UNCHANGED <<h0, h1, ram, slot, fq, evt>>
     ELSE /\ ram' = [val |-> r.val, len |-> r.len]
          /\ LET e == ASlot(FreeSlots)
                 w == ASlot(FreeSlots \ {e})
             IN CASE FreeSlots = {} ->
                       Refuse(result) /\ h0' = 0 /\ h1' = 0 /\ UNCHANGED <<slot, fq, evt>>
                  [] Cardinality(FreeSlots) = 1 ->
                       /\ Send({e}, <<FlashMsg(e, "ERASE", r)>>)
                       /\ h0' = 0 /\ h1' = e
                       /\ Refuse(result)
                  [] OTHER ->
                       /\ Send({e, w}, <<FlashMsg(e, "ERASE", r), FlashMsg(w, "WRITE", r)>>)
                       /\ h0' = w /\ h1' = e
                       /\ Begin /\ UNCHANGED result
  /\ UNCHANGED rbuf

\* PTM_EraseUD
EraseUserData(r) ==
  /\ r.cmd = "ERASE_USERDATA"
  /\ LET h == ASlot(FreeSlots) IN
     CASE ~Entry(r) -> Refuse(result) /\ UNCHANGED <<h0, slot, fq, evt>>
       [] Entry(r) /\ FreeSlots = {} -> Refuse(result) /\ h0' = 0 /\ UNCHANGED <<slot, fq, evt>>
       [] OTHER -> /\ Send({h}, <<FlashMsg(h, "ERASE", r)>>) /\ h0' = h
                   /\ Begin /\ UNCHANGED result
  /\ UNCHANGED <<h1, ram, rbuf>>

\* PTM_IdleStateHandler
IdleStateHandler ==
  /\ spc = "ptm" /\ st = "IDLE" /\ proc # NoMsg
  /\ LET r == proc.req IN
     LoadImg(r) \/ LoadUserData(r) \/ WriteUserData(r) \/ EraseUserData(r)
  /\ UNCHANGED <<tbl, flash, opState, userTbl, posted, fl, faults, mask>>

\* PTM_ValidateUserData: a size of the whole buffer is refused.  The size of torn
\* data is checked before their CRC.
UserDataResults(r) ==
  CASE ram = Blank -> {"DATA_INTEG"}
    [] ram = Torn  -> {"DATA_INTEG", "NOMEM"}
    [] OTHER -> IF ram.len < Cap /\ ram.len <= r.len THEN {"OK"} ELSE {"NOMEM"}

\* PTM_ValidateImg and the cases around it; only a whole image has a CRC.
ImageResult(r) ==
  CASE result = "NOMEM" -> "NOMEM"
    [] result # "NOMEM" /\ r.off = 0 -> IF rbuf = Torn THEN "DATA_INTEG" ELSE "OK"
    [] OTHER -> "OK"

\* Mutant: the result of the write stands for that of the erase.
EraseResultIgnored == FlashGetOpsResult(h0)

\* The result of the operations of a request: the erase's, where there is one.
OpsResult == IF h1 # 0 THEN FlashGetOpsResult(h1) ELSE FlashGetOpsResult(h0)

\* Mutant: the erase's slot is not given back.
WriteHdrOnly == {h0}

HdrsReceived == {h0, h1} \ {0}

\* Mutant: the erase is waited for, the write not.
EraseHdrFirst == IF h1 # 0 THEN h1 ELSE h0

WaitedHdr == h0

\* Mutant: the data are handed out without having been validated.
NotValidated(r) == IF r.cmd = "LOAD_IMG" THEN {ImageResult(r)} ELSE {"OK"}

DoneResults(r) ==
  CASE r.cmd = "LOAD_IMG" -> {ImageResult(r)}
    [] r.cmd = "LOAD_USERDATA" -> UserDataResults(r)
    [] OTHER -> {"OK"}

\* What the client finds in its buffer.
Loaded(r, res) ==
  CASE r.cmd = "LOAD_IMG" -> rbuf
    [] r.cmd = "LOAD_USERDATA" /\ res = "OK" -> ram
    [] OTHER -> NoData

\* PTM_BusyStateHandler: nothing before msgHdr0 is done.
BusyStateHandler ==
  /\ spc = "ptm" /\ st = "BUSY"
  /\ IF FlashGetOpsResult(WaitedHdr) = "PENDING"
     THEN EndOfRound /\ UNCHANGED <<st, h0, h1, result, rbuf, proc, cl, slot>>
     ELSE /\ \E res \in IF OpsResult = "FAILED" THEN {"NODEV"} ELSE DoneResults(proc.req) :
               Complete(res, Loaded(proc.req, res))
          /\ slot' = Received(HdrsReceived)
          /\ h0' = 0 /\ h1' = 0 /\ st' = "IDLE" /\ result' = "NONE" /\ rbuf' = Torn
  /\ UNCHANGED <<tbl, flash, opState, userTbl, ram, posted, fq, fl, faults, evt, mask>>

----------------------------------------------------------------------------
PtmStep == (spc = "ptm" /\ UnInitStateHandler) \/ NoMessage \/ GetMsgIdx
           \/ IdleStateHandler \/ BusyStateHandler
ServerStep == InitPTMEnd \/ WaitEvent \/ FlsmgrEventHandler \/ PtmStep

Next ==
  \/ \E c \in Clients : GetStatus(c) \/ \E r \in Requests : Call(c, r)
  \/ \E h \in 1 .. Slots : OtherClient(h)
  \/ HwDone \/ Shutdown
  \/ ServerStep

Spec == Init /\ [][Next]_vars

\* The server task is scheduled and flash operations end.
FairSpec == Spec /\ WF_vars(ServerStep) /\ WF_vars(HwDone)

----------------------------------------------------------------------------
Answered(c, cmds, res) ==
  cl[c].st = "waiting" /\ cl'[c].st = "done" /\ cl'[c].res = res /\ proc.req.cmd \in cmds

\* The erase succeeded and the write after it failed: PTM_BusyStateHandler puts
\* the result of the erase over that of the write (ptm.c:657-664).
WriteResultLost == h1 # 0 /\ slot[h1] = "SUCCESS" /\ slot[h0] = "FAILED"

\* A write, or an erase, is answered with BCM_ERR_OK only when the flash holds
\* just what was asked for (PTM_BusyStateHandler with its two handles), with one
\* exception, which is a defect of the code: a write whose result is lost is
\* answered with BCM_ERR_OK, too.  Then neither the old data are there nor any
\* that a load would take for good.
WriteOkMeansStored ==
  [][ \A c \in Clients :
        LET r == proc.req IN
        /\ Answered(c, {"WRITE_USERDATA"}, "OK") =>
             \/ flash[r.img] = [val |-> r.val, len |-> r.len]
             \/ WriteResultLost /\ flash[r.img] \in {Blank, Torn}
        /\ Answered(c, {"ERASE_USERDATA"}, "OK") => flash[r.img] = Blank ]_vars

\* A load is answered with BCM_ERR_OK only with what the flash holds, all of it
\* and nothing else: no torn data, and none that the shared buffer had before
\* (PTM_ValidateUserData; the status of a load in PTM_GetStatus).
LoadReturnsStored ==
  [][ \A c \in Clients :
        LET r == proc.req IN
        /\ Answered(c, {"LOAD_USERDATA"}, "OK") => cl'[c].data = flash[r.img]
                                                   /\ flash[r.img] \in Payload
        /\ Answered(c, {"LOAD_IMG"}, "OK") =>
             cl'[c].data = Stretch(Start(r.off), RestFrom(r.off)) ]_vars

\* The flash manager writes user data from PTM_UserData when it gets to it: until
\* then the buffer keeps the data of the client whose write this is.
BufferIsOwned ==
  \A i \in DOMAIN fq :
    fq[i].op = "WRITE" =>
      /\ st = "BUSY" /\ proc.req.cmd = "WRITE_USERDATA" /\ proc.req.img = fq[i].img
      /\ ram = [val |-> proc.req.val, len |-> proc.req.len]

\* Every slot of the flash manager's queue that the partition manager took is
\* one it still has a handle of, and while it is idle it has none: a slot that
\* nobody receives the result of is lost for ever.
NoSlotLeak ==
  \A h \in 1 .. Slots :
    slot[h] \in {"posted", "SUCCESS", "FAILED"} => h \in {h0, h1} /\ st # "IDLE"

\* Every request that was accepted is answered, also one that was posted while
\* InitPTM does not wait for messages, unless the task ends.
EveryRequestIsAnswered ==
  \A c \in Clients : cl[c].st = "waiting" ~> cl[c].st # "waiting" \/ mode = "stopped"
==============================================================================
