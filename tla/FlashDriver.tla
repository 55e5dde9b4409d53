----------------------------- MODULE FlashDriver -----------------------------
(***************************************************************************)
(* The serial flash driver (drivers/flash/lib/flash.c) over its QSPI bus   *)
(* driver (lib/qspi.c), the controller and the flash chip.                 *)
(*                                                                         *)
(* An operation is cut into bus transfers.  FLASH_Erase, FLASH_Write, ...  *)
(* start the first one and return; the interrupt that ends a transfer only *)
(* sets an event, upon which the server task calls FLASH_StateHandler: it  *)
(* finishes the transfer, runs the state machine of the operation up to    *)
(* the next transfer, and indicates the end of the operation.              *)
(*                                                                         *)
(* The driver runs in one task, so each of its calls is an operator from   *)
(* the state s == [fls, bus, eng, faults, ind] to the set of its outcomes  *)
(* [s, ok], ok standing for BCM_ERR_OK; the controller (eng) and the chip  *)
(* (dev) move between the calls.                                           *)
(*                                                                         *)
(* Data abstraction: lengths count units (erase: sectors, write: program   *)
(* pages, read: interrupts, compare: pages).  Only READ_DATA outlives a    *)
(* call among the bus states, so the bus keeps no state of its own.        *)
(***************************************************************************)
EXTENDS Naturals

CONSTANTS
  Micron,      \* flsID is MICRON_N25Q512A: the flag status register is read
  LaneSup,     \* isLaneCfgSup of the flash
  LoopCount,   \* FLASH_READ_STATUS_LOOP_COUNT
  DataChunks,  \* transfers of QSPI_MSPI_FIFO_LEN bytes that carry a page
  RdIrqs,      \* interrupts raised by one bus read
  FaultKinds,  \* subset of {"wren", "flag", "rdstart", "rdstop"}
  MaxFaults    \* bound: faults of a behaviour

ASSUME FlashAssumption ==
  /\ Micron \in BOOLEAN /\ LaneSup \in BOOLEAN /\ ~(Micron /\ LaneSup)
  /\ LoopCount \in Nat /\ DataChunks \in Nat \ {0} /\ RdIrqs \in Nat \ {0}
  /\ FaultKinds \subseteq {"wren", "flag", "rdstart", "rdstop"}
  /\ MaxFaults \in Nat

Ops == {"ERASE", "WRITE", "READ", "COMPARE", "CFG_READ_LANE"}
Commands == {"WREN", "RDSR", "RFSR", "SE", "PP", "DATA", "WRSR"}

\* The bits of xferRxBuf[1] the driver looks at, for both registers.
Bits == [wel : BOOLEAN, wip : BOOLEAN, ready : BOOLEAN, err : BOOLEAN]
NoBits == [wel |-> FALSE, wip |-> FALSE, ready |-> FALSE, err |-> FALSE]

FlsType(maxLen) ==
  [status : {"UNINIT", "IDLE", "BUSY"}, opsRes : {"OK", "PENDING", "FAIL"},
   currOps : Ops \cup {"NONE"}, opsState : {"WE", "PGM", "CMP", "DONE", "EXIT"},
   subState : {"NONE", "RS", "VER_WEL", "WR", "VER_WIP", "VER_PES"},
   errFlag : BOOLEAN, indFlag : {"NONE", "DONE", "ERR"}, left : 0 .. maxLen,
   cnt : 0 .. LoopCount, wip : BOOLEAN, rx : Bits, laneDone : BOOLEAN]

BusType == [cmd : {"INVALID", "XFER", "READ"}, op : Commands, rem : Nat]
EngType == [run : BOOLEAN, spif : BOOLEAN, op : Commands, last : BOOLEAN,
            rx : Bits, fifo : Nat, todo : Nat]
DevType ==
  [wel : BOOLEAN, busy : {"none", "SE", "DATA", "WRSR"}, err : BOOLEAN,
   units : Nat]

FlsInit == [status |-> "IDLE", opsRes |-> "OK", currOps |-> "NONE",
            opsState |-> "EXIT", subState |-> "NONE", errFlag |-> FALSE,
            indFlag |-> "NONE", left |-> 0, cnt |-> 0, wip |-> FALSE,
            rx |-> NoBits, laneDone |-> FALSE]
BusInit == [cmd |-> "INVALID", op |-> "WREN", rem |-> 0]
EngInit == [run |-> FALSE, spif |-> FALSE, op |-> "WREN", last |-> TRUE,
            rx |-> NoBits, fifo |-> 0, todo |-> 0]
DevInit == [wel |-> FALSE, busy |-> "none", err |-> FALSE, units |-> 0]

Ok(s)  == [s |-> s, ok |-> TRUE]
Err(s) == [s |-> s, ok |-> FALSE]

\* The failure of a step that left s, when a fault of this kind is left.
Failures(s, kind) ==
  IF kind \in FaultKinds /\ s.faults > 0
  THEN {Err([s EXCEPT !.faults = @ - 1])}
  ELSE {}

----------------------------------------------------------------------------
(* qspi.c: the bus.                                                        *)

IsBusBusy(s) == s.bus.cmd # "INVALID"

\* FLASH_QSPIXferStart: a transfer still under way is abandoned.
XferStart(s, op, last) ==
  [s EXCEPT !.eng = [@ EXCEPT !.run = TRUE, !.spif = FALSE, !.op = op,
                              !.last = last]]

\* FLASH_QSPIXferInternal, up to the end of its first START state.
Xfer(s, op, chunks) ==
  XferStart([s EXCEPT !.bus = [cmd |-> "XFER", op |-> op, rem |-> chunks - 1]],
            op, chunks = 1)

\* FLASH_QSPIReadInternal: the session may be busy or fail to start, and the
\* bus command stays FLASH_BUS_CMD_READ.
BusRead(s) ==
  LET t == [s EXCEPT !.bus = [@ EXCEPT !.cmd = "READ", !.rem = RdIrqs]]
  IN  {Ok([t EXCEPT !.eng = [@ EXCEPT !.fifo = 0, !.todo = RdIrqs]])}
      \cup Failures(t, "rdstart")

\* FLASH_QSPIReadStop
ReadStop(s) ==
  LET t == [s EXCEPT !.bus.cmd = "INVALID", !.eng.todo = 0, !.eng.fifo = 0]
  IN  {Ok(t)} \cup Failures(t, "rdstop")

\* FLASH_QSPIXferReadData: without SPIF the receive buffer keeps what it had.
XferReadData(s) ==
  IF s.eng.spif
  THEN [s EXCEPT !.eng.spif = FALSE,
                 !.fls.rx = IF s.bus.op \in {"RDSR", "RFSR"} THEN s.eng.rx
                                                             ELSE @]
  ELSE s

\* FLASH_QSPIXferStateHandler from READ_DATA.
XferStateHandler(s) ==
  LET t == XferReadData(s)
  IN  IF s.bus.rem = 0
      THEN [t EXCEPT !.bus.cmd = "INVALID"]
      ELSE XferStart([t EXCEPT !.bus.rem = @ - 1], s.bus.op, s.bus.rem = 1)

\* FLASH_QSPIReadStateHandler from READ_DATA: drain the FIFO, stop at the end.
ReadStateHandler(s) ==
  LET t == [s EXCEPT !.bus.rem = @ - s.eng.fifo, !.eng.fifo = 0]
  IN  IF t.bus.rem = 0 THEN ReadStop(t) ELSE {Ok(t)}

\* FLASH_QSPIStateHandlerInternal, called on a busy bus only.
BusStateHandler(s, isErr) ==
  CASE s.bus.cmd = "READ" -> IF isErr THEN ReadStop(s) ELSE ReadStateHandler(s)
    [] s.bus.cmd = "XFER" ->
         IF isErr
         THEN {Ok([s EXCEPT !.bus.cmd = "INVALID", !.eng.run = FALSE])}
         ELSE {Ok(XferStateHandler(s))}

----------------------------------------------------------------------------
(* flash.c: the operations.                                                *)

\* FLASH_UpdateStateDone, FLASH_UpdateStateError
Finish(s, opsRes, ind) ==
  [s EXCEPT !.fls = [@ EXCEPT !.opsRes = opsRes, !.currOps = "NONE",
                     !.opsState = "EXIT", !.subState = "NONE",
                     !.status = "IDLE", !.indFlag = ind]]
UpdateStateDone(s)  == Finish(s, "OK", "DONE")
UpdateStateError(s) == Finish([s EXCEPT !.fls.errFlag = FALSE], "FAIL", "ERR")

Goto(s, opsState, subState) ==
  [s EXCEPT !.fls.opsState = opsState, !.fls.subState = subState]

\* States WE/WE: the write enable latch is set before every unit.
WriteEnable(s) ==
  Xfer(Goto([s EXCEPT !.fls.cnt = 0], "WE", "RS"), "WREN", 1)

ReadStatus(s, verify) == Xfer(Goto(s, s.fls.opsState, verify), "RDSR", 1)

\* States SE, PP and WS, and the transfer that starts them.
StartUnit(s) ==
  CASE s.fls.currOps = "ERASE" -> Xfer(Goto(s, "PGM", "RS"), "SE", 1)
    [] s.fls.currOps = "WRITE" -> Xfer(Goto(s, "PGM", "WR"), "PP", 1)
    [] s.fls.currOps = "CFG_READ_LANE" -> Xfer(Goto(s, "PGM", "RS"), "WRSR", 1)

\* Mutant: the latch is taken for granted once the status was read.
SubOpsNoWelCheck(s) ==
  IF s.fls.subState = "RS" THEN {Ok(ReadStatus(s, "VER_WEL"))}
                           ELSE {Ok(StartUnit(s))}

\* Mutant: the loop count is tested for one more.
SubOpsOneMore(s) ==
  CASE s.fls.subState = "RS" -> {Ok(ReadStatus(s, "VER_WEL"))}
    [] s.fls.subState = "VER_WEL" /\ s.fls.cnt > LoopCount -> {Err(s)}
    [] s.fls.subState = "VER_WEL" /\ s.fls.cnt <= LoopCount /\ ~s.fls.rx.wel ->
         {Ok(ReadStatus([s EXCEPT !.fls.cnt = @ + 1], "VER_WEL"))}
    [] s.fls.subState = "VER_WEL" /\ s.fls.cnt <= LoopCount /\ s.fls.rx.wel ->
         {Ok(StartUnit([s EXCEPT !.fls.cnt = 0]))}

\* FLASH_SubOpsWriteEnable
SubOpsWriteEnable(s) ==
  CASE s.fls.subState = "RS" -> {Ok(ReadStatus(s, "VER_WEL"))}
    [] s.fls.subState = "VER_WEL" /\ s.fls.cnt >= LoopCount -> {Err(s)}
    [] s.fls.subState = "VER_WEL" /\ s.fls.cnt < LoopCount /\ ~s.fls.rx.wel ->
         {Ok(ReadStatus([s EXCEPT !.fls.cnt = @ + 1], "VER_WEL"))}
    [] s.fls.subState = "VER_WEL" /\ s.fls.cnt < LoopCount /\ s.fls.rx.wel ->
         {Ok(StartUnit([s EXCEPT !.fls.cnt = 0]))}

\* Mutant: the last unit of an operation is not done.
UnitDoneEarly(s) ==
  IF s.fls.currOps = "CFG_READ_LANE" \/ s.fls.left <= 2
  THEN UpdateStateDone(s)
  ELSE WriteEnable([s EXCEPT !.fls.left = @ - 1])

\* A sector erased, a page programmed or the status register written.
UnitDone(s) ==
  CASE s.fls.currOps = "CFG_READ_LANE" ->
         UpdateStateDone([s EXCEPT !.fls.laneDone = TRUE])
    [] s.fls.currOps # "CFG_READ_LANE" /\ s.fls.left = 1 ->
         UpdateStateDone([s EXCEPT !.fls.left = 0])
    [] s.fls.currOps # "CFG_READ_LANE" /\ s.fls.left > 1 ->
         WriteEnable([s EXCEPT !.fls.left = @ - 1])

\* FLASH_SubOpsSectorErase, FLASH_SubOpsWrite, FLASH_SubOpsWriteStatus after
\* their first transfer.  VER_PES reads the flag status of the N25Q512A, on which
\* no lane is configured (FlashAssumption).
SubOpsProgram(s) ==
  CASE s.fls.subState = "WR" ->
         {Ok(Xfer(Goto(s, "PGM", "RS"), "DATA", DataChunks))}
    [] s.fls.subState = "RS" -> {Ok(ReadStatus(s, "VER_WIP"))}
    [] s.fls.subState = "VER_WIP" ->
         LET t == [s EXCEPT !.fls.wip = s.fls.rx.wip]
         IN  IF Micron THEN {Ok(Xfer(Goto(t, "PGM", "VER_PES"), "RFSR", 1))}
             ELSE IF t.fls.wip THEN {Ok(ReadStatus(t, "VER_WIP"))}
             ELSE {Ok(UnitDone(t))}
    [] s.fls.subState = "VER_PES" ->
         IF s.fls.rx.err THEN {Err(s)}
         ELSE IF s.fls.rx.ready /\ ~s.fls.wip THEN {Ok(UnitDone(s))}
         ELSE {Ok(ReadStatus(s, "VER_WIP"))}

\* FLASH_CompareStateHandler, state RD: the next page.
CompareRead(s) == BusRead(Goto([s EXCEPT !.fls.left = @ - 1], "CMP", "NONE"))

\* State CMP: the page read differs from the data, or not.
ComparePage(s) ==
  {Ok(UpdateStateError(s))}
  \cup IF s.fls.left > 0 THEN CompareRead(s) ELSE {Ok(UpdateStateDone(s))}

\* FLASH_OpsHandler and the state handlers, looping while isTrigAgain.
OpsHandler(s) ==
  IF s.fls.errFlag THEN {Ok(UpdateStateError(s))}
  ELSE CASE s.fls.opsState = "WE"   -> SubOpsWriteEnable(s)
         [] s.fls.opsState = "PGM"  -> SubOpsProgram(s)
         [] s.fls.opsState = "CMP"  -> ComparePage(s)
         [] s.fls.opsState = "DONE" -> {Ok(UpdateStateDone(s))}

\* The end of FLASH_StateHandler: errors are kept in errFlag, and indFlag says
\* which of FLASH_OpsDoneInd and FLASH_OpsErrInd is called, if any.
Indicate(r) ==
  [r.s EXCEPT !.fls.errFlag = @ \/ ~r.ok, !.ind = (r.s.fls.indFlag # "NONE")]

\* FLASH_StateHandler
StateHandler(s) ==
  IF s.fls.currOps = "NONE" THEN {s}
  ELSE UNION
    { IF b.ok /\ IsBusBusy(b.s) THEN {b.s}
      ELSE {Indicate(r) : r \in OpsHandler([b.s EXCEPT !.fls.errFlag = @ \/ ~b.ok])} :
      b \in IF IsBusBusy(s) THEN BusStateHandler(s, s.fls.errFlag) ELSE {Ok(s)} }

\* FLASH_Erase, FLASH_Write, FLASH_Read, FLASH_Compare, FLASH_BlankCheck and
\* FLASH_CfgReadLane.  Length 0 stands for parameters the driver refuses.
StartOp(s, op, len) ==
  LET t == [s EXCEPT !.fls = [@ EXCEPT !.status = "BUSY", !.opsRes = "PENDING",
              !.currOps = op, !.errFlag = FALSE, !.indFlag = "NONE",
              !.left = len, !.cnt = 0, !.wip = FALSE]]
  IN  IF s.fls.status # "IDLE" \/ len = 0 THEN {Err(s)}
      ELSE CASE op \in {"ERASE", "WRITE", "CFG_READ_LANE"} -> {Ok(WriteEnable(t))}
             [] op = "READ"    -> BusRead(Goto(t, "DONE", "NONE"))
             [] op = "COMPARE" -> CompareRead(t)

\* FLASH_DeInit
DeInit(s) ==
  LET t == [s EXCEPT !.fls = [@ EXCEPT !.currOps = "NONE", !.opsRes = "OK",
              !.errFlag = FALSE, !.status = "UNINIT",
              !.laneDone = s.fls.laneDone /\ ~LaneSup]]
  IN  IF IsBusBusy(t) THEN {r.s : r \in BusStateHandler(t, TRUE)} ELSE {t}

----------------------------------------------------------------------------
(* The controller and the chip, as the driver uses them.                   *)

\* A command takes effect when its last transfer releases the chip select; a
\* fault makes the chip ignore a write enable.
DevCommand(dev, op) ==
  CASE op = "WREN" /\ dev.busy = "none" -> [dev EXCEPT !.wel = TRUE]
    [] op \in {"SE", "DATA", "WRSR"} /\ dev.busy = "none" /\ dev.wel ->
         [dev EXCEPT !.busy = op, !.err = FALSE]
    [] OTHER -> dev

DevStatus(dev) ==
  [wel |-> dev.wel, wip |-> dev.busy # "none", ready |-> dev.busy = "none",
   err |-> dev.err]

\* The chip ends what it was doing, well or (flag) badly.
DevEnd(dev, failed) ==
  [dev EXCEPT !.wel = FALSE, !.busy = "none", !.err = failed,
              !.units = IF failed \/ dev.busy = "WRSR" THEN @ ELSE @ + 1]
==============================================================================
