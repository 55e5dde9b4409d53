-------------------------- MODULE FlashServerProofs --------------------------
(***************************************************************************)
(* Proofs about FlashServer, with the driver of FlashDriver, for any flash,*)
(* loop count, lengths, clients, commands and faults.                      *)
(***************************************************************************)
EXTENDS FlashServer, SequenceTheorems, TLAPS

----------------------------------------------------------------------------
(* The invariant of the driver.                                            *)

State == [fls : FlsType(MaxLen), bus : BusType, eng : EngType,
          faults : 0 .. MaxFaults, ind : BOOLEAN]

Programs == {"ERASE", "WRITE", "CFG_READ_LANE"}

\* The driver is busy exactly with an operation that is pending, and the states
\* of its state machine are those of the operation.
FlsOK(f) ==
  /\ f.status = "BUSY" <=> f.currOps # "NONE"
  /\ f.status = "BUSY" <=> f.opsRes = "PENDING"
  /\ f.status = "BUSY" => f.opsState # "EXIT"
  /\ f.status = "BUSY" /\ f.opsState \in {"WE", "PGM"} => f.currOps \in Programs /\ f.left > 0
  /\ f.status = "BUSY" /\ f.opsState = "WE" => f.subState \in {"RS", "VER_WEL"}
  /\ f.status = "BUSY" /\ f.opsState = "PGM" => f.subState \in {"WR", "RS", "VER_WIP", "VER_PES"}

\* The bus works for an operation, and a read knows what is still to come.
Quiet(e) == e.todo = 0 /\ e.fifo = 0
BusOK(s) ==
  /\ s.bus.cmd # "INVALID" => s.fls.status = "BUSY"
  /\ IF s.bus.cmd = "READ"
     THEN s.bus.rem > 0 /\ (s.bus.rem = s.eng.todo + s.eng.fifo \/ Quiet(s.eng))
     ELSE Quiet(s.eng)

Driver(s) == s \in State /\ FlsOK(s.fls) /\ BusOK(s)

\* After a call of the driver the transfer that was started is under way.
Started(s) ==
  /\ s.bus.cmd = "XFER" => s.eng.run
  /\ s.bus.cmd = "READ" => s.eng.fifo = 0

\* In a call of the driver: it works on an operation, the bus is at rest.
Work(s) == s \in State /\ FlsOK(s.fls) /\ s.fls.status = "BUSY" /\ Quiet(s.eng)

\* The same, before the state machine of the operation has a state.
Open(s) ==
  /\ s \in State /\ Quiet(s.eng) /\ s.fls.status = "BUSY"
  /\ s.fls.opsRes = "PENDING" /\ s.fls.currOps # "NONE"

----------------------------------------------------------------------------
LEMMA XferStartType ==
  ASSUME NEW s \in State, NEW op \in Commands, NEW last \in BOOLEAN
  PROVE  LET t == XferStart(s, op, last) IN
         /\ t \in State /\ t.fls = s.fls /\ t.bus = s.bus /\ t.ind = s.ind
         /\ t.eng.run /\ t.eng.todo = s.eng.todo /\ t.eng.fifo = s.eng.fifo
<1> DEFINE e == [s.eng EXCEPT !.run = TRUE, !.spif = FALSE, !.op = op, !.last = last]
<1>1. s.eng \in EngType
  BY DEF State
<1>2. e \in EngType /\ e.run /\ e.todo = s.eng.todo /\ e.fifo = s.eng.fifo
  BY <1>1 DEF EngType
<1>3. XferStart(s, op, last) = [s EXCEPT !.eng = e]
  BY DEF XferStart
<1> HIDE DEF e
<1> QED
  BY <1>2, <1>3 DEF State

LEMMA XferStep ==
  ASSUME NEW s, Work(s), NEW op \in Commands, NEW n \in Nat \ {0}
  PROVE  /\ Driver(Xfer(s, op, n)) /\ Started(Xfer(s, op, n))
         /\ Xfer(s, op, n).fls = s.fls
<1> DEFINE b == [cmd |-> "XFER", op |-> op, rem |-> n - 1]
           u == [s EXCEPT !.bus = b]
<1>1. s \in State /\ n - 1 \in Nat
  BY DEF Work
<1>2. b \in BusType /\ b.cmd = "XFER"
  BY <1>1 DEF BusType
<1> HIDE DEF b
<1>3. u \in State /\ u.fls = s.fls /\ u.bus = b /\ u.eng = s.eng
  BY <1>1, <1>2 DEF State
<1> HIDE DEF u
<1>4. PICK last \in BOOLEAN : last = (n = 1)
  OBVIOUS
<1> DEFINE t == XferStart(u, op, last)
<1>5. /\ t \in State /\ t.fls = s.fls /\ t.bus = b /\ t.eng.run
      /\ t.eng.todo = s.eng.todo /\ t.eng.fifo = s.eng.fifo
  <2>1. t \in State /\ t.fls = u.fls /\ t.bus = u.bus /\ t.eng.run
    BY <1>3, <1>4, XferStartType
  <2>2. t.eng.todo = u.eng.todo /\ t.eng.fifo = u.eng.fifo
    BY <1>3, <1>4, XferStartType
  <2> HIDE DEF t
  <2> QED
    BY <1>3, <2>1, <2>2
<1>6. Xfer(s, op, n) = t
  BY <1>4 DEF Xfer, b, u
<1> HIDE DEF t
<1>7. Driver(t)
  BY <1>2, <1>5 DEF Driver, Work, BusOK, Quiet
<1> QED
  BY <1>2, <1>5, <1>6, <1>7 DEF Started

LEMMA WithFls ==
  ASSUME NEW s \in State, NEW f \in FlsType(MaxLen)
  PROVE  LET t == [s EXCEPT !.fls = f] IN
         /\ t \in State /\ t.fls = f
         /\ t.bus = s.bus /\ t.eng = s.eng /\ t.faults = s.faults /\ t.ind = s.ind
BY DEF State

LEMMA WorkIsOpen ==
  ASSUME NEW s, Work(s)
  PROVE  Open(s)
BY DEF Work, Open, FlsOK

\* The operation goes on in another state of its state machine.
LEMMA GotoWork ==
  ASSUME NEW s, Open(s), NEW o \in {"WE", "PGM"},
         NEW u \in {"RS", "WR", "VER_WEL", "VER_WIP", "VER_PES"},
         o = "WE" => u \in {"RS", "VER_WEL"},
         o = "PGM" => u \in {"WR", "RS", "VER_WIP", "VER_PES"},
         s.fls.currOps \in Programs, s.fls.left > 0
  PROVE  LET t == Goto(s, o, u) IN
         /\ Work(t) /\ t.fls.opsRes = "PENDING" /\ t.fls.currOps = s.fls.currOps
         /\ t.fls.left = s.fls.left /\ t.fls.indFlag = s.fls.indFlag
         /\ t.fls.opsState = o
<1> DEFINE f == [s.fls EXCEPT !.opsState = o, !.subState = u]
<1>1. s \in State /\ s.fls \in FlsType(MaxLen) /\ s.fls.status = "BUSY"
      /\ s.fls.opsRes = "PENDING" /\ s.fls.currOps # "NONE" /\ Quiet(s.eng)
  BY DEF Open, State
<1>2. f \in FlsType(MaxLen)
  BY <1>1 DEF FlsType
<1>3. /\ f.opsState = o /\ f.subState = u /\ f.currOps = s.fls.currOps
      /\ f.left = s.fls.left /\ f.opsRes = s.fls.opsRes /\ f.status = s.fls.status
      /\ f.indFlag = s.fls.indFlag
  BY <1>1 DEF FlsType
<1>4. Goto(s, o, u) = [s EXCEPT !.fls = f]
  BY <1>1 DEF Goto, State
<1> HIDE DEF f
<1>5. FlsOK(f) /\ f.opsRes = "PENDING"
  BY <1>1, <1>3 DEF FlsOK, Programs
<1> DEFINE t == [s EXCEPT !.fls = f]
<1>6. t \in State /\ t.fls = f /\ t.eng = s.eng
  BY <1>1, <1>2, WithFls
<1> HIDE DEF t
<1>7. Work(t)
  BY <1>1, <1>3, <1>5, <1>6 DEF Work
<1> QED
  BY <1>3, <1>4, <1>5, <1>6, <1>7 DEF t

\* The operation ends.
LEMMA FinishStep ==
  ASSUME NEW s \in State, Quiet(s.eng), s.bus.cmd = "INVALID",
         NEW r \in {"OK", "FAIL"}, NEW i \in {"DONE", "ERR"}
  PROVE  LET t == Finish(s, r, i) IN
         /\ Driver(t) /\ Started(t) /\ t.fls.status = "IDLE" /\ t.fls.indFlag = i
<1> DEFINE f == [s.fls EXCEPT !.opsRes = r, !.currOps = "NONE",
                     !.opsState = "EXIT", !.subState = "NONE",
                     !.status = "IDLE", !.indFlag = i]
<1>1. s.fls \in FlsType(MaxLen)
  BY DEF State
<1>2. f \in FlsType(MaxLen)
  BY <1>1 DEF FlsType
<1>3. f.opsRes = r /\ f.currOps = "NONE" /\ f.status = "IDLE" /\ f.indFlag = i
  BY <1>1 DEF FlsType
<1>4. Finish(s, r, i) = [s EXCEPT !.fls = f]
  BY DEF Finish
<1> HIDE DEF f
<1>5. FlsOK(f)
  BY <1>3 DEF FlsOK
<1> DEFINE t == [s EXCEPT !.fls = f]
<1>6. t \in State /\ t.fls = f /\ t.eng = s.eng /\ t.bus = s.bus
  BY <1>2, WithFls
<1> HIDE DEF t
<1>7. Driver(t) /\ Started(t)
  BY <1>5, <1>6 DEF Driver, BusOK, Quiet, Started
<1> QED
  BY <1>3, <1>4, <1>6, <1>7 DEF t

----------------------------------------------------------------------------
(* The operators of the state machines.                                    *)

\* What a state handler leaves: the driver goes on, or the end is indicated.
Going(s) == Driver(s) /\ Started(s) /\ (s.fls.opsRes = "PENDING" \/ s.fls.indFlag # "NONE")

\* An operation in one of the states WE and PGM.
Unit(s) == Work(s) /\ s.bus.cmd = "INVALID" /\ s.fls.currOps \in Programs /\ s.fls.left > 0

LEMMA GoingXfer ==
  ASSUME NEW s, Work(s), NEW op \in Commands, NEW n \in Nat \ {0}
  PROVE  Going(Xfer(s, op, n)) /\ Xfer(s, op, n).fls.opsRes = "PENDING"
<1>1. s.fls.opsRes = "PENDING"
  BY DEF Work, FlsOK
<1> DEFINE t == Xfer(s, op, n)
<1>2. Driver(t) /\ Started(t) /\ t.fls = s.fls
  BY XferStep
<1> HIDE DEF t
<1>3. Going(t) /\ t.fls.opsRes = "PENDING"
  BY <1>1, <1>2 DEF Going
<1> QED
  BY <1>3 DEF t

LEMMA WriteEnableStep ==
  ASSUME NEW s, Open(s), s.fls.currOps \in Programs, s.fls.left > 0
  PROVE  Going(WriteEnable(s)) /\ WriteEnable(s).fls.opsRes = "PENDING"
<1> DEFINE f == [s.fls EXCEPT !.cnt = 0]
           u == [s EXCEPT !.fls = f]
           t == Goto(u, "WE", "RS")
<1>1. s \in State /\ s.fls \in FlsType(MaxLen) /\ s.fls.status = "BUSY"
      /\ s.fls.opsRes = "PENDING" /\ s.fls.currOps # "NONE" /\ Quiet(s.eng)
  BY DEF Open, State
<1>2. f \in FlsType(MaxLen)
  BY <1>1, FlashAssumption DEF FlsType
<1>3. /\ f.status = s.fls.status /\ f.opsRes = s.fls.opsRes /\ f.left = s.fls.left
      /\ f.currOps = s.fls.currOps
  BY <1>1 DEF FlsType
<1>4. [s EXCEPT !.fls.cnt = 0] = u
  OBVIOUS
<1> HIDE DEF f
<1>5. u \in State /\ u.fls = f /\ u.eng = s.eng
  BY <1>1, <1>2, WithFls
<1> HIDE DEF u
<1>6. Open(u) /\ u.fls.currOps \in Programs /\ u.fls.left > 0
  BY <1>1, <1>3, <1>5 DEF Open
<1>8. Work(t)
  BY <1>6, GotoWork
<1>9. WriteEnable(s) = Xfer(t, "WREN", 1)
  BY <1>4 DEF WriteEnable
<1> HIDE DEF t
<1> QED
  BY <1>8, <1>9, GoingXfer DEF Commands

LEMMA ReadStatusStep ==
  ASSUME NEW s, Unit(s), NEW v \in {"VER_WEL", "VER_WIP"},
         \/ s.fls.opsState = "WE" /\ v = "VER_WEL"
         \/ s.fls.opsState = "PGM" /\ v = "VER_WIP"
  PROVE  Going(ReadStatus(s, v))
<1> DEFINE t == Goto(s, s.fls.opsState, v)
<1>1. Work(t)
  BY GotoWork, WorkIsOpen DEF Unit
<1>2. ReadStatus(s, v) = Xfer(t, "RDSR", 1)
  BY DEF ReadStatus
<1> HIDE DEF t
<1> QED
  BY <1>1, <1>2, GoingXfer DEF Commands

LEMMA StartUnitStep ==
  ASSUME NEW s, Unit(s)
  PROVE  Going(StartUnit(s))
<1>1. Work(s) /\ s.fls.currOps \in Programs /\ s.fls.left > 0
  BY DEF Unit
<1>2. Work(Goto(s, "PGM", "RS")) /\ Work(Goto(s, "PGM", "WR"))
  BY <1>1, GotoWork, WorkIsOpen
<1>3. /\ Going(Xfer(Goto(s, "PGM", "RS"), "SE", 1))
      /\ Going(Xfer(Goto(s, "PGM", "WR"), "PP", 1))
      /\ Going(Xfer(Goto(s, "PGM", "RS"), "WRSR", 1))
  BY <1>2, GoingXfer DEF Commands
<1>4. CASE s.fls.currOps = "ERASE"
  BY <1>3, <1>4 DEF StartUnit
<1>5. CASE s.fls.currOps = "WRITE"
  BY <1>3, <1>5 DEF StartUnit
<1>6. CASE s.fls.currOps = "CFG_READ_LANE"
  BY <1>3, <1>6 DEF StartUnit
<1> QED
  BY <1>1, <1>4, <1>5, <1>6 DEF Programs

\* A field of the operation that its state machine does not test changes.
LEMMA SameUnit ==
  ASSUME NEW s, Unit(s), NEW f \in FlsType(MaxLen),
         f.status = s.fls.status, f.opsRes = s.fls.opsRes, f.left > 0,
         f.currOps = s.fls.currOps, f.opsState = s.fls.opsState,
         f.subState = s.fls.subState
  PROVE  LET t == [s EXCEPT !.fls = f] IN Unit(t) /\ t.fls = f
<1>1. s \in State /\ FlsOK(s.fls) /\ s.fls.status = "BUSY" /\ Quiet(s.eng)
      /\ s.bus.cmd = "INVALID" /\ s.fls.currOps \in Programs
  BY DEF Unit, Work
<1> DEFINE t == [s EXCEPT !.fls = f]
<1>2. t \in State /\ t.fls = f /\ t.eng = s.eng /\ t.bus = s.bus
  BY <1>1, WithFls
<1> HIDE DEF t
<1>3. FlsOK(f)
  BY <1>1 DEF FlsOK
<1>4. Unit(t) /\ t.fls = f
  BY <1>1, <1>2, <1>3 DEF Unit, Work
<1> QED
  BY <1>4 DEF t

LEMMA GoingDone ==
  ASSUME NEW s \in State, Quiet(s.eng), s.bus.cmd = "INVALID"
  PROVE  Going(UpdateStateDone(s)) /\ Going(UpdateStateError(s))
<1>1. Going(UpdateStateDone(s))
  <2> DEFINE t == Finish(s, "OK", "DONE")
  <2>1. Driver(t) /\ Started(t) /\ t.fls.indFlag = "DONE"
    BY FinishStep
  <2> HIDE DEF t
  <2>2. Going(t)
    BY <2>1 DEF Going
  <2> QED
    BY <2>2 DEF t, UpdateStateDone
<1>2. Going(UpdateStateError(s))
  <2> DEFINE f == [s.fls EXCEPT !.errFlag = FALSE]
             u == [s EXCEPT !.fls = f]
             t == Finish(u, "FAIL", "ERR")
  <2>1. s.fls \in FlsType(MaxLen)
    BY DEF State
  <2>2. f \in FlsType(MaxLen)
    BY <2>1 DEF FlsType
  <2>3. [s EXCEPT !.fls.errFlag = FALSE] = u
    OBVIOUS
  <2> HIDE DEF f
  <2>4. u \in State /\ u.eng = s.eng /\ u.bus = s.bus
    BY <2>2, WithFls
  <2> HIDE DEF u
  <2>5. Driver(t) /\ Started(t) /\ t.fls.indFlag = "ERR"
    BY <2>4, FinishStep
  <2>6. UpdateStateError(s) = t
    BY <2>3 DEF UpdateStateError
  <2> HIDE DEF t
  <2> QED
    BY <2>5, <2>6 DEF Going
<1> QED
  BY <1>1, <1>2

LEMMA UnitDoneStep ==
  ASSUME NEW s, Unit(s)
  PROVE  Going(UnitDone(s))
<1>1. /\ s \in State /\ s.fls \in FlsType(MaxLen) /\ s.fls.left \in Nat /\ s.fls.left > 0
      /\ s.fls.left <= MaxLen /\ MaxLen \in Nat
  BY RequestAssumption DEF Unit, Work, State, FlsType
<1>2. CASE s.fls.currOps = "CFG_READ_LANE"
  <2> DEFINE f == [s.fls EXCEPT !.laneDone = TRUE]
             u == [s EXCEPT !.fls = f]
  <2>1. f \in FlsType(MaxLen)
    BY <1>1 DEF FlsType
  <2>2. /\ f.status = s.fls.status /\ f.opsRes = s.fls.opsRes /\ f.left > 0
        /\ f.currOps = s.fls.currOps /\ f.opsState = s.fls.opsState
        /\ f.subState = s.fls.subState
    BY <1>1 DEF FlsType
  <2>3. UnitDone(s) = UpdateStateDone(u)
    BY <1>2 DEF UnitDone
  <2> HIDE DEF f
  <2>4. Unit(u)
    BY <2>1, <2>2, SameUnit
  <2> HIDE DEF u
  <2> QED
    BY <2>3, <2>4, GoingDone DEF Unit, Work
<1>3. CASE s.fls.currOps # "CFG_READ_LANE" /\ s.fls.left = 1
  <2> DEFINE f == [s.fls EXCEPT !.left = 0]
             u == [s EXCEPT !.fls = f]
  <2>1. f \in FlsType(MaxLen)
    BY <1>1 DEF FlsType
  <2>2. UnitDone(s) = UpdateStateDone(u)
    BY <1>3 DEF UnitDone
  <2> HIDE DEF f
  <2>3. u \in State /\ u.eng = s.eng /\ u.bus = s.bus
    BY <1>1, <2>1, WithFls
  <2> HIDE DEF u
  <2> QED
    BY <2>2, <2>3, GoingDone DEF Unit, Work
<1>4. CASE s.fls.currOps # "CFG_READ_LANE" /\ s.fls.left > 1
  <2> DEFINE f == [s.fls EXCEPT !.left = @ - 1]
             u == [s EXCEPT !.fls = f]
  <2>1. f \in FlsType(MaxLen)
    BY <1>1, <1>4 DEF FlsType
  <2>2. /\ f.status = s.fls.status /\ f.opsRes = s.fls.opsRes /\ f.left > 0
        /\ f.currOps = s.fls.currOps /\ f.opsState = s.fls.opsState
        /\ f.subState = s.fls.subState
    BY <1>1, <1>4 DEF FlsType
  <2>3. UnitDone(s) = WriteEnable(u)
    <3>1. s.fls.currOps # "CFG_READ_LANE" /\ s.fls.left > 1 /\ s.fls.left # 1
      BY <1>1, <1>4
    <3> QED
      BY <3>1 DEF UnitDone
  <2> HIDE DEF f
  <2>4. Unit(u)
    BY <2>1, <2>2, SameUnit
  <2> HIDE DEF u
  <2> QED
    BY <2>3, <2>4, WriteEnableStep, WorkIsOpen DEF Unit
<1> QED
  BY <1>1, <1>2, <1>3, <1>4

LEMMA SubOpsWriteEnableStep ==
  ASSUME NEW s, Unit(s), s.fls.opsState = "WE", NEW r \in SubOpsWriteEnable(s)
  PROVE  r.ok \in BOOLEAN /\ Going(r.s)
<1>1. s.fls \in FlsType(MaxLen) /\ FlsOK(s.fls) /\ s.fls.status = "BUSY" /\ s \in State
  BY DEF Unit, Work, State
<1>2. s.fls.subState \in {"RS", "VER_WEL"}
  BY <1>1 DEF FlsOK
<1>3. s.fls.cnt \in Nat /\ LoopCount \in Nat /\ s.fls.cnt <= LoopCount
      /\ s.fls.rx \in Bits
  BY <1>1, FlashAssumption DEF FlsType
<1>4. CASE s.fls.subState = "RS"
  <2>1. r = Ok(ReadStatus(s, "VER_WEL"))
    BY <1>4 DEF SubOpsWriteEnable
  <2> QED
    BY <2>1, ReadStatusStep DEF Ok
<1>5. CASE s.fls.subState = "VER_WEL" /\ s.fls.cnt >= LoopCount
  <2>1. r = Err(s)
    BY <1>3, <1>5 DEF SubOpsWriteEnable
  <2>2. Going(s)
    BY DEF Going, Unit, Work, Driver, FlsOK, BusOK, Started
  <2> QED
    BY <2>1, <2>2 DEF Err
<1>6. CASE s.fls.subState = "VER_WEL" /\ s.fls.cnt < LoopCount /\ ~s.fls.rx.wel
  <2> DEFINE f == [s.fls EXCEPT !.cnt = @ + 1]
             u == [s EXCEPT !.fls = f]
  <2>1. f \in FlsType(MaxLen)
    BY <1>1, <1>3, <1>6 DEF FlsType
  <2>2. /\ f.status = s.fls.status /\ f.opsRes = s.fls.opsRes /\ f.left > 0
        /\ f.currOps = s.fls.currOps /\ f.opsState = s.fls.opsState
        /\ f.subState = s.fls.subState
    BY <1>1 DEF FlsType, Unit
  <2>3. r = Ok(ReadStatus(u, "VER_WEL"))
    <3>1. ~(s.fls.cnt >= LoopCount) /\ s.fls.subState # "RS"
      BY <1>3, <1>6
    <3> QED
      BY <1>6, <3>1 DEF SubOpsWriteEnable
  <2> HIDE DEF f
  <2>4. Unit(u) /\ u.fls.opsState = "WE"
    BY <2>1, <2>2, SameUnit
  <2> HIDE DEF u
  <2> QED
    BY <2>3, <2>4, ReadStatusStep DEF Ok
<1>7. CASE s.fls.subState = "VER_WEL" /\ s.fls.cnt < LoopCount /\ s.fls.rx.wel
  <2> DEFINE f == [s.fls EXCEPT !.cnt = 0]
             u == [s EXCEPT !.fls = f]
  <2>1. f \in FlsType(MaxLen)
    BY <1>1, <1>3 DEF FlsType
  <2>2. /\ f.status = s.fls.status /\ f.opsRes = s.fls.opsRes /\ f.left > 0
        /\ f.currOps = s.fls.currOps /\ f.opsState = s.fls.opsState
        /\ f.subState = s.fls.subState
    BY <1>1 DEF FlsType, Unit
  <2>3. r = Ok(StartUnit(u))
    <3>1. ~(s.fls.cnt >= LoopCount) /\ s.fls.subState # "RS"
      BY <1>3, <1>7
    <3> QED
      BY <1>7, <3>1 DEF SubOpsWriteEnable
  <2> HIDE DEF f
  <2>4. Unit(u)
    BY <2>1, <2>2, SameUnit
  <2> HIDE DEF u
  <2> QED
    BY <2>3, <2>4, StartUnitStep DEF Ok
<1> QED
  BY <1>2, <1>3, <1>4, <1>5, <1>6, <1>7

LEMMA SubOpsProgramStep ==
  ASSUME NEW s, Unit(s), s.fls.opsState = "PGM", NEW r \in SubOpsProgram(s)
  PROVE  r.ok \in BOOLEAN /\ Going(r.s)
<1>1. s.fls \in FlsType(MaxLen) /\ FlsOK(s.fls) /\ s.fls.status = "BUSY" /\ s \in State
      /\ Work(s) /\ s.fls.currOps \in Programs /\ s.fls.left > 0
  BY DEF Unit, Work, State
<1>2. s.fls.subState \in {"WR", "RS", "VER_WIP", "VER_PES"}
  BY <1>1 DEF FlsOK
<1>3. s.fls.rx \in Bits
  BY <1>1 DEF FlsType
<1>4. CASE s.fls.subState = "WR"
  <2>1. r = Ok(Xfer(Goto(s, "PGM", "RS"), "DATA", DataChunks))
    BY <1>4 DEF SubOpsProgram
  <2>2. Work(Goto(s, "PGM", "RS"))
    BY <1>1, GotoWork, WorkIsOpen
  <2> QED
    BY <2>1, <2>2, GoingXfer, FlashAssumption DEF Ok, Commands
<1>5. CASE s.fls.subState = "RS"
  <2>1. r = Ok(ReadStatus(s, "VER_WIP"))
    BY <1>5 DEF SubOpsProgram
  <2> QED
    BY <2>1, ReadStatusStep DEF Ok
<1>6. CASE s.fls.subState = "VER_WIP"
  <2> DEFINE f == [s.fls EXCEPT !.wip = s.fls.rx.wip]
             u == [s EXCEPT !.fls = f]
  <2>1. f \in FlsType(MaxLen)
    BY <1>1, <1>3 DEF FlsType, Bits
  <2>2. /\ f.status = s.fls.status /\ f.opsRes = s.fls.opsRes /\ f.left > 0
        /\ f.currOps = s.fls.currOps /\ f.opsState = s.fls.opsState
        /\ f.subState = s.fls.subState
    BY <1>1 DEF FlsType
  <2>3. \/ r = Ok(Xfer(Goto(u, "PGM", "VER_PES"), "RFSR", 1))
        \/ r = Ok(ReadStatus(u, "VER_WIP"))
        \/ r = Ok(UnitDone(u))
    BY <1>6 DEF SubOpsProgram
  <2> HIDE DEF f
  <2>4. Unit(u) /\ u.fls.opsState = "PGM"
    BY <2>1, <2>2, SameUnit
  <2> HIDE DEF u
  <2>5. Work(Goto(u, "PGM", "VER_PES"))
    BY <2>4, GotoWork, WorkIsOpen DEF Unit
  <2>6. /\ Going(Xfer(Goto(u, "PGM", "VER_PES"), "RFSR", 1))
        /\ Going(ReadStatus(u, "VER_WIP")) /\ Going(UnitDone(u))
    BY <2>4, <2>5, GoingXfer, ReadStatusStep, UnitDoneStep DEF Commands
  <2>7. CASE r = Ok(Xfer(Goto(u, "PGM", "VER_PES"), "RFSR", 1))
    BY <2>6, <2>7 DEF Ok
  <2>8. CASE r = Ok(ReadStatus(u, "VER_WIP"))
    BY <2>6, <2>8 DEF Ok
  <2>9. CASE r = Ok(UnitDone(u))
    BY <2>6, <2>9 DEF Ok
  <2> QED
    BY <2>3, <2>7, <2>8, <2>9
<1>7. CASE s.fls.subState = "VER_PES"
  <2>1. \/ r = Err(s)
        \/ r = Ok(UnitDone(s))
        \/ r = Ok(ReadStatus(s, "VER_WIP"))
    BY <1>7 DEF SubOpsProgram
  <2>2. Going(s)
    BY DEF Going, Unit, Work, Driver, FlsOK, BusOK, Started
  <2>3. Going(UnitDone(s)) /\ Going(ReadStatus(s, "VER_WIP"))
    BY UnitDoneStep, ReadStatusStep
  <2>4. CASE r = Err(s)
    BY <2>2, <2>4 DEF Err
  <2>5. CASE r = Ok(UnitDone(s))
    BY <2>3, <2>5 DEF Ok
  <2>6. CASE r = Ok(ReadStatus(s, "VER_WIP"))
    BY <2>3, <2>6 DEF Ok
  <2> QED
    BY <2>1, <2>4, <2>5, <2>6
<1> QED
  BY <1>2, <1>4, <1>5, <1>6, <1>7

\* A bus read starts, or does not and leaves the bus command READ.
LEMMA BusReadStep ==
  ASSUME NEW s, Work(s), s.bus.cmd = "INVALID", NEW r \in BusRead(s)
  PROVE  /\ r.ok \in BOOLEAN /\ Going(r.s) /\ r.s.fls = s.fls
         /\ r.ok \/ (r.s.bus.cmd = "READ" /\ Quiet(r.s.eng))
<1>1. s \in State /\ FlsOK(s.fls) /\ s.fls.status = "BUSY" /\ Quiet(s.eng)
      /\ s.bus \in BusType /\ s.eng \in EngType /\ s.faults \in 0 .. MaxFaults
  BY DEF Work, State
<1>2. s.fls.opsRes = "PENDING"
  BY <1>1 DEF FlsOK
<1>3. RdIrqs \in Nat /\ RdIrqs > 0 /\ MaxFaults \in Nat
  BY FlashAssumption
<1> DEFINE b == [s.bus EXCEPT !.cmd = "READ", !.rem = RdIrqs]
           e == [s.eng EXCEPT !.fifo = 0, !.todo = RdIrqs]
           t == [s EXCEPT !.bus = b]
<1>4. b \in BusType /\ b.cmd = "READ" /\ b.rem = RdIrqs
  BY <1>1, <1>3 DEF BusType
<1>5. e \in EngType /\ e.fifo = 0 /\ e.todo = RdIrqs
  BY <1>1, <1>3 DEF EngType
<1>6. BusRead(s) = {Ok([t EXCEPT !.eng = e])} \cup Failures(t, "rdstart")
  BY <1>1 DEF BusRead, State
<1> HIDE DEF b, e
<1>7. t \in State /\ t.bus = b /\ t.eng = s.eng /\ t.fls = s.fls /\ t.faults = s.faults
  BY <1>1, <1>4 DEF State
<1> HIDE DEF t
<1>8. CASE r = Ok([t EXCEPT !.eng = e])
  <2>1. r.ok /\ r.s = [t EXCEPT !.eng = e]
    BY <1>8 DEF Ok
  <2>2. r.s \in State /\ r.s.bus = b /\ r.s.eng = e /\ r.s.fls = s.fls
    BY <1>5, <1>7, <2>1 DEF State
  <2>3. Going(r.s)
    BY <1>1, <1>2, <1>3, <1>4, <1>5, <2>2 DEF Going, Driver, BusOK, Started
  <2> QED
    BY <2>1, <2>2, <2>3, <1>8 DEF Ok
<1>9. CASE r \in Failures(t, "rdstart")
  <2>1. t.faults > 0 /\ r = Err([t EXCEPT !.faults = @ - 1])
    BY <1>9 DEF Failures
  <2>2. r.ok = FALSE /\ r.s = [t EXCEPT !.faults = @ - 1]
    BY <2>1 DEF Err
  <2>3. r.s \in State /\ r.s.bus = b /\ r.s.eng = s.eng /\ r.s.fls = s.fls
    BY <1>1, <1>3, <1>7, <2>1, <2>2 DEF State
  <2>4. Going(r.s)
    BY <1>1, <1>2, <1>3, <1>4, <2>3 DEF Going, Driver, BusOK, Started, Quiet
  <2> QED
    BY <1>1, <1>4, <2>2, <2>3, <2>4
<1> QED
  BY <1>6, <1>8, <1>9

LEMMA CompareReadStep ==
  ASSUME NEW s, Open(s), s.bus.cmd = "INVALID", s.fls.left > 0, NEW r \in CompareRead(s)
  PROVE  /\ r.ok \in BOOLEAN /\ Going(r.s) /\ r.s.fls.opsRes = "PENDING"
         /\ r.ok \/ (r.s.bus.cmd = "READ" /\ Quiet(r.s.eng))
<1> DEFINE f == [s.fls EXCEPT !.left = @ - 1, !.opsState = "CMP", !.subState = "NONE"]
           u == [s EXCEPT !.fls = f]
<1>1. s \in State /\ s.fls \in FlsType(MaxLen) /\ s.fls.status = "BUSY"
      /\ s.fls.opsRes = "PENDING" /\ s.fls.currOps # "NONE"
      /\ Quiet(s.eng) /\ s.fls.left \in Nat /\ s.fls.left <= MaxLen /\ MaxLen \in Nat
  BY RequestAssumption DEF Open, State, FlsType
<1>2. f \in FlsType(MaxLen)
  <2> DEFINE n == s.fls.left - 1
  <2>1. n \in 0 .. MaxLen
    BY <1>1
  <2>2. f = [s.fls EXCEPT !.left = n, !.opsState = "CMP", !.subState = "NONE"]
    OBVIOUS
  <2> HIDE DEF n, f
  <2> QED
    BY <1>1, <2>1, <2>2 DEF FlsType
<1>3. /\ f.status = s.fls.status /\ f.opsRes = s.fls.opsRes
      /\ f.currOps = s.fls.currOps /\ f.opsState = "CMP"
  BY <1>1 DEF FlsType
<1>4. Goto([s EXCEPT !.fls.left = @ - 1], "CMP", "NONE") = u
  BY <1>1 DEF Goto, State, FlsType
<1> HIDE DEF f
<1>5. u \in State /\ u.fls = f /\ u.eng = s.eng /\ u.bus = s.bus
  BY <1>1, <1>2, WithFls
<1> HIDE DEF u
<1>6. FlsOK(f) /\ f.opsRes = "PENDING"
  BY <1>1, <1>3 DEF FlsOK
<1>7. Work(u)
  BY <1>1, <1>3, <1>5, <1>6 DEF Work
<1>8. r \in BusRead(u)
  BY <1>4 DEF CompareRead
<1> QED
  BY <1>5, <1>6, <1>7, <1>8, BusReadStep

\* FLASH_OpsHandler is called with the bus at rest.
LEMMA OpsHandlerStep ==
  ASSUME NEW s, Work(s), s.bus.cmd = "INVALID", NEW r \in OpsHandler(s)
  PROVE  /\ r.ok \in BOOLEAN /\ Going(r.s)
         /\ s.fls.errFlag => r.s.fls.status = "IDLE"
<1>1. s \in State /\ s.fls \in FlsType(MaxLen) /\ FlsOK(s.fls) /\ s.fls.status = "BUSY"
      /\ Quiet(s.eng) /\ s.fls.left \in Nat
  BY RequestAssumption DEF Work, State, FlsType
<1>2. Going(UpdateStateDone(s)) /\ Going(UpdateStateError(s))
  BY <1>1, GoingDone
<1>3. CASE s.fls.errFlag
  <2>1. r = Ok(UpdateStateError(s))
    BY <1>3 DEF OpsHandler
  <2>2. r.ok = TRUE /\ r.s = UpdateStateError(s)
    BY <2>1 DEF Ok
  <2>3. UpdateStateError(s).fls.status = "IDLE"
    BY <1>1 DEF UpdateStateError, Finish, State, FlsType
  <2> QED
    BY <1>2, <2>2, <2>3
<1>4. CASE ~s.fls.errFlag
  <2>1. s.fls.opsState \in {"WE", "PGM", "CMP", "DONE"}
    BY <1>1 DEF FlsOK, FlsType
  <2>2. CASE s.fls.opsState = "WE"
    <3>1. Unit(s)
      BY <1>1, <2>2 DEF Unit, FlsOK
    <3>2. r \in SubOpsWriteEnable(s)
      BY <1>4, <2>2 DEF OpsHandler
    <3> QED
      BY <1>4, <2>2, <3>1, <3>2, SubOpsWriteEnableStep
  <2>3. CASE s.fls.opsState = "PGM"
    <3>1. Unit(s)
      BY <1>1, <2>3 DEF Unit, FlsOK
    <3>2. r \in SubOpsProgram(s)
      BY <1>4, <2>3 DEF OpsHandler
    <3> QED
      BY <1>4, <2>3, <3>1, <3>2, SubOpsProgramStep
  <2>4. CASE s.fls.opsState = "CMP"
    <3>1. r \in ComparePage(s)
      BY <1>4, <2>4 DEF OpsHandler
    <3>2. CASE r = Ok(UpdateStateError(s))
      BY <1>2, <1>4, <3>2 DEF Ok
    <3>3. CASE r = Ok(UpdateStateDone(s))
      BY <1>2, <1>4, <3>3 DEF Ok
    <3>4. CASE s.fls.left > 0 /\ r \in CompareRead(s)
      BY <1>4, <3>4, CompareReadStep, WorkIsOpen
    <3> QED
      BY <3>1, <3>2, <3>3, <3>4 DEF ComparePage
  <2>5. CASE s.fls.opsState = "DONE"
    <3>1. r = Ok(UpdateStateDone(s))
      BY <1>4, <2>5 DEF OpsHandler
    <3> QED
      BY <1>2, <1>4, <3>1 DEF Ok
  <2> QED
    BY <2>1, <2>2, <2>3, <2>4, <2>5
<1> QED
  BY <1>3, <1>4

LEMMA ReadStopStep ==
  ASSUME NEW s \in State, NEW r \in ReadStop(s)
  PROVE  /\ r.ok \in BOOLEAN /\ r.s \in State /\ r.s.fls = s.fls
         /\ r.s.bus.cmd = "INVALID" /\ Quiet(r.s.eng)
<1> DEFINE b == [s.bus EXCEPT !.cmd = "INVALID"]
           e == [s.eng EXCEPT !.todo = 0, !.fifo = 0]
           t == [s EXCEPT !.bus = b, !.eng = e]
<1>1. s.bus \in BusType /\ s.eng \in EngType /\ s.faults \in 0 .. MaxFaults /\ MaxFaults \in Nat
  BY FlashAssumption DEF State
<1>2. b \in BusType /\ b.cmd = "INVALID"
  BY <1>1 DEF BusType
<1>3. e \in EngType /\ Quiet(e)
  BY <1>1 DEF EngType, Quiet
<1>4. ReadStop(s) = {Ok(t)} \cup Failures(t, "rdstop")
  BY <1>1 DEF ReadStop, State
<1> HIDE DEF b, e
<1>5. t \in State /\ t.bus = b /\ t.eng = e /\ t.fls = s.fls /\ t.faults = s.faults
  BY <1>2, <1>3 DEF State
<1> HIDE DEF t
<1>6. CASE r = Ok(t)
  BY <1>2, <1>3, <1>5, <1>6 DEF Ok
<1>7. CASE r \in Failures(t, "rdstop")
  <2>1. t.faults > 0 /\ r = Err([t EXCEPT !.faults = @ - 1])
    BY <1>7 DEF Failures
  <2>2. r.ok = FALSE /\ r.s = [t EXCEPT !.faults = @ - 1]
    BY <2>1 DEF Err
  <2>3. r.s \in State /\ r.s.bus = b /\ r.s.eng = e /\ r.s.fls = s.fls
    BY <1>1, <1>5, <2>1, <2>2 DEF State
  <2> QED
    BY <1>2, <1>3, <2>2, <2>3
<1> QED
  BY <1>4, <1>6, <1>7

\* The bus is given up.
LEMMA BusStateHandlerErr ==
  ASSUME NEW s \in State, s.bus.cmd # "INVALID", s.bus.cmd = "XFER" => Quiet(s.eng),
         NEW r \in BusStateHandler(s, TRUE)
  PROVE  /\ r.ok \in BOOLEAN /\ r.s \in State /\ r.s.fls = s.fls
         /\ r.s.bus.cmd = "INVALID" /\ Quiet(r.s.eng)
<1>1. s.bus \in BusType /\ s.eng \in EngType
  BY DEF State
<1>2. CASE s.bus.cmd = "READ"
  <2>1. r \in ReadStop(s)
    BY <1>2 DEF BusStateHandler
  <2> QED
    BY <2>1, ReadStopStep
<1>3. CASE s.bus.cmd = "XFER"
  <2> DEFINE b == [s.bus EXCEPT !.cmd = "INVALID"]
             e == [s.eng EXCEPT !.run = FALSE]
             t == [s EXCEPT !.bus = b, !.eng = e]
  <2>1. b \in BusType /\ b.cmd = "INVALID"
    BY <1>1 DEF BusType
  <2>2. e \in EngType /\ Quiet(e)
    BY <1>1, <1>3 DEF EngType, Quiet
  <2>3. r = Ok(t)
    BY <1>1, <1>3 DEF BusStateHandler, State
  <2> HIDE DEF b, e
  <2>4. t \in State /\ t.bus = b /\ t.eng = e /\ t.fls = s.fls
    BY <2>1, <2>2 DEF State
  <2> HIDE DEF t
  <2> QED
    BY <2>1, <2>2, <2>3, <2>4 DEF Ok
<1> QED
  BY <1>1, <1>2, <1>3 DEF BusType

\* What the driver keeps of an operation while a transfer goes on.
SameOp(f, g) ==
  /\ f.status = g.status /\ f.opsRes = g.opsRes /\ f.currOps = g.currOps
  /\ f.opsState = g.opsState /\ f.subState = g.subState /\ f.left = g.left
  /\ f.errFlag = g.errFlag

LEMMA XferReadDataStep ==
  ASSUME NEW s \in State
  PROVE  LET t == XferReadData(s) IN
         /\ t \in State /\ SameOp(t.fls, s.fls) /\ t.bus = s.bus
         /\ t.eng.todo = s.eng.todo /\ t.eng.fifo = s.eng.fifo
<1>1. s.eng \in EngType /\ s.fls \in FlsType(MaxLen) /\ s.eng.rx \in Bits
      /\ s.fls.rx \in Bits
  BY DEF State, EngType, FlsType
<1>2. CASE s.eng.spif
  <2> DEFINE e == [s.eng EXCEPT !.spif = FALSE]
             x == IF s.bus.op \in {"RDSR", "RFSR"} THEN s.eng.rx ELSE s.fls.rx
             f == [s.fls EXCEPT !.rx = x]
             t == [s EXCEPT !.eng = e, !.fls = f]
  <2>1. e \in EngType /\ e.todo = s.eng.todo /\ e.fifo = s.eng.fifo
    BY <1>1 DEF EngType
  <2>2. x \in Bits
    BY <1>1
  <2>3. XferReadData(s) = t
    BY <1>1, <1>2 DEF XferReadData, State
  <2> HIDE DEF x
  <2>4. f \in FlsType(MaxLen) /\ SameOp(f, s.fls)
    BY <1>1, <2>2 DEF FlsType, SameOp
  <2> HIDE DEF e, f
  <2>5. t \in State /\ t.fls = f /\ t.eng = e /\ t.bus = s.bus
    BY <2>1, <2>4 DEF State
  <2> HIDE DEF t
  <2> QED
    BY <2>1, <2>3, <2>4, <2>5
<1>3. CASE ~s.eng.spif
  BY <1>3 DEF XferReadData, SameOp
<1> QED
  BY <1>2, <1>3

\* The bus goes on with the transfer, or has finished it.
LEMMA BusStateHandlerStep ==
  ASSUME NEW s, Driver(s), s.bus.cmd # "INVALID", NEW r \in BusStateHandler(s, FALSE)
  PROVE  /\ r.ok \in BOOLEAN /\ r.s \in State /\ SameOp(r.s.fls, s.fls)
         /\ \/ r.s.bus.cmd = "INVALID" /\ Quiet(r.s.eng)
            \/ r.ok /\ Driver(r.s) /\ Started(r.s)
         /\ s.bus.cmd = "READ" /\ Quiet(s.eng) => r.s.bus.cmd = "READ" /\ Quiet(r.s.eng)
<1>1. s \in State /\ FlsOK(s.fls) /\ BusOK(s) /\ s.bus \in BusType /\ s.eng \in EngType
      /\ s.bus.rem \in Nat /\ s.eng.fifo \in Nat /\ s.eng.todo \in Nat
      /\ s.bus.op \in Commands /\ s.fls.status = "BUSY"
  BY DEF Driver, State, BusType, EngType, BusOK
<1>2. CASE s.bus.cmd = "READ"
  <2> DEFINE b == [s.bus EXCEPT !.rem = @ - s.eng.fifo]
             e == [s.eng EXCEPT !.fifo = 0]
             t == [s EXCEPT !.bus = b, !.eng = e]
  <2>1. s.bus.rem - s.eng.fifo \in Nat
    BY <1>1, <1>2 DEF BusOK, Quiet
  <2>2. b \in BusType /\ b.cmd = "READ" /\ b.rem = s.bus.rem - s.eng.fifo
    BY <1>1, <1>2, <2>1 DEF BusType
  <2>3. e \in EngType /\ e.fifo = 0 /\ e.todo = s.eng.todo
    BY <1>1 DEF EngType
  <2>4. r \in ReadStateHandler(s)
    BY <1>2 DEF BusStateHandler
  <2>5. ReadStateHandler(s) = IF t.bus.rem = 0 THEN ReadStop(t) ELSE {Ok(t)}
    BY <1>1 DEF ReadStateHandler, State
  <2> HIDE DEF b, e
  <2>6. t \in State /\ t.bus = b /\ t.eng = e /\ t.fls = s.fls
    BY <1>1, <2>2, <2>3 DEF State
  <2> HIDE DEF t
  <2>7. CASE t.bus.rem = 0
    <3>1. r \in ReadStop(t)
      BY <2>4, <2>5, <2>7
    <3>2. /\ r.ok \in BOOLEAN /\ r.s \in State /\ r.s.fls = t.fls
          /\ r.s.bus.cmd = "INVALID" /\ Quiet(r.s.eng)
      BY <2>6, <3>1, ReadStopStep
    <3>3. ~Quiet(s.eng)
      BY <1>1, <1>2, <2>2, <2>6, <2>7 DEF BusOK, Quiet
    <3> QED
      BY <2>6, <3>2, <3>3 DEF SameOp
  <2>8. CASE t.bus.rem # 0
    <3>1. r.ok = TRUE /\ r.s = t
      BY <2>4, <2>5, <2>8 DEF Ok
    <3>2. BusOK(t) /\ (Quiet(s.eng) => Quiet(t.eng))
      BY <1>1, <1>2, <2>1, <2>2, <2>3, <2>6, <2>8 DEF BusOK, Quiet
    <3>3. Driver(t) /\ Started(t)
      BY <1>1, <2>2, <2>3, <2>6, <3>2 DEF Driver, Started
    <3> QED
      BY <2>2, <2>6, <3>1, <3>2, <3>3 DEF SameOp
  <2> QED
    BY <2>7, <2>8
<1>3. CASE s.bus.cmd = "XFER"
  <2> DEFINE t == XferReadData(s)
  <2>1. r = Ok(XferStateHandler(s))
    BY <1>3 DEF BusStateHandler
  <2>2. r.ok = TRUE /\ r.s = XferStateHandler(s)
    BY <2>1 DEF Ok
  <2>3. /\ t \in State /\ SameOp(t.fls, s.fls) /\ t.bus = s.bus
        /\ t.eng.todo = s.eng.todo /\ t.eng.fifo = s.eng.fifo
    BY <1>1, XferReadDataStep
  <2>4. Quiet(s.eng)
    BY <1>1, <1>3 DEF BusOK
  <2>5. FlsOK(t.fls) /\ t.fls.status = "BUSY"
    BY <1>1, <2>3 DEF SameOp, FlsOK
  <2>6. XferStateHandler(s) =
          IF s.bus.rem = 0 THEN [t EXCEPT !.bus.cmd = "INVALID"]
          ELSE XferStart([t EXCEPT !.bus.rem = @ - 1], s.bus.op, s.bus.rem = 1)
    BY DEF XferStateHandler
  <2> HIDE DEF t
  <2>7. CASE s.bus.rem = 0
    <3> DEFINE b == [t.bus EXCEPT !.cmd = "INVALID"]
               u == [t EXCEPT !.bus = b]
    <3>1. b \in BusType /\ b.cmd = "INVALID"
      BY <1>1, <2>3 DEF BusType
    <3>2. r.s = u
      BY <2>2, <2>6, <2>7
    <3> HIDE DEF b
    <3>3. u \in State /\ u.bus = b /\ u.fls = t.fls /\ u.eng = t.eng
      BY <2>3, <3>1 DEF State
    <3> HIDE DEF u
    <3> QED
      BY <1>3, <2>2, <2>3, <2>4, <3>1, <3>2, <3>3 DEF Quiet
  <2>8. CASE s.bus.rem # 0
    <3> DEFINE b == [t.bus EXCEPT !.rem = @ - 1]
               u == [t EXCEPT !.bus = b]
    <3>1. b \in BusType /\ b.cmd = "XFER"
      BY <1>1, <1>3, <2>3, <2>8 DEF BusType
    <3>2. [t EXCEPT !.bus.rem = @ - 1] = u
      OBVIOUS
    <3> HIDE DEF b
    <3>3. u \in State /\ u.bus = b /\ u.fls = t.fls /\ u.eng = t.eng
      BY <2>3, <3>1 DEF State
    <3>4. PICK last \in BOOLEAN : last = (s.bus.rem = 1)
      OBVIOUS
    <3> DEFINE v == XferStart(u, s.bus.op, last)
    <3>5. r.s = v
      BY <2>2, <2>6, <2>8, <3>2, <3>4
    <3> HIDE DEF u
    <3>6. u \in State /\ s.bus.op \in Commands /\ last \in BOOLEAN
      BY <1>1, <3>3, <3>4
    <3>7. /\ v \in State /\ v.fls = u.fls /\ v.bus = u.bus /\ v.ind = u.ind
          /\ v.eng.run /\ v.eng.todo = u.eng.todo /\ v.eng.fifo = u.eng.fifo
      BY <3>6, XferStartType
    <3> HIDE DEF v
    <3>8. Driver(v) /\ Started(v)
      BY <2>3, <2>4, <2>5, <3>1, <3>3, <3>7 DEF Driver, BusOK, Quiet, Started
    <3> QED
      BY <1>3, <2>2, <2>3, <3>3, <3>5, <3>7, <3>8
  <2> QED
    BY <2>7, <2>8
<1> QED
  BY <1>1, <1>2, <1>3 DEF BusType

----------------------------------------------------------------------------
(* The calls of the driver.                                                *)

LEMMA IndicateStep ==
  ASSUME NEW r, r.ok \in BOOLEAN, Going(r.s)
  PROVE  LET t == Indicate(r) IN
         /\ Driver(t) /\ Started(t) /\ (t.fls.opsRes = "PENDING" \/ t.ind)
         /\ t.fls.status = r.s.fls.status /\ t.bus = r.s.bus /\ t.eng = r.s.eng
<1>1. /\ r.s \in State /\ r.s.fls \in FlsType(MaxLen) /\ FlsOK(r.s.fls) /\ BusOK(r.s)
      /\ Started(r.s) /\ (r.s.fls.opsRes = "PENDING" \/ r.s.fls.indFlag # "NONE")
  BY DEF Going, Driver, State
<1>2. PICK x \in BOOLEAN : x = (r.s.fls.errFlag \/ ~r.ok)
  OBVIOUS
<1>3. PICK y \in BOOLEAN : y = (r.s.fls.indFlag # "NONE")
  OBVIOUS
<1> DEFINE f == [r.s.fls EXCEPT !.errFlag = x]
           t == [r.s EXCEPT !.fls = f, !.ind = y]
<1>4. f \in FlsType(MaxLen)
  BY <1>1, <1>2 DEF FlsType
<1>5. /\ f.status = r.s.fls.status /\ f.opsRes = r.s.fls.opsRes /\ f.left = r.s.fls.left
      /\ f.currOps = r.s.fls.currOps /\ f.opsState = r.s.fls.opsState
      /\ f.subState = r.s.fls.subState
  BY <1>1 DEF FlsType
<1>6. Indicate(r) = t
  BY <1>2, <1>3 DEF Indicate
<1> HIDE DEF f
<1>7. t \in State /\ t.fls = f /\ t.bus = r.s.bus /\ t.eng = r.s.eng /\ t.ind = y
  BY <1>1, <1>3, <1>4 DEF State
<1> HIDE DEF t
<1>8. FlsOK(f)
  BY <1>1, <1>5 DEF FlsOK
<1>9. BusOK(t)
  BY <1>1, <1>5, <1>7 DEF BusOK
<1>10. Started(t)
  BY <1>1, <1>7 DEF Started
<1>11. t.fls.opsRes = "PENDING" \/ t.ind
  BY <1>1, <1>3, <1>5, <1>7
<1>12. Driver(t)
  BY <1>7, <1>8, <1>9 DEF Driver
<1> QED
  BY <1>5, <1>6, <1>7, <1>10, <1>11, <1>12

\* The call that finishes a transfer, or the end of an operation.
LEMMA StateHandlerStep ==
  ASSUME NEW s, Driver(s), NEW t \in StateHandler(s)
  PROVE  /\ Driver(t) /\ Started(t) /\ (t.fls.opsRes = "PENDING" \/ t.ind \/ t = s)
         /\ t.fls.status = "BUSY" => s.fls.status = "BUSY"
         /\ s.bus.cmd = "READ" /\ Quiet(s.eng) /\ t.fls.status = "BUSY"
              => t.bus.cmd = "READ" /\ Quiet(t.eng)
<1>1. s \in State /\ s.fls \in FlsType(MaxLen) /\ FlsOK(s.fls) /\ BusOK(s)
      /\ s.fls.errFlag \in BOOLEAN
  BY DEF Driver, State, FlsType
<1>2. CASE s.fls.currOps = "NONE"
  <2>1. t = s
    BY <1>2 DEF StateHandler
  <2>2. s.fls.status # "BUSY" /\ s.bus.cmd = "INVALID"
    BY <1>1, <1>2 DEF FlsOK, BusOK
  <2> QED
    BY <2>1, <2>2 DEF Started
<1>3. CASE s.fls.currOps # "NONE"
  <2> DEFINE B == IF IsBusBusy(s) THEN BusStateHandler(s, s.fls.errFlag) ELSE {Ok(s)}
  <2>1. s.fls.status = "BUSY"
    BY <1>1, <1>3 DEF FlsOK
  <2>2. PICK b \in B :
          t \in IF b.ok /\ IsBusBusy(b.s) THEN {b.s}
                ELSE {Indicate(r) : r \in OpsHandler([b.s EXCEPT !.fls.errFlag = @ \/ ~b.ok])}
    BY <1>3 DEF StateHandler
  <2> DEFINE Orphan(u) == u.bus.cmd = "READ" /\ Quiet(u.eng)
  <2>3. /\ b.ok \in BOOLEAN /\ b.s \in State /\ SameOp(b.s.fls, s.fls)
        /\ \/ b.s.bus.cmd = "INVALID" /\ Quiet(b.s.eng)
           \/ b.ok /\ Driver(b.s) /\ Started(b.s) /\ b.s.bus.cmd # "INVALID"
        /\ Orphan(s) => (b.s.bus.cmd = "READ" /\ Quiet(b.s.eng)) \/ s.fls.errFlag
    <3>1. CASE ~IsBusBusy(s)
      <4>1. b.ok = TRUE /\ b.s = s
        BY <3>1, <2>2 DEF Ok
      <4> QED
        BY <1>1, <3>1, <4>1 DEF IsBusBusy, BusOK, SameOp
    <3>2. CASE IsBusBusy(s) /\ s.fls.errFlag
      <4>1. b \in BusStateHandler(s, TRUE)
        BY <1>1, <2>2, <3>2
      <4>2. s.bus.cmd # "INVALID" /\ (s.bus.cmd = "XFER" => Quiet(s.eng))
        BY <1>1, <3>2 DEF IsBusBusy, BusOK
      <4>3. /\ b.ok \in BOOLEAN /\ b.s \in State /\ b.s.fls = s.fls
            /\ b.s.bus.cmd = "INVALID" /\ Quiet(b.s.eng)
        BY <1>1, <4>1, <4>2, BusStateHandlerErr
      <4> QED
        BY <3>2, <4>3 DEF SameOp
    <3>3. CASE IsBusBusy(s) /\ ~s.fls.errFlag
      <4>1. b \in BusStateHandler(s, FALSE)
        BY <1>1, <2>2, <3>3
      <4>2. /\ b.ok \in BOOLEAN /\ b.s \in State /\ SameOp(b.s.fls, s.fls)
            /\ \/ b.s.bus.cmd = "INVALID" /\ Quiet(b.s.eng)
               \/ b.ok /\ Driver(b.s) /\ Started(b.s)
            /\ Orphan(s) => b.s.bus.cmd = "READ" /\ Quiet(b.s.eng)
        BY <3>3, <4>1, BusStateHandlerStep DEF IsBusBusy
      <4>3. Driver(b.s) /\ b.s.bus.cmd = "INVALID" => Quiet(b.s.eng)
        BY DEF Driver, BusOK
      <4> QED
        BY <4>2, <4>3
    <3> QED
      BY <3>1, <3>2, <3>3
  <2> HIDE DEF B
  <2>4. FlsOK(b.s.fls) /\ b.s.fls.status = "BUSY" /\ b.s.fls.opsRes = "PENDING"
        /\ b.s.fls \in FlsType(MaxLen)
    BY <1>1, <2>1, <2>3 DEF FlsOK, SameOp, State
  <2>5. CASE b.s.bus.cmd # "INVALID"
    <3>1. b.ok /\ t = b.s
      BY <2>2, <2>3, <2>5 DEF IsBusBusy
    <3>2. Orphan(s) /\ t.fls.status = "BUSY" => Orphan(t)
      <4> SUFFICES ASSUME Orphan(s) PROVE Orphan(t)
        OBVIOUS
      <4>1. CASE s.fls.errFlag
        <5>1. IsBusBusy(s) /\ b \in BusStateHandler(s, TRUE)
          BY <1>1, <2>2, <4>1 DEF IsBusBusy, B
        <5>2. s.bus.cmd # "INVALID" /\ (s.bus.cmd = "XFER" => Quiet(s.eng))
          BY <5>1 DEF IsBusBusy
        <5>3. b.s.bus.cmd = "INVALID"
          BY <1>1, <5>1, <5>2, BusStateHandlerErr
        <5> QED
          BY <2>5, <5>3
      <4> QED
        BY <2>3, <3>1, <4>1
    <3> QED
      BY <2>1, <2>3, <2>4, <2>5, <3>1, <3>2
  <2>6. CASE b.s.bus.cmd = "INVALID"
    <3>1. PICK x \in BOOLEAN : x = (b.s.fls.errFlag \/ ~b.ok)
      OBVIOUS
    <3> DEFINE f == [b.s.fls EXCEPT !.errFlag = x]
               u == [b.s EXCEPT !.fls = f]
    <3>2. f \in FlsType(MaxLen)
      BY <2>4, <3>1 DEF FlsType
    <3>3. /\ f.status = b.s.fls.status /\ f.opsRes = b.s.fls.opsRes /\ f.left = b.s.fls.left
          /\ f.currOps = b.s.fls.currOps /\ f.opsState = b.s.fls.opsState
          /\ f.subState = b.s.fls.subState /\ f.errFlag = x
      BY <2>4 DEF FlsType
    <3>4. [b.s EXCEPT !.fls.errFlag = @ \/ ~b.ok] = u
      BY <3>1
    <3> HIDE DEF f
    <3>5. u \in State /\ u.fls = f /\ u.bus = b.s.bus /\ u.eng = b.s.eng
      BY <2>3, <3>2 DEF State
    <3> HIDE DEF u
    <3>6. Quiet(u.eng) /\ u.bus.cmd = "INVALID"
      BY <2>3, <2>6, <3>5
    <3>7. FlsOK(f)
      BY <2>4, <3>3 DEF FlsOK
    <3>8. Work(u)
      BY <2>4, <3>3, <3>5, <3>6, <3>7 DEF Work
    <3>9. PICK r \in OpsHandler(u) : t = Indicate(r)
      BY <2>2, <2>6, <3>4 DEF IsBusBusy
    <3>10. r.ok \in BOOLEAN /\ Going(r.s) /\ (u.fls.errFlag => r.s.fls.status = "IDLE")
      BY <3>6, <3>8, <3>9, OpsHandlerStep
    <3>11. /\ Driver(t) /\ Started(t) /\ (t.fls.opsRes = "PENDING" \/ t.ind)
           /\ t.fls.status = r.s.fls.status
      BY <3>9, <3>10, IndicateStep
    <3>12. Orphan(s) => u.fls.errFlag
      BY <2>3, <2>6, <3>1, <3>3, <3>5 DEF SameOp
    <3> QED
      BY <2>1, <3>10, <3>11, <3>12
  <2> QED
    BY <2>5, <2>6
<1> QED
  BY <1>2, <1>3

\* An operation starts, is refused, or (a read) leaves the driver busy for ever.
LEMMA StartOpStep ==
  ASSUME NEW s, Driver(s), NEW op \in Ops, NEW len \in 0 .. MaxLen,
         NEW r \in StartOp(s, op, len)
  PROVE  /\ r.ok \in BOOLEAN /\ Driver(r.s)
         /\ \/ ~r.ok /\ r.s = s
            \/ Going(r.s) /\ r.s.fls.opsRes = "PENDING"
               /\ (r.ok \/ (r.s.bus.cmd = "READ" /\ Quiet(r.s.eng)))
         /\ s.fls.status = "IDLE" /\ len > 0 => r.s.fls.opsRes = "PENDING"
<1>1. s \in State /\ s.fls \in FlsType(MaxLen) /\ FlsOK(s.fls) /\ BusOK(s)
      /\ len \in Nat /\ len <= MaxLen /\ MaxLen \in Nat /\ LoopCount \in Nat
  BY RequestAssumption, FlashAssumption DEF Driver, State
<1>2. CASE s.fls.status # "IDLE" \/ len = 0
  <2>1. r = Err(s)
    BY <1>2 DEF StartOp
  <2>2. r.ok = FALSE /\ r.s = s
    BY <2>1 DEF Err
  <2>3. ~(s.fls.status = "IDLE" /\ len > 0)
    BY <1>1, <1>2
  <2> QED
    BY <2>2, <2>3
<1>3. CASE s.fls.status = "IDLE" /\ len > 0
  <2> DEFINE f == [s.fls EXCEPT !.status = "BUSY", !.opsRes = "PENDING",
              !.currOps = op, !.errFlag = FALSE, !.indFlag = "NONE",
              !.left = len, !.cnt = 0, !.wip = FALSE]
             t == [s EXCEPT !.fls = f]
  <2>1. f \in FlsType(MaxLen)
    <3>1. [s.fls EXCEPT !.status = "BUSY", !.opsRes = "PENDING", !.currOps = op,
                        !.errFlag = FALSE] \in FlsType(MaxLen)
      BY <1>1 DEF FlsType
    <3>2. \A g \in FlsType(MaxLen) :
            [g EXCEPT !.left = len] \in FlsType(MaxLen)
      BY <1>1 DEF FlsType
    <3>3. \A g \in FlsType(MaxLen) :
            [g EXCEPT !.cnt = 0] \in FlsType(MaxLen)
      BY <1>1 DEF FlsType
    <3>4. \A g \in FlsType(MaxLen) :
            [g EXCEPT !.wip = FALSE] \in FlsType(MaxLen)
      BY DEF FlsType
    <3>5. \A g \in FlsType(MaxLen) :
            [g EXCEPT !.indFlag = "NONE"] \in FlsType(MaxLen)
      BY DEF FlsType
    <3> QED
      BY <3>1, <3>2, <3>3, <3>4, <3>5
  <2>2. f.status = "BUSY" /\ f.opsRes = "PENDING" /\ f.currOps = op /\ f.left = len
    BY <1>1 DEF FlsType
  <2>3. ~(s.fls.status # "IDLE" \/ len = 0)
    BY <1>1, <1>3
  <2>4. r \in CASE op \in {"ERASE", "WRITE", "CFG_READ_LANE"} -> {Ok(WriteEnable(t))}
                [] op = "READ"    -> BusRead(Goto(t, "DONE", "NONE"))
                [] op = "COMPARE" -> CompareRead(t)
    BY <2>3 DEF StartOp
  <2> HIDE DEF f
  <2>5. t \in State /\ t.fls = f /\ t.bus = s.bus /\ t.eng = s.eng
    BY <1>1, <2>1, WithFls
  <2>6. s.bus.cmd = "INVALID" /\ Quiet(s.eng)
    BY <1>1, <1>3 DEF BusOK
  <2>7. op # "NONE"
    BY DEF Ops
  <2> HIDE DEF t
  <2>8. Open(t) /\ t.bus.cmd = "INVALID" /\ t.fls.left > 0 /\ t.fls.currOps = op
    BY <1>3, <2>2, <2>5, <2>6, <2>7 DEF Open
  <2> DEFINE Begun == /\ r.ok \in BOOLEAN /\ Going(r.s) /\ r.s.fls.opsRes = "PENDING"
                      /\ r.ok \/ (r.s.bus.cmd = "READ" /\ Quiet(r.s.eng))
  <2>9. ASSUME op \in Programs PROVE Begun
    <3>1. r = Ok(WriteEnable(t))
      BY <2>4, <2>9 DEF Programs
    <3>2. Going(WriteEnable(t)) /\ WriteEnable(t).fls.opsRes = "PENDING"
      BY <2>8, <2>9, WriteEnableStep
    <3>3. r.ok = TRUE /\ r.s = WriteEnable(t)
      BY <3>1 DEF Ok
    <3>4. Going(r.s) /\ r.s.fls.opsRes = "PENDING" /\ r.ok
      BY <3>2, <3>3
    <3> QED
      BY <3>3, <3>4
  <2>10. ASSUME op = "READ" PROVE Begun
    <3> DEFINE g == [f EXCEPT !.opsState = "DONE", !.subState = "NONE"]
               u == [t EXCEPT !.fls = g]
    <3>1. g \in FlsType(MaxLen)
      BY <2>1 DEF FlsType
    <3>2. g.status = "BUSY" /\ g.opsRes = "PENDING" /\ g.currOps = op /\ g.opsState = "DONE"
      BY <2>1, <2>2 DEF FlsType
    <3>3. Goto(t, "DONE", "NONE") = u
      BY <2>5 DEF Goto, State
    <3> HIDE DEF g
    <3>4. u \in State /\ u.fls = g /\ u.bus = t.bus /\ u.eng = t.eng
      BY <2>5, <3>1, WithFls
    <3> HIDE DEF u
    <3>5. FlsOK(g)
      BY <2>7, <3>2 DEF FlsOK
    <3>6. Work(u) /\ u.bus.cmd = "INVALID"
      BY <2>5, <2>6, <3>2, <3>4, <3>5 DEF Work
    <3>7. r \in BusRead(u)
      BY <2>4, <2>10, <3>3
    <3>8. /\ r.ok \in BOOLEAN /\ Going(r.s) /\ r.s.fls = u.fls
          /\ r.ok \/ (r.s.bus.cmd = "READ" /\ Quiet(r.s.eng))
      BY <3>6, <3>7, BusReadStep
    <3>9. r.s.fls.opsRes = "PENDING"
      BY <3>2, <3>4, <3>8
    <3> QED
      BY <3>8, <3>9
  <2>11. ASSUME op = "COMPARE" PROVE Begun
    <3>1. r \in CompareRead(t)
      BY <2>4, <2>11
    <3> QED
      BY <2>8, <3>1, CompareReadStep
  <2>12. Begun
    BY <2>9, <2>10, <2>11 DEF Ops, Programs
  <2>13. Driver(r.s)
    BY <2>12 DEF Going
  <2> QED
    BY <2>12, <2>13
<1> QED
  BY <1>1, <1>2, <1>3

\* FLASH_DeInit gives up what the driver was doing.
LEMMA DeInitStep ==
  ASSUME NEW s, Driver(s), NEW t \in DeInit(s)
  PROVE  Driver(t) /\ t.fls.status = "UNINIT" /\ t.bus.cmd = "INVALID"
<1>1. s \in State /\ s.fls \in FlsType(MaxLen) /\ BusOK(s) /\ s.fls.laneDone \in BOOLEAN
  BY DEF Driver, State, FlsType
<1>2. PICK lane \in BOOLEAN : lane = (s.fls.laneDone /\ ~LaneSup)
  OBVIOUS
<1> DEFINE f == [s.fls EXCEPT !.currOps = "NONE", !.opsRes = "OK",
              !.errFlag = FALSE, !.status = "UNINIT", !.laneDone = lane]
           u == [s EXCEPT !.fls = f]
<1>4. f.currOps = "NONE" /\ f.opsRes = "OK" /\ f.status = "UNINIT"
  BY <1>1 DEF FlsType
<1>5. IF IsBusBusy(u) THEN \E r \in BusStateHandler(u, TRUE) : t = r.s ELSE t = u
  BY <1>2 DEF DeInit
<1>3. f \in FlsType(MaxLen)
  BY <1>1, <1>2 DEF FlsType
<1> HIDE DEF f
<1>6. u \in State /\ u.fls = f /\ u.bus = s.bus /\ u.eng = s.eng
  BY <1>1, <1>3, WithFls
<1> HIDE DEF u
<1>7. t \in State /\ t.fls = f /\ t.bus.cmd = "INVALID" /\ Quiet(t.eng)
  <2>1. CASE IsBusBusy(u)
    <3>1. PICK r \in BusStateHandler(u, TRUE) : t = r.s
      BY <1>5, <2>1
    <3>2. u.bus.cmd # "INVALID" /\ (u.bus.cmd = "XFER" => Quiet(u.eng))
      BY <1>1, <1>6, <2>1 DEF IsBusBusy, BusOK
    <3> QED
      BY <1>6, <3>1, <3>2, BusStateHandlerErr
  <2>2. CASE ~IsBusBusy(u)
    BY <1>1, <1>5, <1>6, <2>2 DEF IsBusBusy, BusOK
  <2> QED
    BY <2>1, <2>2
<1>8. Driver(t)
  BY <1>4, <1>7 DEF Driver, FlsOK, BusOK
<1> QED
  BY <1>4, <1>7, <1>8

----------------------------------------------------------------------------
(* The server: its invariant.                                              *)

\* The message that configures the lane is the first one, and the only one the
\* server handles in the state UNINIT before the driver has started on it.
ClientMsgs == {m \in Msgs : m.cmd # "CFG_READ_LANE"}
Lane ==
  \/ proc.cmd # "CFG_READ_LANE" /\ posted \in Seq(ClientMsgs)
  \/ /\ fm = "UNINIT" /\ ~cfgStarted /\ proc = NoMsg
     /\ Len(posted) = 1 /\ fls.status = "IDLE"
  \/ /\ fm = "UNINIT" /\ posted = <<>> /\ proc # NoMsg
     /\ (cfgStarted \/ fls.status = "IDLE")

IInv == TypeOK /\ Driver(S) /\ Lane /\ NoLostWakeup /\ BusyForAMessage

LEMMA TypedState ==
  ASSUME TypeOK
  PROVE  S \in State
BY DEF TypeOK, S, State

\* Driver speaks of the variables of module FlashDriver.
LEMMA DriverOf ==
  Driver(S) <=>
    /\ fls \in FlsType(MaxLen) /\ bus \in BusType /\ eng \in EngType
    /\ faults \in 0 .. MaxFaults
    /\ FlsOK(fls)
    /\ bus.cmd # "INVALID" => fls.status = "BUSY"
    /\ IF bus.cmd = "READ"
       THEN bus.rem > 0 /\ (bus.rem = eng.todo + eng.fifo \/ Quiet(eng))
       ELSE Quiet(eng)
BY DEF Driver, S, State, BusOK

LEMMA AssignStep ==
  ASSUME NEW s, Driver(s), Assign(s)
  PROVE  /\ fls' \in FlsType(MaxLen) /\ bus' \in BusType /\ eng' \in EngType
         /\ faults' \in 0 .. MaxFaults
         /\ Driver(S)'
<1>1. s \in State /\ FlsOK(s.fls) /\ BusOK(s)
  BY DEF Driver
<1>2. /\ fls' \in FlsType(MaxLen) /\ bus' \in BusType /\ eng' \in EngType
      /\ faults' \in 0 .. MaxFaults
  BY <1>1 DEF Assign, State
<1>3. S' \in State
  BY <1>2 DEF S, State
<1>4. FlsOK(S.fls)'
  BY <1>1 DEF Assign, S
<1>5. BusOK(S)'
  BY <1>1 DEF Assign, S, BusOK
<1> QED
  BY <1>2, <1>3, <1>4, <1>5 DEF Driver

LEMMA DevTypes ==
  ASSUME NEW d \in DevType, NEW op \in Commands, NEW failed \in BOOLEAN
  PROVE  /\ DevCommand(d, op) \in DevType /\ DevEnd(d, failed) \in DevType
         /\ DevStatus(d) \in Bits
<1>1. DevCommand(d, op) \in DevType
  BY DEF DevCommand, DevType
<1>2. DevEnd(d, failed) \in DevType
  <2> DEFINE n == IF failed \/ d.busy = "WRSR" THEN d.units ELSE d.units + 1
  <2>1. n \in Nat
    BY DEF DevType
  <2>2. DevEnd(d, failed) = [d EXCEPT !.wel = FALSE, !.busy = "none", !.err = failed,
                                      !.units = n]
    BY DEF DevEnd
  <2> HIDE DEF n
  <2> QED
    BY <2>1, <2>2 DEF DevType
<1>3. DevStatus(d) \in Bits
  <2>1. PICK a \in BOOLEAN : a = (d.busy # "none")
    OBVIOUS
  <2>2. PICK b \in BOOLEAN : b = (d.busy = "none")
    OBVIOUS
  <2> QED
    BY <2>1, <2>2 DEF DevStatus, DevType, Bits
<1> QED
  BY <1>1, <1>2, <1>3

LEMMA InitInv ==
  ASSUME Init
  PROVE  IInv
<1>1. MaxLen \in Nat /\ MaxLen >= 1 /\ LoopCount \in Nat /\ MaxFaults \in Nat
  BY RequestAssumption, FlashAssumption
<1>2. NoBits \in Bits
  BY DEF NoBits, Bits
<1>3. FlsInit \in FlsType(MaxLen)
  BY <1>1, <1>2 DEF FlsInit, FlsType
<1>4. BusInit \in BusType /\ EngInit \in EngType /\ DevInit \in DevType
  BY <1>2 DEF BusInit, BusType, EngInit, EngType, DevInit, DevType, Commands
<1>5. [from |-> Server, cmd |-> "CFG_READ_LANE", len |-> 1] \in Msgs
  BY <1>1 DEF Msgs, Tasks
<1>6. TypeOK
  <2>1. fls \in FlsType(MaxLen) /\ bus \in BusType /\ eng \in EngType /\ dev \in DevType
    BY <1>3, <1>4 DEF Init
  <2>2. posted \in Seq(Msgs)
    BY <1>5 DEF Init
  <2>3. cl \in [Tasks -> [st : {"idle", "waiting", "done"}, res : {"NONE", "SUCCESS", "FAILED"}]]
    BY DEF Init
  <2>4. faults \in 0 .. MaxFaults
    BY <1>1 DEF Init
  <2> QED
    BY <2>1, <2>2, <2>3, <2>4 DEF Init, TypeOK, Events
<1>7. Driver(S)
  <2>1. FlsOK(fls) /\ bus.cmd = "INVALID" /\ Quiet(eng)
    BY DEF Init, FlsInit, FlsOK, BusInit, EngInit, Quiet
  <2> QED
    BY <1>6, <2>1, DriverOf DEF TypeOK
<1>8. Lane
  BY DEF Init, Lane, FlsInit
<1>9. NoLostWakeup
  BY DEF Init, NoLostWakeup, Coming, BusInit
<1>10. BusyForAMessage
  BY DEF Init, BusyForAMessage, FlsInit
<1> QED
  BY <1>6, <1>7, <1>8, <1>9, <1>10 DEF IInv

----------------------------------------------------------------------------
(* The steps of the hardware.                                              *)

LEMMA DriverNext ==
  ASSUME fls' \in FlsType(MaxLen), bus' \in BusType, eng' \in EngType,
         faults' \in 0 .. MaxFaults, FlsOK(fls'),
         bus'.cmd # "INVALID" => fls'.status = "BUSY",
         IF bus'.cmd = "READ"
         THEN bus'.rem > 0 /\ (bus'.rem = eng'.todo + eng'.fifo \/ Quiet(eng'))
         ELSE Quiet(eng')
  PROVE  Driver(S)'
BY DEF Driver, S, State, BusOK

LEMMA HwXferDoneStep ==
  ASSUME IInv, HwXferDone
  PROVE  IInv'
<1> USE DEF IInv
<1>1. /\ fls \in FlsType(MaxLen) /\ bus \in BusType /\ eng \in EngType /\ dev \in DevType
      /\ faults \in Nat /\ faults <= MaxFaults /\ MaxFaults \in Nat
  BY FlashAssumption DEF TypeOK
<1>2. DevStatus(dev) \in Bits /\ DevCommand(dev, eng.op) \in DevType
  BY <1>1, DevTypes DEF EngType
<1>3. /\ eng' = [eng EXCEPT !.run = FALSE, !.spif = TRUE, !.rx = DevStatus(dev)]
      /\ dev' \in DevType /\ faults' \in 0 .. MaxFaults
      /\ evt' = evt \cup {"FLASH0"}
      /\ UNCHANGED <<fls, bus, spc, mask, fm, cfgStarted, posted, proc, cl>>
  BY <1>1, <1>2 DEF HwXferDone, Irq
<1>4. eng' \in EngType /\ eng'.todo = eng.todo /\ eng'.fifo = eng.fifo
  BY <1>1, <1>2, <1>3 DEF EngType
<1>5. TypeOK'
  BY <1>3, <1>4 DEF TypeOK, Events
<1>6. Driver(S)'
  BY <1>1, <1>3, <1>4, DriverOf, DriverNext DEF Quiet
<1>7. Lane'
  BY <1>3 DEF Lane
<1>8. NoLostWakeup'
  BY <1>3, <1>4 DEF NoLostWakeup, Coming
<1>9. BusyForAMessage'
  BY <1>3, <1>4 DEF BusyForAMessage, ReadNotStarted
<1> QED
  BY <1>5, <1>6, <1>7, <1>8, <1>9

LEMMA HwReadDataStep ==
  ASSUME IInv, HwReadData
  PROVE  IInv'
<1> USE DEF IInv
<1>1. /\ fls \in FlsType(MaxLen) /\ bus \in BusType /\ eng \in EngType
      /\ eng.todo \in Nat /\ eng.fifo \in Nat /\ bus.rem \in Nat
  BY DEF TypeOK, EngType, BusType
<1>2. /\ eng.todo > 0 /\ eng' = [eng EXCEPT !.todo = @ - 1, !.fifo = @ + 1]
      /\ evt' = evt \cup {"FLASH0"}
      /\ UNCHANGED <<fls, bus, dev, faults, spc, mask, fm, cfgStarted, posted, proc, cl>>
  BY DEF HwReadData, Irq
<1>3. eng' \in EngType /\ eng'.todo = eng.todo - 1 /\ eng'.fifo = eng.fifo + 1
      /\ eng'.run = eng.run
  <2> DEFINE a == eng.todo - 1
             b == eng.fifo + 1
  <2>1. a \in Nat /\ b \in Nat
    BY <1>1, <1>2
  <2>2. eng' = [eng EXCEPT !.todo = a, !.fifo = b]
    BY <1>2
  <2> HIDE DEF a, b
  <2>3. eng' \in EngType /\ eng'.todo = a /\ eng'.fifo = b /\ eng'.run = eng.run
    BY <1>1, <2>1, <2>2 DEF EngType
  <2> QED
    BY <2>3 DEF a, b
<1>4. bus.cmd = "READ" /\ bus.rem > 0 /\ bus.rem = eng.todo + eng.fifo
  BY <1>1, <1>2, DriverOf DEF Quiet
<1>5. TypeOK'
  BY <1>2, <1>3 DEF TypeOK, Events
<1>6. Driver(S)'
  <2>1. bus'.rem > 0 /\ bus'.rem = eng'.todo + eng'.fifo /\ bus'.cmd = "READ"
    BY <1>1, <1>2, <1>3, <1>4
  <2>2. FlsOK(fls') /\ fls'.status = "BUSY" /\ faults' \in 0 .. MaxFaults
    BY <1>2, <1>4, DriverOf
  <2> QED
    BY <1>1, <1>2, <1>3, <2>1, <2>2, DriverNext
<1>7. Lane'
  BY <1>2 DEF Lane
<1>8. NoLostWakeup'
  BY <1>2, <1>3, <1>4 DEF NoLostWakeup, Coming
<1>9. BusyForAMessage'
  BY <1>1, <1>2, <1>3 DEF BusyForAMessage, ReadNotStarted
<1> QED
  BY <1>5, <1>6, <1>7, <1>8, <1>9

LEMMA HwDevEndStep ==
  ASSUME IInv, HwDevEnd
  PROVE  IInv'
<1> USE DEF IInv
<1>1. /\ dev \in DevType /\ faults \in Nat /\ faults <= MaxFaults /\ MaxFaults \in Nat
  BY FlashAssumption DEF TypeOK
<1>2. \A failed \in BOOLEAN : DevEnd(dev, failed) \in DevType
  BY <1>1, DevTypes DEF Commands
<1>3. /\ dev' \in DevType /\ faults' \in 0 .. MaxFaults
      /\ UNCHANGED <<fls, bus, eng, spc, evt, mask, fm, cfgStarted, posted, proc, cl>>
  <2>1. /\ \/ dev' = DevEnd(dev, FALSE) /\ faults' = faults
           \/ faults > 0 /\ faults' = faults - 1 /\ dev' = DevEnd(dev, TRUE)
        /\ UNCHANGED <<fls, bus, eng, spc, evt, mask, fm, cfgStarted, posted, proc, cl>>
    BY DEF HwDevEnd
  <2>2. DevEnd(dev, FALSE) \in DevType /\ DevEnd(dev, TRUE) \in DevType
    BY <1>2
  <2>3. dev' \in DevType
    BY <2>1, <2>2
  <2>4. faults' \in 0 .. MaxFaults
    <3>1. faults' = faults \/ (faults > 0 /\ faults' = faults - 1)
      BY <2>1
    <3> QED
      BY <1>1, <3>1
  <2> QED
    BY <2>1, <2>3, <2>4
<1>4. TypeOK'
  BY <1>3 DEF TypeOK
<1>5. Driver(S)'
  <2>1. fls' = fls /\ bus' = bus /\ eng' = eng
    BY <1>3
  <2> QED
    BY <1>3, <2>1, DriverOf, DriverNext
<1>6. Lane' /\ NoLostWakeup' /\ BusyForAMessage'
  BY <1>3 DEF Lane, NoLostWakeup, Coming, BusyForAMessage, ReadNotStarted
<1> QED
  BY <1>4, <1>5, <1>6

----------------------------------------------------------------------------
(* The steps of the clients.                                               *)

\* Steps that leave the driver alone.
LEMMA DriverSame ==
  ASSUME Driver(S), UNCHANGED <<fls, bus, eng, faults>>
  PROVE  Driver(S)'
BY DriverOf, DriverNext

LEMMA ClientRecord ==
  ASSUME TypeOK, NEW t \in Tasks, NEW st \in {"idle", "waiting", "done"},
         NEW res \in {"NONE", "SUCCESS", "FAILED"}
  PROVE  [cl EXCEPT ![t] = [st |-> st, res |-> res]] \in
           [Tasks -> [st : {"idle", "waiting", "done"}, res : {"NONE", "SUCCESS", "FAILED"}]]
BY DEF TypeOK

\* A message taken out of the queue.
LEMMA RemoveAt ==
  ASSUME NEW T, NEW q \in Seq(T), NEW i \in DOMAIN q
  PROVE  SubSeq(q, 1, i - 1) \o SubSeq(q, i + 1, Len(q)) \in Seq(T)
<1>1. i \in Nat /\ i >= 1 /\ i <= Len(q) /\ Len(q) \in Nat
  OBVIOUS
<1>2. SubSeq(q, 1, i - 1) \in Seq(T)
  BY <1>1
<1>3. SubSeq(q, i + 1, Len(q)) \in Seq(T)
  BY <1>1
<1> QED
  BY <1>2, <1>3, ConcatProperties

LEMMA PostStep ==
  ASSUME IInv, NEW c \in Clients, NEW r \in Requests, Post(c, r)
  PROVE  IInv'
<1> USE DEF IInv
<1> DEFINE m == [from |-> c, cmd |-> r.cmd, len |-> r.len]
<1>1. m \in Msgs /\ m.cmd # "CFG_READ_LANE"
  BY RequestAssumption DEF Requests, Msgs, Tasks
<1>2. /\ fm # "UNINIT" /\ posted' = Append(posted, m)
      /\ cl' = [cl EXCEPT ![c] = [st |-> "waiting", res |-> "NONE"]]
      /\ evt' = evt \cup {"MSGQ"}
      /\ UNCHANGED <<fls, bus, eng, dev, faults, spc, mask, fm, cfgStarted, proc>>
  BY DEF Post, drv
<1> HIDE DEF m
<1>3. m \in ClientMsgs
  BY <1>1 DEF ClientMsgs
<1>4. TypeOK'
  <2>1. posted' \in Seq(Msgs)
    BY <1>1, <1>2 DEF TypeOK
  <2>2. cl' \in [Tasks -> [st : {"idle", "waiting", "done"}, res : {"NONE", "SUCCESS", "FAILED"}]]
    BY <1>2, ClientRecord DEF Tasks
  <2> QED
    BY <1>2, <2>1, <2>2 DEF TypeOK, Events
<1>5. Driver(S)'
  BY <1>2, DriverSame
<1>6. Lane'
  BY <1>2, <1>3 DEF Lane
<1>7. NoLostWakeup'
  BY <1>2 DEF NoLostWakeup, Coming
<1>8. BusyForAMessage'
  BY <1>2 DEF BusyForAMessage, ReadNotStarted
<1> QED
  BY <1>4, <1>5, <1>6, <1>7, <1>8

LEMMA GetOpResultStep ==
  ASSUME IInv, NEW c \in Tasks, GetOpResult(c)
  PROVE  IInv'
<1> USE DEF IInv
<1>1. /\ cl' = [cl EXCEPT ![c] = [st |-> "idle", res |-> "NONE"]]
      /\ UNCHANGED <<fls, bus, eng, dev, faults, spc, evt, mask, fm, cfgStarted, posted, proc>>
  BY DEF GetOpResult, drv
<1>2. cl' \in [Tasks -> [st : {"idle", "waiting", "done"}, res : {"NONE", "SUCCESS", "FAILED"}]]
  BY <1>1, ClientRecord
<1>3. TypeOK'
  BY <1>1, <1>2 DEF TypeOK
<1>4. Driver(S)'
  BY <1>1, DriverSame
<1>5. Lane' /\ NoLostWakeup' /\ BusyForAMessage'
  BY <1>1 DEF Lane, NoLostWakeup, Coming, BusyForAMessage, ReadNotStarted
<1> QED
  BY <1>3, <1>4, <1>5

LEMMA CancelStep ==
  ASSUME IInv, NEW c \in Clients, Cancel(c)
  PROVE  IInv'
<1> USE DEF IInv
<1>1. /\ fm # "UNINIT"
      /\ cl' = [cl EXCEPT ![c] = [st |-> "idle", res |-> "NONE"]]
      /\ UNCHANGED <<fls, bus, eng, dev, faults, spc, evt, mask, fm, cfgStarted, proc>>
  BY DEF Cancel, drv
<1>2. PICK i \in DOMAIN posted :
        posted' = SubSeq(posted, 1, i - 1) \o SubSeq(posted, i + 1, Len(posted))
  BY DEF Cancel
<1>3. posted' \in Seq(Msgs) /\ (posted \in Seq(ClientMsgs) => posted' \in Seq(ClientMsgs))
  BY <1>2, RemoveAt DEF TypeOK
<1>4. cl' \in [Tasks -> [st : {"idle", "waiting", "done"}, res : {"NONE", "SUCCESS", "FAILED"}]]
  BY <1>1, ClientRecord DEF Tasks
<1>5. TypeOK'
  BY <1>1, <1>3, <1>4 DEF TypeOK
<1>6. Driver(S)'
  BY <1>1, DriverSame
<1>7. Lane'
  BY <1>1, <1>3 DEF Lane
<1>8. NoLostWakeup'
  <2>1. posted # <<>>
    BY <1>2
  <2> QED
    BY <1>1, <2>1 DEF NoLostWakeup, Coming
<1>9. BusyForAMessage'
  BY <1>1 DEF BusyForAMessage, ReadNotStarted
<1> QED
  BY <1>5, <1>6, <1>7, <1>8, <1>9

----------------------------------------------------------------------------
(* The steps of the server.                                                *)

LEMMA WaitEventStep ==
  ASSUME IInv, WaitEvent
  PROVE  IInv'
<1> USE DEF IInv
<1>1. /\ spc = "wait" /\ mask' = evt /\ spc' = "clear"
      /\ UNCHANGED <<fls, bus, eng, dev, faults, evt, fm, cfgStarted, posted, proc, cl>>
  BY DEF WaitEvent, drv
<1>2. TypeOK'
  BY <1>1 DEF TypeOK
<1>3. Driver(S)'
  BY <1>1, DriverSame
<1>4. Lane' /\ BusyForAMessage'
  BY <1>1 DEF Lane, BusyForAMessage, ReadNotStarted
<1>5. NoLostWakeup'
  BY <1>1 DEF NoLostWakeup, Coming
<1> QED
  BY <1>2, <1>3, <1>4, <1>5

LEMMA ClearEventStep ==
  ASSUME IInv, ClearEvent
  PROVE  IInv'
<1> USE DEF IInv
<1>1. /\ spc = "clear" /\ evt' = evt \ mask /\ spc' = "flash"
      /\ UNCHANGED <<fls, bus, eng, dev, faults, mask, fm, cfgStarted, posted, proc, cl>>
  BY DEF ClearEvent, drv
<1>2. TypeOK'
  BY <1>1 DEF TypeOK
<1>3. Driver(S)'
  BY <1>1, DriverSame
<1>4. Lane' /\ BusyForAMessage'
  BY <1>1 DEF Lane, BusyForAMessage, ReadNotStarted
<1>5. NoLostWakeup'
  BY <1>1 DEF NoLostWakeup, Coming
<1> QED
  BY <1>2, <1>3, <1>4, <1>5

LEMMA HandleFlashStep ==
  ASSUME IInv, HandleFlash
  PROVE  IInv'
<1> USE DEF IInv
<1>1. /\ spc = "flash"
      /\ spc' = IF mask \cap {"MSGQ", "CB_IND"} # {} THEN "flsmgr" ELSE "wait"
      /\ UNCHANGED <<dev, mask, fm, cfgStarted, posted, proc, cl>>
  BY DEF HandleFlash
<1>2. Coming = evt \cup mask /\ Coming' = evt'
  BY <1>1 DEF Coming
<1>3. CASE "FLASH0" \notin mask
  <2>1. UNCHANGED <<fls, bus, eng, faults, evt>>
    BY <1>3 DEF HandleFlash
  <2>2. TypeOK'
    BY <1>1, <2>1 DEF TypeOK
  <2>3. Driver(S)'
    BY <2>1, DriverSame
  <2>4. Lane' /\ BusyForAMessage'
    BY <1>1, <2>1 DEF Lane, BusyForAMessage, ReadNotStarted
  <2>5. NoLostWakeup'
    BY <1>1, <1>2, <1>3, <2>1 DEF NoLostWakeup
  <2> QED
    BY <2>2, <2>3, <2>4, <2>5
<1>4. CASE "FLASH0" \in mask
  <2>1. PICK s \in StateHandler(S) :
          Assign(s) /\ evt' = IF s.ind THEN evt \cup {"CB_IND"} ELSE evt
    BY <1>4 DEF HandleFlash
  <2>2. /\ Driver(s) /\ Started(s) /\ (s.fls.opsRes = "PENDING" \/ s.ind \/ s = S)
        /\ s.fls.status = "BUSY" => S.fls.status = "BUSY"
        /\ S.bus.cmd = "READ" /\ Quiet(S.eng) /\ s.fls.status = "BUSY"
             => s.bus.cmd = "READ" /\ Quiet(s.eng)
    BY <2>1, StateHandlerStep
  <2>3. fls' = s.fls /\ bus' = s.bus /\ eng' = s.eng
    BY <2>1 DEF Assign
  <2>4. /\ Driver(s) /\ Started(s) /\ (fls'.opsRes = "PENDING" \/ s.ind \/ fls' = fls)
        /\ fls'.status = "BUSY" => fls.status = "BUSY"
        /\ bus.cmd = "READ" /\ Quiet(eng) /\ fls'.status = "BUSY"
             => bus'.cmd = "READ" /\ Quiet(eng')
    BY <2>2, <2>3 DEF S
  <2>5. /\ fls' \in FlsType(MaxLen) /\ bus' \in BusType /\ eng' \in EngType
        /\ faults' \in 0 .. MaxFaults /\ Driver(S)'
    BY <2>1, <2>4, AssignStep
  <2>6. evt \subseteq evt' /\ evt' \subseteq Events /\ (s.ind => "CB_IND" \in evt')
    BY <2>1 DEF TypeOK, Events
  <2>7. TypeOK'
    BY <1>1, <2>5, <2>6 DEF TypeOK
  <2>8. Lane'
    <3>1. fls.status = "IDLE" => fls'.status # "BUSY"
      BY <2>4
    <3>2. fls.status = "IDLE" => fls' = fls
      <4> SUFFICES ASSUME fls.status = "IDLE" PROVE fls' = fls
        OBVIOUS
      <4>1. fls.currOps = "NONE"
        BY DriverOf DEF FlsOK
      <4>2. s = S
        BY <2>1, <4>1 DEF StateHandler, S
      <4> QED
        BY <2>3, <4>2 DEF S
    <3> QED
      BY <1>1, <3>2 DEF Lane
  <2>9. BusyForAMessage'
    BY <1>1, <2>4 DEF BusyForAMessage, ReadNotStarted, Quiet
  <2>10. NoLostWakeup'
    <3>1. bus'.cmd = "XFER" => eng'.run
      BY <2>3, <2>4 DEF Started
    <3>2. bus'.cmd = "READ" => eng'.fifo = 0
      BY <2>3, <2>4 DEF Started
    <3>3. (posted # <<>> /\ proc = NoMsg) \/ (proc # NoMsg /\ fls'.opsRes # "PENDING")
            => spc' = "flsmgr" \/ {"MSGQ", "CB_IND"} \cap evt' # {}
      <4> SUFFICES ASSUME (posted # <<>> /\ proc = NoMsg)
                            \/ (proc # NoMsg /\ fls'.opsRes # "PENDING")
                   PROVE  spc' = "flsmgr" \/ {"MSGQ", "CB_IND"} \cap evt' # {}
        OBVIOUS
      <4>1. CASE s.ind
        BY <2>6, <4>1
      <4>2. CASE ~s.ind
        <5>1. {"MSGQ", "CB_IND"} \cap (evt \cup mask) # {}
          BY <1>1, <1>2, <2>4, <4>2 DEF NoLostWakeup
        <5> QED
          BY <1>1, <2>6, <5>1
      <4> QED
        BY <4>1, <4>2
    <3>4. eng'.fifo \in Nat
      BY <2>5 DEF EngType
    <3> QED
      BY <1>1, <1>2, <3>1, <3>2, <3>3, <3>4 DEF NoLostWakeup
  <2> QED
    BY <2>5, <2>7, <2>8, <2>9, <2>10
<1> QED
  BY <1>3, <1>4

LEMMA NoMessageStep ==
  ASSUME IInv, NoMessage
  PROVE  IInv'
<1> USE DEF IInv
<1>1. /\ spc = "flsmgr" /\ proc = NoMsg /\ posted = <<>> /\ spc' = "wait"
      /\ UNCHANGED <<fls, bus, eng, dev, faults, evt, mask, fm, cfgStarted, posted, proc, cl>>
  BY DEF NoMessage, drv
<1>2. TypeOK'
  BY <1>1 DEF TypeOK
<1>3. Driver(S)'
  BY <1>1, DriverSame
<1>4. Lane' /\ BusyForAMessage'
  BY <1>1 DEF Lane, BusyForAMessage, ReadNotStarted
<1>5. NoLostWakeup'
  BY <1>1 DEF NoLostWakeup, Coming
<1> QED
  BY <1>2, <1>3, <1>4, <1>5

LEMMA GetMsgIdxStep ==
  ASSUME IInv, GetMsgIdx
  PROVE  IInv'
<1> USE DEF IInv
<1>1. /\ spc = "flsmgr" /\ proc = NoMsg /\ posted # <<>>
      /\ proc' = Head(posted) /\ posted' = Tail(posted)
      /\ UNCHANGED <<fls, bus, eng, dev, faults, spc, evt, mask, fm, cfgStarted, cl>>
  BY DEF GetMsgIdx, drv
<1>2. posted \in Seq(Msgs)
  BY DEF TypeOK
<1>3. proc' \in Msgs /\ posted' \in Seq(Msgs)
  BY <1>1, <1>2
<1>4. proc' # NoMsg
  BY <1>3, RequestAssumption DEF Msgs, NoMsg, Ops
<1>5. TypeOK'
  BY <1>1, <1>3 DEF TypeOK
<1>6. Driver(S)'
  BY <1>1, DriverSame
<1>7. Lane'
  <2>1. CASE posted \in Seq(ClientMsgs)
    <3>1. proc' \in ClientMsgs /\ posted' \in Seq(ClientMsgs)
      BY <1>1, <2>1
    <3> QED
      BY <3>1 DEF Lane, ClientMsgs
  <2>2. CASE fm = "UNINIT" /\ ~cfgStarted /\ Len(posted) = 1 /\ fls.status = "IDLE"
    <3>1. posted' = <<>>
      BY <1>1, <1>2, <2>2
    <3> QED
      BY <1>1, <1>4, <2>2, <3>1 DEF Lane
  <2> QED
    BY <1>1, <2>1, <2>2 DEF Lane
<1>8. NoLostWakeup'
  BY <1>1 DEF NoLostWakeup, Coming
<1>9. BusyForAMessage'
  BY <1>1 DEF BusyForAMessage, ReadNotStarted
<1> QED
  BY <1>5, <1>6, <1>7, <1>8, <1>9

\* The part of NoLostWakeup that is about the bus.
BusWakes ==
  /\ bus.cmd = "XFER" => eng.run \/ "FLASH0" \in Coming
  /\ bus.cmd = "READ" /\ fls.status = "BUSY" /\ eng.todo = 0 /\ eng.fifo > 0
       => "FLASH0" \in Coming

DriverTyped == /\ fls \in FlsType(MaxLen) /\ bus \in BusType /\ eng \in EngType
               /\ dev \in DevType /\ faults \in 0 .. MaxFaults

\* The message is answered: the driver no longer works for it.
LEMMA CompleteStep ==
  ASSUME IInv, spc = "flsmgr", proc # NoMsg, NEW res \in {"SUCCESS", "FAILED"},
         Complete(res), fm' \in {"UNINIT", "IDLE", "BUSY"}, cfgStarted' \in BOOLEAN,
         DriverTyped', Driver(S)', BusWakes', fls'.status = "BUSY" => ReadNotStarted'
  PROVE  IInv'
<1> USE DEF IInv
<1>1. /\ cl' = [cl EXCEPT ![proc.from] = [st |-> "done", res |-> res]]
      /\ proc' = NoMsg /\ UNCHANGED <<spc, evt, mask, posted>>
  BY DEF Complete
<1>2. proc \in Msgs /\ proc.from \in Tasks
  BY DEF TypeOK, Msgs
<1>3. cl' \in [Tasks -> [st : {"idle", "waiting", "done"}, res : {"NONE", "SUCCESS", "FAILED"}]]
  BY <1>1, <1>2, ClientRecord
<1>4. TypeOK'
  BY <1>1, <1>3 DEF TypeOK, DriverTyped
<1>5. Lane'
  <2>1. posted \in Seq(ClientMsgs)
    <3>1. posted = <<>> \/ posted \in Seq(ClientMsgs)
      BY DEF Lane
    <3>2. <<>> \in Seq(ClientMsgs)
      OBVIOUS
    <3> QED
      BY <3>1, <3>2
  <2>2. proc'.cmd # "CFG_READ_LANE"
    BY <1>1 DEF NoMsg
  <2> QED
    BY <1>1, <2>1, <2>2 DEF Lane
<1>6. NoLostWakeup'
  BY <1>1 DEF NoLostWakeup, BusWakes
<1>7. BusyForAMessage'
  BY DEF BusyForAMessage
<1> QED
  BY <1>4, <1>5, <1>6, <1>7

\* The server waits, for an operation that is under way.
LEMMA AgainStep ==
  ASSUME IInv, spc = "flsmgr", proc # NoMsg, Again,
         fm' \in {"UNINIT", "IDLE", "BUSY"}, cfgStarted' \in BOOLEAN,
         DriverTyped', Driver(S)', BusWakes', fls'.opsRes = "PENDING",
         Lane', BusyForAMessage'
  PROVE  IInv'
<1> USE DEF IInv
<1>1. spc' = "wait" /\ UNCHANGED <<evt, mask, posted, proc, cl>>
  BY DEF Again
<1>2. TypeOK'
  BY <1>1 DEF TypeOK, DriverTyped
<1>3. NoLostWakeup'
  BY <1>1 DEF NoLostWakeup, BusWakes
<1> QED
  BY <1>2, <1>3

LEMMA BusWakesSame ==
  ASSUME IInv, spc = "flsmgr", spc' \in {"flsmgr", "wait"}, evt' = evt,
         UNCHANGED <<fls, bus, eng>>
  PROVE  BusWakes'
BY DEF IInv, NoLostWakeup, BusWakes, Coming

\* An operation that began has its transfer under way.
LEMMA BusWakesStarted ==
  ASSUME NEW s, Driver(s), Started(s), Assign(s)
  PROVE  BusWakes'
<1>1. s.eng.fifo \in Nat
  BY DEF Driver, State, EngType
<1> QED
  BY <1>1 DEF Started, Assign, BusWakes

\* Without a call of the driver.
LEMMA TypedSame ==
  ASSUME IInv, UNCHANGED drv
  PROVE  DriverTyped' /\ Driver(S)'
<1>1. UNCHANGED <<fls, bus, eng, dev, faults>>
  BY DEF drv
<1>2. Driver(S)'
  BY <1>1, DriverSame DEF IInv
<1> QED
  BY <1>1, <1>2 DEF DriverTyped, IInv, TypeOK

LEMMA UninitStartStep ==
  ASSUME IInv, spc = "flsmgr", proc # NoMsg, UninitStart
  PROVE  IInv'
<1>1. fm = "UNINIT" /\ ~cfgStarted
  BY DEF UninitStart
<1>2. CASE proc.cmd # "CFG_READ_LANE"
  <2>1. Complete("FAILED") /\ UNCHANGED <<drv, fm, cfgStarted>>
    BY <1>2 DEF UninitStart
  <2>2. DriverTyped' /\ Driver(S)' /\ UNCHANGED <<fls, bus, eng>>
    BY <2>1, TypedSame DEF drv
  <2>3. BusWakes'
    BY <2>1, <2>2, BusWakesSame DEF Complete
  <2>4. fls'.status = "BUSY" => ReadNotStarted'
    BY <1>1, <1>2, <2>2 DEF IInv, BusyForAMessage, ReadNotStarted
  <2>5. fm' \in {"UNINIT", "IDLE", "BUSY"} /\ cfgStarted' \in BOOLEAN
    BY <1>1, <2>1 DEF IInv, TypeOK
  <2> QED
    BY <2>1, <2>2, <2>3, <2>4, <2>5, CompleteStep
<1>3. ASSUME proc.cmd = "CFG_READ_LANE"
      PROVE  posted = <<>> /\ fls.status = "IDLE"
  BY <1>1, <1>3 DEF IInv, Lane
<1>4. CASE proc.cmd = "CFG_READ_LANE" /\ ~LaneSup
  <2>1. Complete("SUCCESS") /\ fm' = "IDLE" /\ UNCHANGED <<drv, cfgStarted>>
    BY <1>4 DEF UninitStart
  <2>2. DriverTyped' /\ Driver(S)' /\ UNCHANGED <<fls, bus, eng>>
    BY <2>1, TypedSame DEF drv
  <2>3. BusWakes'
    BY <2>1, <2>2, BusWakesSame DEF Complete
  <2>4. fls'.status # "BUSY"
    BY <1>3, <1>4, <2>2
  <2>5. fm' \in {"UNINIT", "IDLE", "BUSY"} /\ cfgStarted' \in BOOLEAN
    BY <1>1, <2>1 DEF IInv, TypeOK
  <2> QED
    BY <2>1, <2>2, <2>3, <2>4, <2>5, CompleteStep
<1>5. CASE proc.cmd = "CFG_READ_LANE" /\ LaneSup
  <2>1. /\ \E r \in StartOp(S, "CFG_READ_LANE", 1) : Assign(r.s)
        /\ cfgStarted' = TRUE /\ Again /\ UNCHANGED <<dev, fm>>
    BY <1>5 DEF UninitStart
  <2>2. PICK r \in StartOp(S, "CFG_READ_LANE", 1) : Assign(r.s)
    BY <2>1
  <2>3. Driver(S) /\ S.fls.status = "IDLE" /\ 1 \in 0 .. MaxLen
    BY <1>3, <1>5, RequestAssumption DEF IInv, S
  <2>4. /\ Driver(r.s) /\ r.s.fls.opsRes = "PENDING"
        /\ r.s = S \/ Going(r.s)
    BY <2>2, <2>3, StartOpStep DEF Ops
  <2>5. Going(r.s)
    <3>1. S.fls.opsRes # "PENDING"
      BY <2>3 DEF Driver, FlsOK
    <3> QED
      BY <2>4, <3>1
  <2>6. /\ fls' \in FlsType(MaxLen) /\ bus' \in BusType /\ eng' \in EngType
        /\ faults' \in 0 .. MaxFaults /\ Driver(S)'
    BY <2>2, <2>4, AssignStep
  <2>7. DriverTyped'
    BY <2>1, <2>6 DEF DriverTyped, IInv, TypeOK
  <2>8. BusWakes'
    BY <2>2, <2>5, BusWakesStarted DEF Going
  <2>9. fls'.opsRes = "PENDING"
    BY <2>2, <2>4 DEF Assign
  <2>10. Lane' /\ BusyForAMessage'
    BY <1>1, <1>3, <1>5, <2>1 DEF Lane, BusyForAMessage, Again
  <2>11. fm' \in {"UNINIT", "IDLE", "BUSY"} /\ cfgStarted' \in BOOLEAN
    BY <1>1, <2>1
  <2> QED
    BY <2>1, <2>6, <2>7, <2>8, <2>9, <2>10, <2>11, AgainStep
<1> QED
  BY <1>2, <1>4, <1>5, FlashAssumption

\* UninitEnd and Busy: the operation is still pending, or its message answered.
LEMMA OpEndStep ==
  ASSUME IInv, spc = "flsmgr", proc # NoMsg, fm \in {"UNINIT", "BUSY"},
         IF fls.opsRes = "PENDING" THEN Again /\ UNCHANGED fm
                                   ELSE Complete(Result) /\ fm' = "IDLE",
         UNCHANGED <<drv, cfgStarted>>
  PROVE  IInv'
<1>1. DriverTyped' /\ Driver(S)' /\ UNCHANGED <<fls, bus, eng>>
  BY TypedSame DEF drv
<1>2. CASE fls.opsRes = "PENDING"
  <2>1. Again /\ UNCHANGED <<fm, cfgStarted>>
    BY <1>2
  <2>2. BusWakes'
    BY <1>1, <2>1, BusWakesSame DEF Again
  <2>3. Lane' /\ BusyForAMessage'
    BY <1>1, <2>1 DEF IInv, Again, Lane, BusyForAMessage, ReadNotStarted
  <2>4. fm' \in {"UNINIT", "IDLE", "BUSY"} /\ cfgStarted' \in BOOLEAN
    BY <2>1 DEF IInv, TypeOK
  <2> QED
    BY <1>1, <1>2, <2>1, <2>2, <2>3, <2>4, AgainStep
<1>3. CASE fls.opsRes # "PENDING"
  <2>1. Complete(Result) /\ fm' = "IDLE" /\ Result \in {"SUCCESS", "FAILED"}
    BY <1>3 DEF Result
  <2>2. BusWakes'
    BY <1>1, <2>1, BusWakesSame DEF Complete
  <2>3. fls'.status # "BUSY"
    BY <1>1, <1>3, DriverOf DEF IInv, FlsOK
  <2>4. fm' \in {"UNINIT", "IDLE", "BUSY"} /\ cfgStarted' \in BOOLEAN
    BY <2>1 DEF IInv, TypeOK
  <2> QED
    BY <1>1, <2>1, <2>2, <2>3, <2>4, CompleteStep
<1> QED
  BY <1>2, <1>3

LEMMA IdleStartStep ==
  ASSUME IInv, spc = "flsmgr", proc # NoMsg, IdleStart
  PROVE  IInv'
<1>1. /\ fm = "IDLE" /\ proc.cmd # "DEINIT" /\ dev' = [dev EXCEPT !.units = 0]
      /\ UNCHANGED cfgStarted
  BY DEF IdleStart
<1>2. PICK r \in StartOp(S, proc.cmd, proc.len) :
        Assign(r.s) /\ IF r.ok THEN Again /\ fm' = "BUSY"
                               ELSE Complete("FAILED") /\ UNCHANGED fm
  BY DEF IdleStart
<1>3. /\ proc.cmd # "CFG_READ_LANE" /\ posted \in Seq(ClientMsgs)
      /\ proc.cmd \in Ops /\ proc.len \in 0 .. MaxLen
  <2>1. proc \in Msgs
    BY DEF IInv, TypeOK
  <2>2. proc.cmd # "CFG_READ_LANE" /\ posted \in Seq(ClientMsgs)
    BY <1>1 DEF IInv, Lane
  <2> QED
    BY <1>1, <2>1, <2>2, RequestAssumption DEF Msgs
<1>4. /\ r.ok \in BOOLEAN /\ Driver(r.s)
      /\ \/ ~r.ok /\ r.s = S
         \/ Going(r.s) /\ r.s.fls.opsRes = "PENDING"
            /\ (r.ok \/ (r.s.bus.cmd = "READ" /\ Quiet(r.s.eng)))
  BY <1>2, <1>3, StartOpStep DEF IInv
<1>5. /\ fls' \in FlsType(MaxLen) /\ bus' \in BusType /\ eng' \in EngType
      /\ faults' \in 0 .. MaxFaults /\ Driver(S)'
  BY <1>2, <1>4, AssignStep
<1>6. DriverTyped'
  BY <1>1, <1>5 DEF DriverTyped, IInv, TypeOK, DevType
<1>7. cfgStarted' \in BOOLEAN
  BY <1>1 DEF IInv, TypeOK
<1>8. fls' = r.s.fls /\ bus' = r.s.bus /\ eng' = r.s.eng
  BY <1>2 DEF Assign
<1>9. BusWakes'
  <2>1. CASE Going(r.s)
    BY <1>2, <1>4, <2>1, BusWakesStarted DEF Going
  <2>2. CASE ~r.ok /\ r.s = S
    <3>1. Complete("FAILED") /\ UNCHANGED <<fls, bus, eng>>
      BY <1>2, <1>8, <2>2 DEF S
    <3> QED
      BY <3>1, BusWakesSame DEF Complete
  <2> QED
    BY <1>4, <2>1, <2>2
<1>10. CASE r.ok
  <2>1. Again /\ fm' = "BUSY" /\ fls'.opsRes = "PENDING"
    BY <1>2, <1>4, <1>8, <1>10
  <2>2. Lane' /\ BusyForAMessage'
    BY <1>3, <2>1 DEF Lane, BusyForAMessage, Again
  <2> QED
    BY <1>5, <1>6, <1>7, <1>9, <2>1, <2>2, AgainStep
<1>11. CASE ~r.ok
  <2>1. Complete("FAILED") /\ fm' = "IDLE"
    BY <1>1, <1>2, <1>11
  <2>2. fls'.status = "BUSY" => ReadNotStarted'
    <3>1. CASE r.s = S
      BY <1>1, <1>3, <1>8, <3>1 DEF IInv, BusyForAMessage, ReadNotStarted, S
    <3>2. CASE r.s.bus.cmd = "READ" /\ Quiet(r.s.eng)
      BY <1>8, <3>2 DEF ReadNotStarted, Quiet
    <3> QED
      BY <1>4, <1>11, <3>1, <3>2
  <2> QED
    BY <1>5, <1>6, <1>7, <1>9, <2>1, <2>2, CompleteStep
<1> QED
  BY <1>4, <1>10, <1>11

LEMMA IdleDeInitStep ==
  ASSUME IInv, spc = "flsmgr", proc # NoMsg, IdleDeInit
  PROVE  IInv'
<1>1. fm' = "UNINIT" /\ cfgStarted' = FALSE /\ Complete("SUCCESS") /\ dev' = dev
  BY DEF IdleDeInit
<1>2. PICK s \in DeInit(S) : Assign(s)
  BY DEF IdleDeInit
<1>3. Driver(s) /\ s.fls.status = "UNINIT" /\ s.bus.cmd = "INVALID"
  BY <1>2, DeInitStep DEF IInv
<1>4. /\ fls' \in FlsType(MaxLen) /\ bus' \in BusType /\ eng' \in EngType
      /\ faults' \in 0 .. MaxFaults /\ Driver(S)'
  BY <1>2, <1>3, AssignStep
<1>5. fls'.status = "UNINIT" /\ bus'.cmd = "INVALID"
  BY <1>2, <1>3 DEF Assign
<1>6. DriverTyped'
  BY <1>1, <1>4 DEF DriverTyped, IInv, TypeOK
<1>7. BusWakes'
  BY <1>5 DEF BusWakes
<1> QED
  BY <1>1, <1>4, <1>5, <1>6, <1>7, CompleteStep

----------------------------------------------------------------------------
LEMMA Inductive ==
  ASSUME IInv, [Next]_vars
  PROVE  IInv'
<1>1. CASE HwXferDone \/ HwReadData \/ HwDevEnd
  BY <1>1, HwXferDoneStep, HwReadDataStep, HwDevEndStep
<1>2. ASSUME NEW c \in Clients, GetOpResult(c) \/ Cancel(c) \/ \E r \in Requests : Post(c, r)
      PROVE  IInv'
  BY <1>2, GetOpResultStep, CancelStep, PostStep DEF Tasks
<1>3. CASE GetOpResult(Server)
  BY <1>3, GetOpResultStep DEF Tasks
<1>4. CASE WaitEvent \/ ClearEvent \/ HandleFlash \/ NoMessage \/ GetMsgIdx
  BY <1>4, WaitEventStep, ClearEventStep, HandleFlashStep, NoMessageStep, GetMsgIdxStep
<1>5. CASE MsgHandler
  <2>1. spc = "flsmgr" /\ proc # NoMsg
    BY <1>5 DEF MsgHandler
  <2>2. CASE UninitStart
    BY <2>1, <2>2, UninitStartStep
  <2>3. CASE UninitEnd
    BY <2>1, <2>3, OpEndStep DEF UninitEnd
  <2>4. CASE IdleStart
    BY <2>1, <2>4, IdleStartStep
  <2>5. CASE IdleDeInit
    BY <2>1, <2>5, IdleDeInitStep
  <2>6. CASE Busy
    BY <2>1, <2>6, OpEndStep DEF Busy
  <2> QED
    BY <1>5, <2>2, <2>3, <2>4, <2>5, <2>6 DEF MsgHandler
<1>6. CASE UNCHANGED vars
  <2>1. UNCHANGED <<fls, bus, eng, dev, faults, spc, evt, mask, fm, cfgStarted, posted,
                    proc, cl>>
    BY <1>6 DEF vars
  <2>2. Driver(S)'
    BY <2>1, DriverSame DEF IInv
  <2> QED
    BY <2>1, <2>2 DEF IInv, TypeOK, Lane, NoLostWakeup, Coming, BusyForAMessage,
                      ReadNotStarted
<1> QED
  BY <1>1, <1>2, <1>3, <1>4, <1>5, <1>6 DEF Next, ServerStep

\* The states of the driver, of its bus and of the server are always those the
\* code distinguishes (flash.c, qspi.c, flsmgr.c, flsmgr_osil.c).
THEOREM TypeCorrect == Spec => []TypeOK
<1>1. TypeOK /\ IInv <=> IInv
  BY DEF IInv
<1> QED
  BY <1>1, InitInv, Inductive, PTL DEF Spec

\* No event is lost on its way from the interrupt, the driver and the clients
\* to the server, although it clears a copy of the events (TASK(FLSMGR_Server)).
THEOREM WakeupsAreKept == Spec => []NoLostWakeup
<1>1. NoLostWakeup /\ IInv <=> IInv
  BY DEF IInv
<1> QED
  BY <1>1, InitInv, Inductive, PTL DEF Spec

\* The driver is busy for the message being processed, or with a read that did
\* not start (FLSMGR_IdleStateHandler, FLASH_Read).
THEOREM DriverWorksForAMessage == Spec => []BusyForAMessage
<1>1. BusyForAMessage /\ IInv <=> IInv
  BY DEF IInv
<1> QED
  BY <1>1, InitInv, Inductive, PTL DEF Spec

==============================================================================
