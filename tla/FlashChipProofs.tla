--------------------------- MODULE FlashChipProofs ---------------------------
(***************************************************************************)
(* Proofs that what FlashServer does to the flash chip is right: commands  *)
(* are not ignored, transfers are finished in order, and a message that is *)
(* answered with SUCCESS was done.                                         *)
(*                                                                         *)
(* They hold when every event of the bus interrupt belongs to the transfer *)
(* under way (NoStrayEvents).                                              *)
(***************************************************************************)
EXTENDS FlashServerProofs

\* A bus read that raises several interrupts may be drained and stopped upon the
\* first, and leaves the event of another one for the transfer that follows.
NoStrayEvents == RdIrqs = 1 \/ Cmds \cap {"READ", "COMPARE"} = {}

----------------------------------------------------------------------------
(* The invariant of the driver and the chip.                               *)

In(f, opsState, subState) == f.opsState = opsState /\ f.subState = subState
BusyWith(s, ops) == s.fls.status = "BUSY" /\ s.fls.currOps \in ops

\* The transfers of each state of the operations.
OpOfState(f, op) ==
  /\ op = "WREN" => In(f, "WE", "RS")
  /\ op = "RDSR" => In(f, "WE", "VER_WEL") \/ In(f, "PGM", "VER_WIP")
  /\ op = "PP"   => In(f, "PGM", "WR")
  /\ op \in {"SE", "DATA", "WRSR"} => In(f, "PGM", "RS")
  /\ op = "RFSR" => In(f, "PGM", "VER_PES")

Ended(s) == s.bus.cmd = "XFER" /\ ~s.eng.run

BusGood(s) ==
  /\ s.eng.run => /\ s.bus.cmd = "XFER" /\ s.eng.op = s.bus.op
                  /\ s.eng.last <=> s.bus.rem = 0
  /\ Ended(s) => s.eng.spif
  /\ s.bus.cmd = "XFER" => /\ ~s.fls.errFlag /\ OpOfState(s.fls, s.bus.op)
                           /\ s.bus.rem = 0 \/ s.bus.op = "DATA"
                           /\ s.bus.op = "WRSR" => s.fls.currOps = "CFG_READ_LANE"
  /\ s.bus.cmd = "READ" => s.fls.opsState \in {"CMP", "DONE"} /\ s.eng.todo <= 1
  /\ s.bus.cmd = "READ" /\ ~Quiet(s.eng) => ~s.fls.errFlag
  /\ s.fls.status = "BUSY" /\ s.fls.opsState = "PGM" /\ s.fls.subState \in {"RS", "WR"}
       => s.bus.cmd = "XFER"
  /\ s.fls.status = "BUSY" /\ s.fls.opsState \in {"CMP", "DONE"}
       => s.fls.currOps \in {"READ", "COMPARE"} /\ RdIrqs = 1
  /\ s.fls.status # "BUSY" => ~s.fls.errFlag

\* Something is on its way to the chip that it must not ignore.
Sending(s) ==
  /\ s.fls.status = "BUSY"
  /\ \/ In(s.fls, "PGM", "WR")
     \/ In(s.fls, "PGM", "RS") /\ (s.eng.run \/ s.bus.rem > 0)

\* The chip is at rest but for what the driver waits for, and what the driver
\* read of the chip's status still holds.
ChipGood(s, d) ==
  /\ d.busy # "none" => /\ s.fls.status = "BUSY" /\ s.fls.opsState = "PGM"
                        /\ s.fls.subState \in {"RS", "VER_WIP", "VER_PES"}
  /\ d.busy = "WRSR" => s.fls.currOps = "CFG_READ_LANE"
  /\ Sending(s) => d.wel /\ d.busy = "none"
  /\ Ended(s) /\ In(s.fls, "WE", "VER_WEL") /\ s.eng.rx.wel => d.wel
  /\ Ended(s) /\ In(s.fls, "PGM", "VER_WIP") /\ ~s.eng.rx.wip => d.busy = "none"
  /\ s.fls.status = "BUSY" /\ In(s.fls, "PGM", "VER_PES") /\ ~s.fls.wip => d.busy = "none"
  /\ Ended(s) /\ In(s.fls, "PGM", "VER_PES") /\ ~s.fls.wip /\ d.err => s.eng.rx.err
  /\ d.err => Micron

\* What the chip has done and what is left make up the length of the operation.
UnitsGood(s, d, len) ==
  BusyWith(s, {"ERASE", "WRITE"}) =>
    d.units + s.fls.left =
      IF s.fls.opsState = "WE" \/ Sending(s) \/ d.busy # "none" \/ d.err
      THEN len ELSE len + 1

Good(s, d, len) == BusGood(s) /\ ChipGood(s, d) /\ UnitsGood(s, d, len)

\* Upon a call of FLASH_OpsHandler, after the last transfer.
EndedGood(s, d, len) ==
  /\ ~s.eng.run /\ s.bus.cmd = "INVALID"
  /\ s.fls.opsState \in {"WE", "PGM"} => ~s.fls.errFlag
  /\ s.fls.opsState \in {"CMP", "DONE"} => s.fls.currOps \in {"READ", "COMPARE"} /\ RdIrqs = 1
  /\ d.busy # "none" => s.fls.opsState = "PGM" /\ s.fls.subState \in {"RS", "VER_WIP", "VER_PES"}
  /\ d.busy = "WRSR" => s.fls.currOps = "CFG_READ_LANE"
  /\ In(s.fls, "PGM", "WR") => d.wel
  /\ In(s.fls, "WE", "VER_WEL") /\ s.fls.rx.wel => d.wel
  /\ In(s.fls, "PGM", "VER_WIP") /\ ~s.fls.rx.wip => d.busy = "none"
  /\ In(s.fls, "PGM", "VER_PES") /\ ~s.fls.wip => d.busy = "none"
  /\ In(s.fls, "PGM", "VER_PES") /\ ~s.fls.wip /\ d.err => s.fls.rx.err
  /\ d.err => Micron
  /\ s.fls.currOps \in {"ERASE", "WRITE"} =>
       d.units + s.fls.left =
         IF s.fls.opsState = "WE" \/ In(s.fls, "PGM", "WR") \/ d.busy # "none" \/ d.err
         THEN len ELSE len + 1

\* What a call of FLASH_OpsHandler leaves, of an operation op of that length.
Outcome(r, d, op, len) ==
  /\ Good(Indicate(r), d, len)
  /\ r.s.fls.status = "BUSY" => r.s.fls.currOps = op
  /\ r.s.fls.opsRes = "OK" /\ op \in {"ERASE", "WRITE"} => d.units = len

----------------------------------------------------------------------------
(* The invariant of the server.                                            *)

\* An event of the bus interrupt is there exactly once, and only for a transfer
\* that has ended.
Exact ==
  /\ "FLASH0" \in Coming =>
       \/ bus.cmd = "XFER" /\ ~eng.run
       \/ bus.cmd = "READ" /\ eng.todo = 0 /\ eng.fifo > 0
  /\ spc = "flash" /\ "FLASH0" \in mask => "FLASH0" \notin evt

\* The operation is the one of the message, and what it reports is true.
Answered ==
  /\ BusyWith(S, {"ERASE", "WRITE"}) => fm = "BUSY"
  /\ fm = "BUSY" => proc # NoMsg
  /\ fm = "BUSY" /\ fls.status = "BUSY" => fls.currOps = proc.cmd
  /\ fm = "BUSY" /\ proc.cmd \in {"ERASE", "WRITE"} /\ fls.opsRes = "OK"
       => dev.units = proc.len

\* What the server has started before it is initialised is the lane.
First == fm = "UNINIT" /\ cfgStarted => proc.cmd = "CFG_READ_LANE"

Right == Good(S, dev, proc.len) /\ Exact /\ Answered /\ First
CInv  == IInv /\ Right

----------------------------------------------------------------------------
\* What Xfer leaves, begun in a state of the operation that Goto set.
Sent(t, f, op, n, o, u) ==
  /\ t.fls = [f EXCEPT !.opsState = o, !.subState = u]
  /\ t.bus = [cmd |-> "XFER", op |-> op, rem |-> n - 1]
  /\ t.eng.run /\ t.eng.op = op
  /\ t.eng.last <=> n = 1

LEMMA XferFields ==
  ASSUME NEW s \in State, NEW op \in Commands, NEW n \in Nat \ {0},
         NEW o \in {"WE", "PGM"}, NEW u \in {"RS", "WR", "VER_WEL", "VER_WIP", "VER_PES"}
  PROVE  Sent(Xfer(Goto(s, o, u), op, n), s.fls, op, n, o, u)
<1> DEFINE f == [s.fls EXCEPT !.opsState = o, !.subState = u]
           b == [cmd |-> "XFER", op |-> op, rem |-> n - 1]
           g == [s EXCEPT !.fls = f]
           v == [g EXCEPT !.bus = b]
<1>1. s.eng \in EngType /\ s.fls \in FlsType(MaxLen)
  BY DEF State
<1>2. PICK last \in BOOLEAN : last = (n = 1)
  OBVIOUS
<1> DEFINE e == [s.eng EXCEPT !.run = TRUE, !.spif = FALSE, !.op = op, !.last = last]
           t == [v EXCEPT !.eng = e]
<1>3. e.run /\ e.op = op /\ e.last = last
  BY <1>1 DEF EngType
<1>4. Goto(s, o, u) = g
  BY <1>1 DEF Goto, State, FlsType
<1> HIDE DEF f, b, e
<1>5. g.eng = s.eng /\ g.fls = f /\ v.eng = s.eng /\ v.fls = f /\ v.bus = b
  BY DEF State
<1>6. t.fls = f /\ t.bus = b /\ t.eng = e
  BY DEF State
<1>7. Xfer(g, op, n) = XferStart(v, op, last)
  BY <1>2 DEF Xfer, b
<1>8. XferStart(v, op, last) = t
  BY <1>5 DEF XferStart, e
<1> HIDE DEF g, v, t
<1>9. Xfer(Goto(s, o, u), op, n) = t
  BY <1>4, <1>7, <1>8
<1>10. Sent(t, s.fls, op, n, o, u)
  BY <1>2, <1>3, <1>6 DEF Sent, f, b
<1> QED
  BY <1>9, <1>10

\* What Indicate leaves.
Told(t, r) ==
  /\ t.bus = r.s.bus /\ t.eng = r.s.eng
  /\ t.fls.errFlag <=> (r.s.fls.errFlag \/ ~r.ok)
  /\ t.fls.status = r.s.fls.status /\ t.fls.opsRes = r.s.fls.opsRes
  /\ t.fls.currOps = r.s.fls.currOps /\ t.fls.opsState = r.s.fls.opsState
  /\ t.fls.subState = r.s.fls.subState /\ t.fls.left = r.s.fls.left
  /\ t.fls.wip = r.s.fls.wip

LEMMA IndicateFields ==
  ASSUME NEW r, r.ok \in BOOLEAN, r.s \in State
  PROVE  Told(Indicate(r), r)
<1>1. r.s.fls \in FlsType(MaxLen) /\ r.s.fls.errFlag \in BOOLEAN
  BY DEF State, FlsType
<1>2. PICK x \in BOOLEAN : x = (r.s.fls.errFlag \/ ~r.ok)
  OBVIOUS
<1>3. PICK y \in BOOLEAN : y = (r.s.fls.indFlag # "NONE")
  OBVIOUS
<1> DEFINE f == [r.s.fls EXCEPT !.errFlag = x]
           t == [r.s EXCEPT !.fls = f, !.ind = y]
<1>4. /\ f.status = r.s.fls.status /\ f.opsRes = r.s.fls.opsRes /\ f.left = r.s.fls.left
      /\ f.currOps = r.s.fls.currOps /\ f.opsState = r.s.fls.opsState
      /\ f.subState = r.s.fls.subState /\ f.wip = r.s.fls.wip /\ f.errFlag = x
  BY <1>1 DEF FlsType
<1>5. Indicate(r) = t
  BY <1>2, <1>3 DEF Indicate
<1> HIDE DEF f
<1>6. t.fls = f /\ t.bus = r.s.bus /\ t.eng = r.s.eng
  BY DEF State
<1> HIDE DEF t
<1>7. Told(t, r)
  BY <1>2, <1>4, <1>6 DEF Told
<1> QED
  BY <1>5, <1>7

\* A state from which the driver goes on with a transfer.
Goes(s, d, len, o, u) ==
  /\ s.fls.status = "BUSY" /\ s.fls.opsRes = "PENDING" /\ ~s.fls.errFlag
  /\ s.fls.currOps \in Programs
  /\ d.busy # "none" => o = "PGM" /\ u \in {"VER_WIP", "VER_PES"}
  /\ d.busy = "WRSR" => s.fls.currOps = "CFG_READ_LANE"
  /\ o = "PGM" /\ u \in {"RS", "WR"} => d.wel
  /\ o = "PGM" /\ u = "VER_PES" /\ ~s.fls.wip => d.busy = "none"
  /\ d.err => Micron
  /\ s.fls.currOps \in {"ERASE", "WRITE"} =>
       d.units + s.fls.left =
         IF o = "WE" \/ (o = "PGM" /\ u \in {"RS", "WR"}) \/ d.busy # "none" \/ d.err
         THEN len ELSE len + 1

\* The transfer is under way.
OnItsWay(t, s, op, n, o, u) ==
  /\ t.bus.cmd = "XFER" /\ t.bus.op = op /\ t.bus.rem = n - 1
  /\ t.fls.opsState = o /\ t.fls.subState = u /\ t.fls.status = "BUSY"
  /\ t.fls.currOps = s.fls.currOps
  /\ t.fls.left = s.fls.left /\ t.fls.wip = s.fls.wip /\ ~t.fls.errFlag
  /\ t.eng.run /\ t.eng.op = op /\ (t.eng.last <=> n = 1)

\* A transfer of the state that the operation is in.
Suits(s, op, n, o, u) ==
  /\ op \in Commands /\ n \in Nat \ {0} /\ o \in {"WE", "PGM"}
  /\ u \in {"RS", "WR", "VER_WEL", "VER_WIP", "VER_PES"}
  /\ n = 1 \/ op = "DATA"
  /\ op = "WRSR" => s.fls.currOps = "CFG_READ_LANE"
  /\ OpOfState([opsState |-> o, subState |-> u], op)

LEMMA SentGood ==
  ASSUME NEW s, NEW d, NEW len, NEW op, NEW n, NEW o, NEW u,
         Goes(s, d, len, o, u), Suits(s, op, n, o, u), NEW t, OnItsWay(t, s, op, n, o, u)
  PROVE  Good(t, d, len)
<1> USE DEF OnItsWay
<1>1. BusGood(t)
  <2>1. OpOfState(t.fls, op)
    BY DEF OpOfState, In, Suits
  <2>2. t.eng.last <=> t.bus.rem = 0
    BY DEF Suits
  <2>3. t.bus.rem = 0 \/ t.bus.op = "DATA"
    BY DEF Suits
  <2>4. t.bus.op = "WRSR" => t.fls.currOps = "CFG_READ_LANE"
    BY DEF Suits
  <2>5. o \notin {"CMP", "DONE"}
    BY DEF Suits
  <2> QED
    BY <2>1, <2>2, <2>3, <2>4, <2>5 DEF BusGood, Ended
<1>2. ChipGood(t, d)
  BY DEF ChipGood, Ended, Sending, In, Goes
<1>3. UnitsGood(t, d, len)
  <2>1. Sending(t) <=> o = "PGM" /\ u \in {"RS", "WR"}
    BY DEF Sending, In
  <2> QED
    BY <2>1 DEF UnitsGood, Goes, BusyWith
<1> QED
  BY <1>1, <1>2, <1>3 DEF Good

LEMMA XferGood ==
  ASSUME NEW s \in State, NEW d, NEW len, NEW op, NEW n, NEW o, NEW u,
         Goes(s, d, len, o, u), Suits(s, op, n, o, u),
         NEW w \in State, w = Xfer(Goto(s, o, u), op, n)
  PROVE  /\ Outcome(Ok(w), d, s.fls.currOps, len)
         /\ Good(w, d, len)
<1> DEFINE r == Ok(w)
           t == Indicate(r)
<1>1. Sent(w, s.fls, op, n, o, u) /\ w \in State
  BY XferFields DEF Suits
<1>2. s.fls \in FlsType(MaxLen)
  BY DEF State
<1>3. r.ok = TRUE /\ r.s = w
  BY DEF Ok
<1>4. OnItsWay(w, s, op, n, o, u) /\ w.fls.opsRes = "PENDING"
  BY <1>1, <1>2 DEF FlsType, Goes, Sent, OnItsWay
<1> HIDE DEF r
<1>5. Told(t, r)
  <2>1. r.ok \in BOOLEAN /\ r.s \in State
    BY <1>1, <1>3
  <2> QED
    BY <2>1, IndicateFields
<1> HIDE DEF t
<1>6. OnItsWay(t, s, op, n, o, u)
  BY <1>3, <1>4, <1>5 DEF Told, OnItsWay
<1>7. Good(t, d, len) /\ Good(w, d, len)
  BY <1>4, <1>6, SentGood
<1>8. w.fls.currOps = s.fls.currOps /\ w.fls.opsRes = "PENDING"
  BY <1>4 DEF OnItsWay
<1>9. Outcome(r, d, s.fls.currOps, len)
  BY <1>3, <1>7, <1>8 DEF Outcome, t
<1> QED
  BY <1>7, <1>9 DEF r

\* The operation ends with the chip at rest.
LEMMA FinishGood ==
  ASSUME NEW s \in State, NEW d, NEW len,
         NEW res \in {"OK", "FAIL"}, NEW i \in {"DONE", "ERR"}, NEW op,
         ~s.eng.run, s.bus.cmd = "INVALID", ~s.fls.errFlag,
         d.busy = "none", d.err => Micron,
         res = "OK" /\ op \in {"ERASE", "WRITE"} => d.units = len
  PROVE  Outcome(Ok(Finish(s, res, i)), d, op, len)
<1> DEFINE f == [s.fls EXCEPT !.opsRes = res, !.currOps = "NONE",
                     !.opsState = "EXIT", !.subState = "NONE",
                     !.status = "IDLE", !.indFlag = i]
           w == [s EXCEPT !.fls = f]
           r == Ok(w)
           t == Indicate(r)
<1>1. s.fls \in FlsType(MaxLen)
  BY DEF State
<1>2. f \in FlsType(MaxLen)
  BY <1>1 DEF FlsType
<1>3. f.opsRes = res /\ f.status = "IDLE" /\ ~f.errFlag /\ f.opsState = "EXIT"
  BY <1>1 DEF FlsType
<1>4. Finish(s, res, i) = w
  BY DEF Finish
<1> HIDE DEF f
<1>5. w \in State /\ w.fls = f /\ w.bus = s.bus /\ w.eng = s.eng
  BY <1>2, WithFls
<1> HIDE DEF w
<1>6. r.ok = TRUE /\ r.s = w
  BY DEF Ok
<1> HIDE DEF r
<1>7. Told(t, r)
  <2>1. r.ok \in BOOLEAN /\ r.s \in State
    BY <1>5, <1>6
  <2> QED
    BY <2>1, IndicateFields
<1> HIDE DEF t
<1>8. t.bus = s.bus /\ t.eng = s.eng /\ ~t.fls.errFlag /\ t.fls.status = "IDLE"
      /\ t.fls.opsState = "EXIT"
  BY <1>3, <1>5, <1>6, <1>7 DEF Told
<1>9. BusGood(t) /\ ChipGood(t, d) /\ UnitsGood(t, d, len)
  BY <1>8 DEF BusGood, ChipGood, UnitsGood, BusyWith, Sending, Ended, In
<1>10. Outcome(r, d, op, len)
  BY <1>3, <1>5, <1>6, <1>9 DEF Outcome, Good, t
<1> QED
  BY <1>4, <1>10 DEF r

----------------------------------------------------------------------------
(* The operators of the state machines.                                    *)

\* FLASH_OpsHandler failed, and no transfer is left to call it again.
LEMMA StuckGood ==
  ASSUME NEW s, Work(s), NEW d, NEW len, EndedGood(s, d, len), ~s.fls.errFlag,
         ~In(s.fls, "PGM", "RS"), ~In(s.fls, "PGM", "WR")
  PROVE  Outcome(Err(s), d, s.fls.currOps, len)
<1> DEFINE r == Err(s)
           t == Indicate(r)
<1>1. s \in State /\ s.fls.status = "BUSY" /\ s.fls.opsRes = "PENDING"
  BY DEF Work, FlsOK
<1>2. r.ok = FALSE /\ r.s = s
  BY DEF Err
<1> HIDE DEF r
<1>3. Told(t, r)
  <2>1. r.ok \in BOOLEAN /\ r.s \in State
    BY <1>1, <1>2
  <2> QED
    BY <2>1, IndicateFields
<1> HIDE DEF t
<1>4. /\ t.bus = s.bus /\ t.eng = s.eng /\ t.fls.errFlag
      /\ t.fls.status = "BUSY" /\ t.fls.currOps = s.fls.currOps
      /\ t.fls.opsState = s.fls.opsState /\ t.fls.subState = s.fls.subState
      /\ t.fls.left = s.fls.left /\ t.fls.wip = s.fls.wip
  BY <1>1, <1>2, <1>3 DEF Told
<1>5. BusGood(t)
  BY <1>4 DEF BusGood, EndedGood, Ended, In
<1>6. ChipGood(t, d)
  BY <1>4 DEF ChipGood, EndedGood, Ended, Sending, In
<1>7. UnitsGood(t, d, len)
  BY <1>4 DEF UnitsGood, EndedGood, BusyWith, Sending, In
<1>8. Outcome(r, d, s.fls.currOps, len)
  BY <1>1, <1>2, <1>5, <1>6, <1>7 DEF Outcome, Good, t
<1> QED
  BY <1>8 DEF r

LEMMA WriteEnableGood ==
  ASSUME NEW s, Open(s), s.fls.left > 0, NEW d, NEW len, Goes(s, d, len, "WE", "RS")
  PROVE  /\ Outcome(Ok(WriteEnable(s)), d, s.fls.currOps, len)
         /\ Good(WriteEnable(s), d, len)
<1> DEFINE f == [s.fls EXCEPT !.cnt = 0]
           u == [s EXCEPT !.fls = f]
<1>1. s \in State /\ s.fls \in FlsType(MaxLen)
  BY DEF Open, State
<1>2. f \in FlsType(MaxLen)
  BY <1>1, FlashAssumption DEF FlsType
<1>3. /\ f.status = s.fls.status /\ f.opsRes = s.fls.opsRes /\ f.left = s.fls.left
      /\ f.currOps = s.fls.currOps /\ f.wip = s.fls.wip /\ f.errFlag = s.fls.errFlag
  BY <1>1 DEF FlsType
<1>4. WriteEnable(s) = Xfer(Goto(u, "WE", "RS"), "WREN", 1)
  BY DEF WriteEnable
<1> HIDE DEF f
<1>5. u \in State /\ u.fls = f
  BY <1>1, <1>2, WithFls
<1>6. WriteEnable(s) \in State
  BY WriteEnableStep DEF Going, Driver, Goes
<1> HIDE DEF u
<1>7. Goes(u, d, len, "WE", "RS") /\ Suits(u, "WREN", 1, "WE", "RS")
  BY <1>3, <1>5 DEF Goes, Suits, OpOfState, In, Commands
<1> DEFINE w == WriteEnable(s)
<1>8. w \in State /\ w = Xfer(Goto(u, "WE", "RS"), "WREN", 1)
  BY <1>4, <1>6 DEF Commands
<1> HIDE DEF w
<1>9. Outcome(Ok(w), d, u.fls.currOps, len) /\ Good(w, d, len)
  BY <1>5, <1>7, <1>8, XferGood
<1> QED
  BY <1>3, <1>5, <1>9 DEF w

LEMMA ReadStatusGood ==
  ASSUME NEW s, Unit(s), NEW v \in {"VER_WEL", "VER_WIP"},
         \/ s.fls.opsState = "WE" /\ v = "VER_WEL"
         \/ s.fls.opsState = "PGM" /\ v = "VER_WIP",
         NEW d, NEW len, Goes(s, d, len, s.fls.opsState, v)
  PROVE  Outcome(Ok(ReadStatus(s, v)), d, s.fls.currOps, len)
<1> DEFINE w == ReadStatus(s, v)
           o == s.fls.opsState
<1>1. w = Xfer(Goto(s, o, v), "RDSR", 1)
  BY DEF ReadStatus
<1>2. w \in State
  BY ReadStatusStep DEF Going, Driver
<1>3. s \in State /\ o \in {"WE", "PGM"}
  BY DEF Unit, Work, Commands
<1>4. Suits(s, "RDSR", 1, o, v) /\ Goes(s, d, len, o, v)
  BY DEF Suits, OpOfState, In, Commands
<1> HIDE DEF w, o
<1>5. Outcome(Ok(w), d, s.fls.currOps, len)
  BY <1>1, <1>2, <1>3, <1>4, XferGood
<1> QED
  BY <1>5 DEF w

LEMMA StartUnitGood ==
  ASSUME NEW s, Unit(s), NEW d, NEW len,
         Goes(s, d, len, "PGM", "RS"), Goes(s, d, len, "PGM", "WR")
  PROVE  Outcome(Ok(StartUnit(s)), d, s.fls.currOps, len)
<1>1. s \in State /\ s.fls.currOps \in Programs
  BY DEF Unit, Work
<1> DEFINE w == StartUnit(s)
<1>2. w \in State
  BY StartUnitStep DEF Going, Driver
<1> HIDE DEF w
<1>3. CASE s.fls.currOps = "ERASE"
  <2>1. w = Xfer(Goto(s, "PGM", "RS"), "SE", 1)
    BY <1>3 DEF StartUnit, w
  <2>2. Suits(s, "SE", 1, "PGM", "RS")
    BY <1>3 DEF Suits, OpOfState, In, Commands
  <2> QED
    BY <1>1, <1>2, <2>1, <2>2, XferGood DEF w
<1>4. CASE s.fls.currOps = "WRITE"
  <2>1. w = Xfer(Goto(s, "PGM", "WR"), "PP", 1)
    BY <1>4 DEF StartUnit, w
  <2>2. Suits(s, "PP", 1, "PGM", "WR")
    BY <1>4 DEF Suits, OpOfState, In, Commands
  <2> QED
    BY <1>1, <1>2, <2>1, <2>2, XferGood DEF w
<1>5. CASE s.fls.currOps = "CFG_READ_LANE"
  <2>1. w = Xfer(Goto(s, "PGM", "RS"), "WRSR", 1)
    BY <1>5 DEF StartUnit, w
  <2>2. Suits(s, "WRSR", 1, "PGM", "RS")
    BY <1>5 DEF Suits, OpOfState, In, Commands
  <2> QED
    BY <1>1, <1>2, <2>1, <2>2, XferGood DEF w
<1> QED
  BY <1>1, <1>3, <1>4, <1>5 DEF Programs

LEMMA DoneGood ==
  ASSUME NEW s \in State, NEW d, NEW len, NEW op,
         ~s.eng.run, s.bus.cmd = "INVALID", ~s.fls.errFlag,
         d.busy = "none", d.err => Micron,
         op \in {"ERASE", "WRITE"} => d.units = len
  PROVE  Outcome(Ok(UpdateStateDone(s)), d, op, len)
BY FinishGood DEF UpdateStateDone

LEMMA ErrorGood ==
  ASSUME NEW s \in State, NEW d, NEW len, NEW op,
         ~s.eng.run, s.bus.cmd = "INVALID",
         d.busy = "none", d.err => Micron
  PROVE  Outcome(Ok(UpdateStateError(s)), d, op, len)
<1> DEFINE f == [s.fls EXCEPT !.errFlag = FALSE]
           u == [s EXCEPT !.fls = f]
<1>1. s.fls \in FlsType(MaxLen)
  BY DEF State
<1>2. f \in FlsType(MaxLen) /\ ~f.errFlag
  BY <1>1 DEF FlsType
<1>3. UpdateStateError(s) = Finish(u, "FAIL", "ERR")
  BY DEF UpdateStateError
<1> HIDE DEF f
<1>4. u \in State /\ u.fls = f /\ u.bus = s.bus /\ u.eng = s.eng
  BY <1>2, WithFls
<1> HIDE DEF u
<1>5. Outcome(Ok(Finish(u, "FAIL", "ERR")), d, op, len)
  BY <1>2, <1>4, FinishGood
<1> QED
  BY <1>3, <1>5

LEMMA UnitDoneGood ==
  ASSUME NEW s, Unit(s), NEW d \in DevType, NEW len \in Nat,
         ~s.eng.run, ~s.fls.errFlag, d.busy = "none", ~d.err,
         s.fls.currOps \in {"ERASE", "WRITE"} => d.units + s.fls.left = len + 1
  PROVE  Outcome(Ok(UnitDone(s)), d, s.fls.currOps, len)
<1>1. /\ s \in State /\ s.fls \in FlsType(MaxLen) /\ s.fls.left \in Nat /\ s.fls.left > 0
      /\ s.fls.left <= MaxLen /\ MaxLen \in Nat /\ d.units \in Nat
      /\ s.bus.cmd = "INVALID" /\ s.fls.currOps \in Programs
      /\ s.fls.status = "BUSY" /\ s.fls.opsRes = "PENDING"
  BY RequestAssumption DEF Unit, Work, State, FlsType, FlsOK, DevType
<1>2. CASE s.fls.currOps = "CFG_READ_LANE"
  <2> DEFINE f == [s.fls EXCEPT !.laneDone = TRUE]
             u == [s EXCEPT !.fls = f]
  <2>1. f \in FlsType(MaxLen) /\ f.errFlag = s.fls.errFlag
    BY <1>1 DEF FlsType
  <2>2. UnitDone(s) = UpdateStateDone(u)
    BY <1>2 DEF UnitDone
  <2> HIDE DEF f
  <2>3. u \in State /\ u.fls = f /\ u.eng = s.eng /\ u.bus = s.bus
    BY <1>1, <2>1, WithFls
  <2> HIDE DEF u
  <2>4. s.fls.currOps \notin {"ERASE", "WRITE"}
    BY <1>2
  <2>5. ~u.eng.run /\ u.bus.cmd = "INVALID" /\ ~u.fls.errFlag
    BY <1>1, <2>1, <2>3
  <2>6. Outcome(Ok(UpdateStateDone(u)), d, s.fls.currOps, len)
    BY <2>3, <2>4, <2>5, DoneGood
  <2> QED
    BY <2>2, <2>6
<1>3. CASE s.fls.currOps # "CFG_READ_LANE" /\ s.fls.left = 1
  <2> DEFINE f == [s.fls EXCEPT !.left = 0]
             u == [s EXCEPT !.fls = f]
  <2>1. f \in FlsType(MaxLen) /\ f.errFlag = s.fls.errFlag
    BY <1>1 DEF FlsType
  <2>2. UnitDone(s) = UpdateStateDone(u)
    BY <1>3 DEF UnitDone
  <2> HIDE DEF f
  <2>3. u \in State /\ u.fls = f /\ u.eng = s.eng /\ u.bus = s.bus
    BY <1>1, <2>1, WithFls
  <2> HIDE DEF u
  <2>4. d.units = len
    BY <1>1, <1>3 DEF Programs
  <2>5. ~u.eng.run /\ u.bus.cmd = "INVALID" /\ ~u.fls.errFlag
    BY <1>1, <2>1, <2>3
  <2>6. Outcome(Ok(UpdateStateDone(u)), d, s.fls.currOps, len)
    BY <2>3, <2>4, <2>5, DoneGood
  <2> QED
    BY <2>2, <2>6
<1>4. CASE s.fls.currOps # "CFG_READ_LANE" /\ s.fls.left > 1
  <2> DEFINE f == [s.fls EXCEPT !.left = @ - 1]
             u == [s EXCEPT !.fls = f]
  <2>1. f \in FlsType(MaxLen)
    BY <1>1, <1>4 DEF FlsType
  <2>2. /\ f.status = s.fls.status /\ f.opsRes = s.fls.opsRes
        /\ f.currOps = s.fls.currOps /\ f.errFlag = s.fls.errFlag
        /\ f.left = s.fls.left - 1
    BY <1>1, <1>4 DEF FlsType
  <2>3. UnitDone(s) = WriteEnable(u)
    <3>1. s.fls.currOps # "CFG_READ_LANE" /\ s.fls.left > 1 /\ s.fls.left # 1
      BY <1>1, <1>4
    <3> QED
      BY <3>1 DEF UnitDone
  <2> HIDE DEF f
  <2>4. u \in State /\ u.fls = f /\ u.eng = s.eng /\ u.bus = s.bus
    BY <1>1, <2>1, WithFls
  <2> HIDE DEF u
  <2>5. Open(u) /\ u.fls.left > 0
    BY <1>1, <1>4, <2>2, <2>4, WorkIsOpen DEF Unit, Open
  <2>6. Goes(u, d, len, "WE", "RS")
    <3>1. d.units + (s.fls.left - 1) = len
      BY <1>1, <1>4 DEF Programs
    <3> QED
      BY <1>1, <2>2, <2>4, <3>1 DEF Goes
  <2>7. Outcome(Ok(WriteEnable(u)), d, u.fls.currOps, len)
    BY <2>5, <2>6, WriteEnableGood
  <2> QED
    BY <2>2, <2>3, <2>4, <2>7
<1> QED
  BY <1>1, <1>2, <1>3, <1>4

LEMMA SubOpsWriteEnableGood ==
  ASSUME NEW s, Unit(s), s.fls.opsState = "WE", ~s.fls.errFlag,
         NEW d \in DevType, NEW len \in Nat, EndedGood(s, d, len),
         NEW r \in SubOpsWriteEnable(s)
  PROVE  Outcome(r, d, s.fls.currOps, len)
<1>1. s.fls \in FlsType(MaxLen) /\ FlsOK(s.fls) /\ s.fls.status = "BUSY" /\ s \in State
      /\ s.fls.opsRes = "PENDING" /\ s.fls.currOps \in Programs /\ Work(s)
  BY DEF Unit, Work, State, FlsOK
<1>2. s.fls.subState \in {"RS", "VER_WEL"}
  BY <1>1 DEF FlsOK
<1>3. s.fls.cnt \in Nat /\ LoopCount \in Nat /\ s.fls.cnt <= LoopCount
      /\ s.fls.rx \in Bits
  BY <1>1, FlashAssumption DEF FlsType
<1>4. /\ d.busy = "none" /\ (d.err => Micron)
      /\ s.fls.currOps \in {"ERASE", "WRITE"} => d.units + s.fls.left = len
      /\ s.fls.subState = "VER_WEL" /\ s.fls.rx.wel => d.wel
  BY DEF EndedGood, In
<1>5. Goes(s, d, len, "WE", "VER_WEL")
  BY <1>1, <1>4 DEF Goes
<1>6. CASE s.fls.subState = "RS"
  <2>1. r = Ok(ReadStatus(s, "VER_WEL"))
    BY <1>6 DEF SubOpsWriteEnable
  <2> QED
    BY <1>5, <2>1, ReadStatusGood
<1>7. CASE s.fls.subState = "VER_WEL" /\ s.fls.cnt >= LoopCount
  <2>1. r = Err(s)
    BY <1>3, <1>7 DEF SubOpsWriteEnable
  <2>2. ~In(s.fls, "PGM", "RS") /\ ~In(s.fls, "PGM", "WR")
    BY DEF In
  <2> QED
    BY <1>1, <2>1, <2>2, StuckGood
<1>8. CASE s.fls.subState = "VER_WEL" /\ s.fls.cnt < LoopCount /\ ~s.fls.rx.wel
  <2> DEFINE f == [s.fls EXCEPT !.cnt = @ + 1]
             u == [s EXCEPT !.fls = f]
  <2>1. f \in FlsType(MaxLen)
    BY <1>1, <1>3, <1>8 DEF FlsType
  <2>2. SameOp(f, s.fls) /\ f.left > 0
    BY <1>1 DEF FlsType, Unit, SameOp
  <2>3. r = Ok(ReadStatus(u, "VER_WEL"))
    <3>1. ~(s.fls.cnt >= LoopCount) /\ s.fls.subState # "RS"
      BY <1>3, <1>8
    <3> QED
      BY <1>8, <3>1 DEF SubOpsWriteEnable
  <2> HIDE DEF f
  <2>4. Unit(u) /\ u.fls = f
    BY <2>1, <2>2, SameUnit DEF SameOp
  <2> HIDE DEF u
  <2>5. Goes(u, d, len, "WE", "VER_WEL") /\ u.fls.opsState = "WE"
    BY <1>1, <1>4, <2>2, <2>4 DEF Goes, SameOp
  <2>6. Outcome(Ok(ReadStatus(u, "VER_WEL")), d, u.fls.currOps, len)
    BY <2>4, <2>5, ReadStatusGood
  <2> QED
    BY <2>2, <2>3, <2>4, <2>6 DEF SameOp
<1>9. CASE s.fls.subState = "VER_WEL" /\ s.fls.cnt < LoopCount /\ s.fls.rx.wel
  <2> DEFINE f == [s.fls EXCEPT !.cnt = 0]
             u == [s EXCEPT !.fls = f]
  <2>1. f \in FlsType(MaxLen)
    BY <1>1, <1>3 DEF FlsType
  <2>2. SameOp(f, s.fls) /\ f.left > 0
    BY <1>1 DEF FlsType, Unit, SameOp
  <2>3. r = Ok(StartUnit(u))
    <3>1. ~(s.fls.cnt >= LoopCount) /\ s.fls.subState # "RS"
      BY <1>3, <1>9
    <3> QED
      BY <1>9, <3>1 DEF SubOpsWriteEnable
  <2> HIDE DEF f
  <2>4. Unit(u) /\ u.fls = f
    BY <2>1, <2>2, SameUnit DEF SameOp
  <2> HIDE DEF u
  <2>5. Goes(u, d, len, "PGM", "RS") /\ Goes(u, d, len, "PGM", "WR")
    BY <1>1, <1>4, <1>9, <2>2, <2>4 DEF Goes, SameOp
  <2>6. Outcome(Ok(StartUnit(u)), d, u.fls.currOps, len)
    BY <2>4, <2>5, StartUnitGood
  <2> QED
    BY <2>2, <2>3, <2>4, <2>6 DEF SameOp
<1> QED
  BY <1>2, <1>3, <1>6, <1>7, <1>8, <1>9

LEMMA SubOpsProgramGood ==
  ASSUME NEW s, Unit(s), s.fls.opsState = "PGM", ~s.fls.errFlag,
         NEW d \in DevType, NEW len \in Nat, EndedGood(s, d, len),
         NEW r \in SubOpsProgram(s)
  PROVE  Outcome(r, d, s.fls.currOps, len)
<1>1. s.fls \in FlsType(MaxLen) /\ FlsOK(s.fls) /\ s.fls.status = "BUSY" /\ s \in State
      /\ s.fls.opsRes = "PENDING" /\ s.fls.currOps \in Programs /\ Work(s)
      /\ s.fls.left > 0
  BY DEF Unit, Work, State, FlsOK
<1>2. s.fls.subState \in {"WR", "RS", "VER_WIP", "VER_PES"} /\ s.fls.rx \in Bits
      /\ s.fls.wip \in BOOLEAN
  BY <1>1 DEF FlsOK, FlsType
<1>3. /\ (d.err => Micron) /\ ~s.eng.run
      /\ d.busy # "none" => s.fls.subState \in {"RS", "VER_WIP", "VER_PES"}
      /\ d.busy = "WRSR" => s.fls.currOps = "CFG_READ_LANE"
      /\ s.fls.subState = "VER_WIP" /\ ~s.fls.rx.wip => d.busy = "none"
      /\ s.fls.subState = "VER_PES" /\ ~s.fls.wip => d.busy = "none"
      /\ s.fls.subState = "VER_PES" /\ ~s.fls.wip /\ d.err => s.fls.rx.err
      /\ s.fls.subState = "WR" => d.wel
      /\ s.fls.currOps \in {"ERASE", "WRITE"} =>
           d.units + s.fls.left =
             IF s.fls.subState = "WR" \/ d.busy # "none" \/ d.err THEN len ELSE len + 1
  BY DEF EndedGood, In
<1>4. s.fls.subState # "WR" => Goes(s, d, len, "PGM", "VER_WIP")
  BY <1>1, <1>3 DEF Goes
<1>5. CASE s.fls.subState = "WR"
  <2> DEFINE w == Xfer(Goto(s, "PGM", "RS"), "DATA", DataChunks)
  <2>1. r = Ok(w)
    BY <1>5 DEF SubOpsProgram
  <2>2. Work(Goto(s, "PGM", "RS"))
    BY <1>1, GotoWork, WorkIsOpen
  <2>3. w \in State
    BY <2>2, GoingXfer, FlashAssumption DEF Commands, Going, Driver
  <2>4. Suits(s, "DATA", DataChunks, "PGM", "RS")
    BY FlashAssumption DEF Suits, OpOfState, In, Commands
  <2>5. Goes(s, d, len, "PGM", "RS")
    BY <1>1, <1>3, <1>5 DEF Goes
  <2>6. Outcome(Ok(w), d, s.fls.currOps, len)
    BY <1>1, <2>3, <2>4, <2>5, XferGood
  <2> QED
    BY <2>1, <2>6
<1>6. CASE s.fls.subState = "RS"
  <2>1. r = Ok(ReadStatus(s, "VER_WIP"))
    BY <1>6 DEF SubOpsProgram
  <2> QED
    BY <1>4, <1>6, <2>1, ReadStatusGood
<1>7. CASE s.fls.subState = "VER_WIP"
  <2> DEFINE f == [s.fls EXCEPT !.wip = s.fls.rx.wip]
             u == [s EXCEPT !.fls = f]
             w == Xfer(Goto(u, "PGM", "VER_PES"), "RFSR", 1)
  <2>1. f \in FlsType(MaxLen)
    BY <1>1, <1>2 DEF FlsType, Bits
  <2>2. SameOp(f, s.fls) /\ f.wip = s.fls.rx.wip
    BY <1>1 DEF FlsType, SameOp
  <2>3. \/ Micron /\ r = Ok(w)
        \/ ~Micron /\ u.fls.wip /\ r = Ok(ReadStatus(u, "VER_WIP"))
        \/ ~Micron /\ ~u.fls.wip /\ r = Ok(UnitDone(u))
    BY <1>7 DEF SubOpsProgram
  <2> HIDE DEF f
  <2>4. Unit(u) /\ u.fls = f
    BY <1>1, <2>1, <2>2, SameUnit DEF SameOp
  <2>5. u.eng = s.eng /\ u \in State
    BY <1>1, <2>1, WithFls
  <2> HIDE DEF u
  <2>6. CASE Micron /\ r = Ok(w)
    <3>1. Work(Goto(u, "PGM", "VER_PES"))
      BY <2>4, GotoWork, WorkIsOpen DEF Unit
    <3>2. w \in State
      BY <3>1, GoingXfer DEF Commands, Going, Driver
    <3>3. Suits(u, "RFSR", 1, "PGM", "VER_PES")
      BY DEF Suits, OpOfState, In, Commands
    <3>4. Goes(u, d, len, "PGM", "VER_PES")
      BY <1>1, <1>3, <1>7, <2>2, <2>4 DEF Goes, SameOp
    <3>5. Outcome(Ok(w), d, u.fls.currOps, len)
      BY <2>5, <3>2, <3>3, <3>4, XferGood
    <3> QED
      BY <2>2, <2>4, <2>6, <3>5 DEF SameOp
  <2>7. CASE r = Ok(ReadStatus(u, "VER_WIP"))
    <3>1. Goes(u, d, len, "PGM", "VER_WIP") /\ u.fls.opsState = "PGM"
      BY <1>1, <1>3, <1>7, <2>2, <2>4 DEF Goes, SameOp
    <3>2. Outcome(Ok(ReadStatus(u, "VER_WIP")), d, u.fls.currOps, len)
      BY <2>4, <3>1, ReadStatusGood
    <3> QED
      BY <2>2, <2>4, <2>7, <3>2 DEF SameOp
  <2>8. CASE ~Micron /\ ~u.fls.wip /\ r = Ok(UnitDone(u))
    <3>1. d.busy = "none" /\ ~d.err /\ ~u.eng.run /\ ~u.fls.errFlag
          /\ (u.fls.currOps \in {"ERASE", "WRITE"} => d.units + u.fls.left = len + 1)
      BY <1>3, <1>7, <2>2, <2>4, <2>5, <2>8 DEF SameOp
    <3>2. Outcome(Ok(UnitDone(u)), d, u.fls.currOps, len)
      BY <2>4, <3>1, UnitDoneGood
    <3> QED
      BY <2>2, <2>4, <2>8, <3>2 DEF SameOp
  <2> QED
    BY <2>3, <2>6, <2>7, <2>8
<1>8. CASE s.fls.subState = "VER_PES"
  <2>1. \/ r = Err(s)
        \/ ~s.fls.rx.err /\ ~s.fls.wip /\ r = Ok(UnitDone(s))
        \/ r = Ok(ReadStatus(s, "VER_WIP"))
    BY <1>8 DEF SubOpsProgram
  <2>2. CASE r = Err(s)
    <3>1. ~In(s.fls, "PGM", "RS") /\ ~In(s.fls, "PGM", "WR")
      BY <1>8 DEF In
    <3> QED
      BY <1>1, <2>2, <3>1, StuckGood
  <2>3. CASE ~s.fls.rx.err /\ ~s.fls.wip /\ r = Ok(UnitDone(s))
    <3>1. d.busy = "none" /\ ~d.err
          /\ (s.fls.currOps \in {"ERASE", "WRITE"} => d.units + s.fls.left = len + 1)
      BY <1>3, <1>8, <2>3
    <3>2. Outcome(Ok(UnitDone(s)), d, s.fls.currOps, len)
      BY <1>3, <3>1, UnitDoneGood
    <3> QED
      BY <2>3, <3>2
  <2>4. CASE r = Ok(ReadStatus(s, "VER_WIP"))
    BY <1>4, <1>8, <2>4, ReadStatusGood
  <2> QED
    BY <2>1, <2>2, <2>3, <2>4
<1> QED
  BY <1>2, <1>5, <1>6, <1>7, <1>8

\* A read is under way, has ended, or did not start.
LEMMA ReadGood ==
  ASSUME NEW t, NEW d, NEW len,
         t.fls.status = "BUSY", t.fls.opsState \in {"CMP", "DONE"},
         t.fls.currOps \in {"READ", "COMPARE"}, RdIrqs = 1,
         t.bus.cmd = "READ", ~t.eng.run, t.eng.todo <= 1,
         ~Quiet(t.eng) => ~t.fls.errFlag, d.busy = "none", d.err => Micron
  PROVE  Good(t, d, len)
<1>1. BusGood(t)
  BY DEF BusGood, Ended
<1>2. ChipGood(t, d)
  BY DEF ChipGood, Ended, Sending, In
<1>3. UnitsGood(t, d, len)
  BY DEF UnitsGood, BusyWith
<1> QED
  BY <1>1, <1>2, <1>3 DEF Good

\* FLASH_QSPIReadInternal, when a read or a page of a compare begins.
Reading(s, d) ==
  /\ Work(s) /\ s.bus.cmd = "INVALID" /\ ~s.eng.run /\ ~s.fls.errFlag
  /\ s.fls.opsState \in {"CMP", "DONE"} /\ s.fls.currOps \in {"READ", "COMPARE"}
  /\ RdIrqs = 1 /\ d.busy = "none" /\ (d.err => Micron)

LEMMA BusReadGood ==
  ASSUME NEW s, NEW d, NEW len, Reading(s, d), NEW r \in BusRead(s)
  PROVE  Outcome(r, d, s.fls.currOps, len) /\ Good(r.s, d, len)
<1> USE DEF Reading
<1>1. s \in State /\ s.eng \in EngType /\ s.bus \in BusType /\ s.fls.status = "BUSY"
      /\ s.fls.opsRes = "PENDING" /\ s.faults \in 0 .. MaxFaults
  BY DEF Work, State, FlsOK
<1> DEFINE b == [s.bus EXCEPT !.cmd = "READ", !.rem = RdIrqs]
           e == [s.eng EXCEPT !.fifo = 0, !.todo = RdIrqs]
           t == [s EXCEPT !.bus = b]
<1>2. b.cmd = "READ"
  BY <1>1 DEF BusType
<1>3. e.todo = RdIrqs /\ e.run = s.eng.run
  BY <1>1 DEF EngType
<1>4. BusRead(s) = {Ok([t EXCEPT !.eng = e])} \cup Failures(t, "rdstart")
  BY <1>1 DEF BusRead, State
<1> HIDE DEF b, e
<1>5. t.bus = b /\ t.eng = s.eng /\ t.fls = s.fls /\ t.faults = s.faults
      /\ DOMAIN t = {"fls", "bus", "eng", "faults", "ind"}
  BY <1>1 DEF State
<1> HIDE DEF t
<1>6. /\ r.ok \in BOOLEAN /\ r.s \in State /\ r.s.fls = s.fls
      /\ r.ok \/ Quiet(r.s.eng)
  BY BusReadStep DEF Going, Driver
<1>7. /\ r.s.bus = b /\ ~r.s.eng.run /\ r.s.eng.todo <= 1
  <2>1. CASE r = Ok([t EXCEPT !.eng = e])
    <3>1. r.s = [t EXCEPT !.eng = e]
      BY <2>1 DEF Ok
    <3>2. r.s.bus = b /\ r.s.eng = e
      BY <1>5, <3>1
    <3> QED
      BY <1>3, <3>2
  <2>2. CASE r \in Failures(t, "rdstart")
    <3>1. r = Err([t EXCEPT !.faults = @ - 1])
      BY <2>2 DEF Failures
    <3>2. r.ok = FALSE /\ r.s = [t EXCEPT !.faults = @ - 1]
      BY <3>1 DEF Err
    <3>3. r.s.bus = b /\ r.s.eng = s.eng
      BY <1>5, <3>2
    <3>4. r.s.eng.todo = 0
      BY <1>6, <3>2 DEF Quiet
    <3> QED
      BY <3>3, <3>4
  <2> QED
    BY <1>4, <2>1, <2>2
<1> DEFINE v == Indicate(r)
<1>8. Told(v, r)
  BY <1>6, IndicateFields
<1> HIDE DEF v
<1>9. Good(r.s, d, len)
  BY <1>1, <1>2, <1>6, <1>7, ReadGood
<1>10. Good(v, d, len)
  <2>1. /\ v.fls.status = "BUSY" /\ v.fls.opsState \in {"CMP", "DONE"}
        /\ v.fls.currOps \in {"READ", "COMPARE"} /\ v.bus.cmd = "READ"
        /\ ~v.eng.run /\ v.eng.todo <= 1
        /\ ~Quiet(v.eng) => ~v.fls.errFlag
    BY <1>1, <1>2, <1>6, <1>7, <1>8 DEF Told
  <2> QED
    BY <2>1, ReadGood
<1> QED
  BY <1>1, <1>6, <1>9, <1>10 DEF Outcome, v

LEMMA CompareReadGood ==
  ASSUME NEW s, NEW d, NEW len, Open(s), s.fls.left > 0,
         s.bus.cmd = "INVALID", ~s.eng.run, ~s.fls.errFlag, s.fls.currOps \in {"READ", "COMPARE"},
         RdIrqs = 1, d.busy = "none", d.err => Micron, NEW r \in CompareRead(s)
  PROVE  Outcome(r, d, s.fls.currOps, len) /\ Good(r.s, d, len)
<1> DEFINE f == [s.fls EXCEPT !.left = @ - 1, !.opsState = "CMP", !.subState = "NONE"]
           u == [s EXCEPT !.fls = f]
<1>1. s \in State /\ s.fls \in FlsType(MaxLen) /\ s.fls.status = "BUSY"
      /\ s.fls.opsRes = "PENDING" /\ s.fls.currOps # "NONE"
      /\ Quiet(s.eng) /\ s.fls.left \in Nat /\ s.fls.left <= MaxLen /\ MaxLen \in Nat
  BY RequestAssumption DEF Open, State, FlsType
<1>2. f \in FlsType(MaxLen)
  <2> DEFINE n == s.fls.left - 1
  <2>1. n \in 0 .. MaxLen
    BY <1>1
  <2>2. f = [s.fls EXCEPT !.left = n, !.opsState = "CMP", !.subState = "NONE"]
    OBVIOUS
  <2> HIDE DEF n, f
  <2> QED
    BY <1>1, <2>1, <2>2 DEF FlsType
<1>3. /\ f.status = s.fls.status /\ f.opsRes = s.fls.opsRes
      /\ f.currOps = s.fls.currOps /\ f.opsState = "CMP" /\ f.errFlag = s.fls.errFlag
  BY <1>1 DEF FlsType
<1>4. Goto([s EXCEPT !.fls.left = @ - 1], "CMP", "NONE") = u
  BY <1>1 DEF Goto, State, FlsType
<1> HIDE DEF f
<1>5. u \in State /\ u.fls = f /\ u.eng = s.eng /\ u.bus = s.bus
  BY <1>1, <1>2, WithFls
<1> HIDE DEF u
<1>6. FlsOK(f) /\ f.opsRes = "PENDING"
  BY <1>1, <1>3 DEF FlsOK
<1>7. Reading(u, d)
  BY <1>1, <1>3, <1>5, <1>6 DEF Reading, Work
<1>8. r \in BusRead(u)
  BY <1>4 DEF CompareRead
<1>9. Outcome(r, d, u.fls.currOps, len) /\ Good(r.s, d, len)
  BY <1>7, <1>8, BusReadGood
<1> QED
  BY <1>3, <1>5, <1>9

\* FLASH_OpsHandler
LEMMA OpsHandlerGood ==
  ASSUME NEW s, Work(s), NEW d \in DevType, NEW len \in Nat, EndedGood(s, d, len),
         NEW r \in OpsHandler(s)
  PROVE  Outcome(r, d, s.fls.currOps, len)
<1>1. s \in State /\ s.fls \in FlsType(MaxLen) /\ FlsOK(s.fls) /\ s.fls.status = "BUSY"
      /\ Quiet(s.eng) /\ s.fls.left \in Nat /\ s.bus.cmd = "INVALID" /\ ~s.eng.run
      /\ (d.err => Micron) /\ s.fls.opsState \in {"WE", "PGM", "CMP", "DONE"}
  BY RequestAssumption DEF Work, State, FlsType, EndedGood, FlsOK
<1>2. CASE s.fls.errFlag
  <2>1. r = Ok(UpdateStateError(s))
    BY <1>2 DEF OpsHandler
  <2>2. d.busy = "none"
    BY <1>2 DEF EndedGood
  <2> QED
    BY <1>1, <2>1, <2>2, ErrorGood
<1>3. CASE ~s.fls.errFlag /\ s.fls.opsState = "WE"
  <2>1. Unit(s) /\ r \in SubOpsWriteEnable(s)
    BY <1>1, <1>3 DEF Unit, FlsOK, OpsHandler
  <2> QED
    BY <1>3, <2>1, SubOpsWriteEnableGood
<1>4. CASE ~s.fls.errFlag /\ s.fls.opsState = "PGM"
  <2>1. Unit(s) /\ r \in SubOpsProgram(s)
    BY <1>1, <1>4 DEF Unit, FlsOK, OpsHandler
  <2> QED
    BY <1>4, <2>1, SubOpsProgramGood
<1>5. ASSUME ~s.fls.errFlag, s.fls.opsState \in {"CMP", "DONE"}
      PROVE  /\ d.busy = "none" /\ s.fls.currOps \in {"READ", "COMPARE"} /\ RdIrqs = 1
             /\ Outcome(Ok(UpdateStateDone(s)), d, s.fls.currOps, len)
             /\ Outcome(Ok(UpdateStateError(s)), d, s.fls.currOps, len)
  <2>1. d.busy = "none" /\ s.fls.currOps \in {"READ", "COMPARE"} /\ RdIrqs = 1
    BY <1>5 DEF EndedGood
  <2>2. s.fls.currOps \notin {"ERASE", "WRITE"}
    BY <2>1
  <2> QED
    BY <1>1, <1>5, <2>1, <2>2, DoneGood, ErrorGood
<1>6. CASE ~s.fls.errFlag /\ s.fls.opsState = "CMP"
  <2>1. r \in ComparePage(s)
    BY <1>6 DEF OpsHandler
  <2>2. CASE r \in {Ok(UpdateStateError(s)), Ok(UpdateStateDone(s))}
    BY <1>5, <1>6, <2>2
  <2>3. CASE s.fls.left > 0 /\ r \in CompareRead(s)
    BY <1>1, <1>5, <1>6, <2>3, CompareReadGood, WorkIsOpen
  <2> QED
    BY <2>1, <2>2, <2>3 DEF ComparePage
<1>7. CASE ~s.fls.errFlag /\ s.fls.opsState = "DONE"
  <2>1. r = Ok(UpdateStateDone(s))
    BY <1>7 DEF OpsHandler
  <2> QED
    BY <1>5, <1>7, <2>1
<1> QED
  BY <1>1, <1>2, <1>3, <1>4, <1>6, <1>7

----------------------------------------------------------------------------
(* The calls of the driver.                                                *)

\* The transfer that the state of the operation waits for.
LEMMA OpOf ==
  ASSUME NEW f, NEW op \in Commands, OpOfState(f, op)
  PROVE  /\ In(f, "WE", "VER_WEL") => op = "RDSR"
         /\ In(f, "PGM", "VER_WIP") => op = "RDSR"
         /\ In(f, "PGM", "VER_PES") => op = "RFSR"
         /\ In(f, "PGM", "WR") => op = "PP"
         /\ In(f, "PGM", "RS") => op \in {"SE", "DATA", "WRSR"}
         /\ op = "WRSR" => In(f, "PGM", "RS")
BY DEF OpOfState, In, Commands

\* A transfer that has ended is the last one, or the next one begins.
LEMMA XferEndedGood ==
  ASSUME NEW s, Driver(s), NEW d \in DevType, NEW len \in Nat, Good(s, d, len), Ended(s)
  PROVE  LET t == XferStateHandler(s) IN
         /\ t \in State /\ SameOp(t.fls, s.fls)
         /\ \/ EndedGood(t, d, len) /\ t.bus.cmd = "INVALID"
            \/ Good(t, d, len) /\ t.bus.cmd # "INVALID"
<1>1. /\ s \in State /\ s.fls \in FlsType(MaxLen) /\ FlsOK(s.fls) /\ BusOK(s)
      /\ s.bus \in BusType /\ s.eng \in EngType /\ s.bus.rem \in Nat /\ s.fls.rx \in Bits
      /\ s.eng.rx \in Bits /\ s.bus.op \in Commands /\ s.fls.status = "BUSY"
  BY DEF Driver, State, BusType, EngType, BusOK, Ended, FlsType
<1>2. BusGood(s) /\ ChipGood(s, d) /\ UnitsGood(s, d, len) /\ s.eng.spif
      /\ s.bus.cmd = "XFER" /\ ~s.eng.run
  BY DEF Good, BusGood, Ended
<1> DEFINE e == [s.eng EXCEPT !.spif = FALSE]
           x == IF s.bus.op \in {"RDSR", "RFSR"} THEN s.eng.rx ELSE s.fls.rx
           f == [s.fls EXCEPT !.rx = x]
           t == [s EXCEPT !.eng = e, !.fls = f]
<1>3. e \in EngType /\ e.run = s.eng.run
  BY <1>1 DEF EngType
<1>4. x \in Bits
  BY <1>1
<1>5. XferReadData(s) = t
  BY <1>1, <1>2 DEF XferReadData, State
<1>6. s.bus.op \in {"RDSR", "RFSR"} => x = s.eng.rx
  OBVIOUS
<1> HIDE DEF x
<1>7. f \in FlsType(MaxLen) /\ SameOp(f, s.fls) /\ f.rx = x /\ f.wip = s.fls.wip
  BY <1>1, <1>4 DEF FlsType, SameOp
<1> HIDE DEF e, f
<1>8. t \in State /\ t.fls = f /\ t.eng = e /\ t.bus = s.bus
  BY <1>1, <1>3, <1>7 DEF State
<1>9. XferStateHandler(s) =
        IF s.bus.rem = 0 THEN [t EXCEPT !.bus.cmd = "INVALID"]
        ELSE XferStart([t EXCEPT !.bus.rem = @ - 1], s.bus.op, s.bus.rem = 1)
  BY <1>5 DEF XferStateHandler
<1> HIDE DEF t
<1>10. CASE s.bus.rem = 0
  <2> DEFINE b == [t.bus EXCEPT !.cmd = "INVALID"]
             v == [t EXCEPT !.bus = b]
  <2>1. b \in BusType /\ b.cmd = "INVALID"
    BY <1>1, <1>8 DEF BusType
  <2>2. XferStateHandler(s) = v
    BY <1>9, <1>10
  <2> HIDE DEF b
  <2>3. v \in State /\ v.bus = b /\ v.fls = f /\ v.eng = e
    BY <1>8, <2>1 DEF State
  <2> HIDE DEF v
  <2>4. /\ v.fls.opsState = s.fls.opsState /\ v.fls.subState = s.fls.subState
        /\ v.fls.currOps = s.fls.currOps /\ v.fls.left = s.fls.left
        /\ v.fls.wip = s.fls.wip /\ v.fls.rx = x /\ v.fls.errFlag = s.fls.errFlag
        /\ ~v.eng.run /\ v.bus.cmd = "INVALID"
    BY <1>2, <1>3, <1>7, <2>1, <2>3 DEF SameOp
  <2>5. ~s.fls.errFlag /\ OpOfState(s.fls, s.bus.op)
    BY <1>2 DEF BusGood
  <2>6. /\ In(s.fls, "WE", "VER_WEL") => s.bus.op = "RDSR"
        /\ In(s.fls, "PGM", "VER_WIP") => s.bus.op = "RDSR"
        /\ In(s.fls, "PGM", "VER_PES") => s.bus.op = "RFSR"
    BY <1>1, <2>5, OpOf
  <2>7. /\ In(s.fls, "WE", "VER_WEL") /\ x.wel => d.wel
        /\ In(s.fls, "PGM", "VER_WIP") /\ ~x.wip => d.busy = "none"
        /\ In(s.fls, "PGM", "VER_PES") /\ ~s.fls.wip /\ d.err => x.err
    BY <1>2, <1>6, <2>6 DEF ChipGood, Ended
  <2>8. s.fls.opsState \in {"WE", "PGM"}
    BY <1>1, <2>5 DEF OpOfState, In, Commands
  <2>9. EndedGood(v, d, len)
    <3>1. Sending(s) <=> In(s.fls, "PGM", "WR")
      BY <1>1, <1>2, <1>10 DEF Sending
    <3>2. /\ d.busy # "none" => /\ v.fls.opsState = "PGM"
                                /\ v.fls.subState \in {"RS", "VER_WIP", "VER_PES"}
          /\ d.busy = "WRSR" => v.fls.currOps = "CFG_READ_LANE"
          /\ In(v.fls, "PGM", "WR") => d.wel
          /\ In(v.fls, "PGM", "VER_PES") /\ ~v.fls.wip => d.busy = "none"
          /\ d.err => Micron
      BY <1>1, <1>2, <2>4, <3>1 DEF ChipGood, In
    <3>3. v.fls.currOps \in {"ERASE", "WRITE"} =>
            d.units + v.fls.left =
              IF v.fls.opsState = "WE" \/ In(v.fls, "PGM", "WR") \/ d.busy # "none" \/ d.err
              THEN len ELSE len + 1
      BY <1>1, <1>2, <2>4, <3>1 DEF UnitsGood, BusyWith, In
    <3>4. /\ In(v.fls, "WE", "VER_WEL") /\ v.fls.rx.wel => d.wel
          /\ In(v.fls, "PGM", "VER_WIP") /\ ~v.fls.rx.wip => d.busy = "none"
          /\ In(v.fls, "PGM", "VER_PES") /\ ~v.fls.wip /\ d.err => v.fls.rx.err
      BY <2>4, <2>7 DEF In
    <3> QED
      BY <2>4, <2>5, <2>8, <3>2, <3>3, <3>4 DEF EndedGood
  <2> QED
    BY <1>7, <2>2, <2>3, <2>4, <2>9
<1>11. CASE s.bus.rem # 0
  <2> DEFINE b == [t.bus EXCEPT !.rem = @ - 1]
             u == [t EXCEPT !.bus = b]
  <2>1. b \in BusType /\ b.cmd = "XFER" /\ b.rem = s.bus.rem - 1 /\ b.op = s.bus.op
    BY <1>1, <1>2, <1>8, <1>11 DEF BusType
  <2>2. [t EXCEPT !.bus.rem = @ - 1] = u
    OBVIOUS
  <2> HIDE DEF b
  <2>3. u \in State /\ u.bus = b /\ u.fls = f /\ u.eng = e
    BY <1>8, <2>1 DEF State
  <2>4. PICK last \in BOOLEAN : last = (s.bus.rem = 1)
    OBVIOUS
  <2> DEFINE g == [u.eng EXCEPT !.run = TRUE, !.spif = FALSE, !.op = s.bus.op, !.last = last]
             v == [u EXCEPT !.eng = g]
  <2>5. XferStateHandler(s) = v
    BY <1>9, <1>11, <2>2, <2>4 DEF XferStart
  <2>6. g \in EngType /\ g.run /\ g.op = s.bus.op /\ g.last = last
    BY <1>1, <1>3, <2>3 DEF EngType
  <2> HIDE DEF u, g
  <2>7. v \in State /\ v.eng = g /\ v.bus = b /\ v.fls = f
    BY <2>3, <2>6 DEF State
  <2> HIDE DEF v
  <2>8. /\ v.fls.opsState = s.fls.opsState /\ v.fls.subState = s.fls.subState
        /\ v.fls.currOps = s.fls.currOps /\ v.fls.left = s.fls.left
        /\ v.fls.wip = s.fls.wip /\ v.fls.errFlag = s.fls.errFlag
        /\ v.fls.status = "BUSY"
        /\ v.eng.run /\ v.eng.op = s.bus.op /\ (v.eng.last <=> s.bus.rem = 1)
        /\ v.bus.cmd = "XFER" /\ v.bus.op = s.bus.op /\ v.bus.rem = s.bus.rem - 1
    BY <1>1, <1>7, <2>1, <2>4, <2>6, <2>7 DEF SameOp
  <2>9. /\ ~s.fls.errFlag /\ OpOfState(s.fls, s.bus.op) /\ s.bus.op = "DATA"
        /\ In(s.fls, "PGM", "RS")
    BY <1>2, <1>11 DEF BusGood, OpOfState
  <2>10. Sending(s) /\ Sending(v)
    BY <1>1, <1>11, <2>8, <2>9 DEF Sending, In
  <2>11. BusGood(v)
    <3>1. OpOfState(v.fls, v.bus.op)
      BY <2>8, <2>9 DEF OpOfState, In
    <3>2. v.eng.last <=> v.bus.rem = 0
      BY <1>1, <2>8
    <3> QED
      BY <2>8, <2>9, <3>1, <3>2 DEF BusGood, Ended, In
  <2>12. ChipGood(v, d)
    <3>1. d.wel /\ d.busy = "none" /\ (d.err => Micron)
      BY <1>2, <2>10 DEF ChipGood
    <3> QED
      BY <2>8, <3>1 DEF ChipGood, Ended
  <2>13. UnitsGood(v, d, len)
    BY <1>1, <1>2, <2>8, <2>10 DEF UnitsGood, BusyWith
  <2>14. Good(v, d, len) /\ v.bus.cmd # "INVALID"
    BY <2>8, <2>11, <2>12, <2>13 DEF Good
  <2> QED
    BY <1>7, <2>5, <2>7, <2>14
<1> QED
  BY <1>10, <1>11

LEMMA ReadStopRun ==
  ASSUME NEW s \in State, NEW r \in ReadStop(s)
  PROVE  r.s.eng.run = s.eng.run
<1> DEFINE b == [s.bus EXCEPT !.cmd = "INVALID"]
           e == [s.eng EXCEPT !.todo = 0, !.fifo = 0]
           t == [s EXCEPT !.bus = b, !.eng = e]
<1>1. e.run = s.eng.run
  BY DEF State, EngType
<1>2. ReadStop(s) = {Ok(t)} \cup Failures(t, "rdstop")
  BY DEF ReadStop, State, BusType, EngType
<1> HIDE DEF b, e
<1>3. t.eng = e /\ DOMAIN t = {"fls", "bus", "eng", "faults", "ind"}
  BY DEF State
<1> HIDE DEF t
<1>4. CASE r = Ok(t)
  BY <1>1, <1>3, <1>4 DEF Ok
<1>5. CASE r \in Failures(t, "rdstop")
  <2>1. r = Err([t EXCEPT !.faults = @ - 1])
    BY <1>5 DEF Failures
  <2>2. r.s = [t EXCEPT !.faults = @ - 1]
    BY <2>1 DEF Err
  <2>3. r.s.eng = e
    BY <1>3, <2>2
  <2> QED
    BY <1>1, <2>3
<1> QED
  BY <1>2, <1>4, <1>5

\* An event of the bus interrupt finds the transfer it is about.
Due(s) == Ended(s) \/ (s.bus.cmd = "READ" /\ s.eng.todo = 0 /\ s.eng.fifo > 0)

\* The bus goes on, or the operation has to.
LEMMA BusHandlerGood ==
  ASSUME NEW s, Driver(s), NEW d \in DevType, NEW len \in Nat, Good(s, d, len), Due(s),
         NEW r \in BusStateHandler(s, s.fls.errFlag)
  PROVE  /\ r.ok \in BOOLEAN /\ r.s \in State /\ SameOp(r.s.fls, s.fls)
         /\ \/ r.ok /\ r.s.bus.cmd # "INVALID" /\ Good(r.s, d, len)
            \/ /\ r.s.bus.cmd = "INVALID" /\ Quiet(r.s.eng) /\ EndedGood(r.s, d, len)
               /\ r.ok \/ s.fls.opsState \in {"CMP", "DONE"}
<1>1. /\ s \in State /\ s.fls \in FlsType(MaxLen) /\ FlsOK(s.fls) /\ BusOK(s)
      /\ s.bus \in BusType /\ s.eng \in EngType /\ s.fls.status = "BUSY"
      /\ s.bus.cmd \in {"XFER", "READ"} /\ s.bus.rem \in Nat /\ s.eng.fifo \in Nat
      /\ s.eng.todo \in Nat
  BY DEF Driver, State, BusType, EngType, BusOK, Due, Ended
<1>2. BusGood(s) /\ ChipGood(s, d)
  BY DEF Good
<1>3. s.fls.errFlag = FALSE
  <2>1. s.fls.errFlag \in BOOLEAN
    BY <1>1 DEF FlsType
  <2>2. ~s.fls.errFlag
    BY <1>1, <1>2 DEF BusGood, Due, Ended, Quiet
  <2> QED
    BY <2>1, <2>2
<1>4. r \in BusStateHandler(s, FALSE)
  BY <1>3
<1>5. CASE s.bus.cmd = "XFER"
  <2> DEFINE t == XferStateHandler(s)
  <2>1. r = Ok(t)
    BY <1>4, <1>5 DEF BusStateHandler
  <2>2. r.ok = TRUE /\ r.s = t
    BY <2>1 DEF Ok
  <2>3. Ended(s)
    BY <1>5 DEF Due
  <2>4. /\ t \in State /\ SameOp(t.fls, s.fls)
        /\ \/ EndedGood(t, d, len) /\ t.bus.cmd = "INVALID"
           \/ Good(t, d, len) /\ t.bus.cmd # "INVALID"
    BY <2>3, XferEndedGood
  <2>5. r.s.bus.cmd = "INVALID" => Quiet(r.s.eng)
    <3>1. (r.s.bus.cmd = "INVALID" /\ Quiet(r.s.eng)) \/ (r.ok /\ Driver(r.s) /\ Started(r.s))
      BY <1>4, <1>5, BusStateHandlerStep
    <3> QED
      BY <3>1 DEF Driver, BusOK
  <2> HIDE DEF t
  <2> QED
    BY <2>2, <2>4, <2>5
<1>6. CASE s.bus.cmd = "READ"
  <2>1. s.eng.todo = 0 /\ s.eng.fifo > 0 /\ s.bus.rem = s.eng.fifo /\ ~s.eng.run
    BY <1>1, <1>2, <1>6 DEF Due, Ended, BusOK, Quiet, BusGood
  <2> DEFINE b == [s.bus EXCEPT !.rem = @ - s.eng.fifo]
             e == [s.eng EXCEPT !.fifo = 0]
             t == [s EXCEPT !.bus = b, !.eng = e]
  <2>2. b \in BusType /\ b.rem = 0
    BY <1>1, <2>1 DEF BusType
  <2>3. e \in EngType /\ e.run = s.eng.run
    BY <1>1 DEF EngType
  <2>4. r \in IF t.bus.rem = 0 THEN ReadStop(t) ELSE {Ok(t)}
    BY <1>1, <1>4, <1>6 DEF BusStateHandler, ReadStateHandler, State
  <2> HIDE DEF b, e
  <2>5. t \in State /\ t.bus = b /\ t.eng = e /\ t.fls = s.fls
    BY <1>1, <2>2, <2>3 DEF State
  <2> HIDE DEF t
  <2>6. r \in ReadStop(t)
    BY <2>2, <2>4, <2>5
  <2>7. /\ r.ok \in BOOLEAN /\ r.s \in State /\ r.s.fls = s.fls
        /\ r.s.bus.cmd = "INVALID" /\ Quiet(r.s.eng) /\ ~r.s.eng.run
    <3>1. /\ r.ok \in BOOLEAN /\ r.s \in State /\ r.s.fls = t.fls
          /\ r.s.bus.cmd = "INVALID" /\ Quiet(r.s.eng)
      BY <2>5, <2>6, ReadStopStep
    <3>2. r.s.eng.run = t.eng.run
      BY <2>5, <2>6, ReadStopRun
    <3> QED
      BY <2>1, <2>3, <2>5, <3>1, <3>2
  <2>8. /\ s.fls.opsState \in {"CMP", "DONE"} /\ s.fls.currOps \in {"READ", "COMPARE"}
        /\ RdIrqs = 1
    BY <1>1, <1>2, <1>6 DEF BusGood
  <2>9. d.busy = "none" /\ (d.err => Micron)
    BY <1>2, <2>8 DEF ChipGood
  <2>10. EndedGood(r.s, d, len)
    BY <2>7, <2>8, <2>9 DEF EndedGood, In
  <2> QED
    BY <2>7, <2>8, <2>10 DEF SameOp
<1> QED
  BY <1>1, <1>5, <1>6

\* FLASH_StateHandler
LEMMA StateHandlerGood ==
  ASSUME NEW s, Driver(s), NEW d \in DevType, NEW len \in Nat, Good(s, d, len), Due(s),
         NEW t \in StateHandler(s)
  PROVE  /\ Good(t, d, len)
         /\ t.fls.status = "BUSY" => t.fls.currOps = s.fls.currOps
         /\ t.fls.opsRes = "OK" /\ s.fls.currOps \in {"ERASE", "WRITE"} => d.units = len
<1>1. /\ s \in State /\ FlsOK(s.fls) /\ s.fls.status = "BUSY" /\ IsBusBusy(s)
      /\ s.fls.currOps # "NONE" /\ s.fls.opsRes = "PENDING"
  BY DEF Driver, BusOK, FlsOK, Due, Ended, IsBusBusy
<1>2. PICK b \in BusStateHandler(s, s.fls.errFlag) :
        t \in IF b.ok /\ IsBusBusy(b.s) THEN {b.s}
              ELSE {Indicate(r) : r \in OpsHandler([b.s EXCEPT !.fls.errFlag = @ \/ ~b.ok])}
  BY <1>1 DEF StateHandler
<1>3. /\ b.ok \in BOOLEAN /\ b.s \in State /\ SameOp(b.s.fls, s.fls)
      /\ \/ b.ok /\ b.s.bus.cmd # "INVALID" /\ Good(b.s, d, len)
         \/ /\ b.s.bus.cmd = "INVALID" /\ Quiet(b.s.eng) /\ EndedGood(b.s, d, len)
            /\ b.ok \/ s.fls.opsState \in {"CMP", "DONE"}
  BY BusHandlerGood
<1>4. CASE b.ok /\ b.s.bus.cmd # "INVALID" /\ Good(b.s, d, len)
  <2>1. t = b.s
    BY <1>2, <1>4 DEF IsBusBusy
  <2> QED
    BY <1>1, <1>3, <1>4, <2>1 DEF SameOp
<1>5. CASE /\ b.s.bus.cmd = "INVALID" /\ Quiet(b.s.eng) /\ EndedGood(b.s, d, len)
           /\ b.ok \/ s.fls.opsState \in {"CMP", "DONE"}
  <2>1. b.s.fls \in FlsType(MaxLen) /\ b.s.fls.errFlag \in BOOLEAN
    BY <1>3 DEF State, FlsType
  <2>2. PICK x \in BOOLEAN : x = (b.s.fls.errFlag \/ ~b.ok)
    OBVIOUS
  <2> DEFINE f == [b.s.fls EXCEPT !.errFlag = x]
             u == [b.s EXCEPT !.fls = f]
  <2>3. f \in FlsType(MaxLen)
    BY <2>1 DEF FlsType
  <2>4. /\ f.errFlag = x /\ f.rx = b.s.fls.rx /\ f.wip = b.s.fls.wip
        /\ f.status = s.fls.status /\ f.opsRes = s.fls.opsRes /\ f.currOps = s.fls.currOps
        /\ f.opsState = s.fls.opsState /\ f.subState = s.fls.subState /\ f.left = s.fls.left
    BY <1>3, <2>1 DEF FlsType, SameOp
  <2>5. [b.s EXCEPT !.fls.errFlag = @ \/ ~b.ok] = u
    BY <2>2
  <2> HIDE DEF f
  <2>6. u \in State /\ u.fls = f /\ u.bus = b.s.bus /\ u.eng = b.s.eng
    BY <1>3, <2>3, WithFls
  <2> HIDE DEF u
  <2>7. FlsOK(f)
    BY <1>1, <2>4 DEF FlsOK
  <2>8. Work(u)
    BY <1>1, <1>5, <2>4, <2>6, <2>7 DEF Work
  <2>9. EndedGood(u, d, len)
    <3>1. u.fls.opsState \in {"WE", "PGM"} => ~u.fls.errFlag
      <4>1. b.s.fls.opsState \in {"WE", "PGM"} => ~b.s.fls.errFlag
        BY <1>5 DEF EndedGood
      <4>2. b.s.fls.opsState = s.fls.opsState
        BY <1>3 DEF SameOp
      <4> QED
        BY <1>5, <2>2, <2>4, <2>6, <4>1, <4>2
    <3>2. /\ u.fls.opsState = b.s.fls.opsState /\ u.fls.subState = b.s.fls.subState
          /\ u.fls.currOps = b.s.fls.currOps /\ u.fls.left = b.s.fls.left
          /\ u.fls.rx = b.s.fls.rx /\ u.fls.wip = b.s.fls.wip
          /\ u.eng = b.s.eng /\ u.bus = b.s.bus
      BY <1>3, <2>4, <2>6 DEF SameOp
    <3> QED
      BY <1>5, <3>1, <3>2 DEF EndedGood, In
  <2>10. PICK r \in OpsHandler(u) : t = Indicate(r)
    BY <1>2, <1>5, <2>5 DEF IsBusBusy
  <2>11. Outcome(r, d, u.fls.currOps, len)
    BY <2>8, <2>9, <2>10, OpsHandlerGood
  <2>12. Told(t, r)
    <3>1. r.ok \in BOOLEAN /\ Going(r.s)
      BY <1>5, <2>6, <2>8, <2>10, OpsHandlerStep
    <3> QED
      BY <2>10, <3>1, IndicateFields DEF Going, Driver
  <2> QED
    BY <2>4, <2>6, <2>10, <2>11, <2>12 DEF Outcome, Told
<1> QED
  BY <1>3, <1>4, <1>5

\* An operation of length len may begin, for a message of length n.
Starts(s, op, len, d, n) ==
  /\ Driver(s) /\ op \in Ops /\ len \in 0 .. MaxLen
  /\ d \in DevType /\ BusGood(s) /\ ChipGood(s, d) /\ n \in Nat
  /\ op \in {"ERASE", "WRITE"} => d.units = 0 /\ n = len
  /\ op \in {"READ", "COMPARE"} => RdIrqs = 1

\* It is refused, or it has begun.
Begins(r, s, op, d, n) ==
  \/ r.ok = FALSE /\ r.s = s
  \/ /\ s.fls.status = "IDLE" /\ Good(r.s, d, n)
     /\ r.s.fls.currOps = op /\ r.s.fls.opsRes = "PENDING"

LEMMA StartOpGood ==
  ASSUME NEW s, NEW op, NEW len, NEW d, NEW n, Starts(s, op, len, d, n),
         NEW r, r \in StartOp(s, op, len)
  PROVE  Begins(r, s, op, d, n)
<1> SUFFICES \/ r.ok = FALSE /\ r.s = s
             \/ /\ s.fls.status = "IDLE" /\ Good(r.s, d, n)
                /\ r.s.fls.currOps = op /\ r.s.fls.opsRes = "PENDING"
  BY DEF Begins
<1>0. /\ Driver(s) /\ op \in Ops /\ len \in 0 .. MaxLen
      /\ d \in DevType /\ BusGood(s) /\ ChipGood(s, d) /\ n \in Nat
      /\ op \in {"ERASE", "WRITE"} => d.units = 0 /\ n = len
      /\ op \in {"READ", "COMPARE"} => RdIrqs = 1
  BY DEF Starts
<1> USE <1>0
<1>1. s \in State /\ s.fls \in FlsType(MaxLen) /\ FlsOK(s.fls) /\ BusOK(s)
      /\ len \in Nat /\ len <= MaxLen /\ MaxLen \in Nat /\ LoopCount \in Nat
  BY RequestAssumption, FlashAssumption DEF Driver, State
<1>2. CASE s.fls.status # "IDLE" \/ len = 0
  <2>1. r = Err(s)
    BY <1>2 DEF StartOp
  <2> QED
    BY <2>1 DEF Err
<1>3. CASE s.fls.status = "IDLE" /\ len > 0
  <2> DEFINE f == [s.fls EXCEPT !.status = "BUSY", !.opsRes = "PENDING",
              !.currOps = op, !.errFlag = FALSE, !.indFlag = "NONE",
              !.left = len, !.cnt = 0, !.wip = FALSE]
             t == [s EXCEPT !.fls = f]
  <2>1. f \in FlsType(MaxLen)
    <3>1. [s.fls EXCEPT !.status = "BUSY", !.opsRes = "PENDING", !.currOps = op,
                        !.errFlag = FALSE] \in FlsType(MaxLen)
      BY <1>1 DEF FlsType
    <3>2. \A g \in FlsType(MaxLen) :
            [g EXCEPT !.left = len] \in FlsType(MaxLen)
      BY <1>1 DEF FlsType
    <3>3. \A g \in FlsType(MaxLen) :
            [g EXCEPT !.cnt = 0] \in FlsType(MaxLen)
      BY <1>1 DEF FlsType
    <3>4. \A g \in FlsType(MaxLen) :
            [g EXCEPT !.wip = FALSE] \in FlsType(MaxLen)
      BY DEF FlsType
    <3>5. \A g \in FlsType(MaxLen) :
            [g EXCEPT !.indFlag = "NONE"] \in FlsType(MaxLen)
      BY DEF FlsType
    <3> QED
      BY <3>1, <3>2, <3>3, <3>4, <3>5
  <2>2. /\ f.status = "BUSY" /\ f.opsRes = "PENDING" /\ f.currOps = op /\ f.left = len
        /\ ~f.errFlag
    BY <1>1 DEF FlsType
  <2>3. ~(s.fls.status # "IDLE" \/ len = 0)
    BY <1>1, <1>3
  <2>4. r \in CASE op \in {"ERASE", "WRITE", "CFG_READ_LANE"} -> {Ok(WriteEnable(t))}
                [] op = "READ"    -> BusRead(Goto(t, "DONE", "NONE"))
                [] op = "COMPARE" -> CompareRead(t)
    BY <2>3 DEF StartOp
  <2> HIDE DEF f
  <2>5. t \in State /\ t.fls = f /\ t.bus = s.bus /\ t.eng = s.eng
    BY <1>1, <2>1, WithFls
  <2>6. s.bus.cmd = "INVALID" /\ Quiet(s.eng) /\ ~s.eng.run /\ d.busy = "none"
        /\ (d.err => Micron)
    BY <1>1, <1>3 DEF BusOK, BusGood, ChipGood
  <2>7. op # "NONE"
    BY DEF Ops
  <2> HIDE DEF t
  <2>8. Open(t) /\ t.bus.cmd = "INVALID" /\ t.fls.left > 0 /\ t.fls.currOps = op
    BY <1>3, <2>2, <2>5, <2>6, <2>7 DEF Open
  <2> DEFINE Begun == Good(r.s, d, n) /\ r.s.fls.currOps = op
  <2>9. r.s.fls.opsRes = "PENDING" /\ r.s.fls.status = "BUSY"
    <3>1. Driver(r.s) /\ r.s.fls.opsRes = "PENDING"
      BY <1>3, StartOpStep
    <3> QED
      BY <3>1 DEF Driver, FlsOK
  <2>10. ASSUME op \in Programs PROVE Begun
    <3>1. r = Ok(WriteEnable(t))
      BY <2>4, <2>10 DEF Programs
    <3>2. Goes(t, d, n, "WE", "RS")
      <4>1. op \in {"ERASE", "WRITE"} => d.units + len = n
        BY <1>1
      <4> QED
        BY <2>2, <2>5, <2>6, <2>10, <4>1 DEF Goes
    <3>3. Outcome(Ok(WriteEnable(t)), d, t.fls.currOps, n) /\ Good(WriteEnable(t), d, n)
      BY <2>8, <3>2, WriteEnableGood
    <3>4. r.s = WriteEnable(t)
      BY <3>1 DEF Ok
    <3> QED
      BY <2>8, <2>9, <3>1, <3>3, <3>4 DEF Outcome
  <2>11. ASSUME op = "READ" PROVE Begun
    <3> DEFINE g == [f EXCEPT !.opsState = "DONE", !.subState = "NONE"]
               u == [t EXCEPT !.fls = g]
    <3>1. g \in FlsType(MaxLen)
      BY <2>1 DEF FlsType
    <3>2. /\ g.status = "BUSY" /\ g.opsRes = "PENDING" /\ g.currOps = op
          /\ g.opsState = "DONE" /\ ~g.errFlag
      BY <2>1, <2>2 DEF FlsType
    <3>3. Goto(t, "DONE", "NONE") = u
      BY <2>5 DEF Goto, State
    <3> HIDE DEF g
    <3>4. u \in State /\ u.fls = g /\ u.bus = t.bus /\ u.eng = t.eng
      BY <2>5, <3>1, WithFls
    <3> HIDE DEF u
    <3>5. FlsOK(g)
      BY <2>7, <3>2 DEF FlsOK
    <3>6. Work(u)
      BY <2>5, <2>6, <3>2, <3>4, <3>5 DEF Work
    <3>7. Reading(u, d)
      BY <2>5, <2>6, <2>11, <3>2, <3>4, <3>6 DEF Reading
    <3>8. r \in BusRead(u)
      BY <2>4, <2>11, <3>3
    <3>9. Outcome(r, d, u.fls.currOps, n) /\ Good(r.s, d, n)
      BY <3>7, <3>8, BusReadGood
    <3> QED
      BY <2>9, <3>2, <3>4, <3>9 DEF Outcome
  <2>12. ASSUME op = "COMPARE" PROVE Begun
    <3>1. r \in CompareRead(t)
      BY <2>4, <2>12
    <3>2. ~t.eng.run /\ ~t.fls.errFlag /\ RdIrqs = 1
      BY <2>2, <2>5, <2>6, <2>12
    <3>3. Outcome(r, d, t.fls.currOps, n) /\ Good(r.s, d, n)
      BY <2>6, <2>8, <2>12, <3>1, <3>2, CompareReadGood
    <3> QED
      BY <2>8, <2>9, <3>3 DEF Outcome
  <2> QED
    BY <1>3, <2>9, <2>10, <2>11, <2>12 DEF Ops, Programs
<1>4. s.fls.status # "IDLE" \/ len = 0 \/ (s.fls.status = "IDLE" /\ len > 0)
  BY <1>1
<1> QED
  BY <1>2, <1>3, <1>4

----------------------------------------------------------------------------
(* The steps of the hardware.                                              *)

\* The message is not one the length of which counts.
LEMMA OtherLength ==
  ASSUME NEW s, NEW d, NEW len, NEW n, Good(s, d, len), ~BusyWith(s, {"ERASE", "WRITE"})
  PROVE  Good(s, d, n)
BY DEF Good, UnitsGood

LEMMA GoodFields ==
  ASSUME NEW s, NEW t, NEW d, NEW len, Good(s, d, len),
         t.fls = s.fls, t.bus = s.bus, t.eng = s.eng
  PROVE  Good(t, d, len)
<1>1. Ended(t) <=> Ended(s)
  BY DEF Ended
<1>2. Sending(t) <=> Sending(s)
  BY DEF Sending
<1>3. BusGood(t)
  BY <1>1 DEF Good, BusGood
<1>4. ChipGood(t, d)
  BY <1>1, <1>2 DEF Good, ChipGood
<1>5. UnitsGood(t, d, len)
  BY <1>2 DEF Good, UnitsGood, BusyWith
<1> QED
  BY <1>3, <1>4, <1>5 DEF Good

\* The controller ends a transfer, and the chip takes the command or not.
LEMMA XferDoneGood ==
  ASSUME NEW s, Driver(s), NEW d \in DevType, NEW len \in Nat, Good(s, d, len), s.eng.run,
         NEW t, t.fls = s.fls, t.bus = s.bus, ~t.eng.run, t.eng.spif,
         t.eng.rx = DevStatus(d), t.eng.todo = s.eng.todo, t.eng.fifo = s.eng.fifo,
         NEW e, \/ e = IF s.eng.last THEN DevCommand(d, s.eng.op) ELSE d
                \/ s.eng.op = "WREN" /\ e = d
  PROVE  Good(t, e, len)
<1>1. /\ s.fls.status = "BUSY" /\ FlsOK(s.fls) /\ s.bus.op \in Commands
      /\ s.bus.rem \in Nat /\ d.units \in Nat /\ s.fls.left \in Nat
  BY DEF Driver, BusOK, Good, BusGood, State, BusType, DevType, FlsType
<1>2. /\ BusGood(s) /\ ChipGood(s, d) /\ UnitsGood(s, d, len)
      /\ s.bus.cmd = "XFER" /\ s.eng.op = s.bus.op /\ (s.eng.last <=> s.bus.rem = 0)
      /\ ~s.fls.errFlag /\ OpOfState(s.fls, s.bus.op)
      /\ s.bus.rem = 0 \/ s.bus.op = "DATA"
  BY DEF Good, BusGood
<1>3. BusGood(t)
  BY <1>2 DEF BusGood, Ended, Quiet
<1> DEFINE Programmed == /\ s.eng.last /\ s.bus.op \in {"SE", "DATA", "WRSR"}
                         /\ In(s.fls, "PGM", "RS")
<1>4. CASE Programmed
  <2>1. Sending(s)
    BY <1>1, <1>2, <1>4 DEF Sending
  <2>2. d.wel /\ d.busy = "none"
    BY <1>2, <2>1 DEF ChipGood
  <2>3. e = [d EXCEPT !.busy = s.bus.op, !.err = FALSE]
    BY <1>2, <1>4, <2>2 DEF DevCommand
  <2>4. e.wel = d.wel /\ e.busy = s.bus.op /\ e.err = FALSE /\ e.units = d.units
    BY <2>3 DEF DevType
  <2>5. ~Sending(t) /\ t.fls.status = "BUSY" /\ In(t.fls, "PGM", "RS")
    BY <1>1, <1>2, <1>4 DEF Sending, In
  <2>6. e.busy # "none" /\ (e.busy = "WRSR" => t.fls.currOps = "CFG_READ_LANE")
    BY <1>2, <1>4, <2>4 DEF BusGood
  <2>7. ChipGood(t, e)
    BY <2>4, <2>5, <2>6 DEF ChipGood, In
  <2>8. UnitsGood(t, e, len)
    BY <1>2, <2>1, <2>4, <2>6 DEF UnitsGood, BusyWith
  <2> QED
    BY <1>3, <2>7, <2>8 DEF Good
<1>5. CASE ~Programmed
  <2>1. In(s.fls, "PGM", "RS") => s.bus.op \in {"SE", "DATA", "WRSR"} /\ s.bus.rem # 0
    BY <1>1, <1>2, <1>5, OpOf
  <2>2. ~(s.eng.last /\ s.bus.op \in {"SE", "DATA", "WRSR"})
    BY <1>2, <1>5 DEF OpOfState
  <2>3. e = d \/ (s.bus.op = "WREN" /\ e = [d EXCEPT !.wel = TRUE])
    BY <1>1, <1>2, <2>2 DEF DevCommand, Commands
  <2>4. /\ e.busy = d.busy /\ e.err = d.err /\ e.units = d.units
        /\ ~In(s.fls, "WE", "RS") => e = d
    <3>1. s.bus.op = "WREN" => In(s.fls, "WE", "RS")
      BY <1>2 DEF OpOfState
    <3> QED
      BY <2>3, <3>1 DEF DevType
  <2>5. Sending(t) <=> Sending(s)
    BY <1>1, <1>2, <2>1 DEF Sending
  <2>6. /\ In(t.fls, "WE", "VER_WEL") /\ t.eng.rx.wel => e.wel
        /\ In(t.fls, "PGM", "VER_WIP") /\ ~t.eng.rx.wip => e.busy = "none"
        /\ In(t.fls, "PGM", "VER_PES") /\ e.err => t.eng.rx.err
    <3>1. PICK wip \in BOOLEAN : wip = (d.busy # "none")
      OBVIOUS
    <3>2. PICK ready \in BOOLEAN : ready = (d.busy = "none")
      OBVIOUS
    <3>3. t.eng.rx = [wel |-> d.wel, wip |-> wip, ready |-> ready, err |-> d.err]
      BY <3>1, <3>2 DEF DevStatus
    <3>4. t.eng.rx.wel = d.wel /\ t.eng.rx.wip = wip /\ t.eng.rx.err = d.err
      BY <3>3
    <3> QED
      BY <2>4, <3>1, <3>4 DEF In
  <2>7. Sending(t) => e.wel /\ e.busy = "none"
    BY <1>2, <2>4, <2>5 DEF ChipGood, Sending, In
  <2>8. ChipGood(t, e)
    BY <1>2, <2>4, <2>6, <2>7 DEF ChipGood
  <2>9. UnitsGood(t, e, len)
    BY <1>2, <2>4, <2>5 DEF UnitsGood, BusyWith
  <2> QED
    BY <1>3, <2>8, <2>9 DEF Good
<1> QED
  BY <1>4, <1>5

\* The chip ends what it was doing.
LEMMA DevEndGood ==
  ASSUME NEW s, Driver(s), NEW d \in DevType, NEW len \in Nat, Good(s, d, len),
         d.busy # "none", NEW failed \in BOOLEAN, failed => Micron
  PROVE  Good(s, DevEnd(d, failed), len)
<1> DEFINE n == IF failed \/ d.busy = "WRSR" THEN d.units ELSE d.units + 1
           e == DevEnd(d, failed)
<1>1. e.wel = FALSE /\ e.busy = "none" /\ e.err = failed /\ e.units = n
  BY DEF DevEnd, DevType
<1>2. /\ BusGood(s) /\ ChipGood(s, d) /\ UnitsGood(s, d, len)
      /\ s.fls.status = "BUSY" /\ s.fls.opsState = "PGM"
      /\ s.fls.subState \in {"RS", "VER_WIP", "VER_PES"} /\ ~Sending(s)
      /\ d.busy = "WRSR" => s.fls.currOps = "CFG_READ_LANE"
      /\ ~(In(s.fls, "PGM", "VER_PES") /\ ~s.fls.wip)
  BY DEF Good, ChipGood
<1>3. d.units \in Nat /\ s.fls.left \in Nat
  BY DEF DevType, Driver, State, FlsType
<1> HIDE DEF e
<1>4. ChipGood(s, e)
  BY <1>1, <1>2 DEF ChipGood, In
<1>5. UnitsGood(s, e, len)
  <2> SUFFICES ASSUME s.fls.currOps \in {"ERASE", "WRITE"}
               PROVE  e.units + s.fls.left = IF e.err THEN len ELSE len + 1
    BY <1>1, <1>2 DEF UnitsGood, BusyWith
  <2>1. d.units + s.fls.left = len /\ d.busy # "WRSR"
    BY <1>2 DEF UnitsGood, BusyWith
  <2> QED
    BY <1>1, <1>3, <2>1
<1>6. Good(s, e, len)
  BY <1>2, <1>4, <1>5 DEF Good
<1> QED
  BY <1>6 DEF e

LEMMA Types ==
  ASSUME IInv
  PROVE  /\ Driver(S) /\ FlsOK(fls) /\ BusOK(S)
         /\ fls \in FlsType(MaxLen) /\ bus \in BusType /\ eng \in EngType
         /\ dev \in DevType /\ proc \in Msgs \cup {NoMsg} /\ proc.len \in Nat
         /\ S.fls = fls /\ S.bus = bus /\ S.eng = eng
BY RequestAssumption DEF IInv, TypeOK, S, Driver, Msgs, NoMsg

\* What a step makes of the driver and the chip.
LEMMA GoodNext ==
  ASSUME NEW s, Good(s, dev', proc'.len), fls' = s.fls, bus' = s.bus, eng' = s.eng
  PROVE  Good(S, dev, proc.len)'
<1>1. S'.fls = s.fls /\ S'.bus = s.bus /\ S'.eng = s.eng
  BY DEF S
<1>2. Good(S', dev', proc'.len)
  BY <1>1, GoodFields
<1> QED
  BY <1>2

LEMMA GoodSame ==
  ASSUME CInv, UNCHANGED <<fls, bus, eng, dev, proc>>
  PROVE  Good(S, dev, proc.len)'
<1>1. Good(S, dev', proc'.len) /\ fls' = S.fls /\ bus' = S.bus /\ eng' = S.eng
  BY DEF CInv, Right, S
<1> QED
  BY <1>1, GoodNext

LEMMA AnsweredSame ==
  ASSUME CInv, UNCHANGED <<fls, fm, proc>>, dev'.units = dev.units
  PROVE  Answered'
BY DEF CInv, Right, Answered, BusyWith, S

LEMMA HwXferDoneRight ==
  ASSUME CInv, HwXferDone
  PROVE  Right'
<1>1. /\ Driver(S) /\ dev \in DevType /\ proc.len \in Nat /\ eng \in EngType
      /\ S.fls = fls /\ S.bus = bus /\ S.eng = eng /\ BusGood(S)
      /\ Good(S, dev, proc.len) /\ Exact
  BY Types DEF CInv, Right, Good
<1>2. /\ eng.run /\ eng' = [eng EXCEPT !.run = FALSE, !.spif = TRUE, !.rx = DevStatus(dev)]
      /\ \/ dev' = IF eng.last THEN DevCommand(dev, eng.op) ELSE dev
         \/ eng.op = "WREN" /\ dev' = dev
      /\ evt' = evt \cup {"FLASH0"}
      /\ UNCHANGED <<fls, bus, spc, mask, fm, cfgStarted, posted, proc, cl>>
  BY DEF HwXferDone, Irq
<1>3. /\ ~eng'.run /\ eng'.spif /\ eng'.rx = DevStatus(dev) /\ eng'.todo = eng.todo
      /\ eng'.fifo = eng.fifo
  BY <1>1, <1>2 DEF EngType
<1> DEFINE t == [S EXCEPT !.eng = eng']
<1>4. t.fls = fls /\ t.bus = bus /\ t.eng = eng'
  BY DEF S
<1> HIDE DEF t
<1>5. Good(t, dev', proc.len)
  <2>1. /\ S.eng.run /\ t.fls = S.fls /\ t.bus = S.bus
        /\ ~t.eng.run /\ t.eng.spif /\ t.eng.rx = DevStatus(dev)
        /\ t.eng.todo = S.eng.todo /\ t.eng.fifo = S.eng.fifo
    BY <1>1, <1>2, <1>3, <1>4
  <2>2. PICK e : e = dev'
    OBVIOUS
  <2>3. \/ e = IF S.eng.last THEN DevCommand(dev, S.eng.op) ELSE dev
        \/ S.eng.op = "WREN" /\ e = dev
    BY <1>1, <1>2, <2>2
  <2>4. Driver(S) /\ dev \in DevType /\ proc.len \in Nat /\ Good(S, dev, proc.len)
    BY <1>1
  <2>5. Good(t, e, proc.len)
    BY <2>1, <2>3, <2>4, XferDoneGood
  <2> QED
    BY <2>2, <2>5
<1>6. Good(S, dev, proc.len)'
  BY <1>1, <1>2, <1>4, <1>5, GoodNext
<1>7. dev'.units = dev.units
  BY <1>1, <1>2 DEF DevCommand, DevType
<1>8. Answered'
  BY <1>2, <1>7, AnsweredSame
<1>9. bus.cmd = "XFER"
  BY <1>1, <1>2 DEF BusGood
<1>10. Exact'
  BY <1>1, <1>2, <1>3, <1>9 DEF Exact, Coming
<1>11. First'
  BY <1>2 DEF CInv, Right, First
<1> QED
  BY <1>6, <1>8, <1>10, <1>11 DEF Right

LEMMA HwReadDataRight ==
  ASSUME CInv, HwReadData
  PROVE  Right'
<1>1. /\ Driver(S) /\ BusOK(S) /\ dev \in DevType /\ proc.len \in Nat /\ eng \in EngType
      /\ S.fls = fls /\ S.bus = bus /\ S.eng = eng
      /\ Good(S, dev, proc.len) /\ BusGood(S) /\ Exact
      /\ eng.todo \in Nat /\ eng.fifo \in Nat
  BY Types DEF CInv, Right, Good, EngType
<1>2. /\ eng.todo > 0 /\ eng' = [eng EXCEPT !.todo = @ - 1, !.fifo = @ + 1]
      /\ evt' = evt \cup {"FLASH0"}
      /\ UNCHANGED <<fls, bus, dev, faults, spc, mask, fm, cfgStarted, posted, proc, cl>>
  BY DEF HwReadData, Irq
<1>3. /\ eng'.run = eng.run /\ eng'.spif = eng.spif /\ eng'.rx = eng.rx
      /\ eng'.op = eng.op /\ eng'.last = eng.last
      /\ eng'.todo = eng.todo - 1 /\ eng'.fifo = eng.fifo + 1
  BY <1>1, <1>2 DEF EngType
<1>4. bus.cmd = "READ" /\ ~Quiet(eng) /\ eng.todo = 1 /\ eng.fifo \in Nat /\ ~eng.run
  BY <1>1, <1>2 DEF BusOK, BusGood, Quiet
<1> DEFINE t == [S EXCEPT !.eng = eng']
<1>5. t.fls = fls /\ t.bus = bus /\ t.eng = eng'
  BY DEF S
<1> HIDE DEF t
<1>6. Good(t, dev, proc.len)
  <2>1. /\ Ended(t) <=> Ended(S)
        /\ Sending(t) <=> Sending(S)
    BY <1>1, <1>3, <1>5 DEF Ended, Sending
  <2>2. BusGood(t)
    BY <1>1, <1>3, <1>4, <1>5, <2>1 DEF BusGood, Ended
  <2>3. ChipGood(t, dev)
    BY <1>1, <1>3, <1>5, <2>1 DEF Good, ChipGood
  <2>4. UnitsGood(t, dev, proc.len)
    BY <1>1, <1>5, <2>1 DEF Good, UnitsGood, BusyWith
  <2> QED
    BY <2>2, <2>3, <2>4 DEF Good
<1>7. Good(S, dev, proc.len)'
  BY <1>2, <1>5, <1>6, GoodNext
<1>8. Answered'
  BY <1>2, AnsweredSame
<1>9. "FLASH0" \notin Coming
  BY <1>1, <1>4 DEF Exact
<1>10. Exact'
  BY <1>2, <1>3, <1>4, <1>9 DEF Exact, Coming
<1>11. First'
  BY <1>2 DEF CInv, Right, First
<1> QED
  BY <1>7, <1>8, <1>10, <1>11 DEF Right

LEMMA HwDevEndRight ==
  ASSUME CInv, HwDevEnd
  PROVE  Right'
<1>1. /\ Driver(S) /\ dev \in DevType /\ proc.len \in Nat /\ FlsOK(fls)
      /\ S.fls = fls /\ S.bus = bus /\ S.eng = eng
      /\ Good(S, dev, proc.len) /\ ChipGood(S, dev) /\ Exact /\ Answered
  BY Types DEF CInv, Right, Good
<1>2. PICK failed \in BOOLEAN : dev' = DevEnd(dev, failed) /\ (failed => Micron)
  BY DEF HwDevEnd
<1>3. /\ dev.busy # "none"
      /\ UNCHANGED <<fls, bus, eng, spc, evt, mask, fm, cfgStarted, posted, proc, cl>>
  BY DEF HwDevEnd
<1>4. Good(S, dev', proc.len)
  BY <1>1, <1>2, <1>3, DevEndGood
<1>5. Good(S, dev, proc.len)'
  BY <1>1, <1>3, <1>4, GoodNext
<1>6. Answered'
  <2>1. fls.opsRes = "PENDING"
    BY <1>1, <1>3 DEF ChipGood, FlsOK
  <2> QED
    BY <1>1, <1>3, <2>1 DEF Answered, BusyWith, S
<1>7. Exact' /\ First'
  BY <1>3 DEF CInv, Right, Exact, Coming, First
<1> QED
  BY <1>5, <1>6, <1>7 DEF Right

----------------------------------------------------------------------------
(* The steps without a call of the driver.                                 *)

LEMMA QuietRight ==
  ASSUME CInv, UNCHANGED <<fls, bus, eng, dev>>,
         proc' = proc \/ ~BusyWith(S, {"ERASE", "WRITE"}),
         ("FLASH0" \in Coming)' => "FLASH0" \in Coming,
         (spc = "flash" /\ "FLASH0" \in mask => "FLASH0" \notin evt)',
         Answered', First'
  PROVE  Right'
<1>1. Good(S, dev, proc.len) /\ Exact
  BY DEF CInv, Right
<1>2. Good(S, dev, proc.len)'
  <2>1. Good(S, dev, proc'.len)
    BY <1>1, OtherLength
  <2>2. fls' = S.fls /\ bus' = S.bus /\ eng' = S.eng /\ Good(S, dev', proc'.len)
    BY <2>1 DEF S
  <2> QED
    BY <2>2, GoodNext
<1>3. Exact'
  BY <1>1 DEF Exact
<1> QED
  BY <1>2, <1>3 DEF Right

LEMMA PostRight ==
  ASSUME CInv, NEW c \in Clients, NEW r \in Requests, Post(c, r)
  PROVE  Right'
<1>1. /\ fm # "UNINIT" /\ evt' = evt \cup {"MSGQ"}
      /\ UNCHANGED <<fls, bus, eng, dev, faults, spc, mask, fm, cfgStarted, proc>>
  BY DEF Post, drv
<1>2. Answered' /\ First'
  BY <1>1, AnsweredSame DEF First
<1>3. Exact
  BY DEF CInv, Right
<1> QED
  BY <1>1, <1>2, <1>3, QuietRight DEF Coming, Exact

LEMMA CancelRight ==
  ASSUME CInv, NEW c \in Clients, Cancel(c)
  PROVE  Right'
<1>1. /\ fm # "UNINIT"
      /\ UNCHANGED <<fls, bus, eng, dev, faults, spc, evt, mask, fm, cfgStarted, proc>>
  BY DEF Cancel, drv
<1>2. Answered' /\ First'
  BY <1>1, AnsweredSame DEF First
<1>3. Exact
  BY DEF CInv, Right
<1> QED
  BY <1>1, <1>2, <1>3, QuietRight DEF Coming, Exact

\* GetOpResult, WaitEvent, ClearEvent, NoMessage and stuttering.
LEMMA EventsRight ==
  ASSUME CInv, UNCHANGED <<fls, bus, eng, dev, fm, cfgStarted, proc>>,
         ("FLASH0" \in Coming)' => "FLASH0" \in Coming,
         (spc = "flash" /\ "FLASH0" \in mask => "FLASH0" \notin evt)'
  PROVE  Right'
<1>1. Answered' /\ First'
  BY AnsweredSame DEF CInv, Right, First
<1> QED
  BY <1>1, QuietRight

LEMMA ServerEventsRight ==
  ASSUME CInv, \/ WaitEvent \/ ClearEvent \/ NoMessage \/ UNCHANGED vars
               \/ \E c \in Tasks : GetOpResult(c)
  PROVE  Right'
<1>1. Exact
  BY DEF CInv, Right
<1>2. CASE WaitEvent
  BY <1>1, <1>2, EventsRight DEF WaitEvent, drv, Coming
<1>3. CASE ClearEvent
  BY <1>1, <1>3, EventsRight DEF ClearEvent, drv, Coming
<1>4. CASE NoMessage
  BY <1>1, <1>4, EventsRight DEF NoMessage, drv, Coming
<1>5. CASE UNCHANGED vars
  BY <1>1, <1>5, EventsRight DEF vars, Coming, Exact
<1>6. CASE \E c \in Tasks : GetOpResult(c)
  BY <1>1, <1>6, EventsRight DEF GetOpResult, drv, Coming, Exact
<1> QED
  BY <1>2, <1>3, <1>4, <1>5, <1>6

LEMMA GetMsgIdxRight ==
  ASSUME CInv, GetMsgIdx
  PROVE  Right'
<1>1. /\ spc = "flsmgr" /\ proc = NoMsg /\ posted # <<>>
      /\ proc' = Head(posted) /\ posted' = Tail(posted)
      /\ UNCHANGED <<fls, bus, eng, dev, faults, spc, evt, mask, fm, cfgStarted, cl>>
  BY DEF GetMsgIdx, drv
<1>2. posted \in Seq(Msgs) /\ Answered /\ First
  BY DEF CInv, Right, IInv, TypeOK
<1>3. fm # "BUSY" /\ ~BusyWith(S, {"ERASE", "WRITE"})
  BY <1>1, <1>2 DEF Answered
<1>4. Answered'
  BY <1>1, <1>3 DEF Answered, BusyWith, S
<1>5. First'
  BY <1>1, <1>2 DEF First, NoMsg
<1> QED
  BY <1>1, <1>3, <1>4, <1>5, QuietRight DEF Coming

LEMMA CompleteRight ==
  ASSUME CInv, spc = "flsmgr", NEW res, Complete(res), UNCHANGED <<fls, bus, eng, dev>>,
         ~BusyWith(S, {"ERASE", "WRITE"}),
         fm' = "IDLE" \/ (fm' = "UNINIT" /\ ~cfgStarted')
  PROVE  Right'
<1>1. proc' = NoMsg /\ UNCHANGED <<spc, evt, mask, posted>>
  BY DEF Complete
<1>2. Answered'
  BY DEF Answered, BusyWith, S
<1>3. First'
  BY <1>1 DEF CInv, Right, First, NoMsg
<1> QED
  BY <1>1, <1>2, <1>3, QuietRight DEF Coming

LEMMA AgainRight ==
  ASSUME CInv, spc = "flsmgr", Again, UNCHANGED <<fls, bus, eng, dev, fm>>, First'
  PROVE  Right'
<1>1. spc' = "wait" /\ UNCHANGED <<evt, mask, posted, proc, cl>>
  BY DEF Again
<1> QED
  BY <1>1, AnsweredSame, QuietRight DEF Coming

\* UninitEnd and Busy
LEMMA OpEndRight ==
  ASSUME CInv, spc = "flsmgr", UNCHANGED <<drv, cfgStarted>>,
         IF fls.opsRes = "PENDING" THEN Again /\ UNCHANGED fm
                                   ELSE Complete(Result) /\ fm' = "IDLE"
  PROVE  Right'
<1>1. UNCHANGED <<fls, bus, eng, dev>>
  BY DEF drv
<1>2. CASE fls.opsRes = "PENDING"
  <2>1. Again /\ UNCHANGED <<fm, cfgStarted, proc>>
    BY <1>2 DEF Again
  <2>2. First'
    BY <2>1 DEF CInv, Right, First
  <2> QED
    BY <1>1, <2>1, <2>2, AgainRight
<1>3. CASE fls.opsRes # "PENDING"
  <2>1. fls.status # "BUSY" /\ S.fls = fls
    BY <1>3, Types DEF CInv, FlsOK
  <2>2. ~BusyWith(S, {"ERASE", "WRITE"})
    BY <2>1 DEF BusyWith
  <2> QED
    BY <1>1, <1>3, <2>2, CompleteRight
<1> QED
  BY <1>2, <1>3

----------------------------------------------------------------------------
(* The steps that call the driver.                                         *)

LEMMA HandleFlashRight ==
  ASSUME CInv, HandleFlash
  PROVE  Right'
<1>1. /\ Driver(S) /\ FlsOK(fls) /\ BusOK(S) /\ dev \in DevType /\ proc.len \in Nat
      /\ S.fls = fls /\ S.bus = bus /\ S.eng = eng
      /\ Good(S, dev, proc.len) /\ Exact /\ Answered /\ First
  BY Types DEF CInv, Right
<1>2. /\ spc = "flash" /\ spc' \in {"flsmgr", "wait"}
      /\ UNCHANGED <<dev, mask, fm, cfgStarted, posted, proc, cl>>
  BY DEF HandleFlash
<1>3. CASE "FLASH0" \notin mask
  <2>1. UNCHANGED <<fls, bus, eng, faults, evt>>
    BY <1>3 DEF HandleFlash
  <2> QED
    BY <1>2, <2>1, EventsRight DEF Coming
<1>4. CASE "FLASH0" \in mask
  <2>1. PICK t \in StateHandler(S) :
          Assign(t) /\ evt' = IF t.ind THEN evt \cup {"CB_IND"} ELSE evt
    BY <1>4 DEF HandleFlash
  <2>2. fls' = t.fls /\ bus' = t.bus /\ eng' = t.eng
    BY <2>1 DEF Assign
  <2>3. Due(S)
    BY <1>1, <1>2, <1>4 DEF Exact, Coming, Due, Ended
  <2>4. /\ Good(t, dev, proc.len)
        /\ t.fls.status = "BUSY" => t.fls.currOps = S.fls.currOps
        /\ t.fls.opsRes = "OK" /\ S.fls.currOps \in {"ERASE", "WRITE"}
             => dev.units = proc.len
    BY <1>1, <2>1, <2>3, StateHandlerGood
  <2>5. fls.status = "BUSY"
    BY <1>1, <2>3 DEF Due, Ended, BusOK
  <2>6. Good(S, dev, proc.len)'
    BY <1>2, <2>2, <2>4, GoodNext
  <2>7. "FLASH0" \notin evt /\ "FLASH0" \notin evt' /\ Coming' = evt'
    BY <1>1, <1>2, <1>4, <2>1 DEF Exact, Coming
  <2>8. Exact'
    BY <1>2, <2>7 DEF Exact
  <2>9. Answered'
    BY <1>1, <1>2, <2>2, <2>4, <2>5 DEF Answered, BusyWith, S
  <2>10. First'
    BY <1>1, <1>2 DEF First
  <2> QED
    BY <2>6, <2>8, <2>9, <2>10 DEF Right
<1> QED
  BY <1>3, <1>4

\* An operation begins, for the message proc'; the driver was idle, and the bus.
LEMMA BegunRight ==
  ASSUME CInv, spc = "flsmgr", spc' \in {"flsmgr", "wait"}, UNCHANGED evt,
         fls.status = "IDLE", NEW t, Assign(t), Good(t, dev', proc'.len),
         Answered', First'
  PROVE  Right'
<1>1. BusOK(S) /\ S.fls = fls /\ S.bus = bus /\ Exact
  BY Types DEF CInv, Right
<1>2. "FLASH0" \notin Coming
  BY <1>1 DEF BusOK, Exact
<1>3. Exact'
  BY <1>2 DEF Exact, Coming
<1>4. Good(S, dev, proc.len)'
  BY GoodNext DEF Assign
<1> QED
  BY <1>3, <1>4 DEF Right

LEMMA UninitStartRight ==
  ASSUME CInv, spc = "flsmgr", proc # NoMsg, UninitStart
  PROVE  Right'
<1>1. /\ fm = "UNINIT" /\ ~cfgStarted /\ Driver(S) /\ dev \in DevType /\ proc.len \in Nat
      /\ S.fls = fls /\ Good(S, dev, proc.len) /\ Answered /\ First /\ Lane
  BY Types DEF UninitStart, CInv, Right, IInv
<1>2. ~BusyWith(S, {"ERASE", "WRITE"})
  BY <1>1 DEF Answered
<1>3. CASE proc.cmd # "CFG_READ_LANE"
  <2>1. Complete("FAILED") /\ UNCHANGED <<drv, fm, cfgStarted>>
    BY <1>3 DEF UninitStart
  <2> QED
    BY <1>1, <1>2, <2>1, CompleteRight DEF drv
<1>4. CASE proc.cmd = "CFG_READ_LANE" /\ ~LaneSup
  <2>1. Complete("SUCCESS") /\ fm' = "IDLE" /\ UNCHANGED <<drv, cfgStarted>>
    BY <1>4 DEF UninitStart
  <2> QED
    BY <1>1, <1>2, <2>1, CompleteRight DEF drv
<1>5. CASE proc.cmd = "CFG_READ_LANE" /\ LaneSup
  <2>1. PICK r \in StartOp(S, "CFG_READ_LANE", 1) : Assign(r.s)
    BY <1>5 DEF UninitStart
  <2>2. Again /\ UNCHANGED <<dev, fm>>
    BY <1>5 DEF UninitStart
  <2>3. spc' = "wait" /\ UNCHANGED <<evt, mask, posted, proc, cl>>
    BY <2>2 DEF Again
  <2>4. BusGood(S) /\ ChipGood(S, dev) /\ 1 \in 0 .. MaxLen /\ "CFG_READ_LANE" \in Ops
    BY <1>1, RequestAssumption DEF Good, Ops
  <2>5. \/ r.ok = FALSE /\ r.s = S
        \/ /\ S.fls.status = "IDLE" /\ Good(r.s, dev, proc.len)
           /\ r.s.fls.currOps = "CFG_READ_LANE" /\ r.s.fls.opsRes = "PENDING"
    <3>1. Starts(S, "CFG_READ_LANE", 1, dev, proc.len)
      BY <1>1, <2>4 DEF Starts
    <3>2. Begins(r, S, "CFG_READ_LANE", dev, proc.len)
      BY <2>1, <3>1, StartOpGood
    <3> QED
      BY <3>2 DEF Begins
  <2>6. fls' = r.s.fls /\ bus' = r.s.bus /\ eng' = r.s.eng
    BY <2>1 DEF Assign
  <2>7. CASE r.s = S
    <3>1. UNCHANGED <<fls, bus, eng>>
      BY <2>6, <2>7 DEF S
    <3>2. First'
      BY <1>5, <2>3 DEF First
    <3> QED
      BY <2>2, <3>1, <3>2, AgainRight
  <2>8. CASE /\ S.fls.status = "IDLE" /\ Good(r.s, dev, proc.len)
             /\ r.s.fls.currOps = "CFG_READ_LANE"
    <3>1. Answered'
      BY <1>1, <2>2, <2>6, <2>8 DEF Answered, BusyWith, S
    <3>2. First'
      BY <1>5, <2>3 DEF First
    <3>3. fls.status = "IDLE" /\ Good(r.s, dev', proc'.len)
      BY <1>1, <2>2, <2>3, <2>8
    <3> QED
      BY <2>1, <2>3, <3>1, <3>2, <3>3, BegunRight
  <2> QED
    BY <2>5, <2>7, <2>8
<1> QED
  BY <1>3, <1>4, <1>5, FlashAssumption

LEMMA IdleStartRight ==
  ASSUME NoStrayEvents, CInv, spc = "flsmgr", proc # NoMsg, IdleStart
  PROVE  Right'
<1>1. /\ fm = "IDLE" /\ proc.cmd # "DEINIT" /\ dev' = [dev EXCEPT !.units = 0]
      /\ Driver(S) /\ dev \in DevType /\ proc.len \in Nat /\ proc \in Msgs
      /\ S.fls = fls /\ S.bus = bus /\ S.eng = eng /\ Good(S, dev, proc.len)
      /\ Answered /\ First /\ Lane
  BY Types DEF IdleStart, CInv, Right, IInv
<1>2. PICK r \in StartOp(S, proc.cmd, proc.len) :
        Assign(r.s) /\ IF r.ok THEN Again /\ fm' = "BUSY"
                               ELSE Complete("FAILED") /\ UNCHANGED fm
  BY DEF IdleStart
<1>3. /\ proc.cmd \in Ops /\ proc.cmd \in Cmds /\ proc.len \in 0 .. MaxLen
      /\ proc.cmd \in {"READ", "COMPARE"} => RdIrqs = 1
  <2>1. proc.cmd # "CFG_READ_LANE"
    BY <1>1 DEF Lane
  <2>2. proc.cmd \in Cmds /\ proc.len \in 0 .. MaxLen
    BY <1>1, <2>1 DEF Msgs
  <2> QED
    BY <1>1, <2>1, <2>2, RequestAssumption DEF NoStrayEvents
<1>4. ~BusyWith(S, {"ERASE", "WRITE"})
  BY <1>1 DEF Answered
<1>5. /\ dev' \in DevType /\ dev'.units = 0
      /\ dev'.busy = dev.busy /\ dev'.wel = dev.wel /\ dev'.err = dev.err
  BY <1>1 DEF DevType
<1>6. PICK d : d = dev'
  OBVIOUS
<1>7. BusGood(S) /\ ChipGood(S, d) /\ d \in DevType /\ d.units = 0
  <2>1. BusGood(S) /\ ChipGood(S, dev)
    BY <1>1 DEF Good
  <2> QED
    BY <1>5, <1>6, <2>1 DEF ChipGood
<1>8. \/ r.ok = FALSE /\ r.s = S
      \/ /\ S.fls.status = "IDLE" /\ Good(r.s, d, proc.len)
         /\ r.s.fls.currOps = proc.cmd /\ r.s.fls.opsRes = "PENDING"
  <2>1. Starts(S, proc.cmd, proc.len, d, proc.len)
    BY <1>1, <1>3, <1>7 DEF Starts
  <2>2. Begins(r, S, proc.cmd, d, proc.len)
    BY <1>2, <2>1, StartOpGood
  <2> QED
    BY <2>2 DEF Begins
<1>9. fls' = r.s.fls /\ bus' = r.s.bus /\ eng' = r.s.eng
  BY <1>2 DEF Assign
<1>10. CASE r.ok = FALSE /\ r.s = S
  <2>1. Complete("FAILED") /\ UNCHANGED <<fls, bus, eng, fm>>
    BY <1>2, <1>9, <1>10 DEF S
  <2>2. proc' = NoMsg /\ UNCHANGED <<spc, evt, mask, posted>>
    BY <2>1 DEF Complete
  <2>3. Good(S, dev', proc'.len)
    BY <1>4, <1>6, <1>7 DEF Good, UnitsGood
  <2>4. Good(S, dev, proc.len)'
    BY <1>1, <2>1, <2>3, GoodNext
  <2>5. Exact'
    BY <2>1, <2>2 DEF CInv, Right, Exact, Coming
  <2>6. Answered' /\ First'
    BY <1>1, <1>4, <2>1, <2>2 DEF Answered, First, BusyWith, S
  <2> QED
    BY <2>4, <2>5, <2>6 DEF Right
<1>11. CASE /\ S.fls.status = "IDLE" /\ Good(r.s, d, proc.len)
            /\ r.s.fls.currOps = proc.cmd /\ r.s.fls.opsRes = "PENDING"
  <2>1. CASE r.ok
    <3>1. Again /\ fm' = "BUSY"
      BY <1>2, <2>1
    <3>2. spc' = "wait" /\ UNCHANGED <<evt, mask, posted, proc, cl>>
      BY <3>1 DEF Again
    <3>3. Answered' /\ First'
      BY <1>9, <1>11, <3>1, <3>2 DEF Answered, First
    <3>4. fls.status = "IDLE" /\ Good(r.s, dev', proc'.len)
      BY <1>1, <1>6, <1>11, <3>2
    <3> QED
      BY <1>2, <3>2, <3>3, <3>4, BegunRight
  <2>2. CASE ~r.ok
    <3>1. Complete("FAILED") /\ UNCHANGED fm
      BY <1>2, <2>2
    <3>2. proc' = NoMsg /\ UNCHANGED <<spc, evt, mask, posted>>
      BY <3>1 DEF Complete
    <3>3. proc.cmd \notin {"ERASE", "WRITE"}
      <4>1. r = Err(S) \/ (proc.cmd \in {"ERASE", "WRITE"} => r \in {Ok(x) : x \in {r.s}})
        BY <1>2 DEF StartOp, Ok
      <4>2. r # Err(S)
        BY <1>1, <1>11 DEF Err, Driver, FlsOK
      <4> QED
        BY <2>2, <4>1, <4>2 DEF Ok
    <3>4. ~BusyWith(r.s, {"ERASE", "WRITE"})
      BY <1>11, <3>3 DEF BusyWith
    <3>5. Good(r.s, dev', proc'.len)
      <4>1. Good(r.s, d, proc'.len)
        BY <1>11, <3>4, OtherLength
      <4> QED
        BY <1>6, <4>1
    <3>6. Answered'
      BY <1>1, <1>9, <3>1, <3>4 DEF Answered, BusyWith, S
    <3>7. First'
      BY <1>1, <3>1 DEF First
    <3> QED
      BY <1>1, <1>2, <1>11, <3>2, <3>5, <3>6, <3>7, BegunRight
  <2> QED
    BY <2>1, <2>2
<1> QED
  BY <1>8, <1>10, <1>11

\* FLASH_DeInit: the bus is at rest, or has a read that did not start.
LEMMA DeInitGood ==
  ASSUME NEW s, Driver(s), NEW d, NEW len, NEW n, Good(s, d, len),
         s.fls.status = "BUSY" => s.bus.cmd = "READ", NEW t, t \in DeInit(s)
  PROVE  Good(t, d, n)
<1>1. /\ s \in State /\ s.fls \in FlsType(MaxLen) /\ BusOK(s) /\ s.fls.laneDone \in BOOLEAN
      /\ BusGood(s) /\ ChipGood(s, d)
  BY DEF Driver, State, FlsType, Good
<1>2. ~s.eng.run /\ s.bus.cmd \in {"INVALID", "READ"}
  BY <1>1 DEF BusOK, BusGood
<1>3. d.busy = "none" /\ (d.err => Micron)
  BY <1>1 DEF BusGood, ChipGood
<1>4. PICK lane \in BOOLEAN : lane = (s.fls.laneDone /\ ~LaneSup)
  OBVIOUS
<1> DEFINE f == [s.fls EXCEPT !.currOps = "NONE", !.opsRes = "OK",
              !.errFlag = FALSE, !.status = "UNINIT", !.laneDone = lane]
           u == [s EXCEPT !.fls = f]
<1>5. f \in FlsType(MaxLen)
  BY <1>1, <1>4 DEF FlsType
<1>6. f.status = "UNINIT" /\ ~f.errFlag
  BY <1>1 DEF FlsType
<1>7. IF IsBusBusy(u) THEN \E r \in BusStateHandler(u, TRUE) : t = r.s ELSE t = u
  BY <1>4 DEF DeInit
<1> HIDE DEF f
<1>8. u \in State /\ u.fls = f /\ u.bus = s.bus /\ u.eng = s.eng
  BY <1>1, <1>5, WithFls
<1> HIDE DEF u
<1>9. t.fls = f /\ t.bus.cmd = "INVALID" /\ ~t.eng.run
  <2>1. CASE s.bus.cmd = "READ"
    <3>1. PICK r \in ReadStop(u) : t = r.s
      BY <1>7, <1>8, <2>1 DEF IsBusBusy, BusStateHandler
    <3>2. r.s.fls = u.fls /\ r.s.bus.cmd = "INVALID" /\ r.s.eng.run = u.eng.run
      BY <1>8, <3>1, ReadStopStep, ReadStopRun
    <3> QED
      BY <1>2, <1>8, <3>1, <3>2
  <2>2. CASE s.bus.cmd = "INVALID"
    BY <1>2, <1>7, <1>8, <2>2 DEF IsBusBusy
  <2> QED
    BY <1>2, <2>1, <2>2
<1>10. BusGood(t) /\ ChipGood(t, d) /\ UnitsGood(t, d, n)
  BY <1>3, <1>6, <1>9 DEF BusGood, ChipGood, UnitsGood, Ended, Sending, BusyWith
<1> QED
  BY <1>10 DEF Good

\* The server deinitialises the driver only when it does nothing for a message,
\* and then no event of the bus is there.
LEMMA IdleAtDeInit ==
  ASSUME CInv, IdleDeInit
  PROVE  /\ fls.status = "BUSY" => bus.cmd = "READ"
         /\ bus.cmd # "XFER" /\ "FLASH0" \notin Coming
<1>1. fm = "IDLE" /\ proc.cmd = "DEINIT" /\ BusOK(S) /\ Exact
      /\ S.fls = fls /\ S.bus = bus /\ S.eng = eng /\ BusyForAMessage
  BY Types DEF IdleDeInit, CInv, Right, IInv
<1>2. fls.status = "BUSY" => bus.cmd = "READ" /\ eng.fifo = 0
  BY <1>1 DEF BusyForAMessage, ReadNotStarted
<1>3. bus.cmd # "INVALID" => fls.status = "BUSY"
  BY <1>1 DEF BusOK
<1> QED
  BY <1>1, <1>2, <1>3 DEF Exact

LEMMA IdleDeInitRight ==
  ASSUME CInv, spc = "flsmgr", IdleDeInit
  PROVE  Right'
<1>1. fm' = "UNINIT" /\ cfgStarted' = FALSE /\ Complete("SUCCESS") /\ UNCHANGED dev
  BY DEF IdleDeInit
<1>2. PICK t \in DeInit(S) : Assign(t)
  BY DEF IdleDeInit
<1>3. Driver(S) /\ Good(S, dev, proc.len) /\ S.fls = fls /\ S.bus = bus
  BY Types DEF CInv, Right
<1>4. S.fls.status = "BUSY" => S.bus.cmd = "READ"
  BY <1>3, IdleAtDeInit
<1>5. Good(t, dev, proc'.len)
  BY <1>2, <1>3, <1>4, DeInitGood
<1>6. Good(S, dev, proc.len)'
  BY <1>1, <1>2, <1>5, GoodNext DEF Assign
<1>7. t.fls.status = "UNINIT"
  BY <1>2, <1>3, DeInitStep
<1>8. Exact'
  BY <1>1, IdleAtDeInit DEF Complete, Exact, Coming
<1>9. Answered' /\ First'
  BY <1>1, <1>2, <1>7 DEF Answered, First, BusyWith, S, Assign
<1> QED
  BY <1>6, <1>8, <1>9 DEF Right

----------------------------------------------------------------------------
LEMMA InitRight ==
  ASSUME Init
  PROVE  Right
<1>1. /\ fls.status = "IDLE" /\ fls.opsRes = "OK" /\ fls.currOps = "NONE" /\ ~fls.errFlag
      /\ bus.cmd = "INVALID" /\ ~eng.run /\ eng.todo = 0 /\ eng.fifo = 0
      /\ dev.busy = "none" /\ dev.err = FALSE
  BY DEF Init, FlsInit, BusInit, EngInit, DevInit
<1>2. /\ evt = {"MSGQ"} /\ spc = "wait" /\ fm = "UNINIT" /\ ~cfgStarted /\ proc = NoMsg
      /\ posted = <<[from |-> Server, cmd |-> "CFG_READ_LANE", len |-> 1]>>
  BY DEF Init
<1>3. S.fls = fls /\ S.bus = bus /\ S.eng = eng
  BY DEF S
<1>4. BusGood(S) /\ ChipGood(S, dev) /\ UnitsGood(S, dev, proc.len)
  BY <1>1, <1>3 DEF BusGood, ChipGood, UnitsGood, Ended, Sending, Quiet, BusyWith
<1>5. Exact /\ Answered
  BY <1>1, <1>2, <1>3 DEF Exact, Coming, Answered, BusyWith
<1>6. First
  BY <1>2 DEF First, NoMsg
<1> QED
  BY <1>4, <1>5, <1>6 DEF Right, Good

LEMMA RightInductive ==
  ASSUME NoStrayEvents, CInv, [Next]_vars
  PROVE  CInv'
<1>1. IInv'
  BY Inductive DEF CInv
<1> SUFFICES Right'
  BY <1>1 DEF CInv
<1>2. CASE HwXferDone \/ HwReadData \/ HwDevEnd
  BY <1>2, HwXferDoneRight, HwReadDataRight, HwDevEndRight
<1>3. ASSUME NEW c \in Clients, GetOpResult(c) \/ Cancel(c) \/ \E r \in Requests : Post(c, r)
      PROVE  Right'
  BY <1>3, ServerEventsRight, CancelRight, PostRight DEF Tasks
<1>4. CASE GetOpResult(Server) \/ UNCHANGED vars
  BY <1>4, ServerEventsRight DEF Tasks
<1>5. CASE WaitEvent \/ ClearEvent \/ NoMessage
  BY <1>5, ServerEventsRight
<1>6. CASE HandleFlash \/ GetMsgIdx
  BY <1>6, HandleFlashRight, GetMsgIdxRight
<1>7. CASE MsgHandler
  <2>1. spc = "flsmgr" /\ proc # NoMsg
    BY <1>7 DEF MsgHandler
  <2>2. CASE UninitStart
    BY <2>1, <2>2, UninitStartRight
  <2>3. CASE UninitEnd
    BY <2>1, <2>3, OpEndRight DEF UninitEnd, drv
  <2>4. CASE IdleStart
    BY <2>1, <2>4, IdleStartRight
  <2>5. CASE Busy
    BY <2>1, <2>5, OpEndRight DEF Busy, drv
  <2>6. CASE IdleDeInit
    BY <2>1, <2>6, IdleDeInitRight
  <2> QED
    BY <1>7, <2>2, <2>3, <2>4, <2>5, <2>6 DEF MsgHandler
<1> QED
  BY <1>2, <1>3, <1>4, <1>5, <1>6, <1>7 DEF Next, ServerStep

----------------------------------------------------------------------------
(* The theorems.                                                           *)

LEMMA ChipInvariant ==
  ASSUME NoStrayEvents
  PROVE  Spec => []CInv
<1>1. Init => CInv
  BY InitInv, InitRight DEF CInv
<1>2. CInv /\ [Next]_vars => CInv'
  BY RightInductive
<1> QED
  BY <1>1, <1>2, PTL DEF Spec

LEMMA NothingIgnored ==
  ASSUME CInv
  PROVE  NoCommandIsIgnored
<1> SUFFICES ASSUME eng.run, eng.op \in {"SE", "PP", "DATA", "WRSR"}
             PROVE  dev.wel /\ dev.busy = "none"
  BY DEF NoCommandIsIgnored
<1>1. /\ BusOK(S) /\ BusGood(S) /\ ChipGood(S, dev)
      /\ S.fls = fls /\ S.bus = bus /\ S.eng = eng
  BY Types DEF CInv, Right, Good
<1>2. /\ bus.cmd = "XFER" /\ eng.op = bus.op /\ OpOfState(fls, bus.op)
      /\ fls.status = "BUSY"
  BY <1>1 DEF BusGood, BusOK
<1>3. In(fls, "PGM", "WR") \/ In(fls, "PGM", "RS")
  BY <1>2 DEF OpOfState
<1>4. Sending(S)
  BY <1>1, <1>2, <1>3 DEF Sending
<1> QED
  BY <1>1, <1>4 DEF ChipGood

\* What erases, programs or configures the chip is sent to it only when it is
\* at rest and enabled for writing, with every flash, operation, length and
\* fault of the model, as long as every event of the bus interrupt belongs to
\* the transfer under way (FLASH_SubOpsWriteEnable, FLASH_SubOpsProgram).
THEOREM ChipObeysEveryCommand ==
  ASSUME NoStrayEvents
  PROVE  Spec => []NoCommandIsIgnored
<1>1. CInv => NoCommandIsIgnored
  BY NothingIgnored
<1> QED
  BY <1>1, ChipInvariant, PTL

\* The step that changes the bus is the one that finishes the transfer, or
\* begins one on a bus at rest.
LEMMA BusChanges ==
  ASSUME NoStrayEvents, CInv, [Next]_vars, bus.cmd = "XFER", bus' # bus
  PROVE  eng.spif
<1>1. /\ Driver(S) /\ BusOK(S) /\ dev \in DevType /\ proc.len \in Nat
      /\ S.fls = fls /\ S.bus = bus /\ S.eng = eng
      /\ BusGood(S) /\ ChipGood(S, dev) /\ Exact /\ proc \in Msgs \cup {NoMsg} /\ Lane
  BY Types DEF CInv, Right, Good, IInv
<1>2. fls.status = "BUSY"
  BY <1>1 DEF BusOK
<1>3. ASSUME NEW op, NEW len, NEW r, r \in StartOp(S, op, len), Assign(r.s)
      PROVE  FALSE
  <2>1. r.s = S
    BY <1>1, <1>2, <1>3 DEF StartOp, Err
  <2> QED
    BY <1>1, <1>3, <2>1 DEF Assign
<1>4. CASE HandleFlash
  <2>1. spc = "flash" /\ "FLASH0" \in mask
    BY <1>4 DEF HandleFlash
  <2>2. Ended(S)
    BY <1>1, <2>1 DEF Exact, Coming, Ended
  <2> QED
    BY <1>1, <2>2 DEF BusGood
<1>5. CASE MsgHandler
  <2>2. UninitStart \/ IdleStart
    BY <1>5, IdleAtDeInit DEF MsgHandler, UninitEnd, Busy, drv
  <2>3. \E op, len : \E r \in StartOp(S, op, len) : Assign(r.s)
    BY <2>2 DEF UninitStart, IdleStart, drv
  <2> QED
    BY <1>3, <2>3
<1>6. CASE ~(HandleFlash \/ MsgHandler)
  BY <1>6 DEF Next, ServerStep, vars, drv, HwXferDone, HwReadData, HwDevEnd, GetOpResult,
              Cancel, Post, WaitEvent, ClearEvent, NoMessage, GetMsgIdx
<1> QED
  BY <1>4, <1>5, <1>6

\* The driver touches a transfer only after the controller has ended it: the
\* case of FLASH_QSPIXferReadData that "should never happen" does not, as long
\* as every event of the bus interrupt belongs to the transfer under way.
THEOREM TransfersAreAwaited ==
  ASSUME NoStrayEvents
  PROVE  Spec => XferEndsWhenDone
<1>1. CInv /\ [Next]_vars => [bus.cmd = "XFER" /\ bus' # bus => eng.spif]_vars
  BY BusChanges
<1> QED
  BY <1>1, ChipInvariant, PTL DEF Spec, XferEndsWhenDone

\* A message is answered in one step of the server.
LEMMA AnswersAreTrue ==
  ASSUME NoStrayEvents, CInv, [Next]_vars, NEW t \in Tasks,
         cl[t].st = "waiting", cl'[t].st = "done", cl'[t].res = "SUCCESS",
         proc.cmd \in {"ERASE", "WRITE"}
  PROVE  dev.units = proc.len /\ dev.busy = "none"
<1>1. /\ FlsOK(fls) /\ S.fls = fls /\ ChipGood(S, dev) /\ Answered /\ First
      /\ cl \in [Tasks -> [st : {"idle", "waiting", "done"},
                           res : {"NONE", "SUCCESS", "FAILED"}]]
  BY Types DEF CInv, Right, Good, IInv, TypeOK
<1>2. MsgHandler
  <2> SUFFICES ASSUME ~MsgHandler PROVE FALSE
    OBVIOUS
  <2>1. CASE UNCHANGED cl
    BY <2>1
  <2>2. CASE \E c \in Tasks : cl' = [cl EXCEPT ![c] = [st |-> "idle", res |-> "NONE"]]
    BY <1>1, <2>2
  <2>3. CASE \E c \in Tasks : cl' = [cl EXCEPT ![c] = [st |-> "waiting", res |-> "NONE"]]
    BY <1>1, <2>3
  <2> QED
    BY <2>1, <2>2, <2>3
    DEF Next, ServerStep, vars, HwXferDone, HwReadData, HwDevEnd, GetOpResult, Tasks,
        Cancel, Post, WaitEvent, ClearEvent, HandleFlash, NoMessage, GetMsgIdx
<1>3. ~(fm = "UNINIT" /\ cfgStarted)
  BY <1>1 DEF First
<1>4. ASSUME Complete("FAILED")
      PROVE  FALSE
  BY <1>1, <1>4 DEF Complete
<1>5. Busy /\ ~Again
  <2>1. ~Again
    BY <1>1 DEF Again
  <2>2. ~IdleStart
    BY <1>4, <2>1 DEF IdleStart
  <2>3. ~IdleDeInit /\ ~UninitEnd
    BY <1>3 DEF IdleDeInit, UninitEnd
  <2>4. ~UninitStart
    BY <1>4, <2>1, FlashAssumption DEF UninitStart
  <2> QED
    BY <1>2, <2>1, <2>2, <2>3, <2>4 DEF MsgHandler
<1>6. fm = "BUSY" /\ fls.opsRes = "OK"
  BY <1>4, <1>5 DEF Busy, Result
<1>7. dev.units = proc.len
  BY <1>1, <1>6 DEF Answered
<1>8. fls.status # "BUSY"
  BY <1>1, <1>6 DEF FlsOK
<1> QED
  BY <1>1, <1>7, <1>8 DEF ChipGood

\* A message is answered with SUCCESS only when the chip has erased or
\* programmed all that it asks for, whatever the chip's flash, the lengths, the
\* clients and the faults, as long as every event of the bus interrupt belongs
\* to the transfer under way (FLSMGR_BusyStateHandler, FLASH_SubOpsProgram).
THEOREM SuccessIsTrue ==
  ASSUME NoStrayEvents
  PROVE  Spec => SuccessMeansDone
<1>1. CInv /\ [Next]_vars =>
        [ \A t \in Tasks :
            cl[t].st = "waiting" /\ cl'[t].st = "done" /\ cl'[t].res = "SUCCESS"
            /\ proc.cmd \in {"ERASE", "WRITE"}
            => dev.units = proc.len /\ dev.busy = "none" ]_vars
  BY AnswersAreTrue
<1> QED
  BY <1>1, ChipInvariant, PTL DEF Spec, SuccessMeansDone

==============================================================================
