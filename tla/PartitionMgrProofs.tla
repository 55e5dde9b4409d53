-------------------------- MODULE PartitionMgrProofs -------------------------
(***************************************************************************)
(* Proofs about PartitionMgr for any clients, images, contents, requests,  *)
(* sizes and number of failures, when the flash manager's queue has room   *)
(* for the two messages of a write next to what its other clients hold.    *)
(***************************************************************************)
EXTENDS PartitionMgr, FiniteSetTheorems, SequenceTheorems, TLAPS

----------------------------------------------------------------------------
(* The invariant.                                                          *)

Msg     == [from : Clients, req : Requests]
FlashOp == [h : 1 .. Slots, op : {"READ", "WRITE", "ERASE"},
            img : Images \cup {NoImage}, off : Nat, len : Nat]

Typed ==
  /\ TypeOK
  /\ posted \in Seq(Msg) /\ proc \in Msg \cup {NoMsg} /\ fq \in Seq(FlashOp)
  /\ cl = [c \in Clients |-> cl[c]]

\* The slots of the other clients of the flash manager.
OthersHold == {k \in 1 .. Slots : slot[k] = "other"}
Bounded    == Cardinality(OthersHold) <= Others

Held(h) == slot[h] \in {"posted", "SUCCESS", "FAILED"}

\* Slots the manager took are its own as long as it is not idle.
Kept == \A h \in 1 .. Slots : Held(h) => h \in {h0, h1} /\ st # "IDLE"

\* Before and after the tables are read there is one message at most, a read.
Reading ==
  /\ st \in {"UNINIT", "ERROR"} =>
       /\ h1 = 0 /\ proc = NoMsg /\ posted = <<>>
       /\ Len(fq) <= 1 /\ \A i \in 1 .. Len(fq) : fq[i].op = "READ"
  /\ st = "UNINIT" => h0 # 0 /\ Held(h0) /\ (slot[h0] = "posted" <=> fq # <<>>)

Resting ==
  /\ st = "IDLE" => fq = <<>> /\ h1 = 0 /\ (proc # NoMsg => result = "UNKNOWN")
  /\ fq = <<>> => fl = "rest"

\* The messages of the request in progress that are not completed.
LastOp(cmd) ==
  IF cmd = "WRITE_USERDATA" THEN "WRITE"
  ELSE IF cmd = "ERASE_USERDATA" THEN "ERASE" ELSE "READ"

Working ==
  LET r == proc.req IN
  st = "BUSY" =>
    /\ proc # NoMsg /\ r.img \in Images
    /\ h0 # 0 /\ Held(h0) /\ (slot[h0] = "posted" <=> fq # <<>>)
    /\ h1 # 0 <=> r.cmd = "WRITE_USERDATA"
    /\ h1 # 0 => h1 # h0 /\ Held(h1) /\ (slot[h1] = "posted" <=> Len(fq) = 2)
    /\ Len(fq) <= (IF h1 = 0 THEN 1 ELSE 2)
    /\ \A i \in 1 .. Len(fq) : fq[i].img = r.img
    /\ Len(fq) = 1 => fq[1].h = h0 /\ fq[1].op = LastOp(r.cmd)
    /\ Len(fq) = 2 => /\ fq[1].h = h1 /\ fq[1].op = "ERASE"
                      /\ fq[2].h = h0 /\ fq[2].op = "WRITE"

\* What has been done when an operation succeeded, though its message may not
\* be completed yet.
Succeeded(h) ==
  slot[h] = "SUCCESS" \/ (fq # <<>> /\ fq[1].h = h /\ fl = "SUCCESS")
Failed(h) ==
  slot[h] = "FAILED" \/ (fq # <<>> /\ fq[1].h = h /\ fl = "FAILED")

Least(a, b) == IF a < b THEN a ELSE b

\* The data of the request in progress: what was read, erased, or will be written.
ReadData ==
  proc.req.cmd = "LOAD_USERDATA" /\ Succeeded(h0) => ram = flash[proc.req.img]
Part(r) == Least(r.len, RestFrom(r.off))
ImageData ==
  proc.req.cmd = "LOAD_IMG" =>
    /\ result = (IF proc.req.len < RestFrom(proc.req.off) THEN "NOMEM" ELSE "BUSY")
    /\ fq # <<>> => fq[1].off = Start(proc.req.off) /\ fq[1].len = Part(proc.req)
    /\ Succeeded(h0) => rbuf = Stretch(Start(proc.req.off), Part(proc.req))
EraseData ==
  proc.req.cmd = "ERASE_USERDATA" /\ Succeeded(h0) => flash[proc.req.img] = Blank
New == [val |-> proc.req.val, len |-> proc.req.len]
WriteData ==
  proc.req.cmd = "WRITE_USERDATA" =>
    /\ ram = New
    /\ Succeeded(h1) =>
         /\ Succeeded(h0) => flash[proc.req.img] = New
         /\ Failed(h0) /\ ~Succeeded(h0) => flash[proc.req.img] \in {Blank, Torn}
         /\ ~Succeeded(h0) /\ ~Failed(h0) => flash[proc.req.img] = Blank

Data == st = "BUSY" => ReadData /\ ImageData /\ EraseData /\ WriteData

IInv == Typed /\ Bounded /\ Kept /\ Reading /\ Resting /\ Working /\ Data

----------------------------------------------------------------------------
(* Requests and messages.                                                  *)

\* What the assumptions say of a request of each kind.
LEMMA RequestType ==
  ASSUME NEW r \in Requests
  PROVE  /\ r.img \in Images \cup {NoImage} /\ r.off \in Nat /\ r.len \in Nat
         /\ r.cmd \in {"LOAD_IMG", "LOAD_USERDATA", "WRITE_USERDATA", "ERASE_USERDATA"}
         /\ r.cmd = "LOAD_IMG" => r.off \in 0 .. ImgSize /\ r.len \in 1 .. ImgSize
         /\ r.cmd = "WRITE_USERDATA" => r.len \in 1 .. Cap + 1 /\ r.val \in Vals
<1>1. \/ r \in Request("LOAD_IMG", 0 .. ImgSize, 1 .. ImgSize, {"none"})
      \/ r \in Request("LOAD_USERDATA", {0}, 1 .. Cap, {"none"})
      \/ r \in Request("WRITE_USERDATA", {0}, 1 .. Cap + 1, Vals)
      \/ r \in Request("ERASE_USERDATA", {0}, {0}, {"none"})
  BY RequestAssumption
<1> QED
  BY <1>1, SizeAssumption DEF Request

LEMMA MsgType ==
  ASSUME NEW m \in Msg
  PROVE  m # NoMsg /\ m.from \in Clients /\ m.req \in Requests
<1>1. m.from \in Clients /\ m.req \in Requests
  BY DEF Msg
<1>2. m.req.cmd # "NONE"
  BY <1>1, RequestType
<1> QED
  BY <1>1, <1>2 DEF NoMsg, NoReq

\* The request being processed.
LEMMA ProcType ==
  ASSUME Typed, proc # NoMsg
  PROVE  proc \in Msg /\ proc.from \in Clients /\ proc.req \in Requests
  BY MsgType DEF Typed

\* The stretch of an image a load asks for is inside the image.
LEMMA StretchType ==
  ASSUME NEW r \in Requests, r.cmd = "LOAD_IMG"
  PROVE  /\ RestFrom(r.off) \in 1 .. ImgSize /\ Start(r.off) \in 0 .. ImgSize
         /\ Part(r) \in 1 .. ImgSize
  BY RequestType, SizeAssumption DEF RestFrom, Start, Least, Part

LEMMA QueueType ==
  ASSUME Typed
  PROVE  /\ Len(fq) \in Nat /\ (fq = <<>> <=> Len(fq) = 0)
         /\ \A i \in 1 .. Len(fq) : fq[i] \in FlashOp
         /\ fq # <<>> => /\ Head(fq) = fq[1] /\ Tail(fq) \in Seq(FlashOp)
                         /\ Len(Tail(fq)) = Len(fq) - 1
                         /\ \A i \in 1 .. Len(fq) - 1 : Tail(fq)[i] = fq[i + 1]
<1>1. fq \in Seq(FlashOp)
  BY DEF Typed
<1>2. Len(fq) \in Nat /\ \A i \in 1 .. Len(fq) : fq[i] \in FlashOp
  BY <1>1, LenProperties, ElementOfSeq
<1>3. fq = <<>> <=> Len(fq) = 0
  BY <1>1, EmptySeq
<1>4. ASSUME fq # <<>>
      PROVE  /\ Head(fq) = fq[1] /\ Tail(fq) \in Seq(FlashOp)
             /\ Len(Tail(fq)) = Len(fq) - 1
             /\ \A i \in 1 .. Len(fq) - 1 : Tail(fq)[i] = fq[i + 1]
  BY <1>1, <1>4, HeadTailProperties
<1> QED
  BY <1>2, <1>3, <1>4

----------------------------------------------------------------------------
(* Slots.                                                                  *)

LEMMA OthersFinite ==
  IsFiniteSet(OthersHold) /\ Cardinality(OthersHold) \in Nat
<1>1. IsFiniteSet(1 .. Slots)
  BY SizeAssumption, FS_Interval
<1>2. OthersHold \subseteq 1 .. Slots
  BY DEF OthersHold
<1> QED
  BY <1>1, <1>2, FS_Subset, FS_CardinalityType

\* The manager is idle: all that is not with others is free, at least two.
LEMMA TwoFree ==
  ASSUME Slots >= Others + 2, Typed, Bounded, Kept, st = "IDLE"
  PROVE  /\ FreeSlots # {} /\ ASlot(FreeSlots) \in FreeSlots
         /\ FreeSlots \ {ASlot(FreeSlots)} # {}
         /\ ASlot(FreeSlots \ {ASlot(FreeSlots)}) \in FreeSlots \ {ASlot(FreeSlots)}
         /\ Cardinality(FreeSlots) # 1
<1>1. FreeSlots = (1 .. Slots) \ OthersHold
  BY DEF FreeSlots, OthersHold, Kept, Held, Typed, TypeOK
<1>2. IsFiniteSet(1 .. Slots) /\ Cardinality(1 .. Slots) = Slots
  BY SizeAssumption, FS_Interval
<1>3. (1 .. Slots) \cap OthersHold = OthersHold
  BY DEF OthersHold
<1>4. IsFiniteSet(FreeSlots) /\ Cardinality(FreeSlots) = Slots - Cardinality(OthersHold)
  <2>1. /\ IsFiniteSet((1 .. Slots) \ OthersHold)
        /\ Cardinality((1 .. Slots) \ OthersHold) =
             Cardinality(1 .. Slots) - Cardinality((1 .. Slots) \cap OthersHold)
    BY <1>2, FS_Difference
  <2> QED
    BY <1>1, <1>2, <1>3, <2>1
<1>5. Cardinality(FreeSlots) >= 2
  BY <1>4, OthersFinite, SizeAssumption DEF Bounded
<1>6. FreeSlots # {}
  BY <1>4, <1>5, FS_EmptySet
<1>7. \A x : FreeSlots # {x}
  BY <1>4, <1>5, FS_Singleton
<1>8. ASlot(FreeSlots) \in FreeSlots
  BY <1>6 DEF ASlot
<1>9. FreeSlots \ {ASlot(FreeSlots)} # {}
  BY <1>7, <1>8
<1>10. ASlot(FreeSlots \ {ASlot(FreeSlots)}) \in FreeSlots \ {ASlot(FreeSlots)}
  BY <1>9 DEF ASlot
<1>11. Cardinality(FreeSlots) # 1
  BY <1>4, <1>5
<1> QED
  BY <1>6, <1>8, <1>9, <1>10, <1>11

\* Others' slots are as they were when no slot became theirs or left them.
LEMMA StillBounded ==
  ASSUME Bounded, \A h \in 1 .. Slots : slot'[h] = "other" <=> slot[h] = "other"
  PROVE  Bounded'
<1>1. OthersHold' = OthersHold
  BY DEF OthersHold
<1> QED
  BY <1>1 DEF Bounded

----------------------------------------------------------------------------
(* Steps that leave the request in progress alone.                         *)

\* The data stay when no operation succeeds and no buffer changes.
LEMMA DataKept ==
  ASSUME Data, Working,
         UNCHANGED <<flash, st, h0, h1, ram, rbuf, result, proc>>,
         proc.req.cmd = "LOAD_IMG" => fq' \in {fq, <<>>},
         st = "BUSY" => Succeeded(h0)' = Succeeded(h0),
         st = "BUSY" /\ h1 # 0 => Succeeded(h1)' = Succeeded(h1),
         st = "BUSY" /\ proc.req.cmd = "WRITE_USERDATA" => (Failed(h0) => Failed(h0)')
  PROVE  Data'
<1> SUFFICES ASSUME st = "BUSY" PROVE (ReadData /\ ImageData /\ EraseData /\ WriteData)'
  BY DEF Data
<1>1. ReadData /\ ImageData /\ EraseData /\ WriteData
  BY DEF Data
<1>2. Succeeded(h0)' = Succeeded(h0)
  OBVIOUS
<1>3. proc.req.cmd = "WRITE_USERDATA" => Succeeded(h1)' = Succeeded(h1)
  BY DEF Working
<1>4. ReadData'
  BY <1>1, <1>2 DEF ReadData
<1>5. ImageData'
  BY <1>1, <1>2 DEF ImageData
<1>6. EraseData'
  BY <1>1, <1>2 DEF EraseData
<1>7. WriteData'
  <2> SUFFICES ASSUME proc.req.cmd = "WRITE_USERDATA", Succeeded(h1)
               PROVE  /\ ram = New
                      /\ Succeeded(h0) => flash[proc.req.img] = New
                      /\ Failed(h0)' /\ ~Succeeded(h0) => flash[proc.req.img] \in {Blank, Torn}
                      /\ ~Succeeded(h0) /\ ~Failed(h0)' => flash[proc.req.img] = Blank
    BY <1>1, <1>2, <1>3 DEF WriteData, New
  <2>1. Failed(h0) => Failed(h0)'
    OBVIOUS
  <2> QED
    BY <1>1, <2>1 DEF WriteData
<1> QED
  BY <1>4, <1>5, <1>6, <1>7

LEMMA Frame ==
  ASSUME IInv, Typed',
         UNCHANGED <<flash, st, h0, h1, ram, rbuf, result, proc, slot, fq>>,
         fl' = fl \/ (fl = "rest" /\ fl' = "run" /\ fq # <<>>),
         st \in {"UNINIT", "ERROR"} => posted' = posted
  PROVE  IInv'
<1> USE DEF IInv
<1>1. \A h : Held(h)' = Held(h) /\ Succeeded(h)' = Succeeded(h)
  BY DEF Held, Succeeded
<1>2. Bounded'
  BY StillBounded
<1>3. Kept'
  BY <1>1 DEF Kept
<1>4. Reading' /\ Resting'
  BY <1>1 DEF Reading, Resting
<1>5. Working'
  BY <1>1 DEF Working
<1>6. Succeeded(h0)' = Succeeded(h0) /\ Succeeded(h1)' = Succeeded(h1)
  BY DEF Succeeded
<1>8. Failed(h0)' = Failed(h0)
  BY DEF Failed
<1>7. Data'
  BY <1>6, <1>8, DataKept
<1> QED
  BY <1>2, <1>3, <1>4, <1>5, <1>7

LEMMA CallInv ==
  ASSUME IInv, NEW c \in Clients, NEW r \in Requests, Call(c, r)
  PROVE  IInv'
<1> USE DEF IInv
<1>1. /\ cl[c].st = "idle" /\ st \in {"IDLE", "BUSY"}
      /\ posted' = Append(posted, [from |-> c, req |-> r])
      /\ cl' = [cl EXCEPT ![c].st = "waiting"] /\ evt' = evt \cup {"MSGQ"}
      /\ UNCHANGED <<tbl, flash, st, opState, userTbl, h0, h1, result, ram, rbuf, proc,
                     slot, fq, fl, faults, mode, spc, mask>>
  BY DEF Call, ptm, fm
<1>2. posted' \in Seq(Msg)
  BY <1>1 DEF Typed, Msg
<1>3. \A i \in DOMAIN posted' : posted'[i].from \in Clients /\ posted'[i].req \in Requests
  BY <1>2, MsgType, ElementOfSeq
<1>4. cl' = [d \in Clients |-> cl'[d]]
  <2>1. cl = [d \in Clients |-> cl[d]]
    BY DEF Typed
  <2> QED
    BY <1>1, <2>1
<1>5. Typed'
  BY <1>1, <1>2, <1>3, <1>4 DEF Typed, TypeOK, Events
<1> QED
  BY <1>1, <1>5, Frame

LEMMA GetStatusInv ==
  ASSUME IInv, NEW c \in Clients, GetStatus(c)
  PROVE  IInv'
<1> USE DEF IInv
<1>1. /\ \E d : cl' = [cl EXCEPT ![c] = d]
      /\ UNCHANGED <<tbl, flash, st, opState, userTbl, h0, h1, result, ram, rbuf, posted,
                     proc, slot, fq, fl, faults, mode, spc, evt, mask>>
  BY DEF GetStatus, ptm, fm
<1>2. cl' = [d \in Clients |-> cl'[d]]
  <2>1. cl = [d \in Clients |-> cl[d]]
    BY DEF Typed
  <2> QED
    BY <1>1, <2>1
<1>3. Typed'
  BY <1>1, <1>2 DEF Typed, TypeOK
<1> QED
  BY <1>1, <1>3, Frame

\* The event loop of the task.
LEMMA EventLoopInv ==
  ASSUME IInv, Shutdown \/ InitPTMEnd \/ WaitEvent \/ NoMessage
  PROVE  IInv'
<1> USE DEF IInv
<1>1. UNCHANGED <<tbl, flash, st, opState, userTbl, h0, h1, result, ram, rbuf, posted,
                  proc, cl, slot, fq, fl, faults>>
  BY DEF Shutdown, InitPTMEnd, WaitEvent, NoMessage, ptm, msgs, fm
<1>2. /\ evt' \subseteq Events /\ mask' \subseteq Events
      /\ mode' \in {"init", "main", "stopped"} /\ spc' \in {"wait", "flsmgr", "ptm"}
  BY DEF Shutdown, InitPTMEnd, WaitEvent, NoMessage, EndOfRound, Typed, TypeOK, Events
<1>3. Typed'
  BY <1>1, <1>2 DEF Typed, TypeOK
<1> QED
  BY <1>1, <1>3, Frame

----------------------------------------------------------------------------
(* The other clients of the flash manager. *)

LEMMA OtherClientInv ==
  ASSUME IInv, NEW h \in 1 .. Slots, OtherClient(h)
  PROVE  IInv'
<1> USE DEF IInv
<1>1. UNCHANGED <<tbl, flash, st, opState, userTbl, h0, h1, result, ram, rbuf, posted, proc,
                  cl, fq, fl, faults, mode, spc, evt, mask>>
  BY DEF OtherClient, ptm, msgs
<1>2. PICK s \in {"other", "init"} :
        /\ slot' = [slot EXCEPT ![h] = s] /\ slot[h] \in {"other", "init"}
        /\ s = "other" => slot[h] = "init" /\ Cardinality(OthersHold) < Others
        /\ s = "init" => slot[h] = "other"
  BY DEF OtherClient, OthersHold
<1>3. slot \in [1 .. Slots -> {"init", "other", "posted", "SUCCESS", "FAILED"}]
  BY DEF Typed, TypeOK
<1>4. \A k : k \in 1 .. Slots /\ slot[k] \notin {"other", "init"} => slot'[k] = slot[k]
  BY <1>2, <1>3
<1>5. \A k \in 1 .. Slots : /\ Held(k)' = Held(k) /\ (Succeeded(k)' = Succeeded(k))
                            /\ slot'[k] = "posted" <=> slot[k] = "posted"
  BY <1>1, <1>2, <1>3 DEF Held, Succeeded
<1>6. Typed'
  <2>1. \A i \in DOMAIN fq : slot'[fq[i].h] = "posted"
    <3> SUFFICES ASSUME NEW i \in DOMAIN fq PROVE slot'[fq[i].h] = "posted"
      OBVIOUS
    <3>1. DOMAIN fq = 1 .. Len(fq)
      BY LenProperties DEF Typed
    <3>2. fq[i] \in FlashOp
      BY <3>1, QueueType
    <3>3. fq[i].h \in 1 .. Slots /\ slot[fq[i].h] = "posted"
      BY <3>2 DEF Typed, TypeOK, FlashOp
    <3> QED
      BY <1>5, <3>3
  <2>2. slot' \in [1 .. Slots -> {"init", "other", "posted", "SUCCESS", "FAILED"}]
    BY <1>2, <1>3
  <2> QED
    BY <1>1, <2>1, <2>2 DEF Typed, TypeOK
<1>7. Bounded'
  <2>1. CASE s = "other"
    <3>1. OthersHold' = OthersHold \cup {h} /\ h \notin OthersHold
      BY <1>2, <1>3, <2>1 DEF OthersHold
    <3>2. Cardinality(OthersHold \cup {h}) = Cardinality(OthersHold) + 1
      BY <3>1, OthersFinite, FS_AddElement
    <3> QED
      BY <1>2, <2>1, <3>1, <3>2, OthersFinite, SizeAssumption DEF Bounded
  <2>2. CASE s = "init"
    <3>1. OthersHold' = OthersHold \ {h} /\ h \in OthersHold
      BY <1>2, <1>3, <2>2 DEF OthersHold
    <3>2. Cardinality(OthersHold \ {h}) = Cardinality(OthersHold) - 1
      BY <3>1, OthersFinite, FS_RemoveElement
    <3> QED
      BY <3>1, <3>2, OthersFinite, SizeAssumption DEF Bounded
  <2> QED
    BY <2>1, <2>2
<1>8. h0 \in 0 .. Slots /\ h1 \in 0 .. Slots
  BY DEF Typed, TypeOK
<1>9. \A k \in {h0, h1} : k # 0 =>
         /\ Held(k)' = Held(k) /\ Succeeded(k)' = Succeeded(k)
         /\ slot'[k] = "posted" <=> slot[k] = "posted"
  BY <1>5, <1>8
<1>10. Kept'
  BY <1>1, <1>5 DEF Kept
<1>11. Reading' /\ Resting'
  BY <1>1, <1>9 DEF Reading, Resting
<1>12. Working'
  BY <1>1, <1>9 DEF Working
<1>13. Data'
  <2>1. st = "BUSY" => slot'[h0] = slot[h0] /\ (h1 # 0 => slot'[h1] = slot[h1])
    BY <1>4, <1>8 DEF Working, Held
  <2>2. st = "BUSY" => Succeeded(h0)' = Succeeded(h0)
    BY <1>1, <2>1 DEF Succeeded
  <2>3. st = "BUSY" /\ h1 # 0 => Succeeded(h1)' = Succeeded(h1)
    BY <1>1, <2>1 DEF Succeeded
  <2>4. st = "BUSY" => Failed(h0)' = Failed(h0)
    BY <1>1, <2>1 DEF Failed
  <2> QED
    BY <1>1, <2>2, <2>3, <2>4, DataKept
<1> QED
  BY <1>6, <1>7, <1>10, <1>11, <1>12, <1>13

----------------------------------------------------------------------------
(* The flash.                                                              *)

\* The message in progress: the only read of the tables, or one of the request's.
LEMMA HeadOf ==
  ASSUME IInv, fq # <<>>
  PROVE  /\ Head(fq) = fq[1] /\ fq[1] \in FlashOp /\ slot[fq[1].h] = "posted"
         /\ st # "IDLE"
         /\ st # "BUSY" => proc = NoMsg /\ fq[1].op = "READ" /\ Len(fq) = 1
         /\ st = "BUSY" =>
              /\ proc # NoMsg /\ proc.req \in Requests
              /\ fq[1].img = proc.req.img /\ proc.req.img \in Images
              /\ slot[h0] = "posted"
              /\ \/ /\ Len(fq) = 1 /\ fq[1].h = h0 /\ fq[1].op = LastOp(proc.req.cmd)
                    /\ h1 # 0 => h1 # h0 /\ slot[h1] # "posted"
                 \/ /\ Len(fq) = 2 /\ proc.req.cmd = "WRITE_USERDATA" /\ h1 # h0 /\ h1 # 0
                    /\ fq[1].h = h1 /\ fq[1].op = "ERASE" /\ slot[h1] = "posted"
                    /\ fq[2].h = h0 /\ fq[2].op = "WRITE"
<1> USE DEF IInv
<1>1. Head(fq) = fq[1] /\ Len(fq) \in Nat /\ Len(fq) # 0 /\ \A i \in 1 .. Len(fq) : fq[i] \in FlashOp
  BY QueueType
<1>2. 1 \in 1 .. Len(fq) /\ 1 \in DOMAIN fq
  BY <1>1, LenProperties DEF Typed
<1>3. fq[1] \in FlashOp /\ slot[fq[1].h] = "posted"
  BY <1>1, <1>2 DEF Typed, TypeOK
<1>4. st # "IDLE" /\ st \in {"UNINIT", "IDLE", "BUSY", "ERROR"}
  BY DEF Resting, Typed, TypeOK
<1>n. PICK n \in Nat : n = Len(fq)
  BY <1>1
<1>5. ASSUME st # "BUSY" PROVE proc = NoMsg /\ fq[1].op = "READ" /\ Len(fq) = 1
  BY <1>1, <1>2, <1>4, <1>5, <1>n DEF Reading
<1>6. ASSUME st = "BUSY"
      PROVE  /\ proc # NoMsg /\ fq[1].img = proc.req.img /\ proc.req.img \in Images
             /\ slot[h0] = "posted"
  BY <1>1, <1>2, <1>6 DEF Working
<1>7. ASSUME st = "BUSY" PROVE proc.req \in Requests
  BY <1>6, <1>7, ProcType
<1>8. ASSUME st = "BUSY"
      PROVE  \/ /\ Len(fq) = 1 /\ fq[1].h = h0 /\ fq[1].op = LastOp(proc.req.cmd)
                /\ h1 # 0 => h1 # h0 /\ slot[h1] # "posted"
             \/ /\ Len(fq) = 2 /\ proc.req.cmd = "WRITE_USERDATA" /\ h1 # h0 /\ h1 # 0
                /\ fq[1].h = h1 /\ fq[1].op = "ERASE" /\ slot[h1] = "posted"
                /\ fq[2].h = h0 /\ fq[2].op = "WRITE"
  <2>1. Len(fq) = 1 \/ (Len(fq) = 2 /\ h1 # 0)
    BY <1>1, <1>8, <1>n DEF Working
  <2>2. CASE Len(fq) = 1
    BY <1>8, <2>2 DEF Working
  <2>3. CASE Len(fq) = 2 /\ h1 # 0
    BY <1>8, <2>3 DEF Working
  <2> QED
    BY <2>1, <2>2, <2>3
<1> QED
  BY <1>1, <1>3, <1>4, <1>5, <1>6, <1>7, <1>8

LEMMA HwDoneInv ==
  ASSUME IInv, HwDone
  PROVE  IInv'
<1> USE DEF IInv
<1> DEFINE m == fq[1]
<1>1. UNCHANGED <<tbl, st, opState, userTbl, h0, h1, result, posted, proc, cl, slot, fq,
                  mode, spc, mask>>
  BY DEF HwDone, ptm, msgs
<1>2. fl = "run" /\ fq # <<>>
  BY DEF HwDone, Resting
<1>3. m = Head(fq) /\ m \in FlashOp /\ slot[m.h] = "posted"
  BY <1>2, HeadOf
<1>4. /\ evt' = evt \cup {"FLASH"} /\ fl' \in {"SUCCESS", "FAILED"}
      /\ fl' = "FAILED" => /\ m.op \in FaultKinds /\ faults > 0 /\ faults' = faults - 1
                           /\ flash' = IF m.op = "READ" THEN flash ELSE [flash EXCEPT ![m.img] = Torn]
                           /\ ram' = IF m.op = "READ" /\ proc.req.cmd = "LOAD_USERDATA"
                                     THEN Torn ELSE ram
                           /\ rbuf' = rbuf
      /\ fl' = "SUCCESS" => faults' = faults
  BY <1>3 DEF HwDone, MayFail
<1>5. ASSUME fl' = "SUCCESS"
      PROVE  /\ m.op = "ERASE" =>
                  flash' = [flash EXCEPT ![m.img] = Blank] /\ UNCHANGED <<ram, rbuf>>
             /\ m.op = "WRITE" =>
                  /\ flash' = [flash EXCEPT ![m.img] = IF flash[m.img] = Blank THEN ram ELSE Torn]
                  /\ UNCHANGED <<ram, rbuf>>
             /\ m.op = "READ" /\ proc.req.cmd = "LOAD_USERDATA" =>
                  ram' = flash[m.img] /\ UNCHANGED <<flash, rbuf>>
             /\ m.op = "READ" /\ proc.req.cmd = "LOAD_IMG" =>
                  rbuf' = Stretch(m.off, m.len) /\ UNCHANGED <<flash, ram>>
             /\ m.op = "READ" /\ proc = NoMsg => UNCHANGED <<flash, ram, rbuf>>
  <2>1. CASE m.op = "ERASE"
    BY <1>3, <1>5, <2>1 DEF HwDone
  <2>2. CASE m.op = "WRITE"
    BY <1>3, <1>5, <2>2 DEF HwDone
  <2>3. CASE m.op = "READ" /\ proc.req.cmd = "LOAD_USERDATA"
    <3>1. proc # NoMsg /\ m.op # "ERASE" /\ m.op # "WRITE"
      BY <2>3 DEF NoMsg, NoReq
    <3> QED
      BY <1>3, <1>5, <2>3, <3>1 DEF HwDone
  <2>4. CASE m.op = "READ" /\ proc.req.cmd = "LOAD_IMG"
    <3>1. proc # NoMsg /\ m.op # "ERASE" /\ m.op # "WRITE"
      BY <2>4 DEF NoMsg, NoReq
    <3> QED
      BY <1>3, <1>5, <2>4, <3>1 DEF HwDone
  <2>5. CASE m.op = "READ" /\ proc = NoMsg
    BY <1>3, <1>5, <2>5 DEF HwDone, NoMsg, NoReq
  <2> QED
    BY <2>1, <2>2, <2>3, <2>4, <2>5
<1>10. \A h : Held(h)' = Held(h)
  BY <1>1 DEF Held
<1>11. Blank \in Content /\ Torn \in Content /\ ram \in Content /\ flash \in [Images -> Content]
  BY DEF Content, Typed, TypeOK
<1>12. CASE st # "BUSY"
  <2>1. proc = NoMsg /\ m.op = "READ"
    BY <1>2, <1>12, HeadOf
  <2>2. UNCHANGED <<flash, ram, rbuf>>
    BY <1>4, <1>5, <2>1 DEF NoMsg, NoReq
  <2>3. evt' \subseteq Events /\ faults' \in 0 .. MaxFaults
    BY <1>4, SizeAssumption DEF Typed, TypeOK, Events
  <2>6. Typed'
    BY <1>1, <1>4, <2>2, <2>3 DEF Typed, TypeOK
  <2>4. Bounded' /\ Kept' /\ Reading' /\ Resting'
    BY <1>1, <1>2, <1>10, StillBounded DEF Kept, Reading, Resting
  <2>5. Working' /\ Data'
    BY <1>1, <1>12 DEF Working, Data
  <2> QED
    BY <2>6, <2>4, <2>5
<1>13. CASE st = "BUSY"
  <2> DEFINE r == proc.req
             DataStep == /\ Data' /\ flash' \in [Images -> Content] /\ ram' \in Content
                         /\ rbuf' \in {Torn} \cup {Stretch(o, l) : o \in 0 .. ImgSize,
                                                                 l \in 1 .. ImgSize}
  <2>1. /\ proc # NoMsg /\ r \in Requests /\ m.img = r.img /\ r.img \in Images
        /\ slot[h0] = "posted" /\ proc' = proc
    BY <1>1, <1>2, <1>13, HeadOf
  <2>2. \/ /\ Len(fq) = 1 /\ m.h = h0 /\ m.op = LastOp(r.cmd)
           /\ h1 # 0 => h1 # h0 /\ slot[h1] # "posted"
        \/ /\ Len(fq) = 2 /\ r.cmd = "WRITE_USERDATA" /\ h1 # h0 /\ h1 # 0
           /\ m.h = h1 /\ m.op = "ERASE" /\ slot[h1] = "posted"
    BY <1>2, <1>13, HeadOf
  <2>3. r.cmd \in {"LOAD_IMG", "LOAD_USERDATA", "WRITE_USERDATA", "ERASE_USERDATA"}
    BY <2>1, RequestType
  <2>4. h1 # 0 <=> r.cmd = "WRITE_USERDATA"
    BY <1>13 DEF Working
  <2>5. ReadData /\ ImageData /\ EraseData /\ WriteData
    BY <1>13 DEF Data
  <2>6. fl' = "FAILED" => flash' \in [Images -> Content] /\ ram' \in Content /\ rbuf' = rbuf
    BY <1>4, <1>11
  <2>7. /\ ~Succeeded(h0)
        /\ Succeeded(h0)' <=> (m.h = h0 /\ fl' = "SUCCESS")
        /\ (h1 # 0 /\ m.h # h1) => (Succeeded(h1)' <=> Succeeded(h1))
        /\ (h1 # 0 /\ m.h = h1) => (Succeeded(h1)' <=> fl' = "SUCCESS")
    BY <1>1, <1>2, <1>3, <1>4, <2>1 DEF Succeeded
  <2>8. ASSUME r.cmd = "LOAD_USERDATA" PROVE DataStep
    <3>1. m.op = "READ" /\ m.h = h0
      BY <2>2, <2>4, <2>8 DEF LastOp
    <3>2. /\ flash' = flash /\ rbuf' = rbuf
          /\ fl' = "SUCCESS" => ram' = flash[r.img]
          /\ fl' = "FAILED" => ram' = Torn
      BY <1>4, <1>5, <2>1, <2>8, <3>1
    <3>3. ReadData'
      BY <1>1, <1>4, <2>1, <2>7, <2>8, <3>1, <3>2 DEF ReadData
    <3>4. Data'
      BY <1>1, <2>1, <2>8, <3>3 DEF Data, ImageData, EraseData, WriteData
    <3> QED
      BY <1>4, <1>11, <2>1, <3>2, <3>4 DEF Typed, TypeOK
  <2>9. ASSUME r.cmd = "LOAD_IMG" PROVE DataStep
    <3>1. m.op = "READ" /\ m.h = h0
      BY <2>2, <2>4, <2>9 DEF LastOp
    <3>2. m.off = Start(r.off) /\ m.len = Part(r)
      BY <1>2, <2>5, <2>9 DEF ImageData
    <3>3. /\ flash' = flash /\ ram' = ram
          /\ fl' = "SUCCESS" => rbuf' = Stretch(Start(r.off), Part(r))
          /\ fl' = "FAILED" => rbuf' = rbuf
      BY <1>4, <1>5, <2>1, <2>9, <3>1, <3>2
    <3>6. ImageData'
      BY <1>1, <1>4, <2>1, <2>5, <2>7, <2>9, <3>1, <3>3 DEF ImageData
    <3>4. Data'
      BY <1>1, <2>1, <2>9, <3>6 DEF Data, ReadData, EraseData, WriteData
    <3>5. Start(r.off) \in 0 .. ImgSize /\ Part(r) \in 1 .. ImgSize
      BY <2>1, <2>9, StretchType
    <3> QED
      BY <1>4, <1>11, <2>1, <3>3, <3>4, <3>5 DEF Typed, TypeOK
  <2>10. ASSUME r.cmd = "ERASE_USERDATA" PROVE DataStep
    <3>1. m.op = "ERASE" /\ m.h = h0
      BY <2>2, <2>4, <2>10 DEF LastOp
    <3>2. /\ ram' = ram /\ rbuf' = rbuf
          /\ flash' = [flash EXCEPT ![r.img] = IF fl' = "SUCCESS" THEN Blank ELSE Torn]
      BY <1>4, <1>5, <2>1, <2>10, <3>1
    <3>3. flash' \in [Images -> Content] /\ (fl' = "SUCCESS" => flash'[r.img] = Blank)
      BY <1>11, <2>1, <3>2
    <3>5. EraseData'
      BY <1>1, <1>4, <2>1, <2>7, <2>10, <3>1, <3>3 DEF EraseData
    <3>4. Data'
      BY <1>1, <2>1, <2>10, <3>5 DEF Data, ReadData, ImageData, WriteData
    <3> QED
      BY <1>11, <3>2, <3>3, <3>4 DEF Typed, TypeOK
  <2>11. ASSUME r.cmd = "WRITE_USERDATA" PROVE DataStep
    <3>1. h1 # 0 /\ ram = New /\ New' = New
      BY <1>1, <2>4, <2>5, <2>11 DEF WriteData, New
    <3>2. CASE m.op = "ERASE"
      <4>1. m.h = h1 /\ h1 # h0
        BY <2>2, <2>11, <3>2 DEF LastOp
      <4>2. /\ ram' = ram /\ rbuf' = rbuf
            /\ flash' = [flash EXCEPT ![r.img] = IF fl' = "SUCCESS" THEN Blank ELSE Torn]
        BY <1>4, <1>5, <2>1, <2>11, <3>2
      <4>3. flash' \in [Images -> Content] /\ (fl' = "SUCCESS" => flash'[r.img] = Blank)
        BY <1>11, <2>1, <4>2
      <4>6. ~Succeeded(h0)' /\ ~Failed(h0)'
        BY <1>1, <1>2, <2>1, <4>1 DEF Failed, Succeeded
      <4>4. WriteData'
        BY <4>6, <1>1, <1>4, <2>1, <2>7, <2>11, <3>1, <4>1, <4>2, <4>3 DEF WriteData
      <4>5. Data'
        BY <1>1, <2>1, <2>11, <4>4 DEF Data, ReadData, ImageData, EraseData
      <4> QED
        BY <1>11, <4>2, <4>3, <4>5 DEF Typed, TypeOK
    <3>3. CASE m.op = "WRITE"
      <4>1. m.h = h0 /\ h1 # h0
        BY <2>2, <2>11, <3>1, <3>3
      <4>2. /\ ram' = ram /\ rbuf' = rbuf
            /\ flash' = [flash EXCEPT ![r.img] = 
                           IF fl' = "SUCCESS" /\ flash[r.img] = Blank THEN ram ELSE Torn]
        BY <1>4, <1>5, <2>1, <2>11, <3>3
      <4>3. /\ flash' \in [Images -> Content]
            /\ fl' = "SUCCESS" /\ flash[r.img] = Blank => flash'[r.img] = New
            /\ fl' = "FAILED" => flash'[r.img] = Torn
        BY <1>4, <1>11, <2>1, <3>1, <4>2
      <4>4. ~Succeeded(h0) /\ ~Failed(h0)
        BY <1>2, <2>1, <4>1 DEF Failed, Succeeded
      <4>7. /\ fl' = "SUCCESS" => Succeeded(h0)' /\ ~Failed(h0)'
            /\ fl' = "FAILED" => ~Succeeded(h0)' /\ Failed(h0)'
        BY <1>1, <1>2, <2>1, <4>1 DEF Failed, Succeeded
      <4>8. Succeeded(h1)' = Succeeded(h1) /\ r' = r
        BY <1>1, <1>2, <2>1, <4>1 DEF Succeeded
      <4>9. Succeeded(h1) => flash[r.img] = Blank
        BY <2>5, <2>11, <4>4 DEF WriteData
      <4>10. fl' \in {"SUCCESS", "FAILED"}
        BY <1>4
      <4>5. WriteData'
        BY <2>11, <3>1, <4>2, <4>3, <4>7, <4>8, <4>9, <4>10 DEF WriteData
      <4>6. Data'
        BY <1>1, <2>1, <2>11, <4>5 DEF Data, ReadData, ImageData, EraseData
      <4> QED
        BY <1>11, <4>2, <4>3, <4>6 DEF Typed, TypeOK
    <3> QED
      BY <2>2, <2>11, <3>2, <3>3 DEF LastOp
  <2>12. DataStep
    BY <2>3, <2>8, <2>9, <2>10, <2>11
  <2>13. evt' \subseteq Events /\ faults' \in 0 .. MaxFaults
    BY <1>4, SizeAssumption DEF Typed, TypeOK, Events
  <2>14. Typed'
    BY <1>1, <1>4, <2>12, <2>13 DEF Typed, TypeOK
  <2>15. Bounded' /\ Kept' /\ Reading' /\ Resting'
    BY <1>1, <1>2, <1>10, StillBounded DEF Kept, Reading, Resting
  <2>16. Working'
    BY <1>1, <1>10, <1>13 DEF Working
  <2> QED
    BY <2>12, <2>14, <2>15, <2>16
<1> QED
  BY <1>12, <1>13

----------------------------------------------------------------------------
(* FLSMGR_EventHandler.                                                    *)

\* The first message of the flash manager's queue is completed.
LEMMA FlsmgrCompleteInv ==
  ASSUME IInv, fq # <<>>, NEW res \in {"SUCCESS", "FAILED"},
         res = "SUCCESS" <=> fl = "SUCCESS",
         FlsmgrComplete(res), fl' = "rest", faults' \in 0 .. MaxFaults,
         UNCHANGED <<tbl, flash, st, opState, userTbl, h0, h1, result, ram, rbuf, posted,
                     proc, cl, mask>>
  PROVE  IInv'
<1> USE DEF IInv
<1> DEFINE m == fq[1]
<1>1. /\ Head(fq) = m /\ m \in FlashOp /\ slot[m.h] = "posted" /\ st # "IDLE"
      /\ st # "BUSY" => Len(fq) = 1
  BY HeadOf
<1>2. /\ slot' = [slot EXCEPT ![m.h] = res] /\ fq' = Tail(fq)
      /\ evt' = evt \cup {"OPDONE"} /\ UNCHANGED <<mode, spc>>
  BY <1>1 DEF FlsmgrComplete
<1>3. /\ m.h \in 1 .. Slots
      /\ slot \in [1 .. Slots -> {"init", "other", "posted", "SUCCESS", "FAILED"}]
      /\ h0 \in 0 .. Slots /\ h1 \in 0 .. Slots
  BY <1>1 DEF FlashOp, Typed, TypeOK
<1>4. /\ slot' \in [1 .. Slots -> {"init", "other", "posted", "SUCCESS", "FAILED"}]
      /\ slot'[m.h] = res /\ \A h \in 1 .. Slots : h # m.h => slot'[h] = slot[h]
  BY <1>2, <1>3
<1>5. Len(fq) \in Nat /\ \A i \in 1 .. Len(fq) : fq[i] \in FlashOp
  BY QueueType
<1>6. /\ fq' \in Seq(FlashOp) /\ Len(fq') = Len(fq) - 1
      /\ \A i \in 1 .. Len(fq') : fq'[i] = fq[i + 1]
  BY <1>2, QueueType
<1>7. fq' = <<>> <=> Len(fq') = 0
  BY <1>6, EmptySeq
<1>8. ASSUME Len(fq) = 1 PROVE fq' = <<>> /\ Len(fq') = 0
  BY <1>6, <1>7, <1>8
<1>9. ASSUME Len(fq) = 2 PROVE fq' # <<>> /\ Len(fq') = 1 /\ fq'[1] = fq[2]
  BY <1>6, <1>7, <1>9
<1>10. CASE st # "BUSY"
  <2>1. Len(fq) = 1 /\ fq' = <<>> /\ Len(fq') = 0
    BY <1>1, <1>8, <1>10
  <2>2. DOMAIN fq' = {}
    BY <2>1
  <2>3. evt' \subseteq Events
    BY <1>2 DEF Typed, TypeOK, Events
  <2>4. Typed'
    BY <1>2, <1>4, <1>6, <1>10, <2>2, <2>3 DEF Typed, TypeOK
  <2>5. st \in {"UNINIT", "ERROR"}
    BY <1>1, <1>10 DEF Typed, TypeOK
  <2>6. st = "UNINIT" => m.h = h0
    BY <1>1, <1>3, <2>5 DEF Reading, Kept, Held
  <2>7. Bounded' /\ Kept'
    BY <1>1, <1>3, <1>4, StillBounded DEF Kept, Held
  <2>8. Reading'
    BY <1>4, <2>1, <2>5, <2>6 DEF Reading, Held
  <2>9. Resting' /\ Working' /\ Data'
    BY <2>5 DEF Resting, Working, Data
  <2> QED
    BY <2>4, <2>7, <2>8, <2>9
<1>11. CASE st = "BUSY"
  <2>1. /\ proc # NoMsg /\ slot[h0] = "posted"
        /\ \/ /\ Len(fq) = 1 /\ m.h = h0 /\ (h1 # 0 => h1 # h0 /\ slot[h1] # "posted")
           \/ /\ Len(fq) = 2 /\ proc.req.cmd = "WRITE_USERDATA" /\ h1 # h0 /\ h1 # 0
              /\ m.h = h1 /\ slot[h1] = "posted" /\ fq[2].h = h0 /\ fq[2].op = "WRITE"
    BY <1>11, HeadOf
  <2>2. h0 # 0 /\ (h1 # 0 <=> proc.req.cmd = "WRITE_USERDATA") /\ (h1 # 0 => Held(h1))
    BY <1>11 DEF Working
  <2>3. \A i \in 1 .. Len(fq) : fq[i].img = proc.req.img
    BY <1>11 DEF Working
  <2>4. \A h \in 1 .. Slots : Held(h)' = Held(h) /\ (slot'[h] = "other" <=> slot[h] = "other")
    BY <1>1, <1>3, <1>4 DEF Held
  <2>5. Bounded' /\ Kept'
    BY <2>4, StillBounded DEF Kept
  <2>6. Reading' /\ Resting'
    BY <1>11 DEF Reading, Resting
  <2>7. evt' \subseteq Events
    BY <1>2 DEF Typed, TypeOK, Events
  <2>8. /\ Held(h0)' = Held(h0) /\ (h1 # 0 => Held(h1)' = Held(h1))
    BY <1>3, <1>4, <2>1, <2>2 DEF Held
  <2>9. CASE Len(fq) = 1
    <3>1. /\ m.h = h0 /\ fq' = <<>> /\ Len(fq') = 0 /\ slot'[h0] = res
          /\ h1 # 0 => h1 # h0 /\ slot'[h1] = slot[h1] /\ slot[h1] # "posted"
      BY <1>3, <1>4, <1>8, <2>1, <2>9
    <3>2. Typed'
      BY <1>2, <1>4, <1>6, <1>11, <2>1, <2>7, <3>1 DEF Typed, TypeOK
    <3>3. Working'
      BY <1>11, <2>1, <2>2, <2>8, <3>1 DEF Working
    <3>4. Succeeded(h0)' = Succeeded(h0)
      BY <2>1, <3>1 DEF Succeeded
    <3>5. h1 # 0 => Succeeded(h1)' = Succeeded(h1)
      BY <3>1 DEF Succeeded
    <3>8. Failed(h0) => Failed(h0)'
      BY <2>1, <3>1 DEF Failed
    <3>6. Data'
      BY <3>1, <3>4, <3>5, <3>8, DataKept
    <3> QED
      BY <2>5, <2>6, <3>2, <3>3, <3>6
  <2>10. CASE Len(fq) = 2
    <3>1. /\ m.h = h1 /\ h1 # h0 /\ h1 # 0 /\ proc.req.cmd = "WRITE_USERDATA"
          /\ fq' # <<>> /\ Len(fq') = 1 /\ fq'[1] = fq[2] /\ fq[2].h = h0 /\ fq[2].op = "WRITE"
          /\ slot'[h1] = res /\ slot'[h0] = "posted"
      BY <1>3, <1>4, <1>9, <2>1, <2>2, <2>10
    <3>2. fq'[1].img = proc.req.img
      BY <2>3, <2>10, <3>1
    <3>3. \A i \in DOMAIN fq' : slot'[fq'[i].h] = "posted"
      <4>1. DOMAIN fq' = 1 .. 1
        BY <1>6, <3>1, LenProperties
      <4> QED
        BY <3>1, <4>1
    <3>4. Typed'
      BY <1>2, <1>4, <1>6, <1>11, <2>1, <2>7, <3>3 DEF Typed, TypeOK
    <3>5. Working'
      BY <1>11, <2>1, <2>2, <2>8, <3>1, <3>2 DEF Working, LastOp
    <3>6. Succeeded(h0)' = Succeeded(h0)
      BY <2>1, <3>1 DEF Succeeded
    <3>7. Succeeded(h1)' = Succeeded(h1)
      BY <2>1, <3>1 DEF Succeeded
    <3>9. ~Failed(h0)
      BY <2>1, <3>1 DEF Failed
    <3>8. Data'
      BY <3>1, <3>6, <3>7, <3>9, DataKept
    <3> QED
      BY <2>5, <2>6, <3>4, <3>5, <3>8
  <2> QED
    BY <2>1, <2>9, <2>10
<1> QED
  BY <1>10, <1>11

LEMMA FlsmgrEventHandlerInv ==
  ASSUME IInv, FlsmgrEventHandler
  PROVE  IInv'
<1> USE DEF IInv
<1>1. UNCHANGED <<tbl, flash, st, opState, userTbl, h0, h1, result, ram, rbuf, posted, proc,
                  cl, mask>>
  BY DEF FlsmgrEventHandler, ptm, msgs
<1>2. \/ FlsmgrReturn /\ faults' = faults /\ (fl' = fl \/ (fl = "rest" /\ fl' = "run" /\ fq # <<>>))
      \/ /\ fq # <<>> /\ fl = "rest" /\ faults > 0 /\ faults' = faults - 1
         /\ FlsmgrComplete("FAILED") /\ fl' = fl
      \/ fq # <<>> /\ fl \in {"SUCCESS", "FAILED"} /\ FlsmgrComplete(fl) /\ fl' = "rest"
         /\ faults' = faults
  BY DEF FlsmgrEventHandler, MayFail
<1>3. CASE FlsmgrReturn /\ faults' = faults
           /\ (fl' = fl \/ (fl = "rest" /\ fl' = "run" /\ fq # <<>>))
  <2>1. /\ UNCHANGED <<slot, fq, evt>> /\ spc' \in {"wait", "ptm"}
        /\ mode' \in {"init", "main", "stopped"} /\ fl' \in {"rest", "run", "SUCCESS", "FAILED"}
    BY <1>3 DEF FlsmgrReturn, EndOfRound, Typed, TypeOK
  <2>2. Typed'
    BY <1>1, <1>3, <2>1 DEF Typed, TypeOK
  <2> QED
    BY <1>1, <1>3, <2>1, <2>2, Frame
<1>4. CASE /\ fq # <<>> /\ fl = "rest" /\ faults > 0 /\ faults' = faults - 1
           /\ FlsmgrComplete("FAILED") /\ fl' = fl
  <2>1. faults' \in 0 .. MaxFaults
    BY <1>4, SizeAssumption DEF Typed, TypeOK
  <2> QED
    BY <1>1, <1>4, <2>1, FlsmgrCompleteInv
<1>5. CASE fq # <<>> /\ fl \in {"SUCCESS", "FAILED"} /\ FlsmgrComplete(fl) /\ fl' = "rest"
           /\ faults' = faults
  <2>1. faults' \in 0 .. MaxFaults
    BY <1>5 DEF Typed, TypeOK
  <2> QED
    BY <1>1, <1>5, <2>1, FlsmgrCompleteInv
<1> QED
  BY <1>2, <1>3, <1>4, <1>5

----------------------------------------------------------------------------
(* PTM_EventHandler.                                                       *)

LEMMA GetMsgIdxInv ==
  ASSUME IInv, GetMsgIdx
  PROVE  IInv'
<1> USE DEF IInv
<1>1. /\ proc = NoMsg /\ posted # <<>> /\ st # "UNINIT"
      /\ proc' = Head(posted) /\ posted' = Tail(posted) /\ result' = "UNKNOWN"
      /\ UNCHANGED <<tbl, flash, st, opState, userTbl, h0, h1, ram, rbuf, cl, slot, fq, fl,
                     faults, mode, spc, evt, mask>>
  BY DEF GetMsgIdx, fm
<1>2. posted \in Seq(Msg)
  BY DEF Typed
<1>3. Head(posted) \in Msg /\ Tail(posted) \in Seq(Msg)
  BY <1>1, <1>2, HeadTailProperties
<1>4. st = "IDLE"
  BY <1>1 DEF Working, Reading, Typed, TypeOK
<1>5. \A i \in DOMAIN posted' : posted'[i].from \in Clients /\ posted'[i].req \in Requests
  BY <1>1, <1>3, MsgType, ElementOfSeq
<1>6. proc'.from \in Clients /\ proc'.req \in Requests
  BY <1>1, <1>3, MsgType
<1>7. Typed'
  BY <1>1, <1>3, <1>4, <1>5, <1>6 DEF Typed, TypeOK, Results
<1>8. Bounded' /\ Kept'
  BY <1>1, StillBounded DEF Kept, Held
<1>9. Reading' /\ Resting' /\ Working' /\ Data'
  BY <1>1, <1>4 DEF Reading, Resting, Working, Data
<1> QED
  BY <1>7, <1>8, <1>9

\* A result that is received gives its slot back; all else stays.
LEMMA ReceivedSlots ==
  ASSUME Typed, NEW hs
  PROVE  /\ Received(hs) \in [1 .. Slots -> {"init", "other", "posted", "SUCCESS", "FAILED"}]
         /\ \A h \in 1 .. Slots :
              Received(hs)[h] = IF h \in hs /\ slot[h] \in {"SUCCESS", "FAILED"} THEN "init" ELSE slot[h]
  BY DEF Received, Typed, TypeOK

LEMMA UnInitStateHandlerInv ==
  ASSUME IInv, spc = "ptm", UnInitStateHandler
  PROVE  IInv'
<1> USE DEF IInv
<1> DEFINE freed == Received({h0})
           hs == {h \in 1 .. Slots : freed[h] = "init"}
           x == ASlot(hs)
<1>1. /\ st = "UNINIT"
      /\ UNCHANGED <<tbl, flash, h1, result, ram, rbuf, posted, proc, cl, fl, faults, mask>>
  BY DEF UnInitStateHandler, msgs
<1>2. /\ h1 = 0 /\ proc = NoMsg /\ posted = <<>> /\ Len(fq) <= 1
      /\ \A i \in 1 .. Len(fq) : fq[i].op = "READ"
      /\ h0 # 0 /\ Held(h0) /\ (slot[h0] = "posted" <=> fq # <<>>)
  BY <1>1 DEF Reading
<1>3. h0 \in 1 .. Slots
  BY <1>2 DEF Typed, TypeOK
<1>4. /\ freed \in [1 .. Slots -> {"init", "other", "posted", "SUCCESS", "FAILED"}]
      /\ \A h \in 1 .. Slots :
           freed[h] = IF h = h0 /\ slot[h] \in {"SUCCESS", "FAILED"} THEN "init" ELSE slot[h]
  BY ReceivedSlots
<1>5. \A h \in 1 .. Slots : Held(h) => h = h0
  BY <1>2 DEF Kept
<1>6. CASE FlashGetOpsResult(h0) = "SUCCESS" /\ opState = "USER"
  <2>1. /\ st' = "IDLE" /\ userTbl' = ("USER" \in tbl) /\ slot' = freed
        /\ UNCHANGED <<opState, h0, fq, evt, mode, spc>>
    BY <1>6 DEF UnInitStateHandler
  <2>2. slot[h0] = "SUCCESS" /\ fq = <<>>
    BY <1>2, <1>3, <1>6 DEF FlashGetOpsResult, Held
  <2>3. \A h \in 1 .. Slots : /\ ~Held(h)'
                              /\ slot'[h] = "other" <=> slot[h] = "other"
    BY <1>4, <1>5, <2>1, <2>2 DEF Held
  <2>4. Typed'
    <3>1. DOMAIN fq = {}
      BY <2>2
    <3>2. userTbl' \in BOOLEAN
      BY <2>1
    <3>3. slot' \in [1 .. Slots -> {"init", "other", "posted", "SUCCESS", "FAILED"}]
      BY <1>4, <2>1
    <3> HIDE DEF freed
    <3> QED
      BY <1>1, <1>2, <2>1, <3>1, <3>2, <3>3 DEF Typed, TypeOK
  <2>5. Bounded' /\ Kept'
    BY <2>3, StillBounded DEF Kept
  <2>6. Reading' /\ Resting' /\ Working' /\ Data'
    BY <1>1, <1>2, <2>1, <2>2 DEF Reading, Resting, Working, Data
  <2> QED
    BY <2>4, <2>5, <2>6
<1>7. CASE FlashGetOpsResult(h0) = "SUCCESS" /\ opState # "USER" /\ opState \in tbl /\ hs # {}
  <2>1. /\ h0' = x /\ opState' = NextTable[opState]
        /\ slot' = [freed EXCEPT ![x] = "posted"]
        /\ fq' = Append(fq, FlashMsg(x, "READ", NoReq))
        /\ evt' = evt \cup {"FMSGQ"}
        /\ EndOfRound
        /\ UNCHANGED <<st, userTbl>>
    BY <1>7 DEF UnInitStateHandler
  <2>2. slot[h0] = "SUCCESS" /\ fq = <<>>
    BY <1>2, <1>3, <1>7 DEF FlashGetOpsResult, Held
  <2>3. x \in 1 .. Slots /\ freed[x] = "init"
    BY <1>7 DEF ASlot
  <2> DEFINE msg == FlashMsg(x, "READ", NoReq)
  <2>4. msg \in FlashOp /\ msg.h = x /\ msg.op = "READ"
    BY <2>3 DEF FlashMsg, FlashOp, NoReq
  <2> HIDE DEF freed, hs, x, msg
  <2>5. /\ fq' = <<msg>> /\ fq' \in Seq(FlashOp) /\ Len(fq') = 1 /\ fq'[1] = msg
        /\ DOMAIN fq' = {1} /\ fq' # <<>>
    BY <2>1, <2>2, <2>4 DEF msg
  <2>6. /\ slot' \in [1 .. Slots -> {"init", "other", "posted", "SUCCESS", "FAILED"}]
        /\ slot'[x] = "posted"
        /\ \A h \in 1 .. Slots : h # x => slot'[h] = freed[h]
    BY <1>4, <2>1, <2>3
  <2>7. \A h \in 1 .. Slots : /\ Held(h)' => h = x
                              /\ slot'[h] = "other" <=> slot[h] = "other"
    BY <1>4, <1>5, <2>2, <2>3, <2>6 DEF Held
  <2>8. /\ evt' \subseteq Events /\ opState' \in Tables
        /\ mode' \in {"init", "main", "stopped"} /\ spc' \in {"wait", "flsmgr", "ptm"}
    BY <2>1 DEF Typed, TypeOK, Events, Tables, NextTable, EndOfRound
  <2>9. \A i \in DOMAIN fq' : slot'[fq'[i].h] = "posted"
    BY <2>4, <2>5, <2>6
  <2>10. Typed'
    BY <1>1, <1>2, <2>1, <2>3, <2>5, <2>6, <2>8, <2>9 DEF Typed, TypeOK
  <2>11. Bounded'
    BY <2>7, StillBounded
  <2>12. Kept'
    BY <1>1, <2>1, <2>7 DEF Kept
  <2>13. Held(h0)' /\ slot'[h0'] = "posted"
    BY <2>1, <2>6 DEF Held
  <2>14. Reading'
    BY <1>1, <1>2, <2>1, <2>3, <2>4, <2>5, <2>13 DEF Reading
  <2>15. Resting' /\ Working' /\ Data'
    BY <1>1, <2>1, <2>5 DEF Resting, Working, Data
  <2> QED
    BY <2>10, <2>11, <2>12, <2>14, <2>15
<1>8. CASE /\ ~(FlashGetOpsResult(h0) = "SUCCESS" /\ opState = "USER")
           /\ ~(FlashGetOpsResult(h0) = "SUCCESS" /\ opState # "USER" /\ opState \in tbl /\ hs # {})
  <2>1. st' = "ERROR" /\ slot' = freed /\ EndOfRound /\ UNCHANGED <<opState, userTbl, h0, fq, evt>>
    BY <1>8 DEF UnInitStateHandler
  <2>2. \A h \in 1 .. Slots : /\ Held(h)' => Held(h)
                              /\ slot'[h] = "other" <=> slot[h] = "other"
                              /\ slot[h] = "posted" => slot'[h] = "posted"
    BY <1>4, <2>1 DEF Held
  <2>3. \A i \in DOMAIN fq : slot'[fq[i].h] = "posted"
    <3>1. \A i \in DOMAIN fq : fq[i].h \in 1 .. Slots /\ slot[fq[i].h] = "posted"
      <4>1. DOMAIN fq = 1 .. Len(fq)
        BY LenProperties DEF Typed
      <4>2. \A i \in DOMAIN fq : fq[i] \in FlashOp
        BY <4>1, QueueType
      <4> QED
        BY <4>2 DEF Typed, TypeOK, FlashOp
    <3> QED
      BY <2>2, <3>1
  <2>4. mode' \in {"init", "main", "stopped"} /\ spc' \in {"wait", "flsmgr", "ptm"}
    BY <2>1 DEF Typed, TypeOK, EndOfRound
  <2>8. slot' \in [1 .. Slots -> {"init", "other", "posted", "SUCCESS", "FAILED"}]
    BY <1>4, <2>1
  <2>9. UNCHANGED <<opState, userTbl, h0, fq, evt>> /\ st' = "ERROR"
    BY <2>1
  <2>5. Typed'
    BY <1>1, <1>2, <2>3, <2>4, <2>8, <2>9 DEF Typed, TypeOK
  <2>6. Bounded' /\ Kept'
    BY <1>1, <2>1, <2>2, StillBounded DEF Kept
  <2>7. Reading' /\ Resting' /\ Working' /\ Data'
    BY <1>1, <1>2, <2>1 DEF Reading, Resting, Working, Data
  <2> QED
    BY <2>5, <2>6, <2>7
<1> QED
  BY <1>6, <1>7, <1>8

\* PTM_IdleStateHandler completes the message at once.
LEMMA RefuseInv ==
  ASSUME IInv, st = "IDLE", proc # NoMsg, NEW res, Refuse(res),
         UNCHANGED <<tbl, flash, opState, userTbl, h0, h1, ram, rbuf, posted, slot, fq, fl,
                     faults, evt, mask>>
  PROVE  IInv'
<1> USE DEF IInv
<1>1. /\ proc' = NoMsg /\ result' = "NONE" /\ UNCHANGED <<st, mode, spc>>
      /\ \E d : cl' = [cl EXCEPT ![proc.from] = d]
  BY DEF Refuse, Complete
<1>2. cl' = [c \in Clients |-> cl'[c]]
  <2>1. cl = [c \in Clients |-> cl[c]]
    BY DEF Typed
  <2> QED
    BY <1>1, <2>1
<1>3. Typed'
  BY <1>1, <1>2 DEF Typed, TypeOK, Results
<1>4. Bounded' /\ Kept' /\ Reading' /\ Resting' /\ Working' /\ Data'
  BY <1>1, StillBounded DEF Kept, Held, Reading, Resting, Working, Data
<1> QED
  BY <1>3, <1>4

\* PTM_IdleStateHandler posts the one message of a load or an erase.
LEMMA OneSentInv ==
  ASSUME IInv, st = "IDLE", proc # NoMsg, proc.req.img \in Images,
         proc.req.cmd # "WRITE_USERDATA",
         NEW x \in FreeSlots, NEW msg \in FlashOp, msg.h = x, msg.img = proc.req.img,
         msg.op = LastOp(proc.req.cmd),
         Send({x}, <<msg>>), h0' = x, Begin, result' \in Results, rbuf' \in {rbuf, Torn},
         proc.req.cmd = "LOAD_IMG" =>
           /\ result' = (IF proc.req.len < RestFrom(proc.req.off) THEN "NOMEM" ELSE "BUSY")
           /\ msg.off = Start(proc.req.off) /\ msg.len = Part(proc.req),
         UNCHANGED <<tbl, flash, opState, userTbl, h1, ram, posted, fl, faults, mask>>
  PROVE  IInv'
<1> USE DEF IInv
<1>1. /\ fq = <<>> /\ h1 = 0 /\ fl = "rest"
  BY DEF Resting
<1>2. /\ x \in 1 .. Slots /\ slot[x] = "init"
      /\ slot \in [1 .. Slots -> {"init", "other", "posted", "SUCCESS", "FAILED"}]
  BY DEF FreeSlots, Typed, TypeOK
<1>3. /\ st' = "BUSY" /\ UNCHANGED <<proc, cl>> /\ evt' = evt \cup {"FMSGQ"}
      /\ mode' \in {"init", "main", "stopped"} /\ spc' \in {"wait", "flsmgr", "ptm"}
  BY DEF Begin, Send, EndOfRound, Typed, TypeOK
<1>4. /\ slot' \in [1 .. Slots -> {"init", "other", "posted", "SUCCESS", "FAILED"}]
      /\ slot'[x] = "posted" /\ \A h \in 1 .. Slots : h # x => slot'[h] = slot[h]
  BY <1>2 DEF Send
<1>5. /\ fq' = <<msg>> /\ fq' \in Seq(FlashOp) /\ Len(fq') = 1 /\ fq'[1] = msg
      /\ DOMAIN fq' = {1} /\ fq' # <<>>
  <2>1. fq' = <<msg>>
    BY <1>1 DEF Send
  <2> QED
    BY <2>1
<1>6. \A i \in DOMAIN fq' : slot'[fq'[i].h] = "posted"
  BY <1>4, <1>5
<1>7. Typed'
  <2>1. evt' \subseteq Events
    BY <1>3 DEF Typed, TypeOK, Events
  <2>2. rbuf' \in {Torn} \cup {Stretch(o, l) : o \in 0 .. ImgSize, l \in 1 .. ImgSize}
    BY DEF Typed, TypeOK
  <2> QED
    BY <1>2, <1>3, <1>4, <1>5, <1>6, <2>1, <2>2 DEF Typed, TypeOK
<1>8. \A h \in 1 .. Slots : /\ Held(h)' => h = x
                            /\ slot'[h] = "other" <=> slot[h] = "other"
  BY <1>2, <1>4 DEF Held, Kept
<1>9. Bounded' /\ Kept'
  BY <1>3, <1>8, StillBounded DEF Kept
<1>10. Reading' /\ Resting'
  BY <1>3, <1>5 DEF Reading, Resting
<1>11. Held(h0)' /\ slot'[h0'] = "posted" /\ ~Succeeded(h0)'
  BY <1>1, <1>4, <1>5 DEF Held, Succeeded
<1>12. Working'
  BY <1>1, <1>2, <1>3, <1>5, <1>11 DEF Working
<1>13. Data'
  <2>1. ImageData'
    BY <1>3, <1>5, <1>11 DEF ImageData
  <2> QED
    BY <1>3, <1>11, <2>1 DEF Data, ReadData, EraseData, WriteData
<1> QED
  BY <1>7, <1>9, <1>10, <1>12, <1>13

\* PTM_IdleStateHandler posts the erase and the write of a write.
LEMMA TwoSentInv ==
  ASSUME IInv, st = "IDLE", proc # NoMsg, proc.req.img \in Images,
         proc.req.cmd = "WRITE_USERDATA",
         NEW e \in FreeSlots, NEW w \in FreeSlots, w # e,
         NEW me \in FlashOp, me.h = e, me.img = proc.req.img, me.op = "ERASE",
         NEW mw \in FlashOp, mw.h = w, mw.img = proc.req.img, mw.op = "WRITE",
         Send({e, w}, <<me, mw>>), h0' = w, h1' = e, Begin, ram' = New, New \in Content,
         UNCHANGED <<tbl, flash, opState, userTbl, result, rbuf, posted, fl, faults, mask>>
  PROVE  IInv'
<1> USE DEF IInv
<1>1. /\ fq = <<>> /\ fl = "rest"
  BY DEF Resting
<1>2. /\ e \in 1 .. Slots /\ slot[e] = "init" /\ w \in 1 .. Slots /\ slot[w] = "init"
      /\ slot \in [1 .. Slots -> {"init", "other", "posted", "SUCCESS", "FAILED"}]
  BY DEF FreeSlots, Typed, TypeOK
<1>3. /\ st' = "BUSY" /\ UNCHANGED <<proc, cl>> /\ evt' = evt \cup {"FMSGQ"}
      /\ mode' \in {"init", "main", "stopped"} /\ spc' \in {"wait", "flsmgr", "ptm"}
  BY DEF Begin, Send, EndOfRound, Typed, TypeOK
<1>4. /\ slot' \in [1 .. Slots -> {"init", "other", "posted", "SUCCESS", "FAILED"}]
      /\ slot'[e] = "posted" /\ slot'[w] = "posted"
      /\ \A h \in 1 .. Slots : h # e /\ h # w => slot'[h] = slot[h]
  BY <1>2 DEF Send
<1>5. /\ fq' = <<me, mw>> /\ fq' \in Seq(FlashOp) /\ Len(fq') = 2 /\ fq'[1] = me
      /\ fq'[2] = mw /\ DOMAIN fq' = {1, 2} /\ fq' # <<>>
  <2>1. fq' = <<me, mw>>
    BY <1>1 DEF Send
  <2> QED
    BY <2>1
<1>6. \A i \in DOMAIN fq' : slot'[fq'[i].h] = "posted"
  BY <1>4, <1>5
<1>7. Typed'
  <2>1. evt' \subseteq Events
    BY <1>3 DEF Typed, TypeOK, Events
  <2> QED
    BY <1>2, <1>3, <1>4, <1>5, <1>6, <2>1 DEF Typed, TypeOK
<1>8. \A h \in 1 .. Slots : /\ Held(h)' => h \in {e, w}
                            /\ slot'[h] = "other" <=> slot[h] = "other"
  BY <1>2, <1>4 DEF Held, Kept
<1>9. Bounded' /\ Kept'
  BY <1>3, <1>8, StillBounded DEF Kept
<1>10. Reading' /\ Resting'
  BY <1>3, <1>5 DEF Reading, Resting
<1>11. /\ Held(h0)' /\ slot'[h0'] = "posted" /\ Held(h1)' /\ slot'[h1'] = "posted"
       /\ ~Succeeded(h1)' /\ ~Failed(h0)'
  BY <1>1, <1>4, <1>5 DEF Held, Succeeded, Failed
<1>12. Working'
  BY <1>2, <1>3, <1>5, <1>11 DEF Working
<1>13. Data'
  <2>1. WriteData'
    BY <1>3, <1>11 DEF WriteData, New
  <2> QED
    BY <1>3, <2>1 DEF Data, ReadData, EraseData, ImageData
<1> QED
  BY <1>7, <1>9, <1>10, <1>12, <1>13

LEMMA IdleStateHandlerInv ==
  ASSUME Slots >= Others + 2, IInv, IdleStateHandler
  PROVE  IInv'
<1> USE DEF IInv
<1> DEFINE r == proc.req
           x == ASlot(FreeSlots)
           y == ASlot(FreeSlots \ {x})
<1>1. /\ st = "IDLE" /\ proc # NoMsg
      /\ UNCHANGED <<tbl, flash, opState, userTbl, posted, fl, faults, mask>>
  BY DEF IdleStateHandler
<1>2. /\ FreeSlots # {} /\ x \in FreeSlots /\ y \in FreeSlots /\ y # x
      /\ Cardinality(FreeSlots) # 1
  BY <1>1, TwoFree
<1>3. r \in Requests /\ r.off \in Nat /\ r.len \in Nat
  BY <1>1, ProcType, RequestType
<1>4. result = "UNKNOWN"
  BY <1>1 DEF Resting
<1>5. x \in 1 .. Slots /\ y \in 1 .. Slots
  BY <1>2 DEF FreeSlots
<1>6. LoadImg(r) \/ LoadUserData(r) \/ WriteUserData(r) \/ EraseUserData(r)
  BY DEF IdleStateHandler
<1>7. Entry(r) => r.img \in Images
  BY DEF Entry
<1> HIDE DEF x, y
<1>8. CASE LoadImg(r)
  <2> DEFINE size == RestFrom(r.off)
             read == [r EXCEPT !.off = Start(r.off), !.len = IF r.len < size THEN r.len ELSE size]
  <2>1. r.cmd = "LOAD_IMG" /\ UNCHANGED <<h1, ram>>
    BY <1>8 DEF LoadImg
  <2>2. CASE ~Entry(r)
    <3>1. Refuse("NOT_FOUND") /\ UNCHANGED <<h0, slot, fq, evt, rbuf>>
      BY <1>8, <2>2 DEF LoadImg
    <3> QED
      BY <1>1, <2>1, <3>1, RefuseInv
  <2>3. CASE Entry(r)
    <3> DEFINE msg == FlashMsg(x, "READ", read)
    <3>1. /\ Send({x}, <<msg>>) /\ h0' = x /\ rbuf' = Torn /\ Begin
          /\ result' = IF r.len < size THEN "NOMEM" ELSE "BUSY"
      BY <1>2, <1>8, <2>3 DEF LoadImg, x
    <3>2. Start(r.off) \in Nat /\ Part(r) \in Nat
      BY <1>3, <2>1, StretchType
    <3>3. /\ msg.h = x /\ msg.op = "READ" /\ msg.img = r.img
          /\ msg.off = Start(r.off) /\ msg.len = Part(r) /\ msg \in FlashOp
      <4>1. r \in [cmd : {"LOAD_IMG"}, img : Images \cup {NoImage}, off : 0 .. ImgSize,
                   len : 1 .. ImgSize, val : {"none"}]
        BY <1>3, <2>1, RequestAssumption DEF Request
      <4>2. read.img = r.img /\ read.off = Start(r.off) /\ read.len = Part(r)
        BY <4>1 DEF Part, Least
      <4> HIDE DEF read
      <4> QED
        BY <1>5, <3>2, <4>1, <4>2 DEF FlashMsg, FlashOp
    <3> HIDE DEF msg
    <3>4. result' \in Results
      BY <3>1 DEF Results
    <3>5. msg.op = LastOp(r.cmd)
      BY <2>1, <3>3 DEF LastOp
    <3> QED
      BY <1>1, <1>2, <1>7, <2>1, <2>3, <3>1, <3>3, <3>4, <3>5, OneSentInv
  <2> QED
    BY <2>2, <2>3
<1>9. CASE LoadUserData(r)
  <2>1. r.cmd = "LOAD_USERDATA" /\ UNCHANGED <<h1, ram, rbuf>>
    BY <1>9 DEF LoadUserData
  <2>2. CASE ~Entry(r)
    <3>1. Refuse("NOT_FOUND") /\ UNCHANGED <<h0, slot, fq, evt>>
      BY <1>9, <2>2 DEF LoadUserData
    <3> QED
      BY <1>1, <2>1, <3>1, RefuseInv
  <2>3. CASE Entry(r)
    <3> DEFINE msg == FlashMsg(x, "READ", r)
    <3>1. Send({x}, <<msg>>) /\ h0' = x /\ Begin /\ UNCHANGED result
      BY <1>2, <1>9, <2>3 DEF LoadUserData, x
    <3>2. msg.h = x /\ msg.op = LastOp(r.cmd) /\ msg.img = r.img /\ msg \in FlashOp
      BY <1>3, <1>5, <1>7, <2>1, <2>3 DEF FlashMsg, FlashOp, LastOp
    <3> HIDE DEF msg
    <3>3. result' \in Results
      BY <1>4, <3>1 DEF Results
    <3> QED
      BY <1>1, <1>2, <1>7, <2>1, <2>3, <3>1, <3>2, <3>3, OneSentInv
  <2> QED
    BY <2>2, <2>3
<1>10. CASE WriteUserData(r)
  <2>1. r.cmd = "WRITE_USERDATA" /\ UNCHANGED rbuf
    BY <1>10 DEF WriteUserData
  <2>2. CASE ~Entry(r) \/ ~Fits(r)
    <3>1. Refuse(result) /\ UNCHANGED <<h0, h1, ram, slot, fq, evt>>
      BY <1>10, <2>2 DEF WriteUserData
    <3> QED
      BY <1>1, <2>1, <3>1, RefuseInv
  <2>3. CASE Entry(r) /\ Fits(r)
    <3> DEFINE me == FlashMsg(x, "ERASE", r)
               mw == FlashMsg(y, "WRITE", r)
    <3>1. /\ ram' = New /\ Send({x, y}, <<me, mw>>) /\ h0' = y /\ h1' = x /\ Begin
          /\ UNCHANGED result
      BY <1>2, <1>10, <2>3 DEF WriteUserData, New, x, y
    <3>2. /\ me.h = x /\ me.op = "ERASE" /\ me.img = r.img /\ me \in FlashOp
          /\ mw.h = y /\ mw.op = "WRITE" /\ mw.img = r.img /\ mw \in FlashOp
      BY <1>3, <1>5, <1>7, <2>3 DEF FlashMsg, FlashOp
    <3> HIDE DEF me, mw
    <3>3. New \in Content
      <4>1. r.len \in 1 .. Cap + 1 /\ r.val \in Vals
        BY <1>3, <2>1, RequestType
      <4>2. r.len \in 1 .. Cap
        BY <2>3, <4>1, SizeAssumption DEF Fits
      <4> QED
        BY <4>1, <4>2 DEF New, Content, Payload
    <3> QED
      BY <1>1, <1>2, <1>7, <2>1, <2>3, <3>1, <3>2, <3>3, TwoSentInv
  <2> QED
    BY <2>2, <2>3
<1>11. CASE EraseUserData(r)
  <2>1. r.cmd = "ERASE_USERDATA" /\ UNCHANGED <<h1, ram, rbuf>>
    BY <1>11 DEF EraseUserData
  <2>2. CASE ~Entry(r)
    <3>1. Refuse(result) /\ UNCHANGED <<h0, slot, fq, evt>>
      BY <1>11, <2>2 DEF EraseUserData
    <3> QED
      BY <1>1, <2>1, <3>1, RefuseInv
  <2>3. CASE Entry(r)
    <3> DEFINE msg == FlashMsg(x, "ERASE", r)
    <3>1. Send({x}, <<msg>>) /\ h0' = x /\ Begin /\ UNCHANGED result
      BY <1>2, <1>11, <2>3 DEF EraseUserData, x
    <3>2. msg.h = x /\ msg.op = LastOp(r.cmd) /\ msg.img = r.img /\ msg \in FlashOp
      BY <1>3, <1>5, <1>7, <2>1, <2>3 DEF FlashMsg, FlashOp, LastOp
    <3> HIDE DEF msg
    <3>3. result' \in Results
      BY <1>4, <3>1 DEF Results
    <3> QED
      BY <1>1, <1>2, <1>7, <2>1, <2>3, <3>1, <3>2, <3>3, OneSentInv
  <2> QED
    BY <2>2, <2>3
<1> QED
  BY <1>6, <1>8, <1>9, <1>10, <1>11

\* What PTM_BusyStateHandler finds when the operations are over.
LEMMA WhenDone ==
  ASSUME IInv, st = "BUSY", FlashGetOpsResult(WaitedHdr) # "PENDING"
  PROVE  /\ fq = <<>> /\ h0 \in 1 .. Slots /\ slot[h0] \in {"SUCCESS", "FAILED"}
         /\ h1 # 0 => h1 \in 1 .. Slots /\ slot[h1] \in {"SUCCESS", "FAILED"}
         /\ h1 # 0 <=> proc.req.cmd = "WRITE_USERDATA"
         /\ OpsResult = IF h1 # 0 THEN slot[h1] ELSE slot[h0]
<1> USE DEF IInv
<1>1. /\ h0 # 0 /\ Held(h0) /\ (slot[h0] = "posted" <=> fq # <<>>)
      /\ h1 # 0 <=> proc.req.cmd = "WRITE_USERDATA"
      /\ h1 # 0 => Held(h1) /\ (slot[h1] = "posted" <=> Len(fq) = 2)
  BY DEF Working
<1>2. h0 \in 1 .. Slots /\ (h1 # 0 => h1 \in 1 .. Slots)
  BY <1>1 DEF Typed, TypeOK
<1>3. slot[h0] \in {"SUCCESS", "FAILED"}
  BY <1>1 DEF FlashGetOpsResult, WaitedHdr, Held
<1>4. fq = <<>> /\ Len(fq) = 0
  BY <1>1, <1>3
<1>5. h1 # 0 => slot[h1] \in {"SUCCESS", "FAILED"}
  BY <1>1, <1>4 DEF Held
<1>6. OpsResult = IF h1 # 0 THEN slot[h1] ELSE slot[h0]
  BY <1>1, <1>3, <1>5 DEF OpsResult, FlashGetOpsResult
<1> QED
  BY <1>1, <1>2, <1>3, <1>4, <1>5, <1>6

LEMMA BusyStateHandlerInv ==
  ASSUME IInv, BusyStateHandler
  PROVE  IInv'
<1> USE DEF IInv
<1>1. /\ st = "BUSY"
      /\ UNCHANGED <<tbl, flash, opState, userTbl, ram, posted, fq, fl, faults, evt, mask>>
  BY DEF BusyStateHandler
<1>2. CASE FlashGetOpsResult(WaitedHdr) = "PENDING"
  <2>1. /\ UNCHANGED <<st, h0, h1, result, rbuf, proc, cl, slot>>
        /\ mode' \in {"init", "main", "stopped"} /\ spc' \in {"wait", "flsmgr", "ptm"}
    BY <1>2 DEF BusyStateHandler, EndOfRound, Typed, TypeOK
  <2>2. Typed'
    BY <1>1, <2>1 DEF Typed, TypeOK
  <2> QED
    BY <1>1, <2>1, <2>2, Frame
<1>3. CASE FlashGetOpsResult(WaitedHdr) # "PENDING"
  <2>1. /\ slot' = Received(HdrsReceived) /\ proc' = NoMsg /\ UNCHANGED <<mode, spc>>
        /\ h0' = 0 /\ h1' = 0 /\ st' = "IDLE" /\ result' = "NONE" /\ rbuf' = Torn
        /\ \E d : cl' = [cl EXCEPT ![proc.from] = d]
    BY <1>3 DEF BusyStateHandler, Complete
  <2>2. /\ fq = <<>> /\ h0 \in 1 .. Slots /\ slot[h0] \in {"SUCCESS", "FAILED"}
        /\ h1 # 0 => h1 \in 1 .. Slots /\ slot[h1] \in {"SUCCESS", "FAILED"}
    BY <1>1, <1>3, WhenDone
  <2>3. /\ slot' \in [1 .. Slots -> {"init", "other", "posted", "SUCCESS", "FAILED"}]
        /\ \A h \in 1 .. Slots :
             slot'[h] = IF h \in HdrsReceived /\ slot[h] \in {"SUCCESS", "FAILED"}
                        THEN "init" ELSE slot[h]
    BY <2>1, ReceivedSlots
  <2>4. \A h \in 1 .. Slots : ~Held(h)' /\ (slot'[h] = "other" <=> slot[h] = "other")
    BY <2>2, <2>3 DEF Held, HdrsReceived, Kept
  <2>5. cl' = [c \in Clients |-> cl'[c]]
    <3>1. cl = [c \in Clients |-> cl[c]]
      BY DEF Typed
    <3> QED
      BY <2>1, <3>1
  <2>6. Typed'
    <3>1. DOMAIN fq' = {}
      BY <1>1, <2>2
    <3>2. UNCHANGED <<mode, spc>> /\ proc' = NoMsg /\ h0' = 0 /\ h1' = 0 /\ st' = "IDLE"
          /\ result' = "NONE" /\ rbuf' = Torn
      BY <2>1
    <3>3. slot' \in [1 .. Slots -> {"init", "other", "posted", "SUCCESS", "FAILED"}]
      BY <2>3
    <3>4. 0 \in 0 .. Slots
      BY SizeAssumption
    <3>5. TypeOK'
      BY <1>1, <3>1, <3>2, <3>3, <3>4 DEF Typed, TypeOK, Results
    <3> QED
      BY <1>1, <2>5, <3>2, <3>5 DEF Typed
  <2>7. Bounded' /\ Kept'
    BY <2>4, StillBounded DEF Kept
  <2>8. Reading' /\ Resting' /\ Working' /\ Data'
    BY <1>1, <2>1, <2>2 DEF Reading, Resting, Working, Data
  <2> QED
    BY <2>6, <2>7, <2>8
<1> QED
  BY <1>2, <1>3

----------------------------------------------------------------------------
(* The whole.                                                              *)

LEMMA InitInv ==
  ASSUME Init
  PROVE  IInv
<1>1. 1 \in 1 .. Slots /\ MaxFaults \in Nat
  BY SizeAssumption
<1> DEFINE msg == FlashMsg(1, "READ", NoReq)
<1>2. msg \in FlashOp /\ msg.h = 1 /\ msg.op = "READ"
  BY <1>1 DEF FlashMsg, FlashOp, NoReq
<1>3. fq = <<msg>>
  BY DEF Init
<1> HIDE DEF msg
<1>4. /\ fq \in Seq(FlashOp) /\ Len(fq) = 1 /\ DOMAIN fq = {1} /\ fq[1] = msg /\ fq # <<>>
  BY <1>2, <1>3
<1>5. /\ slot \in [1 .. Slots -> {"init", "other", "posted", "SUCCESS", "FAILED"}]
      /\ slot[1] = "posted" /\ \A h \in 1 .. Slots : h # 1 => slot[h] = "init"
  BY <1>1 DEF Init
<1>6. /\ st = "UNINIT" /\ opState = "PT" /\ userTbl = FALSE /\ h0 = 1 /\ h1 = 0
      /\ ram = Blank /\ rbuf = Torn /\ result = "NONE" /\ posted = <<>> /\ proc = NoMsg
      /\ fl = "rest" /\ faults = MaxFaults /\ mode = "init" /\ spc = "wait"
      /\ evt = {"FMSGQ"} /\ mask = {} /\ tbl \subseteq Tables
      /\ flash \in [Images -> Content]
      /\ cl = [c \in Clients |-> [st |-> "idle", res |-> "NONE", data |-> NoData]]
  BY DEF Init
<1>7. Typed
  <2>1. \A i \in DOMAIN fq : slot[fq[i].h] = "posted"
    BY <1>2, <1>4, <1>5
  <2>2. posted \in Seq(Msg) /\ DOMAIN posted = {}
    BY <1>6
  <2>3. cl = [c \in Clients |-> cl[c]]
    BY <1>6
  <2>4. /\ ram \in Content /\ opState \in Tables /\ result \in Results /\ evt \subseteq Events
    BY <1>6 DEF Content, Results, Tables, Events
  <2>7. faults \in 0 .. MaxFaults /\ h0 \in 0 .. Slots /\ h1 \in 0 .. Slots
    BY <1>6, SizeAssumption
  <2>5. slot \in [1 .. Slots -> {"init", "other", "posted", "SUCCESS", "FAILED"}]
    BY <1>5
  <2>8. userTbl \in BOOLEAN
    BY <1>6
  <2>9. /\ tbl \subseteq Tables /\ flash \in [Images -> Content]
        /\ st \in {"UNINIT", "IDLE", "BUSY", "ERROR"}
        /\ rbuf \in {Torn} \cup {Stretch(o, l) : o \in 0 .. ImgSize, l \in 1 .. ImgSize}
        /\ fl \in {"rest", "run", "SUCCESS", "FAILED"}
        /\ mode \in {"init", "main", "stopped"} /\ spc \in {"wait", "flsmgr", "ptm"}
        /\ mask \subseteq Events /\ proc = NoMsg /\ st # "BUSY"
    BY <1>6
  <2>6. TypeOK
    BY <2>1, <2>2, <2>4, <2>5, <2>7, <2>8, <2>9 DEF TypeOK
  <2> QED
    BY <1>4, <1>6, <2>2, <2>3, <2>6 DEF Typed
<1>8. Bounded
  <2>1. OthersHold = {}
    BY <1>5 DEF OthersHold
  <2> QED
    BY <2>1, FS_EmptySet, SizeAssumption DEF Bounded
<1>9. Kept /\ Reading /\ Resting /\ Working /\ Data
  BY <1>1, <1>2, <1>4, <1>5, <1>6 DEF Kept, Held, Reading, Resting, Working, Data
<1> QED
  BY <1>7, <1>8, <1>9 DEF IInv

LEMMA NextInv ==
  ASSUME Slots >= Others + 2, IInv, [Next]_vars
  PROVE  IInv'
<1>1. CASE Next
  <2>1. CASE \E c \in Clients : GetStatus(c) \/ \E r \in Requests : Call(c, r)
    BY <2>1, GetStatusInv, CallInv
  <2>2. CASE \E h \in 1 .. Slots : OtherClient(h)
    BY <2>2, OtherClientInv
  <2>3. CASE HwDone
    BY <2>3, HwDoneInv
  <2>4. CASE Shutdown \/ InitPTMEnd \/ WaitEvent \/ NoMessage
    BY <2>4, EventLoopInv
  <2>5. CASE FlsmgrEventHandler
    BY <2>5, FlsmgrEventHandlerInv
  <2>6. CASE spc = "ptm" /\ UnInitStateHandler
    BY <2>6, UnInitStateHandlerInv
  <2>7. CASE GetMsgIdx
    BY <2>7, GetMsgIdxInv
  <2>8. CASE IdleStateHandler
    BY <2>8, IdleStateHandlerInv
  <2>9. CASE BusyStateHandler
    BY <2>9, BusyStateHandlerInv
  <2> QED
    BY <1>1, <2>1, <2>2, <2>3, <2>4, <2>5, <2>6, <2>7, <2>8, <2>9
    DEF Next, ServerStep, PtmStep
<1>2. CASE UNCHANGED vars
  <2>1. UNCHANGED <<tbl, flash, st, opState, userTbl, h0, h1, ram, rbuf, result, posted, proc,
                    cl, slot, fq, fl, faults, mode, spc, evt, mask>>
    BY <1>2 DEF vars
  <2>2. Typed'
    BY <2>1 DEF IInv, Typed, TypeOK
  <2> QED
    BY <2>1, <2>2, Frame
<1> QED
  BY <1>1, <1>2

\* The invariant holds of every behaviour when the flash manager's queue has two
\* slots more than its other clients hold.
THEOREM Invariant ==
  ASSUME Slots >= Others + 2
  PROVE  Spec => []IInv
<1>1. Init => IInv
  BY InitInv
<1>2. IInv /\ [Next]_vars => IInv'
  BY NextInv
<1> QED
  BY <1>1, <1>2, PTL DEF Spec

----------------------------------------------------------------------------
(* What follows from the invariant.                                        *)

\* The variables keep their types, and a slot of a message that is queued is posted.
THEOREM TypeCorrect ==
  ASSUME Slots >= Others + 2
  PROVE  Spec => []TypeOK
<1>1. IInv => TypeOK
  BY DEF IInv, Typed
<1> QED
  BY <1>1, Invariant, PTL

\* No slot of the flash manager's queue is lost: each that the manager took is one
\* it has the handle of (PTM_ReadImg, PTM_WriteUD, PTM_EraseUD, PTM_BusyStateHandler).
THEOREM SlotsAreKept ==
  ASSUME Slots >= Others + 2
  PROVE  Spec => []NoSlotLeak
<1>1. IInv => NoSlotLeak
  BY DEF IInv, Kept, Held, NoSlotLeak
<1> QED
  BY <1>1, Invariant, PTL

\* As long as a write is queued the buffer it is written from, PTM_UserData, has the
\* data of the client whose request it is.
THEOREM BufferIsKept ==
  ASSUME Slots >= Others + 2
  PROVE  Spec => []BufferIsOwned
<1>1. ASSUME IInv PROVE BufferIsOwned
  <2> USE <1>1 DEF IInv
  <2> SUFFICES ASSUME NEW i \in DOMAIN fq, fq[i].op = "WRITE"
               PROVE  /\ st = "BUSY" /\ proc.req.cmd = "WRITE_USERDATA"
                      /\ proc.req.img = fq[i].img /\ ram = New
    BY DEF BufferIsOwned, New
  <2>1. Len(fq) \in Nat /\ i \in 1 .. Len(fq)
    BY QueueType, LenProperties DEF Typed
  <2>2. fq # <<>>
    BY <2>1, QueueType
  <2>3. st = "BUSY"
    BY <2>1, <2>2 DEF Reading, Resting, Typed, TypeOK
  <2>4. proc.req.cmd = "WRITE_USERDATA"
    <3>1. CASE Len(fq) = 1
      <4>1. i = 1 /\ fq[1].op = LastOp(proc.req.cmd)
        BY <2>1, <2>3, <3>1 DEF Working
      <4> QED
        BY <4>1 DEF LastOp
    <3>2. CASE Len(fq) # 1
      BY <2>2, <2>3, <3>2, HeadOf
    <3> QED
      BY <3>1, <3>2
  <2>5. fq[i].img = proc.req.img
    BY <2>1, <2>3 DEF Working
  <2>6. ram = New
    BY <2>3, <2>4 DEF Data, WriteData
  <2> QED
    BY <2>3, <2>4, <2>5, <2>6
<1> QED
  BY <1>1, Invariant, PTL

\* A client whose request ends is answered with an error, or by PTM_BusyStateHandler.
LEMMA AnswerOk ==
  ASSUME Slots >= Others + 2, IInv, [Next]_vars, NEW c \in Clients,
         cl[c].st = "waiting", cl'[c].st = "done", cl'[c].res = "OK"
  PROVE  /\ st = "BUSY" /\ FlashGetOpsResult(WaitedHdr) # "PENDING" /\ OpsResult # "FAILED"
         /\ "OK" \in DoneResults(proc.req) /\ cl'[c].data = Loaded(proc.req, "OK")
<1> USE DEF IInv
<1>1. cl = [d \in Clients |-> cl[d]]
  BY DEF Typed
<1>2. cl' # cl
  OBVIOUS
<1>3. ASSUME NEW d \in Clients, NEW r \in Requests PROVE ~Call(d, r)
  BY <1>1 DEF Call
<1>4. ASSUME NEW d \in Clients PROVE ~GetStatus(d)
  BY <1>1 DEF GetStatus
<1>5. ASSUME proc # NoMsg, NEW res, NEW data, Complete(res, data)
      PROVE  res = "OK" /\ cl'[c].data = data
  BY <1>1, <1>2, <1>5 DEF Complete
<1>6. ~IdleStateHandler
  <2> SUFFICES ASSUME IdleStateHandler PROVE FALSE
    OBVIOUS
  <2>1. st = "IDLE" /\ proc # NoMsg
    BY DEF IdleStateHandler
  <2>2. result = "UNKNOWN"
    BY <2>1 DEF Resting
  <2>3. ~Begin
    BY <1>2 DEF Begin
  <2>4. /\ FreeSlots # {} /\ Cardinality(FreeSlots) # 1
    BY <2>1, TwoFree
  <2>5. \E res \in {"NOT_FOUND", "UNKNOWN"} : Refuse(res)
    BY <2>2, <2>3, <2>4
    DEF IdleStateHandler, LoadImg, LoadUserData, WriteUserData, EraseUserData
  <2> QED
    BY <1>5, <2>1, <2>5 DEF Refuse
<1>7. BusyStateHandler
  <2>1. Next
    BY <1>2 DEF vars
  <2>2. UNCHANGED cl => FALSE
    BY <1>2
  <2> QED
    BY <1>3, <1>4, <1>6, <2>1, <2>2
    DEF Next, ServerStep, PtmStep, OtherClient, HwDone, Shutdown, InitPTMEnd, WaitEvent,
        FlsmgrEventHandler, UnInitStateHandler, NoMessage, GetMsgIdx, msgs
<1>8. st = "BUSY" /\ proc # NoMsg
  BY <1>7 DEF BusyStateHandler, Working
<1>9. FlashGetOpsResult(WaitedHdr) # "PENDING"
  BY <1>2, <1>7 DEF BusyStateHandler
<1>10. PICK res \in IF OpsResult = "FAILED" THEN {"NODEV"} ELSE DoneResults(proc.req) :
         Complete(res, Loaded(proc.req, res))
  BY <1>7, <1>9 DEF BusyStateHandler
<1>11. res = "OK" /\ cl'[c].data = Loaded(proc.req, res)
  BY <1>5, <1>8, <1>10
<1> QED
  BY <1>8, <1>9, <1>10, <1>11

\* A load is answered with BCM_ERR_OK only with what the flash holds.
THEOREM LoadsAreTrue ==
  ASSUME Slots >= Others + 2
  PROVE  Spec => LoadReturnsStored
<1> DEFINE r == proc.req
           A == \A c \in Clients :
                  /\ Answered(c, {"LOAD_USERDATA"}, "OK") =>
                       cl'[c].data = flash[r.img] /\ flash[r.img] \in Payload
                  /\ Answered(c, {"LOAD_IMG"}, "OK") =>
                       cl'[c].data = Stretch(Start(r.off), RestFrom(r.off))
<1>1. ASSUME IInv, [Next]_vars PROVE A
  <2> USE <1>1 DEF IInv
  <2> SUFFICES ASSUME NEW c \in Clients,
                      cl[c].st = "waiting", cl'[c].st = "done", cl'[c].res = "OK"
               PROVE  /\ r.cmd = "LOAD_USERDATA" =>
                           cl'[c].data = flash[r.img] /\ flash[r.img] \in Payload
                      /\ r.cmd = "LOAD_IMG" =>
                           cl'[c].data = Stretch(Start(r.off), RestFrom(r.off))
    BY DEF Answered
  <2>1. /\ st = "BUSY" /\ FlashGetOpsResult(WaitedHdr) # "PENDING" /\ OpsResult # "FAILED"
        /\ "OK" \in DoneResults(r) /\ cl'[c].data = Loaded(r, "OK")
    BY AnswerOk
  <2>2. /\ slot[h0] \in {"SUCCESS", "FAILED"}
        /\ h1 # 0 <=> r.cmd = "WRITE_USERDATA"
        /\ OpsResult = IF h1 # 0 THEN slot[h1] ELSE slot[h0]
    BY <2>1, WhenDone
  <2>3. r.cmd # "WRITE_USERDATA" => Succeeded(h0)
    BY <2>1, <2>2 DEF Succeeded
  <2>4. ReadData /\ ImageData
    BY <2>1 DEF Data
  <2>5. ASSUME r.cmd = "LOAD_USERDATA"
        PROVE  cl'[c].data = flash[r.img] /\ flash[r.img] \in Payload
    <3>1. ram = flash[r.img] /\ cl'[c].data = ram
      BY <2>1, <2>3, <2>4, <2>5 DEF ReadData, Loaded
    <3>2. "OK" \in UserDataResults(r)
      BY <2>1, <2>5 DEF DoneResults
    <3>3. ram # Blank /\ ram # Torn
      BY <3>2 DEF UserDataResults, Blank, Torn
    <3> QED
      BY <3>1, <3>3 DEF Typed, TypeOK, Content
  <2>6. ASSUME r.cmd = "LOAD_IMG"
        PROVE  cl'[c].data = Stretch(Start(r.off), RestFrom(r.off))
    <3>1. r \in Requests
      BY <2>1, ProcType DEF Working
    <3>2. r.len \in Nat /\ RestFrom(r.off) \in Nat
      BY <2>6, <3>1, RequestType, StretchType
    <3>3. /\ result = (IF r.len < RestFrom(r.off) THEN "NOMEM" ELSE "BUSY")
          /\ rbuf = Stretch(Start(r.off), Part(r)) /\ cl'[c].data = rbuf
      BY <2>1, <2>3, <2>4, <2>6 DEF ImageData, Loaded
    <3>4. ImageResult(r) = "OK"
      BY <2>1, <2>6 DEF DoneResults
    <3>5. result # "NOMEM"
      BY <3>4 DEF ImageResult
    <3>6. Part(r) = RestFrom(r.off)
      BY <3>2, <3>3, <3>5 DEF Part, Least
    <3> QED
      BY <3>3, <3>6
  <2> QED
    BY <2>5, <2>6
<1>2. LoadReturnsStored <=> [][A]_vars
  BY PTL DEF LoadReturnsStored
<1> QED
  BY <1>1, <1>2, Invariant, PTL DEF Spec

\* A write or an erase is answered with BCM_ERR_OK only when the flash holds what
\* was asked for, whichever operations fail, but for a write whose result was lost:
\* then the flash holds nothing that a load would hand out.
THEOREM WritesAreTrue ==
  ASSUME Slots >= Others + 2
  PROVE  Spec => WriteOkMeansStored
<1> DEFINE r == proc.req
           A == \A c \in Clients :
                  /\ Answered(c, {"WRITE_USERDATA"}, "OK") =>
                       \/ flash[r.img] = [val |-> r.val, len |-> r.len]
                       \/ WriteResultLost /\ flash[r.img] \in {Blank, Torn}
                  /\ Answered(c, {"ERASE_USERDATA"}, "OK") => flash[r.img] = Blank
<1>1. ASSUME IInv, [Next]_vars PROVE A
  <2> USE <1>1 DEF IInv
  <2> SUFFICES ASSUME NEW c \in Clients,
                      cl[c].st = "waiting", cl'[c].st = "done", cl'[c].res = "OK"
               PROVE  /\ r.cmd = "WRITE_USERDATA" =>
                           \/ flash[r.img] = New
                           \/ WriteResultLost /\ flash[r.img] \in {Blank, Torn}
                      /\ r.cmd = "ERASE_USERDATA" => flash[r.img] = Blank
    BY DEF Answered, New
  <2>1. st = "BUSY" /\ FlashGetOpsResult(WaitedHdr) # "PENDING" /\ OpsResult # "FAILED"
    BY AnswerOk
  <2>2. /\ slot[h0] \in {"SUCCESS", "FAILED"}
        /\ h1 # 0 => slot[h1] \in {"SUCCESS", "FAILED"}
        /\ h1 # 0 <=> r.cmd = "WRITE_USERDATA"
        /\ OpsResult = IF h1 # 0 THEN slot[h1] ELSE slot[h0]
    BY <2>1, WhenDone
  <2>3. EraseData /\ WriteData
    BY <2>1 DEF Data
  <2>4. r.cmd = "ERASE_USERDATA" => flash[r.img] = Blank
    BY <2>1, <2>2, <2>3 DEF EraseData, Succeeded
  <2>5. ASSUME r.cmd = "WRITE_USERDATA"
        PROVE  \/ flash[r.img] = New
               \/ WriteResultLost /\ flash[r.img] \in {Blank, Torn}
    <3>1. Succeeded(h1) /\ h1 # 0 /\ slot[h1] = "SUCCESS"
      BY <2>1, <2>2, <2>5 DEF Succeeded
    <3>2. CASE slot[h0] = "SUCCESS"
      BY <2>3, <2>5, <3>1, <3>2 DEF WriteData, Succeeded
    <3>3. CASE slot[h0] = "FAILED"
      BY <2>3, <2>5, <3>1, <3>3 DEF WriteData, Failed, WriteResultLost
    <3> QED
      BY <2>2, <3>2, <3>3
  <2> QED
    BY <2>4, <2>5
<1>2. WriteOkMeansStored <=> [][A]_vars
  BY PTL DEF WriteOkMeansStored
<1> QED
  BY <1>1, <1>2, Invariant, PTL DEF Spec

==============================================================================
