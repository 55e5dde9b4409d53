--------------------------- MODULE CircFifoProofs ---------------------------
(***************************************************************************)
(* The queue implements BoundedFifo, and what this rests on: where the     *)
(* slots of a push in progress lie.  For every size, number of levels and  *)
(* place of the consumer, of a queue that does not overwrite.              *)
(***************************************************************************)
EXTENDS CircQueueProofs

----------------------------------------------------------------------------
(* The invariant.                                                          *)

Filled == FilledSize(rd, wr)
Room   == Space(rd, wr)

\* How many slots s is behind r, going up: 1 is the slot read next.
Place(r, s) == FilledSize(r, s) + 1

\* The slots a push has still to copy into are inside the filled ones and
\* promised to what it is going to copy.
Copying(c) ==
  pc[c] = "copyIn" =>
    /\ Place(rd, l[c].wr) + Len(l[c].data) <= Filled + 1
    /\ \A j \in 1 .. Len(l[c].data) : promised[Advance(l[c].wr, j - 1)] = l[c].data[j]

Apart == \A c, d \in Ctx : c # d => Reserved(c) \cap Reserved(d) = {}

\* A slot nobody is going to copy into holds what was promised.
Stored ==
  \A s \in Slot : (\A c \in Ctx : s \notin Reserved(c)) => buffer[s] = promised[s]

\* A push in its reservation loop has not been clamped to less than there is
\* room for now; with the monitor, what it has read is current.
Asked(c) ==
  /\ pc[c] = "idle" => l[c] = NoLocals
  /\ pc[c] \in {"incLdr", "incStr"} => Len(l[c].data) = l[c].cnt
  /\ pc[c] \in ReservePC =>
       Smaller(l[c].cnt, Room) <= Len(l[c].data) /\ Len(l[c].data) <= l[c].cnt
  /\ pc[c] = "resStr" /\ mon = c =>
       l[c].rd = rd /\ l[c].wr = wr /\ Len(l[c].data) <= Room

\* A pop has copied the first objects of the queue, and the slots it has still
\* to read are before those of any push that interrupts it.
Taken(m) ==
  /\ l[Consumer].rd = Advance(rd, m)
  /\ m <= Filled
  /\ \A i \in 1 .. m : l[Consumer].data[i] = promised[Advance(rd, i)]

Ahead(m) ==
  /\ m + l[Consumer].cnt <= Filled
  /\ \A c \in Ctx : pc[c] = "copyIn" => Place(rd, l[c].wr) > m + l[Consumer].cnt

Popping ==
  /\ pc[Consumer] \in {"emptyRd", "emptyWr", "snap"} => l[Consumer].data = <<>>
  /\ pc[Consumer] \in {"copyOut", "popLdr", "popStr"} => Taken(Len(l[Consumer].data))
  /\ pc[Consumer] = "copyOut" => Ahead(Len(l[Consumer].data))
  /\ pc[Consumer] = "popStr" /\ mon = Consumer => l[Consumer].wr = wr

QInv ==
  /\ \A c \in Ctx : Copying(c) /\ Asked(c)
  /\ Apart /\ Stored /\ Popping

----------------------------------------------------------------------------
(* Places of slots. *)

LEMMA PlaceOfSlot ==
  ASSUME NEW r \in Slot, NEW s \in Slot
  PROVE  Place(r, s) \in 1 .. N /\ Advance(r, Place(r, s)) = s
  BY NAssumption DEF Place, FilledSize, Advance, Slot

LEMMA SlotAtPlace ==
  ASSUME NEW r \in Slot, NEW i \in 1 .. N
  PROVE  Advance(r, i) \in Slot /\ Place(r, Advance(r, i)) = i
  BY NAssumption DEF Place, FilledSize, Advance, Slot

LEMMA AdvanceTwice ==
  ASSUME NEW r \in Slot, NEW i \in 0 .. N, NEW j \in 0 .. N, i + j <= N
  PROVE  Advance(Advance(r, i), j) = Advance(r, i + j)
  BY NAssumption DEF Advance, Slot

LEMMA SpaceIsRest ==
  ASSUME NEW r \in Slot, NEW w \in Slot
  PROVE  /\ Space(r, w) = N - 1 - FilledSize(r, w)
         /\ FilledSize(r, w) \in 0 .. N - 1
         /\ Place(r, w) = FilledSize(r, w) + 1
  BY NAssumption DEF Space, FilledSize, Place, Slot

\* Filling k slots of the rest, taking the first m out.
LEMMA FilledMore ==
  ASSUME NEW r \in Slot, NEW w \in Slot, NEW k \in 0 .. Space(r, w)
  PROVE  FilledSize(r, Advance(w, k)) = FilledSize(r, w) + k
  BY NAssumption DEF Space, FilledSize, Advance, Slot

LEMMA FilledLess ==
  ASSUME NEW r \in Slot, NEW w \in Slot, NEW m \in 0 .. FilledSize(r, w)
  PROVE  FilledSize(Advance(r, m), w) = FilledSize(r, w) - m
  BY NAssumption DEF FilledSize, Advance, Slot

----------------------------------------------------------------------------
(* What the types say of a context. *)

LEMMA LocalTypes ==
  ASSUME TypeOK, NEW c \in Ctx
  PROVE  /\ l[c] \in Locals /\ l[c].rd \in Slot /\ l[c].wr \in Slot
         /\ l[c].cnt \in Nat
         /\ l[c].data \in Seq(Item) /\ Len(l[c].data) \in Nat
<1>1. l[c] \in Locals
  BY DEF TypeOK
<1>2. l[c].data \in Seq(Item) /\ l[c].rd \in Slot /\ l[c].wr \in Slot /\ l[c].cnt \in Nat
  BY <1>1 DEF Locals
<1> QED
  BY <1>1, <1>2, LenProperties

LEMMA FilledType ==
  ASSUME TypeOK
  PROVE  /\ Filled \in 0 .. N - 1 /\ Room = N - 1 - Filled /\ Room \in 0 .. N - 1
         /\ Place(rd, wr) = Filled + 1
<1>1. rd \in Slot /\ wr \in Slot
  BY DEF TypeOK
<1>2. FilledSize(rd, wr) \in 0 .. N - 1 /\ Space(rd, wr) = N - 1 - FilledSize(rd, wr)
  BY <1>1, SpaceIsRest
<1>3. Space(rd, wr) \in 0 .. N - 1
  BY <1>2, NAssumption
<1> QED
  BY <1>2, <1>3 DEF Filled, Room, Place

\* The j-th slot a push has still to fill is j - 1 places behind its first.
LEMMA ReservedPlaces ==
  ASSUME TypeOK, NEW c \in Ctx, pc[c] = "copyIn", Copying(c),
         NEW j \in 1 .. Len(l[c].data)
  PROVE  /\ Advance(l[c].wr, j - 1) \in Slot
         /\ Place(rd, Advance(l[c].wr, j - 1)) = Place(rd, l[c].wr) + (j - 1)
         /\ Place(rd, Advance(l[c].wr, j - 1)) <= Filled
<1> DEFINE a == Place(rd, l[c].wr)
<1>1. l[c].wr \in Slot /\ rd \in Slot /\ Len(l[c].data) \in Nat
  BY LocalTypes DEF TypeOK
<1>2. a \in 1 .. N /\ Advance(rd, a) = l[c].wr
  BY <1>1, PlaceOfSlot
<1>3. Filled \in 0 .. N - 1
  BY FilledType
<1>4. a + Len(l[c].data) <= Filled + 1
  BY DEF Copying
<1> HIDE DEF a
<1>5. j - 1 \in 0 .. N /\ a + (j - 1) \in 1 .. N /\ a + (j - 1) <= Filled
  BY <1>1, <1>2, <1>3, <1>4, NAssumption
<1>6. Advance(Advance(rd, a), j - 1) = Advance(rd, a + (j - 1))
  BY <1>1, <1>2, <1>5, AdvanceTwice, a \in 0 .. N
<1>7. /\ Advance(rd, a + (j - 1)) \in Slot
      /\ Place(rd, Advance(rd, a + (j - 1))) = a + (j - 1)
  BY <1>1, <1>5, SlotAtPlace
<1> QED
  BY <1>2, <1>5, <1>6, <1>7 DEF a

\* So its slots are filled ones, from its first on.
LEMMA ReservedIn ==
  ASSUME TypeOK, NEW c \in Ctx, Copying(c), NEW s \in Reserved(c)
  PROVE  /\ pc[c] = "copyIn" /\ s \in Slot
         /\ Place(rd, l[c].wr) <= Place(rd, s) /\ Place(rd, s) <= Filled
<1>1. pc[c] = "copyIn"
  BY DEF Reserved
<1>2. PICK j \in 1 .. Len(l[c].data) : s = Advance(l[c].wr, j - 1)
  BY <1>1 DEF Reserved
<1>3. Place(rd, l[c].wr) \in 1 .. N
  BY LocalTypes, PlaceOfSlot DEF TypeOK
<1>4. Len(l[c].data) \in Nat
  BY LocalTypes
<1>5. /\ Advance(l[c].wr, j - 1) \in Slot
      /\ Place(rd, Advance(l[c].wr, j - 1)) = Place(rd, l[c].wr) + (j - 1)
      /\ Place(rd, Advance(l[c].wr, j - 1)) <= Filled
  BY <1>1, ReservedPlaces
<1>6. Place(rd, l[c].wr) <= Place(rd, l[c].wr) + (j - 1)
  BY <1>3, <1>4
<1> QED
  BY <1>1, <1>2, <1>5, <1>6

----------------------------------------------------------------------------
(* A step of one context that leaves the queue alone. *)

Others(c) == \A d \in Ctx : d # c => pc'[d] = pc[d] /\ l'[d] = l[d]

LEMMA LocalStep ==
  ASSUME IInv, QInv, NEW c \in Ctx, Others(c),
         UNCHANGED <<rd, wr, buffer, promised>>,
         pc[c] # "copyIn", pc'[c] # "copyIn", mon' \in {mon, None, c},
         Asked(c)', c = Consumer => Popping'
  PROVE  QInv'
<1> USE DEF IInv, QInv
<1>1. c \in Nat /\ c # None
  BY CtxAssumption DEF Ctx, None
<1>2. Filled' = Filled /\ Room' = Room
  BY DEF Filled, Room
<1>3. ASSUME NEW d \in Ctx PROVE Copying(d)'
  <2>1. CASE d = c
    BY <2>1 DEF Copying
  <2>2. CASE d # c
    <3>1. pc'[d] = pc[d] /\ l'[d] = l[d]
      BY <2>2 DEF Others
    <3>2. Copying(d)
      OBVIOUS
    <3> QED
      BY <1>2, <3>1, <3>2 DEF Copying
  <2> QED
    BY <2>1, <2>2
<1>4. ASSUME NEW d \in Ctx PROVE Asked(d)'
  <2>1. CASE d = c
    BY <2>1
  <2>2. CASE d # c
    <3>1. pc'[d] = pc[d] /\ l'[d] = l[d] /\ (mon' = d => mon = d)
      BY <1>1, <2>2 DEF Others, Ctx, None
    <3>2. Asked(d)
      OBVIOUS
    <3> QED
      BY <1>2, <3>1, <3>2 DEF Asked
  <2> QED
    BY <2>1, <2>2
<1>5. \A d \in Ctx : Reserved(d)' = Reserved(d)
  BY DEF Others, Reserved
<1>6. Apart' /\ Stored'
  BY <1>5 DEF Apart, Stored
<1>7. Popping'
  <2>1. CASE c = Consumer
    BY <2>1
  <2>2. CASE c # Consumer
    <3>1. /\ pc'[Consumer] = pc[Consumer] /\ l'[Consumer] = l[Consumer]
          /\ mon' = Consumer => mon = Consumer
      BY <1>1, <2>2, CtxAssumption DEF Others, Ctx, None
    <3>2. \A d \in Ctx : pc'[d] = "copyIn" => pc[d] = "copyIn" /\ l'[d] = l[d]
      BY DEF Others
    <3>3. \A m : Taken(m) => Taken(m)'
      BY <1>2, <3>1 DEF Taken
    <3>4. \A m : Ahead(m) => Ahead(m)'
      BY <1>2, <3>1, <3>2 DEF Ahead
    <3> QED
      BY <3>1, <3>3, <3>4 DEF Popping
  <2> QED
    BY <2>1, <2>2
<1> QED
  BY <1>3, <1>4, <1>6, <1>7

\* A push, at whatever level, is no pop.
LEMMA NoPop == ASSUME pc'[Consumer] \notin PopPC PROVE Popping'
  BY DEF Popping, PopPC

LEMMA PushStep ==
  ASSUME IInv, QInv, NEW c \in Ctx, Others(c),
         UNCHANGED <<rd, wr, buffer, promised>>,
         pc[c] # "copyIn", pc'[c] # "copyIn", pc'[c] \notin PopPC,
         mon' \in {mon, None, c}, Asked(c)'
  PROVE  QInv'
  BY LocalStep, NoPop

----------------------------------------------------------------------------
(* The steps of a push. *)

\* A call that begins, ends or only counts.
LEMMA PushReturnQ ==
  ASSUME IInv, QInv, NEW c \in Ctx, Return(c), pc[c] # "copyIn",
         UNCHANGED <<rd, wr, buffer, promised>>
  PROVE  Others(c) /\ Asked(c)' /\ (pc'[Consumer] \notin PopPC => QInv')
<1>1. Others(c)
  BY DEF Return, Goto, Others, IInv, TypeOK
<1>2. pc'[c] = "idle" /\ l'[c] = NoLocals /\ mon' = None
  BY DEF Return, Goto, IInv, TypeOK
<1>3. Asked(c)'
  BY <1>2 DEF Asked, ReservePC
<1> QED
  BY <1>1, <1>2, <1>3, LocalStep, NoPop

LEMMA PushCallQ ==
  ASSUME IInv, QInv, NEW c \in Ctx, NEW data \in Data, PushCall(c, data)
  PROVE  QInv'
<1>1. /\ pc[c] = "idle" /\ pc'[c] = "isFull" /\ mon' = None
      /\ UNCHANGED <<rd, wr, buffer, promised>>
  BY DEF PushCall, At, Goto, IInv, TypeOK, index
<1>2. Others(c)
  BY DEF PushCall, Goto, Others, IInv, TypeOK
<1>3. Asked(c)'
  BY <1>1 DEF Asked, ReservePC
<1> QED
  BY <1>1, <1>2, <1>3, PushStep DEF PopPC

LEMMA PushRefusedQ ==
  ASSUME IInv, QInv, NEW c \in Ctx, PushNoMem(c) \/ PushNothing(c)
  PROVE  QInv'
<1>1. /\ pc[c] = "isFull" /\ Return(c) /\ UNCHANGED <<rd, wr, buffer, promised>>
  BY DEF PushNoMem, PushNothing, At, index
<1>2. Others(c) /\ Asked(c)'
  BY <1>1, PushReturnQ
<1>3. pc'[c] = "idle" /\ mon' = None
  BY <1>1 DEF Return, Goto, IInv, TypeOK
<1> QED
  BY <1>1, <1>2, <1>3, PushStep DEF PopPC

LEMMA PushTrimQ ==
  ASSUME IInv, QInv, NEW c \in Ctx, PushTrim(c)
  PROVE  QInv'
<1>1. /\ pc[c] = "isFull" /\ pc'[c] = "incLdr" /\ mon' = mon
      /\ UNCHANGED <<rd, wr, buffer, promised>>
  BY DEF PushTrim, At, Goto, IInv, TypeOK, index
<1>2. Others(c)
  BY DEF PushTrim, Goto, Others, IInv, TypeOK
<1>3. Len(l'[c].data) = l'[c].cnt
  <2> DEFINE data == Trim(l[c].data)
  <2>1. l' = [l EXCEPT ![c].data = data, ![c].cnt = Len(data)]
    BY DEF PushTrim
  <2> HIDE DEF data
  <2> QED
    BY <2>1, LocalTypes DEF IInv, TypeOK, Locals
<1>4. Asked(c)'
  BY <1>1, <1>3 DEF Asked, ReservePC
<1> QED
  BY <1>1, <1>2, <1>4, PushStep DEF PopPC

\* ATOMIC_Inc and ATOMIC_Dec.
LEMMA CountQ ==
  ASSUME IInv, QInv, NEW c \in Ctx, IncLdr(c) \/ IncStr(c) \/ DecLdr(c)
  PROVE  QInv'
<1>1. l[c].cnt \in Nat /\ Len(l[c].data) \in Nat /\ Room \in Nat
  BY LocalTypes, FilledType DEF IInv
<1>2. /\ pc[c] \in {"incLdr", "incStr", "decLdr"}
      /\ mon' \in {mon, None, c} /\ UNCHANGED <<rd, wr, buffer, promised>>
  BY DEF IncLdr, IncStr, DecLdr, LdrEx, At, index
<1>3. /\ pc'[c] \in {"incLdr", "incStr", "resLdr", "decStr"}
      /\ pc'[c] \in {"incLdr", "incStr", "resLdr"} => pc[c] \in {"incLdr", "incStr"}
      /\ l'[c].data = l[c].data /\ l'[c].cnt = l[c].cnt
  BY DEF IncLdr, IncStr, DecLdr, Goto, At, IInv, TypeOK, Locals
<1>4. Others(c)
  BY DEF IncLdr, IncStr, DecLdr, Goto, Others, IInv, TypeOK
<1>5. Asked(c)'
  <2>1. Room' = Room
    BY <1>2 DEF Room
  <2>2. pc[c] \in {"incLdr", "incStr"} => Len(l[c].data) = l[c].cnt
    BY DEF QInv, Asked
  <2>3. Smaller(l[c].cnt, Room) <= l[c].cnt
    BY <1>1 DEF Smaller
  <2> QED
    BY <1>1, <1>3, <2>1, <2>2, <2>3 DEF Asked, ReservePC
<1> QED
  BY <1>2, <1>3, <1>4, <1>5, PushStep DEF PopPC

LEMMA DecStrQ ==
  ASSUME IInv, QInv, NEW c \in Ctx, DecStr(c)
  PROVE  QInv'
<1>1. pc[c] = "decStr" /\ UNCHANGED <<rd, wr, buffer, promised>>
  BY DEF DecStr, At, index
<1>2. CASE StrExOk(c)
  <2>1. Return(c)
    BY <1>2 DEF DecStr
  <2>2. Others(c) /\ Asked(c)'
    BY <1>1, <2>1, PushReturnQ
  <2>3. pc'[c] = "idle" /\ mon' = None
    BY <2>1 DEF Return, Goto, IInv, TypeOK
  <2> QED
    BY <1>1, <2>2, <2>3, PushStep DEF PopPC
<1>3. CASE ~StrExOk(c)
  <2>1. pc'[c] = "decLdr" /\ l' = l /\ mon' = None
    BY <1>3 DEF DecStr, Goto, IInv, TypeOK
  <2>2. Others(c)
    BY <1>3, <2>1 DEF DecStr, Goto, Others, IInv, TypeOK
  <2>3. Asked(c)'
    BY <2>1 DEF Asked, ReservePC
  <2> QED
    BY <1>1, <2>1, <2>2, <2>3, PushStep DEF PopPC
<1> QED
  BY <1>2, <1>3

\* Clamping again what was clamped to more room leaves as much as fits.
LEMMA ReserveLdrQ ==
  ASSUME ~Overwrite, IInv, QInv, NEW c \in Ctx, ReserveLdr(c)
  PROVE  QInv'
<1> DEFINE data == Clamped(l[c].data, rd, wr)
           k == Len(l[c].data)
<1>1. /\ pc[c] = "resLdr" /\ pc'[c] = "resStr" /\ mon' = c
      /\ UNCHANGED <<rd, wr, buffer, promised>>
  BY DEF ReserveLdr, LdrEx, At, Goto, IInv, TypeOK, index
<1>2. Others(c)
  BY DEF ReserveLdr, Goto, Others, IInv, TypeOK
<1>3. /\ l[c].cnt \in Nat /\ l[c].data \in Seq(Item) /\ k \in Nat
      /\ Room \in Nat
  BY LocalTypes, FilledType DEF IInv
<1>4. Len(data) = Smaller(Room, k)
  <2>1. data = SubSeq(l[c].data, 1, Smaller(Room, k))
    BY DEF Clamped, Overruns, Room
  <2> QED
    BY <1>3, <2>1, PrefixType
<1>5. /\ l'[c].data = data /\ l'[c].cnt = l[c].cnt
      /\ l'[c].rd = rd /\ l'[c].wr = wr
  <2>1. l' = [l EXCEPT ![c].rd = rd, ![c].wr = wr, ![c].data = data]
    BY DEF ReserveLdr
  <2> HIDE DEF data
  <2> QED
    BY <2>1, LocalTypes DEF IInv, TypeOK, Locals
<1>6. Smaller(l[c].cnt, Room) <= k /\ k <= l[c].cnt
  BY <1>1 DEF QInv, Asked, ReservePC
<1> HIDE DEF data, k
<1>7. /\ Smaller(l[c].cnt, Room) <= Len(data) /\ Len(data) <= l[c].cnt
      /\ Len(data) <= Room
  BY <1>3, <1>4, <1>6 DEF Smaller
<1>8. Asked(c)'
  <2>1. Room' = Room
    BY <1>1 DEF Room
  <2> QED
    BY <1>1, <1>5, <1>7, <2>1 DEF Asked, ReservePC
<1> QED
  BY <1>1, <1>2, <1>8, PushStep DEF PopPC

----------------------------------------------------------------------------
(* The store that publishes the indices. *)

\* When it succeeds it fills the k slots behind the filled ones, and promises
\* them the objects of the push; all that was read from the queue is current.
LEMMA Reservation ==
  ASSUME ~Overwrite, IInv, QInv, NEW c \in Ctx, ReserveStr(c), StrExOk(c),
         NEW k, k = Len(l[c].data)
  PROVE  /\ pc[c] = "resStr" /\ l[c].wr = wr /\ k \in 0 .. Room
         /\ Smaller(l[c].cnt, Room) <= k /\ k <= l[c].cnt
         /\ rd' = rd /\ wr' = Advance(wr, k) /\ Filled' = Filled + k /\ Room' = Room - k
         /\ mon' = None /\ UNCHANGED <<buffer, l, got>>
         /\ Others(c) /\ pc'[c] = IF k = 0 THEN "decLdr" ELSE "copyIn"
         /\ \A j \in 1 .. k : /\ Advance(wr, j - 1) \in Slot
                              /\ Place(rd, Advance(wr, j - 1)) = Filled + j
                              /\ promised'[Advance(wr, j - 1)] = l[c].data[j]
         /\ \A s \in Slot : (\A j \in 1 .. k : Advance(wr, j - 1) # s)
                              => promised'[s] = promised[s]
<1> DEFINE me == l[c]
           hit(s, j) == Advance(wr, j - 1) = s
<1>1. pc[c] = "resStr" /\ mon = c /\ mon' = None /\ UNCHANGED <<buffer, l, got>>
  BY DEF ReserveStr, At, StrExOk
<1>2. /\ me.rd = rd /\ me.wr = wr /\ Len(me.data) <= Room
      /\ Smaller(me.cnt, Room) <= k /\ k <= me.cnt
  BY <1>1 DEF QInv, Asked, ReservePC
<1>3. /\ Len(me.data) \in Nat /\ Filled \in 0 .. N - 1 /\ Room = N - 1 - Filled
      /\ rd \in Slot /\ wr \in Slot
  BY LocalTypes, FilledType DEF IInv, TypeOK
<1>4. k \in 0 .. Room /\ k \in 0 .. N /\ k \in Nat
  BY <1>2, <1>3, NAssumption
<1>5. rd' = rd /\ wr' = Advance(wr, k)
  BY <1>2 DEF ReserveStr, Overruns
<1>6. Filled' = Filled + k
  BY <1>3, <1>4, <1>5, FilledMore DEF Filled, Room
<1>7. wr' \in Slot
  BY <1>3, <1>4, <1>5, AdvanceType
<1>8. Room' = Room - k
  <2>1. Space(rd, wr') = N - 1 - FilledSize(rd, wr')
    BY <1>3, <1>7, SpaceIsRest
  <2> QED
    BY <1>3, <1>4, <1>5, <1>6, <2>1, NAssumption DEF Filled, Room
<1>9. Others(c) /\ pc'[c] = IF k = 0 THEN "decLdr" ELSE "copyIn"
  BY DEF ReserveStr, Goto, Others, IInv, TypeOK
<1>10. promised' = [s \in Slot |-> IF \E j \in 1 .. k : hit(s, j)
                                   THEN me.data[CHOOSE j \in 1 .. k : hit(s, j)]
                                   ELSE promised[s]]
  BY <1>2 DEF ReserveStr
<1>11. ASSUME NEW j \in 1 .. k
       PROVE  Advance(wr, j - 1) \in Slot /\ Place(rd, Advance(wr, j - 1)) = Filled + j
  <2>1. Place(rd, wr) = Filled + 1 /\ Advance(rd, Place(rd, wr)) = wr
    BY <1>3, FilledType, PlaceOfSlot DEF IInv
  <2>2. /\ Filled + 1 \in 0 .. N /\ j - 1 \in 0 .. N /\ (Filled + 1) + (j - 1) <= N
        /\ Filled + j \in 1 .. N /\ (Filled + 1) + (j - 1) = Filled + j
    BY <1>3, <1>4, NAssumption
  <2>3. Advance(wr, j - 1) = Advance(rd, Filled + j)
    BY <1>3, <2>1, <2>2, AdvanceTwice
  <2> QED
    BY <1>3, <2>2, <2>3, SlotAtPlace
<1>12. ASSUME NEW j \in 1 .. k
       PROVE  promised'[Advance(wr, j - 1)] = me.data[j]
  <2> DEFINE s == Advance(wr, j - 1)
             i == CHOOSE n \in 1 .. k : hit(s, n)
  <2>1. \E n \in 1 .. k : hit(s, n)
    OBVIOUS
  <2>2. i \in 1 .. k /\ hit(s, i)
    BY <2>1
  <2>3. Filled + i = Filled + j
    BY <1>11, <2>2
  <2>4. i = j
    BY <1>3, <1>4, <2>2, <2>3
  <2>5. s \in Slot
    BY <1>11
  <2> HIDE DEF hit
  <2> QED
    BY <1>10, <2>1, <2>4, <2>5
<1>13. ASSUME NEW s \in Slot, \A j \in 1 .. k : Advance(wr, j - 1) # s
       PROVE  promised'[s] = promised[s]
  BY <1>10, <1>13
<1> QED
  BY <1>1, <1>2, <1>4, <1>5, <1>6, <1>8, <1>9, <1>11, <1>12, <1>13

LEMMA ReserveFailQ ==
  ASSUME IInv, QInv, NEW c \in Ctx, ReserveStr(c), ~StrExOk(c)
  PROVE  QInv'
<1>1. /\ pc[c] = "resStr" /\ pc'[c] = "resLdr" /\ mon' = None /\ l' = l
      /\ UNCHANGED <<rd, wr, buffer, promised>>
  BY DEF ReserveStr, At, Goto, IInv, TypeOK, index
<1>2. Others(c)
  BY <1>1 DEF ReserveStr, Goto, Others, IInv, TypeOK
<1>3. Asked(c)'
  <2>1. Asked(c)
    BY DEF QInv
  <2>2. Room' = Room
    BY <1>1 DEF Room
  <2> QED
    BY <1>1, <2>1, <2>2 DEF Asked, ReservePC
<1> QED
  BY <1>1, <1>2, <1>3, PushStep DEF PopPC

LEMMA ReserveOkQ ==
  ASSUME ~Overwrite, IInv, QInv, NEW c \in Ctx, ReserveStr(c), StrExOk(c)
  PROVE  QInv'
<1> USE DEF IInv
<1>0. PICK k \in Nat : k = Len(l[c].data)
  BY LocalTypes
<1> DEFINE new == {Advance(wr, j - 1) : j \in 1 .. k}
<1>1. /\ pc[c] = "resStr" /\ l[c].wr = wr /\ k \in 0 .. Room
      /\ rd' = rd /\ wr' = Advance(wr, k) /\ Filled' = Filled + k /\ Room' = Room - k
      /\ mon' = None /\ UNCHANGED <<buffer, l, got>>
      /\ Others(c) /\ pc'[c] = IF k = 0 THEN "decLdr" ELSE "copyIn"
      /\ \A j \in 1 .. k : /\ Advance(wr, j - 1) \in Slot
                           /\ Place(rd, Advance(wr, j - 1)) = Filled + j
                           /\ promised'[Advance(wr, j - 1)] = l[c].data[j]
      /\ \A s \in Slot : (\A j \in 1 .. k : Advance(wr, j - 1) # s)
                           => promised'[s] = promised[s]
  BY <1>0, Reservation
<1>2. Filled \in 0 .. N - 1 /\ Room \in 0 .. N - 1 /\ k \in Nat /\ Place(rd, wr) = Filled + 1
  BY <1>1, FilledType
<1>3. \A s \in new : s \in Slot /\ Place(rd, s) > Filled
  BY <1>1, <1>2
<1>4. \A s \in Slot \ new : promised'[s] = promised[s]
  <2> SUFFICES ASSUME NEW s \in Slot \ new PROVE promised'[s] = promised[s]
    OBVIOUS
  <2>1. \A j \in 1 .. k : Advance(wr, j - 1) # s
    OBVIOUS
  <2> QED
    BY <1>1, <2>1
<1>5. \A d \in Ctx : d # c => Reserved(d)' = Reserved(d)
  BY <1>1 DEF Others, Reserved
<1>6. Reserved(c)' = new
  <2>1. k = 0 => new = {}
    OBVIOUS
  <2> QED
    BY <1>0, <1>1, <2>1 DEF Reserved
<1>7. \A d \in Ctx : Reserved(d) \cap new = {}
  <2> SUFFICES ASSUME NEW d \in Ctx, NEW s \in Reserved(d), s \in new PROVE FALSE
    OBVIOUS
  <2>1. Place(rd, s) <= Filled /\ s \in Slot
    BY ReservedIn DEF QInv
  <2>2. Place(rd, s) \in Nat
    BY <2>1, PlaceOfSlot DEF TypeOK
  <2> QED
    BY <1>2, <1>3, <2>1, <2>2
<1>8. ASSUME NEW d \in Ctx PROVE Copying(d)'
  <2>1. CASE d = c
    <3>0. rd' = rd /\ l' = l /\ l[c].wr = wr /\ Filled' = Filled + k
      BY <1>1
    <3>1. Place(rd', l'[c].wr) + Len(l'[c].data) <= Filled' + 1
      <4>1. Place(rd', l'[c].wr) = Filled + 1
        BY <1>2, <3>0
      <4>2. Len(l'[c].data) = k
        BY <1>0, <3>0
      <4>3. Filled + 1 + k <= Filled' + 1
        BY <1>2, <3>0
      <4> QED
        BY <4>1, <4>2, <4>3
    <3>2. \A j \in 1 .. k : promised'[Advance(l'[c].wr, j - 1)] = l'[c].data[j]
      <4>1. \A j \in 1 .. k : promised'[Advance(wr, j - 1)] = l[c].data[j]
        BY <1>1
      <4> QED
        BY <3>0, <4>1
    <3> QED
      BY <1>0, <2>1, <3>0, <3>1, <3>2 DEF Copying
  <2>2. CASE d # c
    <3> SUFFICES ASSUME pc'[d] = "copyIn"
                 PROVE  /\ Place(rd, l[d].wr) + Len(l[d].data) <= Filled + k + 1
                        /\ \A j \in 1 .. Len(l[d].data) :
                             promised'[Advance(l[d].wr, j - 1)] = l[d].data[j]
      BY <1>1 DEF Copying
    <3>1. pc[d] = "copyIn" /\ Copying(d)
      BY <1>1, <2>2 DEF Others, QInv
    <3>2. Place(rd, l[d].wr) \in Nat /\ Len(l[d].data) \in Nat
      BY LocalTypes, PlaceOfSlot DEF TypeOK
    <3>3. Place(rd, l[d].wr) + Len(l[d].data) <= Filled + k + 1
      BY <1>2, <3>1, <3>2 DEF Copying
    <3>4. ASSUME NEW j \in 1 .. Len(l[d].data)
          PROVE  promised'[Advance(l[d].wr, j - 1)] = l[d].data[j]
      <4>1. Advance(l[d].wr, j - 1) \in Reserved(d)
        BY <3>1 DEF Reserved
      <4>2. Advance(l[d].wr, j - 1) \in Slot \ new
        BY <1>7, <3>1, <4>1, ReservedPlaces
      <4> QED
        BY <1>4, <3>1, <4>2 DEF Copying
    <3> QED
      BY <3>3, <3>4
  <2> QED
    BY <2>1, <2>2
<1>9. Apart'
  <2> SUFFICES ASSUME NEW d \in Ctx, NEW e \in Ctx, d # e
               PROVE  Reserved(d)' \cap Reserved(e)' = {}
    BY DEF Apart
  <2>1. Reserved(d) \cap Reserved(e) = {}
    BY DEF QInv, Apart
  <2> HIDE DEF new
  <2> QED
    BY <1>5, <1>6, <1>7, <2>1
<1>10. Stored'
  <2> SUFFICES ASSUME NEW s \in Slot, \A d \in Ctx : s \notin Reserved(d)'
               PROVE  buffer[s] = promised'[s]
    BY <1>1 DEF Stored
  <2>1. s \notin new
    BY <1>6
  <2>2. \A d \in Ctx : s \notin Reserved(d)
    <3>1. pc[c] # "copyIn"
      BY <1>1
    <3> QED
      BY <1>5, <3>1 DEF Reserved
  <2> QED
    BY <1>4, <2>1, <2>2 DEF QInv, Stored
<1>11. ASSUME NEW d \in Ctx PROVE Asked(d)'
  <2>1. CASE d = c
    BY <1>1, <2>1 DEF Asked, ReservePC
  <2>2. CASE d # c
    <3>1. pc'[d] = pc[d] /\ l'[d] = l[d] /\ Asked(d)
      BY <2>2, <1>1 DEF Others, QInv
    <3>2. l[d].cnt \in Nat /\ Len(l[d].data) \in Nat
      BY LocalTypes
    <3>3. Smaller(l[d].cnt, Room - k) <= Smaller(l[d].cnt, Room)
          /\ Smaller(l[d].cnt, Room) \in Int /\ Smaller(l[d].cnt, Room - k) \in Int
      BY <1>1, <1>2, <3>2 DEF Smaller
    <3>4. mon' # d
      BY <1>1 DEF Ctx, None
    <3>5. pc[d] \in ReservePC =>
            Smaller(l[d].cnt, Room - k) <= Len(l[d].data) /\ Len(l[d].data) <= l[d].cnt
      BY <3>1, <3>2, <3>3 DEF Asked
    <3> QED
      BY <1>1, <3>1, <3>4, <3>5 DEF Asked
  <2> QED
    BY <2>1, <2>2
<1>12. Popping'
  <2>1. CASE c = Consumer
    BY <1>1, <2>1, NoPop DEF PopPC
  <2>2. CASE c # Consumer
    <3>1. /\ pc'[Consumer] = pc[Consumer] /\ l'[Consumer] = l[Consumer]
          /\ mon' # Consumer
      BY <1>1, <2>2, CtxAssumption DEF Others, Ctx, None
    <3>2. ASSUME NEW m \in Nat, Taken(m) PROVE Taken(m)'
      <4>1. m <= Filled + k
        BY <1>2, <3>2 DEF Taken
      <4>2. ASSUME NEW i \in 1 .. m
            PROVE  promised'[Advance(rd, i)] = promised[Advance(rd, i)]
        <5>1. i \in 1 .. N /\ i <= Filled
          BY <1>2, <3>2, NAssumption DEF Taken
        <5>2. Advance(rd, i) \in Slot /\ Place(rd, Advance(rd, i)) = i
          BY <5>1, SlotAtPlace DEF TypeOK
        <5>3. Advance(rd, i) \notin new
          BY <1>2, <1>3, <5>1, <5>2
        <5> HIDE DEF new
        <5> QED
          BY <1>4, <5>2, <5>3
      <4> HIDE DEF new
      <4> QED
        <5>1. /\ l'[Consumer].rd = Advance(rd', m) /\ m <= Filled'
              /\ l'[Consumer].data = l[Consumer].data
          BY <1>1, <3>1, <3>2, <4>1 DEF Taken
        <5>2. \A i \in 1 .. m : l[Consumer].data[i] = promised'[Advance(rd', i)]
          BY <1>1, <3>2, <4>2 DEF Taken
        <5> QED
          BY <5>1, <5>2 DEF Taken
    <3>3. ASSUME NEW m \in Nat, Ahead(m) PROVE Ahead(m)'
      <4>1. l[Consumer].cnt \in Nat
        BY LocalTypes, CtxAssumption
      <4>2. m + l[Consumer].cnt <= Filled + k /\ Filled + 1 > m + l[Consumer].cnt
        BY <1>2, <3>3, <4>1 DEF Ahead
      <4>3. ASSUME NEW d \in Ctx, pc'[d] = "copyIn"
            PROVE  Place(rd, l[d].wr) > m + l[Consumer].cnt
        <5>1. CASE d = c
          BY <1>1, <1>2, <4>2, <5>1
        <5>2. CASE d # c
          BY <1>1, <3>3, <4>3, <5>2 DEF Others, Ahead
        <5> QED
          BY <5>1, <5>2
      <4> HIDE DEF new
      <4> QED
        BY <1>1, <4>2, <4>3 DEF Ahead
    <3>4. Len(l[Consumer].data) \in Nat
      BY LocalTypes, CtxAssumption
    <3> QED
      BY <3>1, <3>2, <3>3, <3>4 DEF QInv, Popping
  <2> QED
    BY <2>1, <2>2
<1> QED
  BY <1>8, <1>9, <1>10, <1>11, <1>12 DEF QInv

LEMMA ReserveStrQ ==
  ASSUME ~Overwrite, IInv, QInv, NEW c \in Ctx, ReserveStr(c)
  PROVE  QInv'
  BY ReserveFailQ, ReserveOkQ

----------------------------------------------------------------------------
(* The copy into the reserved slots. *)

LEMMA CopyInQ ==
  ASSUME IInv, QInv, NEW c \in Ctx, CopyIn(c)
  PROVE  QInv'
<1> DEFINE w == l[c].wr
           data == l[c].data
<1> USE DEF IInv
<1>1. /\ pc[c] = "copyIn" /\ mon' = mon /\ UNCHANGED <<rd, wr, promised>>
      /\ Filled' = Filled /\ Room' = Room
  BY DEF CopyIn, At, index, Filled, Room
<1>2. /\ w \in Slot /\ data \in Seq(Item) /\ Len(data) \in Nat \ {0}
      /\ Len(data) <= N /\ Copying(c)
  BY <1>1, LocalTypes, EmptySeq DEF Sizes, QInv, LockedPC, ReservePC
<1>3. /\ l'[c].wr = Advance(w, 1) /\ l'[c].data = Tail(data)
      /\ pc'[c] = IF Len(data) = 1 THEN "decLdr" ELSE "copyIn"
      /\ buffer' = [buffer EXCEPT ![w] = Head(data)]
      /\ Others(c)
  BY DEF CopyIn, Goto, TypeOK, Locals, Others
<1>4. /\ Len(Tail(data)) = Len(data) - 1 /\ Head(data) = data[1]
      /\ \A j \in 1 .. Len(data) - 1 : Tail(data)[j] = data[j + 1]
  BY <1>2
<1>5. Advance(w, 0) = w /\ promised[w] = data[1] /\ w \in Reserved(c)
  <2>1. Advance(w, 0) = w
    BY <1>2, NAssumption DEF Advance, Slot
  <2>2. 1 \in 1 .. Len(data) /\ 1 - 1 = 0
    BY <1>2
  <2>3. promised[Advance(w, 0)] = data[1] /\ Advance(w, 0) \in Reserved(c)
    BY <1>1, <1>2, <2>2 DEF Copying, Reserved
  <2> QED
    BY <2>1, <2>3
<1>6. ASSUME NEW j \in 1 .. Len(data) - 1
      PROVE  Advance(Advance(w, 1), j - 1) = Advance(w, j) /\ j + 1 \in 1 .. Len(data)
             /\ (j + 1) - 1 = j
  <2>1. 1 \in 0 .. N /\ j - 1 \in 0 .. N /\ 1 + (j - 1) <= N /\ 1 + (j - 1) = j
    BY <1>2, NAssumption
  <2>2. Advance(Advance(w, 1), j - 1) = Advance(w, 1 + (j - 1))
    BY <1>2, <2>1, AdvanceTwice
  <2> QED
    BY <1>2, <2>1, <2>2
<1>7. Reserved(c)' \subseteq Reserved(c)
  <2> SUFFICES ASSUME NEW s \in Reserved(c)' PROVE s \in Reserved(c)
    OBVIOUS
  <2>1. PICK j \in 1 .. Len(data) - 1 : s = Advance(Advance(w, 1), j - 1)
    BY <1>3, <1>4 DEF Reserved
  <2>2. s = Advance(w, (j + 1) - 1) /\ j + 1 \in 1 .. Len(data)
    BY <1>6, <2>1
  <2> QED
    BY <1>1, <2>2 DEF Reserved
<1>8. Reserved(c) \subseteq Reserved(c)' \cup {w}
  <2> SUFFICES ASSUME NEW s \in Reserved(c), s # w PROVE s \in Reserved(c)'
    OBVIOUS
  <2>1. PICK j \in 1 .. Len(data) : s = Advance(w, j - 1)
    BY <1>1 DEF Reserved
  <2>2. j # 1
    BY <1>5, <2>1
  <2>3. j - 1 \in 1 .. Len(data) - 1 /\ Len(data) # 1
    <3>1. \A n \in Nat, i \in Nat : i \in 1 .. n /\ i # 1 => i - 1 \in 1 .. n - 1 /\ n # 1
      OBVIOUS
    <3>2. j \in Nat
      OBVIOUS
    <3> HIDE DEF data
    <3> QED
      BY <1>2, <2>2, <3>1, <3>2
  <2>4. s = Advance(Advance(w, 1), (j - 1) - 1)
    BY <1>6, <2>1, <2>3
  <2> QED
    BY <1>3, <1>4, <2>3, <2>4 DEF Reserved
<1>9. \A d \in Ctx : d # c => Reserved(d)' = Reserved(d)
  BY <1>3 DEF Others, Reserved
<1>10. pc'[c] = "copyIn" => Place(rd, Advance(w, 1)) = Place(rd, w) + 1
  <2> SUFFICES ASSUME Len(data) # 1
               PROVE  Place(rd, Advance(w, 1)) = Place(rd, w) + 1
    BY <1>3
  <2>1. 2 \in 1 .. Len(data) /\ 2 - 1 = 1
    <3>1. \A n \in Nat \ {0} : n # 1 => 2 \in 1 .. n /\ 2 - 1 = 1
      OBVIOUS
    <3> HIDE DEF data
    <3> QED
      BY <1>2, <3>1
  <2>2. Place(rd, Advance(w, 2 - 1)) = Place(rd, w) + (2 - 1)
    BY <1>1, <1>2, <2>1, ReservedPlaces
  <2> QED
    BY <2>1, <2>2
<1>11. Place(rd, w) \in Nat
  BY <1>2, PlaceOfSlot DEF TypeOK
<1> HIDE DEF data, w
<1>12. ASSUME NEW d \in Ctx PROVE Copying(d)'
  <2>1. CASE d = c
    <3> SUFFICES ASSUME pc'[c] = "copyIn" PROVE Copying(c)'
      BY <2>1 DEF Copying
    <3>1. Place(rd, Advance(w, 1)) + Len(Tail(data)) <= Filled + 1
      BY <1>1, <1>2, <1>4, <1>10, <1>11, FilledType DEF Copying, data, w
    <3>2. ASSUME NEW j \in 1 .. Len(data) - 1
          PROVE  promised[Advance(Advance(w, 1), j - 1)] = Tail(data)[j]
      <4>1. promised[Advance(w, (j + 1) - 1)] = data[j + 1]
        BY <1>1, <1>2, <1>6 DEF Copying, data, w
      <4> QED
        BY <1>4, <1>6, <4>1
    <3> QED
      BY <1>1, <1>3, <1>4, <3>1, <3>2 DEF Copying
  <2>2. CASE d # c
    <3>1. pc'[d] = pc[d] /\ l'[d] = l[d] /\ Copying(d)
      BY <1>3, <2>2 DEF Others, QInv
    <3> QED
      BY <1>1, <3>1 DEF Copying
  <2> QED
    BY <2>1, <2>2
<1>13. Apart'
  BY <1>7, <1>9 DEF QInv, Apart
<1>14. Stored'
  <2> SUFFICES ASSUME NEW s \in Slot, \A d \in Ctx : s \notin Reserved(d)'
               PROVE  buffer'[s] = promised[s]
    BY <1>1 DEF Stored
  <2>1. CASE s = w
    BY <1>2, <1>3, <1>4, <1>5, <2>1 DEF TypeOK
  <2>2. CASE s # w
    <3>1. \A d \in Ctx : s \notin Reserved(d)
      BY <1>8, <1>9, <2>2
    <3> QED
      BY <1>3, <2>2, <3>1 DEF QInv, Stored, TypeOK
  <2> QED
    BY <2>1, <2>2
<1>15. ASSUME NEW d \in Ctx PROVE Asked(d)'
  <2>1. CASE d = c
    BY <1>3, <2>1 DEF Asked, ReservePC
  <2>2. CASE d # c
    <3>1. pc'[d] = pc[d] /\ l'[d] = l[d] /\ Asked(d)
      BY <1>3, <2>2 DEF Others, QInv
    <3> QED
      BY <1>1, <3>1 DEF Asked
  <2> QED
    BY <2>1, <2>2
<1>16. Popping'
  <2>1. CASE c = Consumer
    BY <1>3, <2>1, NoPop DEF PopPC
  <2>2. CASE c # Consumer
    <3>1. pc'[Consumer] = pc[Consumer] /\ l'[Consumer] = l[Consumer]
      BY <1>3, <2>2, CtxAssumption DEF Others
    <3>2. ASSUME NEW m \in Nat, Ahead(m) PROVE Ahead(m)'
      <4>1. l[Consumer].cnt \in Nat
        BY LocalTypes, CtxAssumption
      <4>2. ASSUME NEW d \in Ctx, pc'[d] = "copyIn"
            PROVE  Place(rd, l'[d].wr) > m + l[Consumer].cnt
        <5>1. CASE d = c
          <6>1. Place(rd, w) > m + l[Consumer].cnt
            BY <1>1, <3>2 DEF Ahead, w
          <6> QED
            BY <1>3, <1>10, <1>11, <4>1, <4>2, <5>1, <6>1
        <5>2. CASE d # c
          BY <1>3, <3>2, <4>2, <5>2 DEF Others, Ahead
        <5> QED
          BY <5>1, <5>2
      <4> QED
        BY <1>1, <3>1, <3>2, <4>2 DEF Ahead
    <3>3. \A m : Taken(m) => Taken(m)'
      BY <1>1, <3>1 DEF Taken
    <3>4. Len(l[Consumer].data) \in Nat
      BY LocalTypes, CtxAssumption
    <3> QED
      BY <1>1, <3>1, <3>2, <3>3, <3>4 DEF QInv, Popping
  <2> QED
    BY <2>1, <2>2
<1> QED
  BY <1>12, <1>13, <1>14, <1>15, <1>16 DEF QInv

----------------------------------------------------------------------------
(* The steps of a pop. *)

\* While the consumer runs a pop nobody is inside a push, so nothing is
\* reserved and every slot holds what was promised.
LEMMA NobodyPushes ==
  ASSUME IInv, pc[Consumer] \in PopPC, MayRun(Consumer), NEW c \in Ctx
  PROVE  pc[c] \notin LockedPC /\ Reserved(c) = {}
<1>1. c \in Int /\ Consumer \in Int
  BY CtxAssumption DEF Ctx
<1>2. CASE c < Consumer
  BY <1>2 DEF IInv, PopAlone, Reserved, LockedPC
<1>3. CASE c = Consumer
  BY <1>3 DEF Reserved, PopPC, LockedPC, ReservePC
<1>4. CASE c > Consumer
  BY <1>4 DEF MayRun, Reserved, LockedPC, ReservePC
<1> QED
  BY <1>1, <1>2, <1>3, <1>4

LEMMA PopStep ==
  ASSUME IInv, QInv, Others(Consumer), UNCHANGED <<rd, wr, buffer, promised>>,
         pc[Consumer] # "copyIn", pc'[Consumer] \in PopPC,
         mon' \in {mon, None, Consumer}, Popping'
  PROVE  QInv'
<1>1. Asked(Consumer)' /\ pc'[Consumer] # "copyIn"
  BY DEF Asked, PopPC, ReservePC
<1> QED
  BY <1>1, LocalStep, CtxAssumption

LEMMA PopReturnQ ==
  ASSUME IInv, QInv, Return(Consumer), pc[Consumer] # "copyIn",
         UNCHANGED <<rd, wr, buffer, promised>>
  PROVE  QInv'
<1>1. pc'[Consumer] = "idle"
  BY CtxAssumption DEF Return, Goto, IInv, TypeOK
<1> QED
  BY <1>1, PushReturnQ, CtxAssumption DEF PopPC

LEMMA PopLockedQ == ASSUME IInv, QInv, PopLocked PROVE QInv'
<1>1. /\ pc[Consumer] = "idle" /\ pc' = pc /\ l' = l /\ mon' = None
      /\ UNCHANGED <<rd, wr, buffer, promised>>
  BY DEF PopLocked, At, index
<1>2. Others(Consumer) /\ Asked(Consumer)
  BY <1>1, CtxAssumption DEF Others, QInv
<1>3. Asked(Consumer)'
  BY <1>1, <1>2 DEF Asked, ReservePC
<1>4. pc'[Consumer] \notin PopPC /\ pc'[Consumer] # "copyIn"
  BY <1>1 DEF PopPC
<1> QED
  BY <1>1, <1>2, <1>3, <1>4, PushStep, CtxAssumption

LEMMA PopCallQ ==
  ASSUME IInv, QInv, NEW count \in 0 .. MaxCnt, NEW peek \in BOOLEAN, PopCall(count, peek)
  PROVE  QInv'
<1>1. /\ pc[Consumer] = "idle" /\ mon' = None /\ UNCHANGED <<rd, wr, buffer, promised>>
  BY DEF PopCall, At, index
<1>2. pc'[Consumer] = "emptyRd" /\ Others(Consumer)
      /\ l'[Consumer].data = l[Consumer].data
  BY CtxAssumption DEF PopCall, Goto, Others, IInv, TypeOK, Locals
<1>3. l[Consumer].data = <<>>
  BY <1>1, CtxAssumption DEF QInv, Asked, NoLocals
<1>4. Popping'
  BY <1>2, <1>3 DEF Popping
<1> QED
  BY <1>1, <1>2, <1>4, PopStep DEF PopPC

LEMMA EmptyReadQ == ASSUME IInv, QInv, EmptyReadRd \/ EmptyReadWr PROVE QInv'
<1>1. /\ pc[Consumer] \in {"emptyRd", "emptyWr"} /\ l[Consumer].data = <<>>
      /\ UNCHANGED <<rd, wr, buffer, promised>>
  BY DEF EmptyReadRd, EmptyReadWr, At, index, QInv, Popping
<1>2. CASE EmptyReadWr /\ Return(Consumer)
  BY <1>1, <1>2, PopReturnQ
<1>3. CASE EmptyReadRd \/ (EmptyReadWr /\ Goto(Consumer, "snap") /\ UNCHANGED <<mon, l>>)
  <2>1. /\ pc'[Consumer] \in {"emptyWr", "snap"} /\ Others(Consumer) /\ mon' = mon
        /\ l'[Consumer].data = l[Consumer].data
    BY <1>3, CtxAssumption DEF EmptyReadRd, Goto, Others, IInv, TypeOK, Locals
  <2>2. Popping'
    BY <1>1, <2>1 DEF Popping
  <2> QED
    BY <1>1, <2>1, <2>2, PopStep DEF PopPC
<1> QED
  BY <1>2, <1>3 DEF EmptyReadWr

LEMMA SnapshotQ == ASSUME IInv, QInv, Snapshot PROVE QInv'
<1> DEFINE n == Smaller(l[Consumer].cnt, FilledSize(rd, wr))
<1>1. /\ pc[Consumer] = "snap" /\ MayRun(Consumer) /\ l[Consumer].data = <<>>
      /\ UNCHANGED <<rd, wr, buffer, promised>>
  BY DEF Snapshot, At, index, QInv, Popping
<1>2. CASE n = 0
  BY <1>1, <1>2, PopReturnQ DEF Snapshot
<1>3. CASE n # 0
  <2>1. /\ pc'[Consumer] = "copyOut" /\ Others(Consumer) /\ mon' = mon
        /\ l'[Consumer].rd = rd /\ l'[Consumer].cnt = n /\ l'[Consumer].data = <<>>
    <3>1. l' = [l EXCEPT ![Consumer].rd = rd, ![Consumer].cnt = n] /\ mon' = mon
      BY <1>3 DEF Snapshot
    <3>2. pc' = [pc EXCEPT ![Consumer] = "copyOut"]
      BY <1>3 DEF Snapshot, Goto
    <3> HIDE DEF n
    <3> QED
      BY <1>1, <3>1, <3>2, CtxAssumption DEF Others, IInv, TypeOK, Locals
  <2>2. /\ Filled \in 0 .. N - 1 /\ l[Consumer].cnt \in Nat /\ n <= Filled
        /\ n \in Nat
    <3>1. Filled \in 0 .. N - 1 /\ l[Consumer].cnt \in Nat
      BY FilledType, LocalTypes, CtxAssumption DEF IInv
    <3> QED
      BY <3>1 DEF Smaller, Filled
  <2>3. rd = Advance(rd, 0)
    BY NAssumption DEF Advance, IInv, TypeOK, Slot
  <2>4. Filled' = Filled
    BY <1>1 DEF Filled
  <2>5. Taken(0)'
    BY <1>1, <2>1, <2>2, <2>3, <2>4 DEF Taken
  <2>6. \A c \in Ctx : pc'[c] # "copyIn"
    <3>1. \A c \in Ctx : pc[c] \notin LockedPC
      BY <1>1, NobodyPushes DEF PopPC
    <3> QED
      BY <2>1, <3>1 DEF Others, LockedPC
  <2> HIDE DEF n
  <2>7. Ahead(0)'
    BY <2>1, <2>2, <2>4, <2>6 DEF Ahead
  <2>8. Popping'
    BY <2>1, <2>5, <2>7, Len(<<>>) = 0 DEF Popping
  <2> QED
    BY <1>1, <2>1, <2>8, PopStep DEF PopPC
<1> QED
  BY <1>2, <1>3

\* The object read next is the one promised behind the objects copied.
LEMMA ReadNext ==
  ASSUME IInv, QInv, pc[Consumer] = "copyOut", MayRun(Consumer),
         NEW m, m = Len(l[Consumer].data)
  PROVE  /\ m \in Nat /\ l[Consumer].cnt \in Nat \ {0}
         /\ m + l[Consumer].cnt <= Filled /\ Filled \in 0 .. N - 1
         /\ Advance(l[Consumer].rd, 1) = Advance(rd, m + 1)
         /\ buffer[Advance(rd, m + 1)] = promised[Advance(rd, m + 1)]
<1>1. m \in Nat /\ l[Consumer].cnt \in Nat \ {0} /\ Filled \in 0 .. N - 1
  BY LocalTypes, FilledType, CtxAssumption DEF IInv, Sizes
<1>2. m + l[Consumer].cnt <= Filled /\ l[Consumer].rd = Advance(rd, m)
  BY DEF QInv, Popping, Ahead, Taken
<1>3. m \in 0 .. N /\ 1 \in 0 .. N /\ m + 1 <= N /\ m + 1 \in 1 .. N
  BY <1>1, <1>2, NAssumption
<1>4. rd \in Slot
  BY DEF IInv, TypeOK
<1>5. Advance(Advance(rd, m), 1) = Advance(rd, m + 1)
  BY <1>3, <1>4, AdvanceTwice
<1>6. Advance(rd, m + 1) \in Slot
  BY <1>3, <1>4, SlotAtPlace
<1>7. \A c \in Ctx : Reserved(c) = {}
  BY NobodyPushes DEF PopPC
<1> QED
  BY <1>1, <1>2, <1>5, <1>6, <1>7 DEF QInv, Stored

LEMMA CopyOutQ == ASSUME IInv, QInv, CopyOut PROVE QInv'
<1> DEFINE me == l[Consumer]
           all == Append(me.data, buffer[Advance(me.rd, 1)])
<1>0. PICK m \in Nat : m = Len(me.data)
  BY LocalTypes, CtxAssumption DEF IInv
<1>1. /\ pc[Consumer] = "copyOut" /\ MayRun(Consumer)
      /\ UNCHANGED <<rd, wr, buffer, promised>>
  BY DEF CopyOut, At, index
<1>2. CASE me.cnt = 1 /\ me.peek
  BY <1>1, <1>2, PopReturnQ DEF CopyOut
<1>3. CASE ~(me.cnt = 1 /\ me.peek)
  <2>1. /\ m \in Nat /\ me.cnt \in Nat \ {0} /\ m + me.cnt <= Filled
        /\ Filled \in 0 .. N - 1
        /\ Advance(me.rd, 1) = Advance(rd, m + 1)
        /\ buffer[Advance(rd, m + 1)] = promised[Advance(rd, m + 1)]
    BY <1>0, <1>1, ReadNext
  <2>2. /\ pc'[Consumer] = (IF me.cnt = 1 THEN "popLdr" ELSE "copyOut") /\ mon' = mon
        /\ l'[Consumer].rd = Advance(me.rd, 1) /\ l'[Consumer].data = all
        /\ l'[Consumer].cnt = me.cnt - 1 /\ Others(Consumer)
    <3>1. /\ l' = [l EXCEPT ![Consumer].rd = Advance(me.rd, 1),
                            ![Consumer].data = all, ![Consumer].cnt = me.cnt - 1]
          /\ mon' = mon
          /\ pc' = [pc EXCEPT ![Consumer] = IF me.cnt = 1 THEN "popLdr" ELSE "copyOut"]
      BY <1>3 DEF CopyOut, Goto
    <3> HIDE DEF all, me
    <3> QED
      BY <3>1, CtxAssumption DEF Others, IInv, TypeOK, Locals, me
  <2>3. me.data \in Seq(Item)
    BY LocalTypes, CtxAssumption DEF IInv
  <2>4. /\ Len(all) = m + 1 /\ all[m + 1] = buffer[Advance(me.rd, 1)]
        /\ \A i \in 1 .. m : all[i] = me.data[i]
    <3>1. m = Len(me.data)
      BY <1>0
    <3> HIDE DEF me
    <3> QED
      BY <2>3, <3>1
  <2>5. Filled' = Filled
    BY <1>1 DEF Filled
  <2>6. Taken(m + 1)'
    <3>1. Taken(m)
      BY <1>0, <1>1 DEF QInv, Popping
    <3>2. m + 1 <= Filled
      <4> HIDE DEF me
      <4> QED
        BY <2>1
    <3>3. ASSUME NEW i \in 1 .. m + 1 PROVE all[i] = promised[Advance(rd, i)]
      <4>1. CASE i = m + 1
        BY <2>1, <2>4, <4>1
      <4>2. CASE i # m + 1
        <5>1. i \in 1 .. m
          BY <2>1, <4>2
        <5> QED
          BY <2>4, <3>1, <5>1 DEF Taken
      <4> QED
        BY <4>1, <4>2
    <3> HIDE DEF all
    <3> QED
      BY <1>1, <2>1, <2>2, <2>5, <3>2, <3>3 DEF Taken
  <2>7. Ahead(m + 1)'
    <3>1. \A c \in Ctx : pc'[c] # "copyIn"
      <4>1. \A c \in Ctx : pc[c] \notin LockedPC
        BY <1>1, NobodyPushes DEF PopPC
      <4> QED
        BY <2>2, <4>1 DEF Others, LockedPC
    <3>2. m + 1 + (me.cnt - 1) <= Filled
      <4> HIDE DEF me
      <4> QED
        BY <2>1
    <3> QED
      BY <2>2, <2>5, <3>1, <3>2 DEF Ahead
  <2> HIDE DEF all
  <2>8. Popping'
    BY <2>2, <2>4, <2>6, <2>7 DEF Popping
  <2> QED
    BY <1>1, <2>2, <2>8, PopStep DEF PopPC
<1> QED
  BY <1>2, <1>3

\* The load of the read index keeps what the pop has taken.
LEMMA PopLdrQ == ASSUME IInv, QInv, PopLdr PROVE QInv'
<1>1. /\ pc[Consumer] = "popLdr" /\ mon' = Consumer
      /\ UNCHANGED <<rd, wr, buffer, promised>> /\ Filled' = Filled
  BY DEF PopLdr, LdrEx, At, index, Filled
<1>2. /\ pc'[Consumer] = "popStr" /\ Others(Consumer)
      /\ l'[Consumer].wr = wr /\ l'[Consumer].rd = l[Consumer].rd
      /\ l'[Consumer].data = l[Consumer].data
  BY CtxAssumption DEF PopLdr, Goto, Others, IInv, TypeOK, Locals
<1>3. Taken(Len(l[Consumer].data))
  BY <1>1 DEF QInv, Popping
<1>4. Taken(Len(l[Consumer].data))'
  BY <1>1, <1>2, <1>3 DEF Taken
<1>5. Popping'
  BY <1>1, <1>2, <1>4 DEF Popping
<1> QED
  BY <1>1, <1>2, <1>5, PopStep DEF PopPC

\* A pop that succeeds removes what it has taken.
LEMMA Removal ==
  ASSUME IInv, QInv, PopStr, StrExOk(Consumer), NEW m, m = Len(l[Consumer].data)
  PROVE  /\ pc[Consumer] = "popStr" /\ MayRun(Consumer) /\ Taken(m)
         /\ m \in 0 .. Filled /\ rd' = Advance(rd, m) /\ wr' = wr
         /\ Filled' = Filled - m /\ got' = l[Consumer].data
         /\ mon' = None /\ UNCHANGED <<qLock, buffer, promised>>
         /\ pc'[Consumer] = "idle" /\ l'[Consumer] = NoLocals /\ Others(Consumer)
<1>1. /\ pc[Consumer] = "popStr" /\ MayRun(Consumer) /\ mon = Consumer
      /\ Return(Consumer) /\ got' = l[Consumer].data
      /\ UNCHANGED <<qLock, buffer, promised>>
  BY DEF PopStr, At, StrExOk
<1>2. Taken(m) /\ l[Consumer].wr = wr
  BY <1>1 DEF QInv, Popping
<1>3. m \in 0 .. Filled
  BY <1>2, LocalTypes, FilledType, CtxAssumption DEF Taken, IInv
<1>4. rd' = Advance(rd, m) /\ wr' = wr
  BY <1>2 DEF PopStr, Taken
<1>5. Filled' = Filled - m
  BY <1>3, <1>4, FilledLess DEF Filled, IInv, TypeOK
<1>6. /\ mon' = None /\ pc'[Consumer] = "idle" /\ l'[Consumer] = NoLocals
      /\ Others(Consumer)
  BY <1>1, CtxAssumption DEF Return, Goto, Others, IInv, TypeOK
<1> QED
  BY <1>1, <1>2, <1>3, <1>4, <1>5, <1>6

\* A step after which nobody is inside a push.
LEMMA AtRest ==
  ASSUME IInv, QInv, UNCHANGED <<buffer, promised>>, mon' = None,
         \A c \in Ctx : pc[c] \notin LockedPC,
         \A c \in Ctx : \/ pc'[c] = "idle" /\ l'[c] = NoLocals
                        \/ pc'[c] = pc[c] /\ l'[c] = l[c],
         pc'[Consumer] = "idle"
  PROVE  QInv'
<1>1. \A c \in Ctx : pc'[c] \notin LockedPC
  BY DEF LockedPC, ReservePC
<1>2. \A c \in Ctx : Reserved(c) = {} /\ Reserved(c)' = {}
  BY <1>1 DEF Reserved, LockedPC
<1>3. Apart' /\ Stored'
  BY <1>2 DEF QInv, Apart, Stored
<1>4. ASSUME NEW c \in Ctx PROVE Copying(c)' /\ Asked(c)'
  <2>1. Asked(c)
    BY DEF QInv
  <2> QED
    BY <1>1, <2>1 DEF Copying, Asked, LockedPC, ReservePC, NoLocals
<1>5. Popping'
  BY NoPop DEF PopPC
<1> QED
  BY <1>3, <1>4, <1>5 DEF QInv

LEMMA PopStrQ == ASSUME IInv, QInv, PopStr PROVE QInv'
<1>1. CASE StrExOk(Consumer)
  <2>1. /\ pc[Consumer] = "popStr" /\ MayRun(Consumer) /\ mon' = None
        /\ UNCHANGED <<buffer, promised>>
        /\ pc'[Consumer] = "idle" /\ l'[Consumer] = NoLocals /\ Others(Consumer)
    BY <1>1, Removal
  <2>2. \A c \in Ctx : pc[c] \notin LockedPC
    BY <2>1, NobodyPushes DEF PopPC
  <2> QED
    BY <2>1, <2>2, AtRest DEF Others
<1>2. CASE ~StrExOk(Consumer)
  <2>1. /\ pc[Consumer] = "popStr" /\ pc'[Consumer] = "popLdr" /\ mon' = None /\ l' = l
        /\ UNCHANGED <<rd, wr, buffer, promised>> /\ Filled' = Filled
    BY <1>2, CtxAssumption DEF PopStr, At, Goto, IInv, TypeOK, index, Filled
  <2>2. Others(Consumer)
    BY <1>2, <2>1 DEF PopStr, Goto, Others, IInv, TypeOK
  <2>3. Taken(Len(l[Consumer].data))
    BY <2>1 DEF QInv, Popping
  <2>4. Popping'
    BY <2>1, <2>3 DEF Popping, Taken
  <2> QED
    BY <2>1, <2>2, <2>4, PopStep DEF PopPC
<1> QED
  BY <1>1, <1>2

----------------------------------------------------------------------------
(* All steps. *)

LEMMA ResetQ == ASSUME IInv, QInv, Reset PROVE QInv'
<1>1. /\ \A c \in Ctx : pc[c] = "idle"
      /\ pc' = pc /\ l' = l /\ mon' = None /\ UNCHANGED <<buffer, promised>>
  BY DEF Reset
<1>2. \A c \in Ctx : pc[c] \notin LockedPC
  BY <1>1 DEF LockedPC, ReservePC
<1> QED
  BY <1>1, <1>2, AtRest, CtxAssumption

\* A step that can only drop the monitor.
LEMMA QuietQ ==
  ASSUME IInv, QInv, UNCHANGED <<rd, wr, qLock, buffer, pc, l, got, promised>>,
         mon' \in {mon, None}
  PROVE  QInv'
<1>1. Filled' = Filled /\ Room' = Room
  BY DEF Filled, Room
<1>2. \A c \in Ctx : mon' = c => mon = c
  BY DEF Ctx, None
<1>3. \A c \in Ctx : Reserved(c)' = Reserved(c)
  BY DEF Reserved
<1>4. Apart' /\ Stored'
  BY <1>3 DEF QInv, Apart, Stored
<1>5. ASSUME NEW c \in Ctx PROVE Copying(c)' /\ Asked(c)'
  <2>1. Copying(c) /\ Asked(c)
    BY DEF QInv
  <2> QED
    BY <1>1, <1>2, <2>1 DEF Copying, Asked
<1>6. Popping'
  BY <1>1, <1>2, CtxAssumption DEF QInv, Popping, Taken, Ahead
<1> QED
  BY <1>4, <1>5, <1>6 DEF QInv

LEMMA QInvInit == Init => QInv
<1> SUFFICES ASSUME Init PROVE QInv
  OBVIOUS
<1>1. \A c \in Ctx : pc[c] = "idle" /\ l[c] = NoLocals
  BY DEF Init
<1>2. \A c \in Ctx : Reserved(c) = {}
  BY <1>1 DEF Reserved
<1>3. Apart /\ Stored
  BY <1>2 DEF Apart, Stored, Init
<1>4. \A c \in Ctx : Copying(c) /\ Asked(c)
  BY <1>1 DEF Copying, Asked, ReservePC
<1>5. Popping
  BY <1>1, CtxAssumption DEF Popping
<1> QED
  BY <1>3, <1>4, <1>5 DEF QInv

LEMMA QInvNext == ASSUME ~Overwrite, IInv, QInv, [Next]_vars PROVE QInv'
<1>1. ASSUME NEW c \in Ctx, Push(c) PROVE QInv'
  BY <1>1, PushCallQ, PushRefusedQ, PushTrimQ, CountQ, ReserveLdrQ, ReserveStrQ,
     CopyInQ, DecStrQ DEF Push
<1>2. CASE Pop
  BY <1>2, PopLockedQ, PopCallQ, EmptyReadQ, SnapshotQ, CopyOutQ, PopLdrQ, PopStrQ
     DEF Pop
<1>3. CASE Reset
  BY <1>3, ResetQ
<1>4. CASE OtherException
  BY <1>4, QuietQ DEF OtherException, index
<1>5. CASE UNCHANGED vars
  BY <1>5, QuietQ DEF vars
<1> QED
  BY <1>1, <1>2, <1>3, <1>4, <1>5 DEF Next

LEMMA QueueInvariant == ASSUME ~Overwrite PROVE Spec => [](IInv /\ QInv)
<1>1. Init => IInv /\ QInv
  BY IInvInit, QInvInit
<1>2. IInv /\ QInv /\ [Next]_vars => (IInv /\ QInv)'
  BY IInvNext, QInvNext
<1> QED
  BY <1>1, <1>2, PTL DEF Spec

----------------------------------------------------------------------------
(* The contents of the queue as a sequence. *)

ContentsOf(r, w, p) == [i \in 1 .. FilledSize(r, w) |-> p[Advance(r, i)]]

LEMMA ContentsType ==
  ASSUME NEW r \in Slot, NEW w \in Slot, NEW p \in [Slot -> Item]
  PROVE  /\ ContentsOf(r, w, p) \in Seq(Item)
         /\ Len(ContentsOf(r, w, p)) = FilledSize(r, w)
         /\ \A i \in 1 .. FilledSize(r, w) : ContentsOf(r, w, p)[i] = p[Advance(r, i)]
<1> DEFINE n == FilledSize(r, w)
           q == ContentsOf(r, w, p)
<1>1. n \in 0 .. N - 1 /\ n \in Nat
  BY SpaceIsRest, NAssumption
<1>2. \A i \in 1 .. n : i \in 1 .. N /\ p[Advance(r, i)] \in Item
  BY <1>1, SlotAtPlace, NAssumption
<1>3. q \in [1 .. n -> Item] /\ \A i \in 1 .. n : q[i] = p[Advance(r, i)]
  BY <1>2 DEF ContentsOf
<1> HIDE DEF n, q
<1>4. q \in Seq(Item) /\ Len(q) = n
  BY <1>1, <1>3
<1> QED
  BY <1>3, <1>4 DEF n, q

LEMMA Now ==
  ASSUME TypeOK
  PROVE  /\ Contents \in Seq(Item) /\ Len(Contents) = Filled
         /\ \A i \in 1 .. Filled : Contents[i] = promised[Advance(rd, i)]
<1>1. rd \in Slot /\ wr \in Slot /\ promised \in [Slot -> Item]
  BY DEF TypeOK
<1>2. Contents = ContentsOf(rd, wr, promised)
  BY DEF Contents, ContentsOf
<1> QED
  BY <1>1, <1>2, ContentsType DEF Filled

LEMMA Afterwards ==
  ASSUME TypeOK'
  PROVE  /\ Contents' \in Seq(Item) /\ Len(Contents') = Filled'
         /\ \A i \in 1 .. Filled' : Contents'[i] = promised'[Advance(rd', i)]
<1>1. rd' \in Slot /\ wr' \in Slot /\ promised' \in [Slot -> Item]
  BY DEF TypeOK
<1>2. Contents' = ContentsOf(rd', wr', promised')
  BY DEF Contents, ContentsOf
<1> QED
  BY <1>1, <1>2, ContentsType DEF Filled

\* A front of the contents is what the first slots were promised.
LEMMA FrontIs ==
  ASSUME TypeOK, NEW m \in 0 .. Filled, NEW s \in Seq(Item), Len(s) = m,
         \A i \in 1 .. m : s[i] = promised[Advance(rd, i)]
  PROVE  s = SubSeq(Contents, 1, m)
<1>1. /\ Contents \in Seq(Item) /\ Len(Contents) = Filled /\ Filled \in 0 .. N - 1
      /\ \A i \in 1 .. Filled : Contents[i] = promised[Advance(rd, i)]
  BY Now, FilledType
<1>2. \A i \in 1 .. m : i \in 1 .. Filled /\ Contents[i] \in Item
  <2> SUFFICES ASSUME NEW i \in 1 .. m PROVE i \in 1 .. Filled /\ Contents[i] \in Item
    OBVIOUS
  <2>1. i \in 1 .. Filled
    BY <1>1
  <2> QED
    BY <1>1, <2>1, ElementOfSeq
<1>3. /\ SubSeq(Contents, 1, m) \in Seq(Item)
      /\ Len(SubSeq(Contents, 1, m)) = IF 1 <= m THEN m - 1 + 1 ELSE 0
      /\ \A i \in 1 .. m - 1 + 1 : SubSeq(Contents, 1, m)[i] = Contents[1 + i - 1]
  BY <1>1, <1>2, SubSeqProperties, m \in Int, 1 \in Int
<1>4. Len(SubSeq(Contents, 1, m)) = m
  BY <1>1, <1>3
<1>5. \A i \in 1 .. m : SubSeq(Contents, 1, m)[i] = s[i]
  <2> SUFFICES ASSUME NEW i \in 1 .. m PROVE SubSeq(Contents, 1, m)[i] = s[i]
    OBVIOUS
  <2>1. i \in 1 .. m - 1 + 1 /\ 1 + i - 1 = i
    BY <1>1
  <2> QED
    BY <1>1, <1>2, <1>3, <2>1
<1> QED
  BY <1>3, <1>4, <1>5, SeqEqual

----------------------------------------------------------------------------
(* Steps of the queue are steps of the bounded FIFO. *)

\* The store that publishes the indices appends the objects of the push.
LEMMA AppendsData ==
  ASSUME ~Overwrite, IInv, QInv, IInv', NEW c \in Ctx, ReserveStr(c), StrExOk(c)
  PROVE  /\ Contents' = Contents \o l[c].data
         /\ Len(l[c].data) \in 0 .. N - 1 - Len(Contents)
         /\ l[c].data \in Seq(Item) /\ got' = got
<1>0. PICK k \in Nat : k = Len(l[c].data)
  BY LocalTypes DEF IInv
<1>1. /\ k \in 0 .. Room /\ rd' = rd /\ Filled' = Filled + k /\ got' = got
      /\ \A j \in 1 .. k : /\ Advance(wr, j - 1) \in Slot
                           /\ Place(rd, Advance(wr, j - 1)) = Filled + j
                           /\ promised'[Advance(wr, j - 1)] = l[c].data[j]
      /\ \A s \in Slot : (\A j \in 1 .. k : Advance(wr, j - 1) # s)
                           => promised'[s] = promised[s]
  BY <1>0, Reservation
<1>2. /\ Filled \in 0 .. N - 1 /\ Room = N - 1 - Filled /\ rd \in Slot
      /\ l[c].data \in Seq(Item)
  BY FilledType, LocalTypes DEF IInv, TypeOK
<1>3. /\ Contents \in Seq(Item) /\ Len(Contents) = Filled
      /\ \A i \in 1 .. Filled : Contents[i] = promised[Advance(rd, i)]
  BY Now DEF IInv
<1>4. /\ Contents' \in Seq(Item) /\ Len(Contents') = Filled'
      /\ \A i \in 1 .. Filled' : Contents'[i] = promised'[Advance(rd', i)]
  BY Afterwards DEF IInv
<1>5. /\ Contents \o l[c].data \in Seq(Item)
      /\ Len(Contents \o l[c].data) = Filled + k
      /\ \A i \in 1 .. Filled + k : (Contents \o l[c].data)[i] =
              IF i <= Filled THEN Contents[i] ELSE l[c].data[i - Filled]
  BY <1>0, <1>2, <1>3, ConcatProperties
<1>6. ASSUME NEW i \in 1 .. Filled + k
      PROVE  Contents'[i] = (Contents \o l[c].data)[i]
  <2>1. i \in 1 .. N
    BY <1>1, <1>2, NAssumption
  <2>2. Advance(rd, i) \in Slot /\ Place(rd, Advance(rd, i)) = i
    BY <1>2, <2>1, SlotAtPlace
  <2>3. CASE i <= Filled
    <3>1. \A j \in 1 .. k : Advance(wr, j - 1) # Advance(rd, i)
      BY <1>1, <1>2, <2>1, <2>2, <2>3
    <3>2. promised'[Advance(rd, i)] = promised[Advance(rd, i)]
      BY <1>1, <2>2, <3>1
    <3> QED
      BY <1>1, <1>3, <1>4, <1>5, <2>3, <3>2
  <2>4. CASE ~(i <= Filled)
    <3>1. i - Filled \in 1 .. k /\ Filled + (i - Filled) = i
      BY <1>2, <2>1, <2>4
    <3>2. PICK s \in Slot : s = Advance(wr, (i - Filled) - 1) /\ Place(rd, s) = i
      BY <1>1, <3>1
    <3>3. s = Advance(rd, i)
      BY <1>2, <3>2, PlaceOfSlot
    <3>4. Contents'[i] = promised'[Advance(rd, i)]
      BY <1>1, <1>4
    <3>5. promised'[s] = l[c].data[i - Filled]
      BY <1>1, <3>1, <3>2
    <3>6. (Contents \o l[c].data)[i] = l[c].data[i - Filled]
      BY <1>5, <2>4
    <3> QED
      BY <3>3, <3>4, <3>5, <3>6
  <2> QED
    BY <2>3, <2>4
<1>7. Contents' = Contents \o l[c].data
  BY <1>1, <1>4, <1>5, <1>6, SeqEqual
<1> QED
  BY <1>0, <1>1, <1>2, <1>3, <1>7

\* The store of the read index removes what it returns.
LEMMA RemovesFront ==
  ASSUME IInv, QInv, IInv', PopStr, StrExOk(Consumer)
  PROVE  \E m \in 0 .. Len(Contents) :
           /\ got' = SubSeq(Contents, 1, m)
           /\ Contents' = SubSeq(Contents, m + 1, Len(Contents))
<1>0. PICK m \in Nat : m = Len(l[Consumer].data)
  BY LocalTypes, CtxAssumption DEF IInv
<1>1. /\ m \in 0 .. Filled /\ rd' = Advance(rd, m) /\ Filled' = Filled - m
      /\ got' = l[Consumer].data /\ promised' = promised /\ Taken(m)
  BY <1>0, Removal
<1>2. /\ Filled \in 0 .. N - 1 /\ rd \in Slot /\ l[Consumer].data \in Seq(Item)
  BY FilledType, LocalTypes, CtxAssumption DEF IInv, TypeOK
<1>3. /\ Contents \in Seq(Item) /\ Len(Contents) = Filled
      /\ \A i \in 1 .. Filled : Contents[i] = promised[Advance(rd, i)]
  BY Now DEF IInv
<1>4. /\ Contents' \in Seq(Item) /\ Len(Contents') = Filled'
      /\ \A i \in 1 .. Filled' : Contents'[i] = promised'[Advance(rd', i)]
  BY Afterwards DEF IInv
<1>5. got' = SubSeq(Contents, 1, m)
  BY <1>0, <1>1, <1>2, FrontIs DEF Taken, IInv
<1>6. \A i \in m + 1 .. Filled : Contents[i] \in Item
  <2> SUFFICES ASSUME NEW i \in m + 1 .. Filled PROVE Contents[i] \in Item
    OBVIOUS
  <2>1. i \in 1 .. Filled
    BY <1>1, <1>2
  <2> QED
    BY <1>3, <2>1, ElementOfSeq
<1>7. /\ SubSeq(Contents, m + 1, Filled) \in Seq(Item)
      /\ Len(SubSeq(Contents, m + 1, Filled)) =
           IF m + 1 <= Filled THEN Filled - (m + 1) + 1 ELSE 0
      /\ \A i \in 1 .. Filled - (m + 1) + 1 :
           SubSeq(Contents, m + 1, Filled)[i] = Contents[(m + 1) + i - 1]
  BY <1>1, <1>2, <1>6, SubSeqProperties, m + 1 \in Int, Filled \in Int
<1>8. Len(SubSeq(Contents, m + 1, Filled)) = Filled - m
  BY <1>1, <1>2, <1>7
<1>9. ASSUME NEW i \in 1 .. Filled - m
      PROVE  Contents'[i] = SubSeq(Contents, m + 1, Filled)[i]
  <2>1. /\ i \in 1 .. Filled - (m + 1) + 1 /\ (m + 1) + i - 1 = m + i
        /\ m + i \in 1 .. Filled /\ m \in 0 .. N /\ i \in 0 .. N /\ m + i <= N
    BY <1>1, <1>2, NAssumption
  <2>2. Advance(Advance(rd, m), i) = Advance(rd, m + i)
    BY <1>2, <2>1, AdvanceTwice
  <2>3. Contents'[i] = promised[Advance(rd, m + i)]
    BY <1>1, <1>4, <2>2
  <2>4. Contents[m + i] = promised[Advance(rd, m + i)]
    BY <1>3, <2>1
  <2>5. SubSeq(Contents, m + 1, Filled)[i] = Contents[m + i]
    BY <1>7, <2>1
  <2> QED
    BY <2>3, <2>4, <2>5
<1>10. Contents' = SubSeq(Contents, m + 1, Filled)
  BY <1>1, <1>4, <1>7, <1>8, <1>9, SeqEqual
<1> QED
  BY <1>1, <1>3, <1>5, <1>10

\* Objects are neither added nor removed.
LEMMA SameContents == ASSUME UNCHANGED <<rd, wr, promised>> PROVE Contents' = Contents
  BY DEF Contents

\* What ends a pop without data, and what ends a peek.
LEMMA ReturnsFront ==
  ASSUME IInv, QInv, UNCHANGED <<rd, wr, promised>>,
         \/ got' = <<>>
         \/ CopyOut /\ l[Consumer].cnt = 1 /\ l[Consumer].peek
  PROVE  /\ Contents' = Contents
         /\ \E m \in 0 .. Len(Contents) : got' = SubSeq(Contents, 1, m)
<1> DEFINE data == l[Consumer].data
           all == Append(data, buffer[Advance(l[Consumer].rd, 1)])
<1>1. Filled \in 0 .. N - 1 /\ Len(Contents) = Filled
  BY FilledType, Now DEF IInv
<1>2. CASE got' = <<>>
  <2>1. 0 \in 0 .. Filled /\ <<>> \in Seq(Item) /\ Len(<<>>) = 0
    BY <1>1, EmptySeq
  <2>2. \A i \in 1 .. 0 : <<>>[i] = promised[Advance(rd, i)]
    OBVIOUS
  <2>3. <<>> = SubSeq(Contents, 1, 0)
    BY <2>1, <2>2, FrontIs DEF IInv
  <2> QED
    BY <1>1, <1>2, <2>1, <2>3, SameContents
<1>3. CASE CopyOut /\ l[Consumer].cnt = 1 /\ l[Consumer].peek
  <2>1. got' = all /\ pc[Consumer] = "copyOut" /\ MayRun(Consumer)
    BY <1>3 DEF CopyOut, At
  <2>2. PICK m \in Nat : m = Len(data)
    BY LocalTypes, CtxAssumption DEF IInv
  <2>3. /\ m + l[Consumer].cnt <= Filled
        /\ Advance(l[Consumer].rd, 1) = Advance(rd, m + 1)
        /\ buffer[Advance(rd, m + 1)] = promised[Advance(rd, m + 1)]
    BY <2>1, <2>2, ReadNext
  <2>4. m + 1 \in 0 .. Filled
    BY <1>1, <1>3, <2>3
  <2>5. data \in Seq(Item) /\ buffer[Advance(rd, m + 1)] \in Item
    <3>1. Advance(rd, m + 1) \in Slot
      BY <1>1, <2>4, SlotAtPlace, NAssumption DEF IInv, TypeOK
    <3> QED
      BY <3>1, LocalTypes, CtxAssumption DEF IInv, TypeOK
  <2>6. Taken(m)
    BY <2>1, <2>2 DEF QInv, Popping
  <2>7. /\ all \in Seq(Item) /\ Len(all) = m + 1
        /\ all[m + 1] = promised[Advance(rd, m + 1)]
        /\ \A i \in 1 .. m : all[i] = data[i]
    <3> HIDE DEF data
    <3> QED
      BY <2>2, <2>3, <2>5
  <2>8. ASSUME NEW i \in 1 .. m + 1 PROVE all[i] = promised[Advance(rd, i)]
    <3>1. CASE i = m + 1
      BY <2>7, <3>1
    <3>2. CASE i # m + 1
      <4>1. i \in 1 .. m
        BY <3>2
      <4> QED
        BY <2>6, <2>7, <4>1 DEF Taken
    <3> QED
      BY <3>1, <3>2
  <2> HIDE DEF all
  <2>9. all = SubSeq(Contents, 1, m + 1)
    BY <2>4, <2>7, <2>8, FrontIs DEF IInv
  <2> QED
    BY <1>1, <2>1, <2>4, <2>9, SameContents
<1> QED
  BY <1>2, <1>3

\* Every step of a push is a Push of the FIFO or leaves it alone.
LEMMA PushSimulates ==
  ASSUME ~Overwrite, IInv, QInv, IInv', NEW c \in Ctx, Push(c)
  PROVE  Abstract!Push \/ UNCHANGED <<Contents, got>>
<1>1. CASE ReserveStr(c) /\ StrExOk(c)
  <2> DEFINE data == l[c].data
  <2>1. /\ Contents' = Contents \o data /\ Len(data) \in 0 .. N - 1 - Len(Contents)
        /\ data \in Seq(Item) /\ got' = got /\ Contents \in Seq(Item)
        /\ Len(Contents) \in Nat
    BY <1>1, AppendsData, Now, FilledType DEF IInv
  <2>2. CASE Len(data) = 0
    <3> HIDE DEF data
    <3>1. Contents \o data = Contents
      <4>1. data = <<>>
        BY <2>1, <2>2, EmptySeq
      <4> QED
        BY <2>1, <4>1
    <3> QED
      BY <2>1, <3>1
  <2>3. CASE Len(data) # 0
    <3> HIDE DEF data
    <3>1. Len(data) \in 1 .. N - 1 - Len(Contents)
      BY <2>1, <2>3
    <3>2. data \in [1 .. Len(data) -> Item]
      BY <2>1
    <3> QED
      BY <2>1, <3>1, <3>2 DEF Abstract!Push
  <2> QED
    BY <2>2, <2>3
<1>2. CASE ~(ReserveStr(c) /\ StrExOk(c))
  <2>1. UNCHANGED <<rd, wr, promised>> /\ got' = got
    BY <1>2 DEF Push, PushCall, PushNoMem, PushNothing, PushTrim, IncLdr, IncStr,
       ReserveLdr, ReserveStr, CopyIn, DecLdr, DecStr, index
  <2> QED
    BY <2>1, SameContents
<1> QED
  BY <1>1, <1>2

\* Every step of a pop is a Peek or a Pop or leaves the FIFO alone.
LEMMA PopSimulates ==
  ASSUME IInv, QInv, IInv', Pop
  PROVE  \/ \E n \in 0 .. Len(Contents) : Abstract!Peek(n) \/ Abstract!Pop(n)
         \/ UNCHANGED <<Contents, got>>
<1>1. CASE PopStr /\ StrExOk(Consumer)
  BY <1>1, RemovesFront DEF Abstract!Pop, Abstract!Front
<1>2. CASE /\ UNCHANGED <<rd, wr, promised>>
           /\ \/ got' = <<>>
              \/ CopyOut /\ l[Consumer].cnt = 1 /\ l[Consumer].peek
  BY <1>2, ReturnsFront DEF Abstract!Peek, Abstract!Front
<1>3. CASE UNCHANGED <<rd, wr, promised, got>>
  BY <1>3, SameContents
<1>4. CASE PopLocked \/ EmptyReadWr \/ Snapshot
  <2>1. UNCHANGED <<rd, wr, promised>> /\ (got' = <<>> \/ got' = got)
    BY <1>4 DEF PopLocked, EmptyReadWr, Snapshot, index
  <2> QED
    BY <1>2, <1>3, <2>1
<1>5. CASE CopyOut
  <2>1. /\ UNCHANGED <<rd, wr, promised>>
        /\ (l[Consumer].cnt = 1 /\ l[Consumer].peek) \/ got' = got
    BY <1>5 DEF CopyOut, index
  <2> QED
    BY <1>2, <1>3, <1>5, <2>1
<1>6. CASE \/ \E count \in 0 .. MaxCnt, peek \in BOOLEAN : PopCall(count, peek)
           \/ EmptyReadRd \/ PopLdr \/ (PopStr /\ ~StrExOk(Consumer))
  <2>1. UNCHANGED <<rd, wr, promised, got>>
    BY <1>6 DEF PopCall, EmptyReadRd, PopLdr, PopStr, index
  <2> QED
    BY <1>3, <2>1
<1> QED
  BY <1>1, <1>4, <1>5, <1>6 DEF Pop

LEMMA ResetSimulates == ASSUME IInv', Reset PROVE Abstract!Reset
<1>1. rd' = N - 1 /\ wr' = 0 /\ got' = got
  BY DEF Reset
<1>2. Filled' = 0
  BY <1>1, NAssumption DEF Filled, FilledSize
<1>3. Contents' \in Seq(Item) /\ Len(Contents') = 0
  BY <1>2, Afterwards DEF IInv
<1>4. Contents' = <<>>
  BY <1>3, EmptySeq
<1> QED
  BY <1>1, <1>4 DEF Abstract!Reset

LEMMA StepSimulates ==
  ASSUME ~Overwrite, IInv, QInv, IInv', [Next]_vars
  PROVE  [Abstract!Next]_<<Contents, got>>
<1>1. ASSUME NEW c \in Ctx, Push(c) PROVE [Abstract!Next]_<<Contents, got>>
  BY <1>1, PushSimulates DEF Abstract!Next
<1>2. CASE Pop
  BY <1>2, PopSimulates DEF Abstract!Next
<1>3. CASE Reset
  BY <1>3, ResetSimulates DEF Abstract!Next
<1>4. CASE OtherException \/ UNCHANGED vars
  <2>1. UNCHANGED <<rd, wr, promised, got>>
    BY <1>4 DEF OtherException, vars, index
  <2> QED
    BY <2>1, SameContents
<1> QED
  BY <1>1, <1>2, <1>3, <1>4 DEF Next

LEMMA InitSimulates == Init => Abstract!Init
<1> SUFFICES ASSUME Init PROVE Abstract!Init
  OBVIOUS
<1>1. TypeOK
  BY IInvInit DEF IInv
<1>2. Filled = 0
  BY NAssumption DEF Init, Filled, FilledSize
<1>3. Contents \in Seq(Item) /\ Len(Contents) = 0
  BY <1>1, <1>2, Now
<1>4. Contents = <<>>
  BY <1>3, EmptySeq
<1> QED
  BY <1>4 DEF Init, Abstract!Init

\* What the invariant says of reservations and of the data of a push.
LEMMA NeverShared == ASSUME IInv, QInv PROVE ReservationsDisjoint
<1> USE DEF IInv
<1>1. ASSUME pc[Consumer] = "copyOut", NEW c \in Ctx, NEW j \in 1 .. l[Consumer].cnt,
             Advance(l[Consumer].rd, j) \in Reserved(c)
      PROVE  FALSE
  <2> DEFINE s == Advance(l[Consumer].rd, j)
  <2>0. PICK m \in Nat : m = Len(l[Consumer].data)
    BY LocalTypes, CtxAssumption
  <2>1. /\ l[Consumer].rd = Advance(rd, m) /\ m + l[Consumer].cnt <= Filled
        /\ pc[c] = "copyIn" => Place(rd, l[c].wr) > m + l[Consumer].cnt
    BY <1>1, <2>0 DEF QInv, Popping, Taken, Ahead
  <2>2. /\ Filled \in 0 .. N - 1 /\ l[Consumer].cnt \in Nat /\ rd \in Slot
        /\ l[c].wr \in Slot
    BY FilledType, LocalTypes, CtxAssumption DEF TypeOK
  <2>3. m \in 0 .. N /\ j \in 0 .. N /\ m + j \in 1 .. N
        /\ m + j <= m + l[Consumer].cnt
    BY <2>1, <2>2, NAssumption
  <2>4. s = Advance(rd, m + j) /\ Place(rd, s) = m + j
    BY <2>1, <2>2, <2>3, AdvanceTwice, SlotAtPlace
  <2>5. pc[c] = "copyIn" /\ Place(rd, l[c].wr) <= Place(rd, s)
    BY <1>1, ReservedIn DEF QInv
  <2>6. Place(rd, l[c].wr) \in Nat
    BY <2>2, PlaceOfSlot
  <2> QED
    BY <2>1, <2>2, <2>3, <2>4, <2>5, <2>6
<1> QED
  BY <1>1 DEF QInv, Apart, ReservationsDisjoint

TakesAll ==
  \A c \in Ctx :
    pc[c] = "resStr" /\ StrExOk(c) /\ pc'[c] # "resStr" =>
      Len(l[c].data) = Smaller(l[c].cnt, Space(rd, wr))

LEMMA TakesWhatFits == ASSUME IInv, QInv PROVE TakesAll
<1> SUFFICES ASSUME NEW c \in Ctx, pc[c] = "resStr", mon = c
             PROVE  Len(l[c].data) = Smaller(l[c].cnt, Room)
  BY DEF TakesAll, StrExOk, Room
<1>1. /\ Smaller(l[c].cnt, Room) <= Len(l[c].data)
      /\ Len(l[c].data) <= l[c].cnt /\ Len(l[c].data) <= Room
  BY DEF QInv, Asked, ReservePC
<1>2. Len(l[c].data) \in Nat /\ l[c].cnt \in Nat /\ Room \in Nat
  BY LocalTypes, FilledType DEF IInv
<1> QED
  BY <1>1, <1>2 DEF Smaller

----------------------------------------------------------------------------
(* The theorems. *)

\* A queue that does not overwrite behaves as a bounded FIFO that is pushed,
\* popped and peeked in single steps, although CIRCQ_Push publishes the
\* indices before it copies and CIRCQ_Pop reads them several times.
THEOREM ImplementsFifo == ASSUME ~Overwrite PROVE Spec => Fifo
<1>1. Init => Abstract!Init
  BY InitSimulates
<1>2. (IInv /\ QInv) /\ (IInv /\ QInv)' /\ [Next]_vars => [Abstract!Next]_<<Contents, got>>
  BY StepSimulates
<1>3. Spec => [](IInv /\ QInv)
  BY QueueInvariant
<1> QED
  BY <1>1, <1>2, <1>3, PTL DEF Spec, Fifo, Abstract!Spec

\* Nested pushes fill different slots, and none of them a slot that an
\* interrupted CIRCQ_Pop has still to read.
THEOREM ReservationsAreDisjoint == ASSUME ~Overwrite PROVE Spec => []ReservationsDisjoint
<1>1. IInv /\ QInv => ReservationsDisjoint
  BY NeverShared
<1> QED
  BY <1>1, QueueInvariant, PTL

\* Being clamped by passes of the loop that failed costs a push nothing: what
\* it stores is as much of its data as there is room for.
THEOREM PushTakesAll == ASSUME ~Overwrite PROVE Spec => PushTakesAllThatFits
<1>1. IInv /\ QInv => [TakesAll]_vars
  BY TakesWhatFits
<1> QED
  BY <1>1, QueueInvariant, PTL DEF PushTakesAllThatFits, TakesAll

=============================================================================
