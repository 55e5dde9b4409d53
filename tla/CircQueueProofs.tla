--------------------------- MODULE CircQueueProofs ---------------------------
(***************************************************************************)
(* Proofs about CircQueue for every size of the queue, every number of     *)
(* preemption levels, every place of the consumer among them and both      *)
(* overwrite modes.                                                        *)
(***************************************************************************)
EXTENDS CircQueue, FiniteSetTheorems, SequenceTheorems, TLAPS

----------------------------------------------------------------------------
(* Index arithmetic and the operators on sequences.                        *)

\* CIRCQ_UPDATE_IDX never leaves the buffer.
LEMMA AdvanceType ==
  ASSUME NEW i \in Slot, NEW k \in 0 .. N
  PROVE  Advance(i, k) \in Slot
  BY NAssumption DEF Advance, Slot

\* Free space and filled size are between 0 and the capacity N - 1.
LEMMA SpaceType ==
  ASSUME NEW r \in Slot, NEW w \in Slot
  PROVE  Space(r, w) \in 0 .. N - 1 /\ FilledSize(r, w) \in 0 .. N - 1
  BY NAssumption DEF Space, FilledSize, Slot

\* A prefix of a sequence is a sequence of the asked length.
LEMMA PrefixType ==
  ASSUME NEW s \in Seq(Item), NEW k \in Nat
  PROVE  /\ SubSeq(s, 1, Smaller(k, Len(s))) \in Seq(Item)
         /\ Len(SubSeq(s, 1, Smaller(k, Len(s)))) = Smaller(k, Len(s))
<1> DEFINE m == Smaller(k, Len(s))
<1>1. Len(s) \in Nat
  BY LenProperties
<1>2. m \in Nat /\ m <= Len(s)
  BY <1>1 DEF Smaller
<1>3. \A i \in 1 .. m : s[i] \in Item
  <2> TAKE i \in 1 .. m
  <2>1. i \in 1 .. Len(s)
    BY <1>1, <1>2
  <2> QED
    BY <2>1, ElementOfSeq
<1>4. SubSeq(s, 1, m) \in Seq(Item) /\ Len(SubSeq(s, 1, m)) = IF 1 <= m THEN m - 1 + 1 ELSE 0
  <2> HIDE DEF m
  <2> QED
    BY <1>2, <1>3, SubSeqProperties, m \in Int, 1 \in Int
<1> QED
  BY <1>2, <1>4

\* Trimming leaves between one and N objects of a non-empty call.
LEMMA TrimType ==
  ASSUME NEW s \in Seq(Item)
  PROVE  Trim(s) \in Seq(Item) /\ Len(Trim(s)) <= N
<1>1. Len(s) \in Nat
  BY LenProperties
<1>2. CASE ~(Overwrite /\ Len(s) > N)
  <2>1. Smaller(Len(s), N) = Smaller(N, Len(s))
    BY <1>1, NAssumption DEF Smaller
  <2>2. Trim(s) = SubSeq(s, 1, Smaller(N, Len(s)))
    BY <1>2, <2>1 DEF Trim
  <2>3. Smaller(N, Len(s)) <= N
    BY <1>1, NAssumption DEF Smaller
  <2> QED
    BY <2>2, <2>3, PrefixType, NAssumption
<1>3. CASE Overwrite /\ Len(s) > N
  <2> DEFINE a == N * ((Len(s) - 1) \div N) + 1
  <2>1. a \in Int /\ 1 <= a /\ a <= Len(s) /\ Len(s) - a < N
    BY <1>1, <1>3, NAssumption
  <2>2. \A i \in a .. Len(s) : s[i] \in Item
    <3> TAKE i \in a .. Len(s)
    <3>1. i \in 1 .. Len(s)
      BY <1>1, <2>1
    <3> QED
      BY <3>1, ElementOfSeq
  <2>3. Trim(s) = SubSeq(s, a, Len(s))
    BY <1>3 DEF Trim
  <2>4. SubSeq(s, a, Len(s)) \in Seq(Item) /\ Len(SubSeq(s, a, Len(s))) = Len(s) - a + 1
    <3> HIDE DEF a
    <3> QED
      BY <1>1, <2>1, <2>2, SubSeqProperties
  <2> HIDE DEF a
  <2>5. Len(s) - a + 1 <= N
    BY <1>1, <2>1, NAssumption
  <2> QED
    BY <2>3, <2>4, <2>5
<1> QED
  BY <1>2, <1>3

\* One pass of the reservation loop keeps a sequence of at most N objects, and
\* one that fits in the free space unless it overruns.
LEMMA ClampedType ==
  ASSUME NEW s \in Seq(Item), NEW r \in Slot, NEW w \in Slot
  PROVE  /\ Clamped(s, r, w) \in Seq(Item)
         /\ Len(s) <= N => Len(Clamped(s, r, w)) <= N
<1>1. Len(s) \in Nat
  BY LenProperties
<1>2. CASE Overruns(s, r, w)
  BY <1>2 DEF Clamped
<1>3. CASE ~Overruns(s, r, w)
  <2>1. Space(r, w) \in Nat
    BY SpaceType
  <2>2. Clamped(s, r, w) = SubSeq(s, 1, Smaller(Space(r, w), Len(s)))
    BY <1>3 DEF Clamped
  <2>3. Smaller(Space(r, w), Len(s)) <= Len(s)
    BY <1>1, <2>1 DEF Smaller
  <2>4. Smaller(Space(r, w), Len(s)) \in Nat
    BY <1>1, <2>1 DEF Smaller
  <2>5. Len(s) <= N => Smaller(Space(r, w), Len(s)) <= N
    BY <1>1, <2>3, <2>4, NAssumption
  <2> QED
    BY <2>1, <2>2, <2>5, PrefixType
<1> QED
  BY <1>2, <1>3

----------------------------------------------------------------------------
(* The lock count.                                                         *)

Pushing == {c \in Ctx : pc[c] \in LockedPC}

\* The contexts inside a push form a finite set, and moving one context's
\* program counter into or out of LockedPC changes its cardinality by one.
LEMMA PushingFinite == IsFiniteSet(Pushing) /\ Cardinality(Pushing) \in Nat
<1>1. IsFiniteSet(Ctx)
  BY CtxAssumption, FS_Interval DEF Ctx
<1>2. Pushing \subseteq Ctx
  BY DEF Pushing
<1>3. IsFiniteSet(Pushing)
  BY <1>1, <1>2, FS_Subset
<1> QED
  BY <1>3, FS_CardinalityType

LEMMA PushingMoves ==
  ASSUME TypeOK, NEW c \in Ctx, NEW label, Goto(c, label)
  PROVE  Cardinality(Pushing') =
           IF pc[c] \in LockedPC
           THEN IF label \in LockedPC THEN Cardinality(Pushing)
                                     ELSE Cardinality(Pushing) - 1
           ELSE IF label \in LockedPC THEN Cardinality(Pushing) + 1
                                     ELSE Cardinality(Pushing)
<1>1. pc' = [pc EXCEPT ![c] = label] /\ pc \in [Ctx -> {"idle"} \cup PushPC \cup PopPC]
  BY DEF Goto, TypeOK
<1>2. CASE pc[c] \in LockedPC /\ label \in LockedPC
  <2>1. Pushing' = Pushing
    BY <1>1, <1>2 DEF Pushing
  <2> QED
    BY <1>2, <2>1
<1>3. CASE pc[c] \in LockedPC /\ label \notin LockedPC
  <2>1. Pushing' = Pushing \ {c} /\ c \in Pushing
    BY <1>1, <1>3 DEF Pushing
  <2>2. Cardinality(Pushing \ {c}) = Cardinality(Pushing) - 1
    BY <2>1, PushingFinite, FS_RemoveElement
  <2> QED
    BY <1>3, <2>1, <2>2
<1>4. CASE pc[c] \notin LockedPC /\ label \in LockedPC
  <2>1. Pushing' = Pushing \cup {c} /\ c \notin Pushing
    BY <1>1, <1>4 DEF Pushing
  <2>2. Cardinality(Pushing \cup {c}) = Cardinality(Pushing) + 1
    BY <2>1, PushingFinite, FS_AddElement
  <2> QED
    BY <1>4, <2>1, <2>2
<1>5. CASE pc[c] \notin LockedPC /\ label \notin LockedPC
  <2>1. Pushing' = Pushing
    BY <1>1, <1>5 DEF Pushing
  <2> QED
    BY <1>5, <2>1
<1> QED
  BY <1>2, <1>3, <1>4, <1>5

\* A step that leaves qLock alone and moves a context within or outside
\* LockedPC keeps the count.
LEMMA CountKept ==
  ASSUME TypeOK, LockCount, NEW c \in Ctx, NEW label, Goto(c, label),
         qLock' = qLock, pc[c] \in LockedPC <=> label \in LockedPC
  PROVE  LockCount'
  BY PushingMoves DEF LockCount, Pushing

\* While somebody is inside a push the lock is not zero, and conversely.
LEMMA CountPositive ==
  ASSUME LockCount
  PROVE  qLock = 0 <=> \A c \in Ctx : pc[c] \notin LockedPC
<1>1. qLock = Cardinality(Pushing)
  BY DEF LockCount, Pushing
<1>2. qLock = 0 <=> Pushing = {}
  BY <1>1, PushingFinite, FS_EmptySet
<1> QED
  BY <1>2 DEF Pushing

----------------------------------------------------------------------------
(* What every step of a push keeps.                                        *)

\* A step of a push cannot be taken below a pop in progress, so whoever is
\* suspended below the pop stays outside its own pushes.
LEMMA PushKeepsPopAlone ==
  ASSUME TypeOK, PopAlone, NEW c \in Ctx, MayRun(c),
         NEW label, label \notin PopPC, Goto(c, label)
  PROVE  PopAlone'
<1>1. /\ pc' = [pc EXCEPT ![c] = label]
      /\ pc \in [Ctx -> {"idle"} \cup PushPC \cup PopPC]
  BY DEF Goto, TypeOK
<1> SUFFICES ASSUME pc'[Consumer] \in PopPC, NEW d \in Ctx, d < Consumer
             PROVE  pc'[d] \notin LockedPC
  BY DEF PopAlone
<1>2. c # Consumer /\ pc[Consumer] \in PopPC
  BY <1>1, CtxAssumption
<1>3. ~(Consumer > c)
  BY <1>2, CtxAssumption DEF MayRun, PopPC
<1>4. d # c
  BY <1>3, CtxAssumption DEF Ctx
<1> QED
  BY <1>1, <1>2, <1>4 DEF PopAlone

\* A step that drops the monitor leaves nothing to be fresh.
LEMMA FreshDropped ==
  ASSUME mon' = None
  PROVE  Fresh'
  BY DEF Fresh, Ctx, None

LEMMA IInvInit == Init => IInv
<1> SUFFICES ASSUME Init PROVE IInv
  OBVIOUS
<1> DEFINE first == CHOOSE i \in Item : TRUE
<1>1. first \in Item
  BY ItemAssumption
<1>2. <<>> \in Seq(Item)
  BY EmptySeq
<1>3. TypeOK
  <2>1. buffer \in [Slot -> Item]
    BY <1>1 DEF Init
  <2>2. NoLocals \in Locals
    BY <1>2, NAssumption DEF NoLocals, Locals, Slot
  <2>3. l \in [Ctx -> Locals]
    BY <2>2 DEF Init
  <2> QED
    BY <1>2, <2>1, <2>3, NAssumption DEF Init, TypeOK, Slot
<1>4. Sizes /\ Fresh /\ PopAlone
  BY CtxAssumption DEF Init, Sizes, Fresh, PopAlone, LockedPC, ReservePC, PopPC, None, Ctx
<1>5. LockCount
  <2>1. {c \in Ctx : pc[c] \in LockedPC} = {}
    BY DEF Init, LockedPC, ReservePC
  <2> QED
    BY <2>1, FS_EmptySet DEF Init, LockCount
<1> QED
  BY <1>3, <1>4, <1>5 DEF IInv

\* Returning from a push: the locals are cleared, the monitor is dropped.
LEMMA PushReturns ==
  ASSUME IInv, NEW c \in Ctx, MayRun(c), Return(c),
         UNCHANGED <<index, buffer, got, promised>>,
         qLock' \in Nat, LockCount'
  PROVE  IInv'
<1>1. NoLocals \in Locals
  BY EmptySeq, NAssumption DEF NoLocals, Locals, Slot
<1>2. TypeOK'
  <2>1. pc' \in [Ctx -> {"idle"} \cup PushPC \cup PopPC] /\ l' \in [Ctx -> Locals]
    BY <1>1 DEF IInv, TypeOK, Return, Goto
  <2>2. mon' = None
    BY DEF Return
  <2> QED
    BY <2>1, <2>2 DEF IInv, TypeOK, index
<1>3. Sizes'
  BY DEF IInv, TypeOK, Sizes, Return, Goto, LockedPC, ReservePC
<1>4. Fresh'
  BY FreshDropped DEF Return
<1>5. PopAlone'
  BY PushKeepsPopAlone DEF IInv, Return, PopPC
<1> QED
  BY <1>2, <1>3, <1>4, <1>5 DEF IInv

----------------------------------------------------------------------------
(* The steps of a push.                                                    *)

\* The sequences a call may be made with.
LEMMA DataType == ASSUME NEW data \in Data PROVE data \in Seq(Item)
  BY DataAssumption

LEMMA PushCallInv ==
  ASSUME IInv, NEW c \in Ctx, NEW data \in Data, PushCall(c, data)
  PROVE  IInv'
<1> USE DEF IInv
<1>1. data \in Seq(Item)
  BY DataType
<1>2. TypeOK'
  <2>1. l' \in [Ctx -> Locals]
    BY <1>1 DEF PushCall, TypeOK, Locals
  <2>2. pc' \in [Ctx -> {"idle"} \cup PushPC \cup PopPC]
    BY DEF PushCall, Goto, TypeOK, PushPC
  <2> QED
    BY <2>1, <2>2 DEF PushCall, TypeOK, index
<1>3. Sizes'
  BY DEF PushCall, Goto, TypeOK, Sizes, LockedPC, ReservePC
<1>4. LockCount'
  BY CountKept DEF PushCall, At, LockedPC, ReservePC
<1>5. PopAlone'
  BY PushKeepsPopAlone DEF PushCall, At, PopPC
<1> QED
  BY <1>2, <1>3, <1>4, <1>5, FreshDropped DEF PushCall

LEMMA PushTrimInv ==
  ASSUME IInv, NEW c \in Ctx, PushTrim(c)
  PROVE  IInv'
<1> USE DEF IInv
<1> DEFINE data == Trim(l[c].data)
<1>1. data \in Seq(Item) /\ Len(data) <= N /\ Len(data) \in Nat
  <2>1. l[c].data \in Seq(Item)
    BY DEF TypeOK, Locals
  <2> QED
    BY <2>1, TrimType, LenProperties
<1>2. l' = [l EXCEPT ![c].data = data, ![c].cnt = Len(data)]
  BY DEF PushTrim
<1> HIDE DEF data
<1>3. TypeOK'
  <2>1. l' \in [Ctx -> Locals]
    BY <1>1, <1>2 DEF TypeOK, Locals
  <2>2. pc' \in [Ctx -> {"idle"} \cup PushPC \cup PopPC]
    BY DEF PushTrim, Goto, TypeOK, PushPC
  <2> QED
    BY <2>1, <2>2 DEF PushTrim, TypeOK, index
<1>4. Sizes'
  BY <1>1, <1>2 DEF PushTrim, Goto, TypeOK, Locals, Sizes, LockedPC, ReservePC
<1>5. LockCount'
  BY CountKept DEF PushTrim, At, LockedPC, ReservePC
<1>6. Fresh'
  BY <1>2 DEF PushTrim, Goto, TypeOK, Locals, Fresh
<1>7. PopAlone'
  BY PushKeepsPopAlone DEF PushTrim, At, PopPC
<1> QED
  BY <1>3, <1>4, <1>5, <1>6, <1>7

\* PushNoMem and PushNothing only return.
LEMMA PushRefusedInv ==
  ASSUME IInv, NEW c \in Ctx, PushNoMem(c) \/ PushNothing(c)
  PROVE  IInv'
<1>1. /\ pc[c] = "isFull" /\ MayRun(c) /\ Return(c)
      /\ UNCHANGED <<index, buffer, got, promised, qLock>>
  BY DEF PushNoMem, PushNothing, At
<1>2. LockCount'
  BY <1>1, CountKept DEF IInv, Return, LockedPC, ReservePC
<1> QED
  BY <1>1, <1>2, PushReturns DEF IInv, TypeOK

\* The load of ATOMIC_Inc and of ATOMIC_Dec: the monitor now vouches for qLock.
LEMMA IncLdrInv ==
  ASSUME IInv, NEW c \in Ctx, IncLdr(c)
  PROVE  IInv'
<1> USE DEF IInv
<1>1. TypeOK'
  <2>1. qLock + 1 \in Nat
    BY DEF TypeOK
  <2>2. l' \in [Ctx -> Locals]
    BY <2>1 DEF IncLdr, TypeOK, Locals
  <2>3. pc' \in [Ctx -> {"idle"} \cup PushPC \cup PopPC]
    BY DEF IncLdr, Goto, TypeOK, PushPC
  <2> QED
    BY <2>2, <2>3 DEF IncLdr, LdrEx, TypeOK, index
<1>2. Sizes'
  BY DEF IncLdr, At, Goto, TypeOK, Locals, Sizes, LockedPC, ReservePC
<1>3. LockCount'
  BY CountKept DEF IncLdr, At, LockedPC, ReservePC
<1>4. Fresh'
  BY DEF IncLdr, LdrEx, Goto, TypeOK, Locals, Fresh
<1>5. PopAlone'
  BY PushKeepsPopAlone DEF IncLdr, At, PopPC
<1> QED
  BY <1>1, <1>2, <1>3, <1>4, <1>5

LEMMA IncStrInv ==
  ASSUME IInv, NEW c \in Ctx, IncStr(c)
  PROVE  IInv'
<1> USE DEF IInv
<1> DEFINE label == IF StrExOk(c) THEN "resLdr" ELSE "incLdr"
<1>1. Goto(c, label) /\ label \in {"resLdr", "incLdr"}
  BY DEF IncStr
<1>2. TypeOK'
  <2>1. pc' \in [Ctx -> {"idle"} \cup PushPC \cup PopPC]
    BY DEF IncStr, Goto, TypeOK, PushPC, LockedPC, ReservePC
  <2>2. qLock' \in Nat
    BY DEF IncStr, TypeOK, Locals
  <2> QED
    BY <2>1, <2>2 DEF IncStr, TypeOK, index
<1>3. Sizes'
  BY DEF IncStr, At, Goto, TypeOK, Sizes, LockedPC, ReservePC
<1>4. LockCount'
  <2>1. CASE StrExOk(c)
    <3>1. qLock' = qLock + 1
      BY <2>1 DEF IncStr, At, StrExOk, Fresh
    <3>2. Cardinality(Pushing') = Cardinality(Pushing) + 1
      BY <2>1, <1>1, PushingMoves DEF IncStr, At, LockedPC, ReservePC
    <3> QED
      BY <3>1, <3>2 DEF LockCount, Pushing
  <2>2. CASE ~StrExOk(c)
    BY <2>2, <1>1, CountKept DEF IncStr, At, LockedPC, ReservePC
  <2> QED
    BY <2>1, <2>2
<1>5. PopAlone'
  BY <1>1, PushKeepsPopAlone DEF IncStr, At, PopPC
<1> QED
  BY <1>2, <1>3, <1>4, <1>5, FreshDropped DEF IncStr

LEMMA ReserveLdrInv ==
  ASSUME IInv, NEW c \in Ctx, ReserveLdr(c)
  PROVE  IInv'
<1> USE DEF IInv
<1> DEFINE data == Clamped(l[c].data, rd, wr)
<1>1. data \in Seq(Item) /\ Len(data) <= N
  <2>1. l[c].data \in Seq(Item) /\ Len(l[c].data) <= N
    BY DEF ReserveLdr, At, TypeOK, Locals, Sizes, LockedPC, ReservePC
  <2> QED
    BY <2>1, ClampedType DEF TypeOK
<1>2. l' = [l EXCEPT ![c].rd = rd, ![c].wr = wr, ![c].data = data]
  BY DEF ReserveLdr
<1> HIDE DEF data
<1>3. TypeOK'
  <2>1. l' \in [Ctx -> Locals]
    BY <1>1, <1>2 DEF TypeOK, Locals
  <2>2. pc' \in [Ctx -> {"idle"} \cup PushPC \cup PopPC]
    BY DEF ReserveLdr, Goto, TypeOK, PushPC, LockedPC, ReservePC
  <2> QED
    BY <2>1, <2>2 DEF ReserveLdr, LdrEx, TypeOK, index
<1>4. Sizes'
  BY <1>1, <1>2 DEF ReserveLdr, Goto, TypeOK, Locals, Sizes, LockedPC, ReservePC
<1>5. LockCount'
  BY CountKept DEF ReserveLdr, At, LockedPC, ReservePC
<1>6. Fresh'
  BY DEF ReserveLdr, LdrEx, Goto, TypeOK, Fresh
<1>7. PopAlone'
  BY PushKeepsPopAlone DEF ReserveLdr, At, PopPC
<1> QED
  BY <1>3, <1>4, <1>5, <1>6, <1>7

LEMMA ReserveStrInv ==
  ASSUME IInv, NEW c \in Ctx, ReserveStr(c)
  PROVE  IInv'
<1> USE DEF IInv
<1> DEFINE me == l[c]
           k  == Len(me.data)
           label == IF StrExOk(c) THEN (IF k = 0 THEN "decLdr" ELSE "copyIn") ELSE "resLdr"
<1>1. /\ pc[c] = "resStr" /\ MayRun(c) /\ mon' = None
      /\ UNCHANGED <<qLock, buffer, l, got>>
  BY DEF ReserveStr, At
<1>2. Goto(c, label)
  BY DEF ReserveStr
<1>3. /\ me \in Locals /\ me.data \in Seq(Item) /\ me.rd \in Slot /\ me.wr \in Slot
      /\ k \in 0 .. N
  <2>1. me \in Locals
    BY DEF TypeOK
  <2>2. me.data \in Seq(Item) /\ me.rd \in Slot /\ me.wr \in Slot
    BY <2>1 DEF Locals
  <2>3. k \in Nat
    BY <2>2, LenProperties
  <2>4. k <= N
    BY <1>1 DEF Sizes, LockedPC, ReservePC
  <2> QED
    BY <2>1, <2>2, <2>3, <2>4, NAssumption
<1>4. TypeOK'
  <2>1. pc' \in [Ctx -> {"idle"} \cup PushPC \cup PopPC]
    BY <1>2 DEF Goto, TypeOK, PushPC, LockedPC, ReservePC
  <2>2. rd' \in Slot /\ wr' \in Slot
    <3>1. Advance(me.wr, k) \in Slot
      BY <1>3, AdvanceType
    <3> QED
      BY <1>3, <3>1 DEF ReserveStr, TypeOK, index
  <2>3. promised' \in [Slot -> Item]
    <3>1. CASE StrExOk(c)
      <4> DEFINE hit(s, j) == Advance(me.wr, j - 1) = s
      <4>1. promised' = [s \in Slot |->
                           IF \E j \in 1 .. k : hit(s, j)
                           THEN me.data[CHOOSE j \in 1 .. k : hit(s, j)]
                           ELSE promised[s]]
        BY <3>1 DEF ReserveStr
      <4>2. ASSUME NEW s \in Slot, \E j \in 1 .. k : hit(s, j)
            PROVE  me.data[CHOOSE j \in 1 .. k : hit(s, j)] \in Item
        <5>1. (CHOOSE j \in 1 .. k : hit(s, j)) \in 1 .. k
          BY <4>2
        <5> QED
          BY <5>1, <1>3, ElementOfSeq
      <4>3. \A s \in Slot : promised[s] \in Item
        BY DEF TypeOK
      <4> HIDE DEF hit
      <4> QED
        BY <4>1, <4>2, <4>3
    <3>2. CASE ~StrExOk(c)
      BY <3>2 DEF ReserveStr, TypeOK
    <3> QED
      BY <3>1, <3>2
  <2> QED
    BY <1>1, <2>1, <2>2, <2>3 DEF TypeOK
<1>5. Sizes'
  <2>1. k # 0 => me.data # <<>>
    BY EmptySeq
  <2> QED
    BY <1>1, <1>2, <2>1 DEF Goto, TypeOK, Sizes, LockedPC, ReservePC
<1>6. LockCount'
  <2>1. pc[c] \in LockedPC <=> label \in LockedPC
    BY <1>1 DEF LockedPC, ReservePC
  <2> QED
    BY <1>1, <1>2, <2>1, CountKept
<1>7. PopAlone'
  <2>1. label \notin PopPC
    BY DEF PopPC
  <2> QED
    BY <1>1, <1>2, <2>1, PushKeepsPopAlone
<1> QED
  BY <1>1, <1>4, <1>5, <1>6, <1>7, FreshDropped

LEMMA CopyInInv ==
  ASSUME IInv, NEW c \in Ctx, CopyIn(c)
  PROVE  IInv'
<1> USE DEF IInv
<1> DEFINE data  == l[c].data
           label == IF Len(data) = 1 THEN "decLdr" ELSE "copyIn"
<1>1. /\ pc[c] = "copyIn" /\ MayRun(c) /\ Goto(c, label)
      /\ UNCHANGED <<index, qLock, mon, got, promised>>
      /\ buffer' = [buffer EXCEPT ![l[c].wr] = Head(data)]
      /\ l' = [l EXCEPT ![c].wr = Advance(l[c].wr, 1), ![c].data = Tail(data)]
  BY DEF CopyIn, At
<1>2. /\ data \in Seq(Item) /\ data # <<>> /\ Len(data) <= N /\ Len(data) \in Nat
      /\ l[c] \in Locals /\ l[c].wr \in Slot
  <2>1. l[c] \in Locals /\ data \in Seq(Item) /\ l[c].wr \in Slot
    BY DEF TypeOK, Locals
  <2> QED
    BY <1>1, <2>1, LenProperties DEF Sizes, LockedPC
<1>3. /\ Head(data) \in Item /\ Tail(data) \in Seq(Item)
      /\ Len(Tail(data)) = Len(data) - 1
  BY <1>2, HeadTailProperties
<1>4. Advance(l[c].wr, 1) \in Slot
  BY <1>2, AdvanceType, NAssumption
<1> HIDE DEF data
<1>5. TypeOK'
  <2>1. pc' \in [Ctx -> {"idle"} \cup PushPC \cup PopPC]
    BY <1>1 DEF Goto, TypeOK, PushPC, LockedPC
  <2>2. l' \in [Ctx -> Locals]
    BY <1>1, <1>3, <1>4 DEF TypeOK, Locals
  <2>3. buffer' \in [Slot -> Item]
    BY <1>1, <1>3 DEF TypeOK
  <2> QED
    BY <1>1, <2>1, <2>2, <2>3 DEF TypeOK, index
<1>6. Sizes'
  <2>1. Len(Tail(data)) <= N
    BY <1>2, <1>3, NAssumption
  <2>2. Len(<<>>) = 0
    BY EmptySeq
  <2>3. Len(data) # 1 => Tail(data) # <<>>
    <3> SUFFICES ASSUME Tail(data) = <<>> PROVE Len(data) = 1
      OBVIOUS
    <3>1. Len(Tail(data)) = 0
      BY <2>2
    <3> QED
      BY <1>2, <1>3, <3>1
  <2> QED
    BY <1>1, <2>1, <2>3 DEF Goto, TypeOK, Locals, Sizes, LockedPC, ReservePC
<1>7. LockCount'
  <2>1. pc[c] \in LockedPC <=> label \in LockedPC
    BY <1>1 DEF LockedPC
  <2> QED
    BY <1>1, <2>1, CountKept
<1>8. Fresh'
  BY <1>1 DEF Goto, TypeOK, Locals, Fresh
<1>9. PopAlone'
  <2>1. label \notin PopPC
    BY DEF PopPC
  <2> QED
    BY <1>1, <2>1, PushKeepsPopAlone
<1> QED
  BY <1>5, <1>6, <1>7, <1>8, <1>9

\* qLock - 1 is a natural number: the context itself is counted.
LEMMA DecLdrInv ==
  ASSUME IInv, NEW c \in Ctx, DecLdr(c)
  PROVE  IInv'
<1> USE DEF IInv
<1>1. TypeOK'
  <2>1. qLock - 1 \in Nat
    <3>1. pc[c] \in LockedPC
      BY DEF DecLdr, At, LockedPC
    <3>2. qLock # 0
      BY <3>1, CountPositive
    <3> QED
      BY <3>2 DEF TypeOK
  <2>2. l' \in [Ctx -> Locals]
    BY <2>1 DEF DecLdr, TypeOK, Locals
  <2>3. pc' \in [Ctx -> {"idle"} \cup PushPC \cup PopPC]
    BY DEF DecLdr, Goto, TypeOK, PushPC, LockedPC
  <2> QED
    BY <2>2, <2>3 DEF DecLdr, LdrEx, TypeOK, index
<1>2. Sizes'
  BY DEF DecLdr, At, Goto, TypeOK, Locals, Sizes, LockedPC, ReservePC
<1>3. LockCount'
  BY CountKept DEF DecLdr, At, LockedPC, ReservePC
<1>4. Fresh'
  BY DEF DecLdr, LdrEx, Goto, TypeOK, Locals, Fresh
<1>5. PopAlone'
  BY PushKeepsPopAlone DEF DecLdr, At, PopPC
<1> QED
  BY <1>1, <1>2, <1>3, <1>4, <1>5

LEMMA DecStrInv ==
  ASSUME IInv, NEW c \in Ctx, DecStr(c)
  PROVE  IInv'
<1> USE DEF IInv
<1>1. CASE StrExOk(c)
  <2>1. qLock' = qLock - 1
    BY <1>1 DEF DecStr, At, StrExOk, Fresh
  <2>2. qLock' \in Nat
    BY <1>1 DEF DecStr, TypeOK, Locals
  <2>3. Cardinality(Pushing') = Cardinality(Pushing) - 1
    BY <1>1, PushingMoves DEF DecStr, At, Return, LockedPC, ReservePC
  <2>4. LockCount'
    BY <2>1, <2>3 DEF LockCount, Pushing
  <2> QED
    BY <1>1, <2>2, <2>4, PushReturns DEF DecStr, At
<1>2. CASE ~StrExOk(c)
  <2>1. /\ pc[c] = "decStr" /\ MayRun(c) /\ Goto(c, "decLdr") /\ mon' = None
        /\ UNCHANGED <<index, qLock, buffer, l, got, promised>>
    BY <1>2 DEF DecStr, At
  <2>2. TypeOK'
    <3>1. pc' \in [Ctx -> {"idle"} \cup PushPC \cup PopPC]
      BY <2>1 DEF Goto, TypeOK, PushPC, LockedPC
    <3> QED
      BY <2>1, <3>1 DEF TypeOK, index
  <2>3. Sizes'
    BY <2>1 DEF Goto, TypeOK, Sizes, LockedPC, ReservePC
  <2>4. LockCount'
    BY <2>1, CountKept DEF LockedPC, ReservePC
  <2>5. PopAlone'
    BY <2>1, PushKeepsPopAlone DEF PopPC
  <2> QED
    BY <2>1, <2>2, <2>3, <2>4, <2>5, FreshDropped
<1> QED
  BY <1>1, <1>2

----------------------------------------------------------------------------
(* The steps of a pop or a peek.                                           *)

\* A step of the consumer's own call never enters LockedPC, and once the call
\* has begun nobody below it is inside a push.
LEMMA PopStepKeeps ==
  ASSUME IInv, NEW label, label \notin LockedPC, Goto(Consumer, label),
         pc[Consumer] \in PopPC, qLock' = qLock
  PROVE  LockCount' /\ PopAlone'
<1>1. pc[Consumer] \notin LockedPC
  BY DEF PopPC, LockedPC, ReservePC
<1>2. LockCount'
  BY <1>1, CountKept, CtxAssumption DEF IInv
<1>3. ASSUME NEW c \in Ctx, c < Consumer
      PROVE  pc'[c] \notin LockedPC
  <2>1. c # Consumer
    BY <1>3, CtxAssumption DEF Ctx
  <2> QED
    BY <1>3, <2>1 DEF IInv, TypeOK, PopAlone, Goto
<1>4. PopAlone'
  BY <1>3 DEF PopAlone
<1> QED
  BY <1>2, <1>4

\* The end of a pop or a peek.
LEMMA PopReturns ==
  ASSUME IInv, pc[Consumer] \in PopPC, Return(Consumer),
         UNCHANGED <<qLock, buffer, promised>>,
         rd' \in Slot, wr' \in Slot, got' \in Seq(Item)
  PROVE  IInv'
<1> USE DEF IInv
<1>1. LockCount' /\ PopAlone'
  BY PopStepKeeps DEF Return, LockedPC, ReservePC
<1>2. NoLocals \in Locals
  BY EmptySeq, NAssumption DEF NoLocals, Locals, Slot
<1>3. TypeOK'
  BY <1>2, CtxAssumption DEF TypeOK, Return, Goto
<1>4. Sizes'
  BY CtxAssumption DEF TypeOK, Sizes, Return, Goto, LockedPC, ReservePC
<1>5. Fresh'
  BY FreshDropped DEF Return
<1> QED
  BY <1>1, <1>3, <1>4, <1>5

LEMMA PopLockedInv == ASSUME IInv, PopLocked PROVE IInv'
<1>1. TypeOK'
  BY EmptySeq DEF IInv, TypeOK, PopLocked, index
<1>2. Sizes' /\ LockCount' /\ PopAlone'
  BY DEF IInv, PopLocked, Sizes, LockCount, PopAlone
<1>3. Fresh'
  BY FreshDropped DEF PopLocked
<1> QED
  BY <1>1, <1>2, <1>3 DEF IInv

\* The pop begins with qLock = 0, when nobody at all is inside a push.
LEMMA PopCallInv ==
  ASSUME IInv, NEW count \in 0 .. MaxCnt, NEW peek \in BOOLEAN, PopCall(count, peek)
  PROVE  IInv'
<1> USE DEF IInv
<1>1. /\ pc[Consumer] = "idle" /\ Goto(Consumer, "emptyRd") /\ mon' = None /\ qLock = 0
      /\ UNCHANGED <<index, qLock, buffer, got, promised>>
      /\ l' = [l EXCEPT ![Consumer].cnt = count, ![Consumer].peek = peek]
  BY DEF PopCall, At
<1>2. TypeOK'
  <2>1. count \in Nat
    BY MaxCntAssumption
  <2>2. l' \in [Ctx -> Locals]
    BY <1>1, <2>1 DEF TypeOK, Locals
  <2>3. pc' \in [Ctx -> {"idle"} \cup PushPC \cup PopPC]
    BY <1>1 DEF Goto, TypeOK, PopPC
  <2> QED
    BY <1>1, <2>2, <2>3 DEF TypeOK, index
<1>3. Sizes'
  BY <1>1, CtxAssumption DEF Goto, TypeOK, Sizes, LockedPC, ReservePC
<1>4. LockCount'
  BY <1>1, CountKept, CtxAssumption DEF LockedPC, ReservePC
<1>5. PopAlone'
  <2>1. \A c \in Ctx : pc[c] \notin LockedPC
    BY <1>1, CountPositive
  <2> QED
    BY <1>1, <2>1 DEF PopAlone, Goto, TypeOK, LockedPC, ReservePC
<1> QED
  BY <1>1, <1>2, <1>3, <1>4, <1>5, FreshDropped

LEMMA EmptyReadInv == ASSUME IInv, EmptyReadRd \/ EmptyReadWr PROVE IInv'
<1> USE DEF IInv
<1>1. pc[Consumer] \in PopPC /\ qLock' = qLock
  BY DEF EmptyReadRd, EmptyReadWr, At, PopPC
<1>2. CASE EmptyReadRd
  <2>1. TypeOK'
    <3>1. l' \in [Ctx -> Locals]
      BY <1>2 DEF EmptyReadRd, TypeOK, Locals
    <3>2. pc' \in [Ctx -> {"idle"} \cup PushPC \cup PopPC]
      BY <1>2 DEF EmptyReadRd, Goto, TypeOK, PopPC
    <3> QED
      BY <1>2, <3>1, <3>2 DEF EmptyReadRd, TypeOK, index
  <2>2. Sizes'
    BY <1>2, CtxAssumption DEF EmptyReadRd, Goto, TypeOK, Locals, Sizes, LockedPC, ReservePC
  <2>3. LockCount' /\ PopAlone'
    BY <1>1, <1>2, PopStepKeeps DEF EmptyReadRd, LockedPC, ReservePC
  <2>4. Fresh'
    BY <1>2, CtxAssumption DEF EmptyReadRd, Goto, TypeOK, Locals, Fresh
  <2> QED
    BY <2>1, <2>2, <2>3, <2>4
<1>3. CASE EmptyReadWr /\ ~Goto(Consumer, "snap")
  <2>1. Return(Consumer) /\ got' = <<>> /\ UNCHANGED <<index, qLock, buffer, promised>>
    BY <1>3 DEF EmptyReadWr
  <2>2. got' \in Seq(Item) /\ rd' \in Slot /\ wr' \in Slot
    BY <2>1, EmptySeq DEF TypeOK, index
  <2> QED
    BY <1>1, <2>1, <2>2, PopReturns
<1>4. CASE EmptyReadWr /\ Goto(Consumer, "snap")
  <2>1. UNCHANGED <<mon, l, got, index, qLock, buffer, promised>>
    <3>1. pc'[Consumer] = "snap"
      BY <1>4, CtxAssumption DEF Goto, TypeOK
    <3>2. ~Return(Consumer)
      BY <3>1, CtxAssumption DEF Return, Goto, TypeOK
    <3> QED
      BY <1>4, <3>2 DEF EmptyReadWr
  <2>2. TypeOK'
    BY <1>4, <2>1 DEF Goto, TypeOK, PopPC, index
  <2>3. Sizes'
    BY <1>4, <2>1, CtxAssumption DEF Goto, TypeOK, Sizes, LockedPC, ReservePC
  <2>4. LockCount' /\ PopAlone'
    BY <1>1, <1>4, PopStepKeeps DEF LockedPC, ReservePC
  <2>5. Fresh'
    BY <1>4, <2>1, CtxAssumption DEF Goto, TypeOK, Fresh
  <2> QED
    BY <2>2, <2>3, <2>4, <2>5
<1> QED
  BY <1>2, <1>3, <1>4

LEMMA SnapshotInv == ASSUME IInv, Snapshot PROVE IInv'
<1> USE DEF IInv
<1> DEFINE n == Smaller(l[Consumer].cnt, FilledSize(rd, wr))
<1>1. pc[Consumer] \in PopPC /\ UNCHANGED <<index, qLock, buffer, promised>>
  BY DEF Snapshot, At, PopPC
<1>2. n \in Nat
  <2>1. l[Consumer].cnt \in Nat
    BY CtxAssumption DEF TypeOK, Locals
  <2>2. FilledSize(rd, wr) \in Nat
    BY SpaceType DEF TypeOK
  <2> QED
    BY <2>1, <2>2 DEF Smaller
<1>3. CASE n = 0
  <2>1. Return(Consumer) /\ got' = <<>>
    BY <1>3 DEF Snapshot
  <2>2. got' \in Seq(Item) /\ rd' \in Slot /\ wr' \in Slot
    BY <1>1, <2>1, EmptySeq DEF TypeOK, index
  <2> QED
    BY <1>1, <2>1, <2>2, PopReturns
<1>4. CASE n # 0
  <2>1. /\ Goto(Consumer, "copyOut") /\ UNCHANGED <<mon, got>>
        /\ l' = [l EXCEPT ![Consumer].rd = rd, ![Consumer].cnt = n]
    BY <1>4 DEF Snapshot
  <2> HIDE DEF n
  <2>2. TypeOK'
    <3>1. l' \in [Ctx -> Locals]
      BY <1>2, <2>1 DEF TypeOK, Locals
    <3>2. pc' \in [Ctx -> {"idle"} \cup PushPC \cup PopPC]
      BY <2>1 DEF Goto, TypeOK, PopPC
    <3> QED
      BY <1>1, <2>1, <3>1, <3>2 DEF TypeOK, index
  <2>3. Sizes'
    BY <1>2, <1>4, <2>1, CtxAssumption DEF Goto, TypeOK, Locals, Sizes, LockedPC, ReservePC
  <2>4. LockCount' /\ PopAlone'
    BY <1>1, <2>1, PopStepKeeps DEF LockedPC, ReservePC
  <2>5. Fresh'
    BY <2>1, <1>1, CtxAssumption DEF Goto, TypeOK, Locals, Fresh
  <2> QED
    BY <2>2, <2>3, <2>4, <2>5
<1> QED
  BY <1>3, <1>4

LEMMA CopyOutInv == ASSUME IInv, CopyOut PROVE IInv'
<1> USE DEF IInv
<1> DEFINE me   == l[Consumer]
           s    == Advance(me.rd, 1)
           all  == Append(me.data, buffer[s])
           last == me.cnt = 1 /\ me.peek
<1>1. pc[Consumer] = "copyOut" /\ UNCHANGED <<index, qLock, buffer, promised>>
  BY DEF CopyOut, At
<1>2. me \in Locals /\ me.cnt \in Nat /\ me.cnt > 0 /\ s \in Slot /\ all \in Seq(Item)
  <2>1. me \in Locals
    BY CtxAssumption DEF TypeOK
  <2>2. me.rd \in Slot /\ me.data \in Seq(Item) /\ me.cnt \in Nat
    BY <2>1 DEF Locals
  <2>3. s \in Slot
    BY <2>2, AdvanceType, NAssumption
  <2>4. me.cnt > 0
    BY <1>1, CtxAssumption DEF Sizes
  <2>5. buffer[s] \in Item
    BY <2>3 DEF TypeOK
  <2>6. all \in Seq(Item)
    BY <2>2, <2>5
  <2> QED
    BY <2>1, <2>2, <2>3, <2>4, <2>6
<1>3. CASE last
  <2>1. Return(Consumer) /\ got' = all
    BY <1>3 DEF CopyOut
  <2>2. rd' \in Slot /\ wr' \in Slot
    BY <1>1 DEF TypeOK, index
  <2> QED
    BY <1>1, <1>2, <2>1, <2>2, PopReturns DEF PopPC
<1>4. CASE ~last
  <2> DEFINE label == IF me.cnt = 1 THEN "popLdr" ELSE "copyOut"
  <2>1. /\ Goto(Consumer, label) /\ UNCHANGED <<mon, got>>
        /\ l' = [l EXCEPT ![Consumer].rd = s, ![Consumer].data = all,
                          ![Consumer].cnt = me.cnt - 1]
    BY <1>4 DEF CopyOut
  <2>2. me.cnt - 1 \in Nat /\ (me.cnt # 1 => me.cnt - 1 > 0)
    BY <1>2
  <2>3. TypeOK'
    <3>1. l' \in [Ctx -> Locals]
      <4> HIDE DEF s, all
      <4> QED
        BY <1>2, <2>1, <2>2 DEF TypeOK, Locals
    <3>2. pc' \in [Ctx -> {"idle"} \cup PushPC \cup PopPC]
      BY <2>1 DEF Goto, TypeOK, PopPC
    <3> QED
      BY <1>1, <2>1, <3>1, <3>2 DEF TypeOK, index
  <2>4. Sizes'
    <3> HIDE DEF s, all
    <3> QED
      BY <2>1, <2>2, CtxAssumption DEF Goto, TypeOK, Locals, Sizes, LockedPC, ReservePC
  <2>5. LockCount' /\ PopAlone'
    BY <1>1, <2>1, PopStepKeeps DEF LockedPC, ReservePC, PopPC
  <2>6. Fresh'
    <3> HIDE DEF s, all
    <3> QED
      BY <1>1, <2>1, CtxAssumption DEF Goto, TypeOK, Locals, Fresh
  <2> QED
    BY <2>3, <2>4, <2>5, <2>6
<1> QED
  BY <1>3, <1>4

LEMMA PopLdrInv == ASSUME IInv, PopLdr PROVE IInv'
<1> USE DEF IInv
<1>1. /\ pc[Consumer] = "popLdr" /\ Goto(Consumer, "popStr") /\ mon' = Consumer
      /\ l' = [l EXCEPT ![Consumer].wr = wr]
      /\ UNCHANGED <<index, qLock, buffer, got, promised>>
  BY DEF PopLdr, At, LdrEx
<1>2. TypeOK'
  <2>1. l' \in [Ctx -> Locals]
    BY <1>1 DEF TypeOK, Locals
  <2>2. pc' \in [Ctx -> {"idle"} \cup PushPC \cup PopPC]
    BY <1>1 DEF Goto, TypeOK, PopPC
  <2> QED
    BY <1>1, <2>1, <2>2, CtxAssumption DEF TypeOK, index
<1>3. Sizes'
  BY <1>1, CtxAssumption DEF Goto, TypeOK, Locals, Sizes, LockedPC, ReservePC
<1>4. LockCount' /\ PopAlone'
  BY <1>1, PopStepKeeps DEF LockedPC, ReservePC, PopPC
<1>5. Fresh'
  BY <1>1, CtxAssumption DEF Goto, TypeOK, Fresh
<1> QED
  BY <1>2, <1>3, <1>4, <1>5

LEMMA PopStrInv == ASSUME IInv, PopStr PROVE IInv'
<1> USE DEF IInv
<1>1. pc[Consumer] = "popStr" /\ mon' = None /\ UNCHANGED <<qLock, buffer, promised>>
  BY DEF PopStr, At, Return
<1>2. CASE StrExOk(Consumer)
  <2>1. /\ Return(Consumer) /\ got' = l[Consumer].data
        /\ rd' = l[Consumer].rd /\ wr' = l[Consumer].wr
    BY <1>2 DEF PopStr
  <2>2. l[Consumer] \in Locals
    BY CtxAssumption DEF TypeOK
  <2>3. got' \in Seq(Item) /\ rd' \in Slot /\ wr' \in Slot
    BY <2>1, <2>2 DEF Locals
  <2> QED
    BY <1>1, <2>1, <2>3, PopReturns DEF PopPC
<1>3. CASE ~StrExOk(Consumer)
  <2>1. Goto(Consumer, "popLdr") /\ UNCHANGED <<index, got, l>>
    BY <1>3 DEF PopStr
  <2>2. TypeOK'
    BY <1>1, <2>1, CtxAssumption DEF Goto, TypeOK, PopPC, index
  <2>3. Sizes'
    BY <2>1, CtxAssumption DEF Goto, TypeOK, Sizes, LockedPC, ReservePC
  <2>4. LockCount' /\ PopAlone'
    BY <1>1, <2>1, PopStepKeeps DEF LockedPC, ReservePC, PopPC
  <2> QED
    BY <1>1, <2>2, <2>3, <2>4, FreshDropped
<1> QED
  BY <1>2, <1>3

\* Reset, and exceptions that have nothing to do with the queue.
LEMMA QuietInv ==
  ASSUME IInv, Reset \/ OtherException \/ UNCHANGED vars
  PROVE  IInv'
<1> USE DEF IInv
<1>1. CASE Reset
  <2>1. TypeOK'
    BY <1>1, NAssumption DEF Reset, TypeOK, Slot
  <2>2. Sizes' /\ LockCount' /\ PopAlone'
    BY <1>1 DEF Reset, Sizes, LockCount, PopAlone
  <2> QED
    BY <1>1, <2>1, <2>2, FreshDropped DEF Reset
<1>2. CASE OtherException
  <2>1. TypeOK'
    BY <1>2 DEF OtherException, TypeOK, index
  <2>2. Sizes' /\ LockCount' /\ PopAlone'
    BY <1>2 DEF OtherException, Sizes, LockCount, PopAlone
  <2> QED
    BY <1>2, <2>1, <2>2, FreshDropped DEF OtherException
<1>3. CASE UNCHANGED vars
  BY <1>3 DEF vars, TypeOK, Sizes, LockCount, Fresh, PopAlone
<1> QED
  BY <1>1, <1>2, <1>3

----------------------------------------------------------------------------
(* The theorems.                                                           *)

LEMMA IInvNext == IInv /\ [Next]_vars => IInv'
<1> SUFFICES ASSUME IInv, [Next]_vars PROVE IInv'
  OBVIOUS
<1>1. ASSUME NEW c \in Ctx, Push(c) PROVE IInv'
  BY <1>1, PushCallInv, PushRefusedInv, PushTrimInv, IncLdrInv, IncStrInv,
     ReserveLdrInv, ReserveStrInv, CopyInInv, DecLdrInv, DecStrInv DEF Push
<1>2. CASE Pop
  BY <1>2, PopLockedInv, PopCallInv, EmptyReadInv, SnapshotInv, CopyOutInv,
     PopLdrInv, PopStrInv DEF Pop
<1>3. CASE Reset \/ OtherException \/ UNCHANGED vars
  BY <1>3, QuietInv
<1> QED
  BY <1>1, <1>2, <1>3 DEF Next

\* The inductive invariant holds in every reachable state.
THEOREM Invariant == Spec => []IInv
  BY IInvInit, IInvNext, PTL DEF Spec

\* Indices stay in the buffer, qLock never goes below zero.
THEOREM TypeCorrect == Spec => []TypeOK
<1>1. IInv => TypeOK
  BY DEF IInv
<1> QED
  BY <1>1, Invariant, PTL

\* qLock is exactly the number of pushes in progress.
THEOREM LockCounts == Spec => []LockCount
<1>1. IInv => LockCount
  BY DEF IInv
<1> QED
  BY <1>1, Invariant, PTL

\* No object is copied out while a push is between reservation and copy.
THEOREM PopIsExclusive == Spec => []PopSeesNoPush
<1>1. IInv => PopSeesNoPush
  <2> SUFFICES ASSUME IInv, pc[Consumer] = "copyOut", MayRun(Consumer), NEW c \in Ctx
               PROVE  pc[c] \notin LockedPC
    BY DEF PopSeesNoPush
  <2>1. CASE c < Consumer
    BY <2>1 DEF IInv, PopAlone, PopPC
  <2>2. CASE c = Consumer
    BY <2>2 DEF LockedPC, ReservePC
  <2>3. CASE c > Consumer
    BY <2>3 DEF MayRun, LockedPC, ReservePC
  <2> QED
    BY <2>1, <2>2, <2>3, CtxAssumption DEF Ctx
<1> QED
  BY <1>1, Invariant, PTL

=============================================================================
