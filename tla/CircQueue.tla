------------------------------ MODULE CircQueue ------------------------------
(***************************************************************************)
(* CIRCQ, the circular queue of system/utils (lib/circ_queue.c), shared by *)
(* tasks and interrupt handlers of one core without disabling interrupts.  *)
(*                                                                         *)
(* A context is a preemption level: context d interrupts context c < d     *)
(* anywhere, runs its call to the end, and returns to c.  Every access to  *)
(* the shared words (qIndex, qLock) and every object copied is one step,   *)
(* and LDREX/STREX go through the core's one exclusive monitor, which an   *)
(* exception entry or return clears.                                       *)
(*                                                                         *)
(* CIRCQ_Push may be called at any level; CIRCQ_Pop and CIRCQ_Peek are     *)
(* documented non-reentrant, so one context, Consumer, calls them.         *)
(***************************************************************************)
EXTENDS Integers, Sequences, FiniteSets

CONSTANTS
  N,          \* aQ->count, the number of slots (a power of two in the code)
  NCtx,       \* number of preemption levels that use the queue
  Consumer,   \* the level that pops
  Item,       \* objects
  Data,       \* the sequences of objects a push is called with
  MaxCnt,     \* bound: largest aCnt of a pop or peek
  Overwrite   \* aQ->overwrite = CIRCQ_OVERWRITE_ENABLE

Ctx  == 1 .. NCtx
Slot == 0 .. N - 1
None == 0

ASSUME NAssumption == N \in Nat /\ N > 1
ASSUME CtxAssumption == NCtx \in Nat /\ Consumer \in Ctx
ASSUME ItemAssumption == Item # {}
ASSUME DataAssumption == Data \subseteq Seq(Item)
ASSUME MaxCntAssumption == MaxCnt \in Nat
ASSUME OverwriteAssumption == Overwrite \in BOOLEAN

VARIABLES
  rd, wr,     \* qIndex[31:16] and qIndex[15:0], always written together
  qLock,      \* number of pushes in progress
  buffer,     \* the slots
  mon,        \* holder of the exclusive monitor, or None
  pc,         \* what each context is about to do
  l,          \* the local variables of each context's call
  got,        \* history: what the last pop or peek returned
  promised    \* history: the object a slot was last reserved for

index == <<rd, wr>>
vars == <<rd, wr, qLock, buffer, mon, pc, l, got, promised>>

ReservePC == {"resLdr", "resStr"}
LockedPC  == ReservePC \cup {"copyIn", "decLdr", "decStr"}
PushPC    == {"isFull", "incLdr", "incStr"} \cup LockedPC
PopPC     == {"emptyRd", "emptyWr", "snap", "copyOut", "popLdr", "popStr"}

\* rdIdx and wrIdx; val of ATOMIC_Inc/Dec; the objects a push has still to
\* copy in or a pop has copied out; aCnt of a push after trimming (history),
\* or the objects a pop has still to copy; whether the call is CIRCQ_Peek.
NoLocals == [rd |-> 0, wr |-> 0, val |-> 0, data |-> <<>>, cnt |-> 0,
             peek |-> FALSE]

----------------------------------------------------------------------------
\* CIRCQ_UPDATE_IDX for i < N and k <= N: the mask wraps at most once.
Advance(i, k) == IF i + k >= N THEN i + k - N ELSE i + k

IsFull(r, w)  == r = w
IsEmpty(r, w) == Advance(r, 1) = w

FilledSize(r, w) ==
  IF r < w THEN w - r - 1 ELSE IF r = w THEN N - 1 ELSE w + (N - r - 1)

\* Mutant: the slot that keeps a full queue from looking empty is not spared.
SpaceNoGap(r, w) == (IF w <= r THEN r - w ELSE r + (N - w)) + 1

\* `space' of CIRCQ_Push.
Space(r, w) == IF w <= r THEN r - w ELSE r + (N - w)

Smaller(a, b) == IF a < b THEN a ELSE b

\* The objects of a call that take part in it: an overwriting push keeps the
\* last ones of an over-long array, the other the first N.
Trim(data) ==
  IF Overwrite /\ Len(data) > N
  THEN SubSeq(data, N * ((Len(data) - 1) \div N) + 1, Len(data))
  ELSE SubSeq(data, 1, Smaller(Len(data), N))

\* What one pass of the reservation loop decides from qIndex = <<r, w>>.
Overruns(data, r, w) == Overwrite /\ Len(data) > Space(r, w)
Clamped(data, r, w) ==
  IF Overruns(data, r, w) THEN data
  ELSE SubSeq(data, 1, Smaller(Space(r, w), Len(data)))

----------------------------------------------------------------------------
Init ==
  /\ rd = N - 1 /\ wr = 0
  /\ qLock = 0
  /\ buffer \in [Slot -> {CHOOSE i \in Item : TRUE}]
  /\ promised = buffer
  /\ mon = None
  /\ pc = [c \in Ctx |-> "idle"]
  /\ l = [c \in Ctx |-> NoLocals]
  /\ got = <<>>

\* A context runs only while nothing above it is in progress.
MayRun(c) == \A d \in Ctx : d > c => pc[d] = "idle"

At(c, label) == pc[c] = label /\ MayRun(c)
Goto(c, label) == pc' = [pc EXCEPT ![c] = label]

\* Leaving the call: the locals are dead, and control passes through an
\* exception return, or to other code, before the next call.
Return(c) == Goto(c, "idle") /\ l' = [l EXCEPT ![c] = NoLocals] /\ mon' = None

\* Mutant: an ordinary store instead of STREX.
PlainStore(c) == TRUE

\* CORTEX_LdrEx takes the monitor, CORTEX_StrEx succeeds while it is held and
\* releases it either way.
LdrEx(c) == mon' = c
StrExOk(c) == mon = c

----------------------------------------------------------------------------
\* CIRCQ_Push: the call, with CIRCQ_IsFull's first read of qIndex.  Being
\* called at all means that control came from somewhere else.
PushCall(c, data) ==
  /\ At(c, "idle")
  /\ Goto(c, "isFull")
  /\ l' = [l EXCEPT ![c].rd = rd, ![c].data = data]
  /\ mon' = None
  /\ UNCHANGED <<index, qLock, buffer, got, promised>>

\* CIRCQ_IsFull's second read says full: BCM_ERR_NOMEM.
PushNoMem(c) ==
  /\ At(c, "isFull")
  /\ IsFull(l[c].rd, wr) /\ ~Overwrite
  /\ Return(c)
  /\ UNCHANGED <<index, qLock, buffer, got, promised>>

\* Nothing to push: BCM_ERR_OK at once.
PushNothing(c) ==
  /\ At(c, "isFull")
  /\ ~IsFull(l[c].rd, wr) \/ Overwrite
  /\ l[c].data = <<>>
  /\ Return(c)
  /\ UNCHANGED <<index, qLock, buffer, got, promised>>

PushTrim(c) ==
  /\ At(c, "isFull")
  /\ ~IsFull(l[c].rd, wr) \/ Overwrite
  /\ l[c].data # <<>>
  /\ Goto(c, "incLdr")
  /\ LET data == Trim(l[c].data)
     IN l' = [l EXCEPT ![c].data = data, ![c].cnt = Len(data)]
  /\ UNCHANGED <<index, qLock, buffer, mon, got, promised>>

\* ATOMIC_Inc(&qLock).
IncLdr(c) ==
  /\ At(c, "incLdr")
  /\ LdrEx(c)
  /\ l' = [l EXCEPT ![c].val = qLock + 1]
  /\ Goto(c, "incStr")
  /\ UNCHANGED <<index, qLock, buffer, got, promised>>

\* Mutant: a failed STREX is not tried again.
IncStrNoRetry(c) ==
  /\ At(c, "incStr")
  /\ mon' = None
  /\ qLock' = IF StrExOk(c) THEN l[c].val ELSE qLock
  /\ Goto(c, "resLdr")
  /\ UNCHANGED <<index, buffer, l, got, promised>>

IncStr(c) ==
  /\ At(c, "incStr")
  /\ mon' = None
  /\ IF StrExOk(c) THEN qLock' = l[c].val /\ Goto(c, "resLdr")
                   ELSE qLock' = qLock /\ Goto(c, "incLdr")
  /\ UNCHANGED <<index, buffer, l, got, promised>>

\* The reservation loop: read qIndex, clamp the count (it stays clamped when
\* the store fails and the loop runs again) ...
ReserveLdr(c) ==
  /\ At(c, "resLdr")
  /\ LdrEx(c)
  /\ l' = [l EXCEPT ![c].rd = rd, ![c].wr = wr,
                    ![c].data = Clamped(l[c].data, rd, wr)]
  /\ Goto(c, "resStr")
  /\ UNCHANGED <<index, qLock, buffer, got, promised>>

\* ... and publish the new indices, before a single object is copied.
ReserveStr(c) ==
  LET me == l[c]
      k  == Len(me.data)
  IN
  /\ At(c, "resStr")
  /\ mon' = None
  /\ IF StrExOk(c)
     THEN /\ rd' = IF Overruns(me.data, me.rd, me.wr) THEN me.wr ELSE me.rd
          /\ wr' = Advance(me.wr, k)
          /\ promised' = [s \in Slot |->
               IF \E j \in 1 .. k : Advance(me.wr, j - 1) = s
               THEN me.data[CHOOSE j \in 1 .. k : Advance(me.wr, j - 1) = s]
               ELSE promised[s]]
          /\ Goto(c, IF k = 0 THEN "decLdr" ELSE "copyIn")
     ELSE /\ Goto(c, "resLdr")
          /\ UNCHANGED <<index, promised>>
  /\ UNCHANGED <<qLock, buffer, l, got>>

\* One object of the copy into the reserved slots.
CopyIn(c) ==
  /\ At(c, "copyIn")
  /\ buffer' = [buffer EXCEPT ![l[c].wr] = Head(l[c].data)]
  /\ l' = [l EXCEPT ![c].wr = Advance(l[c].wr, 1), ![c].data = Tail(l[c].data)]
  /\ Goto(c, IF Len(l[c].data) = 1 THEN "decLdr" ELSE "copyIn")
  /\ UNCHANGED <<index, qLock, mon, got, promised>>

\* ATOMIC_Dec(&qLock), then return BCM_ERR_OK.
DecLdr(c) ==
  /\ At(c, "decLdr")
  /\ LdrEx(c)
  /\ l' = [l EXCEPT ![c].val = qLock - 1]
  /\ Goto(c, "decStr")
  /\ UNCHANGED <<index, qLock, buffer, got, promised>>

DecStr(c) ==
  /\ At(c, "decStr")
  /\ IF StrExOk(c) THEN qLock' = l[c].val /\ Return(c)
                   ELSE qLock' = qLock /\ Goto(c, "decLdr") /\ l' = l /\ mon' = None
  /\ UNCHANGED <<index, buffer, got, promised>>

----------------------------------------------------------------------------
\* CIRCQ_Pop and CIRCQ_Peek share everything but the final update.  Both
\* return 0 at once while a push is in progress.
PopLocked ==
  /\ At(Consumer, "idle")
  /\ qLock > 0
  /\ got' = <<>>
  /\ mon' = None
  /\ UNCHANGED <<index, qLock, buffer, pc, l, promised>>

\* Mutant: qLock is not tested.
PopCallUnlocked(count, peek) ==
  /\ At(Consumer, "idle")
  /\ Goto(Consumer, "emptyRd")
  /\ l' = [l EXCEPT ![Consumer].cnt = count, ![Consumer].peek = peek]
  /\ mon' = None
  /\ UNCHANGED <<index, qLock, buffer, got, promised>>

PopCall(count, peek) ==
  /\ At(Consumer, "idle")
  /\ qLock = 0
  /\ Goto(Consumer, "emptyRd")
  /\ l' = [l EXCEPT ![Consumer].cnt = count, ![Consumer].peek = peek]
  /\ mon' = None
  /\ UNCHANGED <<index, qLock, buffer, got, promised>>

\* CIRCQ_IsEmpty reads qIndex twice.
EmptyReadRd ==
  /\ At(Consumer, "emptyRd")
  /\ l' = [l EXCEPT ![Consumer].rd = rd]
  /\ Goto(Consumer, "emptyWr")
  /\ UNCHANGED <<index, qLock, buffer, mon, got, promised>>

EmptyReadWr ==
  /\ At(Consumer, "emptyWr")
  /\ IF IsEmpty(l[Consumer].rd, wr) \/ l[Consumer].cnt = 0
     THEN Return(Consumer) /\ got' = <<>>
     ELSE Goto(Consumer, "snap") /\ UNCHANGED <<mon, l, got>>
  /\ UNCHANGED <<index, qLock, buffer, promised>>

\* CIRCQ_CopyData reads qIndex once and copies at most what it saw.
Snapshot ==
  LET n == Smaller(l[Consumer].cnt, FilledSize(rd, wr)) IN
  /\ At(Consumer, "snap")
  /\ IF n = 0
     THEN Return(Consumer) /\ got' = <<>>
     ELSE /\ Goto(Consumer, "copyOut")
          /\ l' = [l EXCEPT ![Consumer].rd = rd, ![Consumer].cnt = n]
          /\ UNCHANGED <<mon, got>>
  /\ UNCHANGED <<index, qLock, buffer, promised>>

\* One object of the copy out; rdIdx ends as the read index to be stored.
CopyOut ==
  LET me  == l[Consumer]
      s   == Advance(me.rd, 1)
      all == Append(me.data, buffer[s])
  IN
  /\ At(Consumer, "copyOut")
  /\ IF me.cnt = 1 /\ me.peek
     THEN Return(Consumer) /\ got' = all
     ELSE /\ Goto(Consumer, IF me.cnt = 1 THEN "popLdr" ELSE "copyOut")
          /\ l' = [l EXCEPT ![Consumer].rd = s, ![Consumer].data = all,
                            ![Consumer].cnt = me.cnt - 1]
          /\ UNCHANGED <<mon, got>>
  /\ UNCHANGED <<index, qLock, buffer, promised>>

\* Store the new read index with the write index of the moment.
PopLdr ==
  /\ At(Consumer, "popLdr")
  /\ LdrEx(Consumer)
  /\ l' = [l EXCEPT ![Consumer].wr = wr]
  /\ Goto(Consumer, "popStr")
  /\ UNCHANGED <<index, qLock, buffer, got, promised>>

PopStr ==
  /\ At(Consumer, "popStr")
  /\ IF StrExOk(Consumer)
     THEN /\ rd' = l[Consumer].rd /\ wr' = l[Consumer].wr
          /\ got' = l[Consumer].data
          /\ Return(Consumer)
     ELSE /\ Goto(Consumer, "popLdr")
          /\ mon' = None
          /\ UNCHANGED <<index, got, l>>
  /\ UNCHANGED <<qLock, buffer, promised>>

----------------------------------------------------------------------------
\* CIRCQ_Reset, non-reentrant: called while the queue is at rest.
Reset ==
  /\ \A c \in Ctx : pc[c] = "idle"
  /\ rd' = N - 1 /\ wr' = 0
  /\ mon' = None
  /\ UNCHANGED <<qLock, buffer, pc, l, got, promised>>

\* An exception that does not use the queue.
OtherException ==
  /\ mon # None
  /\ mon' = None
  /\ UNCHANGED <<index, qLock, buffer, pc, l, got, promised>>

Push(c) ==
  \/ \E data \in Data : PushCall(c, data)
  \/ PushNoMem(c) \/ PushNothing(c) \/ PushTrim(c)
  \/ IncLdr(c) \/ IncStr(c)
  \/ ReserveLdr(c) \/ ReserveStr(c)
  \/ CopyIn(c)
  \/ DecLdr(c) \/ DecStr(c)

Pop ==
  \/ PopLocked
  \/ \E count \in 0 .. MaxCnt, peek \in BOOLEAN : PopCall(count, peek)
  \/ EmptyReadRd \/ EmptyReadWr
  \/ Snapshot \/ CopyOut
  \/ PopLdr \/ PopStr

Next == (\E c \in Ctx : Push(c)) \/ Pop \/ Reset \/ OtherException

Spec == Init /\ [][Next]_vars

----------------------------------------------------------------------------
\* The components of the state have their types; in particular the indices
\* stay inside the buffer and qLock is never taken below zero.
Locals == [rd : Slot, wr : Slot, val : Nat, data : Seq(Item), cnt : Nat,
           peek : BOOLEAN]

TypeOK ==
  /\ rd \in Slot /\ wr \in Slot
  /\ qLock \in Nat
  /\ buffer \in [Slot -> Item]
  /\ mon \in Ctx \cup {None}
  /\ pc \in [Ctx -> {"idle"} \cup PushPC \cup PopPC]
  /\ l \in [Ctx -> Locals]
  /\ got \in Seq(Item)
  /\ promised \in [Slot -> Item]

\* qLock counts the pushes between their ATOMIC_Inc and their ATOMIC_Dec, one
\* for one, however the contexts interrupt each other between the load and the
\* store of the two: a count that stayed high would stop the queue from ever
\* being popped again, one too low would let a pop in during a push.
LockCount == qLock = Cardinality({c \in Ctx : pc[c] \in LockedPC})

\* When the consumer copies an object out, no push is between the reservation
\* of its slots and the end of its copy: the test of qLock made once at the
\* start of CIRCQ_Pop covers every later read, because the contexts below it
\* are suspended and those above it finish before it goes on.
PopSeesNoPush ==
  pc[Consumer] = "copyOut" /\ MayRun(Consumer) =>
    \A c \in Ctx : pc[c] \notin LockedPC

\* What makes the three inductive.  A call has at most N objects left; a copy
\* has at least one; a value loaded by LDREX is current as long as the monitor
\* is held; and nobody suspended below a pop is inside a push.
Sizes ==
  \A c \in Ctx :
    /\ pc[c] \in {"incLdr", "incStr"} \cup LockedPC => Len(l[c].data) <= N
    /\ pc[c] = "copyIn" => l[c].data # <<>>
    /\ pc[c] = "copyOut" => l[c].cnt > 0

Fresh ==
  \A c \in Ctx : mon = c =>
    /\ pc[c] = "incStr" => l[c].val = qLock + 1
    /\ pc[c] = "decStr" => l[c].val = qLock - 1

PopAlone ==
  pc[Consumer] \in PopPC =>
    \A c \in Ctx : c < Consumer => pc[c] \notin LockedPC

IInv == TypeOK /\ Sizes /\ LockCount /\ Fresh /\ PopAlone

\* Slots a push in progress has reserved and not yet filled.
Reserved(c) ==
  IF pc[c] = "copyIn"
  THEN {Advance(l[c].wr, j - 1) : j \in 1 .. Len(l[c].data)} ELSE {}

\* Two pushes nested in one another never own the same slot, and none owns a
\* slot the consumer has still to read.
ReservationsDisjoint ==
  /\ \A c, d \in Ctx : c # d => Reserved(c) \cap Reserved(d) = {}
  /\ pc[Consumer] = "copyOut" =>
       \A c \in Ctx, j \in 1 .. l[Consumer].cnt :
         Advance(l[Consumer].rd, j) \notin Reserved(c)

\* A push that does not overwrite stores as much of its data as fits at the
\* moment it publishes the indices, although the count was clamped by passes
\* of the loop whose store failed.
PushTakesAllThatFits ==
  [][\A c \in Ctx :
       pc[c] = "resStr" /\ StrExOk(c) /\ pc'[c] # "resStr" =>
         Len(l[c].data) = Smaller(l[c].cnt, Space(rd, wr))]_vars

----------------------------------------------------------------------------
\* What the queue promises: a bounded FIFO.  A push takes effect when its
\* store publishes the indices; a reserved slot stands for the object it is
\* reserved for.
Contents == [i \in 1 .. FilledSize(rd, wr) |-> promised[Advance(rd, i)]]

Abstract == INSTANCE BoundedFifo WITH queue <- Contents, got <- got,
                                      Capacity <- N - 1
Fifo == Abstract!Spec
=============================================================================
