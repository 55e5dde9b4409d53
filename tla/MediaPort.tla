------------------------------ MODULE MediaPort ------------------------------
(***************************************************************************)
(* One connection of the media framework (applications/framework,          *)
(* os/common/media_port.c): the in-port of a sink component and the data   *)
(* queue of the out-port it is connected to.  The sink posts empty buffers *)
(* (MSYS_FillBuffer), the source fills them, and the sink takes them back  *)
(* in order (MSYS_InPortProcess) or cancels them (MSYS_InPortCancelAll).   *)
(*                                                                         *)
(* A connection is a record:                                               *)
(*   st, buf        the data queue (MSGQ): status and buffer of each slot  *)
(*   wr             its write index                                         *)
(*   fullQ, msgHdr  MSYS_InPortRWType: the light queue (LWQ) of the        *)
(*                  outstanding requests, oldest first, as indices of      *)
(*                  msgHdr, which holds their message headers.             *)
(*                                                                         *)
(* MSGQ itself is a library without source (system/queue/inc/msg_queue.h   *)
(* and a prebuilt archive): its operators say what its header promises.    *)
(***************************************************************************)
EXTENDS Integers, Sequences

CONSTANT Depth      \* LWQ_BUFFER_MAX_LENGTH; the message queue has one slot more

ASSUME DepthAssumption == Depth \in Nat \ {0}

Slot   == 0 .. Depth          \* MSGQ_SIZE slots
Buf    == 0 .. Depth          \* as many buffers in every sink component
NoSlot == Depth + 1           \* a NULL message header
Status == {"init", "posted", "processing", "completed"}

Connection ==
  [st : [Slot -> Status], buf : [Slot -> Buf], wr : Slot,
   fullQ : UNION {[1 .. n -> Slot] : n \in 0 .. Depth},
   msgHdr : [Slot -> Slot \cup {NoSlot}]]

After(s) == (s + 1) % (Depth + 1)

\* How far slot s is from slot t, going up.
Far(t, s) == (s - t) % (Depth + 1)

\* MSYS_InPortInit: the in-port's half is emptied, the data queue left alone.
InPortInit(p) ==
  [p EXCEPT !.fullQ = <<>>, !.msgHdr = [h \in Slot |-> NoSlot]]

NewConnection ==
  InPortInit([st |-> [s \in Slot |-> "init"], buf |-> [s \in Slot |-> 0],
              wr |-> 0, fullQ |-> <<>>, msgHdr |-> [h \in Slot |-> NoSlot]])

----------------------------------------------------------------------------
(* The server's half of the data queue. *)

Pending(p) == {s \in Slot : p.st[s] \in {"posted", "processing"}}

\* Mutant: the first slot instead of the oldest message.
MsgIdxLowest(p) == CHOOSE s \in Pending(p) : \A t \in Pending(p) : s <= t

\* MSGQ_GetMsgIdx: the oldest message not completed; BCM_ERR_BUSY without one.
\* It stays the oldest, and is returned again, until it is completed.
MsgIdx(p) ==
  CHOOSE s \in Pending(p) : \A t \in Pending(p) : Far(p.wr, s) <= Far(p.wr, t)

GetMsgIdx(p) ==
  IF Pending(p) = {} THEN p ELSE [p EXCEPT !.st[MsgIdx(p)] = "processing"]

\* MSGQ_CompleteMsgIdx.
CompleteMsgIdx(p, s) == [p EXCEPT !.st[s] = "completed"]

----------------------------------------------------------------------------
(* The sink's half. *)

\* MSYS_FillBuffer succeeds: the light queue and the data queue have room.
CanFill(p) == Len(p.fullQ) < Depth /\ p.st[p.wr] = "init"

\* Mutant: the place is not wrapped.
NextHandleNoWrap(q) == IF q = <<>> THEN 0 ELSE q[Len(q)] + 1

\* Mutant: the place is found from the number of handles, not from the last one.
NextHandleByLength(q) == Len(q)

\* The place in msgHdr after the last one in use.
NextHandle(q) == IF q = <<>> THEN 0 ELSE After(q[Len(q)])

\* MSGQ_SendMsg of buffer b, the handle cached, its index pushed.
FillBuffer(p, b) ==
  LET h == NextHandle(p.fullQ) IN
  [p EXCEPT !.st[p.wr] = "posted", !.buf[p.wr] = b, !.wr = After(p.wr),
            !.msgHdr[h] = p.wr, !.fullQ = Append(p.fullQ, h)]

\* The message at the head of the light queue, and its buffer.
HeadMsg(p) == p.msgHdr[Head(p.fullQ)]
HeadBuf(p) == p.buf[HeadMsg(p)]

\* The header is the client's no longer (MSGQ_RecvMsg, or MSGQ_TryCancelMsg of
\* a message the server has not begun), and its index is popped.
TakeHead(p) ==
  [p EXCEPT !.st[HeadMsg(p)] = "init", !.fullQ = Tail(p.fullQ)]

\* MSYS_InPortCancelAll pops the index first; a message that is being
\* processed stays in the queue.
CancelHead(p) ==
  IF p.st[HeadMsg(p)] = "processing"
  THEN [p EXCEPT !.fullQ = Tail(p.fullQ)]
  ELSE TakeHead(p)

----------------------------------------------------------------------------
(* What a connection relies on. *)

Handles(p) == [i \in 1 .. Len(p.fullQ) |-> p.msgHdr[p.fullQ[i]]]

\* The cached handles are exactly the messages in the data queue, in the order
\* of its slots: none is lost, none belongs to two requests.
FollowsTheRing(p) ==
  /\ {Handles(p)[i] : i \in 1 .. Len(p.fullQ)} = {s \in Slot : p.st[s] # "init"}
  /\ \A i \in 1 .. Len(p.fullQ) :
       Handles(p)[i] = (p.wr - (Len(p.fullQ) - i) - 1) % (Depth + 1)

\* The source completes them in that order.
CompletedFirst(p) ==
  \A i, j \in 1 .. Len(p.fullQ) :
    i < j /\ p.st[Handles(p)[j]] # "posted" => p.st[Handles(p)[i]] = "completed"

\* As many requests as MSYS_InPortProcess would receive now: all up to the first
\* that is not completed.
Arrived(p) ==
  CHOOSE k \in 0 .. Len(p.fullQ) :
    /\ \A i \in 1 .. k : p.st[Handles(p)[i]] = "completed"
    /\ k < Len(p.fullQ) => p.st[Handles(p)[k + 1]] # "completed"
=============================================================================
