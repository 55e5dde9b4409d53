------------------------------- MODULE EthTx -------------------------------
(***************************************************************************)
(* The way of a packet through the Ethernet transmit path of one channel:  *)
(* a client takes a buffer from the network interface (NIF), may ask for   *)
(* its IEEE 1588 egress time stamp, sends it; the driver queues it to the  *)
(* DMA ring; the interrupt of the MAC dequeues what was transmitted and    *)
(* the interrupt of the 1588 block stores the time stamps; CommsTask gives *)
(* the buffer back to the client and to the driver.                        *)
(*                                                                         *)
(* The entry points of the driver are supervisor calls, not re-entrant:    *)
(* each is one step.  An interrupt runs between steps of tasks and is not  *)
(* interleaved with them; the DMA engine runs at any time.                 *)
(***************************************************************************)
EXTENDS Integers, Sequences, FiniteSets

CONSTANTS
  Clients,    \* tasks (or callbacks of CommsTask) that send packets
  N,          \* buffers of the channel, ETHER_TxChanInfo[chan].pktBuffCnt
  WaitQSize,  \* ETHER_TIMETXCONFWAITQSIZE
  FifoDepth,  \* P1588_FIFO_DEPTH
  Seqs,       \* identifiers (message type, sequence number) of gPTP events
  Sends       \* what clients do: {"plain", "free"} or a part of it, besides
              \* sending with a confirmation

ASSUME ConstantsAssumption ==
  /\ N \in Nat \ {0} /\ WaitQSize \in Nat \ {0} /\ FifoDepth \in Nat \ {0}
  /\ Seqs \subseteq Nat \ {0}
  /\ Sends \subseteq {"plain", "free"}

Bufs    == 0 .. N - 1
DescCnt == N + 1                        \* descriptors of the DMA ring
Descs   == 0 .. N
WaitQ   == 1 .. WaitQSize
Fifo    == 0 .. FifoDepth - 1
NoBuf   == -1
Invalid == -1        \* a time stamp of quality ETHER_TIMESTAMPQUAL_INVALID
Other   == 0         \* a frame, or a time stamp, nobody waits for

VARIABLES
  nif, isTSed,                 \* NIF_Comp.txBufInfo
  bufState, cben, txconf,      \* pktBuffInfo: state and flags
  buffIdxQ, allocIdx, deallocIdx, dequeueIdx, queueIdx,
  lastDesc, currDesc, irq,     \* the DMA: xmtptr, xmtstatus0, intstatus
  isr,                         \* the MAC interrupt: off, or acknowledged
  txConfWaitQ,                 \* ETHER_TimeRWData.txConfWaitQ
  tsInfo, curTSIdx, airTs,     \* stamps read, stamps still in the hardware
  events,                      \* the events of CommsTask
  pc, mask, mbuf, from,        \* CommsTask
  cpc, cbuf, how,              \* the clients
  frame, owed, stamp, lost     \* history: see below

nifVars  == <<nif, isTSed>>
flagVars == <<cben, txconf>>
idxVars  == <<buffIdxQ, allocIdx, deallocIdx, dequeueIdx, queueIdx>>
dmaVars  == <<lastDesc, currDesc, irq>>
timeVars == <<tsInfo, curTSIdx, airTs>>
commVars == <<pc, mask, mbuf, from>>
cliVars  == <<cpc, cbuf, how>>
(* frame[b]: the event identifier of the packet last sent from b, or Other. *)
(* owed[b]: confirmations the client of b still has to get.                 *)
(* stamp[b]: the time stamp delivered for the packet, Other before that.    *)
(* lost[b]: why the channel will not get b back, or "no".                   *)
histVars == <<frame, owed, stamp, lost>>
vars == <<nifVars, bufState, flagVars, idxVars, dmaVars, isr, txConfWaitQ,
          timeVars, events, commVars, cliVars, histVars>>

----------------------------------------------------------------------------
\* Mutant: the index does not wrap.
IncModNoWrap(v, max) == v + 1
IncMod(v, max) == IF v + 1 = max THEN 0 ELSE v + 1          \* BCM_IncMod

(* How far b is ahead of a on a ring of max places. *)
Ahead(a, b, max) == IF a <= b THEN b - a ELSE b - a + max

(* The places of the index queue from a up to, not including, b. *)
Between(a, b) == {i \in Descs : Ahead(a, i, DescCnt) < Ahead(a, b, DescCnt)}

(* The first of the places in a set, from a on. *)
Nearest(a, places) ==
  {i \in places : \A j \in places : Ahead(a, i, DescCnt) <= Ahead(a, j, DescCnt)}

FreeEntry == [state |-> "FREE", bufIdx |-> NoBuf, seq |-> Other]

Init ==
  /\ nif = [b \in Bufs |-> "FREE"] /\ isTSed = [b \in Bufs |-> FALSE]
  /\ bufState = [b \in Bufs |-> "FREE"]
  /\ cben = [b \in Bufs |-> FALSE] /\ txconf = [b \in Bufs |-> FALSE]
  /\ buffIdxQ = [i \in Descs |-> NoBuf]
  /\ allocIdx = 0 /\ deallocIdx = 0 /\ dequeueIdx = 0 /\ queueIdx = 0
  /\ lastDesc = 0 /\ currDesc = 0 /\ irq = FALSE /\ isr = "off"
  /\ txConfWaitQ = [i \in WaitQ |-> FreeEntry]
  /\ tsInfo = [i \in Fifo |-> Other] /\ curTSIdx = 0 /\ airTs = <<>>
  /\ events = {}
  /\ pc = "wait" /\ mask = {} /\ mbuf = NoBuf /\ from = "none"
  /\ cpc = [c \in Clients |-> "idle"] /\ cbuf = [c \in Clients |-> NoBuf]
  /\ how = [c \in Clients |-> "none"]
  /\ frame = [b \in Bufs |-> Other] /\ owed = [b \in Bufs |-> 0]
  /\ stamp = Other /\ lost = [b \in Bufs |-> "no"]

----------------------------------------------------------------------------
(* The wait queue of the time stamps (eth_time_v1.c). *)

(* Where a search from the first entry on stops. *)
First(found) == {i \in found : \A j \in found : i <= j}

(* ETHER_TimeAddTxConfWaitQEntry: the first free entry; none: BCM_ERR_BUSY. *)
AddEntry(b) ==
  LET free == First({i \in WaitQ : txConfWaitQ[i].state = "FREE"})
  IN  [i \in WaitQ |-> IF i \in free
                       THEN [txConfWaitQ[i] EXCEPT !.state = "ALLOC", !.bufIdx = b]
                       ELSE txConfWaitQ[i]]

(* ETHER_TimeRemoveTxConfWaitQEntry *)
RemoveEntry(b) ==
  [i \in WaitQ |->
     IF txConfWaitQ[i].state \in {"ALLOC", "DEQUEUED"} /\ txConfWaitQ[i].bufIdx = b
     THEN FreeEntry ELSE txConfWaitQ[i]]

(* ETHER_TimeUpdateTxConfWaitQEntry: the entry the packet was enabled with. *)
AllocEntry(b) == First({i \in WaitQ : /\ txConfWaitQ[i].state = "ALLOC"
                                     /\ txConfWaitQ[i].bufIdx = b})
QueueEntry(b, s) ==
  [i \in WaitQ |-> IF i \in AllocEntry(b)
                   THEN [txConfWaitQ[i] EXCEPT !.state = "QUEUED", !.seq = s]
                   ELSE txConfWaitQ[i]]

Stamps == {tsInfo[i] : i \in Fifo}

\* Mutant: the newest stamp is taken.
ReadTSNewest(s) == tsInfo[IF curTSIdx = 0 THEN FifoDepth - 1 ELSE curTSIdx - 1]
(* ETHER_TimeReadTS *)
ReadTS(s) == IF s \in Stamps THEN s ELSE Invalid

(* Sequence numbers are 16 bits wide and do not come round while a stamp   *)
(* of the same number is still somewhere on its way: the environment's     *)
(* assumption.                                                             *)
InUse == Stamps \cup {airTs[i] : i \in 1 .. Len(airTs)}
         \cup {frame[b] : b \in {x \in Bufs : bufState[x] \in {"ALLOC", "QUEUED"}}}
         \cup {txConfWaitQ[i].seq : i \in {j \in WaitQ : txConfWaitQ[j].state # "FREE"}}

----------------------------------------------------------------------------
(* Clients.  They run when no interrupt does. *)

\* Mutant: the state of the buffer is not tested.
AllocatableUnchecked == {b \in Bufs : ~txconf[b] /\ bufState[b] # "QUEUED"}
Allocatable == {b \in Bufs : ~txconf[b] /\ bufState[b] = "FREE"}

(* NIF_GetTxBuffer, first half: ETHER_CntlrAllocTxBuf takes the first free *)
(* buffer from allocIdx on.  Without one the call fails with no effect.    *)
GetTxBuffer(c) ==
  /\ isr = "off" /\ cpc[c] = "idle"
  /\ \E b \in Allocatable :
       /\ \A d \in Allocatable : Ahead(allocIdx, b, N) <= Ahead(allocIdx, d, N)
       /\ bufState' = [bufState EXCEPT ![b] = "ALLOC"]
       /\ cbuf' = [cbuf EXCEPT ![c] = b]
  /\ allocIdx' = IncMod(allocIdx, N)
  /\ cpc' = [cpc EXCEPT ![c] = "got"]
  /\ UNCHANGED <<nifVars, flagVars, buffIdxQ, deallocIdx, dequeueIdx, queueIdx,
                 dmaVars, isr, txConfWaitQ, timeVars, events, commVars, how, histVars>>

(* NIF_GetTxBuffer, second half: the state the interface keeps.  When it   *)
(* is not FREE an error is reported and the call still returns the buffer. *)
GotTxBuffer(c) ==
  LET b == cbuf[c] IN
  /\ isr = "off" /\ cpc[c] = "got"
  /\ nif' = [nif EXCEPT ![b] = IF @ = "FREE" THEN "ALLOC" ELSE @]
  /\ cpc' = [cpc EXCEPT ![c] = "held"]
  /\ UNCHANGED <<isTSed, bufState, flagVars, idxVars, dmaVars, isr, txConfWaitQ,
                 timeVars, events, commVars, cbuf, how, histVars>>

(* NIF_EnableTxTimestamp, first half: ETHER_CntlrXmtMarkTSPkt. *)
MarkTSPkt(c) ==
  LET b == cbuf[c] IN
  /\ isr = "off" /\ cpc[c] = "held" /\ nif[b] = "ALLOC" /\ bufState[b] = "ALLOC"
  /\ ~txconf[b]
  /\ txconf' = [txconf EXCEPT ![b] = TRUE]
  /\ cpc' = [cpc EXCEPT ![c] = "marked"]
  /\ UNCHANGED <<nifVars, bufState, cben, idxVars, dmaVars, isr, txConfWaitQ,
                 timeVars, events, commVars, cbuf, how, histVars>>

(* Second half: an entry of the wait queue.  When there is none the mark   *)
(* stays and the call returns BCM_ERR_BUSY.                                *)
EnableEgressTS(c) ==
  LET b == cbuf[c] IN
  /\ isr = "off" /\ cpc[c] = "marked"
  /\ txConfWaitQ' = AddEntry(b)
  /\ isTSed' = [isTSed EXCEPT ![b] = @ \/ AddEntry(b) # txConfWaitQ]
  /\ cpc' = [cpc EXCEPT ![c] = "held"]
  /\ UNCHANGED <<nif, bufState, flagVars, idxVars, dmaVars, isr, timeVars,
                 events, commVars, cbuf, how, histVars>>

(* NIF_Send is refused for a buffer the interface has not allocated: the   *)
(* client has no other way to give it back.                                *)
SendRefused(c) ==
  LET b == cbuf[c] IN
  /\ isr = "off" /\ cpc[c] = "held" /\ nif[b] # "ALLOC"
  /\ cpc' = [cpc EXCEPT ![c] = "idle"] /\ cbuf' = [cbuf EXCEPT ![c] = NoBuf]
  /\ lost' = [lost EXCEPT ![b] = "early"]
  /\ UNCHANGED <<nifVars, bufState, flagVars, idxVars, dmaVars, isr, txConfWaitQ,
                 timeVars, events, commVars, how, frame, owed, stamp>>

(* NIF_Send and ETHER_Send up to the call that queues the packet: with a   *)
(* confirmation, without one, or with length 0, which frees the buffer.    *)
(* A marked packet with confirmation needs its entry of the wait queue:    *)
(* without it the call ends here with BCM_ERR_BUSY.                        *)
SendConfirmed(c) ==
  LET b == cbuf[c] IN
  /\ isr = "off" /\ cpc[c] = "held" /\ nif[b] = "ALLOC"
  /\ nif' = [nif EXCEPT ![b] = "TX"]
  /\ \E s \in IF txconf[b] THEN Seqs \ InUse ELSE {Other} :
       /\ frame' = [frame EXCEPT ![b] = s]
       /\ txConfWaitQ' = IF txconf[b] THEN QueueEntry(b, s) ELSE txConfWaitQ
  /\ IF txconf[b] /\ AllocEntry(b) = {}
     THEN /\ cpc' = [cpc EXCEPT ![c] = "idle"] /\ cbuf' = [cbuf EXCEPT ![c] = NoBuf]
          /\ lost' = [lost EXCEPT ![b] = "noslot"]
          /\ UNCHANGED how
     ELSE /\ cpc' = [cpc EXCEPT ![c] = "xmt"] /\ how' = [how EXCEPT ![c] = "conf"]
          /\ UNCHANGED <<cbuf, lost>>
  /\ UNCHANGED <<isTSed, bufState, flagVars, idxVars, dmaVars, isr, timeVars,
                 events, commVars, owed, stamp>>

SendUnconfirmed(c, what) ==
  LET b == cbuf[c] IN
  /\ isr = "off" /\ cpc[c] = "held" /\ nif[b] = "ALLOC"
  /\ nif' = [nif EXCEPT ![b] = "FREE"]
  /\ txConfWaitQ' = IF txconf[b] THEN RemoveEntry(b) ELSE txConfWaitQ
  /\ \E s \in IF txconf[b] /\ what = "plain" THEN Seqs \ InUse ELSE {Other} :
       frame' = [frame EXCEPT ![b] = s]
  /\ how' = [how EXCEPT ![c] = what]
  /\ cpc' = [cpc EXCEPT ![c] = "xmt"]
  /\ UNCHANGED <<isTSed, bufState, flagVars, idxVars, dmaVars, isr, timeVars,
                 events, commVars, cbuf, owed, stamp, lost>>

\* Mutant: only a transmitted buffer is freed.
FreedStateDone(state) == IF state = "DEQUEUED" THEN "FREE" ELSE state
FreedState(state) == IF state = "ALLOC" THEN "FREE" ELSE state  \* ETHER_CntlrFreeTxBuf

(* ETHER_CntlrXmtSend: length 0 frees the buffer; else it is queued and    *)
(* the DMA told of it, with the interrupts suspended.  When that fails     *)
(* ETHER_Send takes the entry of the wait queue back.                      *)
XmtSend(c) ==
  LET b == cbuf[c]
      busy == IncMod(lastDesc, DescCnt) = currDesc
      queued == bufState[b] = "ALLOC" /\ ~busy
  IN
  /\ isr = "off" /\ cpc[c] = "xmt"
  /\ cpc' = [cpc EXCEPT ![c] = "idle"] /\ cbuf' = [cbuf EXCEPT ![c] = NoBuf]
  /\ how' = [how EXCEPT ![c] = "none"]
  /\ IF how[c] = "free"
     THEN /\ bufState' = [bufState EXCEPT ![b] = FreedState(@)]
          /\ cben' = [cben EXCEPT ![b] = FALSE] /\ txconf' = [txconf EXCEPT ![b] = FALSE]
          /\ UNCHANGED <<buffIdxQ, queueIdx, lastDesc, txConfWaitQ, owed, lost>>
     ELSE IF queued
     THEN /\ bufState' = [bufState EXCEPT ![b] = "QUEUED"]
          /\ cben' = [cben EXCEPT ![b] = how[c] = "conf"]
          /\ buffIdxQ' = [buffIdxQ EXCEPT ![queueIdx] = b]
          /\ queueIdx' = IncMod(queueIdx, DescCnt)
          /\ lastDesc' = IncMod(lastDesc, DescCnt)
          /\ owed' = [owed EXCEPT ![b] = IF how[c] = "conf" THEN @ + 1 ELSE @]
          /\ lost' = [lost EXCEPT ![b] =
                        IF how[c] = "plain" /\ txconf[b] THEN "unconfirmed" ELSE @]
          /\ UNCHANGED <<txconf, txConfWaitQ>>
     ELSE /\ txConfWaitQ' = IF how[c] = "conf" THEN RemoveEntry(b) ELSE txConfWaitQ
          /\ UNCHANGED <<bufState, flagVars, buffIdxQ, queueIdx, lastDesc, owed, lost>>
  /\ UNCHANGED <<nifVars, allocIdx, deallocIdx, dequeueIdx, currDesc, irq, isr,
                 timeVars, events, commVars, frame, stamp>>

----------------------------------------------------------------------------
(* The hardware and the two interrupts. *)

(* The DMA transmits the next descriptor; the 1588 block stamps an event. *)
Transmit ==
  LET s == frame[buffIdxQ[currDesc]] IN
  /\ currDesc # lastDesc
  /\ currDesc' = IncMod(currDesc, DescCnt) /\ irq' = TRUE
  /\ airTs' = IF s = Other THEN airTs ELSE Append(airTs, s)
  /\ UNCHANGED <<nifVars, bufState, flagVars, idxVars, lastDesc, isr, txConfWaitQ,
                 tsInfo, curTSIdx, events, commVars, cliVars, histVars>>

(* ETHER_IntIRQHandler: the status is acknowledged before it is acted on. *)
IrqAck ==
  /\ isr = "off" /\ irq
  /\ irq' = FALSE /\ isr' = "acked"
  /\ UNCHANGED <<nifVars, bufState, flagVars, idxVars, lastDesc, currDesc,
                 txConfWaitQ, timeVars, events, commVars, cliVars, histVars>>

\* Mutant: xmtptr is read in the place of xmtstatus0.
CompletedLast == lastDesc
Completed == currDesc

(* ETHER_CntlrDequeueXmtCompPkts: dequeues up to the current descriptor,   *)
(* or to the first buffer that is not QUEUED.                              *)
DequeueStops ==
  {i \in Between(dequeueIdx, Completed) : bufState[buffIdxQ[i]] # "QUEUED"}
    \cup {Completed}

DequeueXmtCompPkts ==
  /\ isr = "acked"
  /\ \E stop \in Nearest(dequeueIdx, DequeueStops) :
       /\ bufState' = [b \in Bufs |->
                         IF \E i \in Between(dequeueIdx, stop) : buffIdxQ[i] = b
                         THEN "DEQUEUED" ELSE bufState[b]]
       /\ dequeueIdx' = stop
  /\ events' = events \cup {"pkt"} /\ isr' = "off"
  /\ UNCHANGED <<nifVars, flagVars, buffIdxQ, allocIdx, deallocIdx, queueIdx, dmaVars,
                 txConfWaitQ, timeVars, commVars, cliVars, histVars>>

(* ETHER_TimeReadTimeHWStampFIFO stores the stamp over the oldest one,     *)
(* which is lost when nobody has read it yet.                              *)
TimestampIRQ ==
  /\ isr = "off" /\ airTs # <<>>
  /\ tsInfo' = [tsInfo EXCEPT ![curTSIdx] = Head(airTs)] /\ airTs' = Tail(airTs)
  /\ curTSIdx' = IncMod(curTSIdx, FifoDepth)
  /\ events' = events \cup {"ts"}
  /\ lost' = [b \in Bufs |->
                IF \E i \in WaitQ : /\ txConfWaitQ[i].state = "QUEUED"
                                    /\ txConfWaitQ[i].bufIdx = b
                                    /\ txConfWaitQ[i].seq = tsInfo[curTSIdx]
                THEN "overwritten" ELSE lost[b]]
  /\ UNCHANGED <<nifVars, bufState, flagVars, idxVars, dmaVars, isr, txConfWaitQ,
                 commVars, cliVars, frame, owed, stamp>>


----------------------------------------------------------------------------
(* CommsTask *)

AfterPkts == IF "ts" \in mask THEN "tsev" ELSE "wait"

GetEvent ==
  /\ isr = "off" /\ pc = "wait" /\ events # {}
  /\ mask' = events
  /\ pc' = IF "pkt" \in events THEN "pktev" ELSE "tsev"
  /\ UNCHANGED <<nifVars, bufState, flagVars, idxVars, dmaVars, isr, txConfWaitQ,
                 timeVars, events, mbuf, from, cliVars, histVars>>

ClearEvent ==
  /\ isr = "off" /\ pc \in {"pktev", "tsev"}
  /\ events' = events \ {IF pc = "pktev" THEN "pkt" ELSE "ts"}
  /\ mask' = mask \ {IF pc = "pktev" THEN "pkt" ELSE "ts"}
  /\ pc' = IF pc = "pktev" THEN "pkts" ELSE "ts"
  /\ UNCHANGED <<nifVars, bufState, flagVars, idxVars, dmaVars, isr, txConfWaitQ,
                 timeVars, mbuf, from, cliVars, histVars>>

\* Mutant: the confirmation of a marked packet is not left to its time stamp.
QuietUnmarked(b) == ~cben[b]
Quiet(b) == ~cben[b] \/ txconf[b]

(* ETHER_CntlrXmtGetPkt: frees the buffers nobody waits for, and those     *)
(* that wait for their time stamp (Quiet); stops at the first one to be confirmed. *)
GetStops ==
  {i \in Between(deallocIdx, dequeueIdx) : ~Quiet(buffIdxQ[i])} \cup {dequeueIdx}

Freed(stop) == {buffIdxQ[i] : i \in Between(deallocIdx, stop)}

GetTxPkt ==
  /\ isr = "off" /\ pc = "pkts"
  /\ \E stop \in Nearest(deallocIdx, GetStops) :
       /\ bufState' = [b \in Bufs |-> IF b \in Freed(stop) THEN "FREE" ELSE bufState[b]]
       /\ cben' = [b \in Bufs |-> cben[b] /\ b \notin Freed(stop)]
       /\ deallocIdx' = stop
       /\ buffIdxQ' = [i \in Descs |-> IF i \in Between(deallocIdx, stop) THEN NoBuf
                                                                        ELSE buffIdxQ[i]]
       /\ IF stop = dequeueIdx
          THEN pc' = AfterPkts /\ UNCHANGED <<mbuf, from>>
          ELSE pc' = "txcb" /\ mbuf' = buffIdxQ[stop] /\ from' = "pkt"
  /\ UNCHANGED <<nifVars, txconf, allocIdx, dequeueIdx, queueIdx, dmaVars,
                 isr, txConfWaitQ, timeVars, events, mask, cliVars, histVars>>

(* ETHER_TxDoneInd, as far as the callbacks of the client: the packet was  *)
(* transmitted and, when the stamp was enabled, ETHER_TimeGetEgressTS.     *)
DoneEntry(b) == First({i \in WaitQ : /\ txConfWaitQ[i].state = "DEQUEUED"
                                    /\ txConfWaitQ[i].bufIdx = b})

TxDoneInd ==
  LET b == mbuf
      isStamped == isTSed[b] /\ DoneEntry(b) # {}
      s == txConfWaitQ[CHOOSE i \in DoneEntry(b) : TRUE].seq
  IN
  /\ isr = "off" /\ pc = "txcb"
  /\ pc' = "txend"
  /\ IF nif[b] # "TX"
     THEN UNCHANGED <<owed, stamp, isTSed, txConfWaitQ>>
     ELSE /\ owed' = [owed EXCEPT ![b] = @ - 1]
          /\ isTSed' = [isTSed EXCEPT ![b] = FALSE]
          /\ stamp' = IF ~isStamped THEN Other
                       ELSE ReadTS(s)
          /\ txConfWaitQ' = [i \in WaitQ |->
                               IF isStamped /\ i \in DoneEntry(b)
                               THEN FreeEntry
                               ELSE txConfWaitQ[i]]
  /\ UNCHANGED <<nif, bufState, flagVars, idxVars, dmaVars, isr, timeVars, events,
                 mask, mbuf, from, cliVars, frame, lost>>

(* The end of ETHER_TxDoneInd. *)
TxDoneEnd ==
  /\ isr = "off" /\ pc = "txend"
  /\ nif' = [nif EXCEPT ![mbuf] = "FREE"]
  /\ pc' = IF from = "pkt" THEN "put" ELSE "ts"
  /\ mbuf' = NoBuf /\ from' = "none"
  /\ stamp' = Other /\ frame' = [frame EXCEPT ![mbuf] = Other]
  /\ UNCHANGED <<isTSed, bufState, flagVars, idxVars, dmaVars, isr, txConfWaitQ,
                 timeVars, events, mask, cliVars, owed, lost>>

\* Mutant: one packet is confirmed each time the event is handled.
AfterPutOne == AfterPkts
AfterPut == "pkts"                     \* the loop of ETHER_ProcessPkts

(* ETHER_PutTxPkt: ETHER_CntlrDeallocTxBuf *)
PutTxPkt ==
  LET b == buffIdxQ[deallocIdx] IN
  /\ isr = "off" /\ pc = "put"
  /\ cben' = [cben EXCEPT ![b] = FALSE]
  /\ bufState' = [bufState EXCEPT ![b] = IF @ = "DEQUEUED" THEN "FREE" ELSE @]
  /\ deallocIdx' = IF bufState[b] = "DEQUEUED" THEN IncMod(deallocIdx, DescCnt)
                                               ELSE deallocIdx
  /\ buffIdxQ' = [buffIdxQ EXCEPT ![deallocIdx] = IF bufState[b] = "DEQUEUED"
                                                  THEN NoBuf ELSE @]
  /\ pc' = IF bufState[b] = "DEQUEUED" THEN AfterPut ELSE AfterPkts
  /\ UNCHANGED <<nifVars, txconf, allocIdx, dequeueIdx, queueIdx, dmaVars, isr,
                 txConfWaitQ, timeVars, events, mask, mbuf, from, cliVars, histVars>>

(* ETHER_TimeProcessTS: the first packet whose stamp has been read. *)
ProcessTS ==
  LET ready == First({i \in WaitQ : /\ txConfWaitQ[i].state = "QUEUED"
                                  /\ txConfWaitQ[i].seq \in Stamps})
  IN
  /\ isr = "off" /\ pc = "ts"
  /\ IF ready = {}
     THEN pc' = "wait" /\ UNCHANGED <<mbuf, txConfWaitQ>>
     ELSE /\ pc' = "tsdone"
          /\ mbuf' = txConfWaitQ[CHOOSE i \in ready : TRUE].bufIdx
          /\ txConfWaitQ' = [i \in WaitQ |->
                               IF i \in ready
                               THEN [txConfWaitQ[i] EXCEPT !.state = "DEQUEUED"]
                               ELSE txConfWaitQ[i]]
  /\ UNCHANGED <<nifVars, bufState, flagVars, idxVars, dmaVars, isr, timeVars, events,
                 mask, from, cliVars, histVars>>

(* ETHER_CntlrIntTxTSDoneInd: a buffer that is FREE already waited for its *)
(* stamp only; of one still in the ring the confirmation is left to        *)
(* ETHER_ProcessPkts.                                                      *)
TxTSDoneInd ==
  /\ isr = "off" /\ pc = "tsdone"
  /\ txconf' = [txconf EXCEPT ![mbuf] = @ /\ bufState[mbuf] = "ALLOC"]
  /\ IF txconf[mbuf] /\ bufState[mbuf] = "FREE"
     THEN pc' = "txcb" /\ from' = "ts" /\ UNCHANGED mbuf
     ELSE pc' = "ts" /\ mbuf' = NoBuf /\ UNCHANGED from
  /\ UNCHANGED <<nifVars, bufState, cben, idxVars, dmaVars, isr, txConfWaitQ, timeVars,
                 events, mask, cliVars, histVars>>

----------------------------------------------------------------------------
Client(c) ==
  \/ GetTxBuffer(c) \/ GotTxBuffer(c) \/ MarkTSPkt(c) \/ EnableEgressTS(c)
  \/ SendRefused(c) \/ SendConfirmed(c) \/ XmtSend(c)
  \/ \E what \in Sends : SendUnconfirmed(c, what)

Comms == \/ GetEvent \/ ClearEvent \/ GetTxPkt \/ TxDoneInd \/ TxDoneEnd
         \/ PutTxPkt \/ ProcessTS \/ TxTSDoneInd

Next == \/ \E c \in Clients : Client(c)
        \/ Transmit \/ IrqAck \/ DequeueXmtCompPkts
        \/ TimestampIRQ
        \/ Comms

Spec == Init /\ [][Next]_vars

Fairness ==
  /\ WF_vars(Transmit) /\ WF_vars(IrqAck \/ DequeueXmtCompPkts)
  /\ SF_vars(TimestampIRQ) /\ SF_vars(Comms)

FairSpec == Spec /\ Fairness

----------------------------------------------------------------------------
TypeOK ==
  /\ nif \in [Bufs -> {"FREE", "ALLOC", "TX"}] /\ isTSed \in [Bufs -> BOOLEAN]
  /\ bufState \in [Bufs -> {"FREE", "ALLOC", "QUEUED", "DEQUEUED"}]
  /\ cben \in [Bufs -> BOOLEAN] /\ txconf \in [Bufs -> BOOLEAN]
  /\ buffIdxQ \in [Descs -> Bufs \cup {NoBuf}]
  /\ allocIdx \in Bufs
  /\ deallocIdx \in Descs /\ dequeueIdx \in Descs /\ queueIdx \in Descs
  /\ lastDesc \in Descs /\ currDesc \in Descs
  /\ irq \in BOOLEAN /\ isr \in {"off", "acked"}
  /\ txConfWaitQ \in [WaitQ -> [state : {"FREE", "ALLOC", "QUEUED", "DEQUEUED"},
                                bufIdx : Bufs \cup {NoBuf}, seq : Seqs \cup {Other}]]
  /\ tsInfo \in [Fifo -> Seqs \cup {Other}] /\ curTSIdx \in Fifo
  /\ airTs \in Seq(Seqs)
  /\ events \subseteq {"pkt", "ts"} /\ mask \subseteq {"pkt", "ts"}
  /\ pc \in {"wait", "pktev", "tsev", "pkts", "txcb", "txend", "put", "ts", "tsdone"}
  /\ mbuf \in Bufs \cup {NoBuf} /\ from \in {"none", "pkt", "ts"}
  /\ cpc \in [Clients -> {"idle", "got", "held", "marked", "xmt"}]
  /\ cbuf \in [Clients -> Bufs \cup {NoBuf}]
  /\ how \in [Clients -> {"none", "free", "plain", "conf"}]
  /\ frame \in [Bufs -> Seqs \cup {Other}] /\ owed \in [Bufs -> Int]
  /\ stamp \in Seqs \cup {Other, Invalid}
  /\ lost \in [Bufs -> {"no", "early", "noslot", "unconfirmed", "overwritten"}]

InRing == Between(deallocIdx, queueIdx)

(* The indices of the buffer manager and of the DMA follow each other      *)
(* around the ring, and what lies between them is what the states say:     *)
(* the queue never overruns, the interrupt never meets a buffer in another *)
(* state, no buffer is twice in the ring.                                  *)
RingConsistent ==
  /\ lastDesc = queueIdx
  /\ dequeueIdx \in InRing \cup {queueIdx}
  /\ currDesc \in Between(dequeueIdx, queueIdx) \cup {queueIdx}
  /\ \A i \in Between(deallocIdx, dequeueIdx) :
       buffIdxQ[i] \in Bufs /\ bufState[buffIdxQ[i]] = "DEQUEUED"
  /\ \A i \in Between(dequeueIdx, queueIdx) :
       buffIdxQ[i] \in Bufs /\ bufState[buffIdxQ[i]] = "QUEUED"
  /\ \A i, j \in InRing : buffIdxQ[i] = buffIdxQ[j] => i = j
  /\ \A b \in Bufs : bufState[b] \in {"QUEUED", "DEQUEUED"}
                       => \E i \in InRing : buffIdxQ[i] = b

(* A buffer is in the hands of one client at a time and, as long as it is, *)
(* the driver does not own it.                                             *)
HeldByOne ==
  \A c \in Clients : cpc[c] # "idle" =>
    /\ bufState[cbuf[c]] = "ALLOC"
    /\ \A d \in Clients : cpc[d] # "idle" /\ cbuf[d] = cbuf[c] => d = c

(* A buffer the driver has allocated is in the hands of a client, or gone  *)
(* for a reason the code reports.                                          *)
NoSilentLeak ==
  \A b \in Bufs : bufState[b] = "ALLOC" =>
    \/ \E c \in Clients : cpc[c] # "idle" /\ cbuf[c] = b
    \/ lost[b] \in {"early", "noslot"}

(* The confirmation of a packet is given once: never before it was sent or *)
(* twice, and none is outstanding when the buffer can be allocated again.  *)
Delivering(b) == pc = "txcb" /\ mbuf = b
ConfirmedOnce ==
  \A b \in Bufs : /\ owed[b] \in {0, 1}
                  /\ b \in Allocatable => owed[b] = 0 \/ Delivering(b)

(* A client that enabled the time stamp of a packet gets, with the         *)
(* confirmation, the stamp of this packet or word that it is gone.         *)
StampIsOfThePacket ==
  pc = "txend" /\ frame[mbuf] # Other => stamp \in {frame[mbuf], Invalid}

(* A packet that was sent is confirmed when its client asked for it, and   *)
(* its buffer can be allocated again; but for the ways of losing it that   *)
(* lost names.  A packet whose stamp is awaited needs CommsTask to come    *)
(* back to its events: while a client sends as fast as ETHER_ProcessPkts   *)
(* confirms, its loop goes on (ethernet.c:907-913), and nobody looks at    *)
(* the event of the stamps.                                                *)
Settled(b) == /\ owed[b] = 0
              /\ b \in Allocatable \/ \E c \in Clients : cbuf[c] = b
Ends(b) == Settled(b) \/ lost[b] # "no"
CommsRests == []<>(pc = "wait")
EverySendSettles ==
  /\ \A b \in Bufs : bufState[b] = "QUEUED" /\ ~txconf[b] ~> Ends(b)
  /\ CommsRests => \A b \in Bufs : bufState[b] = "QUEUED" ~> Ends(b)
=============================================================================
