----------------------------- MODULE EthTxProofs -----------------------------
(***************************************************************************)
(* Theorems about EthTx, for every number of clients, buffers, entries of  *)
(* the wait queue and time stamps.                                         *)
(***************************************************************************)
EXTENDS EthTx, FunctionTheorems, FiniteSetTheorems, SequenceTheorems, TLAPS

\* What the tasks hold, besides what RingConsistent and HeldByOne say.
Holders ==
  /\ \A c \in Clients : cpc[c] # "idle" => cbuf[c] \in Bufs
  /\ pc \in {"txcb", "txend", "tsdone"} => mbuf \in Bufs
  /\ pc = "put" \/ (pc \in {"txcb", "txend"} /\ from = "pkt") => deallocIdx # dequeueIdx
  /\ \A i \in WaitQ : txConfWaitQ[i].state # "FREE" => txConfWaitQ[i].bufIdx \in Bufs

IInv == TypeOK /\ RingConsistent /\ HeldByOne /\ Holders

ringVars == <<bufState, buffIdxQ, deallocIdx, dequeueIdx, queueIdx, lastDesc, currDesc>>

-----------------------------------------------------------------------------
(* The ring of DescCnt places. *)

LEMMA IncModType ==
  ASSUME NEW v \in Descs
  PROVE  IncMod(v, DescCnt) \in Descs
BY ConstantsAssumption DEF IncMod, Descs, DescCnt

LEMMA IncModBufs ==
  ASSUME NEW v \in Bufs
  PROVE  IncMod(v, N) \in Bufs
BY ConstantsAssumption DEF IncMod, Bufs

LEMMA IncModFifo ==
  ASSUME NEW v \in Fifo
  PROVE  IncMod(v, FifoDepth) \in Fifo
BY ConstantsAssumption DEF IncMod, Fifo

\* Nothing lies between a place and itself.
LEMMA BetweenSame ==
  ASSUME NEW a \in Descs
  PROVE  Between(a, a) = {}
BY ConstantsAssumption DEF Between, Ahead, Descs, DescCnt

\* The place next to b comes in when b moves on, unless the ring is full.
LEMMA BetweenExtends ==
  ASSUME NEW a \in Descs, NEW b \in Descs, IncMod(b, DescCnt) # a
  PROVE  /\ Between(a, IncMod(b, DescCnt)) = Between(a, b) \cup {b}
         /\ b \notin Between(a, b)
<1>1. ASSUME NEW i \in Descs
      PROVE  i \in Between(a, IncMod(b, DescCnt)) <=> i \in Between(a, b) \/ i = b
  BY <1>1, ConstantsAssumption DEF Between, Ahead, IncMod, Descs, DescCnt
<1>2. b \notin Between(a, b)
  BY ConstantsAssumption DEF Between, Ahead, Descs, DescCnt
<1> QED
  BY <1>1, <1>2, IncModType DEF Between

\* The place at a goes out when a moves on.
LEMMA BetweenShrinks ==
  ASSUME NEW a \in Descs, NEW b \in Descs, a # b
  PROVE  /\ Between(IncMod(a, DescCnt), b) = Between(a, b) \ {a}
         /\ a \in Between(a, b)
         /\ IncMod(a, DescCnt) \in Between(a, b) \cup {b}
<1>1. ASSUME NEW i \in Descs
      PROVE  i \in Between(IncMod(a, DescCnt), b) <=> i \in Between(a, b) /\ i # a
  BY <1>1, ConstantsAssumption DEF Between, Ahead, IncMod, Descs, DescCnt
<1>2. a \in Between(a, b)
  BY ConstantsAssumption DEF Between, Ahead, Descs, DescCnt
<1>3. IncMod(a, DescCnt) \in Between(a, b) \cup {b}
  BY ConstantsAssumption DEF Between, Ahead, IncMod, Descs, DescCnt
<1> QED
  BY <1>1, <1>2, <1>3 DEF Between

\* A place m between a and b splits what lies between them.
LEMMA BetweenSplits ==
  ASSUME NEW a \in Descs, NEW b \in Descs, NEW m \in Between(a, b) \cup {b}
  PROVE  /\ Between(a, b) = Between(a, m) \cup Between(m, b)
         /\ Between(a, m) \cap Between(m, b) = {}
         /\ m \in Descs
<1>1. m \in Descs
  BY DEF Between
<1>2. ASSUME NEW i \in Descs
      PROVE  i \in Between(a, b) <=> i \in Between(a, m) \/ i \in Between(m, b)
  BY <1>1, <1>2, ConstantsAssumption DEF Between, Ahead, Descs, DescCnt
<1>3. ASSUME NEW i \in Descs
      PROVE  ~(i \in Between(a, m) /\ i \in Between(m, b))
  BY <1>1, <1>3, ConstantsAssumption DEF Between, Ahead, Descs, DescCnt
<1> QED
  BY <1>1, <1>2, <1>3 DEF Between

\* ... and a place of the second part is in order behind those of the first.
LEMMA BetweenTail ==
  ASSUME NEW a \in Descs, NEW b \in Descs, NEW m \in Between(a, b) \cup {b},
         NEW k \in Between(m, b) \cup {b}
  PROVE  /\ k \in Between(a, b) \cup {b}
         /\ m \in Between(a, k) \cup {k}
<1>1. m \in Descs /\ k \in Descs
  BY DEF Between
<1> QED
  BY <1>1, ConstantsAssumption DEF Between, Ahead, Descs, DescCnt

\* A place k of the first part is in order before those of the second.
LEMMA BetweenHead ==
  ASSUME NEW a \in Descs, NEW b \in Descs, NEW m \in Between(a, b) \cup {b},
         NEW k \in Between(a, m) \cup {m}
  PROVE  /\ k \in Between(a, b) \cup {b}
         /\ m \in Between(k, b) \cup {b}
<1>1. m \in Descs /\ k \in Descs
  BY DEF Between
<1> QED
  BY <1>1, ConstantsAssumption DEF Between, Ahead, Descs, DescCnt

\* Where the ring would be full, all places but one lie in it.
LEMMA FullRing ==
  ASSUME NEW a \in Descs, NEW b \in Descs, IncMod(b, DescCnt) = a
  PROVE  Between(a, b) = Descs \ {b}
<1>1. ASSUME NEW i \in Descs
      PROVE  i \in Between(a, b) <=> i # b
  BY <1>1, ConstantsAssumption DEF Between, Ahead, IncMod, Descs, DescCnt
<1> QED
  BY <1>1 DEF Between

\* The queue of the N buffers never fills its N + 1 places while one of the
\* buffers is not in it: no test of the code keeps it from overrunning.
LEMMA RingHasRoom ==
  ASSUME TypeOK, RingConsistent, NEW b \in Bufs, bufState[b] = "ALLOC"
  PROVE  IncMod(queueIdx, DescCnt) # deallocIdx
<1> SUFFICES ASSUME IncMod(queueIdx, DescCnt) = deallocIdx
             PROVE  FALSE
  OBVIOUS
<1> DEFINE others == Bufs \ {b}
           f == [i \in InRing |-> buffIdxQ[i]]
<1>1. InRing = Descs \ {queueIdx} /\ queueIdx \in Descs
  BY FullRing DEF TypeOK, InRing
<1>2. IsFiniteSet(Descs) /\ Cardinality(Descs) = N + 1
  BY ConstantsAssumption, FS_Interval DEF Descs
<1>3. Cardinality(InRing) = N
  <2>1. queueIdx \in Descs
    BY <1>1
  <2>2. Cardinality(Descs \ {queueIdx}) = (N + 1) - 1
    BY ONLY <1>2, <2>1, FS_RemoveElement
  <2>3. (N + 1) - 1 = N
    BY ConstantsAssumption
  <2> QED
    BY <1>1, <2>2, <2>3
<1>4. IsFiniteSet(Bufs) /\ Cardinality(Bufs) = N
  BY ConstantsAssumption, FS_Interval DEF Bufs
<1>5. IsFiniteSet(others) /\ Cardinality(others) = N - 1
  BY <1>4, FS_RemoveElement
<1>6. ASSUME NEW i \in InRing
      PROVE  buffIdxQ[i] \in others
  <2>1. i \in Between(deallocIdx, dequeueIdx) \/ i \in Between(dequeueIdx, queueIdx)
    BY <1>6, BetweenSplits DEF TypeOK, RingConsistent, InRing
  <2> QED
    BY <2>1 DEF RingConsistent
<1>7. f \in Injection(InRing, others)
  BY <1>6 DEF RingConsistent, Injection, IsInjective
<1>8. Cardinality(InRing) <= Cardinality(others)
  BY <1>5, <1>7, FS_Injection
<1> QED
  BY <1>3, <1>5, <1>8, ConstantsAssumption

-----------------------------------------------------------------------------
(* The steps that leave a part of the invariant alone. *)

LEMMA SameRing ==
  ASSUME RingConsistent, UNCHANGED ringVars
  PROVE  RingConsistent'
BY DEF RingConsistent, InRing, Between, Ahead, ringVars

LEMMA SameHolders ==
  ASSUME HeldByOne, UNCHANGED <<cpc, cbuf, bufState>>
  PROVE  HeldByOne'
BY DEF HeldByOne

-----------------------------------------------------------------------------
(* Init *)

LEMMA InitInv == Init => IInv
<1> SUFFICES ASSUME Init PROVE IInv
  OBVIOUS
<1> USE ConstantsAssumption
<1>1. TypeOK
  <2>1. airTs \in Seq(Seqs)
    BY DEF Init
  <2>2. 0 \in Bufs /\ 0 \in Descs /\ 0 \in Fifo
    BY DEF Bufs, Descs, Fifo
  <2>3. txConfWaitQ \in [WaitQ -> [state : {"FREE", "ALLOC", "QUEUED", "DEQUEUED"},
                                  bufIdx : Bufs \cup {NoBuf}, seq : Seqs \cup {Other}]]
    BY DEF Init, FreeEntry
  <2> QED
    BY <2>1, <2>2, <2>3 DEF Init, TypeOK
<1>2. RingConsistent
  <2>1. 0 \in Descs
    BY DEF Descs
  <2>2. Between(0, 0) = {}
    BY <2>1, BetweenSame
  <2> QED
    BY <2>1, <2>2 DEF Init, RingConsistent, InRing
<1>3. HeldByOne
  BY DEF Init, HeldByOne
<1>4. Holders
  BY DEF Init, Holders, FreeEntry
<1> QED
  BY <1>1, <1>2, <1>3, <1>4 DEF IInv

-----------------------------------------------------------------------------
(* The clients *)

LEMMA GetTxBufferInv ==
  ASSUME IInv, NEW c \in Clients, GetTxBuffer(c)
  PROVE  IInv'
<1> USE DEF IInv
<1>1. PICK b \in Bufs : /\ bufState[b] = "FREE"
                        /\ bufState' = [bufState EXCEPT ![b] = "ALLOC"]
                        /\ cbuf' = [cbuf EXCEPT ![c] = b]
  BY DEF GetTxBuffer, Allocatable
<1>2. TypeOK'
  BY <1>1, IncModBufs DEF GetTxBuffer, TypeOK, idxVars, nifVars, flagVars, dmaVars, timeVars,
       commVars, histVars
<1>3. RingConsistent'
  BY <1>1 DEF GetTxBuffer, TypeOK, RingConsistent, InRing, Between, Ahead, dmaVars
<1>4. HeldByOne'
  BY <1>1 DEF GetTxBuffer, TypeOK, HeldByOne
<1>5. Holders'
  BY <1>1 DEF GetTxBuffer, TypeOK, Holders, commVars
<1> QED
  BY <1>2, <1>3, <1>4, <1>5

LEMMA GotTxBufferInv ==
  ASSUME IInv, NEW c \in Clients, GotTxBuffer(c)
  PROVE  IInv'
<1> USE DEF IInv
<1>1. cbuf[c] \in Bufs
  BY DEF GotTxBuffer, Holders
<1>2. TypeOK'
  BY <1>1 DEF GotTxBuffer, TypeOK, idxVars, flagVars, dmaVars, timeVars, commVars, histVars
<1>3. RingConsistent'
  BY SameRing DEF GotTxBuffer, ringVars, idxVars, dmaVars
<1>4. HeldByOne'
  BY DEF GotTxBuffer, TypeOK, HeldByOne
<1>5. Holders'
  BY DEF GotTxBuffer, TypeOK, Holders, commVars, idxVars
<1> QED
  BY <1>2, <1>3, <1>4, <1>5

LEMMA MarkTSPktInv ==
  ASSUME IInv, NEW c \in Clients, MarkTSPkt(c)
  PROVE  IInv'
<1> USE DEF IInv
<1>1. cbuf[c] \in Bufs
  BY DEF MarkTSPkt, Holders
<1>2. TypeOK'
  BY <1>1 DEF MarkTSPkt, TypeOK, idxVars, nifVars, dmaVars, timeVars, commVars, histVars
<1>3. RingConsistent'
  BY SameRing DEF MarkTSPkt, ringVars, idxVars, dmaVars
<1>4. HeldByOne'
  BY DEF MarkTSPkt, TypeOK, HeldByOne
<1>5. Holders'
  BY DEF MarkTSPkt, TypeOK, Holders, commVars, idxVars
<1> QED
  BY <1>2, <1>3, <1>4, <1>5

\* The types of the wait queue, whatever its operations do.
WaitQType ==
  [WaitQ -> [state : {"FREE", "ALLOC", "QUEUED", "DEQUEUED"},
             bufIdx : Bufs \cup {NoBuf}, seq : Seqs \cup {Other}]]

LEMMA WaitQueueOps ==
  ASSUME TypeOK, Holders, NEW b \in Bufs, NEW s \in Seqs \cup {Other}
  PROVE  /\ AddEntry(b) \in WaitQType
         /\ RemoveEntry(b) \in WaitQType
         /\ QueueEntry(b, s) \in WaitQType
         /\ \A i \in WaitQ :
              /\ AddEntry(b)[i].state # "FREE" => AddEntry(b)[i].bufIdx \in Bufs
              /\ RemoveEntry(b)[i].state # "FREE" => RemoveEntry(b)[i].bufIdx \in Bufs
              /\ QueueEntry(b, s)[i].state # "FREE" => QueueEntry(b, s)[i].bufIdx \in Bufs
<1>1. txConfWaitQ \in WaitQType
  BY DEF TypeOK, WaitQType
<1>2. FreeEntry \in [state : {"FREE", "ALLOC", "QUEUED", "DEQUEUED"},
                     bufIdx : Bufs \cup {NoBuf}, seq : Seqs \cup {Other}]
  BY DEF FreeEntry
<1>3. AddEntry(b) \in WaitQType
  BY <1>1 DEF AddEntry, WaitQType
<1>4. RemoveEntry(b) \in WaitQType
  BY <1>1, <1>2 DEF RemoveEntry, WaitQType
<1>5. QueueEntry(b, s) \in WaitQType
  BY <1>1 DEF QueueEntry, WaitQType
<1>6. ASSUME NEW i \in WaitQ
      PROVE  /\ AddEntry(b)[i].state # "FREE" => AddEntry(b)[i].bufIdx \in Bufs
             /\ RemoveEntry(b)[i].state # "FREE" => RemoveEntry(b)[i].bufIdx \in Bufs
             /\ QueueEntry(b, s)[i].state # "FREE" => QueueEntry(b, s)[i].bufIdx \in Bufs
  <2>1. /\ txConfWaitQ[i] \in [state : {"FREE", "ALLOC", "QUEUED", "DEQUEUED"},
                               bufIdx : Bufs \cup {NoBuf}, seq : Seqs \cup {Other}]
        /\ txConfWaitQ[i].state # "FREE" => txConfWaitQ[i].bufIdx \in Bufs
    BY <1>1, <1>6 DEF WaitQType, Holders
  <2>2. AddEntry(b)[i].state # "FREE" => AddEntry(b)[i].bufIdx \in Bufs
    BY <1>6, <2>1 DEF AddEntry
  <2>3. RemoveEntry(b)[i].state # "FREE" => RemoveEntry(b)[i].bufIdx \in Bufs
    BY <1>6, <2>1 DEF RemoveEntry, FreeEntry
  <2>4. QueueEntry(b, s)[i].state # "FREE" => QueueEntry(b, s)[i].bufIdx \in Bufs
    BY <1>6, <2>1 DEF QueueEntry, AllocEntry, First
  <2> QED
    BY <2>2, <2>3, <2>4
<1> QED
  BY <1>3, <1>4, <1>5, <1>6

LEMMA EnableEgressTSInv ==
  ASSUME IInv, NEW c \in Clients, EnableEgressTS(c)
  PROVE  IInv'
<1> USE DEF IInv
<1>1. cbuf[c] \in Bufs
  BY DEF EnableEgressTS, Holders
<1>2. /\ txConfWaitQ' \in WaitQType
      /\ \A i \in WaitQ : txConfWaitQ'[i].state # "FREE" => txConfWaitQ'[i].bufIdx \in Bufs
  BY <1>1, WaitQueueOps DEF EnableEgressTS
<1>3. TypeOK'
  BY <1>1, <1>2 DEF EnableEgressTS, TypeOK, WaitQType, idxVars, flagVars, dmaVars, timeVars,
       commVars, histVars
<1>4. RingConsistent'
  BY SameRing DEF EnableEgressTS, ringVars, idxVars, dmaVars
<1>5. HeldByOne'
  BY DEF EnableEgressTS, TypeOK, HeldByOne
<1>6. Holders'
  BY <1>2 DEF EnableEgressTS, TypeOK, Holders, commVars, idxVars
<1> QED
  BY <1>3, <1>4, <1>5, <1>6

LEMMA SendRefusedInv ==
  ASSUME IInv, NEW c \in Clients, SendRefused(c)
  PROVE  IInv'
<1> USE DEF IInv
<1>1. TypeOK'
  BY DEF SendRefused, TypeOK, nifVars, idxVars, flagVars, dmaVars, timeVars, commVars
<1>2. RingConsistent'
  BY SameRing DEF SendRefused, ringVars, idxVars, dmaVars
<1>3. HeldByOne'
  BY DEF SendRefused, TypeOK, HeldByOne
<1>4. Holders'
  BY DEF SendRefused, TypeOK, Holders, commVars, idxVars
<1> QED
  BY <1>1, <1>2, <1>3, <1>4

LEMMA SendConfirmedInv ==
  ASSUME IInv, NEW c \in Clients, SendConfirmed(c)
  PROVE  IInv'
<1> USE DEF IInv
<1>1. cbuf[c] \in Bufs
  BY DEF SendConfirmed, Holders
<1>2. PICK s \in Seqs \cup {Other} :
        /\ frame' = [frame EXCEPT ![cbuf[c]] = s]
        /\ txConfWaitQ' = IF txconf[cbuf[c]] THEN QueueEntry(cbuf[c], s) ELSE txConfWaitQ
  BY DEF SendConfirmed
<1>3. /\ txConfWaitQ' \in WaitQType
      /\ \A i \in WaitQ : txConfWaitQ'[i].state # "FREE" => txConfWaitQ'[i].bufIdx \in Bufs
  BY <1>1, <1>2, WaitQueueOps DEF TypeOK, WaitQType, Holders
<1>4. \/ cpc' = [cpc EXCEPT ![c] = "idle"] /\ cbuf' = [cbuf EXCEPT ![c] = NoBuf] /\ how' = how
      \/ cpc' = [cpc EXCEPT ![c] = "xmt"] /\ cbuf' = cbuf /\ how' = [how EXCEPT ![c] = "conf"]
  BY DEF SendConfirmed
<1>5. lost' \in [Bufs -> {"no", "early", "noslot", "unconfirmed", "overwritten"}]
  BY <1>1 DEF SendConfirmed, TypeOK
<1>6. TypeOK'
  <2>1. frame' \in [Bufs -> Seqs \cup {Other}]
    BY <1>1, <1>2 DEF TypeOK
  <2>2. /\ cpc' \in [Clients -> {"idle", "got", "held", "marked", "xmt"}]
        /\ cbuf' \in [Clients -> Bufs \cup {NoBuf}]
        /\ how' \in [Clients -> {"none", "free", "plain", "conf"}]
    BY <1>4 DEF TypeOK
  <2>3. nif' \in [Bufs -> {"FREE", "ALLOC", "TX"}]
    BY <1>1 DEF SendConfirmed, TypeOK
  <2> QED
    BY <1>3, <1>5, <2>1, <2>2, <2>3
    DEF SendConfirmed, TypeOK, WaitQType, idxVars, flagVars, dmaVars, timeVars, commVars
<1>7. RingConsistent'
  BY SameRing DEF SendConfirmed, ringVars, idxVars, dmaVars
<1>8. HeldByOne'
  BY <1>4 DEF SendConfirmed, TypeOK, HeldByOne
<1>9. Holders'
  BY <1>3, <1>4 DEF SendConfirmed, TypeOK, Holders, commVars, idxVars
<1> QED
  BY <1>6, <1>7, <1>8, <1>9

LEMMA SendUnconfirmedInv ==
  ASSUME IInv, NEW c \in Clients, NEW what \in {"plain", "free"}, SendUnconfirmed(c, what)
  PROVE  IInv'
<1> USE DEF IInv
<1>1. cbuf[c] \in Bufs
  BY DEF SendUnconfirmed, Holders
<1>2. /\ txConfWaitQ' \in WaitQType
      /\ \A i \in WaitQ : txConfWaitQ'[i].state # "FREE" => txConfWaitQ'[i].bufIdx \in Bufs
  <2>1. Other \in Seqs \cup {Other}
    OBVIOUS
  <2> QED
    BY <1>1, <2>1, WaitQueueOps DEF SendUnconfirmed, TypeOK, WaitQType, Holders
<1>3. frame' \in [Bufs -> Seqs \cup {Other}]
  BY <1>1 DEF SendUnconfirmed, TypeOK
<1>4. TypeOK'
  BY <1>1, <1>2, <1>3 DEF SendUnconfirmed, TypeOK, WaitQType, idxVars, flagVars, dmaVars,
       timeVars, commVars
<1>5. RingConsistent'
  BY SameRing DEF SendUnconfirmed, ringVars, idxVars, dmaVars
<1>6. HeldByOne'
  BY DEF SendUnconfirmed, TypeOK, HeldByOne
<1>7. Holders'
  BY <1>2 DEF SendUnconfirmed, TypeOK, Holders, commVars, idxVars
<1> QED
  BY <1>4, <1>5, <1>6, <1>7

\* Queueing a packet: the ring gets the buffer as its last.
LEMMA RingExtends ==
  ASSUME TypeOK, RingConsistent, NEW b \in Bufs, bufState[b] = "ALLOC",
         bufState' = [bufState EXCEPT ![b] = "QUEUED"],
         buffIdxQ' = [buffIdxQ EXCEPT ![queueIdx] = b],
         queueIdx' = IncMod(queueIdx, DescCnt), lastDesc' = IncMod(lastDesc, DescCnt),
         UNCHANGED <<deallocIdx, dequeueIdx, currDesc>>
  PROVE  RingConsistent'
<1> DEFINE q == IncMod(queueIdx, DescCnt)
<1>1. /\ deallocIdx \in Descs /\ dequeueIdx \in Descs /\ queueIdx \in Descs
      /\ currDesc \in Descs /\ q \in Descs
  BY IncModType DEF TypeOK
<1>2. q # deallocIdx
  BY RingHasRoom
<1>3. /\ Between(deallocIdx, q) = InRing \cup {queueIdx}
      /\ queueIdx \notin InRing
  BY <1>1, <1>2, BetweenExtends DEF InRing
<1>4. q # dequeueIdx
  BY <1>1, <1>2, <1>3, BetweenSplits, ConstantsAssumption
  DEF RingConsistent, InRing, Between, Ahead, IncMod, Descs, DescCnt
<1>5. /\ Between(dequeueIdx, q) = Between(dequeueIdx, queueIdx) \cup {queueIdx}
      /\ queueIdx \notin Between(dequeueIdx, queueIdx)
  BY <1>1, <1>4, BetweenExtends
<1>6. InRing = Between(deallocIdx, dequeueIdx) \cup Between(dequeueIdx, queueIdx)
  BY <1>1, BetweenSplits DEF RingConsistent, InRing
<1>7. InRing' = InRing \cup {queueIdx}
  BY <1>3 DEF InRing, Between, Ahead
<1>8. /\ Between(deallocIdx, dequeueIdx)' = Between(deallocIdx, dequeueIdx)
      /\ Between(dequeueIdx, queueIdx)' = Between(dequeueIdx, queueIdx) \cup {queueIdx}
  BY <1>5 DEF Between, Ahead
<1>9. \A i \in InRing : buffIdxQ[i] \in Bufs /\ buffIdxQ[i] # b
  BY <1>6 DEF RingConsistent
<1>10. \A i \in InRing : buffIdxQ'[i] = buffIdxQ[i] /\ i \in Descs
  BY <1>3 DEF TypeOK, InRing, Between
<1>11. buffIdxQ'[queueIdx] = b
  BY <1>1 DEF TypeOK
<1>12. \A d \in Bufs : d # b => bufState'[d] = bufState[d]
  BY DEF TypeOK
<1>13. bufState'[b] = "QUEUED"
  BY DEF TypeOK
<1>14. (lastDesc = queueIdx)'
  BY DEF RingConsistent
<1>15. (dequeueIdx \in InRing \cup {queueIdx})'
  BY <1>7 DEF RingConsistent
<1>16. (currDesc \in Between(dequeueIdx, queueIdx) \cup {queueIdx})'
  BY <1>8 DEF RingConsistent
<1>17. (\A i \in Between(deallocIdx, dequeueIdx) :
         buffIdxQ[i] \in Bufs /\ bufState[buffIdxQ[i]] = "DEQUEUED")'
  BY <1>6, <1>8, <1>9, <1>10, <1>12 DEF RingConsistent
<1>18. (\A i \in Between(dequeueIdx, queueIdx) :
         buffIdxQ[i] \in Bufs /\ bufState[buffIdxQ[i]] = "QUEUED")'
  BY <1>6, <1>8, <1>9, <1>10, <1>11, <1>12, <1>13 DEF RingConsistent
<1>19. (\A i, j \in InRing : buffIdxQ[i] = buffIdxQ[j] => i = j)'
  BY <1>7, <1>9, <1>10, <1>11 DEF RingConsistent
<1>20. (\A d \in Bufs : bufState[d] \in {"QUEUED", "DEQUEUED"}
                         => \E i \in InRing : buffIdxQ[i] = d)'
  BY <1>7, <1>10, <1>11, <1>12 DEF RingConsistent
<1> QED
  BY <1>14, <1>15, <1>16, <1>17, <1>18, <1>19, <1>20 DEF RingConsistent

\* Freeing a buffer the driver has allocated leaves the ring alone.
LEMMA RingFrees ==
  ASSUME TypeOK, RingConsistent, NEW b \in Bufs, bufState[b] = "ALLOC",
         bufState' = [bufState EXCEPT ![b] = "FREE"],
         UNCHANGED <<buffIdxQ, deallocIdx, dequeueIdx, queueIdx, lastDesc, currDesc>>
  PROVE  RingConsistent'
BY DEF TypeOK, RingConsistent, InRing, Between, Ahead

LEMMA XmtSendInv ==
  ASSUME IInv, NEW c \in Clients, XmtSend(c)
  PROVE  IInv'
<1> USE DEF IInv
<1> DEFINE b == cbuf[c]
<1>1. /\ b \in Bufs /\ bufState[b] = "ALLOC" /\ cpc[c] = "xmt"
      /\ cpc' = [cpc EXCEPT ![c] = "idle"] /\ cbuf' = [cbuf EXCEPT ![c] = NoBuf]
      /\ how' = [how EXCEPT ![c] = "none"]
  BY DEF XmtSend, Holders, HeldByOne
<1>2. /\ UNCHANGED <<nifVars, allocIdx, deallocIdx, dequeueIdx, currDesc, irq, isr,
                     timeVars, events, commVars, frame, stamp>>
  BY DEF XmtSend
<1>3. \A d \in Clients : d # c => cpc'[d] = cpc[d] /\ cbuf'[d] = cbuf[d]
  BY <1>1 DEF TypeOK
<1>4. cpc'[c] = "idle"
  BY <1>1 DEF TypeOK
<1>5. \A d \in Clients : d # c /\ cpc[d] # "idle" => cbuf[d] # b
  BY <1>1 DEF HeldByOne
<1>6. /\ cpc' \in [Clients -> {"idle", "got", "held", "marked", "xmt"}]
      /\ cbuf' \in [Clients -> Bufs \cup {NoBuf}]
      /\ how' \in [Clients -> {"none", "free", "plain", "conf"}]
  BY <1>1 DEF TypeOK
<1>7. ASSUME bufState' \in [Bufs -> {"FREE", "ALLOC", "QUEUED", "DEQUEUED"}],
             \A x \in Bufs : x # b => bufState'[x] = bufState[x]
      PROVE  HeldByOne'
  <2> SUFFICES ASSUME NEW e \in Clients, cpc'[e] # "idle"
               PROVE  /\ bufState'[cbuf'[e]] = "ALLOC"
                      /\ \A d \in Clients : cpc'[d] # "idle" /\ cbuf'[d] = cbuf'[e] => d = e
    BY DEF HeldByOne
  <2>1. e # c /\ cpc[e] # "idle" /\ cbuf'[e] = cbuf[e] /\ cbuf[e] \in Bufs /\ cbuf[e] # b
    BY <1>3, <1>4, <1>5 DEF Holders
  <2>2. bufState[cbuf[e]] = "ALLOC"
    BY <2>1 DEF HeldByOne
  <2>3. bufState'[cbuf'[e]] = "ALLOC"
    BY <1>7, <2>1, <2>2
  <2>4. ASSUME NEW d \in Clients, cpc'[d] # "idle", cbuf'[d] = cbuf'[e]
        PROVE  d = e
    <3>1. d # c /\ cpc[d] # "idle" /\ cbuf[d] = cbuf[e]
      BY <1>3, <1>4, <2>1, <2>4
    <3> QED
      BY <2>1, <3>1 DEF HeldByOne
  <2> QED
    BY <2>3, <2>4
<1>8. CASE how[c] = "free"
  <2>1. /\ bufState' = [bufState EXCEPT ![b] = "FREE"]
        /\ cben' = [cben EXCEPT ![b] = FALSE] /\ txconf' = [txconf EXCEPT ![b] = FALSE]
        /\ UNCHANGED <<buffIdxQ, queueIdx, lastDesc, txConfWaitQ, owed, lost>>
    BY <1>1, <1>8 DEF XmtSend, FreedState, TypeOK
  <2>2. TypeOK'
    BY <1>1, <1>2, <1>6, <2>1 DEF TypeOK, nifVars, timeVars, commVars
  <2>3. RingConsistent'
    BY <1>1, <1>2, <2>1, RingFrees
  <2>4. HeldByOne'
    <3>1. \A x \in Bufs : x # b => bufState'[x] = bufState[x]
      BY <2>1 DEF TypeOK
    <3>2. bufState' \in [Bufs -> {"FREE", "ALLOC", "QUEUED", "DEQUEUED"}]
      BY <2>2 DEF TypeOK
    <3> QED
      BY <1>7, <3>1, <3>2
  <2>5. Holders'
    BY <1>2, <1>3, <1>4, <2>1 DEF Holders, commVars
  <2> QED
    BY <2>2, <2>3, <2>4, <2>5
<1>9. CASE how[c] # "free" /\ IncMod(lastDesc, DescCnt) # currDesc
  <2>1. /\ bufState' = [bufState EXCEPT ![b] = "QUEUED"]
        /\ cben' = [cben EXCEPT ![b] = how[c] = "conf"]
        /\ buffIdxQ' = [buffIdxQ EXCEPT ![queueIdx] = b]
        /\ queueIdx' = IncMod(queueIdx, DescCnt)
        /\ lastDesc' = IncMod(lastDesc, DescCnt)
        /\ owed' = [owed EXCEPT ![b] = IF how[c] = "conf" THEN @ + 1 ELSE @]
        /\ lost' = [lost EXCEPT ![b] =
                      IF how[c] = "plain" /\ txconf[b] THEN "unconfirmed" ELSE @]
        /\ UNCHANGED <<txconf, txConfWaitQ>>
    BY <1>1, <1>9 DEF XmtSend
  <2>2. TypeOK'
    <3>1. queueIdx' \in Descs /\ lastDesc' \in Descs
      BY <2>1, IncModType DEF TypeOK
    <3>2. owed' \in [Bufs -> Int]
      BY <1>1, <2>1 DEF TypeOK
    <3>3. lost' \in [Bufs -> {"no", "early", "noslot", "unconfirmed", "overwritten"}]
      BY <1>1, <2>1 DEF TypeOK
    <3>4. cben' \in [Bufs -> BOOLEAN]
      BY <1>1, <2>1 DEF TypeOK
    <3>5. bufState' \in [Bufs -> {"FREE", "ALLOC", "QUEUED", "DEQUEUED"}]
      BY <1>1, <2>1 DEF TypeOK
    <3>6. buffIdxQ' \in [Descs -> Bufs \cup {NoBuf}]
      BY <1>1, <2>1 DEF TypeOK
    <3> QED
      BY <1>2, <1>6, <2>1, <3>1, <3>2, <3>3, <3>4, <3>5, <3>6
      DEF TypeOK, nifVars, timeVars, commVars
  <2>3. RingConsistent'
    BY <1>1, <1>2, <2>1, RingExtends
  <2>4. HeldByOne'
    <3>1. \A x \in Bufs : x # b => bufState'[x] = bufState[x]
      BY <2>1 DEF TypeOK
    <3>2. bufState' \in [Bufs -> {"FREE", "ALLOC", "QUEUED", "DEQUEUED"}]
      BY <2>2 DEF TypeOK
    <3> QED
      BY <1>7, <3>1, <3>2
  <2>5. Holders'
    BY <1>2, <1>3, <1>4, <2>1 DEF Holders, commVars
  <2> QED
    BY <2>2, <2>3, <2>4, <2>5
<1>10. CASE how[c] # "free" /\ IncMod(lastDesc, DescCnt) = currDesc
  <2>1. /\ txConfWaitQ' = IF how[c] = "conf" THEN RemoveEntry(b) ELSE txConfWaitQ
        /\ UNCHANGED <<bufState, flagVars, buffIdxQ, queueIdx, lastDesc, owed, lost>>
    BY <1>1, <1>10 DEF XmtSend
  <2>2. /\ txConfWaitQ' \in WaitQType
        /\ \A i \in WaitQ : txConfWaitQ'[i].state # "FREE" => txConfWaitQ'[i].bufIdx \in Bufs
    <3>1. Other \in Seqs \cup {Other}
      OBVIOUS
    <3> QED
      BY <1>1, <2>1, <3>1, WaitQueueOps DEF TypeOK, WaitQType, Holders
  <2>3. TypeOK'
    BY <1>2, <1>6, <2>1, <2>2 DEF TypeOK, WaitQType, nifVars, flagVars, timeVars, commVars
  <2>4. RingConsistent'
    BY <1>2, <2>1, SameRing DEF ringVars
  <2>5. HeldByOne'
    BY <1>3, <1>4, <2>1 DEF HeldByOne
  <2>6. Holders'
    BY <1>2, <1>3, <1>4, <2>2 DEF Holders, commVars
  <2> QED
    BY <2>3, <2>4, <2>5, <2>6
<1> QED
  BY <1>8, <1>9, <1>10

-----------------------------------------------------------------------------
(* The hardware and the two interrupts *)

LEMMA TransmitInv ==
  ASSUME IInv, Transmit
  PROVE  IInv'
<1> USE DEF IInv
<1>1. /\ dequeueIdx \in Descs /\ queueIdx \in Descs /\ currDesc \in Descs
      /\ currDesc # queueIdx /\ currDesc \in Between(dequeueIdx, queueIdx)
  BY DEF Transmit, TypeOK, RingConsistent
<1>2. /\ currDesc' = IncMod(currDesc, DescCnt)
      /\ currDesc' \in Between(currDesc, queueIdx) \cup {queueIdx}
  BY <1>1, BetweenShrinks DEF Transmit
<1>3. currDesc' \in Between(dequeueIdx, queueIdx) \cup {queueIdx}
  BY <1>1, <1>2, BetweenTail
<1>4. frame[buffIdxQ[currDesc]] \in Seqs \cup {Other}
  BY <1>1 DEF TypeOK, RingConsistent
<1>5. airTs' \in Seq(Seqs)
  BY <1>4 DEF Transmit, TypeOK
<1>6. currDesc' \in Descs
  BY <1>1, <1>2, IncModType
<1>7. TypeOK'
  BY <1>5, <1>6 DEF Transmit, TypeOK, nifVars, flagVars, idxVars, commVars, cliVars, histVars
<1>8. RingConsistent'
  BY <1>3 DEF Transmit, RingConsistent, InRing, Between, Ahead, idxVars
<1>9. HeldByOne'
  BY SameHolders DEF Transmit, cliVars
<1>10. Holders'
  BY DEF Transmit, Holders, cliVars, commVars, idxVars
<1> QED
  BY <1>7, <1>8, <1>9, <1>10

LEMMA IrqAckInv ==
  ASSUME IInv, IrqAck
  PROVE  IInv'
<1> USE DEF IInv
<1>1. TypeOK'
  BY DEF IrqAck, TypeOK, nifVars, flagVars, idxVars, timeVars, commVars, cliVars, histVars
<1>2. RingConsistent'
  BY SameRing DEF IrqAck, ringVars, idxVars
<1>3. HeldByOne'
  BY SameHolders DEF IrqAck, cliVars
<1>4. Holders'
  BY DEF IrqAck, Holders, cliVars, commVars, idxVars
<1> QED
  BY <1>1, <1>2, <1>3, <1>4

LEMMA DequeueXmtCompPktsInv ==
  ASSUME IInv, DequeueXmtCompPkts
  PROVE  IInv'
<1> USE DEF IInv
<1>1. PICK stop \in Between(dequeueIdx, currDesc) \cup {currDesc} :
        /\ bufState' = [b \in Bufs |->
                          IF \E i \in Between(dequeueIdx, stop) : buffIdxQ[i] = b
                          THEN "DEQUEUED" ELSE bufState[b]]
        /\ dequeueIdx' = stop
  BY DEF DequeueXmtCompPkts, Nearest, DequeueStops, Completed
<1>2. UNCHANGED <<buffIdxQ, deallocIdx, queueIdx, lastDesc, currDesc>>
  BY DEF DequeueXmtCompPkts, dmaVars
<1>3. /\ deallocIdx \in Descs /\ dequeueIdx \in Descs /\ queueIdx \in Descs
      /\ currDesc \in Descs
      /\ dequeueIdx \in Between(deallocIdx, queueIdx) \cup {queueIdx}
      /\ currDesc \in Between(dequeueIdx, queueIdx) \cup {queueIdx}
  BY DEF TypeOK, RingConsistent, InRing
<1>4. /\ stop \in Between(dequeueIdx, queueIdx) \cup {queueIdx}
      /\ currDesc \in Between(stop, queueIdx) \cup {queueIdx}
  BY <1>3, BetweenHead
<1>5. /\ stop \in InRing \cup {queueIdx}
      /\ dequeueIdx \in Between(deallocIdx, stop) \cup {stop}
  BY <1>3, <1>4, BetweenTail DEF InRing
<1>6. stop \in Descs
  BY <1>3, <1>4, BetweenSplits
<1>7. /\ Between(dequeueIdx, queueIdx)
           = Between(dequeueIdx, stop) \cup Between(stop, queueIdx)
      /\ Between(dequeueIdx, stop) \cap Between(stop, queueIdx) = {}
  BY <1>3, <1>4, BetweenSplits
<1>8. Between(deallocIdx, stop)
        = Between(deallocIdx, dequeueIdx) \cup Between(dequeueIdx, stop)
  BY <1>3, <1>5, <1>6, BetweenSplits
<1>9. InRing = Between(deallocIdx, dequeueIdx) \cup Between(dequeueIdx, queueIdx)
  BY <1>3, BetweenSplits DEF InRing
<1>10. /\ InRing' = InRing
       /\ Between(deallocIdx, dequeueIdx)' = Between(deallocIdx, stop)
       /\ Between(dequeueIdx, queueIdx)' = Between(stop, queueIdx)
  BY <1>1, <1>2 DEF InRing, Between, Ahead
<1>11. TypeOK'
  BY <1>1, <1>6 DEF DequeueXmtCompPkts, TypeOK, nifVars, flagVars, dmaVars, timeVars,
       commVars, cliVars, histVars
<1>12. RingConsistent'
  <2>1. (lastDesc = queueIdx)' /\ (dequeueIdx \in InRing \cup {queueIdx})'
        /\ (currDesc \in Between(dequeueIdx, queueIdx) \cup {queueIdx})'
    BY <1>1, <1>2, <1>4, <1>5, <1>10 DEF RingConsistent
  <2>2. (\A i \in Between(deallocIdx, dequeueIdx) :
           buffIdxQ[i] \in Bufs /\ bufState[buffIdxQ[i]] = "DEQUEUED")'
    <3> SUFFICES ASSUME NEW i \in Between(deallocIdx, stop)
                 PROVE  buffIdxQ[i] \in Bufs /\ bufState'[buffIdxQ[i]] = "DEQUEUED"
      BY <1>2, <1>10
    <3>1. buffIdxQ[i] \in Bufs
      BY <1>7, <1>8 DEF RingConsistent
    <3>2. CASE i \in Between(dequeueIdx, stop)
      BY <1>1, <3>1, <3>2
    <3>3. CASE i \in Between(deallocIdx, dequeueIdx)
      BY <1>1, <3>1, <3>3 DEF RingConsistent
    <3> QED
      BY <1>8, <3>2, <3>3
  <2>3. (\A i \in Between(dequeueIdx, queueIdx) :
           buffIdxQ[i] \in Bufs /\ bufState[buffIdxQ[i]] = "QUEUED")'
    <3> SUFFICES ASSUME NEW i \in Between(stop, queueIdx)
                 PROVE  buffIdxQ[i] \in Bufs /\ bufState'[buffIdxQ[i]] = "QUEUED"
      BY <1>2, <1>10
    <3>1. buffIdxQ[i] \in Bufs /\ bufState[buffIdxQ[i]] = "QUEUED"
      BY <1>7 DEF RingConsistent
    <3>2. \A j \in Between(dequeueIdx, stop) : j \in InRing /\ i \in InRing /\ j # i
      BY <1>7, <1>9
    <3>3. \A j \in Between(dequeueIdx, stop) : buffIdxQ[j] # buffIdxQ[i]
      BY <3>2 DEF RingConsistent
    <3> QED
      BY <1>1, <3>1, <3>3
  <2>4. (\A i, j \in InRing : buffIdxQ[i] = buffIdxQ[j] => i = j)'
    BY <1>2, <1>10 DEF RingConsistent
  <2>5. (\A b \in Bufs : bufState[b] \in {"QUEUED", "DEQUEUED"}
                            => \E i \in InRing : buffIdxQ[i] = b)'
    <3>1. Between(dequeueIdx, stop) \subseteq InRing
      BY <1>7, <1>9
    <3> QED
      BY <1>1, <1>2, <1>10, <3>1 DEF RingConsistent
  <2> QED
    BY <2>1, <2>2, <2>3, <2>4, <2>5 DEF RingConsistent
<1>13. HeldByOne'
  <2>1. UNCHANGED <<cpc, cbuf>>
    BY DEF DequeueXmtCompPkts, cliVars
  <2>2. ASSUME NEW c \in Clients, cpc[c] # "idle"
        PROVE  bufState'[cbuf[c]] = "ALLOC"
    <3>1. cbuf[c] \in Bufs /\ bufState[cbuf[c]] = "ALLOC"
      BY <2>2 DEF Holders, HeldByOne
    <3>2. \A i \in Between(dequeueIdx, stop) : buffIdxQ[i] # cbuf[c]
      BY <1>7, <3>1 DEF RingConsistent
    <3> QED
      BY <1>1, <3>1, <3>2
  <2> QED
    BY <2>1, <2>2 DEF HeldByOne
<1>14. Holders'
  <2>1. deallocIdx # dequeueIdx => deallocIdx # stop
    BY <1>3, <1>5, BetweenSame
  <2> QED
    BY <1>1, <1>2, <2>1 DEF DequeueXmtCompPkts, Holders, cliVars, commVars
<1> QED
  BY <1>11, <1>12, <1>13, <1>14

LEMMA TimestampIRQInv ==
  ASSUME IInv, TimestampIRQ
  PROVE  IInv'
<1> USE DEF IInv
<1>1. Head(airTs) \in Seqs /\ Tail(airTs) \in Seq(Seqs)
  BY DEF TimestampIRQ, TypeOK
<1>2. curTSIdx' \in Fifo
  BY IncModFifo DEF TimestampIRQ, TypeOK
<1>3. tsInfo' \in [Fifo -> Seqs \cup {Other}]
  BY <1>1 DEF TimestampIRQ, TypeOK
<1>4. lost' \in [Bufs -> {"no", "early", "noslot", "unconfirmed", "overwritten"}]
  BY DEF TimestampIRQ, TypeOK
<1>5. TypeOK'
  BY <1>1, <1>2, <1>3, <1>4 DEF TimestampIRQ, TypeOK, nifVars, flagVars, idxVars, dmaVars,
       commVars, cliVars
<1>6. RingConsistent'
  BY SameRing DEF TimestampIRQ, ringVars, idxVars, dmaVars
<1>7. HeldByOne'
  BY SameHolders DEF TimestampIRQ, cliVars
<1>8. Holders'
  BY DEF TimestampIRQ, Holders, cliVars, commVars, idxVars
<1> QED
  BY <1>5, <1>6, <1>7, <1>8

-----------------------------------------------------------------------------
(* CommsTask *)

LEMMA GetEventInv ==
  ASSUME IInv, GetEvent
  PROVE  IInv'
<1> USE DEF IInv
<1>1. TypeOK'
  BY DEF GetEvent, TypeOK, nifVars, flagVars, idxVars, dmaVars, timeVars, cliVars, histVars
<1>2. RingConsistent'
  BY SameRing DEF GetEvent, ringVars, idxVars, dmaVars
<1>3. HeldByOne'
  BY SameHolders DEF GetEvent, cliVars
<1>4. Holders'
  BY DEF GetEvent, Holders, cliVars, idxVars
<1> QED
  BY <1>1, <1>2, <1>3, <1>4

LEMMA ClearEventInv ==
  ASSUME IInv, ClearEvent
  PROVE  IInv'
<1> USE DEF IInv
<1>1. TypeOK'
  BY DEF ClearEvent, TypeOK, nifVars, flagVars, idxVars, dmaVars, timeVars, cliVars, histVars
<1>2. RingConsistent'
  BY SameRing DEF ClearEvent, ringVars, idxVars, dmaVars
<1>3. HeldByOne'
  BY SameHolders DEF ClearEvent, cliVars
<1>4. Holders'
  BY DEF ClearEvent, Holders, cliVars, idxVars
<1> QED
  BY <1>1, <1>2, <1>3, <1>4

\* Freeing the first places of the ring, up to one not behind dequeueIdx.
LEMMA RingShrinks ==
  ASSUME TypeOK, RingConsistent,
         NEW stop \in Between(deallocIdx, dequeueIdx) \cup {dequeueIdx},
         deallocIdx' = stop,
         bufState' = [b \in Bufs |-> IF b \in Freed(stop) THEN "FREE" ELSE bufState[b]],
         buffIdxQ' = [i \in Descs |-> IF i \in Between(deallocIdx, stop) THEN NoBuf
                                                                        ELSE buffIdxQ[i]],
         UNCHANGED <<dequeueIdx, queueIdx, lastDesc, currDesc>>
  PROVE  RingConsistent' /\ stop \in Descs
<1>1. /\ deallocIdx \in Descs /\ dequeueIdx \in Descs /\ queueIdx \in Descs
      /\ dequeueIdx \in Between(deallocIdx, queueIdx) \cup {queueIdx}
  BY DEF TypeOK, RingConsistent, InRing
<1>2. /\ stop \in Between(deallocIdx, queueIdx) \cup {queueIdx}
      /\ dequeueIdx \in Between(stop, queueIdx) \cup {queueIdx}
  BY <1>1, BetweenHead
<1>3. /\ InRing = Between(deallocIdx, stop) \cup Between(stop, queueIdx)
      /\ Between(deallocIdx, stop) \cap Between(stop, queueIdx) = {}
      /\ stop \in Descs
  BY <1>1, <1>2, BetweenSplits DEF InRing
<1>4. Between(deallocIdx, dequeueIdx)
        = Between(deallocIdx, stop) \cup Between(stop, dequeueIdx)
  BY <1>1, BetweenSplits
<1>5. Between(stop, queueIdx)
        = Between(stop, dequeueIdx) \cup Between(dequeueIdx, queueIdx)
  BY <1>1, <1>2, <1>3, BetweenSplits
<1>6. /\ InRing' = Between(stop, queueIdx)
      /\ Between(deallocIdx, dequeueIdx)' = Between(stop, dequeueIdx)
      /\ Between(dequeueIdx, queueIdx)' = Between(dequeueIdx, queueIdx)
  BY DEF InRing, Between, Ahead
<1>7. ASSUME NEW i \in Between(stop, queueIdx)
      PROVE  /\ buffIdxQ'[i] = buffIdxQ[i] /\ i \in InRing
             /\ buffIdxQ[i] \in Bufs => bufState'[buffIdxQ[i]] = bufState[buffIdxQ[i]]
  <2>1. i \in Descs /\ i \in InRing /\ i \notin Between(deallocIdx, stop)
    BY <1>3, <1>7 DEF Between
  <2>2. \A j \in Between(deallocIdx, stop) : buffIdxQ[j] # buffIdxQ[i]
    BY <1>3, <2>1 DEF RingConsistent
  <2> QED
    BY <2>1, <2>2 DEF Freed
<1>8. (lastDesc = queueIdx)' /\ (dequeueIdx \in InRing \cup {queueIdx})'
      /\ (currDesc \in Between(dequeueIdx, queueIdx) \cup {queueIdx})'
  BY <1>2, <1>6 DEF RingConsistent
<1>9. (\A i \in Between(deallocIdx, dequeueIdx) :
         buffIdxQ[i] \in Bufs /\ bufState[buffIdxQ[i]] = "DEQUEUED")'
  BY <1>4, <1>5, <1>6, <1>7 DEF RingConsistent
<1>10. (\A i \in Between(dequeueIdx, queueIdx) :
         buffIdxQ[i] \in Bufs /\ bufState[buffIdxQ[i]] = "QUEUED")'
  BY <1>5, <1>6, <1>7 DEF RingConsistent
<1>11. (\A i, j \in InRing : buffIdxQ[i] = buffIdxQ[j] => i = j)'
  BY <1>6, <1>7 DEF RingConsistent
<1>12. (\A b \in Bufs : bufState[b] \in {"QUEUED", "DEQUEUED"}
                          => \E i \in InRing : buffIdxQ[i] = b)'
  <2> SUFFICES ASSUME NEW b \in Bufs, bufState'[b] \in {"QUEUED", "DEQUEUED"}
               PROVE  \E i \in Between(stop, queueIdx) : buffIdxQ'[i] = b
    BY <1>6
  <2>1. b \notin Freed(stop) /\ bufState[b] \in {"QUEUED", "DEQUEUED"}
    OBVIOUS
  <2>2. PICK i \in InRing : buffIdxQ[i] = b
    BY <2>1 DEF RingConsistent
  <2>3. i \in Between(stop, queueIdx)
    BY <1>3, <2>1, <2>2 DEF Freed
  <2> QED
    BY <1>7, <2>2, <2>3
<1> QED
  BY <1>3, <1>8, <1>9, <1>10, <1>11, <1>12 DEF RingConsistent

\* ... takes no buffer from a client.
LEMMA FreedNotHeld ==
  ASSUME TypeOK, RingConsistent, HeldByOne, Holders,
         NEW stop \in Between(deallocIdx, dequeueIdx) \cup {dequeueIdx},
         bufState' = [b \in Bufs |-> IF b \in Freed(stop) THEN "FREE" ELSE bufState[b]],
         UNCHANGED <<cpc, cbuf>>
  PROVE  HeldByOne'
<1>1. Between(deallocIdx, stop) \subseteq Between(deallocIdx, dequeueIdx)
  BY BetweenSplits DEF TypeOK
<1>2. ASSUME NEW c \in Clients, cpc[c] # "idle"
      PROVE  bufState'[cbuf[c]] = "ALLOC"
  <2>1. cbuf[c] \in Bufs /\ bufState[cbuf[c]] = "ALLOC"
    BY <1>2 DEF Holders, HeldByOne
  <2>2. cbuf[c] \notin Freed(stop)
    BY <1>1, <2>1 DEF Freed, RingConsistent
  <2> QED
    BY <2>1, <2>2
<1> QED
  BY <1>2 DEF HeldByOne

LEMMA GetTxPktInv ==
  ASSUME IInv, GetTxPkt
  PROVE  IInv'
<1> USE DEF IInv
<1>1. PICK stop \in Between(deallocIdx, dequeueIdx) \cup {dequeueIdx} :
        /\ bufState' = [b \in Bufs |-> IF b \in Freed(stop) THEN "FREE" ELSE bufState[b]]
        /\ cben' = [b \in Bufs |-> cben[b] /\ b \notin Freed(stop)]
        /\ deallocIdx' = stop
        /\ buffIdxQ' = [i \in Descs |-> IF i \in Between(deallocIdx, stop) THEN NoBuf
                                                                          ELSE buffIdxQ[i]]
        /\ IF stop = dequeueIdx
           THEN pc' = AfterPkts /\ UNCHANGED <<mbuf, from>>
           ELSE pc' = "txcb" /\ mbuf' = buffIdxQ[stop] /\ from' = "pkt"
  BY DEF GetTxPkt, Nearest, GetStops
<1>2. UNCHANGED <<nifVars, txconf, allocIdx, dequeueIdx, queueIdx, dmaVars,
                  isr, txConfWaitQ, timeVars, events, mask, cliVars, histVars>>
  BY DEF GetTxPkt
<1>3. RingConsistent' /\ stop \in Descs
  BY <1>1, <1>2, RingShrinks DEF dmaVars
<1>4. HeldByOne'
  BY <1>1, <1>2, FreedNotHeld DEF cliVars
<1>5. stop # dequeueIdx => buffIdxQ[stop] \in Bufs
  BY <1>1 DEF RingConsistent
<1>6. /\ mbuf' \in Bufs \cup {NoBuf} /\ from' \in {"none", "pkt", "ts"}
      /\ pc' \in {"txcb", "tsev", "wait"}
      /\ pc' = "txcb" => mbuf' \in Bufs /\ deallocIdx' # dequeueIdx
  BY <1>1, <1>5 DEF TypeOK, AfterPkts
<1>7. TypeOK'
  <2>1. /\ bufState' \in [Bufs -> {"FREE", "ALLOC", "QUEUED", "DEQUEUED"}]
        /\ cben' \in [Bufs -> BOOLEAN]
        /\ buffIdxQ' \in [Descs -> Bufs \cup {NoBuf}]
    BY <1>1 DEF TypeOK
  <2> QED
    BY <1>1, <1>2, <1>3, <1>6, <2>1
    DEF TypeOK, nifVars, dmaVars, timeVars, cliVars, histVars
<1>8. Holders'
  BY <1>2, <1>6 DEF Holders, cliVars
<1> QED
  BY <1>3, <1>4, <1>7, <1>8

LEMMA TxDoneIndInv ==
  ASSUME IInv, TxDoneInd
  PROVE  IInv'
<1> USE DEF IInv
<1>1. mbuf \in Bufs
  BY DEF TxDoneInd, Holders
<1>2. \A s \in Seqs \cup {Other} : ReadTS(s) \in Seqs \cup {Other, Invalid}
  BY DEF ReadTS
<1>3. FreeEntry \in [state : {"FREE", "ALLOC", "QUEUED", "DEQUEUED"},
                     bufIdx : Bufs \cup {NoBuf}, seq : Seqs \cup {Other}]
  BY DEF FreeEntry
<1>4. /\ txConfWaitQ' \in WaitQType
      /\ \A i \in WaitQ : txConfWaitQ'[i].state # "FREE" => txConfWaitQ'[i].bufIdx \in Bufs
  <2>1. /\ txConfWaitQ \in WaitQType
        /\ \A i \in WaitQ : txConfWaitQ[i].state # "FREE" => txConfWaitQ[i].bufIdx \in Bufs
    BY DEF TypeOK, WaitQType, Holders
  <2>2. CASE nif[mbuf] # "TX"
    BY <2>1, <2>2 DEF TxDoneInd
  <2>3. ASSUME NEW done,
               txConfWaitQ' = [i \in WaitQ |-> IF i \in done THEN FreeEntry
                                                           ELSE txConfWaitQ[i]]
        PROVE  /\ txConfWaitQ' \in WaitQType
               /\ \A i \in WaitQ : txConfWaitQ'[i].state # "FREE"
                                      => txConfWaitQ'[i].bufIdx \in Bufs
    <3>1. txConfWaitQ' \in WaitQType
      BY <1>3, <2>1, <2>3 DEF WaitQType
    <3>2. FreeEntry.state = "FREE"
      BY DEF FreeEntry
    <3> QED
      BY <2>1, <2>3, <3>1, <3>2
  <2>4. CASE nif[mbuf] = "TX"
    <3> DEFINE done == IF isTSed[mbuf] /\ DoneEntry(mbuf) # {} THEN DoneEntry(mbuf) ELSE {}
    <3>1. txConfWaitQ' = [i \in WaitQ |-> IF i \in done THEN FreeEntry ELSE txConfWaitQ[i]]
      BY <2>4 DEF TxDoneInd
    <3> HIDE DEF done
    <3> QED
      BY <2>3, <3>1
  <2> QED
    BY <2>2, <2>4
<1>5. stamp' \in Seqs \cup {Other, Invalid}
  <2>1. CASE nif[mbuf] = "TX" /\ isTSed[mbuf] /\ DoneEntry(mbuf) # {}
    <3>1. (CHOOSE i \in DoneEntry(mbuf) : TRUE) \in WaitQ
      BY <2>1 DEF DoneEntry, First
    <3>2. txConfWaitQ[CHOOSE i \in DoneEntry(mbuf) : TRUE].seq \in Seqs \cup {Other}
      BY <3>1 DEF TypeOK
    <3>3. stamp' = ReadTS(txConfWaitQ[CHOOSE i \in DoneEntry(mbuf) : TRUE].seq)
      BY <2>1 DEF TxDoneInd
    <3> QED
      BY <1>2, <3>2, <3>3
  <2>2. CASE ~(nif[mbuf] = "TX" /\ isTSed[mbuf] /\ DoneEntry(mbuf) # {})
    BY <2>2 DEF TxDoneInd, TypeOK
  <2> QED
    BY <2>1, <2>2
<1>6. owed' \in [Bufs -> Int] /\ isTSed' \in [Bufs -> BOOLEAN]
  <2>1. owed \in [Bufs -> Int] /\ isTSed \in [Bufs -> BOOLEAN]
    BY DEF TypeOK
  <2>2. \/ owed' = owed /\ isTSed' = isTSed
        \/ owed' = [owed EXCEPT ![mbuf] = @ - 1] /\ isTSed' = [isTSed EXCEPT ![mbuf] = FALSE]
    BY DEF TxDoneInd
  <2>3. [owed EXCEPT ![mbuf] = @ - 1] \in [Bufs -> Int]
    BY <1>1, <2>1
  <2>4. [isTSed EXCEPT ![mbuf] = FALSE] \in [Bufs -> BOOLEAN]
    BY <2>1
  <2> QED
    BY <2>1, <2>2, <2>3, <2>4
<1>7. UNCHANGED <<nif, bufState, flagVars, idxVars, dmaVars, isr, timeVars, events,
                  mask, mbuf, from, cliVars, frame, lost>> /\ pc' = "txend" /\ pc = "txcb"
  BY DEF TxDoneInd
<1>8. TypeOK'
  BY <1>4, <1>5, <1>6, <1>7 DEF TypeOK, WaitQType, flagVars, idxVars, dmaVars, timeVars, cliVars
<1>9. RingConsistent'
  BY <1>7, SameRing DEF ringVars, idxVars, dmaVars
<1>10. HeldByOne'
  BY <1>7, SameHolders DEF cliVars
<1>11. Holders'
  BY <1>4, <1>7 DEF Holders, cliVars, idxVars
<1> QED
  BY <1>8, <1>9, <1>10, <1>11

LEMMA TxDoneEndInv ==
  ASSUME IInv, TxDoneEnd
  PROVE  IInv'
<1> USE DEF IInv
<1>1. mbuf \in Bufs
  BY DEF TxDoneEnd, Holders
<1>2. TypeOK'
  BY <1>1 DEF TxDoneEnd, TypeOK, flagVars, idxVars, dmaVars, timeVars, cliVars
<1>3. RingConsistent'
  BY SameRing DEF TxDoneEnd, ringVars, idxVars, dmaVars
<1>4. HeldByOne'
  BY SameHolders DEF TxDoneEnd, cliVars
<1>5. Holders'
  BY DEF TxDoneEnd, Holders, cliVars, idxVars
<1> QED
  BY <1>2, <1>3, <1>4, <1>5

LEMMA PutTxPktInv ==
  ASSUME IInv, PutTxPkt
  PROVE  IInv'
<1> USE DEF IInv
<1> DEFINE b == buffIdxQ[deallocIdx]
           stop == IncMod(deallocIdx, DescCnt)
<1>1. /\ deallocIdx \in Descs /\ dequeueIdx \in Descs /\ deallocIdx # dequeueIdx
  BY DEF PutTxPkt, TypeOK, Holders
<1>2. /\ deallocIdx \in Between(deallocIdx, dequeueIdx)
      /\ stop \in Between(deallocIdx, dequeueIdx) \cup {dequeueIdx}
  BY <1>1, BetweenShrinks
<1>3. b \in Bufs /\ bufState[b] = "DEQUEUED"
  BY <1>2 DEF RingConsistent
<1>4. Between(deallocIdx, stop) = {deallocIdx}
  <2>1. stop # deallocIdx
    BY <1>1, ConstantsAssumption DEF IncMod, DescCnt, Descs
  <2> QED
    BY <1>1, <2>1, BetweenExtends, BetweenSame
<1>5. Freed(stop) = {b}
  BY <1>4 DEF Freed
<1>6. /\ deallocIdx' = stop
      /\ bufState' = [bufState EXCEPT ![b] = "FREE"]
      /\ buffIdxQ' = [buffIdxQ EXCEPT ![deallocIdx] = NoBuf]
      /\ cben' = [cben EXCEPT ![b] = FALSE]
      /\ pc' = "pkts"
  BY <1>3 DEF PutTxPkt, AfterPut, TypeOK
<1>7. /\ bufState' = [x \in Bufs |-> IF x \in Freed(stop) THEN "FREE" ELSE bufState[x]]
      /\ buffIdxQ' = [i \in Descs |-> IF i \in Between(deallocIdx, stop) THEN NoBuf
                                                                        ELSE buffIdxQ[i]]
  BY <1>1, <1>3, <1>4, <1>5, <1>6 DEF TypeOK
<1>8. UNCHANGED <<nifVars, txconf, allocIdx, dequeueIdx, queueIdx, dmaVars, isr,
                  txConfWaitQ, timeVars, events, mask, mbuf, from, cliVars, histVars>>
  BY DEF PutTxPkt
<1>9. RingConsistent' /\ stop \in Descs
  BY <1>2, <1>6, <1>7, <1>8, RingShrinks DEF dmaVars
<1>10. HeldByOne'
  BY <1>2, <1>7, <1>8, FreedNotHeld DEF cliVars
<1>11. TypeOK'
  <2>1. /\ bufState' \in [Bufs -> {"FREE", "ALLOC", "QUEUED", "DEQUEUED"}]
        /\ cben' \in [Bufs -> BOOLEAN]
        /\ buffIdxQ' \in [Descs -> Bufs \cup {NoBuf}]
    BY <1>3, <1>6 DEF TypeOK
  <2> QED
    BY <1>6, <1>8, <1>9, <2>1 DEF TypeOK, nifVars, dmaVars, timeVars, cliVars, histVars
<1>12. Holders'
  BY <1>6, <1>8 DEF Holders, cliVars
<1> QED
  BY <1>9, <1>10, <1>11, <1>12

LEMMA ProcessTSInv ==
  ASSUME IInv, ProcessTS
  PROVE  IInv'
<1> USE DEF IInv
<1> DEFINE ready == First({i \in WaitQ : /\ txConfWaitQ[i].state = "QUEUED"
                                        /\ txConfWaitQ[i].seq \in Stamps})
<1>1. ready \subseteq WaitQ /\ \A i \in ready : txConfWaitQ[i].state = "QUEUED"
  BY DEF First
<1>2. UNCHANGED <<nifVars, bufState, flagVars, idxVars, dmaVars, isr, timeVars, events,
                  mask, from, cliVars, histVars>>
  BY DEF ProcessTS
<1>3. CASE ready = {}
  <2>1. pc' = "wait" /\ UNCHANGED <<mbuf, txConfWaitQ>>
    BY <1>3 DEF ProcessTS
  <2>2. TypeOK'
    BY <1>2, <2>1 DEF TypeOK, nifVars, flagVars, idxVars, dmaVars, timeVars, cliVars, histVars
  <2>3. Holders'
    BY <1>2, <2>1 DEF Holders, cliVars, idxVars
  <2>4. RingConsistent'
    BY <1>2, SameRing DEF ringVars, idxVars, dmaVars
  <2>5. HeldByOne'
    BY <1>2, SameHolders DEF cliVars
  <2> QED
    BY <2>2, <2>3, <2>4, <2>5
<1>4. CASE ready # {}
  <2>1. /\ pc' = "tsdone"
        /\ mbuf' = txConfWaitQ[CHOOSE i \in ready : TRUE].bufIdx
        /\ txConfWaitQ' = [i \in WaitQ |->
                             IF i \in ready THEN [txConfWaitQ[i] EXCEPT !.state = "DEQUEUED"]
                             ELSE txConfWaitQ[i]]
    BY <1>4 DEF ProcessTS
  <2>2. (CHOOSE i \in ready : TRUE) \in ready
    BY <1>4
  <2>3. mbuf' \in Bufs
    BY <1>1, <2>1, <2>2 DEF Holders
  <2>4. txConfWaitQ \in WaitQType
    BY DEF TypeOK, WaitQType
  <2>5. txConfWaitQ' \in WaitQType
    BY <2>1, <2>4 DEF WaitQType
  <2>6. \A i \in WaitQ : txConfWaitQ'[i].state # "FREE" => txConfWaitQ'[i].bufIdx \in Bufs
    <3> SUFFICES ASSUME NEW i \in WaitQ, txConfWaitQ'[i].state # "FREE"
                 PROVE  txConfWaitQ'[i].bufIdx \in Bufs
      OBVIOUS
    <3>1. CASE i \in ready
      <4>1. txConfWaitQ[i] \in [state : {"FREE", "ALLOC", "QUEUED", "DEQUEUED"},
                                bufIdx : Bufs \cup {NoBuf}, seq : Seqs \cup {Other}]
        BY <2>4 DEF WaitQType
      <4>2. txConfWaitQ'[i].bufIdx = txConfWaitQ[i].bufIdx
        BY <2>1, <3>1, <4>1
      <4>3. txConfWaitQ[i].bufIdx \in Bufs
        BY <1>1, <3>1 DEF Holders
      <4> QED
        BY <4>2, <4>3
    <3>2. CASE i \notin ready
      BY <2>1, <3>2 DEF Holders
    <3> QED
      BY <3>1, <3>2
  <2>7. TypeOK'
    BY <1>2, <2>1, <2>3, <2>5
    DEF TypeOK, WaitQType, nifVars, flagVars, idxVars, dmaVars, timeVars, cliVars, histVars
  <2>8. RingConsistent'
    BY <1>2, SameRing DEF ringVars, idxVars, dmaVars
  <2>9. HeldByOne'
    BY <1>2, SameHolders DEF cliVars
  <2>10. Holders'
    BY <1>2, <2>1, <2>3, <2>6 DEF Holders, cliVars, idxVars
  <2> QED
    BY <2>7, <2>8, <2>9, <2>10
<1> QED
  BY <1>3, <1>4

LEMMA TxTSDoneIndInv ==
  ASSUME IInv, TxTSDoneInd
  PROVE  IInv'
<1> USE DEF IInv
<1>1. mbuf \in Bufs
  BY DEF TxTSDoneInd, Holders
<1>2. \/ pc' = "txcb" /\ from' = "ts" /\ mbuf' = mbuf
      \/ pc' = "ts" /\ mbuf' = NoBuf /\ from' = from
  BY DEF TxTSDoneInd
<1>3. txconf' \in [Bufs -> BOOLEAN]
  BY <1>1 DEF TxTSDoneInd, TypeOK
<1>4. UNCHANGED <<nifVars, bufState, cben, idxVars, dmaVars, isr, txConfWaitQ, timeVars,
                  events, mask, cliVars, histVars>>
  BY DEF TxTSDoneInd
<1>5. TypeOK'
  BY <1>1, <1>2, <1>3, <1>4
  DEF TypeOK, nifVars, idxVars, dmaVars, timeVars, cliVars, histVars
<1>6. RingConsistent'
  BY <1>4, SameRing DEF ringVars, idxVars, dmaVars
<1>7. HeldByOne'
  BY <1>4, SameHolders DEF cliVars
<1>8. Holders'
  BY <1>1, <1>2, <1>4 DEF Holders, cliVars, idxVars
<1> QED
  BY <1>5, <1>6, <1>7, <1>8

-----------------------------------------------------------------------------
LEMMA NextInv == IInv /\ [Next]_vars => IInv'
<1> SUFFICES ASSUME IInv, [Next]_vars PROVE IInv'
  OBVIOUS
<1>1. ASSUME NEW c \in Clients, Client(c)
      PROVE  IInv'
  <2>1. ASSUME NEW what \in Sends, SendUnconfirmed(c, what)
        PROVE  IInv'
    BY <2>1, SendUnconfirmedInv, ConstantsAssumption
  <2> QED
    BY <1>1, <2>1, GetTxBufferInv, GotTxBufferInv, MarkTSPktInv, EnableEgressTSInv,
       SendRefusedInv, SendConfirmedInv, XmtSendInv DEF Client
<1>2. CASE Transmit \/ IrqAck \/ DequeueXmtCompPkts \/ TimestampIRQ
  BY <1>2, TransmitInv, IrqAckInv, DequeueXmtCompPktsInv, TimestampIRQInv
<1>3. CASE Comms
  BY <1>3, GetEventInv, ClearEventInv, GetTxPktInv, TxDoneIndInv, TxDoneEndInv, PutTxPktInv,
     ProcessTSInv, TxTSDoneIndInv DEF Comms
<1>4. CASE UNCHANGED vars
  <2>1. TypeOK'
    BY <1>4 DEF IInv, TypeOK, vars, nifVars, flagVars, idxVars, dmaVars, timeVars, commVars,
         cliVars, histVars
  <2>2. RingConsistent'
    BY <1>4, SameRing DEF IInv, vars, ringVars, idxVars, dmaVars
  <2>3. HeldByOne'
    BY <1>4, SameHolders DEF IInv, vars, cliVars
  <2>4. Holders'
    BY <1>4 DEF IInv, Holders, vars, cliVars, commVars, idxVars
  <2> QED
    BY <2>1, <2>2, <2>3, <2>4 DEF IInv
<1> QED
  BY <1>1, <1>2, <1>3, <1>4 DEF Next

LEMMA Inductive == Spec => []IInv
BY InitInv, NextInv, PTL DEF Spec

(* Every variable of the transmit path keeps its type: no index leaves its *)
(* ring, whatever clients, interrupts and CommsTask do.                    *)
THEOREM TypeCorrect == Spec => []TypeOK
<1>1. IInv => TypeOK
  BY DEF IInv
<1> QED
  BY <1>1, Inductive, PTL

(* The queue of the transmit buffers and the DMA ring follow each other for *)
(* any number of buffers: the queue is never overrun, although nothing but  *)
(* the DMA's own check could refuse a packet (eth_cntlr_buf.c:312-348).     *)
THEOREM RingStaysConsistent == Spec => []RingConsistent
<1>1. IInv => RingConsistent
  BY DEF IInv
<1> QED
  BY <1>1, Inductive, PTL

(* A transmit buffer is in the hands of one client at a time, and not of   *)
(* the driver or the DMA while it is.                                      *)
THEOREM BufferHeldByOne == Spec => []HeldByOne
<1>1. IInv => HeldByOne
  BY DEF IInv
<1> QED
  BY <1>1, Inductive, PTL

\* A buffer with its client is not in the ring, which has a place to spare.
LEMMA SendFindsRoom ==
  ASSUME IInv, NEW c \in Clients, cpc[c] = "xmt"
  PROVE  IncMod(lastDesc, DescCnt) # currDesc
<1>1. cbuf[c] \in Bufs /\ bufState[cbuf[c]] = "ALLOC"
  BY DEF IInv, Holders, HeldByOne
<1>2. IncMod(queueIdx, DescCnt) # deallocIdx
  BY <1>1, RingHasRoom DEF IInv
<1>3. /\ deallocIdx \in Descs /\ dequeueIdx \in Descs /\ queueIdx \in Descs
      /\ currDesc \in Descs /\ lastDesc = queueIdx
      /\ dequeueIdx \in Between(deallocIdx, queueIdx) \cup {queueIdx}
      /\ currDesc \in Between(dequeueIdx, queueIdx) \cup {queueIdx}
  BY DEF IInv, TypeOK, RingConsistent, InRing
<1>4. currDesc \in Between(deallocIdx, queueIdx) \cup {queueIdx}
  BY <1>3, BetweenTail
<1>5. IncMod(queueIdx, DescCnt) \notin Between(deallocIdx, queueIdx) \cup {queueIdx}
  BY <1>2, <1>3, ConstantsAssumption DEF Between, Ahead, IncMod, Descs, DescCnt
<1> QED
  BY <1>3, <1>4, <1>5

\* A packet on its way to the DMA finds a descriptor: the BCM_ERR_BUSY of
\* AMAC_DMATxBuffers (amac.c:2482-2489) cannot be the answer to it.
DmaNeverBusy ==
  \A c \in Clients : cpc[c] = "xmt" => IncMod(lastDesc, DescCnt) # currDesc

(* The ring has one descriptor more than the channel has buffers: no send  *)
(* is refused for want of a descriptor, so the error path of ETHER_Send    *)
(* that would leave the buffer with nobody is never taken for it.          *)
THEOREM NoSendFindsTheRingFull == Spec => []DmaNeverBusy
<1>1. IInv => DmaNeverBusy
  BY SendFindsRoom DEF DmaNeverBusy
<1> QED
  BY <1>1, Inductive, PTL

-----------------------------------------------------------------------------
(* Where the packets are: what the entries of the wait queue, the time     *)
(* stamps and the confirmations have to do with the buffers.               *)

InDriver(b) == bufState[b] \in {"QUEUED", "DEQUEUED"}

\* Entry i of the wait queue is one of the packet in b.
Waits(i, b) == txConfWaitQ[i].state # "FREE" /\ txConfWaitQ[i].bufIdx = b
HasEntry(b) == \E i \in WaitQ : Waits(i, b)

\* The client of b has got its confirmation and the driver has b still.
Told(b) == \/ pc = "txend" /\ from = "pkt" /\ mbuf = b
           \/ pc = "put" /\ buffIdxQ[deallocIdx] = b
Awaited(b) == InDriver(b) /\ cben[b] /\ ~Told(b)

\* A packet that was marked has its entry until it is confirmed.
Tracked(b) == HasEntry(b) \/ (~txconf[b] /\ frame[b] = Other)

(* The life of an entry: allocated for a buffer its client holds, queued   *)
(* with the packet, dequeued with its stamp, and freed when the client is  *)
(* told, which CommsTask does now or, if the buffer is still in the ring,  *)
(* when it comes to it.                                                    *)
EntryKept(i) == LET b == txConfWaitQ[i].bufIdx IN
  txConfWaitQ[i].state # "FREE" => isTSed[b] /\ ~Told(b)
EntryAlloc(i) == LET b == txConfWaitQ[i].bufIdx IN
  txConfWaitQ[i].state = "ALLOC" =>
    nif[b] = "ALLOC" /\ txconf[b] /\ \E c \in Clients : cpc[c] = "held" /\ cbuf[c] = b
EntrySent(i) == LET b == txConfWaitQ[i].bufIdx IN
  txConfWaitQ[i].state \in {"QUEUED", "DEQUEUED"} =>
    nif[b] = "TX" /\ txConfWaitQ[i].seq = frame[b] /\ frame[b] # Other
EntryQueued(i) == LET b == txConfWaitQ[i].bufIdx IN
  txConfWaitQ[i].state = "QUEUED" =>
    /\ txconf[b] /\ ~(pc = "tsdone" /\ mbuf = b)
    /\ \/ \E c \in Clients : cpc[c] = "xmt" /\ how[c] = "conf" /\ cbuf[c] = b
       \/ InDriver(b) /\ cben[b]
       \/ bufState[b] = "FREE"
EntryDequeued(i) == LET b == txConfWaitQ[i].bufIdx IN
  txConfWaitQ[i].state = "DEQUEUED" =>
    \/ pc \in {"tsdone", "txcb"} /\ mbuf = b
    \/ ~txconf[b] /\ InDriver(b) /\ cben[b]

EntryGood(i) ==
  EntryKept(i) /\ EntryAlloc(i) /\ EntrySent(i) /\ EntryQueued(i) /\ EntryDequeued(i)

OneEntry == \A i, j \in WaitQ : \A b \in Bufs : Waits(i, b) /\ Waits(j, b) => i = j
Entries == \A i \in WaitQ : EntryGood(i)

\* The packet CommsTask is at.
StampRead ==
  pc = "tsdone" => /\ txconf[mbuf] /\ HasEntry(mbuf)
                   /\ bufState[mbuf] = "FREE" \/ (InDriver(mbuf) /\ cben[mbuf])
Confirmation ==
  pc \in {"txcb", "txend"} =>
    /\ nif[mbuf] = "TX" /\ ~txconf[mbuf]
    /\ \A c \in Clients : cbuf[c] = mbuf => cpc[c] \in {"idle", "got", "held"}
    /\ from \in {"pkt", "ts"}
    /\ from = "pkt" => mbuf = buffIdxQ[deallocIdx]
    /\ from = "ts" => ~InDriver(mbuf)
Callback ==
  /\ pc = "txcb" => HasEntry(mbuf) \/ frame[mbuf] = Other
  /\ pc = "txend" => ~HasEntry(mbuf)
  /\ pc = "put" => ~txconf[buffIdxQ[deallocIdx]]
AtComms == StampRead /\ Confirmation /\ Callback

\* The packets that are to be confirmed when the driver is done with them.
Tracking == \A b \in Bufs : Awaited(b) => nif[b] = "TX" /\ Tracked(b)

\* The packets on their way into the driver.
Caller(c) == LET b == cbuf[c] IN
  /\ cpc[c] = "marked" => nif[b] = "ALLOC" /\ txconf[b] /\ ~HasEntry(b)
  /\ cpc[c] = "xmt" => IF how[c] = "conf" THEN nif[b] = "TX" /\ Tracked(b)
                       ELSE how[c] # "none" /\ ~HasEntry(b)
Callers == \A c \in Clients : Caller(c)

\* Nothing is stamped with the number of a packet that has not been queued.
Fresh ==
  \A c \in Clients : cpc[c] = "xmt" /\ frame[cbuf[c]] # Other =>
    /\ frame[cbuf[c]] \notin Stamps
    /\ \A k \in 1 .. Len(airTs) : airTs[k] # frame[cbuf[c]]
    /\ \A d \in Bufs \ {cbuf[c]} : frame[d] = frame[cbuf[c]] =>
         /\ bufState[d] # "QUEUED"
         /\ \A x \in Clients : ~(cpc[x] = "xmt" /\ cbuf[x] = d)

\* Who has a confirmation to get.
Owed(b) == \/ Delivering(b) \/ Awaited(b)
           \/ bufState[b] = "FREE" /\ txconf[b] /\ HasEntry(b)
Owing == \A b \in Bufs : owed[b] = IF Owed(b) THEN 1 ELSE 0

Packets == /\ OneEntry /\ Entries /\ AtComms /\ Tracking /\ Callers /\ Fresh /\ Owing
           /\ NoSilentLeak /\ StampIsOfThePacket

-----------------------------------------------------------------------------
(* First(S) has one element, if S has any. *)

LEMMA FirstIsOne ==
  ASSUME NEW S \in SUBSET WaitQ, NEW i \in First(S), NEW j \in First(S)
  PROVE  i = j /\ i \in S
BY ConstantsAssumption DEF First, WaitQ

LEMMA FirstOfOne ==
  ASSUME NEW k \in WaitQ
  PROVE  First({k}) = {k}
BY ConstantsAssumption DEF First, WaitQ

-----------------------------------------------------------------------------
(* What a buffer in the hands of a client has of an entry. *)

LEMMA HeldHere ==
  ASSUME IInv, NEW c \in Clients, cpc[c] # "idle"
  PROVE  /\ cbuf[c] \in Bufs /\ bufState[cbuf[c]] = "ALLOC"
         /\ \A d \in Clients : cpc[d] # "idle" /\ cbuf[d] = cbuf[c] => d = c
BY DEF IInv, HeldByOne, Holders

\* As long as the interface has not got the packet, its entry is ALLOC.
LEMMA EntryOfHeld ==
  ASSUME IInv, Packets, NEW c \in Clients, cpc[c] # "idle", nif[cbuf[c]] = "ALLOC",
         NEW i \in WaitQ, Waits(i, cbuf[c])
  PROVE  txConfWaitQ[i].state = "ALLOC" /\ cpc[c] = "held" /\ txconf[cbuf[c]]
<1>1. txConfWaitQ[i].state \in {"FREE", "ALLOC", "QUEUED", "DEQUEUED"}
  BY DEF IInv, TypeOK
<1>2. EntryGood(i)
  BY DEF Packets, Entries
<1>3. txConfWaitQ[i].state = "ALLOC"
  BY <1>1, <1>2 DEF EntryGood, EntrySent, Waits
<1>4. txconf[cbuf[c]] /\ \E d \in Clients : cpc[d] = "held" /\ cbuf[d] = cbuf[c]
  BY <1>2, <1>3 DEF EntryGood, EntryAlloc, Waits
<1> QED
  BY <1>3, <1>4, HeldHere

-----------------------------------------------------------------------------
(* The steps that leave a part of the invariant alone. *)

packetVars == <<txConfWaitQ, isTSed, nif, txconf, cben, bufState, frame, owed, cpc, cbuf, how,
                deallocIdx, buffIdxQ>>

\* CommsTask is not at a packet.
AtRest == pc \in {"wait", "pktev", "tsev", "pkts", "ts"}

LEMMA SamePackets ==
  ASSUME Packets, UNCHANGED packetVars, UNCHANGED <<pc, mbuf, from>> \/ (AtRest /\ AtRest')
  PROVE  OneEntry' /\ Entries' /\ AtComms' /\ Tracking' /\ Callers' /\ Owing'
<1>1. \A b : /\ HasEntry(b)' <=> HasEntry(b)
             /\ \A i : Waits(i, b)' <=> Waits(i, b)
             /\ InDriver(b)' <=> InDriver(b)
             /\ Told(b)' <=> Told(b)
             /\ Awaited(b)' <=> Awaited(b)
             /\ Tracked(b)' <=> Tracked(b)
             /\ Delivering(b)' <=> Delivering(b)
  BY DEF packetVars, HasEntry, Waits, InDriver, Told, Awaited, Tracked, Delivering, AtRest
<1>2. OneEntry'
  BY <1>1 DEF Packets, OneEntry
<1>3. Entries'
  <2> SUFFICES ASSUME NEW i \in WaitQ
               PROVE  EntryGood(i)'
    BY DEF Entries
  <2>1. EntryGood(i)
    BY DEF Packets, Entries
  <2>2. EntryKept(i)' /\ EntryAlloc(i)' /\ EntrySent(i)'
    BY <1>1, <2>1 DEF EntryGood, EntryKept, EntryAlloc, EntrySent, packetVars
  <2>3. EntryQueued(i)'
    BY <1>1, <2>1 DEF EntryGood, EntryQueued, packetVars, AtRest
  <2>4. EntryDequeued(i)'
    BY <1>1, <2>1 DEF EntryGood, EntryDequeued, packetVars, AtRest
  <2> QED
    BY <2>2, <2>3, <2>4 DEF EntryGood
<1>4. AtComms'
  BY <1>1 DEF Packets, AtComms, StampRead, Confirmation, Callback, AtRest, packetVars
<1>5. Tracking'
  BY <1>1 DEF Packets, Tracking, packetVars
<1>6. Callers'
  BY <1>1 DEF Packets, Callers, Caller, packetVars
<1>7. Owing'
  BY <1>1 DEF Packets, Owing, Owed, packetVars
<1> QED
  BY <1>2, <1>3, <1>4, <1>5, <1>6, <1>7

LEMMA SameFresh ==
  ASSUME Fresh, UNCHANGED <<cpc, cbuf, frame, bufState, tsInfo, airTs>>
  PROVE  Fresh'
BY DEF Fresh, Stamps

LEMMA SameLeak ==
  ASSUME NoSilentLeak, UNCHANGED <<cpc, cbuf, bufState, lost>>
  PROVE  NoSilentLeak'
BY DEF NoSilentLeak

LEMMA SameStamp ==
  ASSUME StampIsOfThePacket, UNCHANGED <<pc, mbuf, frame, stamp>> \/ pc' # "txend"
  PROVE  StampIsOfThePacket'
BY DEF StampIsOfThePacket

-----------------------------------------------------------------------------
LEMMA InitPackets == Init => Packets
<1> SUFFICES ASSUME Init PROVE Packets
  OBVIOUS
<1>1. \A i \in WaitQ : txConfWaitQ[i].state = "FREE"
  BY DEF Init, FreeEntry
<1>2. \A b \in Bufs : ~HasEntry(b) /\ ~InDriver(b) /\ ~Delivering(b)
  BY <1>1 DEF Init, HasEntry, Waits, InDriver, Delivering
<1>3. OneEntry
  BY <1>1 DEF OneEntry, Waits
<1>4. Entries
  BY <1>1 DEF Entries, EntryGood, EntryKept, EntryAlloc, EntrySent, EntryQueued, EntryDequeued
<1>5. AtComms
  BY DEF Init, AtComms, StampRead, Confirmation, Callback
<1>6. Tracking
  BY <1>2 DEF Tracking, Awaited
<1>7. Callers
  BY DEF Init, Callers, Caller
<1>8. Fresh
  BY DEF Init, Fresh
<1>9. Owing
  BY <1>2 DEF Init, Owing, Owed, Awaited
<1>10. NoSilentLeak /\ StampIsOfThePacket
  BY DEF Init, NoSilentLeak, StampIsOfThePacket
<1> QED
  BY <1>3, <1>4, <1>5, <1>6, <1>7, <1>8, <1>9, <1>10 DEF Packets

-----------------------------------------------------------------------------
(* The steps that move no packet. *)

LEMMA IrqAckPackets ==
  ASSUME IInv, Packets, IrqAck
  PROVE  Packets'
<1>1. UNCHANGED packetVars /\ UNCHANGED commVars /\ UNCHANGED <<tsInfo, airTs, lost, stamp>>
  BY DEF IrqAck, packetVars, nifVars, flagVars, idxVars, commVars, timeVars, cliVars, histVars
<1> QED
  BY <1>1, SamePackets, SameFresh, SameLeak, SameStamp DEF Packets, packetVars, commVars

LEMMA GetEventPackets ==
  ASSUME IInv, Packets, GetEvent
  PROVE  Packets'
<1>1. UNCHANGED packetVars /\ UNCHANGED <<tsInfo, airTs, lost, stamp>>
  BY DEF GetEvent, packetVars, nifVars, flagVars, idxVars, timeVars, cliVars, histVars
<1>2. AtRest /\ AtRest' /\ pc' # "txend"
  BY DEF GetEvent, AtRest
<1> QED
  BY <1>1, <1>2, SamePackets, SameFresh, SameLeak, SameStamp DEF Packets, packetVars

LEMMA ClearEventPackets ==
  ASSUME IInv, Packets, ClearEvent
  PROVE  Packets'
<1>1. UNCHANGED packetVars /\ UNCHANGED <<tsInfo, airTs, lost, stamp>>
  BY DEF ClearEvent, packetVars, nifVars, flagVars, idxVars, timeVars, cliVars, histVars
<1>2. AtRest /\ AtRest' /\ pc' # "txend"
  BY DEF ClearEvent, AtRest
<1> QED
  BY <1>1, <1>2, SamePackets, SameFresh, SameLeak, SameStamp DEF Packets, packetVars

\* The packet that is transmitted is in the ring, and no other has its number.
LEMMA TransmitPackets ==
  ASSUME IInv, Packets, Transmit
  PROVE  Packets'
<1>1. UNCHANGED packetVars /\ UNCHANGED commVars /\ UNCHANGED <<tsInfo, lost, stamp>>
  BY DEF Transmit, packetVars, nifVars, flagVars, idxVars, commVars, timeVars, cliVars, histVars
<1>2. buffIdxQ[currDesc] \in Bufs /\ bufState[buffIdxQ[currDesc]] = "QUEUED"
  <2>1. currDesc \in Between(dequeueIdx, queueIdx)
    BY DEF Transmit, IInv, RingConsistent
  <2> QED
    BY <2>1 DEF IInv, RingConsistent
<1>3. Fresh'
  <2> DEFINE s == frame[buffIdxQ[currDesc]]
  <2>1. s \in Seqs \cup {Other} /\ airTs \in Seq(Seqs)
    BY <1>2 DEF IInv, TypeOK
  <2>2. airTs' = IF s = Other THEN airTs ELSE Append(airTs, s)
    BY DEF Transmit
  <2> SUFFICES ASSUME NEW c \in Clients, cpc[c] = "xmt", frame[cbuf[c]] # Other,
                      NEW k \in 1 .. Len(airTs')
               PROVE  airTs'[k] # frame[cbuf[c]]
    BY <1>1 DEF Packets, Fresh, Stamps, packetVars
  <2>3. cbuf[c] \in Bufs /\ bufState[cbuf[c]] = "ALLOC"
    BY HeldHere
  <2>4. s # frame[cbuf[c]]
    BY <1>2, <2>3 DEF Packets, Fresh
  <2>5. \A j \in 1 .. Len(airTs) : airTs[j] # frame[cbuf[c]]
    BY DEF Packets, Fresh
  <2> HIDE DEF s
  <2>6. CASE s = Other
    BY <2>2, <2>5, <2>6
  <2>7. CASE s # Other
    <3>1. airTs' = Append(airTs, s) /\ s \in Seqs
      BY <2>1, <2>2, <2>7
    <3>2. /\ Len(airTs') = Len(airTs) + 1
          /\ airTs'[Len(airTs) + 1] = s
          /\ \A j \in 1 .. Len(airTs) : airTs'[j] = airTs[j]
      BY <2>1, <3>1, AppendProperties
    <3>3. Len(airTs) \in Nat
      BY <2>1, LenProperties
    <3> QED
      BY <2>4, <2>5, <3>2, <3>3
  <2> QED
    BY <2>6, <2>7
<1> QED
  BY <1>1, <1>3, SamePackets, SameLeak, SameStamp DEF Packets, packetVars, commVars

-----------------------------------------------------------------------------
(* The interrupts *)

\* An entry that waits for a stamp is not of an allocated buffer without owner.
LEMMA TimestampIRQPackets ==
  ASSUME IInv, Packets, TimestampIRQ
  PROVE  Packets'
<1>1. UNCHANGED packetVars /\ UNCHANGED commVars /\ UNCHANGED stamp
  BY DEF TimestampIRQ, packetVars, nifVars, flagVars, idxVars, commVars, cliVars
<1>2. Fresh'
  <2>1. airTs \in Seq(Seqs) /\ airTs # <<>>
    BY DEF TimestampIRQ, IInv, TypeOK
  <2>2. /\ Len(airTs) \in Nat \ {0} /\ Head(airTs) = airTs[1]
        /\ Len(Tail(airTs)) = Len(airTs) - 1
        /\ \A k \in 1 .. Len(Tail(airTs)) : Tail(airTs)[k] = airTs[k + 1]
    BY <2>1, HeadTailProperties, LenProperties, EmptySeq
  <2>3. /\ tsInfo' = [tsInfo EXCEPT ![curTSIdx] = Head(airTs)] /\ airTs' = Tail(airTs)
    BY DEF TimestampIRQ
  <2>4. Stamps' \subseteq Stamps \cup {Head(airTs)}
    BY <2>3 DEF Stamps, IInv, TypeOK
  <2> SUFFICES ASSUME NEW c \in Clients, cpc[c] = "xmt", frame[cbuf[c]] # Other
               PROVE  /\ frame[cbuf[c]] \notin Stamps'
                      /\ \A k \in 1 .. Len(airTs') : airTs'[k] # frame[cbuf[c]]
    BY <1>1 DEF Packets, Fresh, packetVars
  <2>5. /\ frame[cbuf[c]] \notin Stamps
        /\ \A k \in 1 .. Len(airTs) : airTs[k] # frame[cbuf[c]]
    BY DEF Packets, Fresh
  <2>6. Head(airTs) # frame[cbuf[c]]
    BY <2>2, <2>5
  <2> QED
    BY <2>2, <2>3, <2>4, <2>5, <2>6
<1>3. NoSilentLeak'
  <2> SUFFICES ASSUME NEW b \in Bufs, bufState[b] = "ALLOC",
                      \A c \in Clients : ~(cpc[c] # "idle" /\ cbuf[c] = b)
               PROVE  lost'[b] \in {"early", "noslot"}
    BY <1>1 DEF NoSilentLeak, packetVars
  <2>1. lost[b] \in {"early", "noslot"}
    BY DEF Packets, NoSilentLeak
  <2>2. ASSUME NEW i \in WaitQ, txConfWaitQ[i].state = "QUEUED", txConfWaitQ[i].bufIdx = b
        PROVE  FALSE
    <3>1. EntryQueued(i)
      BY DEF Packets, Entries, EntryGood
    <3> QED
      BY <2>2, <3>1 DEF EntryQueued, InDriver
  <2> QED
    BY <2>1, <2>2 DEF TimestampIRQ
<1> QED
  BY <1>1, <1>2, <1>3, SamePackets, SameStamp DEF Packets, packetVars, commVars

\* A packet that was sent stays in the driver.
LEMMA DequeueXmtCompPktsPackets ==
  ASSUME IInv, Packets, DequeueXmtCompPkts
  PROVE  Packets'
<1>1. PICK stop \in Between(dequeueIdx, currDesc) \cup {currDesc} :
        bufState' = [b \in Bufs |->
                       IF \E i \in Between(dequeueIdx, stop) : buffIdxQ[i] = b
                       THEN "DEQUEUED" ELSE bufState[b]]
  BY DEF DequeueXmtCompPkts, Nearest, DequeueStops, Completed
<1>2. /\ UNCHANGED <<txConfWaitQ, isTSed, nif, txconf, cben, frame, owed, cpc, cbuf, how,
                     deallocIdx, buffIdxQ, pc, mbuf, from, stamp, lost, tsInfo, airTs>>
  BY DEF DequeueXmtCompPkts, nifVars, flagVars, commVars, timeVars, cliVars, histVars
<1>3. ASSUME NEW i \in Between(dequeueIdx, stop)
      PROVE  bufState[buffIdxQ[i]] = "QUEUED"
  <2>1. /\ deallocIdx \in Descs /\ dequeueIdx \in Descs /\ queueIdx \in Descs
        /\ currDesc \in Descs
        /\ currDesc \in Between(dequeueIdx, queueIdx) \cup {queueIdx}
    BY DEF IInv, TypeOK, RingConsistent
  <2>2. stop \in Between(dequeueIdx, queueIdx) \cup {queueIdx}
    BY <2>1, BetweenHead
  <2>3. i \in Between(dequeueIdx, queueIdx)
    BY <2>1, <2>2, BetweenSplits
  <2> QED
    BY <2>3 DEF IInv, RingConsistent
<1>4. \A b \in Bufs : /\ bufState'[b] = "FREE" <=> bufState[b] = "FREE"
                      /\ bufState'[b] = "ALLOC" <=> bufState[b] = "ALLOC"
                      /\ bufState'[b] = "QUEUED" => bufState[b] = "QUEUED"
                      /\ InDriver(b)' <=> InDriver(b)
  BY <1>1, <1>3 DEF InDriver
<1>5. \A b : /\ HasEntry(b)' <=> HasEntry(b)
             /\ \A i : Waits(i, b)' <=> Waits(i, b)
             /\ Told(b)' <=> Told(b)
             /\ Tracked(b)' <=> Tracked(b)
             /\ Delivering(b)' <=> Delivering(b)
  BY <1>2 DEF HasEntry, Waits, Told, Tracked, Delivering
<1>6. OneEntry'
  BY <1>5 DEF Packets, OneEntry
<1>7. Entries'
  <2> SUFFICES ASSUME NEW i \in WaitQ
               PROVE  EntryGood(i)'
    BY DEF Entries
  <2>1. EntryGood(i)
    BY DEF Packets, Entries
  <2>2. txConfWaitQ[i].state # "FREE" => txConfWaitQ[i].bufIdx \in Bufs
    BY DEF IInv, Holders
  <2>3. EntryKept(i)' /\ EntryAlloc(i)' /\ EntrySent(i)'
    BY <1>2, <1>5, <2>1 DEF EntryGood, EntryKept, EntryAlloc, EntrySent
  <2>4. EntryQueued(i)'
    BY <1>2, <1>4, <2>1, <2>2 DEF EntryGood, EntryQueued
  <2>5. EntryDequeued(i)'
    BY <1>2, <1>4, <2>1, <2>2 DEF EntryGood, EntryDequeued
  <2> QED
    BY <2>3, <2>4, <2>5 DEF EntryGood
<1>8. AtComms'
  <2>1. pc \in {"tsdone", "txcb", "txend"} => mbuf \in Bufs
    BY DEF IInv, Holders
  <2> QED
    BY <1>2, <1>4, <1>5, <2>1 DEF Packets, AtComms, StampRead, Confirmation, Callback
<1>9. Tracking'
  BY <1>2, <1>4, <1>5 DEF Packets, Tracking, Awaited
<1>10. Callers'
  BY <1>2, <1>5 DEF Packets, Callers, Caller
<1>11. Fresh'
  BY <1>2, <1>4 DEF Packets, Fresh, Stamps
<1>12. Owing'
  BY <1>2, <1>4, <1>5 DEF Packets, Owing, Owed, Awaited
<1>13. NoSilentLeak'
  BY <1>2, <1>4 DEF Packets, NoSilentLeak
<1>14. StampIsOfThePacket'
  BY <1>2, SameStamp DEF Packets
<1> QED
  BY <1>6, <1>7, <1>8, <1>9, <1>10, <1>11, <1>12, <1>13, <1>14 DEF Packets

-----------------------------------------------------------------------------
(* The clients *)

LEMMA GetTxBufferPackets ==
  ASSUME IInv, Packets, NEW c \in Clients, GetTxBuffer(c)
  PROVE  Packets'
<1>1. PICK b \in Bufs : /\ bufState[b] = "FREE" /\ ~txconf[b]
                        /\ bufState' = [bufState EXCEPT ![b] = "ALLOC"]
                        /\ cbuf' = [cbuf EXCEPT ![c] = b]
  BY DEF GetTxBuffer, Allocatable
<1>2. /\ cpc[c] = "idle" /\ cpc' = [cpc EXCEPT ![c] = "got"]
      /\ UNCHANGED <<txConfWaitQ, isTSed, nif, txconf, cben, frame, owed, how, deallocIdx,
                     buffIdxQ, pc, mbuf, from, stamp, lost, tsInfo, airTs>>
  BY DEF GetTxBuffer, nifVars, flagVars, commVars, timeVars, histVars
<1>3. /\ \A x \in Clients : x # c => cpc'[x] = cpc[x] /\ cbuf'[x] = cbuf[x]
      /\ cpc'[c] = "got" /\ cbuf'[c] = b
      /\ \A d \in Bufs : d # b => bufState'[d] = bufState[d]
      /\ bufState'[b] = "ALLOC"
  BY <1>1, <1>2 DEF IInv, TypeOK
<1>4. \A d \in Bufs : InDriver(d)' <=> InDriver(d)
  BY <1>1, <1>3 DEF InDriver
<1>5. \A d : /\ HasEntry(d)' <=> HasEntry(d)
             /\ \A i : Waits(i, d)' <=> Waits(i, d)
             /\ Told(d)' <=> Told(d)
             /\ Tracked(d)' <=> Tracked(d)
             /\ Delivering(d)' <=> Delivering(d)
  BY <1>2 DEF HasEntry, Waits, Told, Tracked, Delivering
<1>6. OneEntry'
  BY <1>5 DEF Packets, OneEntry
<1>7. Entries'
  <2> SUFFICES ASSUME NEW i \in WaitQ
               PROVE  EntryGood(i)'
    BY DEF Entries
  <2>1. EntryGood(i)
    BY DEF Packets, Entries
  <2>2. txConfWaitQ[i].state # "FREE" => txConfWaitQ[i].bufIdx \in Bufs
    BY DEF IInv, Holders
  <2>3. EntryKept(i)' /\ EntrySent(i)'
    BY <1>2, <1>5, <2>1 DEF EntryGood, EntryKept, EntrySent
  <2>4. EntryAlloc(i)'
    BY <1>2, <1>3, <2>1 DEF EntryGood, EntryAlloc
  <2>5. EntryQueued(i)'
    BY <1>1, <1>2, <1>3, <1>4, <2>1, <2>2 DEF EntryGood, EntryQueued
  <2>6. EntryDequeued(i)'
    BY <1>2, <1>4, <2>1, <2>2 DEF EntryGood, EntryDequeued
  <2> QED
    BY <2>3, <2>4, <2>5, <2>6 DEF EntryGood
<1>8. AtComms'
  <2>1. pc \in {"tsdone", "txcb", "txend"} => mbuf \in Bufs
    BY DEF IInv, Holders
  <2>2. StampRead'
    BY <1>1, <1>2, <1>3, <1>4, <1>5, <2>1 DEF Packets, AtComms, StampRead
  <2>3. Confirmation'
    BY <1>2, <1>3, <1>4, <1>5, <2>1 DEF Packets, AtComms, Confirmation
  <2>4. Callback'
    BY <1>2, <1>5 DEF Packets, AtComms, Callback
  <2> QED
    BY <2>2, <2>3, <2>4 DEF AtComms
<1>9. Tracking'
  BY <1>2, <1>4, <1>5 DEF Packets, Tracking, Awaited
<1>10. Callers'
  BY <1>2, <1>3, <1>5 DEF Packets, Callers, Caller
<1>11. Fresh'
  BY <1>2, <1>3 DEF Packets, Fresh, Stamps
<1>12. Owing'
  BY <1>1, <1>2, <1>3, <1>4, <1>5 DEF Packets, Owing, Owed, Awaited
<1>13. NoSilentLeak'
  BY <1>2, <1>3 DEF Packets, NoSilentLeak
<1>14. StampIsOfThePacket'
  BY <1>2, SameStamp DEF Packets
<1> QED
  BY <1>6, <1>7, <1>8, <1>9, <1>10, <1>11, <1>12, <1>13, <1>14 DEF Packets

\* Only the state of the interface may change here.
LEMMA GotTxBufferPackets ==
  ASSUME IInv, Packets, NEW c \in Clients, GotTxBuffer(c)
  PROVE  Packets'
<1> DEFINE b == cbuf[c]
<1>1. /\ cpc[c] = "got" /\ cpc' = [cpc EXCEPT ![c] = "held"]
      /\ nif' = [nif EXCEPT ![b] = IF @ = "FREE" THEN "ALLOC" ELSE @]
      /\ UNCHANGED <<txConfWaitQ, isTSed, txconf, cben, bufState, frame, owed, cbuf, how,
                     deallocIdx, buffIdxQ, pc, mbuf, from, stamp, lost, tsInfo, airTs>>
  BY DEF GotTxBuffer, flagVars, commVars, timeVars, histVars, idxVars
<1>2. /\ \A x \in Clients : x # c => cpc'[x] = cpc[x]
      /\ cpc'[c] = "held"
      /\ \A d \in Bufs : nif[d] # "FREE" => nif'[d] = nif[d]
      /\ \A d \in Bufs \ {b} : nif'[d] = nif[d]
  BY <1>1 DEF IInv, TypeOK
<1>3. \A d : /\ HasEntry(d)' <=> HasEntry(d)
             /\ \A i : Waits(i, d)' <=> Waits(i, d)
             /\ Told(d)' <=> Told(d)
             /\ Tracked(d)' <=> Tracked(d)
             /\ InDriver(d)' <=> InDriver(d)
             /\ Awaited(d)' <=> Awaited(d)
             /\ Delivering(d)' <=> Delivering(d)
  BY <1>1 DEF HasEntry, Waits, Told, Tracked, Delivering, InDriver, Awaited
<1>4. OneEntry'
  BY <1>3 DEF Packets, OneEntry
<1>5. Entries'
  <2> SUFFICES ASSUME NEW i \in WaitQ
               PROVE  EntryGood(i)'
    BY DEF Entries
  <2>1. EntryGood(i)
    BY DEF Packets, Entries
  <2>2. txConfWaitQ[i].state # "FREE" => txConfWaitQ[i].bufIdx \in Bufs
    BY DEF IInv, Holders
  <2>3. EntryKept(i)' /\ EntrySent(i)'
    BY <1>1, <1>2, <1>3, <2>1, <2>2 DEF EntryGood, EntryKept, EntrySent
  <2>4. EntryAlloc(i)'
    BY <1>1, <1>2, <2>1, <2>2 DEF EntryGood, EntryAlloc
  <2>5. EntryQueued(i)'
    BY <1>1, <1>2, <1>3, <2>1, <2>2 DEF EntryGood, EntryQueued
  <2>6. EntryDequeued(i)'
    BY <1>1, <1>3, <2>1, <2>2 DEF EntryGood, EntryDequeued
  <2> QED
    BY <2>3, <2>4, <2>5, <2>6 DEF EntryGood
<1>6. AtComms'
  <2>1. pc \in {"tsdone", "txcb", "txend"} => mbuf \in Bufs
    BY DEF IInv, Holders
  <2>2. StampRead' /\ Callback'
    BY <1>1, <1>3 DEF Packets, AtComms, StampRead, Callback
  <2>3. Confirmation'
    BY <1>1, <1>2, <1>3, <2>1 DEF Packets, AtComms, Confirmation
  <2> QED
    BY <2>2, <2>3 DEF AtComms
<1>7. Tracking'
  BY <1>1, <1>2, <1>3 DEF Packets, Tracking
<1>8. Callers'
  <2> SUFFICES ASSUME NEW x \in Clients
               PROVE  Caller(x)'
    BY DEF Callers
  <2>1. x # c /\ cpc[x] # "idle" => cbuf[x] # b /\ cbuf[x] \in Bufs
    BY <1>1, HeldHere
  <2> QED
    BY <1>1, <1>2, <1>3, <2>1 DEF Packets, Callers, Caller
<1>9. Fresh'
  BY <1>1, <1>2 DEF Packets, Fresh, Stamps
<1>10. Owing'
  BY <1>1, <1>3 DEF Packets, Owing, Owed
<1>11. NoSilentLeak'
  BY <1>1, <1>2 DEF Packets, NoSilentLeak
<1>12. StampIsOfThePacket'
  BY <1>1, SameStamp DEF Packets
<1> QED
  BY <1>4, <1>5, <1>6, <1>7, <1>8, <1>9, <1>10, <1>11, <1>12 DEF Packets

\* The buffer that is given back next is in the ring.
LEMMA NextInRing ==
  ASSUME IInv, deallocIdx # dequeueIdx
  PROVE  /\ buffIdxQ[deallocIdx] \in Bufs /\ bufState[buffIdxQ[deallocIdx]] = "DEQUEUED"
         /\ deallocIdx # queueIdx
<1>1. /\ deallocIdx \in Descs /\ dequeueIdx \in Descs /\ queueIdx \in Descs
      /\ dequeueIdx \in Between(deallocIdx, queueIdx) \cup {queueIdx}
  BY DEF IInv, TypeOK, RingConsistent, InRing
<1>2. deallocIdx \in Between(deallocIdx, dequeueIdx)
  BY <1>1, BetweenShrinks
<1>3. Between(deallocIdx, deallocIdx) = {}
  BY <1>1, BetweenSame
<1> QED
  BY <1>1, <1>2, <1>3 DEF IInv, RingConsistent

\* A buffer whose client was told is not in the hands of one that sends it.
LEMMA ToldNotHeld ==
  ASSUME IInv, Packets, NEW c \in Clients, cpc[c] \in {"held", "marked", "xmt"},
         nif[cbuf[c]] = "ALLOC" \/ cpc[c] \in {"marked", "xmt"}
  PROVE  /\ ~Told(cbuf[c])
         /\ ~(pc \in {"txcb", "txend"} /\ mbuf = cbuf[c])
         /\ ~(pc = "tsdone" /\ mbuf = cbuf[c])
         /\ ~(pc = "put" /\ buffIdxQ[deallocIdx] = cbuf[c])
<1>1. cbuf[c] \in Bufs /\ bufState[cbuf[c]] = "ALLOC"
  BY HeldHere
<1>2. ~(pc \in {"txcb", "txend"} /\ mbuf = cbuf[c])
  BY DEF Packets, AtComms, Confirmation
<1>3. ~(pc = "put" /\ buffIdxQ[deallocIdx] = cbuf[c])
  <2>1. pc = "put" => deallocIdx # dequeueIdx
    BY DEF IInv, Holders
  <2> QED
    BY <1>1, <2>1, NextInRing
<1>4. ~(pc = "tsdone" /\ mbuf = cbuf[c])
  BY <1>1 DEF Packets, AtComms, StampRead, InDriver
<1> QED
  BY <1>2, <1>3, <1>4 DEF Told

LEMMA MarkTSPktPackets ==
  ASSUME IInv, Packets, NEW c \in Clients, MarkTSPkt(c)
  PROVE  Packets'
<1> DEFINE b == cbuf[c]
<1>1. /\ cpc[c] = "held" /\ cpc' = [cpc EXCEPT ![c] = "marked"]
      /\ nif[b] = "ALLOC" /\ ~txconf[b] /\ txconf' = [txconf EXCEPT ![b] = TRUE]
      /\ UNCHANGED <<txConfWaitQ, isTSed, nif, cben, bufState, frame, owed, cbuf, how,
                     deallocIdx, buffIdxQ, pc, mbuf, from, stamp, lost, tsInfo, airTs>>
  BY DEF MarkTSPkt, nifVars, commVars, timeVars, histVars, idxVars
<1>2. /\ b \in Bufs /\ bufState[b] = "ALLOC" /\ txconf'[b]
      /\ \A x \in Clients : x # c => cpc'[x] = cpc[x]
      /\ cpc'[c] = "marked"
      /\ \A d \in Bufs \ {b} : txconf'[d] = txconf[d]
      /\ \A x \in Clients : x # c /\ cpc[x] # "idle" => cbuf[x] # b /\ cbuf[x] \in Bufs
  <2>1. b \in Bufs /\ bufState[b] = "ALLOC"
    BY <1>1, HeldHere
  <2> QED
    BY <1>1, <2>1, HeldHere DEF IInv, TypeOK
<1>3. ~HasEntry(b)
  BY <1>1, EntryOfHeld DEF HasEntry
<1>4. \A d : /\ HasEntry(d)' <=> HasEntry(d)
             /\ \A i : Waits(i, d)' <=> Waits(i, d)
             /\ Told(d)' <=> Told(d)
             /\ InDriver(d)' <=> InDriver(d)
             /\ Awaited(d)' <=> Awaited(d)
             /\ Delivering(d)' <=> Delivering(d)
  BY <1>1 DEF HasEntry, Waits, Told, Delivering, InDriver, Awaited
<1>5. \A d \in Bufs \ {b} : Tracked(d)' <=> Tracked(d)
  BY <1>1, <1>2, <1>4 DEF Tracked
<1>6. OneEntry'
  BY <1>4 DEF Packets, OneEntry
<1>7. Entries'
  <2> SUFFICES ASSUME NEW i \in WaitQ
               PROVE  EntryGood(i)'
    BY DEF Entries
  <2>1. EntryGood(i)
    BY DEF Packets, Entries
  <2>2. txConfWaitQ[i].state # "FREE" =>
          txConfWaitQ[i].bufIdx \in Bufs /\ txConfWaitQ[i].bufIdx # b
    BY <1>3 DEF IInv, Holders, HasEntry, Waits
  <2>3. EntryKept(i)' /\ EntrySent(i)'
    BY <1>1, <1>2, <1>4, <2>1, <2>2 DEF EntryGood, EntryKept, EntrySent
  <2>4. EntryAlloc(i)'
    BY <1>1, <1>2, <2>1, <2>2 DEF EntryGood, EntryAlloc
  <2>5. EntryQueued(i)'
    BY <1>1, <1>2, <1>4, <2>1, <2>2 DEF EntryGood, EntryQueued
  <2>6. EntryDequeued(i)'
    BY <1>1, <1>2, <1>4, <2>1, <2>2 DEF EntryGood, EntryDequeued
  <2> QED
    BY <2>3, <2>4, <2>5, <2>6 DEF EntryGood
<1>8. AtComms'
  <2>1. /\ pc \in {"tsdone", "txcb", "txend"} => mbuf \in Bufs /\ mbuf # b
        /\ pc = "put" => buffIdxQ[deallocIdx] \in Bufs /\ buffIdxQ[deallocIdx] # b
    BY <1>1, ToldNotHeld, NextInRing DEF IInv, Holders
  <2>2. StampRead' /\ Callback'
    BY <1>1, <1>2, <1>4, <2>1 DEF Packets, AtComms, StampRead, Callback
  <2>3. Confirmation'
    BY <1>1, <1>2, <1>4, <2>1 DEF Packets, AtComms, Confirmation
  <2> QED
    BY <2>2, <2>3 DEF AtComms
<1>9. Tracking'
  BY <1>1, <1>2, <1>4, <1>5 DEF Packets, Tracking, Awaited, InDriver
<1>10. Callers'
  <2> SUFFICES ASSUME NEW x \in Clients
               PROVE  Caller(x)'
    BY DEF Callers
  <2> QED
    BY <1>1, <1>2, <1>3, <1>4, <1>5 DEF Packets, Callers, Caller
<1>11. Fresh'
  BY <1>1, <1>2 DEF Packets, Fresh, Stamps
<1>12. Owing'
  BY <1>1, <1>2, <1>4 DEF Packets, Owing, Owed
<1>13. NoSilentLeak'
  BY <1>1, <1>2 DEF Packets, NoSilentLeak
<1>14. StampIsOfThePacket'
  BY <1>1, SameStamp DEF Packets
<1> QED
  BY <1>6, <1>7, <1>8, <1>9, <1>10, <1>11, <1>12, <1>13, <1>14 DEF Packets

\* ETHER_TimeAddTxConfWaitQEntry: an entry that was free becomes one of b.
LEMMA AddEntryGives ==
  ASSUME IInv, NEW b \in Bufs
  PROVE  \/ AddEntry(b) = txConfWaitQ
         \/ \E k \in WaitQ :
              /\ txConfWaitQ[k].state = "FREE"
              /\ AddEntry(b)[k].state = "ALLOC" /\ AddEntry(b)[k].bufIdx = b
              /\ \A i \in WaitQ \ {k} : AddEntry(b)[i] = txConfWaitQ[i]
<1> DEFINE free == {i \in WaitQ : txConfWaitQ[i].state = "FREE"}
<1>1. txConfWaitQ \in WaitQType
  BY DEF IInv, TypeOK, WaitQType
<1>2. AddEntry(b) = [i \in WaitQ |->
                       IF i \in First(free)
                       THEN [txConfWaitQ[i] EXCEPT !.state = "ALLOC", !.bufIdx = b]
                       ELSE txConfWaitQ[i]]
  BY DEF AddEntry
<1>3. free \in SUBSET WaitQ
  OBVIOUS
<1>4. CASE First(free) = {}
  BY <1>1, <1>2, <1>4 DEF WaitQType
<1>5. CASE First(free) # {}
  <2>1. PICK k \in First(free) : TRUE
    BY <1>5
  <2>2. k \in free /\ \A i \in First(free) : i = k
    BY <1>3, <2>1, FirstIsOne
  <2> HIDE DEF free
  <2>3. k \in WaitQ /\ txConfWaitQ[k].state = "FREE"
    BY <2>2 DEF free
  <2>4. AddEntry(b)[k] = [txConfWaitQ[k] EXCEPT !.state = "ALLOC", !.bufIdx = b]
    BY <1>2, <2>1, <2>3
  <2>5. AddEntry(b)[k].state = "ALLOC" /\ AddEntry(b)[k].bufIdx = b
    BY <1>1, <2>3, <2>4 DEF WaitQType
  <2>6. \A i \in WaitQ \ {k} : AddEntry(b)[i] = txConfWaitQ[i]
    BY <1>2, <2>2
  <2> QED
    BY <2>3, <2>5, <2>6
<1> QED
  BY <1>4, <1>5

LEMMA EnableEgressTSPackets ==
  ASSUME IInv, Packets, NEW c \in Clients, EnableEgressTS(c)
  PROVE  Packets'
<1> DEFINE b == cbuf[c]
<1>1. /\ cpc[c] = "marked" /\ cpc' = [cpc EXCEPT ![c] = "held"]
      /\ txConfWaitQ' = AddEntry(b)
      /\ isTSed' = [isTSed EXCEPT ![b] = @ \/ AddEntry(b) # txConfWaitQ]
      /\ UNCHANGED <<txconf, nif, cben, bufState, frame, owed, cbuf, how,
                     deallocIdx, buffIdxQ, pc, mbuf, from, stamp, lost, tsInfo, airTs>>
  BY DEF EnableEgressTS, flagVars, commVars, timeVars, histVars, idxVars
<1>2. /\ b \in Bufs /\ bufState[b] = "ALLOC" /\ nif[b] = "ALLOC" /\ txconf[b] /\ ~HasEntry(b)
      /\ \A x \in Clients : x # c => cpc'[x] = cpc[x]
      /\ cpc'[c] = "held"
      /\ \A x \in Clients : x # c /\ cpc[x] # "idle" => cbuf[x] # b /\ cbuf[x] \in Bufs
  <2>1. b \in Bufs /\ bufState[b] = "ALLOC"
    BY <1>1, HeldHere
  <2>2. nif[b] = "ALLOC" /\ txconf[b] /\ ~HasEntry(b)
    BY <1>1 DEF Packets, Callers, Caller
  <2> QED
    BY <1>1, <2>1, <2>2, HeldHere DEF IInv, TypeOK
<1>3. /\ ~Told(b) /\ ~(pc \in {"tsdone", "txcb", "txend"} /\ mbuf = b)
      /\ ~(pc = "put" /\ buffIdxQ[deallocIdx] = b)
  BY <1>1, <1>2, ToldNotHeld
<1>4. \A d : /\ Told(d)' <=> Told(d)
             /\ InDriver(d)' <=> InDriver(d)
             /\ Awaited(d)' <=> Awaited(d)
             /\ Delivering(d)' <=> Delivering(d)
  BY <1>1 DEF Told, Delivering, InDriver, Awaited
<1>5. \A i \in WaitQ : txConfWaitQ[i].state # "FREE" =>
          txConfWaitQ[i].bufIdx \in Bufs /\ txConfWaitQ[i].bufIdx # b
  BY <1>2 DEF IInv, Holders, HasEntry, Waits
<1>6. ASSUME NEW i \in WaitQ, txConfWaitQ'[i] = txConfWaitQ[i]
      PROVE  EntryGood(i)'
  <2>1. EntryGood(i)
    BY DEF Packets, Entries
  <2>2. \A d \in Bufs \ {b} : isTSed'[d] = isTSed[d]
    BY <1>1 DEF IInv, TypeOK
  <2>3. EntryKept(i)' /\ EntrySent(i)'
    BY <1>1, <1>4, <1>5, <1>6, <2>1, <2>2 DEF EntryGood, EntryKept, EntrySent
  <2>4. EntryAlloc(i)'
    BY <1>1, <1>2, <1>6, <2>1 DEF EntryGood, EntryAlloc
  <2>5. EntryQueued(i)'
    BY <1>1, <1>2, <1>4, <1>6, <2>1 DEF EntryGood, EntryQueued
  <2>6. EntryDequeued(i)'
    BY <1>1, <1>4, <1>6, <2>1 DEF EntryGood, EntryDequeued
  <2> QED
    BY <2>3, <2>4, <2>5, <2>6 DEF EntryGood
<1>7. /\ OneEntry' /\ Entries'
      /\ \A d \in Bufs \ {b} : HasEntry(d)' <=> HasEntry(d)
  <2>1. CASE AddEntry(b) = txConfWaitQ
    <3>1. txConfWaitQ' = txConfWaitQ
      BY <1>1, <2>1
    <3> QED
      BY <1>6, <3>1 DEF Packets, OneEntry, Entries, HasEntry, Waits
  <2>2. ASSUME NEW k \in WaitQ, txConfWaitQ[k].state = "FREE",
               AddEntry(b)[k].state = "ALLOC", AddEntry(b)[k].bufIdx = b,
               \A i \in WaitQ \ {k} : AddEntry(b)[i] = txConfWaitQ[i]
        PROVE  /\ OneEntry' /\ Entries'
               /\ \A d \in Bufs \ {b} : HasEntry(d)' <=> HasEntry(d)
    <3>1. /\ txConfWaitQ'[k].state = "ALLOC" /\ txConfWaitQ'[k].bufIdx = b
          /\ \A i \in WaitQ \ {k} : txConfWaitQ'[i] = txConfWaitQ[i]
      BY <1>1, <2>2
    <3>2. \A d \in Bufs \ {b} : HasEntry(d)' <=> HasEntry(d)
      BY <2>2, <3>1 DEF HasEntry, Waits
    <3>3. OneEntry'
      BY <1>5, <2>2, <3>1 DEF Packets, OneEntry, Waits
    <3>4. isTSed'[b]
      <4>1. AddEntry(b) # txConfWaitQ
        BY <2>2
      <4> QED
        BY <1>1, <1>2, <4>1 DEF IInv, TypeOK
    <3>5. EntryGood(k)'
      <4>1. EntryKept(k)'
        BY <1>3, <1>4, <3>1, <3>4 DEF EntryKept
      <4>2. EntryAlloc(k)'
        BY <1>1, <1>2, <3>1 DEF EntryAlloc
      <4>3. EntrySent(k)' /\ EntryQueued(k)' /\ EntryDequeued(k)'
        BY <3>1 DEF EntrySent, EntryQueued, EntryDequeued
      <4> QED
        BY <4>1, <4>2, <4>3 DEF EntryGood
    <3>6. Entries'
      BY <1>6, <3>1, <3>5 DEF Entries
    <3> QED
      BY <3>2, <3>3, <3>6
  <2> QED
    BY <1>2, <2>1, <2>2, AddEntryGives
<1>8. \A d \in Bufs \ {b} : Tracked(d)' <=> Tracked(d)
  BY <1>1, <1>7 DEF Tracked
<1>9. AtComms'
  <2>1. /\ pc \in {"tsdone", "txcb", "txend"} => mbuf \in Bufs /\ mbuf # b
        /\ pc = "put" => buffIdxQ[deallocIdx] \in Bufs /\ buffIdxQ[deallocIdx] # b
    BY <1>3, NextInRing DEF IInv, Holders
  <2>2. StampRead' /\ Callback'
    BY <1>1, <1>4, <1>7, <2>1 DEF Packets, AtComms, StampRead, Callback
  <2>3. Confirmation'
    BY <1>1, <1>2, <1>4, <2>1 DEF Packets, AtComms, Confirmation
  <2> QED
    BY <2>2, <2>3 DEF AtComms
<1>10. Tracking'
  BY <1>1, <1>2, <1>4, <1>8 DEF Packets, Tracking, Awaited, InDriver
<1>11. Callers'
  <2> SUFFICES ASSUME NEW x \in Clients
               PROVE  Caller(x)'
    BY DEF Callers
  <2> QED
    BY <1>1, <1>2, <1>7, <1>8 DEF Packets, Callers, Caller
<1>12. Fresh'
  BY <1>1, <1>2 DEF Packets, Fresh, Stamps
<1>13. Owing'
  BY <1>1, <1>2, <1>4, <1>7 DEF Packets, Owing, Owed
<1>14. NoSilentLeak'
  BY <1>1, <1>2 DEF Packets, NoSilentLeak
<1>15. StampIsOfThePacket'
  BY <1>1, SameStamp DEF Packets
<1> QED
  BY <1>7, <1>9, <1>10, <1>11, <1>12, <1>13, <1>14, <1>15 DEF Packets

\* A client that is refused keeps nothing of the packet.
LEMMA SendRefusedPackets ==
  ASSUME IInv, Packets, NEW c \in Clients, SendRefused(c)
  PROVE  Packets'
<1> DEFINE b == cbuf[c]
<1>1. /\ cpc[c] = "held" /\ nif[b] # "ALLOC"
      /\ cpc' = [cpc EXCEPT ![c] = "idle"] /\ cbuf' = [cbuf EXCEPT ![c] = NoBuf]
      /\ lost' = [lost EXCEPT ![b] = "early"]
      /\ UNCHANGED <<txConfWaitQ, isTSed, txconf, nif, cben, bufState, frame, owed, how,
                     deallocIdx, buffIdxQ, pc, mbuf, from, stamp, tsInfo, airTs>>
  BY DEF SendRefused, nifVars, flagVars, commVars, timeVars, idxVars
<1>2. /\ b \in Bufs /\ bufState[b] = "ALLOC"
      /\ \A x \in Clients : x # c => cpc'[x] = cpc[x] /\ cbuf'[x] = cbuf[x]
      /\ cpc'[c] = "idle" /\ cbuf'[c] = NoBuf
      /\ lost'[b] = "early" /\ \A d \in Bufs \ {b} : lost'[d] = lost[d]
  <2>1. b \in Bufs /\ bufState[b] = "ALLOC"
    BY <1>1, HeldHere
  <2> QED
    BY <1>1, <2>1 DEF IInv, TypeOK
<1>3. \A d : /\ HasEntry(d)' <=> HasEntry(d)
             /\ \A i : Waits(i, d)' <=> Waits(i, d)
             /\ Told(d)' <=> Told(d)
             /\ Tracked(d)' <=> Tracked(d)
             /\ InDriver(d)' <=> InDriver(d)
             /\ Awaited(d)' <=> Awaited(d)
             /\ Delivering(d)' <=> Delivering(d)
  BY <1>1 DEF HasEntry, Waits, Told, Tracked, Delivering, InDriver, Awaited
<1>4. OneEntry'
  BY <1>3 DEF Packets, OneEntry
<1>5. Entries'
  <2> SUFFICES ASSUME NEW i \in WaitQ
               PROVE  EntryGood(i)'
    BY DEF Entries
  <2>1. EntryGood(i)
    BY DEF Packets, Entries
  <2>2. EntryKept(i)' /\ EntrySent(i)' /\ EntryDequeued(i)'
    BY <1>1, <1>3, <2>1 DEF EntryGood, EntryKept, EntrySent, EntryDequeued
  <2>3. EntryAlloc(i)'
    BY <1>1, <1>2, <2>1 DEF EntryGood, EntryAlloc
  <2>4. EntryQueued(i)'
    BY <1>1, <1>2, <1>3, <2>1 DEF EntryGood, EntryQueued
  <2> QED
    BY <2>2, <2>3, <2>4 DEF EntryGood
<1>6. AtComms'
  <2>1. StampRead' /\ Callback'
    BY <1>1, <1>3 DEF Packets, AtComms, StampRead, Callback
  <2>2. Confirmation'
    BY <1>1, <1>2, <1>3 DEF Packets, AtComms, Confirmation
  <2> QED
    BY <2>1, <2>2 DEF AtComms
<1>7. Tracking'
  BY <1>1, <1>3 DEF Packets, Tracking
<1>8. Callers'
  BY <1>1, <1>2, <1>3 DEF Packets, Callers, Caller
<1>9. Fresh'
  BY <1>1, <1>2 DEF Packets, Fresh, Stamps
<1>10. Owing'
  BY <1>1, <1>3 DEF Packets, Owing, Owed
<1>11. NoSilentLeak'
  BY <1>1, <1>2 DEF Packets, NoSilentLeak
<1>12. StampIsOfThePacket'
  BY <1>1, SameStamp DEF Packets
<1> QED
  BY <1>4, <1>5, <1>6, <1>7, <1>8, <1>9, <1>10, <1>11, <1>12 DEF Packets

-----------------------------------------------------------------------------
(* NIF_Send *)

\* The entry a marked packet has is the one ETHER_TimeUpdateTxConfWaitQEntry finds.
LEMMA AllocEntryIs ==
  ASSUME IInv, Packets, NEW c \in Clients, cpc[c] # "idle", nif[cbuf[c]] = "ALLOC",
         NEW i \in WaitQ, Waits(i, cbuf[c])
  PROVE  AllocEntry(cbuf[c]) = {i}
<1> DEFINE found == {k \in WaitQ : txConfWaitQ[k].state = "ALLOC"
                                     /\ txConfWaitQ[k].bufIdx = cbuf[c]}
<1>1. txConfWaitQ[i].state = "ALLOC" /\ txConfWaitQ[i].bufIdx = cbuf[c]
  BY EntryOfHeld DEF Waits
<1>2. found = {i}
  <2>1. cbuf[c] \in Bufs
    BY HeldHere
  <2> QED
    BY <1>1, <2>1 DEF Packets, OneEntry, Waits
<1>3. AllocEntry(cbuf[c]) = First(found)
  BY DEF AllocEntry
<1> QED
  BY <1>2, <1>3, FirstOfOne

LEMMA QueueEntryGives ==
  ASSUME IInv, NEW b \in Bufs, NEW s \in Seqs \cup {Other}
  PROVE  /\ AllocEntry(b) = {} => QueueEntry(b, s) = txConfWaitQ
         /\ \A k \in WaitQ : AllocEntry(b) = {k} =>
              /\ QueueEntry(b, s)[k].state = "QUEUED" /\ QueueEntry(b, s)[k].seq = s
              /\ QueueEntry(b, s)[k].bufIdx = txConfWaitQ[k].bufIdx
              /\ \A i \in WaitQ \ {k} : QueueEntry(b, s)[i] = txConfWaitQ[i]
<1>1. txConfWaitQ \in WaitQType
  BY DEF IInv, TypeOK, WaitQType
<1>2. ASSUME AllocEntry(b) = {}
      PROVE  QueueEntry(b, s) = txConfWaitQ
  BY <1>1, <1>2 DEF QueueEntry, WaitQType
<1>3. ASSUME NEW k \in WaitQ, AllocEntry(b) = {k}
      PROVE  /\ QueueEntry(b, s)[k].state = "QUEUED" /\ QueueEntry(b, s)[k].seq = s
             /\ QueueEntry(b, s)[k].bufIdx = txConfWaitQ[k].bufIdx
             /\ \A i \in WaitQ \ {k} : QueueEntry(b, s)[i] = txConfWaitQ[i]
  <2>1. QueueEntry(b, s)[k] = [txConfWaitQ[k] EXCEPT !.state = "QUEUED", !.seq = s]
    BY <1>3 DEF QueueEntry
  <2>2. txConfWaitQ[k] \in [state : {"FREE", "ALLOC", "QUEUED", "DEQUEUED"},
                            bufIdx : Bufs \cup {NoBuf}, seq : Seqs \cup {Other}]
    BY <1>1 DEF WaitQType
  <2>3. \A i \in WaitQ \ {k} : QueueEntry(b, s)[i] = txConfWaitQ[i]
    BY <1>3 DEF QueueEntry
  <2> QED
    BY <2>1, <2>2, <2>3
<1> QED
  BY <1>2, <1>3

\* The numbers of other packets that can still be transmitted are in use.
LEMMA NumbersInUse ==
  ASSUME NEW s \in Seqs \ InUse
  PROVE  /\ s \notin Stamps
         /\ \A k \in 1 .. Len(airTs) : airTs[k] # s
         /\ \A d \in Bufs : bufState[d] \in {"ALLOC", "QUEUED"} => frame[d] # s
BY DEF InUse

\* The numbers stay fresh when a client gives one to its packet.
LEMMA NumberedPacketIsFresh ==
  ASSUME IInv, Packets, NEW c \in Clients, cpc[c] = "held", NEW s,
         s # Other => s \in Seqs \ InUse,
         frame' = [frame EXCEPT ![cbuf[c]] = s],
         \A x \in Clients : x # c => cpc'[x] = cpc[x] /\ cbuf'[x] = cbuf[x],
         cpc'[c] = "xmt" => cbuf'[c] = cbuf[c],
         UNCHANGED <<bufState, tsInfo, airTs>>
  PROVE  Fresh'
<1> DEFINE b == cbuf[c]
<1>1. /\ b \in Bufs /\ bufState[b] = "ALLOC"
      /\ \A x \in Clients : x # c /\ cpc[x] # "idle" => cbuf[x] # b /\ cbuf[x] \in Bufs
  BY HeldHere
<1>2. frame'[b] = s /\ \A d \in Bufs \ {b} : frame'[d] = frame[d]
  BY <1>1 DEF IInv, TypeOK
<1>3. Stamps' = Stamps
  BY DEF Stamps
<1> SUFFICES ASSUME NEW x \in Clients, cpc'[x] = "xmt", frame'[cbuf'[x]] # Other
             PROVE  /\ frame'[cbuf'[x]] \notin Stamps'
                    /\ \A k \in 1 .. Len(airTs') : airTs'[k] # frame'[cbuf'[x]]
                    /\ \A d \in Bufs \ {cbuf'[x]} : frame'[d] = frame'[cbuf'[x]] =>
                         /\ bufState'[d] # "QUEUED"
                         /\ \A y \in Clients : ~(cpc'[y] = "xmt" /\ cbuf'[y] = d)
  BY DEF Fresh
<1>4. CASE x = c
  <2>1. frame'[cbuf'[x]] = s /\ cbuf'[x] = b
    BY <1>2, <1>4
  <2>2. /\ s \notin Stamps
        /\ \A k \in 1 .. Len(airTs) : airTs[k] # s
        /\ \A d \in Bufs : bufState[d] \in {"ALLOC", "QUEUED"} => frame[d] # s
    BY <2>1, NumbersInUse
  <2>3. ASSUME NEW d \in Bufs \ {b}, frame'[d] = s
        PROVE  /\ bufState'[d] # "QUEUED"
               /\ \A y \in Clients : ~(cpc'[y] = "xmt" /\ cbuf'[y] = d)
    <3>1. bufState[d] \notin {"ALLOC", "QUEUED"}
      BY <1>2, <2>2, <2>3
    <3>2. ASSUME NEW y \in Clients, cpc'[y] = "xmt", cbuf'[y] = d
          PROVE  FALSE
      <4>1. y # c /\ cpc[y] = "xmt" /\ cbuf[y] = d
        BY <2>1, <2>3, <3>2, <1>4
      <4> QED
        BY <3>1, <4>1, HeldHere
    <3> QED
      BY <3>1, <3>2
  <2> QED
    BY <1>3, <2>1, <2>2, <2>3
<1>5. CASE x # c
  <2>1. /\ cpc[x] = "xmt" /\ cbuf'[x] = cbuf[x] /\ cbuf[x] \in Bufs \ {b}
        /\ frame'[cbuf[x]] = frame[cbuf[x]] /\ bufState[cbuf[x]] = "ALLOC"
    BY <1>1, <1>2, <1>5, HeldHere
  <2>2. frame[cbuf[x]] # s
    BY <2>1, NumbersInUse
  <2>3. /\ frame[cbuf[x]] \notin Stamps
        /\ \A k \in 1 .. Len(airTs) : airTs[k] # frame[cbuf[x]]
        /\ \A d \in Bufs \ {cbuf[x]} : frame[d] = frame[cbuf[x]] =>
             /\ bufState[d] # "QUEUED"
             /\ \A y \in Clients : ~(cpc[y] = "xmt" /\ cbuf[y] = d)
    BY <2>1 DEF Packets, Fresh
  <2>4. ASSUME NEW d \in Bufs \ {cbuf[x]}, frame'[d] = frame[cbuf[x]]
        PROVE  /\ bufState'[d] # "QUEUED"
               /\ \A y \in Clients : ~(cpc'[y] = "xmt" /\ cbuf'[y] = d)
    <3>1. d # b /\ frame[d] = frame[cbuf[x]]
      BY <1>2, <2>2, <2>4
    <3>2. ASSUME NEW y \in Clients, cpc'[y] = "xmt", cbuf'[y] = d
          PROVE  FALSE
      <4>1. y # c
        BY <3>1, <3>2
      <4> QED
        BY <2>3, <2>4, <3>1, <3>2, <4>1
    <3> QED
      BY <2>3, <2>4, <3>1, <3>2
  <2> QED
    BY <1>3, <2>1, <2>3, <2>4
<1> QED
  BY <1>4, <1>5

LEMMA SendConfirmedPackets ==
  ASSUME IInv, Packets, NEW c \in Clients, SendConfirmed(c)
  PROVE  Packets'
<1> DEFINE b == cbuf[c]
           noslot == txconf[b] /\ AllocEntry(b) = {}
<1>1. PICK s \in IF txconf[b] THEN Seqs \ InUse ELSE {Other} :
        /\ frame' = [frame EXCEPT ![b] = s]
        /\ txConfWaitQ' = IF txconf[b] THEN QueueEntry(b, s) ELSE txConfWaitQ
  BY DEF SendConfirmed
<1>2. /\ cpc[c] = "held" /\ nif[b] = "ALLOC" /\ nif' = [nif EXCEPT ![b] = "TX"]
      /\ UNCHANGED <<isTSed, txconf, cben, bufState, owed, deallocIdx, buffIdxQ, pc, mbuf,
                     from, stamp, tsInfo, airTs>>
  BY DEF SendConfirmed, flagVars, commVars, timeVars, idxVars
<1>3. /\ b \in Bufs /\ bufState[b] = "ALLOC"
      /\ \A x \in Clients : x # c /\ cpc[x] # "idle" => cbuf[x] # b /\ cbuf[x] \in Bufs
  BY <1>2, HeldHere
<1>4. IF noslot
      THEN /\ cpc' = [cpc EXCEPT ![c] = "idle"] /\ cbuf' = [cbuf EXCEPT ![c] = NoBuf]
           /\ lost' = [lost EXCEPT ![b] = "noslot"] /\ how' = how
      ELSE /\ cpc' = [cpc EXCEPT ![c] = "xmt"] /\ how' = [how EXCEPT ![c] = "conf"]
           /\ cbuf' = cbuf /\ lost' = lost
  BY DEF SendConfirmed
<1>5. /\ \A x \in Clients : x # c => cpc'[x] = cpc[x] /\ cbuf'[x] = cbuf[x] /\ how'[x] = how[x]
      /\ cpc'[c] = "idle" \/ (cpc'[c] = "xmt" /\ cbuf'[c] = b /\ how'[c] = "conf")
      /\ cpc'[c] = "xmt" <=> ~noslot
      /\ \A d \in Bufs \ {b} : nif'[d] = nif[d] /\ frame'[d] = frame[d] /\ lost'[d] = lost[d]
      /\ nif'[b] = "TX" /\ frame'[b] = s
      /\ noslot => lost'[b] = "noslot"
  BY <1>1, <1>2, <1>3, <1>4 DEF IInv, TypeOK
<1>6. s \in Seqs \cup {Other}
  BY <1>1
<1>7. /\ ~Told(b) /\ ~(pc \in {"tsdone", "txcb", "txend"} /\ mbuf = b)
      /\ ~(pc = "put" /\ buffIdxQ[deallocIdx] = b)
  BY <1>2, ToldNotHeld
<1>8. \A d : /\ Told(d)' <=> Told(d)
             /\ InDriver(d)' <=> InDriver(d)
             /\ Awaited(d)' <=> Awaited(d)
             /\ Delivering(d)' <=> Delivering(d)
  BY <1>2 DEF Told, Delivering, InDriver, Awaited
<1>9. ASSUME NEW i \in WaitQ, txConfWaitQ'[i] = txConfWaitQ[i], ~Waits(i, b)
      PROVE  EntryGood(i)'
  <2>1. EntryGood(i)
    BY DEF Packets, Entries
  <2>2. txConfWaitQ[i].state # "FREE" =>
          txConfWaitQ[i].bufIdx \in Bufs /\ txConfWaitQ[i].bufIdx # b
    BY <1>9 DEF IInv, Holders, Waits
  <2>3. EntryKept(i)'
    BY <1>2, <1>8, <1>9, <2>1 DEF EntryGood, EntryKept
  <2>4. EntryAlloc(i)'
    BY <1>2, <1>5, <1>9, <2>1, <2>2 DEF EntryGood, EntryAlloc
  <2>5. EntrySent(i)'
    BY <1>5, <1>9, <2>1, <2>2 DEF EntryGood, EntrySent
  <2>6. EntryQueued(i)'
    BY <1>2, <1>5, <1>8, <1>9, <2>1 DEF EntryGood, EntryQueued
  <2>7. EntryDequeued(i)'
    BY <1>2, <1>8, <1>9, <2>1 DEF EntryGood, EntryDequeued
  <2> QED
    BY <2>3, <2>4, <2>5, <2>6, <2>7 DEF EntryGood
<1>10. /\ OneEntry' /\ Entries'
       /\ \A d \in Bufs : HasEntry(d)' <=> HasEntry(d)
  <2>1. CASE ~HasEntry(b)
    <3>1. txConfWaitQ' = txConfWaitQ
      <4>1. AllocEntry(b) = {}
        BY <2>1 DEF AllocEntry, First, HasEntry, Waits
      <4> QED
        BY <1>1, <1>3, <1>6, <4>1, QueueEntryGives
    <3>2. \A i \in WaitQ : ~Waits(i, b)
      BY <2>1 DEF HasEntry
    <3> QED
      BY <1>9, <3>1, <3>2 DEF Packets, OneEntry, Entries, HasEntry, Waits
  <2>2. ASSUME NEW k \in WaitQ, Waits(k, b)
        PROVE  /\ OneEntry' /\ Entries'
               /\ \A d \in Bufs : HasEntry(d)' <=> HasEntry(d)
    <3>1. txconf[b] /\ AllocEntry(b) = {k}
      BY <1>2, <2>2, EntryOfHeld, AllocEntryIs
    <3>2. /\ txConfWaitQ'[k].state = "QUEUED" /\ txConfWaitQ'[k].seq = s
          /\ txConfWaitQ'[k].bufIdx = b
          /\ \A i \in WaitQ \ {k} : txConfWaitQ'[i] = txConfWaitQ[i]
      BY <1>1, <1>3, <1>6, <2>2, <3>1, QueueEntryGives DEF Waits
    <3>3. \A i \in WaitQ, d \in Bufs : Waits(i, d)' <=> Waits(i, d)
      BY <2>2, <3>2 DEF Waits
    <3>4. \A i \in WaitQ \ {k} : ~Waits(i, b)
      BY <1>3, <2>2 DEF Packets, OneEntry
    <3>5. EntryGood(k)'
      <4>1. isTSed[b] /\ ~Told(b)
        BY <2>2, <1>7 DEF Packets, Entries, EntryGood, EntryKept, Waits
      <4>2. s # Other
        BY <1>1, <3>1, ConstantsAssumption DEF Other
      <4>3. ~noslot
        BY <3>1
      <4>4. EntryKept(k)' /\ EntryAlloc(k)' /\ EntrySent(k)' /\ EntryDequeued(k)'
        BY <1>2, <1>5, <1>8, <3>2, <4>1, <4>2
        DEF EntryKept, EntryAlloc, EntrySent, EntryDequeued
      <4>5. EntryQueued(k)'
        BY <1>2, <1>5, <1>7, <3>1, <3>2, <4>3 DEF EntryQueued
      <4> QED
        BY <4>4, <4>5 DEF EntryGood
    <3>6. Entries'
      BY <1>9, <3>2, <3>4, <3>5 DEF Entries
    <3> QED
      BY <3>3, <3>6 DEF Packets, OneEntry, HasEntry
  <2> QED
    BY <2>1, <2>2 DEF HasEntry
<1>11. \A d \in Bufs \ {b} : Tracked(d)' <=> Tracked(d)
  BY <1>2, <1>5, <1>10 DEF Tracked
<1>12. AtComms'
  <2>1. /\ pc \in {"tsdone", "txcb", "txend"} => mbuf \in Bufs /\ mbuf # b
        /\ pc = "put" => buffIdxQ[deallocIdx] \in Bufs /\ buffIdxQ[deallocIdx] # b
    BY <1>7, NextInRing DEF IInv, Holders
  <2>2. StampRead'
    BY <1>2, <1>8, <1>10, <2>1 DEF Packets, AtComms, StampRead
  <2>3. Confirmation'
    BY <1>2, <1>5, <1>8, <2>1 DEF Packets, AtComms, Confirmation
  <2>4. Callback'
    BY <1>2, <1>5, <1>10, <2>1 DEF Packets, AtComms, Callback
  <2> QED
    BY <2>2, <2>3, <2>4 DEF AtComms
<1>13. Tracking'
  BY <1>2, <1>3, <1>5, <1>8, <1>11 DEF Packets, Tracking, Awaited, InDriver
<1>14. Callers'
  <2> SUFFICES ASSUME NEW x \in Clients
               PROVE  Caller(x)'
    BY DEF Callers
  <2>1. CASE x # c
    BY <1>2, <1>3, <1>5, <1>10, <1>11, <2>1 DEF Packets, Callers, Caller
  <2>2. CASE x = c
    <3>1. ~noslot => Tracked(b)'
      <4>1. ASSUME txconf[b], AllocEntry(b) # {}
            PROVE  HasEntry(b)
        BY <4>1 DEF AllocEntry, First, HasEntry, Waits
      <4>2. ~txconf[b] => s = Other
        BY <1>1
      <4> QED
        BY <1>2, <1>3, <1>5, <1>10, <4>1, <4>2 DEF Tracked
    <3> QED
      BY <1>5, <2>2, <3>1 DEF Caller
  <2> QED
    BY <2>1, <2>2
<1>15. Fresh'
  <2>1. s # Other => s \in Seqs \ InUse
    BY <1>1
  <2> QED
    BY <1>1, <1>2, <1>5, <2>1, NumberedPacketIsFresh
<1>16. Owing'
  BY <1>2, <1>5, <1>8, <1>10 DEF Packets, Owing, Owed
<1>17. NoSilentLeak'
  <2> SUFFICES ASSUME NEW d \in Bufs, bufState'[d] = "ALLOC"
               PROVE  \/ \E x \in Clients : cpc'[x] # "idle" /\ cbuf'[x] = d
                      \/ lost'[d] \in {"early", "noslot"}
    BY DEF NoSilentLeak
  <2>1. CASE d = b
    BY <1>5, <2>1
  <2>2. CASE d # b
    BY <1>2, <1>5, <2>2 DEF Packets, NoSilentLeak
  <2> QED
    BY <2>1, <2>2
<1>18. StampIsOfThePacket'
  BY <1>2, <1>5, <1>7 DEF Packets, StampIsOfThePacket, IInv, Holders
<1> QED
  BY <1>10, <1>12, <1>13, <1>14, <1>15, <1>16, <1>17, <1>18 DEF Packets

\* ETHER_TimeRemoveTxConfWaitQEntry
LEMMA RemoveEntryGives ==
  ASSUME IInv, NEW b \in Bufs, NEW i \in WaitQ
  PROVE  /\ Waits(i, b) /\ txConfWaitQ[i].state # "QUEUED" => RemoveEntry(b)[i] = FreeEntry
         /\ ~Waits(i, b) => RemoveEntry(b)[i] = txConfWaitQ[i]
<1>1. txConfWaitQ[i].state \in {"FREE", "ALLOC", "QUEUED", "DEQUEUED"}
  BY DEF IInv, TypeOK
<1> QED
  BY <1>1 DEF RemoveEntry, Waits

LEMMA SendUnconfirmedPackets ==
  ASSUME IInv, Packets, NEW c \in Clients, NEW what \in {"plain", "free"},
         SendUnconfirmed(c, what)
  PROVE  Packets'
<1> DEFINE b == cbuf[c]
<1>1. PICK s \in IF txconf[b] /\ what = "plain" THEN Seqs \ InUse ELSE {Other} :
        frame' = [frame EXCEPT ![b] = s]
  BY DEF SendUnconfirmed
<1>2. /\ cpc[c] = "held" /\ nif[b] = "ALLOC" /\ nif' = [nif EXCEPT ![b] = "FREE"]
      /\ txConfWaitQ' = IF txconf[b] THEN RemoveEntry(b) ELSE txConfWaitQ
      /\ how' = [how EXCEPT ![c] = what] /\ cpc' = [cpc EXCEPT ![c] = "xmt"]
      /\ UNCHANGED <<isTSed, txconf, cben, bufState, owed, cbuf, lost, deallocIdx, buffIdxQ,
                     pc, mbuf, from, stamp, tsInfo, airTs>>
  BY DEF SendUnconfirmed, flagVars, commVars, timeVars, idxVars
<1>3. /\ b \in Bufs /\ bufState[b] = "ALLOC"
      /\ \A x \in Clients : x # c /\ cpc[x] # "idle" => cbuf[x] # b /\ cbuf[x] \in Bufs
  BY <1>2, HeldHere
<1>4. /\ \A x \in Clients : x # c => cpc'[x] = cpc[x] /\ how'[x] = how[x]
      /\ cpc'[c] = "xmt" /\ how'[c] = what
      /\ \A d \in Bufs \ {b} : nif'[d] = nif[d] /\ frame'[d] = frame[d]
  BY <1>1, <1>2, <1>3 DEF IInv, TypeOK
<1>5. /\ ~Told(b) /\ ~(pc \in {"tsdone", "txcb", "txend"} /\ mbuf = b)
      /\ ~(pc = "put" /\ buffIdxQ[deallocIdx] = b)
  BY <1>2, ToldNotHeld
<1>6. \A d : /\ Told(d)' <=> Told(d)
             /\ InDriver(d)' <=> InDriver(d)
             /\ Awaited(d)' <=> Awaited(d)
             /\ Delivering(d)' <=> Delivering(d)
  BY <1>2 DEF Told, Delivering, InDriver, Awaited
<1>7. ASSUME NEW i \in WaitQ
      PROVE  IF Waits(i, b) THEN txConfWaitQ'[i].state = "FREE"
             ELSE txConfWaitQ'[i] = txConfWaitQ[i]
  <2>1. CASE Waits(i, b)
    <3>1. txConfWaitQ[i].state = "ALLOC" /\ txconf[b]
      BY <1>2, <2>1, EntryOfHeld
    <3> QED
      BY <1>2, <1>3, <2>1, <3>1, RemoveEntryGives DEF FreeEntry
  <2>2. CASE ~Waits(i, b)
    BY <1>2, <1>3, <2>2, RemoveEntryGives
  <2> QED
    BY <2>1, <2>2
<1>8. /\ ~HasEntry(b)'
      /\ \A i \in WaitQ, d \in Bufs \ {b} : Waits(i, d)' <=> Waits(i, d)
      /\ \A d \in Bufs \ {b} : HasEntry(d)' <=> HasEntry(d)
  <2>1. \A i \in WaitQ : ~Waits(i, b)'
    BY <1>2, <1>7 DEF Waits
  <2>2. \A i \in WaitQ, d \in Bufs \ {b} : Waits(i, d)' <=> Waits(i, d)
    BY <1>7 DEF Waits
  <2> QED
    BY <1>2, <2>1, <2>2 DEF HasEntry
<1>9. OneEntry'
  <2>1. \A i \in WaitQ : ~Waits(i, b)'
    BY <1>8 DEF HasEntry
  <2> QED
    BY <1>2, <1>8, <2>1 DEF Packets, OneEntry
<1>10. Entries'
  <2> SUFFICES ASSUME NEW i \in WaitQ
               PROVE  EntryGood(i)'
    BY DEF Entries
  <2>1. CASE Waits(i, b)
    BY <1>7, <2>1
    DEF EntryGood, EntryKept, EntryAlloc, EntrySent, EntryQueued, EntryDequeued
  <2>2. CASE ~Waits(i, b)
    <3>1. EntryGood(i) /\ txConfWaitQ'[i] = txConfWaitQ[i]
      BY <1>7, <2>2 DEF Packets, Entries
    <3>2. txConfWaitQ[i].state # "FREE" =>
            txConfWaitQ[i].bufIdx \in Bufs /\ txConfWaitQ[i].bufIdx # b
      BY <2>2 DEF IInv, Holders, Waits
    <3>3. EntryKept(i)'
      BY <1>2, <1>6, <3>1 DEF EntryGood, EntryKept
    <3>4. EntryAlloc(i)'
      BY <1>2, <1>4, <3>1, <3>2 DEF EntryGood, EntryAlloc
    <3>5. EntrySent(i)'
      BY <1>4, <3>1, <3>2 DEF EntryGood, EntrySent
    <3>6. EntryQueued(i)'
      BY <1>2, <1>4, <1>6, <3>1 DEF EntryGood, EntryQueued
    <3>7. EntryDequeued(i)'
      BY <1>2, <1>6, <3>1 DEF EntryGood, EntryDequeued
    <3> QED
      BY <3>3, <3>4, <3>5, <3>6, <3>7 DEF EntryGood
  <2> QED
    BY <2>1, <2>2
<1>11. \A d \in Bufs \ {b} : Tracked(d)' <=> Tracked(d)
  BY <1>2, <1>4, <1>8 DEF Tracked
<1>12. AtComms'
  <2>1. /\ pc \in {"tsdone", "txcb", "txend"} => mbuf \in Bufs /\ mbuf # b
        /\ pc = "put" => buffIdxQ[deallocIdx] \in Bufs /\ buffIdxQ[deallocIdx] # b
    BY <1>5, NextInRing DEF IInv, Holders
  <2>2. StampRead'
    BY <1>2, <1>6, <1>8, <2>1 DEF Packets, AtComms, StampRead
  <2>3. Confirmation'
    BY <1>2, <1>4, <1>6, <2>1 DEF Packets, AtComms, Confirmation
  <2>4. Callback'
    BY <1>2, <1>4, <1>8, <2>1 DEF Packets, AtComms, Callback
  <2> QED
    BY <2>2, <2>3, <2>4 DEF AtComms
<1>13. Tracking'
  BY <1>2, <1>3, <1>4, <1>6, <1>11 DEF Packets, Tracking, Awaited, InDriver
<1>14. Callers'
  <2> SUFFICES ASSUME NEW x \in Clients
               PROVE  Caller(x)'
    BY DEF Callers
  <2>1. CASE x # c
    BY <1>2, <1>3, <1>4, <1>8, <1>11, <2>1 DEF Packets, Callers, Caller
  <2>2. CASE x = c
    BY <1>2, <1>4, <1>8, <2>2 DEF Caller
  <2> QED
    BY <2>1, <2>2
<1>15. Fresh'
  <2>1. s # Other => s \in Seqs \ InUse
    BY <1>1
  <2> QED
    BY <1>1, <1>2, <1>4, <2>1, NumberedPacketIsFresh
<1>16. Owing'
  BY <1>2, <1>3, <1>4, <1>6, <1>8 DEF Packets, Owing, Owed
<1>17. NoSilentLeak'
  BY <1>2, <1>4 DEF Packets, NoSilentLeak
<1>18. StampIsOfThePacket'
  BY <1>2, <1>4, <1>5 DEF Packets, StampIsOfThePacket, IInv, Holders
<1> QED
  BY <1>9, <1>10, <1>12, <1>13, <1>14, <1>15, <1>16, <1>17, <1>18 DEF Packets

\* ETHER_CntlrXmtSend: the driver takes the packet over, or frees the buffer.
LEMMA XmtSendPackets ==
  ASSUME IInv, Packets, NEW c \in Clients, XmtSend(c)
  PROVE  Packets'
<1> DEFINE b == cbuf[c]
<1>1. /\ cpc[c] = "xmt" /\ cpc' = [cpc EXCEPT ![c] = "idle"]
      /\ cbuf' = [cbuf EXCEPT ![c] = NoBuf] /\ how' = [how EXCEPT ![c] = "none"]
      /\ UNCHANGED <<isTSed, nif, frame, deallocIdx, pc, mbuf, from, stamp, tsInfo, airTs>>
  BY DEF XmtSend, nifVars, commVars, timeVars
<1>2. /\ b \in Bufs /\ bufState[b] = "ALLOC"
      /\ \A x \in Clients : x # c /\ cpc[x] # "idle" => cbuf[x] # b /\ cbuf[x] \in Bufs
  BY <1>1, HeldHere
<1>3. \A x \in Clients : x # c => cpc'[x] = cpc[x] /\ cbuf'[x] = cbuf[x] /\ how'[x] = how[x]
  BY <1>1 DEF IInv, TypeOK
<1>4. cpc'[c] = "idle" /\ how[c] \in {"free", "plain", "conf"}
  BY <1>1 DEF IInv, TypeOK, Packets, Callers, Caller
<1>5. /\ bufState'[b] = IF how[c] = "free" THEN "FREE" ELSE "QUEUED"
      /\ IF how[c] = "free" THEN ~txconf'[b]
         ELSE txconf'[b] = txconf[b] /\ cben'[b] = (how[c] = "conf")
      /\ owed'[b] = IF how[c] = "conf" THEN owed[b] + 1 ELSE owed[b]
      /\ \A d \in Bufs \ {b} : /\ bufState'[d] = bufState[d] /\ cben'[d] = cben[d]
                               /\ txconf'[d] = txconf[d] /\ owed'[d] = owed[d]
                               /\ lost'[d] = lost[d]
      /\ \A i \in Descs \ {queueIdx} : buffIdxQ'[i] = buffIdxQ[i]
      /\ txConfWaitQ' = txConfWaitQ
  <2>1. CASE how[c] = "free"
    <3>1. /\ bufState' = [bufState EXCEPT ![b] = "FREE"]
          /\ cben' = [cben EXCEPT ![b] = FALSE] /\ txconf' = [txconf EXCEPT ![b] = FALSE]
          /\ UNCHANGED <<buffIdxQ, txConfWaitQ, owed, lost>>
      BY <1>2, <2>1 DEF XmtSend, FreedState, IInv, TypeOK
    <3> QED
      BY <1>2, <2>1, <3>1 DEF IInv, TypeOK
  <2>2. CASE how[c] # "free"
    <3>1. IncMod(lastDesc, DescCnt) # currDesc
      BY <1>1, SendFindsRoom
    <3>2. /\ bufState' = [bufState EXCEPT ![b] = "QUEUED"]
          /\ cben' = [cben EXCEPT ![b] = how[c] = "conf"]
          /\ buffIdxQ' = [buffIdxQ EXCEPT ![queueIdx] = b]
          /\ owed' = [owed EXCEPT ![b] = IF how[c] = "conf" THEN @ + 1 ELSE @]
          /\ lost' = [lost EXCEPT ![b] =
                        IF how[c] = "plain" /\ txconf[b] THEN "unconfirmed" ELSE @]
          /\ UNCHANGED <<txconf, txConfWaitQ>>
      BY <1>2, <2>2, <3>1 DEF XmtSend
    <3> QED
      BY <1>2, <2>2, <3>2 DEF IInv, TypeOK
  <2> QED
    BY <2>1, <2>2
<1>6. /\ ~Told(b) /\ ~(pc \in {"tsdone", "txcb", "txend"} /\ mbuf = b)
      /\ ~(pc = "put" /\ buffIdxQ[deallocIdx] = b)
  BY <1>1, ToldNotHeld
<1>7. pc = "put" \/ (pc \in {"txcb", "txend"} /\ from = "pkt")
        => buffIdxQ'[deallocIdx] = buffIdxQ[deallocIdx]
  <2>1. deallocIdx # dequeueIdx => deallocIdx # queueIdx /\ deallocIdx \in Descs
    BY NextInRing DEF IInv, TypeOK
  <2> QED
    BY <1>5, <2>1 DEF IInv, Holders
<1>8. \A d : /\ HasEntry(d)' <=> HasEntry(d)
             /\ \A i : Waits(i, d)' <=> Waits(i, d)
             /\ Told(d)' <=> Told(d)
             /\ Delivering(d)' <=> Delivering(d)
  BY <1>1, <1>5, <1>7 DEF HasEntry, Waits, Told, Delivering
<1>9. \A d \in Bufs \ {b} : /\ InDriver(d)' <=> InDriver(d)
                            /\ Awaited(d)' <=> Awaited(d)
                            /\ Tracked(d)' <=> Tracked(d)
  BY <1>1, <1>5, <1>8 DEF InDriver, Awaited, Tracked
<1>10. OneEntry'
  BY <1>8 DEF Packets, OneEntry
<1>11. Entries'
  <2> SUFFICES ASSUME NEW i \in WaitQ
               PROVE  EntryGood(i)'
    BY DEF Entries
  <2>1. EntryGood(i) /\ txConfWaitQ'[i] = txConfWaitQ[i]
    BY <1>5 DEF Packets, Entries
  <2>2. EntryKept(i)' /\ EntrySent(i)'
    BY <1>1, <1>8, <2>1 DEF EntryGood, EntryKept, EntrySent
  <2>3. CASE Waits(i, b)
    <3>1. HasEntry(b) /\ how[c] = "conf"
      BY <1>1, <2>3 DEF HasEntry, Packets, Callers, Caller
    <3>2. txConfWaitQ[i].state # "ALLOC"
      BY <1>1, <1>2, <2>1, <2>3 DEF EntryGood, EntryAlloc, Waits
    <3>3. txConfWaitQ[i].state # "DEQUEUED"
      BY <1>2, <1>6, <2>1, <2>3 DEF EntryGood, EntryDequeued, Waits, InDriver
    <3>4. EntryAlloc(i)' /\ EntryDequeued(i)'
      BY <2>1, <3>2, <3>3 DEF EntryAlloc, EntryDequeued
    <3>5. EntryQueued(i)'
      BY <1>1, <1>5, <1>6, <2>1, <2>3, <3>1 DEF EntryGood, EntryQueued, Waits, InDriver
    <3> QED
      BY <2>2, <3>4, <3>5 DEF EntryGood
  <2>4. CASE ~Waits(i, b)
    <3>1. txConfWaitQ[i].state # "FREE" =>
            txConfWaitQ[i].bufIdx \in Bufs /\ txConfWaitQ[i].bufIdx # b
      BY <2>4 DEF IInv, Holders, Waits
    <3>2. EntryAlloc(i)'
      BY <1>1, <1>3, <1>5, <2>1, <3>1 DEF EntryGood, EntryAlloc
    <3>3. EntryQueued(i)'
      BY <1>1, <1>3, <1>5, <1>9, <2>1, <3>1 DEF EntryGood, EntryQueued
    <3>4. EntryDequeued(i)'
      BY <1>1, <1>5, <1>9, <2>1, <3>1 DEF EntryGood, EntryDequeued
    <3> QED
      BY <2>2, <3>2, <3>3, <3>4 DEF EntryGood
  <2> QED
    BY <2>3, <2>4
<1>12. AtComms'
  <2>1. /\ pc \in {"tsdone", "txcb", "txend"} => mbuf \in Bufs /\ mbuf # b
        /\ pc = "put" => buffIdxQ[deallocIdx] \in Bufs /\ buffIdxQ[deallocIdx] # b
    BY <1>6, NextInRing DEF IInv, Holders
  <2>2. StampRead'
    BY <1>1, <1>5, <1>8, <1>9, <2>1 DEF Packets, AtComms, StampRead
  <2>3. Confirmation'
    BY <1>1, <1>3, <1>4, <1>5, <1>7, <1>9, <2>1 DEF Packets, AtComms, Confirmation
  <2>4. Callback'
    BY <1>1, <1>5, <1>7, <1>8, <2>1 DEF Packets, AtComms, Callback
  <2> QED
    BY <2>2, <2>3, <2>4 DEF AtComms
<1>13. Tracking'
  <2> SUFFICES ASSUME NEW d \in Bufs, Awaited(d)'
               PROVE  nif'[d] = "TX" /\ Tracked(d)'
    BY DEF Tracking
  <2>1. CASE d = b
    <3>1. how[c] = "conf" /\ txconf'[d] = txconf[d]
      BY <1>4, <1>5, <2>1 DEF Awaited, InDriver
    <3>2. nif[b] = "TX" /\ Tracked(b)
      BY <1>1, <3>1 DEF Packets, Callers, Caller
    <3> QED
      BY <1>1, <1>8, <2>1, <3>1, <3>2 DEF Tracked
  <2>2. CASE d # b
    BY <1>1, <1>9, <2>2 DEF Packets, Tracking
  <2> QED
    BY <2>1, <2>2
<1>14. Callers'
  <2> SUFFICES ASSUME NEW x \in Clients
               PROVE  Caller(x)'
    BY DEF Callers
  <2>1. CASE x # c
    BY <1>1, <1>2, <1>3, <1>5, <1>8, <1>9, <2>1 DEF Packets, Callers, Caller
  <2>2. CASE x = c
    BY <1>4, <2>2 DEF Caller
  <2> QED
    BY <2>1, <2>2
<1>15. Fresh'
  <2> SUFFICES ASSUME NEW x \in Clients, cpc'[x] = "xmt", frame'[cbuf'[x]] # Other
               PROVE  /\ frame'[cbuf'[x]] \notin Stamps'
                      /\ \A k \in 1 .. Len(airTs') : airTs'[k] # frame'[cbuf'[x]]
                      /\ \A d \in Bufs \ {cbuf'[x]} : frame'[d] = frame'[cbuf'[x]] =>
                           /\ bufState'[d] # "QUEUED"
                           /\ \A y \in Clients : ~(cpc'[y] = "xmt" /\ cbuf'[y] = d)
    BY DEF Fresh
  <2>1. x # c /\ cpc[x] = "xmt" /\ cbuf'[x] = cbuf[x] /\ cbuf[x] \in Bufs \ {b}
    BY <1>2, <1>3, <1>4
  <2>2. Stamps' = Stamps
    BY <1>1 DEF Stamps
  <2>3. /\ frame[cbuf[x]] \notin Stamps
        /\ \A k \in 1 .. Len(airTs) : airTs[k] # frame[cbuf[x]]
        /\ \A d \in Bufs \ {cbuf[x]} : frame[d] = frame[cbuf[x]] =>
             /\ bufState[d] # "QUEUED"
             /\ \A y \in Clients : ~(cpc[y] = "xmt" /\ cbuf[y] = d)
    BY <1>1, <2>1 DEF Packets, Fresh
  <2>4. frame[b] # frame[cbuf[x]]
    BY <1>1, <1>2, <2>1, <2>3
  <2> QED
    BY <1>1, <1>3, <1>4, <1>5, <2>1, <2>2, <2>3, <2>4
<1>16. Owing'
  <2> SUFFICES ASSUME NEW d \in Bufs
               PROVE  owed'[d] = IF Owed(d)' THEN 1 ELSE 0
    BY DEF Owing
  <2>1. CASE d = b
    <3>1. owed[b] = 0
      BY <1>2, <1>6 DEF Packets, Owing, Owed, Delivering, Awaited, InDriver
    <3>2. ~Delivering(d)' /\ ~Told(d)'
      BY <1>6, <1>8, <2>1 DEF Delivering
    <3>3. Owed(d)' <=> how[c] = "conf"
      BY <1>4, <1>5, <2>1, <3>2 DEF Owed, Awaited, InDriver
    <3> QED
      BY <1>5, <2>1, <3>1, <3>3
  <2>2. CASE d # b
    BY <1>5, <1>8, <1>9, <2>2 DEF Packets, Owing, Owed
  <2> QED
    BY <2>1, <2>2
<1>17. NoSilentLeak'
  <2> SUFFICES ASSUME NEW d \in Bufs, bufState'[d] = "ALLOC"
               PROVE  \/ \E x \in Clients : cpc'[x] # "idle" /\ cbuf'[x] = d
                      \/ lost'[d] \in {"early", "noslot"}
    BY DEF NoSilentLeak
  <2>1. d # b /\ bufState[d] = "ALLOC" /\ lost'[d] = lost[d]
    BY <1>5
  <2>2. CASE lost[d] \in {"early", "noslot"}
    BY <2>1, <2>2
  <2>3. CASE lost[d] \notin {"early", "noslot"}
    <3>1. PICK x \in Clients : cpc[x] # "idle" /\ cbuf[x] = d
      BY <2>1, <2>3 DEF Packets, NoSilentLeak
    <3> QED
      BY <1>3, <2>1, <3>1
  <2> QED
    BY <2>2, <2>3
<1>18. StampIsOfThePacket'
  BY <1>1, SameStamp DEF Packets
<1> QED
  BY <1>10, <1>11, <1>12, <1>13, <1>14, <1>15, <1>16, <1>17, <1>18 DEF Packets

-----------------------------------------------------------------------------
(* CommsTask *)

\* An entry of a buffer in the ring is one of a packet to be confirmed.
LEMMA EntryInDriver ==
  ASSUME IInv, Packets, pc \notin {"tsdone", "txcb"},
         NEW i \in WaitQ, NEW b \in Bufs, Waits(i, b), InDriver(b)
  PROVE  cben[b]
<1>1. EntryGood(i) /\ txConfWaitQ[i].state \in {"ALLOC", "QUEUED", "DEQUEUED"}
  BY DEF IInv, TypeOK, Packets, Entries, Waits
<1>2. \A c \in Clients : cpc[c] # "idle" => cbuf[c] # b
  BY HeldHere DEF InDriver
<1> QED
  BY <1>1, <1>2 DEF EntryGood, EntryAlloc, EntryQueued, EntryDequeued, Waits, InDriver

\* The buffers that are freed on the way wait for nothing but their stamp.
LEMMA GetTxPktPackets ==
  ASSUME IInv, Packets, GetTxPkt
  PROVE  Packets'
<1>1. PICK stop \in Nearest(deallocIdx, GetStops) :
        /\ bufState' = [b \in Bufs |-> IF b \in Freed(stop) THEN "FREE" ELSE bufState[b]]
        /\ cben' = [b \in Bufs |-> cben[b] /\ b \notin Freed(stop)]
        /\ deallocIdx' = stop
        /\ buffIdxQ' = [i \in Descs |-> IF i \in Between(deallocIdx, stop) THEN NoBuf
                                                                          ELSE buffIdxQ[i]]
        /\ IF stop = dequeueIdx
           THEN pc' = AfterPkts /\ UNCHANGED <<mbuf, from>>
           ELSE pc' = "txcb" /\ mbuf' = buffIdxQ[stop] /\ from' = "pkt"
  BY DEF GetTxPkt
<1>2. /\ pc = "pkts" /\ pc' \in {"tsev", "wait", "txcb"}
      /\ UNCHANGED <<txConfWaitQ, isTSed, nif, txconf, frame, owed, cpc, cbuf, how, stamp, lost,
                     tsInfo, airTs>>
  BY <1>1 DEF GetTxPkt, AfterPkts, nifVars, timeVars, cliVars, histVars
<1>3. /\ deallocIdx \in Descs /\ dequeueIdx \in Descs /\ queueIdx \in Descs
      /\ dequeueIdx \in Between(deallocIdx, queueIdx) \cup {queueIdx}
      /\ stop \in Between(deallocIdx, dequeueIdx) \cup {dequeueIdx}
      /\ stop \in Descs
  BY <1>1 DEF IInv, TypeOK, RingConsistent, InRing, Nearest, GetStops, Between
<1>4. Between(deallocIdx, stop) \subseteq Between(deallocIdx, dequeueIdx)
  BY <1>3, BetweenSplits
<1>5. \A b \in Freed(stop) : b \in Bufs /\ bufState[b] = "DEQUEUED" /\ Quiet(b)
  <2> SUFFICES ASSUME NEW i \in Between(deallocIdx, stop)
               PROVE  /\ buffIdxQ[i] \in Bufs /\ bufState[buffIdxQ[i]] = "DEQUEUED"
                      /\ Quiet(buffIdxQ[i])
    BY DEF Freed
  <2>1. buffIdxQ[i] \in Bufs /\ bufState[buffIdxQ[i]] = "DEQUEUED"
    BY <1>4 DEF IInv, RingConsistent
  <2>2. i \notin GetStops
    <3>1. i \in Descs /\ Ahead(deallocIdx, i, DescCnt) < Ahead(deallocIdx, stop, DescCnt)
      BY DEF Between
    <3>2. i \in GetStops => Ahead(deallocIdx, stop, DescCnt) <= Ahead(deallocIdx, i, DescCnt)
      BY <1>1 DEF Nearest
    <3>3. Ahead(deallocIdx, i, DescCnt) \in Int /\ Ahead(deallocIdx, stop, DescCnt) \in Int
      BY <1>3, <3>1, ConstantsAssumption DEF Ahead, Descs, DescCnt
    <3> QED
      BY <3>1, <3>2, <3>3
  <2> QED
    BY <1>4, <2>1, <2>2 DEF GetStops
<1>6. \A d \in Bufs :
        /\ d \in Freed(stop) => bufState'[d] = "FREE"
        /\ d \notin Freed(stop) => bufState'[d] = bufState[d] /\ cben'[d] = cben[d]
        /\ InDriver(d)' <=> InDriver(d) /\ d \notin Freed(stop)
        /\ bufState'[d] = "ALLOC" <=> bufState[d] = "ALLOC"
        /\ bufState'[d] = "QUEUED" <=> bufState[d] = "QUEUED"
  BY <1>1, <1>5 DEF IInv, TypeOK, InDriver
<1>7. \A d : /\ HasEntry(d)' <=> HasEntry(d)
             /\ \A i : Waits(i, d)' <=> Waits(i, d)
             /\ Tracked(d)' <=> Tracked(d)
             /\ ~Told(d) /\ ~Told(d)' /\ ~Delivering(d)
  BY <1>2 DEF HasEntry, Waits, Tracked, Told, Delivering
<1>8. stop # dequeueIdx =>
        /\ pc' = "txcb" /\ from' = "pkt" /\ mbuf' = buffIdxQ'[deallocIdx']
        /\ mbuf' \in Bufs /\ bufState[mbuf'] = "DEQUEUED"
        /\ cben[mbuf'] /\ ~txconf[mbuf'] /\ mbuf' \notin Freed(stop)
  <2> SUFFICES ASSUME stop # dequeueIdx
               PROVE  /\ pc' = "txcb" /\ from' = "pkt" /\ mbuf' = buffIdxQ'[deallocIdx']
                      /\ mbuf' \in Bufs /\ bufState[mbuf'] = "DEQUEUED"
                      /\ cben[mbuf'] /\ ~txconf[mbuf'] /\ mbuf' \notin Freed(stop)
    OBVIOUS
  <2>1. stop \in Between(deallocIdx, dequeueIdx) /\ ~Quiet(buffIdxQ[stop])
    BY <1>1 DEF Nearest, GetStops
  <2>2. stop \notin Between(deallocIdx, stop)
    BY <1>3, ConstantsAssumption DEF Between, Ahead, Descs, DescCnt
  <2>3. pc' = "txcb" /\ from' = "pkt" /\ mbuf' = buffIdxQ[stop] /\ buffIdxQ'[stop] = buffIdxQ[stop]
    BY <1>1, <1>3, <2>2
  <2>4. buffIdxQ[stop] \in Bufs /\ bufState[buffIdxQ[stop]] = "DEQUEUED"
    BY <2>1 DEF IInv, RingConsistent
  <2>5. \A i \in Between(deallocIdx, stop) : i \in InRing /\ stop \in InRing /\ i # stop
    BY <1>3, <1>4, <2>1, <2>2, BetweenSplits DEF InRing
  <2>6. buffIdxQ[stop] \notin Freed(stop)
    BY <2>5 DEF Freed, IInv, RingConsistent
  <2> QED
    BY <1>1, <2>1, <2>3, <2>4, <2>6 DEF Quiet
<1>9. stop = dequeueIdx => pc' \in {"tsev", "wait"}
  BY <1>1 DEF AfterPkts
<1>10. OneEntry'
  BY <1>7 DEF Packets, OneEntry
<1>11. Entries'
  <2> SUFFICES ASSUME NEW i \in WaitQ
               PROVE  EntryGood(i)'
    BY DEF Entries
  <2>1. EntryGood(i)
    BY DEF Packets, Entries
  <2>2. txConfWaitQ[i].state # "FREE" => txConfWaitQ[i].bufIdx \in Bufs
    BY DEF IInv, Holders
  <2>3. EntryKept(i)' /\ EntryAlloc(i)' /\ EntrySent(i)'
    BY <1>2, <1>7, <2>1 DEF EntryGood, EntryKept, EntryAlloc, EntrySent
  <2>4. EntryQueued(i)'
    BY <1>2, <1>6, <2>1, <2>2 DEF EntryGood, EntryQueued, InDriver
  <2>5. EntryDequeued(i)'
    BY <1>2, <1>5, <1>6, <2>1, <2>2 DEF EntryGood, EntryDequeued, Quiet
  <2> QED
    BY <2>3, <2>4, <2>5 DEF EntryGood
<1>12. AtComms'
  <2>1. CASE stop = dequeueIdx
    BY <1>9, <2>1 DEF AtComms, StampRead, Confirmation, Callback
  <2>2. CASE stop # dequeueIdx
    <3>1. nif[mbuf'] = "TX" /\ Tracked(mbuf')
      BY <1>7, <1>8, <2>2 DEF Packets, Tracking, Awaited, InDriver
    <3>2. \A c \in Clients : cbuf[c] = mbuf' => cpc[c] = "idle"
      BY <1>8, <2>2, HeldHere
    <3> QED
      BY <1>2, <1>7, <1>8, <2>2, <3>1, <3>2
      DEF AtComms, StampRead, Confirmation, Callback, Tracked
  <2> QED
    BY <2>1, <2>2
<1>13. Tracking'
  BY <1>2, <1>6, <1>7 DEF Packets, Tracking, Awaited
<1>14. Callers'
  BY <1>2, <1>7 DEF Packets, Callers, Caller
<1>15. Fresh'
  BY <1>2, <1>6 DEF Packets, Fresh, Stamps
<1>16. Owing'
  <2> SUFFICES ASSUME NEW d \in Bufs
               PROVE  Owed(d)' <=> Owed(d)
    BY <1>2 DEF Packets, Owing
  <2>1. CASE d \in Freed(stop)
    <3>1. ~Delivering(d)'
      BY <1>8, <1>9, <2>1 DEF Delivering
    <3>2. Owed(d) <=> cben[d]
      BY <1>5, <1>7, <2>1 DEF Owed, Awaited, InDriver
    <3>3. Owed(d)' <=> txconf[d] /\ HasEntry(d)
      BY <1>2, <1>6, <1>7, <2>1, <3>1 DEF Owed, Awaited
    <3>4. cben[d] => txconf[d] /\ HasEntry(d)
      BY <1>5, <1>7, <2>1 DEF Packets, Tracking, Tracked, Awaited, InDriver, Quiet
    <3>5. HasEntry(d) => cben[d]
      BY <1>2, <1>5, <2>1, EntryInDriver DEF HasEntry, InDriver
    <3> QED
      BY <3>2, <3>3, <3>4, <3>5
  <2>2. CASE d \notin Freed(stop)
    <3>1. Delivering(d)' => Awaited(d)
      BY <1>7, <1>8, <1>9 DEF Delivering, Awaited, InDriver
    <3> QED
      BY <1>2, <1>6, <1>7, <2>2, <3>1 DEF Owed, Awaited
  <2> QED
    BY <2>1, <2>2
<1>17. NoSilentLeak'
  BY <1>2, <1>6 DEF Packets, NoSilentLeak
<1>18. StampIsOfThePacket'
  BY <1>2, SameStamp DEF Packets
<1> QED
  BY <1>10, <1>11, <1>12, <1>13, <1>14, <1>15, <1>16, <1>17, <1>18 DEF Packets

\* The client has been told: nothing of the packet is left.
LEMMA PutTxPktPackets ==
  ASSUME IInv, Packets, PutTxPkt
  PROVE  Packets'
<1>1. PICK b \in Bufs : b = buffIdxQ[deallocIdx] /\ bufState[b] = "DEQUEUED"
  BY NextInRing DEF PutTxPkt, IInv, Holders
<1>2. /\ pc = "put" /\ pc' = "pkts"
      /\ cben' = [cben EXCEPT ![b] = FALSE] /\ bufState' = [bufState EXCEPT ![b] = "FREE"]
      /\ UNCHANGED <<txConfWaitQ, isTSed, nif, txconf, frame, owed, cpc, cbuf, how, stamp, lost,
                     mbuf, from, tsInfo, airTs>>
  BY <1>1 DEF PutTxPkt, AfterPut, nifVars, timeVars, cliVars, histVars
<1>3. /\ bufState'[b] = "FREE"
      /\ \A d \in Bufs \ {b} : bufState'[d] = bufState[d] /\ cben'[d] = cben[d]
  BY <1>1, <1>2 DEF IInv, TypeOK
<1>4. ~txconf[b] /\ ~HasEntry(b)
  <2>1. Told(b)
    BY <1>1, <1>2 DEF Told
  <2> QED
    BY <1>1, <1>2, <2>1
    DEF Packets, AtComms, Callback, Entries, EntryGood, EntryKept, HasEntry, Waits
<1>5. \A d : /\ HasEntry(d)' <=> HasEntry(d)
             /\ \A i : Waits(i, d)' <=> Waits(i, d)
             /\ Tracked(d)' <=> Tracked(d)
             /\ ~Told(d)' /\ ~Delivering(d) /\ ~Delivering(d)'
             /\ Told(d) <=> d = b
  BY <1>1, <1>2 DEF HasEntry, Waits, Tracked, Told, Delivering
<1>6. /\ \A d \in Bufs \ {b} : InDriver(d)' <=> InDriver(d)
      /\ ~InDriver(b)'
  BY <1>3 DEF InDriver
<1>7. OneEntry'
  BY <1>5 DEF Packets, OneEntry
<1>8. Entries'
  <2> SUFFICES ASSUME NEW i \in WaitQ
               PROVE  EntryGood(i)'
    BY DEF Entries
  <2>1. EntryGood(i)
    BY DEF Packets, Entries
  <2>2. txConfWaitQ[i].state # "FREE" =>
          txConfWaitQ[i].bufIdx \in Bufs /\ txConfWaitQ[i].bufIdx # b
    BY <1>4 DEF IInv, Holders, HasEntry, Waits
  <2>3. EntryKept(i)' /\ EntryAlloc(i)' /\ EntrySent(i)'
    BY <1>2, <1>5, <2>1 DEF EntryGood, EntryKept, EntryAlloc, EntrySent
  <2>4. EntryQueued(i)'
    BY <1>2, <1>3, <1>6, <2>1, <2>2 DEF EntryGood, EntryQueued
  <2>5. EntryDequeued(i)'
    BY <1>2, <1>3, <1>6, <2>1, <2>2 DEF EntryGood, EntryDequeued
  <2> QED
    BY <2>3, <2>4, <2>5 DEF EntryGood
<1>9. AtComms'
  BY <1>2 DEF AtComms, StampRead, Confirmation, Callback
<1>10. Tracking'
  BY <1>2, <1>3, <1>5, <1>6 DEF Packets, Tracking, Awaited
<1>11. Callers'
  BY <1>2, <1>5 DEF Packets, Callers, Caller
<1>12. Fresh'
  BY <1>2, <1>3 DEF Packets, Fresh, Stamps
<1>13. Owing'
  <2> SUFFICES ASSUME NEW d \in Bufs
               PROVE  Owed(d)' <=> Owed(d)
    BY <1>2 DEF Packets, Owing
  <2>1. CASE d = b
    BY <1>1, <1>2, <1>4, <1>5, <1>6, <2>1 DEF Owed, Awaited
  <2>2. CASE d # b
    BY <1>2, <1>3, <1>5, <1>6, <2>2 DEF Owed, Awaited
  <2> QED
    BY <2>1, <2>2
<1>14. NoSilentLeak'
  BY <1>2, <1>3 DEF Packets, NoSilentLeak
<1>15. StampIsOfThePacket'
  BY <1>2, SameStamp DEF Packets
<1> QED
  BY <1>7, <1>8, <1>9, <1>10, <1>11, <1>12, <1>13, <1>14, <1>15 DEF Packets

\* Of the packet that is confirmed the entry goes with its stamp.
LEMMA TxDoneIndPackets ==
  ASSUME IInv, Packets, TxDoneInd
  PROVE  Packets'
<1> DEFINE b == mbuf
<1>1. /\ pc = "txcb" /\ pc' = "txend" /\ b \in Bufs
      /\ UNCHANGED <<nif, bufState, cben, txconf, deallocIdx, buffIdxQ, tsInfo, airTs, mbuf, from,
                     cpc, cbuf, how, frame, lost>>
  BY DEF TxDoneInd, IInv, Holders, flagVars, idxVars, timeVars, cliVars
<1>2. /\ nif[b] = "TX" /\ ~txconf[b] /\ from \in {"pkt", "ts"}
      /\ \A c \in Clients : cbuf[c] = b => cpc[c] \in {"idle", "got", "held"}
      /\ from = "pkt" => b = buffIdxQ[deallocIdx]
      /\ from = "ts" => ~InDriver(b)
      /\ HasEntry(b) \/ frame[b] = Other
  BY <1>1 DEF Packets, AtComms, Confirmation, Callback
<1>3. owed' = [owed EXCEPT ![b] = @ - 1] /\ isTSed' = [isTSed EXCEPT ![b] = FALSE]
  BY <1>2 DEF TxDoneInd
<1>4. /\ owed'[b] = owed[b] - 1
      /\ \A d \in Bufs \ {b} : owed'[d] = owed[d] /\ isTSed'[d] = isTSed[d]
  BY <1>1, <1>3 DEF IInv, TypeOK
<1>5. /\ \A i \in WaitQ : IF Waits(i, b) THEN txConfWaitQ'[i].state = "FREE"
                          ELSE txConfWaitQ'[i] = txConfWaitQ[i]
      /\ frame[b] # Other => stamp' \in {frame[b], Invalid}
  <2>1. txConfWaitQ \in WaitQType
    BY DEF IInv, TypeOK, WaitQType
  <2>2. ASSUME NEW k \in WaitQ, Waits(k, b)
        PROVE  /\ \A i \in WaitQ : IF Waits(i, b) THEN txConfWaitQ'[i].state = "FREE"
                                   ELSE txConfWaitQ'[i] = txConfWaitQ[i]
               /\ frame[b] # Other => stamp' \in {frame[b], Invalid}
    <3>1. EntryGood(k) /\ txConfWaitQ[k].state \in {"FREE", "ALLOC", "QUEUED", "DEQUEUED"}
      BY <2>1 DEF Packets, Entries, WaitQType
    <3>2. txConfWaitQ[k].state = "DEQUEUED"
      BY <1>2, <2>2, <3>1 DEF EntryGood, EntryAlloc, EntryQueued, Waits
    <3>3. isTSed[b] /\ txConfWaitQ[k].seq = frame[b]
      BY <2>2, <3>1, <3>2 DEF EntryGood, EntryKept, EntrySent, Waits
    <3>4. \A i \in WaitQ : Waits(i, b) => i = k
      BY <1>1, <2>2 DEF Packets, OneEntry
    <3>5. {i \in WaitQ : txConfWaitQ[i].state = "DEQUEUED" /\ txConfWaitQ[i].bufIdx = b} = {k}
      BY <2>2, <3>2, <3>4 DEF Waits
    <3>6. DoneEntry(b) = {k}
      BY <3>5, FirstOfOne DEF DoneEntry
    <3>7. (CHOOSE i \in {k} : TRUE) = k
      OBVIOUS
    <3>8. /\ stamp' = ReadTS(frame[b])
          /\ txConfWaitQ' = [i \in WaitQ |-> IF i \in {k} THEN FreeEntry ELSE txConfWaitQ[i]]
      BY <1>2, <3>3, <3>6, <3>7 DEF TxDoneInd
    <3>9. txConfWaitQ'[k].state = "FREE" /\ \A i \in WaitQ \ {k} : txConfWaitQ'[i] = txConfWaitQ[i]
      BY <3>8 DEF FreeEntry
    <3> QED
      BY <2>2, <3>4, <3>8, <3>9 DEF ReadTS
  <2>3. CASE ~HasEntry(b)
    <3>1. DoneEntry(b) = {}
      BY <2>3 DEF DoneEntry, First, HasEntry, Waits
    <3>2. txConfWaitQ' = [i \in WaitQ |-> txConfWaitQ[i]]
      BY <1>2, <3>1 DEF TxDoneInd
    <3>3. \A i \in WaitQ : txConfWaitQ'[i] = txConfWaitQ[i] /\ ~Waits(i, b)
      BY <2>3, <3>2 DEF HasEntry
    <3> QED
      BY <1>2, <2>3, <3>3
  <2> QED
    BY <2>2, <2>3 DEF HasEntry
<1>6. /\ ~HasEntry(b)' /\ \A i \in WaitQ : ~Waits(i, b)'
      /\ \A i \in WaitQ, d \in Bufs \ {b} : Waits(i, d)' <=> Waits(i, d)
      /\ \A d \in Bufs \ {b} : HasEntry(d)' <=> HasEntry(d)
  <2>1. \A i \in WaitQ : ~Waits(i, b)'
    BY <1>1, <1>5 DEF Waits
  <2>2. \A i \in WaitQ, d \in Bufs \ {b} : Waits(i, d)' <=> Waits(i, d)
    BY <1>5 DEF Waits
  <2> QED
    BY <1>1, <2>1, <2>2 DEF HasEntry
<1>7. /\ \A d \in Bufs : InDriver(d)' <=> InDriver(d)
      /\ \A d \in Bufs \ {b} : ~Told(d) /\ ~Told(d)' /\ (Tracked(d)' <=> Tracked(d))
      /\ \A d \in Bufs : ~Delivering(d)' /\ (Delivering(d) <=> d = b)
  BY <1>1, <1>6 DEF InDriver, Told, Tracked, Delivering
<1>8. ~Awaited(b)' /\ \A d \in Bufs \ {b} : Awaited(d)' <=> Awaited(d)
  BY <1>1, <1>2, <1>7 DEF Awaited, Told, InDriver
<1>9. OneEntry'
  BY <1>1, <1>6 DEF Packets, OneEntry
<1>10. Entries'
  <2> SUFFICES ASSUME NEW i \in WaitQ
               PROVE  EntryGood(i)'
    BY DEF Entries
  <2>1. CASE Waits(i, b)
    BY <1>5, <2>1
    DEF EntryGood, EntryKept, EntryAlloc, EntrySent, EntryQueued, EntryDequeued
  <2>2. CASE ~Waits(i, b)
    <3>1. EntryGood(i) /\ txConfWaitQ'[i] = txConfWaitQ[i]
      BY <1>5, <2>2 DEF Packets, Entries
    <3>2. txConfWaitQ[i].state # "FREE" =>
            txConfWaitQ[i].bufIdx \in Bufs /\ txConfWaitQ[i].bufIdx # b
      BY <2>2 DEF IInv, Holders, Waits
    <3>3. EntryKept(i)'
      BY <1>4, <1>7, <3>1, <3>2 DEF EntryGood, EntryKept
    <3>4. EntryAlloc(i)' /\ EntrySent(i)'
      BY <1>1, <3>1 DEF EntryGood, EntryAlloc, EntrySent
    <3>5. EntryQueued(i)'
      BY <1>1, <1>7, <3>1, <3>2 DEF EntryGood, EntryQueued
    <3>6. EntryDequeued(i)'
      BY <1>1, <1>7, <3>1, <3>2 DEF EntryGood, EntryDequeued
    <3> QED
      BY <3>3, <3>4, <3>5, <3>6 DEF EntryGood
  <2> QED
    BY <2>1, <2>2
<1>11. AtComms'
  BY <1>1, <1>2, <1>6, <1>7 DEF AtComms, StampRead, Confirmation, Callback
<1>12. Tracking'
  BY <1>1, <1>7, <1>8 DEF Packets, Tracking
<1>13. Callers'
  <2> SUFFICES ASSUME NEW x \in Clients
               PROVE  Caller(x)'
    BY DEF Callers
  <2>1. CASE cpc[x] \in {"marked", "xmt"}
    <3>1. cbuf[x] \in Bufs \ {b}
      BY <1>2, <2>1, HeldHere
    <3> QED
      BY <1>1, <1>6, <1>7, <3>1 DEF Packets, Callers, Caller
  <2>2. CASE cpc[x] \notin {"marked", "xmt"}
    BY <1>1, <2>2 DEF Caller
  <2> QED
    BY <2>1, <2>2
<1>14. Fresh'
  <2>1. UNCHANGED <<cpc, cbuf, frame, bufState, tsInfo, airTs>> /\ Fresh
    BY <1>1 DEF Packets
  <2> QED
    BY <2>1, SameFresh
<1>15. Owing'
  <2> SUFFICES ASSUME NEW d \in Bufs
               PROVE  owed'[d] = IF Owed(d)' THEN 1 ELSE 0
    BY DEF Owing
  <2>1. CASE d = b
    <3>1. owed[b] = 1
      BY <1>1, <1>7 DEF Packets, Owing, Owed
    <3>2. ~Owed(d)'
      BY <1>1, <1>2, <1>7, <1>8, <2>1 DEF Owed
    <3> QED
      BY <1>4, <2>1, <3>1, <3>2
  <2>2. CASE d # b
    BY <1>1, <1>4, <1>6, <1>7, <1>8, <2>2 DEF Packets, Owing, Owed
  <2> QED
    BY <2>1, <2>2
<1>16. NoSilentLeak'
  BY <1>1, SameLeak DEF Packets
<1>17. StampIsOfThePacket'
  BY <1>1, <1>5 DEF StampIsOfThePacket
<1> QED
  BY <1>9, <1>10, <1>11, <1>12, <1>13, <1>14, <1>15, <1>16, <1>17 DEF Packets

LEMMA TxDoneEndPackets ==
  ASSUME IInv, Packets, TxDoneEnd
  PROVE  Packets'
<1> DEFINE b == mbuf
<1>1. /\ pc = "txend" /\ b \in Bufs /\ pc' = IF from = "pkt" THEN "put" ELSE "ts"
      /\ nif' = [nif EXCEPT ![b] = "FREE"] /\ frame' = [frame EXCEPT ![b] = Other]
      /\ UNCHANGED <<txConfWaitQ, isTSed, bufState, cben, txconf, owed, deallocIdx, buffIdxQ,
                     tsInfo, airTs, cpc, cbuf, how, lost>>
  BY DEF TxDoneEnd, IInv, Holders, flagVars, idxVars, timeVars, cliVars
<1>2. /\ ~txconf[b] /\ from \in {"pkt", "ts"}
      /\ \A c \in Clients : cbuf[c] = b => cpc[c] \in {"idle", "got", "held"}
      /\ from = "pkt" => b = buffIdxQ[deallocIdx]
      /\ from = "ts" => ~InDriver(b)
      /\ ~HasEntry(b)
  BY <1>1 DEF Packets, AtComms, Confirmation, Callback
<1>3. \A d \in Bufs \ {b} : nif'[d] = nif[d] /\ frame'[d] = frame[d]
  BY <1>1 DEF IInv, TypeOK
<1>4. frame'[b] = Other
  BY <1>1 DEF IInv, TypeOK
<1>5. \A d : /\ HasEntry(d)' <=> HasEntry(d)
             /\ \A i : Waits(i, d)' <=> Waits(i, d)
             /\ InDriver(d)' <=> InDriver(d)
             /\ Told(d)' <=> Told(d)
             /\ Awaited(d)' <=> Awaited(d)
             /\ ~Delivering(d) /\ ~Delivering(d)'
  <2>1. \A d : Told(d)' <=> Told(d)
    BY <1>1, <1>2 DEF Told
  <2> QED
    BY <1>1, <2>1 DEF HasEntry, Waits, InDriver, Awaited, Delivering
<1>6. \A d \in Bufs \ {b} : Tracked(d)' <=> Tracked(d)
  BY <1>1, <1>3, <1>5 DEF Tracked
<1>7. ~Awaited(b)
  BY <1>1, <1>2 DEF Awaited, Told
<1>8. OneEntry'
  BY <1>5 DEF Packets, OneEntry
<1>9. Entries'
  <2> SUFFICES ASSUME NEW i \in WaitQ
               PROVE  EntryGood(i)'
    BY DEF Entries
  <2>1. EntryGood(i)
    BY DEF Packets, Entries
  <2>2. txConfWaitQ[i].state # "FREE" =>
          txConfWaitQ[i].bufIdx \in Bufs /\ txConfWaitQ[i].bufIdx # b
    BY <1>2 DEF IInv, Holders, HasEntry, Waits
  <2>3. EntryKept(i)' /\ EntryAlloc(i)' /\ EntrySent(i)'
    BY <1>1, <1>3, <1>5, <2>1, <2>2 DEF EntryGood, EntryKept, EntryAlloc, EntrySent
  <2>4. EntryQueued(i)'
    BY <1>1, <1>5, <2>1 DEF EntryGood, EntryQueued
  <2>5. EntryDequeued(i)'
    BY <1>1, <1>5, <2>1 DEF EntryGood, EntryDequeued
  <2> QED
    BY <2>3, <2>4, <2>5 DEF EntryGood
<1>10. AtComms'
  BY <1>1, <1>2 DEF AtComms, StampRead, Confirmation, Callback
<1>11. Tracking'
  BY <1>3, <1>5, <1>6, <1>7 DEF Packets, Tracking
<1>12. Callers'
  <2> SUFFICES ASSUME NEW x \in Clients
               PROVE  Caller(x)'
    BY DEF Callers
  <2>1. CASE cpc[x] \in {"marked", "xmt"}
    <3>1. cbuf[x] \in Bufs \ {b}
      BY <1>2, <2>1, HeldHere
    <3> QED
      BY <1>1, <1>3, <1>5, <1>6, <3>1 DEF Packets, Callers, Caller
  <2>2. CASE cpc[x] \notin {"marked", "xmt"}
    BY <1>1, <2>2 DEF Caller
  <2> QED
    BY <2>1, <2>2
<1>13. Fresh'
  <2> SUFFICES ASSUME NEW x \in Clients, cpc'[x] = "xmt", frame'[cbuf'[x]] # Other
               PROVE  /\ frame'[cbuf'[x]] \notin Stamps'
                      /\ \A k \in 1 .. Len(airTs') : airTs'[k] # frame'[cbuf'[x]]
                      /\ \A d \in Bufs \ {cbuf'[x]} : frame'[d] = frame'[cbuf'[x]] =>
                           /\ bufState'[d] # "QUEUED"
                           /\ \A y \in Clients : ~(cpc'[y] = "xmt" /\ cbuf'[y] = d)
    BY DEF Fresh
  <2>1. cbuf[x] \in Bufs \ {b} /\ cpc[x] = "xmt"
    BY <1>1, <1>2, HeldHere
  <2>2. frame'[cbuf[x]] = frame[cbuf[x]] /\ Stamps' = Stamps
    BY <1>1, <1>3, <2>1 DEF Stamps
  <2> QED
    BY <1>1, <1>3, <1>4, <2>1, <2>2 DEF Packets, Fresh
<1>14. Owing'
  BY <1>1, <1>5 DEF Packets, Owing, Owed
<1>15. NoSilentLeak'
  BY <1>1, SameLeak DEF Packets
<1>16. StampIsOfThePacket'
  BY <1>1 DEF StampIsOfThePacket
<1> QED
  BY <1>8, <1>9, <1>10, <1>11, <1>12, <1>13, <1>14, <1>15, <1>16 DEF Packets

\* The entry whose stamp has been read is of a packet that was queued: while
\* its client still sends it nothing bears its number.
LEMMA ProcessTSPackets ==
  ASSUME IInv, Packets, ProcessTS
  PROVE  Packets'
<1> DEFINE found == {i \in WaitQ : /\ txConfWaitQ[i].state = "QUEUED"
                                  /\ txConfWaitQ[i].seq \in Stamps}
<1>1. /\ pc = "ts"
      /\ UNCHANGED <<isTSed, nif, bufState, cben, txconf, deallocIdx, buffIdxQ, tsInfo, airTs,
                     from, cpc, cbuf, how, frame, owed, stamp, lost>>
  BY DEF ProcessTS, nifVars, flagVars, idxVars, timeVars, cliVars, histVars
<1>2. CASE First(found) = {}
  <2>1. pc' = "wait" /\ UNCHANGED txConfWaitQ
    BY <1>2 DEF ProcessTS
  <2>2. UNCHANGED packetVars /\ AtRest /\ AtRest' /\ pc' # "txend"
    BY <1>1, <2>1 DEF packetVars, AtRest
  <2> QED
    BY <1>1, <2>2, SamePackets, SameFresh, SameLeak, SameStamp DEF Packets
<1>3. CASE First(found) # {}
  <2>1. PICK k \in First(found) : TRUE
    BY <1>3
  <2>2. found \in SUBSET WaitQ
    OBVIOUS
  <2>3. /\ k \in WaitQ /\ txConfWaitQ[k].state = "QUEUED" /\ txConfWaitQ[k].seq \in Stamps
        /\ First(found) = {k}
    <3>1. k \in found
      BY DEF First
    <3>2. First(found) = {k}
      <4> HIDE DEF found
      <4> QED
        BY <2>2, FirstIsOne
    <3> QED
      BY <3>1, <3>2
  <2>4. (CHOOSE i \in {k} : TRUE) = k
    OBVIOUS
  <2>5. /\ pc' = "tsdone" /\ mbuf' = txConfWaitQ[k].bufIdx
        /\ txConfWaitQ' = [i \in WaitQ |->
                             IF i \in {k} THEN [txConfWaitQ[i] EXCEPT !.state = "DEQUEUED"]
                             ELSE txConfWaitQ[i]]
    BY <2>3, <2>4 DEF ProcessTS
  <2>6. /\ txConfWaitQ'[k].state = "DEQUEUED"
        /\ txConfWaitQ'[k].bufIdx = mbuf' /\ txConfWaitQ'[k].seq = txConfWaitQ[k].seq
        /\ \A i \in WaitQ \ {k} : txConfWaitQ'[i] = txConfWaitQ[i]
    <3>1. txConfWaitQ[k] \in [state : {"FREE", "ALLOC", "QUEUED", "DEQUEUED"},
                              bufIdx : Bufs \cup {NoBuf}, seq : Seqs \cup {Other}]
      BY <2>3 DEF IInv, TypeOK
    <3>2. txConfWaitQ'[k] = [txConfWaitQ[k] EXCEPT !.state = "DEQUEUED"]
      BY <2>3, <2>5
    <3> QED
      BY <2>5, <3>1, <3>2
  <2>7. PICK b \in Bufs : b = mbuf' /\ Waits(k, b)
    BY <2>3, <2>5 DEF IInv, Holders, Waits
  <2>8. EntryGood(k)
    BY <2>3 DEF Packets, Entries
  <2>9. txconf[b] /\ (bufState[b] = "FREE" \/ (InDriver(b) /\ cben[b]))
    <3>1. frame[b] # Other /\ frame[b] \in Stamps
      BY <2>3, <2>7, <2>8 DEF EntryGood, EntrySent, Waits
    <3>2. \A c \in Clients : ~(cpc[c] = "xmt" /\ cbuf[c] = b)
      BY <3>1 DEF Packets, Fresh
    <3> QED
      BY <2>3, <2>7, <2>8, <3>2 DEF EntryGood, EntryQueued, Waits
  <2>10. \A i \in WaitQ, d \in Bufs : Waits(i, d)' <=> Waits(i, d)
    BY <2>3, <2>5, <2>6 DEF Waits
  <2>11. \A d \in Bufs : /\ HasEntry(d)' <=> HasEntry(d)
                         /\ Tracked(d)' <=> Tracked(d)
                         /\ InDriver(d)' <=> InDriver(d)
                         /\ ~Told(d) /\ ~Told(d)'
                         /\ ~Delivering(d) /\ ~Delivering(d)'
                         /\ Awaited(d)' <=> Awaited(d)
    <3>1. \A d \in Bufs : HasEntry(d)' <=> HasEntry(d)
      BY <2>10 DEF HasEntry
    <3> QED
      BY <1>1, <2>5, <3>1 DEF Tracked, InDriver, Told, Delivering, Awaited
  <2>12. OneEntry'
    BY <2>10 DEF Packets, OneEntry
  <2>13. Entries'
    <3> SUFFICES ASSUME NEW i \in WaitQ
                 PROVE  EntryGood(i)'
      BY DEF Entries
    <3>1. CASE i = k
      <4>1. isTSed[b] /\ nif[b] = "TX" /\ txConfWaitQ[k].seq = frame[b] /\ frame[b] # Other
        BY <2>3, <2>7, <2>8 DEF EntryGood, EntryKept, EntrySent, Waits
      <4>2. EntryKept(i)' /\ EntrySent(i)'
        BY <1>1, <2>6, <2>7, <2>11, <3>1, <4>1 DEF EntryKept, EntrySent
      <4>3. EntryAlloc(i)' /\ EntryQueued(i)' /\ EntryDequeued(i)'
        BY <2>5, <2>6, <3>1 DEF EntryAlloc, EntryQueued, EntryDequeued
      <4> QED
        BY <4>2, <4>3 DEF EntryGood
    <3>2. CASE i # k
      <4>1. EntryGood(i) /\ txConfWaitQ'[i] = txConfWaitQ[i]
        BY <2>6, <3>2 DEF Packets, Entries
      <4>2. txConfWaitQ[i].state # "FREE" =>
              txConfWaitQ[i].bufIdx \in Bufs /\ txConfWaitQ[i].bufIdx # b
        BY <2>3, <2>7, <3>2 DEF IInv, Holders, Packets, OneEntry, Waits
      <4>3. EntryKept(i)' /\ EntryAlloc(i)' /\ EntrySent(i)'
        BY <1>1, <2>11, <4>1, <4>2 DEF EntryGood, EntryKept, EntryAlloc, EntrySent
      <4>4. EntryQueued(i)'
        BY <1>1, <2>7, <2>11, <4>1, <4>2 DEF EntryGood, EntryQueued
      <4>5. EntryDequeued(i)'
        BY <1>1, <2>11, <4>1, <4>2 DEF EntryGood, EntryDequeued
      <4> QED
        BY <4>3, <4>4, <4>5 DEF EntryGood
    <3> QED
      BY <3>1, <3>2
  <2>14. AtComms'
    <3>1. HasEntry(b)
      BY <2>3, <2>7 DEF HasEntry
    <3>2. StampRead'
      BY <1>1, <2>5, <2>7, <2>9, <2>11, <3>1 DEF StampRead
    <3> QED
      BY <2>5, <3>2 DEF AtComms, Confirmation, Callback
  <2>15. Tracking'
    BY <1>1, <2>11 DEF Packets, Tracking
  <2>16. Callers'
    <3>1. \A c \in Clients : cpc[c] # "idle" => cbuf[c] \in Bufs
      BY DEF IInv, Holders
    <3> QED
      BY <1>1, <2>11, <3>1 DEF Packets, Callers, Caller
  <2>17. Fresh'
    BY <1>1, SameFresh DEF Packets
  <2>18. Owing'
    BY <1>1, <2>11 DEF Packets, Owing, Owed
  <2>19. NoSilentLeak'
    BY <1>1, SameLeak DEF Packets
  <2>20. StampIsOfThePacket'
    BY <2>5 DEF StampIsOfThePacket
  <2> QED
    BY <2>12, <2>13, <2>14, <2>15, <2>16, <2>17, <2>18, <2>19, <2>20 DEF Packets
<1> QED
  BY <1>2, <1>3

\* The packet that waited for its stamp only is confirmed now; one that is
\* still in the ring when CommsTask comes to it there.
LEMMA TxTSDoneIndPackets ==
  ASSUME IInv, Packets, TxTSDoneInd
  PROVE  Packets'
<1> DEFINE b == mbuf
<1>1. /\ pc = "tsdone" /\ b \in Bufs
      /\ txconf' = [txconf EXCEPT ![b] = @ /\ bufState[b] = "ALLOC"]
      /\ UNCHANGED <<txConfWaitQ, isTSed, nif, bufState, cben, deallocIdx, buffIdxQ, tsInfo, airTs,
                     cpc, cbuf, how, frame, owed, stamp, lost>>
  BY DEF TxTSDoneInd, IInv, Holders, nifVars, idxVars, timeVars, cliVars, histVars
<1>2. txconf[b] /\ HasEntry(b) /\ (bufState[b] = "FREE" \/ (InDriver(b) /\ cben[b]))
  BY <1>1 DEF Packets, AtComms, StampRead
<1>3. /\ ~txconf'[b] /\ \A d \in Bufs \ {b} : txconf'[d] = txconf[d]
      /\ IF bufState[b] = "FREE" THEN pc' = "txcb" /\ from' = "ts" /\ mbuf' = b
         ELSE pc' = "ts"
  <2>1. bufState[b] # "ALLOC"
    BY <1>2 DEF InDriver
  <2> QED
    BY <1>1, <1>2, <2>1 DEF TxTSDoneInd, IInv, TypeOK
<1>4. \A c \in Clients : cpc[c] # "idle" => cbuf[c] \in Bufs \ {b}
  BY <1>2, HeldHere DEF InDriver
<1>5. PICK k \in WaitQ : Waits(k, b)
  BY <1>2 DEF HasEntry
<1>6. EntryGood(k) /\ txConfWaitQ[k].state \in {"ALLOC", "QUEUED", "DEQUEUED"}
  BY <1>5 DEF IInv, TypeOK, Packets, Entries, Waits
<1>7. txConfWaitQ[k].state = "DEQUEUED"
  BY <1>1, <1>4, <1>5, <1>6 DEF EntryGood, EntryAlloc, EntryQueued, Waits
<1>8. nif[b] = "TX"
  BY <1>5, <1>6, <1>7 DEF EntryGood, EntrySent, Waits
<1>9. \A i \in WaitQ \ {k} : ~Waits(i, b)
  BY <1>1, <1>5 DEF Packets, OneEntry
<1>10. \A d : /\ HasEntry(d)' <=> HasEntry(d)
              /\ \A i : Waits(i, d)' <=> Waits(i, d)
              /\ InDriver(d)' <=> InDriver(d)
              /\ ~Told(d) /\ ~Told(d)' /\ ~Delivering(d)
              /\ Awaited(d)' <=> Awaited(d)
  <2>1. \A d : ~Told(d) /\ ~Told(d)' /\ ~Delivering(d)
    BY <1>1, <1>3 DEF Told, Delivering
  <2> QED
    BY <1>1, <2>1 DEF HasEntry, Waits, InDriver, Awaited
<1>11. \A d \in Bufs : Delivering(d)' <=> d = b /\ bufState[b] = "FREE"
  BY <1>3 DEF Delivering
<1>12. \A d \in Bufs \ {b} : Tracked(d)' <=> Tracked(d)
  BY <1>1, <1>3, <1>10 DEF Tracked
<1>13. OneEntry'
  BY <1>10 DEF Packets, OneEntry
<1>14. Entries'
  <2> SUFFICES ASSUME NEW i \in WaitQ
               PROVE  EntryGood(i)'
    BY DEF Entries
  <2>1. EntryGood(i) /\ txConfWaitQ'[i] = txConfWaitQ[i]
    BY <1>1 DEF Packets, Entries
  <2>2. EntryKept(i)' /\ EntrySent(i)'
    BY <1>1, <1>10, <2>1 DEF EntryGood, EntryKept, EntrySent
  <2>3. CASE i = k
    <3>1. txConfWaitQ[i].bufIdx = b
      BY <1>5, <2>3 DEF Waits
    <3>2. EntryDequeued(i)'
      BY <1>1, <1>2, <1>3, <1>10, <2>1, <3>1 DEF EntryDequeued
    <3>3. EntryAlloc(i)' /\ EntryQueued(i)'
      BY <1>7, <2>1, <2>3 DEF EntryAlloc, EntryQueued
    <3> QED
      BY <2>2, <3>2, <3>3 DEF EntryGood
  <2>4. CASE i # k
    <3>1. txConfWaitQ[i].state # "FREE" =>
            txConfWaitQ[i].bufIdx \in Bufs /\ txConfWaitQ[i].bufIdx # b
      BY <1>9, <2>4 DEF IInv, Holders, Waits
    <3>2. EntryAlloc(i)'
      BY <1>1, <1>3, <2>1, <3>1 DEF EntryGood, EntryAlloc
    <3>3. EntryQueued(i)'
      BY <1>1, <1>3, <1>10, <2>1, <3>1 DEF EntryGood, EntryQueued
    <3>4. EntryDequeued(i)'
      BY <1>1, <1>3, <1>10, <2>1, <3>1 DEF EntryGood, EntryDequeued
    <3> QED
      BY <2>2, <3>2, <3>3, <3>4 DEF EntryGood
  <2> QED
    BY <2>3, <2>4
<1>15. AtComms'
  <2>1. CASE bufState[b] = "FREE"
    <3>1. pc' = "txcb" /\ from' = "ts" /\ mbuf' = b
      BY <1>3, <2>1
    <3>2. StampRead' /\ Callback'
      BY <1>2, <1>10, <3>1 DEF StampRead, Callback
    <3>3. \A c \in Clients : cbuf[c] = b => cpc[c] = "idle"
      BY <1>4
    <3>4. Confirmation'
      BY <1>1, <1>3, <1>8, <1>10, <2>1, <3>1, <3>3 DEF Confirmation, InDriver
    <3> QED
      BY <3>2, <3>4 DEF AtComms
  <2>2. CASE bufState[b] # "FREE"
    BY <1>3, <2>2 DEF AtComms, StampRead, Confirmation, Callback
  <2> QED
    BY <2>1, <2>2
<1>16. Tracking'
  <2> SUFFICES ASSUME NEW d \in Bufs, Awaited(d)'
               PROVE  nif'[d] = "TX" /\ Tracked(d)'
    BY DEF Tracking
  <2>1. CASE d = b
    BY <1>1, <1>2, <1>8, <1>10, <2>1 DEF Tracked
  <2>2. CASE d # b
    BY <1>1, <1>10, <1>12, <2>2 DEF Packets, Tracking
  <2> QED
    BY <2>1, <2>2
<1>17. Callers'
  BY <1>1, <1>3, <1>4, <1>10, <1>12 DEF Packets, Callers, Caller
<1>18. Fresh'
  <2>1. UNCHANGED <<cpc, cbuf, frame, bufState, tsInfo, airTs>> /\ Fresh
    BY <1>1 DEF Packets
  <2> QED
    BY <2>1, SameFresh
<1>19. Owing'
  <2> SUFFICES ASSUME NEW d \in Bufs
               PROVE  Owed(d)' <=> Owed(d)
    BY <1>1 DEF Packets, Owing
  <2>1. CASE d = b
    BY <1>1, <1>2, <1>3, <1>10, <1>11, <2>1 DEF Owed, InDriver, Awaited
  <2>2. CASE d # b
    BY <1>1, <1>3, <1>10, <1>11, <2>2 DEF Owed
  <2> QED
    BY <2>1, <2>2
<1>20. NoSilentLeak'
  BY <1>1, SameLeak DEF Packets
<1>21. StampIsOfThePacket'
  BY <1>3 DEF StampIsOfThePacket
<1> QED
  BY <1>13, <1>14, <1>15, <1>16, <1>17, <1>18, <1>19, <1>20, <1>21 DEF Packets

-----------------------------------------------------------------------------
LEMMA NextPackets == IInv /\ Packets /\ [Next]_vars => Packets'
<1> SUFFICES ASSUME IInv, Packets, [Next]_vars PROVE Packets'
  OBVIOUS
<1>1. ASSUME NEW c \in Clients, Client(c)
      PROVE  Packets'
  <2>1. ASSUME NEW what \in Sends, SendUnconfirmed(c, what)
        PROVE  Packets'
    BY <2>1, SendUnconfirmedPackets, ConstantsAssumption
  <2> QED
    BY <1>1, <2>1, GetTxBufferPackets, GotTxBufferPackets, MarkTSPktPackets,
       EnableEgressTSPackets, SendRefusedPackets, SendConfirmedPackets, XmtSendPackets
    DEF Client
<1>2. CASE Transmit \/ IrqAck \/ DequeueXmtCompPkts \/ TimestampIRQ
  BY <1>2, TransmitPackets, IrqAckPackets, DequeueXmtCompPktsPackets, TimestampIRQPackets
<1>3. CASE Comms
  BY <1>3, GetEventPackets, ClearEventPackets, GetTxPktPackets, TxDoneIndPackets,
     TxDoneEndPackets, PutTxPktPackets, ProcessTSPackets, TxTSDoneIndPackets DEF Comms
<1>4. CASE UNCHANGED vars
  <2>1. /\ UNCHANGED packetVars
        /\ UNCHANGED <<pc, mbuf, from, stamp, lost, tsInfo, airTs>>
    BY <1>4 DEF vars, packetVars, nifVars, flagVars, idxVars, timeVars, commVars, cliVars,
         histVars
  <2> QED
    BY <2>1, SamePackets, SameFresh, SameLeak, SameStamp DEF Packets, packetVars
<1> QED
  BY <1>1, <1>2, <1>3, <1>4 DEF Next

LEMMA PacketsInductive == Spec => [](IInv /\ Packets)
<1>1. Init => IInv /\ Packets
  BY InitInv, InitPackets
<1>2. (IInv /\ Packets) /\ [Next]_vars => (IInv /\ Packets)'
  BY NextInv, NextPackets
<1> QED
  BY <1>1, <1>2, PTL DEF Spec

(* No buffer is lost without a word: one that the driver holds allocated   *)
(* is in the hands of a client, or the client was refused it, by a buffer  *)
(* that came too early or for want of an entry of the wait queue.  No other *)
(* error path of NIF_Send and ETHER_Send leaves a buffer with nobody.      *)
THEOREM NoBufferLeaksSilently == Spec => []NoSilentLeak
<1>1. IInv /\ Packets => NoSilentLeak
  BY DEF Packets
<1> QED
  BY <1>1, PacketsInductive, PTL

(* A confirmation is owed from the send to the callback, and once: also to *)
(* a packet whose stamp and whose buffer come back in either order.        *)
THEOREM PacketConfirmedOnce == Spec => []ConfirmedOnce
<1>1. IInv /\ Packets => ConfirmedOnce
  <2> SUFFICES ASSUME IInv, Packets, NEW b \in Bufs
               PROVE  /\ owed[b] \in {0, 1}
                      /\ b \in Allocatable => owed[b] = 0 \/ Delivering(b)
    BY DEF ConfirmedOnce
  <2>1. owed[b] = IF Owed(b) THEN 1 ELSE 0
    BY DEF Packets, Owing
  <2> QED
    BY <2>1 DEF Owed, Awaited, InDriver, Allocatable
<1> QED
  BY <1>1, PacketsInductive, PTL

(* The stamp a client is given with its confirmation is the one of this    *)
(* packet, or word that it is gone, for any number of packets on their way *)
(* and however many stamps have been overwritten.                          *)
THEOREM StampBelongsToThePacket == Spec => []StampIsOfThePacket
<1>1. IInv /\ Packets => StampIsOfThePacket
  BY DEF Packets
<1> QED
  BY <1>1, PacketsInductive, PTL
=============================================================================
